SPECIFICATION FairSpec
CONSTANTS
  N = 2
  MayFail = {}
PROPERTIES
  FinishIsTold
CHECK_DEADLOCK FALSE
