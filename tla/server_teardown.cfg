SPECIFICATION Spec
CONSTANTS
  N = 2
  MayFail = {1, 2}
INVARIANTS
  TypeOK
  
CHECK_DEADLOCK FALSE
