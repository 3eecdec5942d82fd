SPECIFICATION FairSpec
CONSTANTS
  MaxLines = 3
  MaxNews = 1
  News = {"show", "die"}
  Hwm = 1
INVARIANTS
  TypeOK
  SentAsTyped
  NothingAfterQuit
PROPERTIES
  QuitIsReceived
  
  
CHECK_DEADLOCK FALSE
