SPECIFICATION FairSpec
CONSTANTS
  Clients = {"k1", "k2"}
  Ships = {"SHIP", "sloop"}
  Bodies = {"a", "b", "c"}
CHECK_DEADLOCK FALSE
INVARIANTS TypeOK CrashNeedsMixing
PROPERTIES UpKeepsOrder DownKeepsOrder InputReachesDeck
