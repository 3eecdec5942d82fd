SPECIFICATION Spec
CONSTANTS
  Clients = {"k1", "k2"}
  Ships = {}
  Bodies = {"a", "b", "c"}
CHECK_DEADLOCK FALSE
INVARIANTS MessagesArriveWhole
