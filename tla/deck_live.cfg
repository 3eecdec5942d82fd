SPECIFICATION FairSpec
CONSTANTS
  k1 = k1  k2 = k2  k3 = k3
  anne = anne  bart = bart  cora = cora
  lobby = lobby  brig = brig  t1 = t1  t2 = t2
  Clients = {k1, k2}
  Names = {anne, bart}
  NoName = NoName
  NameOf <- OwnNames
  Cabins = {lobby, brig}
  DefaultCabin = lobby
  NoCabin = NoCabin
  NoClient = NoClient
  Texts = {t1}
  MaxCommands = 2
  MaxUint = 3
  Hwm = 3
  TornReads = FALSE
CHECK_DEADLOCK FALSE
INVARIANTS LobbyFollowsDeck
PROPERTIES TextReachesCrew
