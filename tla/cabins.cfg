SPECIFICATION FairSpec
CONSTANTS
  c1 = c1  c2 = c2  c3 = c3
  k1 = k1  k2 = k2
  Default = Default  Lobby2 = Lobby2  Lobby3 = Lobby3
  Cabins = {c1, c2, c3}
  Titles = {Default, Lobby2, Lobby3}
  TitleOf <- OwnTitles
  NoCabin = NoCabin
  NoTitle = NoTitle
  Crew = {k1, k2}
  MaxUint = 3
  MaxTold = 4
CHECK_DEADLOCK FALSE
INVARIANTS TypeOK DefaultIsEntered EnteredMeansListening CountsUnlessOverwritten
PROPERTIES
  ConstructorReturns
