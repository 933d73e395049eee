CONSTANTS
  MaxSounds = 3
  MaxClients = 1
  Pool = {0, 1, 2}
  Empty = Empty
  Monster = {a, b}
  Null = Null
  SaveLoad = TRUE
SPECIFICATION FairSpec
INVARIANTS
  TypeOK
  OnOneList
  ReservedActive
  ReactsToHeard
  ChainsEnd
PROPERTIES
  ExpiredFreed
  ChainSpec
