CONSTANTS
  Slots = 12
  Names = {"", "mm", "ms", "door", "r", "count", "g"}
  Levels <- Maps
SPECIFICATION FairSpec
INVARIANTS
  TypeOK
  OnceFires
  CounterNotLost
  LampShowsButton
  NoneStuck
PROPERTIES
  KeepsAgenda
  NothingHangs
