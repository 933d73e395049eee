CONSTANTS
  d1 = d1
  d2 = d2
  d3 = d3
  d4 = d4
  d5 = d5
  Door = {d1, d2, d3, d4, d5}
  Group <- Pieces
  Mastered = {d1, d3}
  Named = {d1, d2, d4}
  Toggle = {d2, d5}
  UseOnly = {d4}
  Stays = {d4}
  Rotating = {d1, d2}
  TopFires <- OpenFires
  BottomFires <- ShutFires
SPECIFICATION FairSpec
INVARIANTS
  TypeOK
  ThinkFits
  TouchBack
PROPERTIES
  LockedStaysShut
  Returns
