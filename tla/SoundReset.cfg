CONSTANTS
  MaxSounds = 3
  MaxClients = 2
  Pool = {0, 1, 2}
  Empty = Empty
  Monster = {a, b}
  Null = Null
  SaveLoad = FALSE
SPECIFICATION Spec
SYMMETRY Listeners
INVARIANTS
  ReservedActive
