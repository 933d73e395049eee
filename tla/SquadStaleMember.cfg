CONSTANTS
  m1 = m1
  m2 = m2
  m3 = m3
  m4 = m4
  Monster = {m1, m2, m3}
  NULL = NULL
  NoSlot = NoSlot
  Engage = {0}
  Grenade = {2, 3}
  SplitSlot = 10
  MaxSquad = 3
  Named = {}
  Flagged = {}
  Gambler = {m1, m2, m3}
  LateSpawn = FALSE
  DieUnstarted = FALSE
  SaveLoad = FALSE
  KillTarget = FALSE
  Enemy = {e1, e2}
SPECIFICATION Spec
SYMMETRY Symmetric
CHECK_DEADLOCK FALSE
INVARIANTS
  ListedFollows
