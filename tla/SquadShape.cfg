CONSTANTS
  m1 = m1
  m2 = m2
  m3 = m3
  m4 = m4
  Monster = {m1, m2, m3, m4}
  NULL = NULL
  NoSlot = NoSlot
  Engage = {}
  Grenade = {}
  SplitSlot = 10
  MaxSquad = 3
  Named = {m1, m2, m3, m4}
  Flagged = {m1, m2}
  Gambler = {}
  LateSpawn = TRUE
  DieUnstarted = FALSE
  SaveLoad = TRUE
  KillTarget = TRUE
  Enemy = {}
SPECIFICATION Spec
CHECK_DEADLOCK FALSE
SYMMETRY Pairs
INVARIANTS
  FollowerListed
  LeaderLeads
