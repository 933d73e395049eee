CONSTANTS
  Player = {p1, p2}
  Weapon = {w1, w2, w3}
  None = None
  Class <- Kinds
  Ammo = {"9mm", "crab"}
  AmmoOf <- Rounded
  MaxClip <- Clips
  MaxAmmo <- Carried
  DefaultAmmo <- Given
  Weight <- Weights
  Exhaustible = {"crab"}
  Chambered = {"glock"}
  Equipment = "glock"
  MaxSupply = 3
SYMMETRY Symmetry
CHECK_DEADLOCK FALSE
SPECIFICATION Spec
INVARIANTS
  TypeOK
  Held
  Armed
PROPERTIES
  AmmoKept
