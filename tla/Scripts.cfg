CONSTANTS
  p = p
  q = q
  a = a
  b = b
  c = c
  d = d
  None = None
  Monster = {p, q}
  Script = {a, b, c, d}
  Name <- Names
  Wants <- Wanted
  ByClass = {d}
  MoveTo <- Moves
  AI = {c}
  Idles = {d}
  Plays = {a, b, d}
  Override = {b}
  Repeatable = {b}
  NoInterrupt = {b, d}
  Fires <- Fired
  Scenes <- Maps
  Moods = {"idle", "alert"}
  MaxDelay = 2
CHECK_DEADLOCK FALSE
SPECIFICATION FairSpec
INVARIANTS
  TypeOK
  Linked
  ScriptFound
  Balanced
  NoneUndead
PROPERTIES
  Together
  LetGo
