CONSTANTS
  m1 = m1
  m2 = m2
  m3 = m3
  c1 = c1
  c2 = c2
  c3 = c3
  c4 = c4
  Nobody = Nobody
  Maker = {m1, m2, m3}
  Child = {c1, c2, c3, c4}
  Count <- Counts
  Max <- Limits
  Targets <- Fired
  Named = {m1, m2, m3}
  Cyclic = {m3}
  StartOn = {m2}
  Removable = {}
  Renotifying = {m2}
SPECIFICATION Spec
INVARIANTS
  LiveBound
