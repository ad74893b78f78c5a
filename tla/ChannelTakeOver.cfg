CONSTANTS
  Conns = {c1, c2}
  c1 = c1
  c2 = c2
  Data = {m1}
  m1 = m1
  MaxAddrs = {2}
  Wanted = 2
  Dialers = {"lo"}
  Faults = TRUE
  None = None
SPECIFICATION Spec
SYMMETRY Symmetry
INVARIANTS
  NextSessionTakesOver
CHECK_DEADLOCK FALSE
