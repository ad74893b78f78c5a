CONSTANTS
  Conns = {c1, c2}
  c1 = c1
  c2 = c2
  Data = {}
  MaxAddrs = {2}
  Wanted = 2
  Dialers = {"lo", "hi"}
  Faults = TRUE
  None = None
SPECIFICATION Spec
SYMMETRY Symmetry
INVARIANTS
  ConnectedMeansEstablished
CHECK_DEADLOCK FALSE
