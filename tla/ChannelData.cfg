CONSTANTS
  Conns = {c1, c2}
  c1 = c1
  c2 = c2
  Data = {m1}
  m1 = m1
  MaxAddrs = {2}
  Wanted = 2
  Dialers = {"lo", "hi"}
  Faults = TRUE
  None = None
SPECIFICATION Spec
SYMMETRY Symmetry
PROPERTIES
  ImplementsDelivery
CHECK_DEADLOCK FALSE
