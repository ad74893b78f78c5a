CONSTANTS
  Conns = {c1, c2, c3}
  c1 = c1
  c2 = c2
  c3 = c3
  Data = {}
  MaxAddrs = {2, 3}
  Wanted = 2
  Dialers = {"lo", "hi"}
  Faults = FALSE
  None = None
SPECIFICATION Spec
SYMMETRY Symmetry
INVARIANTS
  TypeOK
  OnePlaceEach
  SamePriorityOrNone
  IpTableExact
  ServedLimit
  DuplicateLeaves
CHECK_DEADLOCK FALSE
