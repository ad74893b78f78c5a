CONSTANTS
  h1 = h1
  h2 = h2
  h3 = h3
  a1 = a1
  a2 = a2
  Free = Free
  Addrs <- MCAddrs
  Hosts <- SharedHosts
  AddrsOf <- SharedAddrsOf
  Ids = {i1, i2, i3, i4}
  Wanted = 2
  MaxPokes = 2
  MaxResolving = 1
SPECIFICATION Spec
INVARIANTS
  UnauthBounded
  NoOrphan
CHECK_DEADLOCK FALSE
