CONSTANTS
  h1 = h1
  h2 = h2
  h3 = h3
  a1 = a1
  a2 = a2
  Free = Free
  Addrs <- MCAddrs
  Hosts <- Aliases
  AddrsOf <- AliasAddrsOf
  Ids = {i1, i2, i3}
  Wanted = 2
  MaxPokes = 2
  MaxResolving = 1
SPECIFICATION Spec
INVARIANT WaitsForSession
CHECK_DEADLOCK FALSE
