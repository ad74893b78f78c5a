CONSTANTS
  n1 = n1
  n2 = n2
  n3 = n3
  Nodes <- MCNodes
  Running <- MCRunning
  Echo <- MCEcho
  Ids = {1}
  Serials = {1, 2}
  UIntMax = 1
  MaxHops = 2
SPECIFICATION FairSpec
INVARIANTS
  TypeOK
  OnlyAddressees
  OneHop
  SerialComesBack
PROPERTIES
  PingIsAnswered
CHECK_DEADLOCK FALSE
