CONSTANT MaxMsgs = 4
SPECIFICATION FairSpec
INVARIANTS
  TypeOK
  WritesTheFront
  SentInOrder
  DropsOnlyAuthenticated
  ClosedSignalledOnce
PROPERTY ClosesUnlessStalled
CHECK_DEADLOCK FALSE
