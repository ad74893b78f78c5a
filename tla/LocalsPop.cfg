CONSTANTS
  Conns = {c1, c2}
  c1 = c1
  c2 = c2
  MaxMsgs = 2
  MaxExits = 1
  MaxErrs = 1
  None = None
SPECIFICATION Spec
INVARIANT OldSessionIsDone
CHECK_DEADLOCK FALSE
