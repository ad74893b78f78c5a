CONSTANTS
  Regs = {r1, r2, r3}
  r1 = r1
  r2 = r2
  r3 = r3
  Names = {"ping"}
  Post = Post
  NoName = NoName
  None = None
  Garbage = {0, 2}
  MaxMsgs = 2
SPECIFICATION Spec
SYMMETRY Symmetry
INVARIANTS
  TypeOK
  CallsAsPromised
  DisconnectedIsGone
  MixupNeedsGarbage
CHECK_DEADLOCK FALSE
