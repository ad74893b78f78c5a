SPECIFICATION Spec
CONSTANTS
  MaxStream = 10
  MaxBlock = 3
INVARIANTS
  TypeOK
  LinesAreTheStream
  MessagesAreTheLines
CHECK_DEADLOCK FALSE
