CONSTANT MaxMsgs = 2
SPECIFICATION FairSpec
PROPERTY GracefullCloseStops
CHECK_DEADLOCK FALSE
