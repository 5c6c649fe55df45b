SPECIFICATION MCFairSpec
CONSTANTS
  Ports = {p1, p2}
  None = None
  Ids = 2
  ResendID = 2
  CountLimit = 2
  CmdBuf = 2
  RecvBuf = 1
  Failures = {"bind", "select"}
  MaxStarts = 2
PROPERTIES ReceiverFound 
CHECK_DEADLOCK FALSE
