SPECIFICATION MCSpec
CONSTANTS
  Ports = {p1, p2}
  None = None
  Ids = 2
  ResendID = 1
  CountLimit = 5
  CmdBuf = 2
  RecvBuf = 2
  Failures = {"socket", "bind", "select", "send"}
  MaxStarts = 2
INVARIANTS TypeOK InOrder StaleBounded
CHECK_DEADLOCK FALSE
