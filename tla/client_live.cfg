SPECIFICATION MCFairSpec
CONSTANTS
  UdpThreads = {th1, th2}
  TcpThread = th3
  None = None
  Server = server
  Messages <- MCTwoMessages
  RecvBuf = 1
  TcpBuf = 1
  Failures = {"bind", "accept"}
  MaxReceived = 3
PROPERTIES MessageMutexReleased InboxDrains QueueDrains StreamDrains
CHECK_DEADLOCK FALSE
