SPECIFICATION MCSpec
CONSTANTS
  UdpThreads = {th1, th2}
  TcpThread = th3
  None = None
  Server = server
  Messages <- MCRelayed
  RecvBuf = 1
  TcpBuf = 1
  Failures = {}
  MaxReceived = 3
INVARIANT QueueSavesAll
