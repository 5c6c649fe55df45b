SPECIFICATION MCSpec
CONSTANTS
  UdpThreads = {th1, th2}
  TcpThread = th3
  None = None
  Server = server
  Messages <- MCMessages
  RecvBuf = 2
  TcpBuf = 1
  Failures = {"udp", "select", "recv", "socket", "bind", "listen", "accept", "connect"}
  MaxReceived = 4
SYMMETRY MCSymmetry
INVARIANTS TypeOK Sections ReadableUntilRecv SizeIsFresh ConsumerSafe PushedInOrder  SavesFirstPerId
PROPERTIES ImplementsQueue ImplementsReceiver
CHECK_DEADLOCK FALSE
