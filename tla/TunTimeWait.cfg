SPECIFICATION Spec
CONSTANTS
  NUp = 3
  NDown = 4
  TcpWnd = 2
  SndBuf = 3
  BufferSize = 4
  FdSnd = 1
  FdRcv = 2
  Iov = 2
  Cases <- MCTimeWait
INVARIANTS
  PcbAlive
CHECK_DEADLOCK FALSE
