SPECIFICATION Spec
CONSTANTS
  BufferSize = 16
  Burst = 10
  Hello = 2
  Lengths = {3}
  Long = 5
  SockBuf = 16
  MaxFrames = 2
INVARIANT DeliveredInOrder
CHECK_DEADLOCK FALSE
