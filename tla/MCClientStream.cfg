SPECIFICATION FairSpec
CONSTANTS
  BufferSize = 6
  Burst = 2
  Hello = 2
  Lengths = {2, 4, 7}
  Long = 4
  SockBuf = 8
  MaxFrames = 3
INVARIANT StreamInv
PROPERTIES KeepsTheChannel EveryFrameDelivered
CHECK_DEADLOCK FALSE
