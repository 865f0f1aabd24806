SPECIFICATION FairSpec
CONSTANTS
  BufferSize = 6
  Lengths = {2, 4, 7}
  Long = 4
  SockBuf = 6
  MaxFrames = 2
  MaxConns = 3
  PayloadLengths = {0, 1, 125, 126, 127, 128, 255, 256, 65535, 65536, 65537, 1048576, 16777216}
  Octets = {0, 126, 127, 255}
  MessageLengths = {0, 1, 24, 36, 54, 55, 56, 57, 60, 63, 64, 65, 118, 119, 120, 121, 127, 128, 129, 184}
INVARIANTS StreamInv LossHasACause FramesParseAtStart Base64AtStart BlocksAtStart DigestAtStart ExampleAtStart
PROPERTIES KeepsTheChannel EveryFrameHandled
CHECK_DEADLOCK FALSE
