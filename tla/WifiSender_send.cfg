SPECIFICATION FairSpec
CONSTANTS
  f1 = f1
  f2 = f2
  f3 = f3
  f4 = f4
  Frames <- MCFrames
  FrameSize <- MCSizes
  HeaderSize <- FRAME_HEADER_SIZE
  BufferSize <- MCBufferSize
  UdpMax <- MCUdpMax
  DefaultSndBuf = 50000
  SendSizes = {20000, 70000}
  Leftovers = {7, 30000}
INVARIANTS
  WritesInsideBuffer
  SentOnceInOrder
  RoomCheckSuffices
  DisconnectNeedsCause
PROPERTIES
  ImplementsChannel
  BatchGoesOut
