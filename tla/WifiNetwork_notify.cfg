SPECIFICATION Spec
CONSTANTS
  out = out
  in = in
  SendFrames <- MCSendFrames
  FrameSize <- MCFrameSize
  HeaderSize = 1
  BufferSize = 1
  UdpMax = 1
  DefaultSndBuf = 1
  SendSizes <- MCNoSizes
  Leftovers <- MCNoSizes
  RecvFrames <- MCRecvFrames
  Malformed = Malformed
  Corrupt = Corrupt
  Datagrams <- MCNoDatagrams
  Timeout = 1
  SelectTimeout = 0
  QueueCap = 1
  FifoCap = 1
  ClientDrains = TRUE
  MaxSignals = 2
INVARIANTS
  NotifiedOnce
  NoObjectNotifiesTwice
  WritesSucceed
