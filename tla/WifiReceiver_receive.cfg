SPECIFICATION FairSpec
CONSTANTS
  f1 = f1
  f2 = f2
  Frames <- MCFrames
  Malformed = Malformed
  Corrupt = Corrupt
  Datagrams <- MCDatagrams
  Timeout = 2
  SelectTimeout = 1
  QueueCap = 1
  FifoCap = 1
  ClientDrains = TRUE
INVARIANTS
  DisconnectNeedsSilence
  NoDroppedFramePopped
PROPERTIES
  ImplementsDatagrams
  SilenceDetected
  UnlockReturns
  DataGetsThrough
