SPECIFICATION FairSpec
CONSTANTS
  f1 = f1
  f2 = f2
  Frames <- MCFrames
  Malformed = Malformed
  Corrupt = Corrupt
  Datagrams <- MCOneDatagram
  Timeout = 2
  SelectTimeout = 1
  QueueCap = 2
  FifoCap = 1
  ClientDrains = TRUE
PROPERTIES
  LostOnlyAfterTimeout
