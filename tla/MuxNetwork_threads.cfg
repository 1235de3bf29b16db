SPECIFICATION FairSpec
CONSTANTS
  Buffers = 3
  BadBuffers = {2}
  Frames = {1, 2}
  QueueCap = 2
INVARIANTS
  BuffersHeldOnce
  PopBufferIsFree
  NotifiedAtMostOnce
PROPERTIES
  DisconnectNotified
  UnlockSticks
CHECK_DEADLOCK FALSE
