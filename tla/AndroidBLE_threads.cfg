SPECIFICATION FairSpec
CONSTANTS
  MaxInits = 2
  MaxNotifications = 3
  Empty = {2}
  Characteristics = 1
  ClosesFailed = TRUE
  DisconnectJoins = TRUE
INVARIANTS
  NoUseAfterFree
  LinkLossSeen
  FramesPinned
  PoppedInOrder
  NotifiedAtMostOnce
PROPERTIES
  CloseReturns
  LossNotified
CHECK_DEADLOCK FALSE
