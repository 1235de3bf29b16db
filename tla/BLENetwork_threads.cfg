SPECIFICATION FairSpec
CONSTANTS
  MaxInits = 2
  MaxCancels = 2
INVARIANTS
  NoThreadLeft
  DelegateReleased
  LinkLossSeen
PROPERTIES
  CloseReturns
CHECK_DEADLOCK FALSE
