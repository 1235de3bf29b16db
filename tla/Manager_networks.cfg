SPECIFICATION Spec
CONSTANTS
  MaxManagers = 2
  MaxObjects = 6
INVARIANTS
  OpenNetworkWhole
  CallsFollowInits
  NothingLost
  MuxContextKept
CHECK_DEADLOCK FALSE
