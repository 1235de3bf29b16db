SPECIFICATION FairSpec
CONSTANTS
  MaxInits = 4
  StartsFirst = TRUE
INVARIANTS
  NoUseAfterFree
  AllOrNothing
PROPERTIES
  CloseStopsThread
  CloseReturns
