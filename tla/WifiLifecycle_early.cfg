SPECIFICATION Spec
CONSTANTS
  MaxInits = 1
  StartsFirst = FALSE
INVARIANTS
  NoUseAfterFree
