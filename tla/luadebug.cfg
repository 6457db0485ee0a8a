SPECIFICATION Spec
CONSTANTS
  MaxHeight = 3
  MaxMisses = 1
  MaxPieces = 1
  Stacks <- SmallStacks
CHECK_DEADLOCK FALSE
INVARIANTS
  StackRestored
  SlotsReserved
  AbortsOnlyOnGlobals
