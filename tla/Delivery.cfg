CONSTANTS
  InScope = {1, 2, 4, 5, 6}
  MaxCommitted = 6
  BatchMax = 2
  Capacity = 1
  LoopMayPanic = TRUE
  MaxFailures = 1
  MaxStops = 1
SPECIFICATION FairSpec
INVARIANT TypeOK
INVARIANT AckedIsHeld
PROPERTY LogSpec
PROPERTY CommittedIsScanned
PROPERTY HeldIsScanned
CHECK_DEADLOCK FALSE
