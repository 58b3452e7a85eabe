CONSTANTS
  Databases = {db1, db2}
  EditKinds = {"write"}
  MaxEdits = 2
  MaxInterrupts = 1
SPECIFICATION FairSpec
INVARIANT TypeOK
INVARIANT SelectHoldsPipeline
INVARIANT ConnectedMeansHeld
INVARIANT ExitNeverBlocks
INVARIANT ReportsAreTrue
PROPERTY FinalStatusIsFinal
PROPERTY TerminationEndsRun
PROPERTY ShutdownEndsTask
PROPERTY LastSaveIsLoaded
CHECK_DEADLOCK FALSE
