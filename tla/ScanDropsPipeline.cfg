\* One unit, one Ctrl-C, no rules edits.
CONSTANTS
  Databases = {db1}
  EditKinds = {}
  MaxEdits = 0
  MaxInterrupts = 1
SPECIFICATION FairSpec
INVARIANT ShutdownReachesPipeline
CHECK_DEADLOCK FALSE
