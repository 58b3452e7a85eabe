\* One unit, one Ctrl-C, one save of the rules file.
CONSTANTS
  Databases = {db1}
  EditKinds = {"write"}
  MaxEdits = 1
  MaxInterrupts = 1
SPECIFICATION FairSpec
PROPERTY InterruptEndsRun
CHECK_DEADLOCK FALSE
