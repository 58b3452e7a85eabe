\* A configuration with two databases and a channel of each kind, and every pair of the
\* faults of MCConfiguration.
CONSTANTS
  GlobMatches <- MCGlobs
  Defaults <- MCDefaults
  Inputs <- MCInputs
  RulesCommands <- MCRulesCommands
SPECIFICATION Spec
INVARIANT AcceptedStarts
INVARIANT RejectedNeverStarts
CHECK_DEADLOCK FALSE
