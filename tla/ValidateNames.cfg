\* The instance of Configuration.cfg: a rule routed to a single unnamed webhook.
CONSTANTS
  GlobMatches <- MCGlobs
  Defaults <- MCDefaults
  Inputs <- MCInputs
  RulesCommands <- MCRulesCommands
SPECIFICATION Spec
INVARIANT WarnsOfUnknownChannels
CHECK_DEADLOCK FALSE
