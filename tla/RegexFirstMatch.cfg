\* The instance of Scanner.cfg: a value with a rejected match before a valid one.
CONSTANTS
  GlobMatches <- MCGlobs
  RuleSets <- MCRuleSets
  Filters <- MCFilters
  Changes <- MCChanges
SPECIFICATION Spec
INVARIANT EachRegexMatchIsChecked
CHECK_DEADLOCK FALSE
