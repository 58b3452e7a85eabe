\* Three rule sets of three rules, in which the regexes stand at different places; a row
\* with no, one or two findings in its key and in another column; an array with an
\* absent item; partial updates; filters that exclude a schema, a table, the key.
CONSTANTS
  GlobMatches <- MCGlobs
  RuleSets <- MCRuleSets
  Filters <- MCFilters
  Changes <- MCChanges
SPECIFICATION Spec
INVARIANT FindingsAreExact
INVARIANT KeysAreStripped
INVARIANT KeysAreAligned
CHECK_DEADLOCK FALSE
