CONSTANTS
  MaxInt = 99
  MaxTail = 4
  Openings <- MCOpenings
  Corpus <- MCCorpus
SPECIFICATION VersionsSpec
INVARIANTS AcceptsGrammar PrintsBack OrderIsPrecedence
CHECK_DEADLOCK FALSE
