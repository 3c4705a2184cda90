CONSTANTS
  MaxInt = 99
  MaxTail = 4
  Openings <- MCOpenings
  Corpus <- MCCorpus
SPECIFICATION VersionsSpec
INVARIANT MalformedRejected
CHECK_DEADLOCK FALSE
