CONSTANTS
  Catalogs <- MCCatalogs
  Queries <- MCQueries
SPECIFICATION SelectionSpec
INVARIANTS SelectedIsTrustworthy SelectionIsDeterministic EveryCandidateExplained OutcomeIsBacked
CHECK_DEADLOCK FALSE
