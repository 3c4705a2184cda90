CONSTANTS
  Catalogs <- MCCatalogs
  Queries <- MCQueries
SPECIFICATION SelectionSpec
INVARIANT FiltersEliminate
CHECK_DEADLOCK FALSE
