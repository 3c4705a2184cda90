CONSTANTS
  Workers <- TwoWorkers
  FirstBoot = 100
  MaxBoot = 103
  MaxEpoch = 2
  MaxId = 3
  MaxLeaseGen = 0
  MaxConnections = 3
  Generations <- TwoGenerations
  CatalogInputs <- MCRuntimes
  ServiceInputs <- MCServices
  EndpointInputs <- MCEndpoints
  CapabilityInputs <- MCCapabilities
  InstanceInputs <- MCInstances
  LeaseInputs <- NoInputs
  TombstoneInputs <- NoInputs
  InvalidationInputs <- NoInputs
  HealthInputs <- NoInputs
  ReadinessInputs <- NoInputs
  FreshnessInputs <- NoInputs
  ReachabilityInputs <- NoInputs
  GenerationInputs <- AnyGeneration
  ForeignBoots = FALSE
SPECIFICATION MCSpec
INVARIANTS LiveBootHasThread HoldingIsServed FencedByGenerationOnly
PROPERTIES DeathIsNoticed WorkersFinish ImplementsRegistry
CHECK_DEADLOCK FALSE
