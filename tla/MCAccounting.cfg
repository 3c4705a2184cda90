CONSTANTS
  Workers <- TwoWorkers
  FirstBoot = 100
  MaxBoot = 102
  MaxEpoch = 1
  MaxId = 2
  MaxLeaseGen = 0
  CatalogInputs <- NoInputs
  ServiceInputs <- OneService
  EndpointInputs <- NoInputs
  CapabilityInputs <- NoInputs
  InstanceInputs <- NoInputs
  LeaseInputs <- NoInputs
  TombstoneInputs <- NoInputs
  InvalidationInputs <- NoInputs
  HealthInputs <- NoInputs
  ReadinessInputs <- NoInputs
  FreshnessInputs <- NoInputs
  ReachabilityInputs <- NoInputs
  GenerationInputs <- OldAndAny
  ForeignBoots = TRUE
  MaxRevived = 2
SPECIFICATION MCSpec
INVARIANTS LeaseCountsBacked CountersCoverRecords
PROPERTIES LeaseRevivalIsFenced PromotionIsEarned
