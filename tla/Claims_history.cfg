CONSTANTS
  Workers <- OneWorker
  FirstBoot = 100
  MaxBoot = 101
  MaxEpoch = 1
  MaxId = 2
  MaxLeaseGen = 0
  CatalogInputs <- NoInputs
  ServiceInputs <- OneService
  EndpointInputs <- PlainEndpoint
  CapabilityInputs <- NoInputs
  InstanceInputs <- PlainInstances
  LeaseInputs <- NoInputs
  TombstoneInputs <- NoInputs
  InvalidationInputs <- NoInputs
  HealthInputs <- HealthyOnly
  ReadinessInputs <- NoInputs
  FreshnessInputs <- NoInputs
  ReachabilityInputs <- NoInputs
  GenerationInputs <- OldAndAny
  ForeignBoots = FALSE
SPECIFICATION Spec
PROPERTY HistoryNeverServes
