CONSTANTS
  Workers <- OneWorker
  FirstBoot = 100
  MaxBoot = 101
  MaxEpoch = 1
  MaxId = 2
  MaxLeaseGen = 0
  CatalogInputs <- NoInputs
  ServiceInputs <- OneService
  EndpointInputs <- PlainEndpoint
  CapabilityInputs <- NoInputs
  InstanceInputs <- PartialInstances
  LeaseInputs <- NoInputs
  TombstoneInputs <- NoInputs
  InvalidationInputs <- NoInputs
  HealthInputs <- NoInputs
  ReadinessInputs <- NoInputs
  FreshnessInputs <- NoInputs
  ReachabilityInputs <- NoInputs
  GenerationInputs <- AnyGeneration
  ForeignBoots = FALSE
SPECIFICATION Spec
PROPERTY SupersededOnlyByInstalled
