CONSTANTS
  Workers <- OneWorker
  FirstBoot = 100
  MaxBoot = 102
  MaxEpoch = 2
  MaxId = 1
  MaxLeaseGen = 1
  CatalogInputs <- NoInputs
  ServiceInputs <- OneService
  EndpointInputs <- PlainEndpoint
  CapabilityInputs <- NoInputs
  InstanceInputs <- HeldInstances
  LeaseInputs <- HolderLease
  TombstoneInputs <- NoInputs
  InvalidationInputs <- NoInputs
  HealthInputs <- NoInputs
  ReadinessInputs <- NoInputs
  FreshnessInputs <- CurrentOnly
  ReachabilityInputs <- ReachableOnly
  GenerationInputs <- AnyGeneration
  ForeignBoots = FALSE
  Files = {f1, f2}
  MaxList = 1
SYMMETRY SameFiles
SPECIFICATION MCSpec
INVARIANTS AuthorityConsistent WholeServes WholeResolves ServedSinceRecovery RoundTripStable AllocatorAhead
