CONSTANTS
  Workers <- TwoWorkers
  FirstBoot = 100
  MaxBoot = 103
  MaxEpoch = 2
  MaxId = 2
  MaxLeaseGen = 1
  CatalogInputs <- NoInputs
  ServiceInputs <- OneService
  EndpointInputs <- PlainEndpoint
  CapabilityInputs <- NoInputs
  InstanceInputs <- HeldPair
  LeaseInputs <- HolderLease
  TombstoneInputs <- NoInputs
  InvalidationInputs <- NoInputs
  HealthInputs <- NoInputs
  ReadinessInputs <- NoInputs
  FreshnessInputs <- NoInputs
  ReachabilityInputs <- DegradedOnly
  GenerationInputs <- AnyGeneration
  ForeignBoots = FALSE
SPECIFICATION MCSpec
INVARIANTS TypeOK AuthorityConsistent ServingIsLive RecordsResolve
PROPERTIES DeadBootsStayDead LostBootsReleaseEverything DeathIsIncarnationScoped ImplementsIncarnations
PROPERTIES ActiveOwnerKeepsEndpoint TombstoneKeepsOut DescriptorsAdvance PromotionIsEarned
