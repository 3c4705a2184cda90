--------------------------- MODULE MCRegistrations ---------------------------
(***************************************************************************)
(* The registry in four scenarios that share Registry and differ in its    *)
(* inputs; the cfg holds what they have in common.                         *)
(* "incarnations": two workers restart, die and lose their epoch while     *)
(* their instances claim one endpoint and hold a lease; a new epoch uses   *)
(* up one of the three boots.                                              *)
(* "fencing": two services compete for an endpoint under supersession,     *)
(* tombstones and ids that collide with the allocator's.                   *)
(* "reports": status reports and an invalidation in any order while        *)
(* services, endpoints and capabilities roll their generation.             *)
(* "descriptors": runtimes, protocols, backends, devices and nodes around  *)
(* a tombstone.                                                            *)
(***************************************************************************)
EXTENDS MCRegistry

VARIABLE scenario

Fencing == INSTANCE Registry WITH
  Workers <- OneWorker, MaxBoot <- 102, GenerationInputs <- OldAndAny,
  ServiceInputs <- TwoServices, EndpointInputs <- TwoEndpoints,
  InstanceInputs <- PairInstances, LeaseInputs <- NoInputs, TombstoneInputs <- Tombstones,
  ReachabilityInputs <- NoInputs

Reports == INSTANCE Registry WITH
  Workers <- OneWorker, MaxBoot <- 102, MaxId <- 1, ForeignBoots <- TRUE,
  ServiceInputs <- CudaService, EndpointInputs <- RolledEndpoint,
  CapabilityInputs <- CudaCapability, InstanceInputs <- CudaInstances,
  LeaseInputs <- NoInputs,
  HealthInputs <- Healths, ReadinessInputs <- Readinesses,
  FreshnessInputs <- Freshnesses, ReachabilityInputs <- Reachabilities

Descriptors == INSTANCE Registry WITH
  Workers <- OneWorker, MaxBoot <- 102, MaxEpoch <- 1, ForeignBoots <- TRUE,
  CatalogInputs <- WholeCatalog, EndpointInputs <- NoInputs, InstanceInputs <- NoInputs,
  LeaseInputs <- NoInputs, ReachabilityInputs <- NoInputs,
  TombstoneInputs <- RuntimeTombstone, InvalidationInputs <- Invalidations

MCInit == Init /\ scenario \in {"incarnations", "fencing", "reports", "descriptors"}

MCNext ==
  /\ \/ scenario = "incarnations" /\ Next /\ epoch' + next_boot' <= MaxBoot + 1
     \/ scenario = "fencing" /\ Fencing!Next
     \/ scenario = "reports" /\ Reports!Next
     \/ scenario = "descriptors" /\ Descriptors!Next
  /\ UNCHANGED scenario

MCSpec == MCInit /\ [][MCNext]_<<vars, scenario>>
=============================================================================
