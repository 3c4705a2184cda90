---------------------------- MODULE MCAccounting ----------------------------
(***************************************************************************)
(* Leases and their counters around restarts and epochs, and the counters  *)
(* of every kind of record; the cfg holds what the two have in common.     *)
(***************************************************************************)
EXTENDS Accounting, MCRegistry

\* Ids left to the allocator and ids in its way.
CountedCatalog ==
  {CatalogEntry("RuntimeInstanceId", None, 1, 1, "a"), CatalogEntry("BackendId", 1, 1, None, "a"),
   CatalogEntry("DeviceId", None, 1, None, "a"), CatalogEntry("ProtocolId", 1, 1, None, "a"),
   CatalogEntry("NodeId", 1, 1, None, "a")}
CountedEndpoints == {Entry(id, Endpoint(1, "TCP")) : id \in {None, 1}}
CountedCapabilities == {Entry(None, Capability(1, "CURRENT"))}
CountedInstances == {Entry(None, Instance(1, g, << >>, {}, None)) : g \in 1 .. 2}

VARIABLE scenario

Leases == INSTANCE Accounting WITH
  MaxEpoch <- 2, MaxLeaseGen <- 2, HealthInputs <- HealthyOnly,
  InstanceInputs <- LeasedInstances, LeaseInputs <- HolderLease

Kinds == INSTANCE Accounting WITH
  CatalogInputs <- CountedCatalog, EndpointInputs <- CountedEndpoints,
  CapabilityInputs <- CountedCapabilities, InstanceInputs <- CountedInstances

MCInit == AccountingInit /\ scenario \in {"leases", "kinds"}

MCNext ==
  /\ \/ scenario = "leases" /\ Leases!AccountingNext
     \/ scenario = "kinds" /\ Kinds!AccountingNext
  /\ UNCHANGED scenario

MCSpec == MCInit /\ [][MCNext]_<<avars, scenario>>
=============================================================================
