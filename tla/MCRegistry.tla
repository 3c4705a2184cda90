----------------------------- MODULE MCRegistry -----------------------------
(***************************************************************************)
(* Small inputs for the registry.  Each cfg picks the groups that make the *)
(* operations it is about interact, and leaves the other groups empty.     *)
(***************************************************************************)
EXTENDS Registry

NoInputs == {}

Entry(id, rec) == [id |-> id, rec |-> rec]

Service(gen, caps) == [generation |-> gen, required_capabilities |-> caps]

\* What the coordinator builds for REG_EP, with the transport given.
Endpoint(gen, transport) ==
  [service_instance |-> None, generation |-> gen, transport |-> transport,
   health |-> "HEALTHY", reachability |-> "REACHABLE", freshness |-> "CURRENT"]

\* What the coordinator builds for REG_CA, with the freshness given.
Capability(gen, fresh) ==
  [generation |-> gen, kind |-> "CUDA_AVAILABLE", freshness |-> fresh,
   provenance |-> "MEASURED"]

\* What the coordinator builds for REG_IN; register_instance supplies the boot.
Instance(service, gen, eps, caps, lease) ==
  [service_id |-> service, instance_generation |-> gen, boot |-> None,
   endpoints |-> eps, capabilities |-> caps, health |-> "HEALTHY",
   readiness |-> "READY", freshness |-> "CURRENT",
   reachability |-> "REACHABLE", lease |-> lease, lifecycle |-> "REGISTERING"]

Lease(inst) == [generation |-> 0, service_instance |-> inst, state |-> "ACTIVE"]

-----------------------------------------------------------------------------
OneWorker == {1}
TwoWorkers == {1, 2}
AnyGeneration == {0}
OldAndAny == {0, 1}

OneService == {Entry(1, Service(1, {}))}
PlainEndpoint == {Entry(1, Endpoint(1, "TCP"))}
RolledEndpoint == {Entry(1, Endpoint(g, "TCP")) : g \in 1 .. 2}
PlainInstances == {Entry(None, Instance(1, g, <<1>>, {}, None)) : g \in 1 .. 2}
\* The newer instance holds lease 1, the older one none.
HeldPair == {Entry(None, Instance(1, g, <<1>>, {}, g - 1)) : g \in 1 .. 2}
\* The newer instance also lists endpoint 2, which nobody registers.
PartialInstances == {Entry(None, Instance(1, 1, <<1>>, {}, None)),
                     Entry(None, Instance(1, 2, <<1, 2>>, {}, None))}
HealthyOnly == {"HEALTHY"}
DegradedOnly == {"DEGRADED"}

\* A service that needs a capability, instances that hold lease 1.
CudaService == {Entry(1, Service(g, {"CUDA_AVAILABLE"})) : g \in 1 .. 2}
CudaCapability == {Entry(1, Capability(1, "CURRENT")), Entry(1, Capability(2, "UNKNOWN"))}
LeasedInstances == {Entry(None, Instance(1, g, << >>, {1}, 1)) : g \in 1 .. 2}
CudaInstances == {Entry(None, Instance(1, 1, eps, {1}, None)) : eps \in {<<1>>, << >>}}
HolderLease == {Entry(1, Lease(1))}
Healths == {"DEGRADED", "UNHEALTHY"}
Readinesses == {"PARTIALLY_READY", "DRAINING"}
Freshnesses == {"CURRENT", "STALE"}
Reachabilities == {"REACHABLE", "DEGRADED"}

\* Two services compete for endpoint 1; service 1 also needs endpoint 2, and
\* its instances come with an allocated id or with id 2.
TwoServices == {Entry(s, Service(1, {})) : s \in 1 .. 2}
TwoEndpoints == {Entry(1, Endpoint(1, "TCP")), Entry(2, Endpoint(1, "LOCAL_IPC"))}
PairInstances == {Entry(None, Instance(1, 1, <<1, 2>>, {}, None)),
                  Entry(2, Instance(1, 2, <<1, 2>>, {}, None)),
                  Entry(3, Instance(2, 1, <<1>>, {}, None))}
Tombstones == {Entry(1, [target_kind |-> "ServiceId", target |-> 1, generation_floor |-> 1]),
               Entry(2, [target_kind |-> "EndpointId", target |-> 2, generation_floor |-> 1])}
Invalidations == {[target_kind |-> "ServiceInstanceId", target |-> 1]}

\* Every kind of descriptor: known ids that roll their generation or repeat it
\* with other contents, and ids left to the allocator, which stays below 7.
CatalogEntry(kind, id, gen, rt, content) ==
  [kind |-> kind, id |-> id,
   rec |-> [generation |-> gen, runtime_id |-> rt, runtime_instance |-> None,
            content |-> content]]
Runtimes == {CatalogEntry("RuntimeInstanceId", id, g, 1, "a") : id \in 7 .. 8, g \in 1 .. 2}
              \cup {CatalogEntry("RuntimeInstanceId", None, 1, 2, "a")}
OtherDescriptors ==
  {CatalogEntry("ProtocolId", 7, 1, None, c) : c \in {"a", "b"}}
    \cup {CatalogEntry("NodeId", 7, g, None, "a") : g \in 1 .. 2}
    \cup {CatalogEntry("DeviceId", None, 1, None, "a")}
    \cup {CatalogEntry("BackendId", id, 1, None, "a") : id \in {None, 7}}
WholeCatalog == Runtimes \cup OtherDescriptors
RuntimeTombstone == {Entry(7, [target_kind |-> "RuntimeInstanceId", target |-> 8,
                               generation_floor |-> 1])}
=============================================================================
