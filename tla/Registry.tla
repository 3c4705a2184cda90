------------------------------ MODULE Registry ------------------------------
(***************************************************************************)
(* The canonical registry: authority (authority.cpp) and the records it    *)
(* guards (registry.cpp).  Every public operation holds the registry's one *)
(* recursive mutex from its first line to its last, so each is one atomic  *)
(* action.  A call that throws before it changed anything is a stuttering  *)
(* step and has no action; a call that throws half way is an action, with  *)
(* the half it did.                                                        *)
(*                                                                         *)
(* Left out: the accounting counters (module Accounting adds them), the    *)
(* history vectors and the commit generations.  The operations of this     *)
(* module write them and never read them.                                  *)
(*                                                                         *)
(* An operator whose name starts with Bug_ is a wrong variant of the       *)
(* definition that follows it; the properties below reject it.             *)
(***************************************************************************)
EXTENDS RegistryTypes

CONSTANTS
  Workers,            \* worker ids that may say HELLO
  FirstBoot,          \* the value the constructor gives next_boot_
  MaxBoot,            \* bound: the last boot id that is issued
  MaxEpoch,           \* bound: the last epoch that is begun
  MaxId,              \* bound: the last id the shared allocator hands out
  MaxLeaseGen,        \* bound: the last lease generation
  CatalogInputs,      \* runtimes, protocols, backends, devices, nodes
  ServiceInputs,      \* the descriptors callers pass, [id, rec] each;
  EndpointInputs,     \*   id 0 asks for an allocated id
  CapabilityInputs,
  InstanceInputs,
  LeaseInputs,
  TombstoneInputs,
  InvalidationInputs,
  HealthInputs,       \* the values callers report
  ReadinessInputs,
  FreshnessInputs,
  ReachabilityInputs,
  GenerationInputs,   \* generations that envelopes carry; 0 is "any"
  ForeignBoots        \* may a descriptor name another boot than its caller's?
                      \*   the library takes it, the coordinator never sends it

ASSUME BoundsAssumption ==
  /\ Workers \subseteq Nat /\ ForeignBoots \in BOOLEAN
  /\ {FirstBoot, MaxBoot, MaxEpoch, MaxId, MaxLeaseGen} \subseteq Nat

ASSUME InputsAssumption ==
  /\ CatalogInputs \subseteq [kind : CatalogKind, id : Nat, rec : CatalogDescriptor]
  /\ ServiceInputs      \subseteq [id : Nat, rec : ServiceDescriptor]
  /\ EndpointInputs     \subseteq [id : Nat, rec : EndpointDescriptor]
  /\ CapabilityInputs   \subseteq [id : Nat, rec : CapabilityDescriptor]
  /\ InstanceInputs     \subseteq [id : Nat, rec : ServiceInstance]
  /\ LeaseInputs        \subseteq [id : Nat, rec : LeaseDescriptor]
  /\ TombstoneInputs    \subseteq [id : Nat, rec : TombstoneRecord]
  /\ InvalidationInputs \subseteq InvalidationRecord
  /\ HealthInputs \subseteq Health /\ ReadinessInputs \subseteq Readiness
  /\ FreshnessInputs \subseteq Freshness
  /\ ReachabilityInputs \subseteq Reachability
  /\ GenerationInputs \subseteq Nat

VARIABLES
  epoch, live_boots, current_boot, boot_worker,       \* authority_
  next_boot, next_id, lease_gen,                      \* allocators
  catalog,            \* runtimes_, runtime_instances_, protocols_, backends_,
                      \*   devices_, nodes_: a map for each kind of id
  services, endpoints, capabilities, instances,       \* canonical records
  leases, tombstones, invalidations,
  index_by_service                                    \* derived

authority == <<epoch, live_boots, current_boot, boot_worker, next_boot>>
vars == <<authority, next_id, lease_gen, catalog, services, endpoints, capabilities,
          instances, leases, tombstones, invalidations, index_by_service>>

Boots == FirstBoot + 1 .. MaxBoot
Envelopes == [epoch : 1 .. MaxEpoch, boot : Boots]
OwnerBoots(env) == IF ForeignBoots THEN Boots ELSE {env.boot}

\* The secondary index, rebuilt from the canonical records.
rebuild_indexes(insts) ==
  [s \in {insts[i].service_id : i \in DOMAIN insts} |->
     {i \in DOMAIN insts : insts[i].service_id = s}]

Init ==
  /\ epoch = 1 /\ live_boots = {}
  /\ current_boot = EmptyMap /\ boot_worker = EmptyMap
  /\ next_boot = FirstBoot /\ next_id = 1 /\ lease_gen = 0
  /\ catalog = [k \in CatalogKind |-> EmptyMap]
  /\ services = EmptyMap /\ endpoints = EmptyMap /\ capabilities = EmptyMap
  /\ instances = EmptyMap /\ leases = EmptyMap /\ tombstones = EmptyMap
  /\ invalidations = {}
  /\ index_by_service = rebuild_indexes(EmptyMap)

-----------------------------------------------------------------------------
(* Authority                                                               *)

is_boot_live(b) == b \in live_boots

\* An envelope is accepted in the current epoch from a live incarnation.
validate_envelope(env) == env.epoch = epoch /\ is_boot_live(env.boot)

\* What revoke_boot_internal leaves of each map: all of it when b is not live.
Bug_OrphansByAge(b) == {i \in DOMAIN instances : is_boot_live(b) /\ instances[i].boot <= b}
Orphans(b) == {i \in DOMAIN instances : is_boot_live(b) /\ instances[i].boot = b}

Bug_RevokedBootsUnguarded(b) == Put(current_boot, Lookup(boot_worker, b, None), None)
RevokedBoots(b) ==
  LET owner == Lookup(boot_worker, b, None)
  IN  IF is_boot_live(b) /\ Lookup(current_boot, owner, None) = b
      THEN [current_boot EXCEPT ![owner] = None] ELSE current_boot

Bug_RevokedOwnersKept(b) == boot_worker
RevokedOwners(b) == [c \in DOMAIN boot_worker \ (live_boots \cap {b}) |-> boot_worker[c]]

Bug_RevokedInstancesAvailableOnly(b) ==
  [i \in DOMAIN instances |->
     IF i \in Orphans(b) /\ instances[i].lifecycle = "AVAILABLE"
     THEN [instances[i] EXCEPT !.lifecycle = "STALE"] ELSE instances[i]]
RevokedInstances(b) ==
  [i \in DOMAIN instances |->
     IF i \in Orphans(b)
     THEN [instances[i] EXCEPT !.lifecycle = "STALE", !.freshness = "STALE",
             !.reachability = "UNREACHABLE", !.readiness = "NOT_READY"]
     ELSE instances[i]]

RevokedLeases(b) ==
  [l \in DOMAIN leases |->
     IF leases[l].state = "ACTIVE" /\ \E i \in Orphans(b) : instances[i].lease = l
     THEN [leases[l] EXCEPT !.state = "EXPIRED"] ELSE leases[l]]

Bug_ReleasedEndpointsKept(b) == endpoints
ReleasedEndpoints(b) ==
  [e \in DOMAIN endpoints |->
     IF \E i \in Orphans(b) : /\ e \in Range(instances[i].endpoints)
                              /\ endpoints[e].service_instance = i
     THEN [endpoints[e] EXCEPT !.service_instance = None,
                               !.reachability = "UNREACHABLE"]
     ELSE endpoints[e]]

\* The records that losing boot b changes.
RevokeRecords(b) ==
  /\ instances' = RevokedInstances(b)
  /\ leases' = RevokedLeases(b)
  /\ endpoints' = ReleasedEndpoints(b)
  /\ UNCHANGED <<next_id, lease_gen, catalog, services, capabilities, tombstones,
                 invalidations, index_by_service>>

\* A worker says hello: its new incarnation supersedes the one it had.
adopt_worker(w) ==
  LET new_boot == next_boot + 1
      prev     == Lookup(current_boot, w, None)
  IN  /\ next_boot < MaxBoot
      /\ next_boot' = new_boot
      /\ current_boot' = Put(RevokedBoots(prev), w, new_boot)
      /\ live_boots' = (live_boots \ {prev}) \cup {new_boot}
      /\ boot_worker' = Put(RevokedOwners(prev), new_boot, w)
      /\ RevokeRecords(prev)
      /\ UNCHANGED epoch

\* The process behind boot b is gone; nothing happens when b is not live.
mark_worker_died(b) ==
  /\ live_boots' = live_boots \ {b}
  /\ current_boot' = RevokedBoots(b)
  /\ boot_worker' = RevokedOwners(b)
  /\ RevokeRecords(b)
  /\ UNCHANGED <<epoch, next_boot>>

\* What a new epoch makes of a record that described a live process.
Bug_RevalidatedAvailableOnly(inst) ==
  IF inst.lifecycle = "AVAILABLE" THEN [inst EXCEPT !.lifecycle = "UNREADY"] ELSE inst
RevalidatedInstance(inst) ==
  IF inst.lifecycle \in {"AVAILABLE", "DEGRADED", "UNREADY"}
  THEN [inst EXCEPT !.freshness = "REVALIDATION_REQUIRED",
          !.reachability = "REVALIDATION_REQUIRED", !.lifecycle = "UNREADY"]
  ELSE inst

RevalidatedEndpoint(ep) ==
  CASE ep.transport \in {"IN_PROCESS", "LOCAL_IPC"} ->
         [ep EXCEPT !.freshness = "REVALIDATION_REQUIRED",
                    !.reachability = "REVALIDATION_REQUIRED"]
    [] ep.transport = "TCP" -> [ep EXCEPT !.reachability = "REVALIDATION_REQUIRED"]
    [] OTHER -> ep

RevalidatedCapability(cap) ==
  IF cap.freshness = "CURRENT" /\ cap.provenance \in Physical
  THEN [cap EXCEPT !.freshness = "REVALIDATION_REQUIRED"] ELSE cap

RevalidatedLease(lease) ==
  IF lease.state = "ACTIVE"
  THEN [lease EXCEPT !.state = "REVALIDATION_REQUIRED"] ELSE lease

\* Boot numbering continues across epochs.
Bug_ClearAuthorityAndBoots ==
  live_boots' = {} /\ current_boot' = EmptyMap /\ boot_worker' = EmptyMap /\ next_boot' = FirstBoot
ClearAuthority ==
  live_boots' = {} /\ current_boot' = EmptyMap /\ boot_worker' = EmptyMap /\ UNCHANGED next_boot

begin_coordinator_epoch ==
  /\ epoch < MaxEpoch
  /\ epoch' = epoch + 1
  /\ ClearAuthority
  /\ instances' = [i \in DOMAIN instances |-> RevalidatedInstance(instances[i])]
  /\ endpoints' = [e \in DOMAIN endpoints |-> RevalidatedEndpoint(endpoints[e])]
  /\ capabilities' = [c \in DOMAIN capabilities |-> RevalidatedCapability(capabilities[c])]
  /\ leases' = [l \in DOMAIN leases |-> RevalidatedLease(leases[l])]
  /\ UNCHANGED <<next_id, lease_gen, catalog, services, tombstones, invalidations,
                 index_by_service>>

-----------------------------------------------------------------------------
(* Descriptors                                                             *)

Bug_CoveredBelowFloor(kind, target, gen) ==
  \E t \in DOMAIN tombstones :
    /\ tombstones[t].target_kind = kind /\ tombstones[t].target = target
    /\ gen < tombstones[t].generation_floor
covered_by_tombstone(kind, target, gen) ==
  \E t \in DOMAIN tombstones :
    /\ tombstones[t].target_kind = kind /\ tombstones[t].target = target
    /\ gen <= tombstones[t].generation_floor

\* A known id takes a newer generation only; a new id must not be covered by
\* a tombstone.  Re-registering an equal record changes nothing.
Registrable(m, kind, in) ==
  IF in.id \in DOMAIN m
  THEN in.rec.generation > m[in.id].generation
  ELSE ~covered_by_tombstone(kind, in.id, in.rec.generation)

\* next_id_++ when the caller left the id 0; all record kinds share next_id_.
IdOf(id) == IF id = None THEN next_id ELSE id
TakeId(id) ==
  /\ id = None => next_id <= MaxId
  /\ next_id' = IF id = None THEN next_id + 1 ELSE next_id

register_service(env, in) ==
  /\ validate_envelope(env)
  /\ Registrable(services, "ServiceId", in)
  /\ services' = Put(services, in.id, in.rec)
  /\ index_by_service' = rebuild_indexes(instances)
  /\ UNCHANGED <<authority, next_id, lease_gen, catalog, endpoints, capabilities,
                 instances, leases, tombstones, invalidations>>

\* A newer generation replaces the whole record, its binding included; the
\* instance that was bound is not reclassified.
register_endpoint(env, in) ==
  /\ validate_envelope(env)
  /\ Registrable(endpoints, "EndpointId", in)
  /\ endpoints' = Put(endpoints, IdOf(in.id), in.rec)
  /\ TakeId(in.id)
  /\ UNCHANGED <<authority, lease_gen, catalog, services, capabilities, instances,
                 leases, tombstones, invalidations, index_by_service>>

register_capability(env, in) ==
  /\ validate_envelope(env)
  /\ Registrable(capabilities, "CapabilityId", in)
  /\ capabilities' = Put(capabilities, IdOf(in.id), in.rec)
  /\ TakeId(in.id)
  /\ UNCHANGED <<authority, lease_gen, catalog, services, endpoints, instances,
                 leases, tombstones, invalidations, index_by_service>>

\* What a registration in the catalog leaves alone.
CatalogOnly ==
  UNCHANGED <<authority, lease_gen, services, endpoints, capabilities, instances,
              leases, tombstones, invalidations, index_by_service>>

\* runtimes_ is written when an instance of the runtime is new, and only then:
\* a newer generation of a known instance replaces that instance alone.
Bug_RuntimeNamesNoInstance(in, id) ==
  [catalog EXCEPT !["RuntimeInstanceId"] = Put(@, id, in.rec),
                  !["RuntimeId"] = Put(@, in.rec.runtime_id, in.rec)]
WithRuntime(in, id) ==
  LET copy == [in.rec EXCEPT !.runtime_instance = id]
  IN  [catalog EXCEPT
         !["RuntimeInstanceId"] = Put(@, id, copy),
         !["RuntimeId"] = IF in.id \in DOMAIN catalog["RuntimeInstanceId"]
                          THEN @ ELSE Put(@, copy.runtime_id, copy)]

register_runtime(env, in) ==
  /\ validate_envelope(env)
  /\ in.kind = "RuntimeInstanceId"
  /\ Registrable(catalog["RuntimeInstanceId"], "RuntimeInstanceId", in)
  /\ catalog' = WithRuntime(in, IdOf(in.id))
  /\ TakeId(in.id) /\ CatalogOnly

\* The other kinds: a known id takes a newer generation only, and no tombstone
\* keeps a new one out.
Bug_CataloguedInAnyOrder(env, in, kind, id) ==
  /\ validate_envelope(env)
  /\ in.kind = kind
  /\ catalog' = [catalog EXCEPT ![kind] = Put(@, id, in.rec)]
  /\ CatalogOnly
Catalogued(env, in, kind, id) ==
  /\ validate_envelope(env)
  /\ in.kind = kind
  /\ in.id \in DOMAIN catalog[kind] =>
       in.rec.generation > catalog[kind][in.id].generation
  /\ catalog' = [catalog EXCEPT ![kind] = Put(@, id, in.rec)]
  /\ CatalogOnly

register_protocol(env, in) == Catalogued(env, in, "ProtocolId", in.id) /\ UNCHANGED next_id

register_backend(env, in) == Catalogued(env, in, "BackendId", IdOf(in.id)) /\ TakeId(in.id)

register_device(env, in) == Catalogued(env, in, "DeviceId", IdOf(in.id)) /\ TakeId(in.id)

register_node(env, in) == Catalogued(env, in, "NodeId", in.id) /\ UNCHANGED next_id

-----------------------------------------------------------------------------
(* Classification of an instance against the endpoint map eps              *)

aggregate_health(inst, eps) ==
  LET reported == {eps[e].health : e \in Range(inst.endpoints) \cap DOMAIN eps}
  IN  CASE reported \cap {"UNHEALTHY", "UNAVAILABLE"} # {} -> "UNHEALTHY"
        [] /\ reported \cap {"UNHEALTHY", "UNAVAILABLE"} = {}
           /\ "DEGRADED" \in reported /\ inst.health # "UNHEALTHY" -> "DEGRADED"
        [] OTHER -> inst.health

\* The first endpoint of the vector that is not usable decides.
aggregate_reachability(inst, eps) ==
  LET reach(k) == IF inst.endpoints[k] \in DOMAIN eps
                  THEN eps[inst.endpoints[k]].reachability ELSE "MISSING"
      unusable == {k \in DOMAIN inst.endpoints :
                     reach(k) \notin {"REACHABLE", "DEGRADED"}}
      first    == CHOOSE k \in unusable : \A j \in unusable : k <= j
  IN  IF inst.endpoints = << >> THEN inst.reachability
      ELSE IF unusable # {}
      THEN CASE reach(first) = "UNREACHABLE" -> "UNREACHABLE"
             [] reach(first) = "MISSING" -> "UNKNOWN"
             [] OTHER -> "REVALIDATION_REQUIRED"
      ELSE IF \E k \in DOMAIN inst.endpoints : reach(k) = "DEGRADED"
      THEN "DEGRADED" ELSE "REACHABLE"

Bug_LeaseExists(inst) == inst.lease # None => inst.lease \in DOMAIN leases
lease_valid(inst) ==
  inst.lease # None =>
    inst.lease \in DOMAIN leases /\ leases[inst.lease].state = "ACTIVE"

Bug_CapabilitiesListed(inst) ==
  inst.service_id \in DOMAIN services =>
    \A req \in services[inst.service_id].required_capabilities :
      \E c \in inst.capabilities \cap DOMAIN capabilities : capabilities[c].kind = req
capabilities_present(inst) ==
  inst.service_id \in DOMAIN services =>
    \A req \in services[inst.service_id].required_capabilities :
      \E c \in inst.capabilities \cap DOMAIN capabilities :
        capabilities[c].kind = req /\ capabilities[c].freshness = "CURRENT"

\* The lifecycle of an instance whose aggregated health is h, reach is r.
classify(inst, h, r) ==
  IF ~is_boot_live(inst.boot) \/ inst.freshness # "CURRENT" THEN "STALE"
  ELSE IF r = "UNREACHABLE" THEN "UNREACHABLE"
  ELSE IF r \in {"REVALIDATION_REQUIRED", "UNKNOWN"} THEN "UNREADY"
  ELSE IF ~lease_valid(inst) THEN "STALE"
  ELSE IF ~capabilities_present(inst) THEN "UNREADY"
  ELSE IF inst.readiness = "DRAINING" THEN "DRAINING"
  ELSE IF \/ inst.readiness \in {"NOT_READY", "REVALIDATION_REQUIRED", "UNKNOWN"}
          \/ h \in {"UNHEALTHY", "UNAVAILABLE"} THEN "UNREADY"
  ELSE IF h = "DEGRADED" \/ inst.readiness = "PARTIALLY_READY" \/ r = "DEGRADED"
  THEN "DEGRADED" ELSE "AVAILABLE"

\* Stores the aggregates in the record and sets its lifecycle, whatever the
\* lifecycle was: a SUPERSEDED or RETIRED record is classified like any other.
reclassify_lifecycle(inst, eps) ==
  LET h == aggregate_health(inst, eps)
      r == aggregate_reachability(inst, eps)
  IN  [inst EXCEPT !.health = h, !.reachability = r,
                   !.lifecycle = classify(inst, h, r)]

-----------------------------------------------------------------------------
(* Instances                                                               *)

Historical == {"SUPERSEDED", "TOMBSTONED", "RETIRED", "INVALIDATED"}
Inactive   == Historical \cup {"STALE"}

\* The instances of service s a registration is compared with; more than one
\* only in a tie, which the iteration order of the hash map breaks.
Newest(insts, s) ==
  LET current == {i \in DOMAIN insts : /\ insts[i].service_id = s
                                       /\ insts[i].lifecycle \notin Historical}
  IN  {i \in current : \A j \in current :
         insts[j].instance_generation <= insts[i].instance_generation}

\* An endpoint can be claimed for instance id when it is registered and free,
\* already its own, or left behind by an inactive owner.
Bug_ClaimableFromAnyone(insts, id, e) == e \in DOMAIN endpoints
Claimable(insts, id, e) ==
  /\ e \in DOMAIN endpoints
  /\ LET owner == endpoints[e].service_instance
     IN  owner \in {None, id} \/ owner \notin DOMAIN insts
         \/ insts[owner].lifecycle \in Inactive

Claimed(ep, id) ==
  IF ep.service_instance \in {None, id}
  THEN [ep EXCEPT !.service_instance = id]
  ELSE [ep EXCEPT !.service_instance = id, !.reachability = "REACHABLE",
                  !.freshness = "CURRENT"]

\* Claims the endpoints in order; the first that cannot be claimed throws and
\* leaves the earlier ones claimed and insts (with its supersession) in place.
Install(insts, id, inst) ==
  LET refused == {k \in DOMAIN inst.endpoints : ~Claimable(insts, id, inst.endpoints[k])}
      claimed == {inst.endpoints[k] : k \in {k \in DOMAIN inst.endpoints :
                                               \A r \in refused : k < r}}
      eps == [e \in DOMAIN endpoints |->
                IF e \in claimed THEN Claimed(endpoints[e], id) ELSE endpoints[e]]
  IN  /\ endpoints' = eps
      /\ \/ /\ refused = {}
            /\ instances' = Put(insts, id, reclassify_lifecycle(inst, eps))
            /\ index_by_service' = rebuild_indexes(instances')
         \/ /\ refused # {}
            /\ instances' = insts
            /\ UNCHANGED index_by_service

\* Nothing is installed; insts is what the caller had already written.
Refuse(insts) ==
  instances' = insts /\ UNCHANGED <<endpoints, index_by_service>>

\* register_instance from its second line on, over the instance map insts.
RegisterOver(insts, in, inst) ==
  \/ /\ inst.service_id \notin DOMAIN services
     /\ Refuse(insts) /\ UNCHANGED next_id
  \/ /\ inst.service_id \in DOMAIN services
     /\ TakeId(in.id)
     /\ \/ \E current \in Newest(insts, inst.service_id) :
             \/ /\ inst.instance_generation <= insts[current].instance_generation
                /\ Refuse(insts)
             \/ /\ inst.instance_generation > insts[current].instance_generation
                /\ Install([insts EXCEPT ![current].lifecycle = "SUPERSEDED"],
                           IdOf(in.id), inst)
        \/ /\ Newest(insts, inst.service_id) = {}
           /\ covered_by_tombstone("ServiceId", inst.service_id, inst.instance_generation)
           /\ Refuse(insts)
        \/ /\ Newest(insts, inst.service_id) = {}
           /\ ~covered_by_tombstone("ServiceId", inst.service_id, inst.instance_generation)
           /\ Install(insts, IdOf(in.id), inst)

\* The descriptor names its boot itself: b need not be env.boot.
register_instance(env, in, b) ==
  /\ validate_envelope(env)
  /\ RegisterOver(instances, in, [in.rec EXCEPT !.boot = b])
  /\ UNCHANGED <<authority, lease_gen, catalog, services, capabilities, leases,
                 tombstones, invalidations>>

\* Marks the old instance before the nested registration, which may refuse.
supersede(env, old, in, b) ==
  /\ validate_envelope(env)
  /\ old \in DOMAIN instances
  /\ RegisterOver([instances EXCEPT ![old].lifecycle = "SUPERSEDED"],
                  in, [in.rec EXCEPT !.boot = b])
  /\ UNCHANGED <<authority, lease_gen, catalog, services, capabilities, leases,
                 tombstones, invalidations>>

generation_is_current_generation(g, inst) ==
  g # 0 => g = inst.instance_generation

\* The four update_* handlers of an instance: a new field, then reclassified.
UpdateInstance(env, id, g, updated) ==
  /\ validate_envelope(env)
  /\ generation_is_current_generation(g, instances[id])
  /\ instances' = [instances EXCEPT ![id] = reclassify_lifecycle(updated, endpoints)]
  /\ UNCHANGED <<authority, next_id, lease_gen, catalog, services, endpoints,
                 capabilities, leases, tombstones, invalidations, index_by_service>>

update_health(env, id, g, h) ==
  UpdateInstance(env, id, g, [instances[id] EXCEPT !.health = h])

update_readiness(env, id, g, r) ==
  UpdateInstance(env, id, g, [instances[id] EXCEPT !.readiness = r])

update_freshness(env, id, g, f) ==
  UpdateInstance(env, id, g, [instances[id] EXCEPT !.freshness = f])

update_instance_reachability(env, id, g, r) ==
  UpdateInstance(env, id, g, [instances[id] EXCEPT !.reachability = r])

\* Only the instance the endpoint is bound to is reclassified.
update_reachability(env, e, g, r) ==
  LET owner == endpoints[e].service_instance
      eps == [endpoints EXCEPT ![e].reachability = r]
  IN  /\ validate_envelope(env)
      /\ g # 0 => g = endpoints[e].generation
      /\ endpoints' = eps
      /\ instances' = IF owner # None /\ owner \in DOMAIN instances
                      THEN [instances EXCEPT ![owner] =
                              reclassify_lifecycle(instances[owner], eps)]
                      ELSE instances
      /\ UNCHANGED <<authority, next_id, lease_gen, catalog, services, capabilities,
                     leases, tombstones, invalidations, index_by_service>>

deregister(env, id, g) ==
  /\ validate_envelope(env)
  /\ generation_is_current_generation(g, instances[id])
  /\ instances' = [instances EXCEPT ![id].lifecycle = "RETIRED"]
  /\ UNCHANGED <<authority, next_id, lease_gen, catalog, services, endpoints,
                 capabilities, leases, tombstones, invalidations, index_by_service>>

-----------------------------------------------------------------------------
(* Leases, tombstones, invalidations                                       *)

LeasesOnly ==
  UNCHANGED <<authority, catalog, services, endpoints, capabilities, instances,
              tombstones, invalidations, index_by_service>>

acquire_lease(env, in) ==
  /\ validate_envelope(env)
  /\ lease_gen < MaxLeaseGen
  /\ lease_gen' = lease_gen + 1
  /\ leases' = Put(leases, IdOf(in.id), [in.rec EXCEPT !.generation = lease_gen + 1])
  /\ TakeId(in.id)
  /\ LeasesOnly

\* Anything but a REVOKED lease may be renewed, by the boot of its instance.
HolderBoot(env, l) ==
  LET holder == leases[l].service_instance
  IN  holder \in DOMAIN instances => instances[holder].boot = env.boot

Bug_RenewableByAnyone(env, l, g) == leases[l].state # "REVOKED"
Renewable(env, l, g) ==
  /\ leases[l].state # "REVOKED"
  /\ HolderBoot(env, l)
  /\ g # 0 => g = leases[l].generation

renew_lease(env, l, g) ==
  /\ validate_envelope(env)
  /\ Renewable(env, l, g)
  /\ leases' = [leases EXCEPT ![l].state = "ACTIVE"]
  /\ LeasesOnly /\ UNCHANGED <<next_id, lease_gen>>

\* An ACTIVE lease ends; one that is not ACTIVE is left as it is.
EndLease(l, state) ==
  /\ leases' = IF leases[l].state = "ACTIVE"
               THEN [leases EXCEPT ![l].state = state] ELSE leases
  /\ LeasesOnly /\ UNCHANGED <<next_id, lease_gen>>

expire_lease(env, l) == validate_envelope(env) /\ EndLease(l, "EXPIRED")

revoke_lease(env, l) == validate_envelope(env) /\ EndLease(l, "REVOKED")

\* Carries no envelope and takes no lock.
mark_lease_revalidation_required(l) == EndLease(l, "REVALIDATION_REQUIRED")

create_tombstone(env, in) ==
  /\ validate_envelope(env)
  /\ tombstones' = Put(tombstones, IdOf(in.id), in.rec)
  /\ TakeId(in.id)
  /\ UNCHANGED <<authority, lease_gen, catalog, services, endpoints, capabilities,
                 instances, leases, invalidations, index_by_service>>

\* Only recorded: no operation consults the invalidations.
invalidate(env, rec) ==
  /\ validate_envelope(env)
  /\ invalidations' = invalidations \cup {rec}
  /\ UNCHANGED <<authority, next_id, lease_gen, catalog, services, endpoints,
                 capabilities, instances, leases, tombstones, index_by_service>>

-----------------------------------------------------------------------------
(* One disjunct per public operation.                                      *)

AuthorityNext ==
  \/ begin_coordinator_epoch
  \/ \E w \in Workers : adopt_worker(w)
  \/ \E b \in Boots : mark_worker_died(b)

CatalogNext ==
  \E env \in Envelopes, in \in CatalogInputs :
    \/ register_runtime(env, in) \/ register_protocol(env, in)
    \/ register_backend(env, in) \/ register_device(env, in)
    \/ register_node(env, in)

RegistrationNext ==
  \E env \in Envelopes :
    \/ \E in \in ServiceInputs : register_service(env, in)
    \/ \E in \in EndpointInputs : register_endpoint(env, in)
    \/ \E in \in CapabilityInputs : register_capability(env, in)
    \/ \E in \in InstanceInputs, b \in OwnerBoots(env) : register_instance(env, in, b)
    \/ \E old \in DOMAIN instances, in \in InstanceInputs, b \in OwnerBoots(env) :
         supersede(env, old, in, b)

UpdateNext ==
  \E env \in Envelopes, g \in GenerationInputs :
    \/ \E id \in DOMAIN instances :
         \/ \E h \in HealthInputs : update_health(env, id, g, h)
         \/ \E r \in ReadinessInputs : update_readiness(env, id, g, r)
         \/ \E f \in FreshnessInputs : update_freshness(env, id, g, f)
         \/ \E r \in ReachabilityInputs : update_instance_reachability(env, id, g, r)
         \/ deregister(env, id, g)
    \/ \E e \in DOMAIN endpoints, r \in ReachabilityInputs :
         update_reachability(env, e, g, r)

LeaseNext ==
  \/ \E env \in Envelopes :
       \/ \E in \in LeaseInputs : acquire_lease(env, in)
       \/ \E l \in DOMAIN leases : \/ \E g \in GenerationInputs : renew_lease(env, l, g)
                                   \/ expire_lease(env, l)
                                   \/ revoke_lease(env, l)
  \/ \E l \in DOMAIN leases : mark_lease_revalidation_required(l)

FencingNext ==
  \E env \in Envelopes :
    \/ \E in \in TombstoneInputs : create_tombstone(env, in)
    \/ \E rec \in InvalidationInputs : invalidate(env, rec)

Next ==
  \/ AuthorityNext \/ CatalogNext \/ RegistrationNext
  \/ UpdateNext \/ LeaseNext \/ FencingNext

Spec == Init /\ [][Next]_vars

-----------------------------------------------------------------------------
(* Invariants                                                              *)

TypeOK ==
  /\ epoch \in Nat /\ next_boot \in Nat /\ next_id \in Nat /\ lease_gen \in Nat
  /\ live_boots \subseteq Nat
  /\ IsMap(current_boot, Workers, Nat) /\ IsMap(boot_worker, Nat, Workers)
  /\ DOMAIN catalog = CatalogKind
  /\ \A k \in CatalogKind : IsMap(catalog[k], Nat, CatalogDescriptor)
  /\ IsMap(services, Nat, ServiceDescriptor)
  /\ IsMap(endpoints, Nat, EndpointDescriptor)
  /\ IsMap(capabilities, Nat, CapabilityDescriptor)
  /\ IsMap(instances, Nat, ServiceInstance)
  /\ IsMap(leases, Nat, LeaseDescriptor)
  /\ IsMap(tombstones, Nat, TombstoneRecord)
  /\ invalidations \subseteq InvalidationRecord

\* The three authority maps of RegistryAuthority agree: a boot is live iff it
\* is the current boot of the one worker that owns it, so a worker never has
\* two live incarnations, no two workers share one, and every live boot was
\* issued by this registry.
AuthorityConsistent ==
  /\ next_boot >= FirstBoot /\ live_boots \subseteq FirstBoot + 1 .. next_boot
  /\ live_boots = DOMAIN boot_worker
  /\ \A b \in live_boots : Lookup(current_boot, boot_worker[b], None) = b
  /\ \A w \in DOMAIN current_boot : current_boot[w] # None =>
       current_boot[w] \in live_boots /\ boot_worker[current_boot[w]] = w

Serving(i) == instances[i].lifecycle \in {"AVAILABLE", "DEGRADED"}

\* Whatever interleaving of deaths, restarts, epochs and reports led here, an
\* instance the registry calls AVAILABLE or DEGRADED belongs to a live
\* incarnation and its stored freshness, reachability, readiness and health
\* allow it (check_invariants, and README "Lifecycle").
ServingIsLive ==
  \A i \in DOMAIN instances : Serving(i) =>
    /\ is_boot_live(instances[i].boot)
    /\ instances[i].freshness = "CURRENT"
    /\ instances[i].reachability \in {"REACHABLE", "DEGRADED"}
    /\ instances[i].readiness \in {"READY", "PARTIALLY_READY"}
    /\ instances[i].health \notin {"UNHEALTHY", "UNAVAILABLE"}

\* The rest of check_invariants: every instance names a registered service and
\* registered endpoints, and the service index is the one the canonical
\* records give, although half-finished registrations never rebuild it.  What
\* find_runtime returns for a runtime is one of its registered instances.
RecordsResolve ==
  /\ index_by_service = rebuild_indexes(instances)
  /\ \A i \in DOMAIN instances :
       /\ instances[i].service_id \in DOMAIN services
       /\ Range(instances[i].endpoints) \subseteq DOMAIN endpoints
  /\ \A r \in DOMAIN catalog["RuntimeId"] :
       LET rt == catalog["RuntimeId"][r]
       IN  /\ rt.runtime_id = r
           /\ rt.runtime_instance \in DOMAIN catalog["RuntimeInstanceId"]

-----------------------------------------------------------------------------
(* Action properties                                                       *)

\* A boot id that was issued and is not live is never live again: no restart,
\* late death report or new epoch brings an old incarnation back, and the
\* numbering never starts over.
DeadBootsStayDead ==
  [][/\ next_boot' >= next_boot
     /\ \A b \in FirstBoot + 1 .. next_boot :
          b \notin live_boots => b \notin live_boots']_vars

\* A boot that stops being live takes everything it held with it, in the same
\* step: none of its instances serves, no endpoint stays bound to one that
\* lists it (unless a new epoch kept the binding for revalidation), and no
\* lease of its instances stays ACTIVE.
LostBootsReleaseEverything ==
  [][\A b \in live_boots \ live_boots' :
       \A i \in DOMAIN instances : instances[i].boot = b =>
         /\ ~Serving(i)'
         /\ instances[i].lease \in DOMAIN leases =>
              leases'[instances[i].lease].state # "ACTIVE"
         /\ epoch' = epoch =>
              \A e \in Range(instances[i].endpoints) :
                endpoints'[e].service_instance # i]_vars

\* Revoking or losing one incarnation leaves the records of the others alone:
\* an instance changes in such a step only if its own boot was lost or the
\* epoch ended ("a late death of an old boot never fences a fresh one").
DeathIsIncarnationScoped ==
  [][\A i \in DOMAIN instances :
       /\ live_boots # live_boots' /\ epoch' = epoch
       /\ instances[i].boot \notin live_boots \ live_boots'
       => instances'[i] = instances[i]]_vars

\* Callers' ids stay clear of the allocator's: where the id of some record of a
\* kind is left to the allocator, the ids callers name are none it hands out.
KeepsClear(inputs) ==
  (\E in \in inputs : in.id = None) => \A in \in inputs : in.id = None \/ in.id > MaxId
AllocatedKind == {"RuntimeInstanceId", "BackendId", "DeviceId"}
CatalogInputsOf(k) == {in \in CatalogInputs : in.kind = k}
IdsKeptApart ==
  /\ KeepsClear(EndpointInputs) /\ KeepsClear(CapabilityInputs)
  /\ \A k \in AllocatedKind : KeepsClear(CatalogInputsOf(k))

\* As long as callers' ids stay clear of the allocator's, a registered
\* descriptor never disappears, its generation never regresses, and one
\* generation never stands for two contracts.  runtimes_, which holds the
\* runtime instance registered last, is the exception.
DescriptorsAdvance ==
  [][/\ \A k \in CatalogKind \ {"RuntimeId"} : \A d \in DOMAIN catalog[k] :
          /\ catalog'[k][d].generation >= catalog[k][d].generation
          /\ catalog'[k][d].generation = catalog[k][d].generation
             => catalog'[k][d] = catalog[k][d]
     /\ \A s \in DOMAIN services :
          /\ services'[s].generation >= services[s].generation
          /\ services'[s].generation = services[s].generation
             => services'[s] = services[s]
     /\ \A e \in DOMAIN endpoints :
          /\ endpoints'[e].generation >= endpoints[e].generation
          /\ endpoints'[e].generation = endpoints[e].generation
             => endpoints'[e].transport = endpoints[e].transport
     /\ \A c \in DOMAIN capabilities :
          /\ capabilities'[c].generation >= capabilities[c].generation
          /\ capabilities'[c].generation = capabilities[c].generation
             => capabilities'[c].kind = capabilities[c].kind]_vars

\* Within its own generation, until the id is acquired anew, a lease is brought
\* back to ACTIVE only by the incarnation that owns its instance, which is live
\* ("A stale boot can never renew a current lease", README), and a revoked one
\* never changes again, by no renewal, expiry, epoch or death.
LeaseRevivalIsFenced ==
  [][\A l \in DOMAIN leases : leases'[l].generation = leases[l].generation =>
       /\ leases[l].state = "REVOKED" => leases'[l].state = "REVOKED"
       /\ /\ leases[l].state # "ACTIVE" /\ leases'[l].state = "ACTIVE"
          /\ leases[l].service_instance \in DOMAIN instances
          => is_boot_live(instances[leases[l].service_instance].boot)]_vars

\* What README "Lifecycle" asks of the records an instance depends on.
LeaseHeld(i) ==
  instances[i].lease # None =>
    /\ instances[i].lease \in DOMAIN leases
    /\ leases[instances[i].lease].state = "ACTIVE"
EndpointsUsable(i) ==
  \A e \in Range(instances[i].endpoints) :
    endpoints[e].reachability \in {"REACHABLE", "DEGRADED"}
CapabilitiesCurrent(i) ==
  \A req \in services[instances[i].service_id].required_capabilities :
    \E c \in instances[i].capabilities : /\ c \in DOMAIN capabilities
                                        /\ capabilities[c].kind = req
                                        /\ capabilities[c].freshness = "CURRENT"

\* An instance becomes AVAILABLE or DEGRADED only at a moment when its lease is
\* active, its endpoints are usable and the capabilities its service requires
\* are current: no report promotes it on its own (README "Lifecycle"; UNKNOWN
\* reachability or capability never counts as known).
PromotionIsEarned ==
  [][\A i \in DOMAIN instances' :
       Serving(i)' /\ ~(i \in DOMAIN instances /\ Serving(i))
       => (LeaseHeld(i) /\ EndpointsUsable(i) /\ CapabilitiesCurrent(i))']_vars

\* An endpoint bound to an instance that is still active is not taken from it:
\* it changes hands only when its owner goes inactive in the same step or the
\* endpoint itself is registered at a newer generation.
ActiveOwnerKeepsEndpoint ==
  [][\A e \in DOMAIN endpoints :
       LET owner == endpoints[e].service_instance
       IN  /\ owner \in DOMAIN instances /\ instances[owner].lifecycle \notin Inactive
           /\ endpoints'[e].service_instance # owner
           => \/ instances'[owner].lifecycle \in Inactive
              \/ endpoints'[e].generation > endpoints[e].generation]_vars

\* Some tombstone covers generation gen of the identity.
Fenced(kind, id, gen) ==
  \E t \in DOMAIN tombstones :
    tombstones[t] \in [target_kind : {kind}, target : {id}, generation_floor : Nat]
    /\ tombstones[t].generation_floor >= gen

\* A tombstone is looked up under the id the caller named, so the ids of a kind
\* that are left to the allocator must not be ones a tombstone names.
TombstonesKeptApart(kind, inputs) ==
  (\E in \in inputs : in.id = None) =>
    \A t \in TombstoneInputs : t.rec.target_kind = kind => t.rec.target > MaxId

\* A tombstone at floor f keeps generations up to and including f out: of an
\* identity that is not registered, and of the instances of a service that has
\* no current instance (explicit ids; covered_by_tombstone).
TombstoneKeepsOut ==
  [][/\ \A s \in DOMAIN services' \ DOMAIN services :
          ~Fenced("ServiceId", s, services'[s].generation)
     /\ \A e \in DOMAIN endpoints' \ DOMAIN endpoints :
          ~Fenced("EndpointId", e, endpoints'[e].generation)
     /\ \A r \in DOMAIN catalog'["RuntimeInstanceId"] \ DOMAIN catalog["RuntimeInstanceId"] :
          ~Fenced("RuntimeInstanceId", r, catalog'["RuntimeInstanceId"][r].generation)
     /\ \A i \in DOMAIN instances' \ DOMAIN instances :
          LET s == instances'[i].service_id
          IN  (\A j \in DOMAIN instances :
                 instances[j].service_id = s => instances[j].lifecycle \in Historical)
              => ~Fenced("ServiceId", s, instances'[i].instance_generation)]_vars

-----------------------------------------------------------------------------
(* Refinement                                                              *)

served == {<<i, instances[i].boot>> : i \in {j \in DOMAIN instances : Serving(j)}}

Abstract == INSTANCE Incarnations WITH
  issued      <- next_boot,
  incarnation <- [w \in Workers |-> Lookup(current_boot, w, None)],
  serving     <- served

\* The registry implements the promise about incarnations: through all of its
\* operations, live boots and serving instances move as Incarnations allows.
ImplementsIncarnations == Abstract!Spec
=============================================================================
