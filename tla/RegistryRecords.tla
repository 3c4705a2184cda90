-------------------------- MODULE RegistryRecords --------------------------
(***************************************************************************)
(* Proofs about the records of Registry, again for all constants: what an  *)
(* instance names is registered, a lost boot releases what it held and     *)
(* touches nothing of the others, a lease comes back only through its      *)
(* owner, and an instance starts to serve only when all it depends on lets *)
(* it.                                                                     *)
(***************************************************************************)
EXTENDS RegistryProofs

-----------------------------------------------------------------------------
(* Which operations write which records                                    *)

LEMMA CatalogFrame == CatalogNext => CatalogOnly
BY DEF CatalogNext, Catalogued, register_runtime, register_protocol,
       register_backend, register_device, register_node

LEMMA LeaseFrame == LeaseNext => LeasesOnly
BY DEF LeaseNext, acquire_lease, renew_lease, EndLease, expire_lease, revoke_lease,
       mark_lease_revalidation_required

LEMMA FencingFrame ==
  FencingNext => UNCHANGED <<authority, lease_gen, catalog, services, endpoints,
                             capabilities, instances, leases, index_by_service>>
BY DEF FencingNext, create_tombstone, invalidate

LEMMA UpdateFrame ==
  UpdateNext => UNCHANGED <<authority, next_id, lease_gen, catalog, services, capabilities,
                            leases, tombstones, invalidations, index_by_service>>
<1> DEFINE Same == UNCHANGED <<authority, next_id, lease_gen, catalog, services, capabilities,
                               leases, tombstones, invalidations, index_by_service>>
<1>1. ASSUME NEW env, NEW id, NEW g, NEW updated, UpdateInstance(env, id, g, updated)
      PROVE  Same
  BY <1>1 DEF UpdateInstance
<1>2. ASSUME NEW env, NEW e, NEW g, NEW r, update_reachability(env, e, g, r) PROVE Same
  BY <1>2 DEF update_reachability
<1>3. ASSUME NEW env, NEW id, NEW g, deregister(env, id, g) PROVE Same
  BY <1>3 DEF deregister
<1> HIDE DEF Same
<1>4. UpdateNext => Same
  BY <1>1, <1>2, <1>3 DEF UpdateNext, update_health, update_readiness, update_freshness,
                          update_instance_reachability
<1>5. QED
  BY <1>4 DEF Same

LEMMA RegistrationFrame ==
  RegistrationNext => UNCHANGED <<authority, lease_gen, catalog, leases, tombstones,
                                  invalidations>>
BY DEF RegistrationNext, register_service, register_endpoint, register_capability,
       register_instance, supersede

LEMMA AuthorityRecordsFrame ==
  AuthorityNext => UNCHANGED <<next_id, lease_gen, catalog, services, tombstones,
                               invalidations, index_by_service>>
BY DEF AuthorityNext, begin_coordinator_epoch, adopt_worker, mark_worker_died, RevokeRecords

-----------------------------------------------------------------------------
(* What operations keep of an instance                                     *)

\* The same instances, of the same services and incarnations, with the same
\* endpoints, capabilities and lease.
SameLinks(f, g) ==
  /\ DOMAIN g = DOMAIN f
  /\ \A i \in DOMAIN f :
       /\ g[i].service_id = f[i].service_id /\ g[i].boot = f[i].boot
       /\ g[i].endpoints = f[i].endpoints /\ g[i].capabilities = f[i].capabilities
       /\ g[i].lease = f[i].lease

\* Marking an instance with a lifecycle keeps its links.
LEMMA MarkLinks ==
  ASSUME NEW insts, IsMap(insts, Nat, ServiceInstance), NEW i \in DOMAIN insts, NEW l
  PROVE  SameLinks(insts, [insts EXCEPT ![i].lifecycle = l])
<1>1. insts[i] \in ServiceInstance
  BY DEF IsMap
<1>2. LET new == [insts[i] EXCEPT !.lifecycle = l] IN
      /\ new.service_id = insts[i].service_id /\ new.boot = insts[i].boot
      /\ new.endpoints = insts[i].endpoints /\ new.capabilities = insts[i].capabilities
      /\ new.lease = insts[i].lease
  BY <1>1 DEF ServiceInstance
<1>3. QED
  BY <1>2 DEF SameLinks

\* So does a reclassification (reclassify_lifecycle).
LEMMA ReclassifyLinks ==
  ASSUME NEW inst \in ServiceInstance, NEW eps
  PROVE  LET new == reclassify_lifecycle(inst, eps) IN
         /\ new.service_id = inst.service_id /\ new.boot = inst.boot
         /\ new.endpoints = inst.endpoints /\ new.capabilities = inst.capabilities
         /\ new.lease = inst.lease /\ new.instance_generation = inst.instance_generation
<1> DEFINE h == aggregate_health(inst, eps)
           r == aggregate_reachability(inst, eps)
           c == classify(inst, h, r)
<1>1. reclassify_lifecycle(inst, eps)
        = [inst EXCEPT !.health = h, !.reachability = r, !.lifecycle = c]
  BY DEF reclassify_lifecycle
<1> HIDE DEF h, r, c
<1>2. QED
  BY <1>1 DEF ServiceInstance

\* So do the loss of a boot and a new epoch.
LEMMA RevokedLinks ==
  ASSUME TypeOK, NEW b
  PROVE  SameLinks(instances, RevokedInstances(b))
<1>1. ASSUME NEW i \in DOMAIN instances
      PROVE  LET new == [instances[i] EXCEPT !.lifecycle = "STALE", !.freshness = "STALE",
                           !.reachability = "UNREACHABLE", !.readiness = "NOT_READY"] IN
             /\ new.service_id = instances[i].service_id /\ new.boot = instances[i].boot
             /\ new.endpoints = instances[i].endpoints
             /\ new.capabilities = instances[i].capabilities
             /\ new.lease = instances[i].lease
  BY DEF TypeOK, IsMap, ServiceInstance
<1>2. QED
  BY <1>1 DEF SameLinks, RevokedInstances

LEMMA RevalidatedLinks ==
  ASSUME NEW insts, IsMap(insts, Nat, ServiceInstance)
  PROVE  SameLinks(insts, [i \in DOMAIN insts |-> RevalidatedInstance(insts[i])])
<1>1. ASSUME NEW inst \in ServiceInstance
      PROVE  LET new == RevalidatedInstance(inst) IN
             /\ new.service_id = inst.service_id /\ new.boot = inst.boot
             /\ new.endpoints = inst.endpoints /\ new.capabilities = inst.capabilities
             /\ new.lease = inst.lease
  BY DEF RevalidatedInstance, ServiceInstance
<1>2. QED
  BY <1>1 DEF SameLinks, IsMap

\* The index reads the services of the instances and nothing else.
LEMMA RebuildLinks ==
  ASSUME NEW f, NEW g, SameLinks(f, g)
  PROVE  rebuild_indexes(g) = rebuild_indexes(f)
<1>1. {g[i].service_id : i \in DOMAIN g} = {f[i].service_id : i \in DOMAIN f}
  BY DEF SameLinks
<1>2. \A s : {i \in DOMAIN g : g[i].service_id = s} = {i \in DOMAIN f : f[i].service_id = s}
  BY DEF SameLinks
<1>3. QED
  BY <1>1, <1>2 DEF rebuild_indexes

-----------------------------------------------------------------------------
(* Registering an instance                                                 *)

\* The three outcomes of a registration: refused, with at most the given
\* supersession written; stopped at an endpoint it may not claim; installed.
LEMMA RegisterOverCases ==
  ASSUME NEW insts, IsMap(insts, Nat, ServiceInstance),
         NEW in, NEW inst \in ServiceInstance, RegisterOver(insts, in, inst)
  PROVE  \/ instances' = insts /\ UNCHANGED <<endpoints, index_by_service>>
         \/ /\ inst.service_id \in DOMAIN services
            /\ \E is : /\ IsMap(is, Nat, ServiceInstance) /\ SameLinks(insts, is)
                       /\ \A i \in DOMAIN is :
                            is[i] = insts[i] \/ is[i].lifecycle = "SUPERSEDED"
                       /\ Install(is, IdOf(in.id), inst)
<1>1. ASSUME NEW current \in Newest(insts, inst.service_id)
      PROVE  LET is == [insts EXCEPT ![current].lifecycle = "SUPERSEDED"] IN
             /\ IsMap(is, Nat, ServiceInstance) /\ SameLinks(insts, is)
             /\ \A i \in DOMAIN is : is[i] = insts[i] \/ is[i].lifecycle = "SUPERSEDED"
  <2>1. current \in DOMAIN insts
    BY DEF Newest
  <2>2. [insts[current] EXCEPT !.lifecycle = "SUPERSEDED"].lifecycle = "SUPERSEDED"
    BY <2>1 DEF IsMap, ServiceInstance
  <2>3. QED
    BY <2>1, <2>2, MarkType, MarkLinks DEF Lifecycle
<1>2. SameLinks(insts, insts)
  BY DEF SameLinks
<1>3. QED
  BY <1>1, <1>2 DEF RegisterOver, Refuse

\* What Install does to the endpoints and to the instance it installs.
LEMMA InstallCases ==
  ASSUME TypeOK, NEW is, IsMap(is, Nat, ServiceInstance), NEW id \in Nat,
         NEW inst \in ServiceInstance, Install(is, id, inst)
  PROVE  /\ DOMAIN endpoints' = DOMAIN endpoints
         /\ IsMap(endpoints', Nat, EndpointDescriptor)
         /\ \/ instances' = is /\ UNCHANGED index_by_service
            \/ /\ Range(inst.endpoints) \subseteq DOMAIN endpoints
               /\ instances' = Put(is, id, reclassify_lifecycle(inst, endpoints'))
               /\ index_by_service' = rebuild_indexes(instances')
<1>1. ASSUME NEW e \in DOMAIN endpoints
      PROVE  Claimed(endpoints[e], id) \in EndpointDescriptor
  BY DEF TypeOK, IsMap, Claimed, EndpointDescriptor, Reachability, Freshness
<1>2. DOMAIN endpoints' = DOMAIN endpoints /\ IsMap(endpoints', Nat, EndpointDescriptor)
  BY <1>1 DEF Install, TypeOK, IsMap
<1>3. \/ instances' = is /\ UNCHANGED index_by_service
      \/ /\ \A k \in DOMAIN inst.endpoints : Claimable(is, id, inst.endpoints[k])
         /\ instances' = Put(is, id, reclassify_lifecycle(inst, endpoints'))
         /\ index_by_service' = rebuild_indexes(instances')
  BY DEF Install
<1>4. QED
  BY <1>2, <1>3 DEF Claimable, Range

-----------------------------------------------------------------------------
(* Records resolve                                                         *)

\* What RecordsResolve asks of the instances.
LinksResolve(insts, eps) ==
  \A i \in DOMAIN insts :
    /\ insts[i].service_id \in DOMAIN services
    /\ Range(insts[i].endpoints) \subseteq DOMAIN eps

LEMMA LinksStep ==
  ASSUME NEW f, NEW g, SameLinks(f, g), NEW d, NEW e, LinksResolve(f, d), DOMAIN d \subseteq DOMAIN e
  PROVE  LinksResolve(g, e)
BY DEF SameLinks, LinksResolve

\* A registration, accepted, refused or stopped half way, leaves an index that
\* is the one the records give and no instance that names a missing record.
LEMMA RegisterOverResolves ==
  ASSUME TypeOK, NEW insts, IsMap(insts, Nat, ServiceInstance),
         index_by_service = rebuild_indexes(insts), LinksResolve(insts, endpoints),
         NEW in, in.id \in Nat, NEW inst \in ServiceInstance, RegisterOver(insts, in, inst)
  PROVE  /\ index_by_service' = rebuild_indexes(instances')
         /\ LinksResolve(instances', endpoints')
<1>1. CASE instances' = insts /\ UNCHANGED <<endpoints, index_by_service>>
  BY <1>1
<1>2. ASSUME inst.service_id \in DOMAIN services,
             NEW is, IsMap(is, Nat, ServiceInstance), SameLinks(insts, is),
             Install(is, IdOf(in.id), inst)
      PROVE  /\ index_by_service' = rebuild_indexes(instances')
             /\ LinksResolve(instances', endpoints')
  <2>1. IdOf(in.id) \in Nat
    BY DEF IdOf, TypeOK
  <2>2. /\ DOMAIN endpoints' = DOMAIN endpoints
        /\ \/ instances' = is /\ UNCHANGED index_by_service
           \/ /\ Range(inst.endpoints) \subseteq DOMAIN endpoints
              /\ instances' = Put(is, IdOf(in.id), reclassify_lifecycle(inst, endpoints'))
              /\ index_by_service' = rebuild_indexes(instances')
    BY <1>2, <2>1, InstallCases
  <2>3. LinksResolve(is, endpoints') /\ rebuild_indexes(is) = rebuild_indexes(insts)
    BY <1>2, <2>2, LinksStep, RebuildLinks
  <2>4. LET new == reclassify_lifecycle(inst, endpoints') IN
        new.service_id = inst.service_id /\ new.endpoints = inst.endpoints
    BY ReclassifyLinks
  <2>5. QED
    BY <1>2, <2>2, <2>3, <2>4 DEF LinksResolve, Put
<1>3. QED
  BY <1>1, <1>2, RegisterOverCases

\* What a report does (the update_* handlers and deregister): each instance is
\* as it was, RETIRED, or classified anew against the endpoints as they are
\* after the report; bindings, generations and transports stay.
LEMMA UpdateStep ==
  ASSUME TypeOK, UpdateNext
  PROVE  /\ SameLinks(instances, instances')
         /\ \A i \in DOMAIN instances :
              \/ instances'[i] = instances[i] \/ instances'[i].lifecycle = "RETIRED"
              \/ \E inst \in ServiceInstance :
                   instances'[i] = reclassify_lifecycle(inst, endpoints')
         /\ DOMAIN endpoints' = DOMAIN endpoints
         /\ \A e \in DOMAIN endpoints :
              /\ endpoints'[e].service_instance = endpoints[e].service_instance
              /\ endpoints'[e].generation = endpoints[e].generation
              /\ endpoints'[e].transport = endpoints[e].transport
<1> DEFINE Stepped ==
      /\ SameLinks(instances, instances')
      /\ \A i \in DOMAIN instances :
           \/ instances'[i] = instances[i] \/ instances'[i].lifecycle = "RETIRED"
           \/ \E inst \in ServiceInstance :
                instances'[i] = reclassify_lifecycle(inst, endpoints')
<1>1. /\ IsMap(instances, Nat, ServiceInstance) /\ IsMap(endpoints, Nat, EndpointDescriptor)
  BY DEF TypeOK
<1>2. ASSUME NEW id \in DOMAIN instances, NEW inst \in ServiceInstance,
             inst.service_id = instances[id].service_id, inst.boot = instances[id].boot,
             inst.endpoints = instances[id].endpoints,
             inst.capabilities = instances[id].capabilities,
             inst.lease = instances[id].lease,
             instances' = [instances EXCEPT ![id] = reclassify_lifecycle(inst, endpoints')]
      PROVE  Stepped
  <2> DEFINE new == reclassify_lifecycle(inst, endpoints')
  <2>1. /\ new.service_id = inst.service_id /\ new.boot = inst.boot
        /\ new.endpoints = inst.endpoints /\ new.capabilities = inst.capabilities
        /\ new.lease = inst.lease
    BY ReclassifyLinks
  <2>2. instances' = [instances EXCEPT ![id] = new]
    BY <1>2
  <2>3. \E u \in ServiceInstance : new = reclassify_lifecycle(u, endpoints')
    OBVIOUS
  <2> HIDE DEF new
  <2>4. SameLinks(instances, instances')
    BY <1>2, <2>1, <2>2 DEF SameLinks
  <2>5. QED
    BY <2>2, <2>3, <2>4
<1>3. ASSUME NEW env, NEW id \in DOMAIN instances, NEW g, NEW inst \in ServiceInstance,
             inst.service_id = instances[id].service_id, inst.boot = instances[id].boot,
             inst.endpoints = instances[id].endpoints,
             inst.capabilities = instances[id].capabilities,
             inst.lease = instances[id].lease,
             UpdateInstance(env, id, g, inst)
      PROVE  Stepped /\ endpoints' = endpoints
  BY <1>2, <1>3 DEF UpdateInstance
<1>4. ASSUME NEW env, NEW id \in DOMAIN instances, NEW g,
             \/ \E h \in HealthInputs : update_health(env, id, g, h)
             \/ \E r \in ReadinessInputs : update_readiness(env, id, g, r)
             \/ \E f \in FreshnessInputs : update_freshness(env, id, g, f)
             \/ \E r \in ReachabilityInputs : update_instance_reachability(env, id, g, r)
      PROVE  Stepped /\ endpoints' = endpoints
  <2> HIDE DEF Stepped
  <2>1. instances[id] \in ServiceInstance
    BY <1>1 DEF IsMap
  <2>2. ASSUME NEW h \in Health, UpdateInstance(env, id, g, [instances[id] EXCEPT !.health = h])
        PROVE  Stepped /\ endpoints' = endpoints
    BY <1>3, <2>1, <2>2 DEF ServiceInstance
  <2>3. ASSUME NEW r \in Readiness, UpdateInstance(env, id, g, [instances[id] EXCEPT !.readiness = r])
        PROVE  Stepped /\ endpoints' = endpoints
    BY <1>3, <2>1, <2>3 DEF ServiceInstance
  <2>4. ASSUME NEW f \in Freshness, UpdateInstance(env, id, g, [instances[id] EXCEPT !.freshness = f])
        PROVE  Stepped /\ endpoints' = endpoints
    BY <1>3, <2>1, <2>4 DEF ServiceInstance
  <2>5. ASSUME NEW r \in Reachability,
               UpdateInstance(env, id, g, [instances[id] EXCEPT !.reachability = r])
        PROVE  Stepped /\ endpoints' = endpoints
    BY <1>3, <2>1, <2>5 DEF ServiceInstance
  <2>6. QED
    BY <1>4, <2>2, <2>3, <2>4, <2>5, InputsAssumption
       DEF update_health, update_readiness, update_freshness, update_instance_reachability
<1>5. ASSUME NEW env, NEW id \in DOMAIN instances, NEW g, deregister(env, id, g)
      PROVE  Stepped /\ endpoints' = endpoints
  <2>1. instances[id] \in ServiceInstance
    BY <1>1 DEF IsMap
  <2>2. [instances[id] EXCEPT !.lifecycle = "RETIRED"].lifecycle = "RETIRED"
    BY <2>1 DEF ServiceInstance
  <2>3. instances' = [instances EXCEPT ![id].lifecycle = "RETIRED"] /\ endpoints' = endpoints
    BY <1>5 DEF deregister
  <2>4. SameLinks(instances, instances')
    BY <1>1, <2>3, MarkLinks
  <2>5. QED
    BY <2>2, <2>3, <2>4
<1>6. ASSUME NEW env, NEW e \in DOMAIN endpoints, NEW g, NEW r \in ReachabilityInputs,
             update_reachability(env, e, g, r)
      PROVE  /\ Stepped
             /\ DOMAIN endpoints' = DOMAIN endpoints
             /\ \A x \in DOMAIN endpoints :
                  /\ endpoints'[x].service_instance = endpoints[x].service_instance
                  /\ endpoints'[x].generation = endpoints[x].generation
                  /\ endpoints'[x].transport = endpoints[x].transport
  <2> DEFINE owner == endpoints[e].service_instance
             ep == [endpoints[e] EXCEPT !.reachability = r]
  <2>1. endpoints[e] \in EndpointDescriptor
    BY <1>1 DEF IsMap
  <2>2. /\ ep.service_instance = endpoints[e].service_instance
        /\ ep.generation = endpoints[e].generation /\ ep.transport = endpoints[e].transport
    BY <2>1 DEF EndpointDescriptor
  <2>3. endpoints' = [endpoints EXCEPT ![e] = ep]
    BY <1>6 DEF update_reachability
  <2>4. \/ instances' = instances
        \/ /\ owner \in DOMAIN instances
           /\ instances' = [instances EXCEPT ![owner] =
                              reclassify_lifecycle(instances[owner], endpoints')]
    BY <1>6 DEF update_reachability
  <2>5. Stepped
    <3>1. CASE instances' = instances
      BY <3>1 DEF SameLinks
    <3>2. CASE /\ owner \in DOMAIN instances
               /\ instances' = [instances EXCEPT ![owner] =
                                  reclassify_lifecycle(instances[owner], endpoints')]
      <4> HIDE DEF Stepped, owner
      <4>1. owner \in DOMAIN instances /\ instances[owner] \in ServiceInstance
        BY <1>1, <3>2 DEF IsMap
      <4>2. QED
        BY <1>2, <3>2, <4>1
    <3>3. QED
      BY <2>4, <3>1, <3>2
  <2> HIDE DEF Stepped, ep, owner
  <2>6. QED
    BY <2>2, <2>3, <2>5
<1> HIDE DEF Stepped
<1>7. /\ Stepped
      /\ \/ endpoints' = endpoints
         \/ /\ DOMAIN endpoints' = DOMAIN endpoints
            /\ \A x \in DOMAIN endpoints :
                 /\ endpoints'[x].service_instance = endpoints[x].service_instance
                 /\ endpoints'[x].generation = endpoints[x].generation
                 /\ endpoints'[x].transport = endpoints[x].transport
  BY <1>4, <1>5, <1>6 DEF UpdateNext
<1>8. QED
  BY <1>7 DEF Stepped

\* The last conjunct of RecordsResolve.
RuntimesResolve(cat) ==
  \A r \in DOMAIN cat["RuntimeId"] :
    /\ cat["RuntimeId"][r].runtime_id = r
    /\ cat["RuntimeId"][r].runtime_instance \in DOMAIN cat["RuntimeInstanceId"]

LEMMA RecordsParts ==
  RecordsResolve <=> /\ index_by_service = rebuild_indexes(instances)
                     /\ LinksResolve(instances, endpoints)
                     /\ RuntimesResolve(catalog)
BY DEF RecordsResolve, LinksResolve, RuntimesResolve

\* register_runtime writes a runtime together with the instance it names; the
\* other registrations of the catalog leave both maps alone.
LEMMA RuntimesStep ==
  ASSUME TypeOK, RuntimesResolve(catalog), CatalogNext
  PROVE  RuntimesResolve(catalog')
<1> SUFFICES ASSUME NEW env \in Envelopes, NEW in \in CatalogInputs,
               \/ register_runtime(env, in) \/ register_protocol(env, in)
               \/ register_backend(env, in) \/ register_device(env, in)
               \/ register_node(env, in)
             PROVE  RuntimesResolve(catalog')
  BY DEF CatalogNext
<1>1. in.rec \in CatalogDescriptor
  BY InputsAssumption
<1>2. DOMAIN catalog = CatalogKind
  BY DEF TypeOK
<1>3. CASE register_runtime(env, in)
  <2> DEFINE id == IdOf(in.id)
             copy == [in.rec EXCEPT !.runtime_instance = id]
             byInstance == catalog["RuntimeInstanceId"]
             byRuntime == catalog["RuntimeId"]
  <2>1. copy.runtime_instance = id
    BY <1>1 DEF CatalogDescriptor
  <2>2. /\ catalog'["RuntimeInstanceId"] = Put(byInstance, id, copy)
        /\ \/ catalog'["RuntimeId"] = byRuntime
           \/ catalog'["RuntimeId"] = Put(byRuntime, copy.runtime_id, copy)
    BY <1>2, <1>3 DEF register_runtime, WithRuntime, CatalogKind
  <2>3. \A r \in DOMAIN byRuntime : /\ byRuntime[r].runtime_id = r
                                    /\ byRuntime[r].runtime_instance \in DOMAIN byInstance
    BY DEF RuntimesResolve
  <2> HIDE DEF id, copy, byInstance, byRuntime
  <2>4. QED
    BY <2>1, <2>2, <2>3 DEF RuntimesResolve, Put
<1>4. ASSUME NEW kind \in CatalogKind \ {"RuntimeId", "RuntimeInstanceId"}, NEW id,
             Catalogued(env, in, kind, id)
      PROVE  RuntimesResolve(catalog')
  <2>1. /\ catalog'["RuntimeInstanceId"] = catalog["RuntimeInstanceId"]
        /\ catalog'["RuntimeId"] = catalog["RuntimeId"]
    BY <1>2, <1>4 DEF Catalogued, CatalogKind
  <2>2. QED
    BY <2>1 DEF RuntimesResolve
<1>5. {"ProtocolId", "BackendId", "DeviceId", "NodeId"}
        \subseteq CatalogKind \ {"RuntimeId", "RuntimeInstanceId"}
  BY DEF CatalogKind
<1>6. QED
  BY <1>3, <1>4, <1>5 DEF register_protocol, register_backend, register_device, register_node

\* A boot for which a descriptor may be registered is a natural.
LEMMA OwnedType ==
  ASSUME NEW env \in Envelopes, NEW in \in InstanceInputs, NEW b \in OwnerBoots(env)
  PROVE  in.id \in Nat /\ [in.rec EXCEPT !.boot = b] \in ServiceInstance
<1>1. b \in Nat
  BY BoundsAssumption DEF OwnerBoots, Envelopes, Boots
<1>2. in.id \in Nat /\ in.rec \in ServiceInstance
  BY InputsAssumption
<1>3. QED
  BY <1>1, <1>2 DEF ServiceInstance

LEMMA RecordsRegistration ==
  ASSUME TypeOK, RecordsResolve, RegistrationNext
  PROVE  RecordsResolve'
<1>1. /\ IsMap(instances, Nat, ServiceInstance)
      /\ index_by_service = rebuild_indexes(instances)
      /\ LinksResolve(instances, endpoints)
  BY RecordsParts DEF TypeOK
<1>2. RuntimesResolve(catalog')
  BY RegistrationFrame, RecordsParts DEF RuntimesResolve
<1>3. ASSUME NEW env \in Envelopes, NEW in \in InstanceInputs, NEW b \in OwnerBoots(env),
             register_instance(env, in, b)
      PROVE  /\ index_by_service' = rebuild_indexes(instances')
             /\ LinksResolve(instances', endpoints')
             /\ services' = services
  <2>1. RegisterOver(instances, in, [in.rec EXCEPT !.boot = b]) /\ services' = services
    BY <1>3 DEF register_instance
  <2>2. QED
    BY <1>1, <2>1, OwnedType, RegisterOverResolves
<1>4. ASSUME NEW env \in Envelopes, NEW old \in DOMAIN instances, NEW in \in InstanceInputs,
             NEW b \in OwnerBoots(env), supersede(env, old, in, b)
      PROVE  /\ index_by_service' = rebuild_indexes(instances')
             /\ LinksResolve(instances', endpoints')
             /\ services' = services
  <2> DEFINE marked == [instances EXCEPT ![old].lifecycle = "SUPERSEDED"]
  <2>1. RegisterOver(marked, in, [in.rec EXCEPT !.boot = b]) /\ services' = services
    BY <1>4 DEF supersede
  <2>2. IsMap(marked, Nat, ServiceInstance) /\ SameLinks(instances, marked)
    BY <1>1, MarkType, MarkLinks DEF Lifecycle
  <2> HIDE DEF marked
  <2>3. index_by_service = rebuild_indexes(marked) /\ LinksResolve(marked, endpoints)
    BY <1>1, <2>2, RebuildLinks, LinksStep
  <2>4. QED
    BY <2>1, <2>2, <2>3, OwnedType, RegisterOverResolves
<1>5. ASSUME NEW env, NEW in, \/ register_service(env, in) \/ register_endpoint(env, in)
                              \/ register_capability(env, in)
      PROVE  /\ instances' = instances /\ index_by_service' = rebuild_indexes(instances)
             /\ DOMAIN services \subseteq DOMAIN services'
             /\ DOMAIN endpoints \subseteq DOMAIN endpoints'
  BY <1>1, <1>5 DEF register_service, register_endpoint, register_capability, Put
<1>6. CASE /\ instances' = instances /\ index_by_service' = rebuild_indexes(instances)
           /\ DOMAIN services \subseteq DOMAIN services'
           /\ DOMAIN endpoints \subseteq DOMAIN endpoints'
  BY <1>1, <1>2, <1>6 DEF RecordsResolve, LinksResolve, RuntimesResolve
<1>7. CASE /\ index_by_service' = rebuild_indexes(instances')
           /\ LinksResolve(instances', endpoints')
           /\ services' = services
  BY <1>2, <1>7 DEF RecordsResolve, LinksResolve, RuntimesResolve
<1>8. QED
  BY <1>3, <1>4, <1>5, <1>6, <1>7 DEF RegistrationNext

\* A lost boot, a new epoch and a report keep every instance, its links and
\* every endpoint.
LEMMA AuthorityLinks ==
  ASSUME TypeOK, AuthorityNext
  PROVE  SameLinks(instances, instances') /\ DOMAIN endpoints' = DOMAIN endpoints
<1>1. IsMap(instances, Nat, ServiceInstance)
  BY DEF TypeOK
<1>2. CASE begin_coordinator_epoch
  BY <1>1, <1>2, RevalidatedLinks DEF begin_coordinator_epoch
<1>3. ASSUME NEW b, RevokeRecords(b)
      PROVE  SameLinks(instances, instances') /\ DOMAIN endpoints' = DOMAIN endpoints
  BY <1>3, RevokedLinks DEF RevokeRecords, ReleasedEndpoints
<1>4. QED
  BY <1>2, <1>3 DEF AuthorityNext, adopt_worker, mark_worker_died

LEMMA RecordsStep == TypeOK /\ RecordsResolve /\ [Next]_vars => RecordsResolve'
<1> SUFFICES ASSUME TypeOK, RecordsResolve, [Next]_vars PROVE RecordsResolve'
  OBVIOUS
<1>1. /\ index_by_service = rebuild_indexes(instances)
      /\ LinksResolve(instances, endpoints) /\ RuntimesResolve(catalog)
  BY RecordsParts
<1>2. CASE AuthorityNext \/ UpdateNext
  <2>1. SameLinks(instances, instances') /\ DOMAIN endpoints' = DOMAIN endpoints
    BY <1>2, AuthorityLinks, UpdateStep
  <2>2. UNCHANGED <<catalog, services, index_by_service>>
    BY <1>2, AuthorityRecordsFrame, UpdateFrame
  <2>3. LinksResolve(instances', endpoints') /\ rebuild_indexes(instances') = rebuild_indexes(instances)
    BY <1>1, <2>1, LinksStep, RebuildLinks
  <2>4. QED
    BY <1>1, <2>2, <2>3 DEF RecordsResolve, LinksResolve, RuntimesResolve
<1>3. CASE CatalogNext
  BY <1>1, <1>3, CatalogFrame, RuntimesStep
     DEF CatalogOnly, RecordsResolve, LinksResolve, RuntimesResolve
<1>4. CASE LeaseNext \/ FencingNext \/ UNCHANGED vars
  <2>1. UNCHANGED <<catalog, services, endpoints, instances, index_by_service>>
    BY <1>4, LeaseFrame, FencingFrame DEF LeasesOnly, vars
  <2>2. QED
    BY <2>1 DEF RecordsResolve
<1>5. QED
  BY <1>2, <1>3, <1>4, RecordsRegistration DEF Next

\* In every reachable state every instance names a registered service and
\* registered endpoints, the service index is the one the records give, and
\* every runtime names a registered instance of it (check_invariants).
THEOREM RecordsCorrect == Spec => []RecordsResolve
<1>1. Init => TypeOK /\ RecordsResolve
  <2>1. DOMAIN EmptyMap = {}
    BY EmptyIsMap
  <2>2. Init => RecordsResolve
    BY <2>1 DEF Init, RecordsResolve, CatalogKind
  <2>3. QED
    BY <2>2, TypeInit
<1>2. TypeOK /\ RecordsResolve /\ [Next]_vars => (TypeOK /\ RecordsResolve)'
  BY TypeNext, RecordsStep
<1>3. QED
  BY <1>1, <1>2, PTL DEF Spec

-----------------------------------------------------------------------------
(* Allocators                                                              *)

\* No instance has the id that stands for "none", and no lease is of a later
\* generation than the last one handed out.
AllocatorsSound ==
  /\ next_id >= 1 /\ None \notin DOMAIN instances
  /\ \A l \in DOMAIN leases : leases[l].generation <= lease_gen

\* An id is taken from the caller or from the allocator, never "none".
LEMMA IdStep ==
  ASSUME TypeOK, next_id >= 1, NEW id \in Nat, TakeId(id)
  PROVE  IdOf(id) \in Nat /\ IdOf(id) # None /\ next_id' >= 1
BY DEF TypeOK, IdOf, TakeId, None

\* Registrations add at most the id they took.
LEMMA RegisterOverIds ==
  ASSUME TypeOK, NEW insts, IsMap(insts, Nat, ServiceInstance),
         NEW in, in.id \in Nat, NEW inst \in ServiceInstance, RegisterOver(insts, in, inst)
  PROVE  /\ TakeId(in.id) \/ next_id' = next_id
         /\ DOMAIN instances' \subseteq DOMAIN insts \cup {IdOf(in.id)}
<1>1. TakeId(in.id) \/ next_id' = next_id
  BY DEF RegisterOver
<1>2. ASSUME NEW is, IsMap(is, Nat, ServiceInstance), SameLinks(insts, is),
             Install(is, IdOf(in.id), inst)
      PROVE  DOMAIN instances' \subseteq DOMAIN insts \cup {IdOf(in.id)}
  <2>1. \/ instances' = is
        \/ instances' = Put(is, IdOf(in.id), reclassify_lifecycle(inst, endpoints'))
    BY <1>2 DEF Install
  <2>2. QED
    BY <1>2, <2>1 DEF Put, SameLinks
<1>3. QED
  BY <1>1, <1>2, RegisterOverCases

LEMMA NextIdRegistration ==
  ASSUME TypeOK, AllocatorsSound, RegistrationNext
  PROVE  next_id' >= 1 /\ None \notin DOMAIN instances'
<1>1. next_id >= 1 /\ None \notin DOMAIN instances /\ IsMap(instances, Nat, ServiceInstance)
  BY DEF AllocatorsSound, TypeOK
<1>2. ASSUME NEW insts, IsMap(insts, Nat, ServiceInstance), None \notin DOMAIN insts,
             NEW in, in.id \in Nat, NEW inst \in ServiceInstance, RegisterOver(insts, in, inst)
      PROVE  next_id' >= 1 /\ None \notin DOMAIN instances'
  <2>1. IdOf(in.id) # None
    BY <1>1, <1>2 DEF IdOf, None, TypeOK
  <2>2. QED
    BY <1>1, <1>2, <2>1, RegisterOverIds, IdStep
<1>3. ASSUME NEW env \in Envelopes, NEW in \in InstanceInputs, NEW b \in OwnerBoots(env),
             register_instance(env, in, b)
      PROVE  next_id' >= 1 /\ None \notin DOMAIN instances'
  BY <1>1, <1>2, <1>3, OwnedType DEF register_instance
<1>4. ASSUME NEW env \in Envelopes, NEW old \in DOMAIN instances, NEW in \in InstanceInputs,
             NEW b \in OwnerBoots(env), supersede(env, old, in, b)
      PROVE  next_id' >= 1 /\ None \notin DOMAIN instances'
  <2> DEFINE marked == [instances EXCEPT ![old].lifecycle = "SUPERSEDED"]
  <2>1. RegisterOver(marked, in, [in.rec EXCEPT !.boot = b])
    BY <1>4 DEF supersede
  <2>2. IsMap(marked, Nat, ServiceInstance) /\ None \notin DOMAIN marked
    BY <1>1, MarkType DEF Lifecycle
  <2> HIDE DEF marked
  <2>3. QED
    BY <1>2, <2>1, <2>2, OwnedType
<1>5. ASSUME NEW env, NEW in \in ServiceInputs, register_service(env, in)
      PROVE  next_id' >= 1 /\ None \notin DOMAIN instances'
  BY <1>1, <1>5 DEF register_service
<1>6. ASSUME NEW env, NEW in, in.id \in Nat,
             register_endpoint(env, in) \/ register_capability(env, in)
      PROVE  next_id' >= 1 /\ None \notin DOMAIN instances'
  BY <1>1, <1>6, IdStep DEF register_endpoint, register_capability
<1>7. /\ \A in \in EndpointInputs : in.id \in Nat
      /\ \A in \in CapabilityInputs : in.id \in Nat
  BY InputsAssumption
<1>8. QED
  BY <1>3, <1>4, <1>5, <1>6, <1>7 DEF RegistrationNext

\* Only acquire_lease writes a generation, the one it just counted.
LEMMA LeaseGenerations ==
  ASSUME TypeOK, AllocatorsSound, [Next]_vars
  PROVE  /\ \A l \in DOMAIN leases :
              /\ l \in DOMAIN leases'
              /\ \/ leases'[l].generation = leases[l].generation
                 \/ leases'[l].generation > leases[l].generation
         /\ \A l \in DOMAIN leases' : leases'[l].generation <= lease_gen'
<1> DEFINE Advance ==
      /\ \A l \in DOMAIN leases : /\ l \in DOMAIN leases'
                                  /\ \/ leases'[l].generation = leases[l].generation
                                     \/ leases'[l].generation > leases[l].generation
      /\ \A l \in DOMAIN leases' : leases'[l].generation <= lease_gen'
<1>1. /\ lease_gen \in Nat /\ IsMap(leases, Nat, LeaseDescriptor)
      /\ \A l \in DOMAIN leases : leases[l].generation <= lease_gen
  BY DEF TypeOK, AllocatorsSound
<1>2. ASSUME \A l \in DOMAIN leases : leases'[l].generation = leases[l].generation,
             DOMAIN leases' = DOMAIN leases, lease_gen' = lease_gen
      PROVE  Advance
  BY <1>1, <1>2
<1>3. CASE AuthorityNext
  <2>1. ASSUME NEW l \in DOMAIN leases
        PROVE  /\ RevalidatedLease(leases[l]).generation = leases[l].generation
               /\ [leases[l] EXCEPT !.state = "EXPIRED"].generation = leases[l].generation
    BY <1>1 DEF IsMap, LeaseDescriptor, RevalidatedLease
  <2>2. CASE begin_coordinator_epoch
    BY <1>2, <2>1, <2>2 DEF begin_coordinator_epoch
  <2>3. ASSUME NEW b, RevokeRecords(b) PROVE Advance
    BY <1>2, <2>1, <2>3 DEF RevokeRecords, RevokedLeases
  <2>4. QED
    BY <1>3, <2>2, <2>3 DEF AuthorityNext, adopt_worker, mark_worker_died
<1>4. CASE LeaseNext
  <2>1. ASSUME NEW env, NEW in \in LeaseInputs, acquire_lease(env, in) PROVE Advance
    <3> DEFINE new == [in.rec EXCEPT !.generation = lease_gen + 1]
    <3>1. new.generation = lease_gen + 1
      BY InputsAssumption DEF LeaseDescriptor
    <3>2. lease_gen' = lease_gen + 1 /\ leases' = Put(leases, IdOf(in.id), new)
      BY <2>1 DEF acquire_lease
    <3>3. \A l \in DOMAIN leases : leases[l].generation \in Nat
      BY <1>1 DEF IsMap, LeaseDescriptor
    <3> HIDE DEF new
    <3>4. QED
      BY <1>1, <3>1, <3>2, <3>3 DEF Put
  <2>2. ASSUME NEW l \in DOMAIN leases, NEW state
        PROVE  [leases[l] EXCEPT !.state = state].generation = leases[l].generation
    BY <1>1 DEF IsMap, LeaseDescriptor
  <2>3. ASSUME NEW env, NEW l \in DOMAIN leases, NEW g, renew_lease(env, l, g) PROVE Advance
    BY <1>2, <2>2, <2>3 DEF renew_lease
  <2>4. ASSUME NEW l \in DOMAIN leases, NEW state, EndLease(l, state) PROVE Advance
    BY <1>2, <2>2, <2>4 DEF EndLease
  <2>5. QED
    BY <1>4, <2>1, <2>3, <2>4
       DEF LeaseNext, expire_lease, revoke_lease, mark_lease_revalidation_required
<1>5. CASE CatalogNext \/ RegistrationNext \/ UpdateNext \/ FencingNext \/ UNCHANGED vars
  BY <1>2, <1>5, CatalogFrame, RegistrationFrame, UpdateFrame, FencingFrame
     DEF CatalogOnly, vars
<1>6. QED
  BY <1>3, <1>4, <1>5 DEF Next

LEMMA AllocatorsStep == TypeOK /\ AllocatorsSound /\ [Next]_vars => AllocatorsSound'
<1> SUFFICES ASSUME TypeOK, AllocatorsSound, [Next]_vars PROVE AllocatorsSound'
  OBVIOUS
<1>1. next_id >= 1 /\ None \notin DOMAIN instances
  BY DEF AllocatorsSound
<1>2. CASE AuthorityNext \/ UpdateNext
  <2>1. DOMAIN instances' = DOMAIN instances
    BY <1>2, AuthorityLinks, UpdateStep DEF SameLinks
  <2>2. next_id' = next_id
    BY <1>2, AuthorityRecordsFrame, UpdateFrame
  <2>3. QED
    BY <1>1, <2>1, <2>2, LeaseGenerations DEF AllocatorsSound, None
<1>3. CASE RegistrationNext
  BY <1>3, NextIdRegistration, LeaseGenerations DEF AllocatorsSound, None
<1>4. CASE CatalogNext \/ LeaseNext \/ FencingNext \/ UNCHANGED vars
  <2>1. UNCHANGED instances
    BY <1>4, CatalogFrame, LeaseFrame, FencingFrame DEF CatalogOnly, LeasesOnly, vars
  <2>2. next_id' = next_id \/ \E id \in Nat : TakeId(id)
    <3>1. /\ \A in \in CatalogInputs : in.id \in Nat
          /\ \A in \in LeaseInputs : in.id \in Nat
          /\ \A in \in TombstoneInputs : in.id \in Nat
      BY InputsAssumption
    <3>2. QED
      BY <1>4, <3>1 DEF CatalogNext, Catalogued, register_runtime, register_protocol,
         register_backend, register_device, register_node, LeaseNext, acquire_lease,
         renew_lease, EndLease, expire_lease, revoke_lease,
         mark_lease_revalidation_required, FencingNext, create_tombstone, invalidate, vars
  <2>3. next_id' >= 1
    BY <1>1, <2>2, IdStep
  <2>4. QED
    BY <1>1, <2>1, <2>3, LeaseGenerations DEF AllocatorsSound, None
<1>5. QED
  BY <1>2, <1>3, <1>4 DEF Next

LEMMA AllocatorsCorrect == Spec => []AllocatorsSound
<1>1. Init => TypeOK /\ AllocatorsSound
  BY TypeInit, EmptyIsMap DEF Init, AllocatorsSound
<1>2. TypeOK /\ AllocatorsSound /\ [Next]_vars => (TypeOK /\ AllocatorsSound)'
  BY TypeNext, AllocatorsStep
<1>3. QED
  BY <1>1, <1>2, PTL DEF Spec

-----------------------------------------------------------------------------
(* Losing a boot                                                           *)

\* The step in which boots stop being live: a new epoch, or the loss of one.
LEMMA LostBoots ==
  ASSUME TypeOK, AuthorityConsistent, Next, live_boots # live_boots'
  PROVE  \/ begin_coordinator_epoch /\ epoch' # epoch
         \/ /\ epoch' = epoch
            /\ \E b : RevokeRecords(b) /\ live_boots \ live_boots' = live_boots \cap {b}
<1>1. ~UNCHANGED authority
  BY DEF authority
<1>2. AuthorityNext
  BY <1>1, AuthorityFrame DEF Next
<1>3. CASE begin_coordinator_epoch
  BY <1>3 DEF begin_coordinator_epoch, TypeOK
<1>4. ASSUME NEW w \in Workers, adopt_worker(w)
      PROVE  /\ epoch' = epoch
             /\ \E b : RevokeRecords(b) /\ live_boots \ live_boots' = live_boots \cap {b}
  <2> DEFINE prev == Lookup(current_boot, w, None)
  <2>1. /\ epoch' = epoch /\ RevokeRecords(prev)
        /\ live_boots' = (live_boots \ {prev}) \cup {next_boot + 1}
    BY <1>4 DEF adopt_worker
  <2>2. next_boot + 1 \notin live_boots
    BY BoundsAssumption DEF AuthorityConsistent, TypeOK
  <2> HIDE DEF prev
  <2>3. live_boots \ live_boots' = live_boots \cap {prev}
    BY <2>1, <2>2
  <2>4. QED
    BY <2>1, <2>3
<1>5. ASSUME NEW b \in Boots, mark_worker_died(b)
      PROVE  /\ epoch' = epoch
             /\ RevokeRecords(b) /\ live_boots \ live_boots' = live_boots \cap {b}
  BY <1>5 DEF mark_worker_died
<1>6. QED
  BY <1>2, <1>3, <1>4, <1>5 DEF AuthorityNext

\* A late death report or a restart changes the records of the incarnation it
\* ends and of no other.
THEOREM DeathScopeCorrect == Spec => DeathIsIncarnationScoped
<1>1. TypeOK /\ AuthorityConsistent /\ [Next]_vars =>
        [\A i \in DOMAIN instances :
           /\ live_boots # live_boots' /\ epoch' = epoch
           /\ instances[i].boot \notin live_boots \ live_boots'
           => instances'[i] = instances[i]]_vars
  <2> SUFFICES ASSUME TypeOK, AuthorityConsistent, Next, NEW i \in DOMAIN instances,
                      live_boots # live_boots', epoch' = epoch,
                      instances[i].boot \notin live_boots \ live_boots'
               PROVE  instances'[i] = instances[i]
    OBVIOUS
  <2>1. PICK b : RevokeRecords(b) /\ live_boots \ live_boots' = live_boots \cap {b}
    BY LostBoots
  <2>2. i \notin Orphans(b)
    BY <2>1 DEF Orphans, is_boot_live
  <2>3. QED
    BY <2>1, <2>2 DEF RevokeRecords, RevokedInstances
<1>2. QED
  BY <1>1, TypeCorrect, AuthorityCorrect, PTL DEF Spec, DeathIsIncarnationScoped

\* Whatever ends an incarnation, in the same step none of its instances
\* serves, none of their leases stays ACTIVE and, but for a new epoch, no
\* endpoint stays bound to one that lists it.
THEOREM ReleaseCorrect == Spec => LostBootsReleaseEverything
<1> DEFINE Released(i) ==
      /\ ~Serving(i)'
      /\ instances[i].lease \in DOMAIN leases => leases'[instances[i].lease].state # "ACTIVE"
      /\ epoch' = epoch => \A e \in Range(instances[i].endpoints) :
                             endpoints'[e].service_instance # i
<1>1. TypeOK /\ AuthorityConsistent /\ RecordsResolve /\ AllocatorsSound /\ [Next]_vars =>
        [\A b \in live_boots \ live_boots' :
           \A i \in DOMAIN instances : instances[i].boot = b => Released(i)]_vars
  <2> SUFFICES ASSUME TypeOK, AuthorityConsistent, RecordsResolve, AllocatorsSound, Next,
                      NEW i \in DOMAIN instances,
                      instances[i].boot \in live_boots \ live_boots'
               PROVE  Released(i)
    OBVIOUS
  <2>1. /\ instances[i] \in ServiceInstance /\ i # None
        /\ \A l \in DOMAIN leases : leases[l] \in LeaseDescriptor
        /\ \A e \in DOMAIN endpoints : endpoints[e] \in EndpointDescriptor
        /\ Range(instances[i].endpoints) \subseteq DOMAIN endpoints
    BY DEF TypeOK, IsMap, AllocatorsSound, RecordsResolve
  <2>2. CASE begin_coordinator_epoch /\ epoch' # epoch
    <3>1. RevalidatedInstance(instances[i]).lifecycle \notin {"AVAILABLE", "DEGRADED"}
      BY <2>1 DEF RevalidatedInstance, ServiceInstance
    <3>2. \A l \in DOMAIN leases : RevalidatedLease(leases[l]).state # "ACTIVE"
      BY <2>1 DEF RevalidatedLease, LeaseDescriptor
    <3>3. QED
      BY <2>2, <3>1, <3>2 DEF begin_coordinator_epoch, Serving
  <2>3. ASSUME NEW b, RevokeRecords(b), live_boots \ live_boots' = live_boots \cap {b}
        PROVE  Released(i)
    <3>1. i \in Orphans(b)
      BY <2>3 DEF Orphans, is_boot_live
    <3>2. instances'[i].lifecycle = "STALE"
      BY <2>1, <2>3, <3>1 DEF RevokeRecords, RevokedInstances, ServiceInstance
    <3>3. ASSUME instances[i].lease \in DOMAIN leases
          PROVE  leases'[instances[i].lease].state # "ACTIVE"
      <4>1. [leases[instances[i].lease] EXCEPT !.state = "EXPIRED"].state = "EXPIRED"
        BY <2>1, <3>3 DEF LeaseDescriptor
      <4>2. QED
        BY <2>3, <3>1, <3>3, <4>1 DEF RevokeRecords, RevokedLeases
    <3>4. ASSUME NEW e \in Range(instances[i].endpoints)
          PROVE  endpoints'[e].service_instance # i
      <4>1. e \in DOMAIN endpoints /\ endpoints[e] \in EndpointDescriptor
        BY <2>1
      <4>2. [endpoints[e] EXCEPT !.service_instance = None,
                                 !.reachability = "UNREACHABLE"].service_instance = None
        BY <4>1 DEF EndpointDescriptor
      <4>3. QED
        BY <2>1, <2>3, <3>1, <4>1, <4>2 DEF RevokeRecords, ReleasedEndpoints
    <3>5. QED
      BY <3>2, <3>3, <3>4 DEF Serving
  <2> HIDE DEF Released
  <2>4. QED
    BY <2>2, <2>3, LostBoots
<1>2. QED
  BY <1>1, TypeCorrect, AuthorityCorrect, RecordsCorrect, AllocatorsCorrect, PTL
     DEF Spec, LostBootsReleaseEverything

-----------------------------------------------------------------------------
(* Leases                                                                  *)

\* A lease of one generation comes back to ACTIVE only through the live boot of
\* its instance, and a revoked one is revoked for good.
THEOREM LeaseRevivalCorrect == Spec => LeaseRevivalIsFenced
<1> DEFINE Fences(l) ==
      leases'[l].generation = leases[l].generation =>
        /\ leases[l].state = "REVOKED" => leases'[l].state = "REVOKED"
        /\ /\ leases[l].state # "ACTIVE" /\ leases'[l].state = "ACTIVE"
           /\ leases[l].service_instance \in DOMAIN instances
           => is_boot_live(instances[leases[l].service_instance].boot)
<1>1. TypeOK /\ AllocatorsSound /\ [Next]_vars => [\A l \in DOMAIN leases : Fences(l)]_vars
  <2> SUFFICES ASSUME TypeOK, AllocatorsSound, Next, NEW l \in DOMAIN leases
               PROVE  Fences(l)
    OBVIOUS
  <2>1. /\ leases[l] \in LeaseDescriptor /\ lease_gen \in Nat
        /\ leases[l].generation <= lease_gen
    BY DEF TypeOK, IsMap, AllocatorsSound
  <2>2. ASSUME leases'[l] = leases[l] \/ leases'[l].state \notin {"ACTIVE"},
               leases[l].state = "REVOKED" => leases'[l] = leases[l]
        PROVE  Fences(l)
    BY <2>2
  <2>3. ASSUME NEW state
        PROVE  [leases[l] EXCEPT !.state = state].state = state
    BY <2>1 DEF LeaseDescriptor
  <2>4. CASE AuthorityNext
    <3>1. CASE begin_coordinator_epoch
      BY <2>2, <2>3, <3>1 DEF begin_coordinator_epoch, RevalidatedLease
    <3>2. ASSUME NEW b, RevokeRecords(b) PROVE Fences(l)
      BY <2>2, <2>3, <3>2 DEF RevokeRecords, RevokedLeases
    <3>3. QED
      BY <2>4, <3>1, <3>2 DEF AuthorityNext, adopt_worker, mark_worker_died
  <2>5. ASSUME NEW env, NEW in \in LeaseInputs, acquire_lease(env, in)
        PROVE  Fences(l)
    <3>1. [in.rec EXCEPT !.generation = lease_gen + 1].generation = lease_gen + 1
      BY InputsAssumption DEF LeaseDescriptor
    <3>2. leases[l].generation # lease_gen + 1
      BY <2>1 DEF LeaseDescriptor
    <3>3. QED
      BY <2>5, <3>1, <3>2 DEF acquire_lease, Put
  <2>6. ASSUME NEW env, NEW k \in DOMAIN leases, NEW g, renew_lease(env, k, g)
        PROVE  Fences(l)
    BY <2>3, <2>6 DEF renew_lease, Renewable, HolderBoot, validate_envelope
  <2>7. ASSUME NEW k \in DOMAIN leases, NEW state, state # "ACTIVE", EndLease(k, state)
        PROVE  Fences(l)
    BY <2>2, <2>3, <2>7 DEF EndLease
  <2>8. CASE CatalogNext \/ RegistrationNext \/ UpdateNext \/ FencingNext
    BY <2>2, <2>8, CatalogFrame, RegistrationFrame, UpdateFrame, FencingFrame DEF CatalogOnly
  <2> HIDE DEF Fences
  <2>9. QED
    BY <2>4, <2>5, <2>6, <2>7, <2>8
       DEF Next, LeaseNext, expire_lease, revoke_lease, mark_lease_revalidation_required
<1>2. QED
  BY <1>1, TypeCorrect, AllocatorsCorrect, PTL DEF Spec, LeaseRevivalIsFenced

-----------------------------------------------------------------------------
(* Starting to serve                                                       *)

\* Usable reachability in the aggregate is usable reachability of every
\* endpoint, and a serving lifecycle needs the lease and the capabilities.
LEMMA AggregateUsable ==
  ASSUME NEW inst \in ServiceInstance, NEW eps,
         aggregate_reachability(inst, eps) \in {"REACHABLE", "DEGRADED"}
  PROVE  \A e \in Range(inst.endpoints) :
           e \in DOMAIN eps => eps[e].reachability \in {"REACHABLE", "DEGRADED"}
<1>1. CASE inst.endpoints = << >>
  BY <1>1 DEF Range
<1>2. CASE inst.endpoints # << >>
  BY <1>2 DEF aggregate_reachability, Range
<1>3. QED
  BY <1>1, <1>2

LEMMA ClassifyEarned ==
  ASSUME NEW inst, NEW h, NEW r, classify(inst, h, r) \in {"AVAILABLE", "DEGRADED"}
  PROVE  lease_valid(inst) /\ capabilities_present(inst)
BY DEF classify

LEMMA ReclassifyEarned ==
  ASSUME NEW inst \in ServiceInstance, NEW eps, IsMap(eps, Nat, EndpointDescriptor),
         reclassify_lifecycle(inst, eps).lifecycle \in {"AVAILABLE", "DEGRADED"}
  PROVE  /\ lease_valid(inst) /\ capabilities_present(inst)
         /\ \A e \in Range(inst.endpoints) :
              e \in DOMAIN eps => eps[e].reachability \in {"REACHABLE", "DEGRADED"}
<1> DEFINE h == aggregate_health(inst, eps)
           r == aggregate_reachability(inst, eps)
           c == classify(inst, h, r)
           new == reclassify_lifecycle(inst, eps)
<1>1. new = [inst EXCEPT !.health = h, !.reachability = r, !.lifecycle = c]
  BY DEF reclassify_lifecycle
<1>2. new.reachability \in {"REACHABLE", "DEGRADED"}
  BY ReclassifyType
<1> HIDE DEF h, r, c, new
<1>3. new.lifecycle = c /\ new.reachability = r
  BY <1>1 DEF ServiceInstance
<1>4. lease_valid(inst) /\ capabilities_present(inst)
  BY <1>3, ClassifyEarned DEF c, new
<1>5. QED
  BY <1>2, <1>3, <1>4, AggregateUsable DEF r

\* What an instance that was just classified as serving depends on is there.
LEMMA PromotionEarned ==
  ASSUME TypeOK', RecordsResolve', UNCHANGED <<services, leases, capabilities>>,
         NEW i \in DOMAIN instances', Serving(i)',
         NEW inst \in ServiceInstance, instances'[i] = reclassify_lifecycle(inst, endpoints')
  PROVE  (LeaseHeld(i) /\ EndpointsUsable(i) /\ CapabilitiesCurrent(i))'
<1>1. IsMap(endpoints', Nat, EndpointDescriptor)
  BY DEF TypeOK
<1>2. /\ lease_valid(inst) /\ capabilities_present(inst)
      /\ \A e \in Range(inst.endpoints) : e \in DOMAIN endpoints' =>
           endpoints'[e].reachability \in {"REACHABLE", "DEGRADED"}
  BY <1>1, ReclassifyEarned DEF Serving
<1>3. /\ instances'[i].service_id = inst.service_id
      /\ instances'[i].endpoints = inst.endpoints
      /\ instances'[i].capabilities = inst.capabilities
      /\ instances'[i].lease = inst.lease
  BY ReclassifyLinks
<1>4. /\ inst.service_id \in DOMAIN services
      /\ Range(inst.endpoints) \subseteq DOMAIN endpoints'
  BY <1>3 DEF RecordsResolve
<1>5. LeaseHeld(i)'
  BY <1>2, <1>3 DEF LeaseHeld, lease_valid
<1>6. EndpointsUsable(i)'
  BY <1>2, <1>3, <1>4 DEF EndpointsUsable
<1>7. CapabilitiesCurrent(i)'
  BY <1>2, <1>3, <1>4 DEF CapabilitiesCurrent, capabilities_present
<1>8. QED
  BY <1>5, <1>6, <1>7

\* A registration serves what it installed, if anything new.
LEMMA RegisterOverServes ==
  ASSUME TypeOK, NEW insts, IsMap(insts, Nat, ServiceInstance), DOMAIN insts = DOMAIN instances,
         \A i \in DOMAIN insts : insts[i] = instances[i] \/ insts[i].lifecycle = "SUPERSEDED",
         NEW in, in.id \in Nat, NEW inst \in ServiceInstance, RegisterOver(insts, in, inst),
         NEW i \in DOMAIN instances', Serving(i)'
  PROVE  \/ i \in DOMAIN instances /\ Serving(i)
         \/ instances'[i] = reclassify_lifecycle(inst, endpoints')
<1>1. CASE instances' = insts
  BY <1>1 DEF Serving
<1>2. ASSUME NEW is, SameLinks(insts, is), NEW id, Install(is, id, inst),
             \A j \in DOMAIN is : is[j] = insts[j] \/ is[j].lifecycle = "SUPERSEDED"
      PROVE  \/ i \in DOMAIN instances /\ Serving(i)
             \/ instances'[i] = reclassify_lifecycle(inst, endpoints')
  <2>1. \/ instances' = is
        \/ instances' = Put(is, id, reclassify_lifecycle(inst, endpoints'))
    BY <1>2 DEF Install
  <2>2. CASE i \in DOMAIN is /\ instances'[i] = is[i]
    BY <1>2, <2>2 DEF Serving, SameLinks
  <2>3. QED
    BY <2>1, <2>2 DEF Put
<1>3. QED
  BY <1>1, <1>2, RegisterOverCases

\* An instance becomes AVAILABLE or DEGRADED only in a state in which its lease
\* is active, its endpoints are usable and its service's capabilities current.
THEOREM PromotionCorrect == Spec => PromotionIsEarned
<1> DEFINE Earned(i) == (LeaseHeld(i) /\ EndpointsUsable(i) /\ CapabilitiesCurrent(i))'
<1>1. TypeOK /\ TypeOK' /\ RecordsResolve' /\ [Next]_vars =>
        [\A i \in DOMAIN instances' :
           Serving(i)' /\ ~(i \in DOMAIN instances /\ Serving(i)) => Earned(i)]_vars
  <2> SUFFICES ASSUME TypeOK, TypeOK', RecordsResolve', Next, NEW i \in DOMAIN instances',
                      Serving(i)', ~(i \in DOMAIN instances /\ Serving(i))
               PROVE  Earned(i)
    OBVIOUS
  <2>1. IsMap(instances, Nat, ServiceInstance)
    BY DEF TypeOK
  <2>2. CASE AuthorityNext
    <3>1. ASSUME NEW inst \in ServiceInstance
          PROVE  /\ RevalidatedInstance(inst).lifecycle \notin {"AVAILABLE", "DEGRADED"}
                 /\ [inst EXCEPT !.lifecycle = "STALE", !.freshness = "STALE",
                       !.reachability = "UNREACHABLE", !.readiness = "NOT_READY"].lifecycle
                      = "STALE"
      BY DEF RevalidatedInstance, ServiceInstance
    <3>2. CASE begin_coordinator_epoch
      BY <2>1, <3>1, <3>2 DEF begin_coordinator_epoch, Serving, IsMap
    <3>3. ASSUME NEW b, RevokeRecords(b) PROVE FALSE
      BY <2>1, <3>1, <3>3 DEF RevokeRecords, RevokedInstances, Serving, IsMap
    <3>4. QED
      BY <2>2, <3>2, <3>3 DEF AuthorityNext, adopt_worker, mark_worker_died
  <2>3. CASE UpdateNext
    <3>1. i \in DOMAIN instances /\ UNCHANGED <<services, leases, capabilities>>
      BY <2>3, UpdateStep, UpdateFrame DEF SameLinks
    <3>2. \E inst \in ServiceInstance : instances'[i] = reclassify_lifecycle(inst, endpoints')
      BY <2>3, <3>1, UpdateStep DEF Serving
    <3>3. QED
      BY <3>1, <3>2, PromotionEarned
  <2>4. ASSUME NEW env \in Envelopes, NEW in \in InstanceInputs, NEW b \in OwnerBoots(env),
               register_instance(env, in, b)
        PROVE  Earned(i)
    <3>1. /\ RegisterOver(instances, in, [in.rec EXCEPT !.boot = b])
          /\ UNCHANGED <<services, leases, capabilities>>
      BY <2>4 DEF register_instance
    <3>2. instances'[i] = reclassify_lifecycle([in.rec EXCEPT !.boot = b], endpoints')
      BY <2>1, <3>1, OwnedType, RegisterOverServes
    <3>3. QED
      BY <3>1, <3>2, OwnedType, PromotionEarned
  <2>5. ASSUME NEW env \in Envelopes, NEW old \in DOMAIN instances, NEW in \in InstanceInputs,
               NEW b \in OwnerBoots(env), supersede(env, old, in, b)
        PROVE  Earned(i)
    <3> DEFINE marked == [instances EXCEPT ![old].lifecycle = "SUPERSEDED"]
    <3>1. /\ RegisterOver(marked, in, [in.rec EXCEPT !.boot = b])
          /\ UNCHANGED <<services, leases, capabilities>>
      BY <2>5 DEF supersede
    <3>2. [instances[old] EXCEPT !.lifecycle = "SUPERSEDED"].lifecycle = "SUPERSEDED"
      BY <2>1 DEF IsMap, ServiceInstance
    <3>3. /\ IsMap(marked, Nat, ServiceInstance) /\ DOMAIN marked = DOMAIN instances
          /\ \A j \in DOMAIN marked :
               marked[j] = instances[j] \/ marked[j].lifecycle = "SUPERSEDED"
      BY <2>1, <3>2, MarkType DEF Lifecycle
    <3> HIDE DEF marked
    <3>4. instances'[i] = reclassify_lifecycle([in.rec EXCEPT !.boot = b], endpoints')
      BY <3>1, <3>3, OwnedType, RegisterOverServes
    <3>5. QED
      BY <3>1, <3>4, OwnedType, PromotionEarned
  <2>6. CASE instances' = instances
    BY <2>6 DEF Serving
  <2>7. CASE CatalogNext \/ LeaseNext \/ FencingNext
    BY <2>6, <2>7, CatalogFrame, LeaseFrame, FencingFrame DEF CatalogOnly, LeasesOnly
  <2> HIDE DEF Earned
  <2>8. CASE RegistrationNext
    BY <2>4, <2>5, <2>6, <2>8
       DEF RegistrationNext, register_service, register_endpoint, register_capability
  <2>9. QED
    BY <2>2, <2>3, <2>7, <2>8 DEF Next
<1>2. QED
  BY <1>1, TypeCorrect, RecordsCorrect, PTL DEF Spec, PromotionIsEarned

-----------------------------------------------------------------------------
(* Endpoints keep their owners                                             *)

\* As long as callers' endpoint ids stay clear of the allocator's, a
\* registration of an endpoint writes a new id or a newer generation: the ids
\* in m are ones the allocator has passed or never reaches.
ClearOf(m, inputs) ==
  (\E in \in inputs : in.id = None) => \A d \in DOMAIN m : d < next_id \/ d > MaxId

\* No operation turns the allocator back.
LEMMA NextIdAdvances ==
  ASSUME TypeOK, [Next]_vars
  PROVE  next_id' >= next_id
<1>1. next_id \in Nat
  BY DEF TypeOK
<1>2. ASSUME NEW id, TakeId(id) \/ next_id' = next_id PROVE next_id' >= next_id
  BY <1>1, <1>2 DEF TakeId
<1>3. CASE AuthorityNext \/ UpdateNext \/ UNCHANGED vars
  BY <1>2, <1>3, AuthorityRecordsFrame, UpdateFrame DEF vars
<1>4. CASE CatalogNext
  BY <1>2, <1>4 DEF CatalogNext, Catalogued, register_runtime, register_protocol,
     register_backend, register_device, register_node
<1>5. CASE RegistrationNext
  <2>1. ASSUME NEW insts, NEW in, NEW inst, RegisterOver(insts, in, inst)
        PROVE  next_id' >= next_id
    BY <1>2, <2>1 DEF RegisterOver
  <2>2. QED
    BY <1>2, <1>5, <2>1 DEF RegistrationNext, register_service, register_endpoint,
       register_capability, register_instance, supersede
<1>6. CASE LeaseNext \/ FencingNext
  BY <1>2, <1>6 DEF LeaseNext, acquire_lease, renew_lease, EndLease, expire_lease,
     revoke_lease, mark_lease_revalidation_required, FencingNext, create_tombstone,
     invalidate
<1>7. QED
  BY <1>3, <1>4, <1>5, <1>6 DEF Next

\* A map whose keys stay, or that takes an input's record, stays clear.
LEMMA ClearKept ==
  ASSUME TypeOK, [Next]_vars, NEW m, DOMAIN m \subseteq Nat, NEW n, DOMAIN n = DOMAIN m,
         NEW inputs, ClearOf(m, inputs)
  PROVE  (\E in \in inputs : in.id = None) => \A d \in DOMAIN n : d < next_id' \/ d > MaxId
<1>1. next_id \in Nat /\ next_id' \in Nat /\ next_id' >= next_id
  BY NextIdAdvances, TypeNext DEF TypeOK
<1>2. QED
  BY <1>1 DEF ClearOf

LEMMA ClearPut ==
  ASSUME TypeOK, next_id >= 1, NEW m, DOMAIN m \subseteq Nat,
         NEW inputs, KeepsClear(inputs), ClearOf(m, inputs),
         NEW in \in inputs, in.id \in Nat, TakeId(in.id), NEW v
  PROVE  /\ (\E x \in inputs : x.id = None) =>
              \A d \in DOMAIN Put(m, IdOf(in.id), v) : d < next_id' \/ d > MaxId
         /\ in.id \notin DOMAIN m => IdOf(in.id) \notin DOMAIN m
         /\ in.id \in DOMAIN m => IdOf(in.id) = in.id \/ IdOf(in.id) \notin DOMAIN m
<1>1. next_id \in Nat /\ MaxId \in Nat
  BY BoundsAssumption DEF TypeOK
<1>2. CASE in.id = None
  <2>1. next_id <= MaxId /\ next_id' = next_id + 1 /\ IdOf(in.id) = next_id
    BY <1>2 DEF TakeId, IdOf
  <2>2. \A d \in DOMAIN m : d < next_id \/ d > MaxId
    BY <1>2 DEF ClearOf
  <2>3. QED
    BY <1>1, <2>1, <2>2 DEF Put
<1>3. CASE in.id # None
  <2>1. next_id' = next_id /\ IdOf(in.id) = in.id
    BY <1>3 DEF TakeId, IdOf
  <2>2. QED
    BY <1>1, <1>3, <2>1 DEF Put, ClearOf, KeepsClear
<1>4. QED
  BY <1>2, <1>3

\* register_endpoint under the hypothesis: a known endpoint is replaced by a
\* newer generation, or left alone.
LEMMA EndpointReplaced ==
  ASSUME TypeOK, AllocatorsSound, KeepsClear(EndpointInputs), ClearOf(endpoints, EndpointInputs),
         NEW env, NEW in \in EndpointInputs, register_endpoint(env, in),
         NEW e \in DOMAIN endpoints
  PROVE  /\ e \in DOMAIN endpoints'
         /\ \/ endpoints'[e] = endpoints[e]
            \/ endpoints'[e].generation > endpoints[e].generation
<1>1. in.id \in Nat /\ next_id >= 1 /\ DOMAIN endpoints \subseteq Nat
  BY InputsAssumption DEF TypeOK, IsMap, AllocatorsSound
<1>2. /\ TakeId(in.id) /\ endpoints' = Put(endpoints, IdOf(in.id), in.rec)
      /\ in.id \in DOMAIN endpoints => in.rec.generation > endpoints[in.id].generation
  BY DEF register_endpoint, Registrable
<1>3. \/ IdOf(in.id) \notin DOMAIN endpoints
      \/ in.id \in DOMAIN endpoints /\ IdOf(in.id) = in.id
  BY <1>1, <1>2, ClearPut
<1>4. QED
  BY <1>2, <1>3 DEF Put

\* What the operations other than register_endpoint leave of endpoint e: its
\* contract, and its owner unless that is inactive from then on.
EndpointKept(e) ==
  /\ endpoints'[e].generation = endpoints[e].generation
  /\ endpoints'[e].transport = endpoints[e].transport
  /\ LET owner == endpoints[e].service_instance
     IN  /\ owner \in DOMAIN instances /\ instances[owner].lifecycle \notin Inactive
         /\ endpoints'[e].service_instance # owner
         => instances'[owner].lifecycle \in Inactive

\* Installing claims only endpoints that are free, its own already, or whose
\* owner is inactive, also when it stops half way.
LEMMA InstallKeeps ==
  ASSUME TypeOK, None \notin DOMAIN instances,
         NEW is, DOMAIN is = DOMAIN instances,
         \A i \in DOMAIN is : is[i] = instances[i] \/ is[i].lifecycle = "SUPERSEDED",
         NEW id \in Nat, NEW inst \in ServiceInstance, Install(is, id, inst),
         NEW e \in DOMAIN endpoints
  PROVE  EndpointKept(e)
<1> DEFINE owner == endpoints[e].service_instance
<1>1. endpoints[e] \in EndpointDescriptor
  BY DEF TypeOK, IsMap
<1>2. CASE endpoints'[e] = endpoints[e]
  BY <1>2 DEF EndpointKept
<1>3. CASE endpoints'[e] = Claimed(endpoints[e], id) /\ Claimable(is, id, e)
  <2>1. /\ endpoints'[e].generation = endpoints[e].generation
        /\ endpoints'[e].transport = endpoints[e].transport
        /\ endpoints'[e].service_instance = id
    BY <1>1, <1>3 DEF Claimed, EndpointDescriptor
  <2>2. ASSUME owner \in DOMAIN instances, owner # id
        PROVE  instances'[owner].lifecycle \in Inactive
    <3>1. is[owner].lifecycle \in Inactive
      BY <1>3, <2>2 DEF Claimable
    <3>2. instances' = is \/ instances' = Put(is, id, reclassify_lifecycle(inst, endpoints'))
      BY DEF Install
    <3>3. QED
      BY <2>2, <3>1, <3>2 DEF Put
  <2> HIDE DEF owner
  <2>3. QED
    BY <2>1, <2>2 DEF EndpointKept, owner
<1>4. \/ endpoints'[e] = endpoints[e]
      \/ endpoints'[e] = Claimed(endpoints[e], id) /\ Claimable(is, id, e)
  <2> DEFINE refused == {k \in DOMAIN inst.endpoints : ~Claimable(is, id, inst.endpoints[k])}
             claimed == {inst.endpoints[k] : k \in {k \in DOMAIN inst.endpoints :
                                                      \A r \in refused : k < r}}
  <2>1. endpoints' = [x \in DOMAIN endpoints |->
                        IF x \in claimed THEN Claimed(endpoints[x], id) ELSE endpoints[x]]
    BY DEF Install
  <2>2. ASSUME e \in claimed PROVE Claimable(is, id, e)
    <3>1. PICK k \in DOMAIN inst.endpoints :
            e = inst.endpoints[k] /\ \A r \in refused : k < r
      BY <2>2
    <3>2. inst.endpoints \in Seq(Nat) /\ k \in Nat
      BY <3>1 DEF ServiceInstance
    <3>3. ~(k < k)
      BY <3>2
    <3>4. k \notin refused
      BY <3>1, <3>3
    <3>5. QED
      BY <3>1, <3>4
  <2> HIDE DEF claimed
  <2>3. QED
    BY <2>1, <2>2
<1>5. QED
  BY <1>2, <1>3, <1>4

LEMMA RegisterOverKeeps ==
  ASSUME TypeOK, None \notin DOMAIN instances,
         NEW insts, IsMap(insts, Nat, ServiceInstance), DOMAIN insts = DOMAIN instances,
         \A i \in DOMAIN insts : insts[i] = instances[i] \/ insts[i].lifecycle = "SUPERSEDED",
         NEW in, in.id \in Nat, NEW inst \in ServiceInstance, RegisterOver(insts, in, inst)
  PROVE  /\ DOMAIN endpoints' = DOMAIN endpoints
         /\ \A e \in DOMAIN endpoints : EndpointKept(e)
<1>1. CASE UNCHANGED endpoints
  BY <1>1 DEF EndpointKept
<1>2. ASSUME NEW is, IsMap(is, Nat, ServiceInstance), SameLinks(insts, is),
             \A i \in DOMAIN is : is[i] = insts[i] \/ is[i].lifecycle = "SUPERSEDED",
             Install(is, IdOf(in.id), inst)
      PROVE  /\ DOMAIN endpoints' = DOMAIN endpoints
             /\ \A e \in DOMAIN endpoints : EndpointKept(e)
  <2>1. /\ DOMAIN is = DOMAIN instances
        /\ \A i \in DOMAIN is : is[i] = instances[i] \/ is[i].lifecycle = "SUPERSEDED"
    BY <1>2 DEF SameLinks
  <2>2. IdOf(in.id) \in Nat
    BY DEF IdOf, TypeOK
  <2>3. DOMAIN endpoints' = DOMAIN endpoints
    BY <1>2 DEF Install
  <2>4. QED
    BY <1>2, <2>1, <2>2, <2>3, InstallKeeps
<1>3. QED
  BY <1>1, <1>2, RegisterOverCases

\* Everything but register_endpoint keeps the endpoints.
LEMMA EndpointsKept ==
  ASSUME TypeOK, AllocatorsSound, [Next]_vars,
         ~ \E env \in Envelopes, in \in EndpointInputs : register_endpoint(env, in)
  PROVE  /\ DOMAIN endpoints' = DOMAIN endpoints
         /\ \A e \in DOMAIN endpoints : EndpointKept(e)
<1> DEFINE Kept == /\ DOMAIN endpoints' = DOMAIN endpoints
                   /\ \A e \in DOMAIN endpoints : EndpointKept(e)
<1>1. /\ IsMap(instances, Nat, ServiceInstance) /\ None \notin DOMAIN instances
      /\ \A e \in DOMAIN endpoints : endpoints[e] \in EndpointDescriptor
  BY DEF TypeOK, IsMap, AllocatorsSound
<1>2. CASE UNCHANGED endpoints
  BY <1>2 DEF EndpointKept
<1>3. CASE begin_coordinator_epoch
  <2>1. ASSUME NEW e \in DOMAIN endpoints
        PROVE  LET new == RevalidatedEndpoint(endpoints[e]) IN
               /\ new.generation = endpoints[e].generation
               /\ new.transport = endpoints[e].transport
               /\ new.service_instance = endpoints[e].service_instance
    BY <1>1 DEF RevalidatedEndpoint, EndpointDescriptor
  <2>2. QED
    BY <1>3, <2>1 DEF begin_coordinator_epoch, EndpointKept
<1>4. ASSUME NEW b, RevokeRecords(b) PROVE Kept
  <2>1. DOMAIN endpoints' = DOMAIN endpoints
    BY <1>4 DEF RevokeRecords, ReleasedEndpoints
  <2>2. ASSUME NEW e \in DOMAIN endpoints PROVE EndpointKept(e)
    <3> DEFINE free == [endpoints[e] EXCEPT !.service_instance = None,
                                            !.reachability = "UNREACHABLE"]
               owner == endpoints[e].service_instance
    <3>1. free.generation = endpoints[e].generation /\ free.transport = endpoints[e].transport
      BY <1>1 DEF EndpointDescriptor
    <3>2. endpoints'[e] = endpoints[e] \/ (endpoints'[e] = free /\ owner \in Orphans(b))
      BY <1>4 DEF RevokeRecords, ReleasedEndpoints
    <3>3. ASSUME owner \in Orphans(b) PROVE instances'[owner].lifecycle = "STALE"
      <4>1. owner \in DOMAIN instances /\ instances[owner] \in ServiceInstance
        BY <1>1, <3>3 DEF Orphans, IsMap
      <4>2. [instances[owner] EXCEPT !.lifecycle = "STALE", !.freshness = "STALE",
              !.reachability = "UNREACHABLE", !.readiness = "NOT_READY"].lifecycle = "STALE"
        BY <4>1 DEF ServiceInstance
      <4>3. QED
        BY <1>4, <3>3, <4>1, <4>2 DEF RevokeRecords, RevokedInstances
    <3> HIDE DEF free, owner
    <3>4. QED
      BY <3>1, <3>2, <3>3 DEF EndpointKept, Inactive, owner
  <2>3. QED
    BY <2>1, <2>2
<1>5. CASE UpdateNext
  BY <1>5, UpdateStep DEF EndpointKept
<1>6. ASSUME NEW env \in Envelopes, NEW in \in InstanceInputs, NEW b \in OwnerBoots(env),
             register_instance(env, in, b)
      PROVE  Kept
  <2>1. RegisterOver(instances, in, [in.rec EXCEPT !.boot = b])
    BY <1>6 DEF register_instance
  <2>2. QED
    BY <1>1, <2>1, OwnedType, RegisterOverKeeps
<1>7. ASSUME NEW env \in Envelopes, NEW old \in DOMAIN instances, NEW in \in InstanceInputs,
             NEW b \in OwnerBoots(env), supersede(env, old, in, b)
      PROVE  Kept
  <2> DEFINE marked == [instances EXCEPT ![old].lifecycle = "SUPERSEDED"]
  <2>1. RegisterOver(marked, in, [in.rec EXCEPT !.boot = b])
    BY <1>7 DEF supersede
  <2>2. [instances[old] EXCEPT !.lifecycle = "SUPERSEDED"].lifecycle = "SUPERSEDED"
    BY <1>1 DEF IsMap, ServiceInstance
  <2>3. /\ IsMap(marked, Nat, ServiceInstance) /\ DOMAIN marked = DOMAIN instances
        /\ \A j \in DOMAIN marked :
             marked[j] = instances[j] \/ marked[j].lifecycle = "SUPERSEDED"
    BY <1>1, <2>2, MarkType DEF Lifecycle
  <2> HIDE DEF marked
  <2>4. QED
    BY <1>1, <2>1, <2>3, OwnedType, RegisterOverKeeps
<1>8. CASE CatalogNext \/ LeaseNext \/ FencingNext \/ UNCHANGED vars
  BY <1>2, <1>8, CatalogFrame, LeaseFrame, FencingFrame DEF CatalogOnly, LeasesOnly, vars
<1> HIDE DEF Kept
<1>9. CASE AuthorityNext
  BY <1>3, <1>4, <1>9 DEF AuthorityNext, adopt_worker, mark_worker_died, Kept
<1>10. CASE RegistrationNext
  BY <1>2, <1>6, <1>7, <1>10 DEF RegistrationNext, register_service, register_capability, Kept
<1>11. QED
  BY <1>5, <1>8, <1>9, <1>10 DEF Next, Kept

LEMMA ClearEndpoints ==
  ASSUME KeepsClear(EndpointInputs)
  PROVE  Spec => []ClearOf(endpoints, EndpointInputs)
<1> DEFINE Clear == ClearOf(endpoints, EndpointInputs)
<1>1. Init => Clear
  BY EmptyIsMap DEF Init, ClearOf
<1>2. TypeOK /\ AllocatorsSound /\ Clear /\ [Next]_vars => Clear'
  <2> SUFFICES ASSUME TypeOK, AllocatorsSound, Clear, [Next]_vars PROVE Clear'
    OBVIOUS
  <2>1. DOMAIN endpoints \subseteq Nat /\ next_id >= 1
    BY DEF TypeOK, IsMap, AllocatorsSound
  <2>2. ASSUME NEW env, NEW in \in EndpointInputs, register_endpoint(env, in)
        PROVE  Clear'
    <3>1. in.id \in Nat
      BY InputsAssumption
    <3>2. TakeId(in.id) /\ endpoints' = Put(endpoints, IdOf(in.id), in.rec)
      BY <2>2 DEF register_endpoint
    <3>3. QED
      BY <2>1, <3>1, <3>2, ClearPut DEF ClearOf
  <2>3. CASE DOMAIN endpoints' = DOMAIN endpoints
    BY <2>1, <2>3, ClearKept DEF ClearOf
  <2>4. QED
    BY <2>2, <2>3, EndpointsKept
<1> HIDE DEF Clear
<1>3. QED
  BY <1>1, <1>2, TypeCorrect, AllocatorsCorrect, PTL DEF Spec, Clear

\* As long as callers' endpoint ids stay clear of the allocator's, an endpoint
\* of an active instance changes hands only when that instance goes inactive
\* in the same step or the endpoint itself takes a newer generation.
THEOREM EndpointOwnersCorrect ==
  ASSUME KeepsClear(EndpointInputs)
  PROVE  Spec => ActiveOwnerKeepsEndpoint
<1> DEFINE OwnerKept(e) ==
      LET owner == endpoints[e].service_instance
      IN  /\ owner \in DOMAIN instances /\ instances[owner].lifecycle \notin Inactive
          /\ endpoints'[e].service_instance # owner
          => \/ instances'[owner].lifecycle \in Inactive
             \/ endpoints'[e].generation > endpoints[e].generation
<1>1. /\ TypeOK /\ AllocatorsSound /\ ClearOf(endpoints, EndpointInputs) /\ [Next]_vars
      => [\A e \in DOMAIN endpoints : OwnerKept(e)]_vars
  <2> SUFFICES ASSUME TypeOK, AllocatorsSound, ClearOf(endpoints, EndpointInputs), Next,
                      NEW e \in DOMAIN endpoints
               PROVE  OwnerKept(e)
    OBVIOUS
  <2>1. CASE \E env \in Envelopes, in \in EndpointInputs : register_endpoint(env, in)
    BY <2>1, EndpointReplaced
  <2>2. CASE ~ \E env \in Envelopes, in \in EndpointInputs : register_endpoint(env, in)
    BY <2>2, EndpointsKept DEF EndpointKept
  <2>3. QED
    BY <2>1, <2>2
<1>2. QED
  BY <1>1, TypeCorrect, AllocatorsCorrect, ClearEndpoints, PTL
     DEF Spec, ActiveOwnerKeepsEndpoint

-----------------------------------------------------------------------------
(* Descriptors advance                                                     *)

\* Every record of m is in n as it was, or at a newer generation.
Advances(m, n) ==
  \A d \in DOMAIN m :
    d \in DOMAIN n /\ (n[d] = m[d] \/ n[d].generation > m[d].generation)

\* A record stored under a new id, or under the id it was compared with.
LEMMA PutAdvances ==
  ASSUME NEW m, NEW in, NEW id, NEW v, v.generation = in.rec.generation,
         in.id \in DOMAIN m => in.rec.generation > m[in.id].generation,
         id \notin DOMAIN m \/ (in.id \in DOMAIN m /\ id = in.id)
  PROVE  Advances(m, Put(m, id, v))
BY DEF Advances, Put

\* The capabilities change in register_capability and in a new epoch only.
LEMMA CapabilityFrame ==
  ASSUME [Next]_vars,
         ~ \E env \in Envelopes, in \in CapabilityInputs : register_capability(env, in)
  PROVE  UNCHANGED capabilities \/ begin_coordinator_epoch
<1>1. CASE RegistrationNext
  BY <1>1 DEF RegistrationNext, register_service, register_endpoint, register_instance,
              supersede
<1>2. CASE AuthorityNext
  BY <1>2 DEF AuthorityNext, adopt_worker, mark_worker_died, RevokeRecords
<1>3. QED
  BY <1>1, <1>2, CatalogFrame, LeaseFrame, FencingFrame, UpdateFrame
     DEF Next, CatalogOnly, LeasesOnly, vars

LEMMA ServiceFrame ==
  ASSUME [Next]_vars,
         ~ \E env \in Envelopes, in \in ServiceInputs : register_service(env, in)
  PROVE  UNCHANGED services
<1>1. CASE RegistrationNext
  BY <1>1 DEF RegistrationNext, register_endpoint, register_capability, register_instance,
              supersede
<1>2. QED
  BY <1>1, AuthorityRecordsFrame, CatalogFrame, LeaseFrame, FencingFrame, UpdateFrame
     DEF Next, CatalogOnly, LeasesOnly, vars

LEMMA CatalogOnlyFrame ==
  ASSUME [Next]_vars, ~CatalogNext
  PROVE  UNCHANGED catalog
BY AuthorityRecordsFrame, RegistrationFrame, LeaseFrame, FencingFrame, UpdateFrame
   DEF Next, LeasesOnly, vars

\* Record v of input in goes into the map of its kind, under an id that is new,
\* not covered by a tombstone where that is asked, or known at an older
\* generation.
CatalogTakes(in, v) ==
  LET k  == in.kind
      id == IF k \in AllocatedKind THEN IdOf(in.id) ELSE in.id
  IN  /\ k \in CatalogKind /\ k # "RuntimeId" /\ v.generation = in.rec.generation
      /\ in.id \in DOMAIN catalog[k] => in.rec.generation > catalog[k][in.id].generation
      /\ k = "RuntimeInstanceId" /\ in.id \notin DOMAIN catalog[k]
           => ~covered_by_tombstone(k, in.id, in.rec.generation)
      /\ catalog'[k] = Put(catalog[k], id, v)
      /\ \A x \in CatalogKind \ {k, "RuntimeId"} : catalog'[x] = catalog[x]
      /\ k \in AllocatedKind => TakeId(in.id)

\* A registration in the catalog puts one record into the map of one kind;
\* register_runtime may put it under its runtime as well.
LEMMA CatalogCases ==
  ASSUME TypeOK, CatalogNext
  PROVE  \E in \in CatalogInputs : \E v \in CatalogDescriptor : CatalogTakes(in, v)
<1> SUFFICES ASSUME NEW env \in Envelopes, NEW in \in CatalogInputs,
               \/ register_runtime(env, in) \/ register_protocol(env, in)
               \/ register_backend(env, in) \/ register_device(env, in)
               \/ register_node(env, in)
             PROVE  \E v \in CatalogDescriptor : CatalogTakes(in, v)
  BY DEF CatalogNext
<1>1. in.kind \in CatalogKind /\ in.id \in Nat /\ in.rec \in CatalogDescriptor
  BY InputsAssumption
<1>2. IdOf(in.id) \in Nat /\ DOMAIN catalog = CatalogKind
  BY <1>1 DEF IdOf, TypeOK
<1>3. CASE register_runtime(env, in)
  <2> DEFINE v == [in.rec EXCEPT !.runtime_instance = IdOf(in.id)]
  <2>1. v \in CatalogDescriptor /\ v.generation = in.rec.generation
    BY <1>1, <1>2 DEF CatalogDescriptor
  <2>2. /\ in.kind = "RuntimeInstanceId" /\ TakeId(in.id)
        /\ in.id \in DOMAIN catalog[in.kind] =>
             in.rec.generation > catalog[in.kind][in.id].generation
        /\ in.id \notin DOMAIN catalog[in.kind] =>
             ~covered_by_tombstone(in.kind, in.id, in.rec.generation)
    BY <1>3 DEF register_runtime, Registrable
  <2>3. /\ catalog'["RuntimeInstanceId"] = Put(catalog["RuntimeInstanceId"], IdOf(in.id), v)
        /\ \A x \in CatalogKind \ {"RuntimeInstanceId", "RuntimeId"} : catalog'[x] = catalog[x]
    BY <1>2, <1>3 DEF register_runtime, WithRuntime, CatalogKind
  <2> HIDE DEF v
  <2>4. QED
    BY <1>1, <2>1, <2>2, <2>3 DEF AllocatedKind, CatalogTakes
<1>4. ASSUME NEW kind, NEW id, Catalogued(env, in, kind, id)
      PROVE  /\ in.kind = kind
             /\ in.id \in DOMAIN catalog[kind] => in.rec.generation > catalog[kind][in.id].generation
             /\ catalog'[kind] = Put(catalog[kind], id, in.rec)
             /\ \A x \in CatalogKind \ {kind, "RuntimeId"} : catalog'[x] = catalog[x]
  BY <1>1, <1>2, <1>4 DEF Catalogued
<1>5. CASE register_protocol(env, in)
  BY <1>1, <1>4, <1>5 DEF register_protocol, AllocatedKind, CatalogTakes
<1>6. CASE register_backend(env, in)
  BY <1>1, <1>4, <1>6 DEF register_backend, AllocatedKind, CatalogTakes
<1>7. CASE register_device(env, in)
  BY <1>1, <1>4, <1>7 DEF register_device, AllocatedKind, CatalogTakes
<1>8. CASE register_node(env, in)
  BY <1>1, <1>4, <1>8 DEF register_node, AllocatedKind, CatalogTakes
<1>9. QED
  BY <1>3, <1>5, <1>6, <1>7, <1>8

\* The ids of capabilities and of the catalog stay clear of the allocator's.
LEMMA ClearCapabilities ==
  ASSUME KeepsClear(CapabilityInputs)
  PROVE  Spec => []ClearOf(capabilities, CapabilityInputs)
<1> DEFINE Clear == ClearOf(capabilities, CapabilityInputs)
<1>1. Init => Clear
  BY EmptyIsMap DEF Init, ClearOf
<1>2. TypeOK /\ AllocatorsSound /\ Clear /\ [Next]_vars => Clear'
  <2> SUFFICES ASSUME TypeOK, AllocatorsSound, Clear, [Next]_vars PROVE Clear'
    OBVIOUS
  <2>1. DOMAIN capabilities \subseteq Nat /\ next_id >= 1
    BY DEF TypeOK, IsMap, AllocatorsSound
  <2>2. ASSUME NEW env, NEW in \in CapabilityInputs, register_capability(env, in)
        PROVE  Clear'
    <3>1. in.id \in Nat
      BY InputsAssumption
    <3>2. TakeId(in.id) /\ capabilities' = Put(capabilities, IdOf(in.id), in.rec)
      BY <2>2 DEF register_capability
    <3>3. QED
      BY <2>1, <3>1, <3>2, ClearPut DEF ClearOf
  <2>3. CASE UNCHANGED capabilities \/ begin_coordinator_epoch
    <3>1. DOMAIN capabilities' = DOMAIN capabilities
      BY <2>3 DEF begin_coordinator_epoch
    <3>2. QED
      BY <2>1, <3>1, ClearKept DEF ClearOf
  <2>4. QED
    BY <2>2, <2>3, CapabilityFrame
<1> HIDE DEF Clear
<1>3. QED
  BY <1>1, <1>2, TypeCorrect, AllocatorsCorrect, PTL DEF Spec, Clear

ClearCatalogs == \A k \in AllocatedKind : ClearOf(catalog[k], CatalogInputsOf(k))

LEMMA ClearCatalog ==
  ASSUME IdsKeptApart
  PROVE  Spec => []ClearCatalogs
<1>0. AllocatedKind \subseteq CatalogKind \ {"RuntimeId"}
  BY DEF AllocatedKind, CatalogKind
<1>1. Init => ClearCatalogs
  BY <1>0, EmptyIsMap DEF Init, ClearCatalogs, ClearOf
<1>2. TypeOK /\ AllocatorsSound /\ ClearCatalogs /\ [Next]_vars => ClearCatalogs'
  <2> SUFFICES ASSUME TypeOK, AllocatorsSound, ClearCatalogs, [Next]_vars,
                      NEW k \in AllocatedKind
               PROVE  ClearOf(catalog[k], CatalogInputsOf(k))'
    BY DEF ClearCatalogs
  <2>1. /\ DOMAIN catalog[k] \subseteq Nat /\ next_id >= 1
        /\ ClearOf(catalog[k], CatalogInputsOf(k)) /\ KeepsClear(CatalogInputsOf(k))
    BY <1>0 DEF TypeOK, IsMap, AllocatorsSound, ClearCatalogs, IdsKeptApart
  <2>2. ASSUME NEW in \in CatalogInputs, NEW v, CatalogTakes(in, v), in.kind = k
        PROVE  ClearOf(catalog[k], CatalogInputsOf(k))'
    <3>1. in.id \in Nat /\ in \in CatalogInputsOf(k)
      BY <2>2, InputsAssumption DEF CatalogInputsOf
    <3>2. TakeId(in.id) /\ catalog'[k] = Put(catalog[k], IdOf(in.id), v)
      BY <2>2 DEF CatalogTakes
    <3>3. QED
      BY <2>1, <3>1, <3>2, ClearPut DEF ClearOf, CatalogInputsOf
  <2>3. CASE catalog'[k] = catalog[k]
    BY <2>1, <2>3, ClearKept DEF ClearOf, CatalogInputsOf
  <2>4. ASSUME NEW in \in CatalogInputs, NEW v, CatalogTakes(in, v), in.kind # k
        PROVE  catalog'[k] = catalog[k]
    BY <1>0, <2>4 DEF CatalogTakes
  <2>5. CASE ~CatalogNext
    BY <2>3, <2>5, CatalogOnlyFrame
  <2>6. QED
    BY <2>2, <2>3, <2>4, <2>5, CatalogCases
<1>3. QED
  BY <1>1, <1>2, TypeCorrect, AllocatorsCorrect, PTL DEF Spec

\* As long as callers' ids stay clear of the allocator's, a registered
\* descriptor never disappears, its generation never regresses, and one
\* generation of it never stands for two contracts.
THEOREM DescriptorsCorrect ==
  ASSUME IdsKeptApart
  PROVE  Spec => DescriptorsAdvance
<1> DEFINE Step ==
      /\ \A k \in CatalogKind \ {"RuntimeId"} : \A d \in DOMAIN catalog[k] :
           /\ catalog'[k][d].generation >= catalog[k][d].generation
           /\ catalog'[k][d].generation = catalog[k][d].generation
              => catalog'[k][d] = catalog[k][d]
      /\ \A s \in DOMAIN services :
           /\ services'[s].generation >= services[s].generation
           /\ services'[s].generation = services[s].generation
              => services'[s] = services[s]
      /\ \A e \in DOMAIN endpoints :
           /\ endpoints'[e].generation >= endpoints[e].generation
           /\ endpoints'[e].generation = endpoints[e].generation
              => endpoints'[e].transport = endpoints[e].transport
      /\ \A c \in DOMAIN capabilities :
           /\ capabilities'[c].generation >= capabilities[c].generation
           /\ capabilities'[c].generation = capabilities[c].generation
              => capabilities'[c].kind = capabilities[c].kind
<1>1. /\ TypeOK /\ TypeOK' /\ AllocatorsSound /\ ClearOf(endpoints, EndpointInputs)
      /\ ClearOf(capabilities, CapabilityInputs) /\ ClearCatalogs /\ [Next]_vars
      => [Step]_vars
  <2> SUFFICES ASSUME TypeOK, TypeOK', AllocatorsSound, ClearOf(endpoints, EndpointInputs),
                      ClearOf(capabilities, CapabilityInputs), ClearCatalogs, Next
               PROVE  Step
    OBVIOUS
  <2>1. KeepsClear(EndpointInputs) /\ KeepsClear(CapabilityInputs) /\ next_id >= 1
    BY DEF IdsKeptApart, AllocatorsSound
  <2>2. ASSUME NEW k \in CatalogKind \ {"RuntimeId"}, NEW d \in DOMAIN catalog[k]
        PROVE  /\ catalog'[k][d].generation >= catalog[k][d].generation
               /\ catalog'[k][d].generation = catalog[k][d].generation
                  => catalog'[k][d] = catalog[k][d]
    <3>1. Advances(catalog[k], catalog'[k])
      <4>1. CASE catalog'[k] = catalog[k]
        BY <4>1 DEF Advances
      <4>2. ASSUME NEW in \in CatalogInputs, NEW v, CatalogTakes(in, v), in.kind = k
            PROVE  Advances(catalog[k], catalog'[k])
        <5> DEFINE id == IF k \in AllocatedKind THEN IdOf(in.id) ELSE in.id
        <5>1. /\ v.generation = in.rec.generation /\ catalog'[k] = Put(catalog[k], id, v)
              /\ in.id \in DOMAIN catalog[k] => in.rec.generation > catalog[k][in.id].generation
              /\ k \in AllocatedKind => TakeId(in.id)
          BY <4>2 DEF CatalogTakes
        <5>2. in.id \in Nat /\ in \in CatalogInputsOf(k) /\ DOMAIN catalog[k] \subseteq Nat
          BY <4>2, InputsAssumption DEF CatalogInputsOf, TypeOK, IsMap
        <5>3. ASSUME k \in AllocatedKind
              PROVE  id \notin DOMAIN catalog[k] \/ (in.id \in DOMAIN catalog[k] /\ id = in.id)
          <6>1. ClearOf(catalog[k], CatalogInputsOf(k)) /\ KeepsClear(CatalogInputsOf(k))
            BY <5>3 DEF ClearCatalogs, IdsKeptApart
          <6>2. QED
            BY <2>1, <5>1, <5>2, <5>3, <6>1, ClearPut
        <5>4. id \notin DOMAIN catalog[k] \/ (in.id \in DOMAIN catalog[k] /\ id = in.id)
          BY <5>3
        <5> HIDE DEF id
        <5>5. QED
          BY <5>1, <5>4, PutAdvances
      <4>3. ASSUME NEW in \in CatalogInputs, NEW v, CatalogTakes(in, v), in.kind # k
            PROVE  catalog'[k] = catalog[k]
        BY <4>3 DEF CatalogTakes
      <4>4. CASE ~CatalogNext
        BY <4>1, <4>4, CatalogOnlyFrame
      <4>5. QED
        BY <4>1, <4>2, <4>3, <4>4, CatalogCases
    <3>2. d \in DOMAIN catalog'[k]
      BY <3>1 DEF Advances
    <3>3. catalog[k][d].generation \in Nat /\ catalog'[k][d].generation \in Nat
      BY <3>2 DEF TypeOK, IsMap, CatalogDescriptor
    <3>4. QED
      BY <3>1, <3>3 DEF Advances
  <2>3. ASSUME NEW s \in DOMAIN services
        PROVE  /\ services'[s].generation >= services[s].generation
               /\ services'[s].generation = services[s].generation => services'[s] = services[s]
    <3>1. ASSUME NEW env \in Envelopes, NEW in \in ServiceInputs, register_service(env, in)
          PROVE  Advances(services, services')
      BY <3>1 DEF register_service, Registrable, Advances, Put
    <3>2. ASSUME UNCHANGED services PROVE Advances(services, services')
      BY <3>2 DEF Advances
    <3>3. Advances(services, services')
      BY <3>1, <3>2, ServiceFrame
    <3>4. services[s].generation \in Nat /\ services'[s].generation \in Nat
      BY <3>3 DEF Advances, TypeOK, IsMap, ServiceDescriptor
    <3>5. QED
      BY <3>3, <3>4 DEF Advances
  <2>4. ASSUME NEW e \in DOMAIN endpoints
        PROVE  /\ endpoints'[e].generation >= endpoints[e].generation
               /\ endpoints'[e].generation = endpoints[e].generation
                  => endpoints'[e].transport = endpoints[e].transport
    <3>1. e \in DOMAIN endpoints'
      BY <2>1, EndpointReplaced, EndpointsKept
    <3>2. endpoints[e].generation \in Nat /\ endpoints'[e].generation \in Nat
      BY <3>1 DEF TypeOK, IsMap, EndpointDescriptor
    <3>3. CASE \E env \in Envelopes, in \in EndpointInputs : register_endpoint(env, in)
      <4>1. endpoints'[e] = endpoints[e] \/ endpoints'[e].generation > endpoints[e].generation
        BY <2>1, <3>3, EndpointReplaced
      <4>2. QED
        BY <3>2, <4>1
    <3>4. CASE ~ \E env \in Envelopes, in \in EndpointInputs : register_endpoint(env, in)
      BY <3>2, <3>4, EndpointsKept DEF EndpointKept
    <3>5. QED
      BY <3>3, <3>4
  <2>5. ASSUME NEW c \in DOMAIN capabilities
        PROVE  /\ capabilities'[c].generation >= capabilities[c].generation
               /\ capabilities'[c].generation = capabilities[c].generation
                  => capabilities'[c].kind = capabilities[c].kind
    <3>1. capabilities[c] \in CapabilityDescriptor /\ DOMAIN capabilities \subseteq Nat
      BY DEF TypeOK, IsMap
    <3>2. ASSUME NEW env \in Envelopes, NEW in \in CapabilityInputs, register_capability(env, in)
          PROVE  Advances(capabilities, capabilities')
      <4>1. /\ TakeId(in.id) /\ capabilities' = Put(capabilities, IdOf(in.id), in.rec)
            /\ in.id \in DOMAIN capabilities => in.rec.generation > capabilities[in.id].generation
        BY <3>2 DEF register_capability, Registrable
      <4>2. \/ IdOf(in.id) \notin DOMAIN capabilities
            \/ in.id \in DOMAIN capabilities /\ IdOf(in.id) = in.id
        BY <2>1, <3>1, <4>1, ClearPut, InputsAssumption
      <4>3. QED
        BY <4>1, <4>2, PutAdvances
    <3>3. CASE Advances(capabilities, capabilities')
      <4>1. capabilities[c].generation \in Nat /\ capabilities'[c].generation \in Nat
        BY <3>1, <3>3 DEF Advances, TypeOK, IsMap, CapabilityDescriptor
      <4>2. QED
        BY <3>3, <4>1 DEF Advances
    <3>4. CASE begin_coordinator_epoch
      <4>1. LET new == RevalidatedCapability(capabilities[c]) IN
            new.generation = capabilities[c].generation /\ new.kind = capabilities[c].kind
        BY <3>1 DEF RevalidatedCapability, CapabilityDescriptor
      <4>2. capabilities[c].generation \in Nat
        BY <3>1 DEF CapabilityDescriptor
      <4>3. QED
        BY <3>4, <4>1, <4>2 DEF begin_coordinator_epoch
    <3>5. CASE UNCHANGED capabilities
      BY <3>3, <3>5 DEF Advances
    <3>6. QED
      BY <3>2, <3>3, <3>4, <3>5, CapabilityFrame
  <2>6. QED
    BY <2>2, <2>3, <2>4, <2>5
<1>2. KeepsClear(EndpointInputs) /\ KeepsClear(CapabilityInputs)
  BY DEF IdsKeptApart
<1>3. QED
  BY <1>1, <1>2, TypeCorrect, AllocatorsCorrect, ClearEndpoints, ClearCapabilities,
     ClearCatalog, PTL DEF Spec, DescriptorsAdvance

-----------------------------------------------------------------------------
(* Tombstones                                                              *)

\* Every tombstone is one that a caller created.
TombstonesGiven == \A t \in DOMAIN tombstones :
                     \E in \in TombstoneInputs : tombstones[t] = in.rec

LEMMA TombstonesCorrect == Spec => []TombstonesGiven
<1>1. Init => TombstonesGiven
  BY EmptyIsMap DEF Init, TombstonesGiven
<1>2. TombstonesGiven /\ [Next]_vars => TombstonesGiven'
  <2> SUFFICES ASSUME TombstonesGiven, [Next]_vars PROVE TombstonesGiven'
    OBVIOUS
  <2>1. CASE UNCHANGED tombstones
    BY <2>1 DEF TombstonesGiven
  <2>2. ASSUME NEW env, NEW in \in TombstoneInputs, create_tombstone(env, in)
        PROVE  TombstonesGiven'
    BY <2>2 DEF create_tombstone, TombstonesGiven, Put
  <2>3. CASE FencingNext
    BY <2>1, <2>2, <2>3 DEF FencingNext, invalidate
  <2>4. QED
    BY <2>1, <2>3, AuthorityRecordsFrame, CatalogFrame, RegistrationFrame, UpdateFrame,
       LeaseFrame DEF Next, CatalogOnly, LeasesOnly, vars
<1>3. QED
  BY <1>1, <1>2, PTL DEF Spec

LEMMA FencedCovered ==
  ASSUME NEW kind, NEW id, NEW gen, Fenced(kind, id, gen), TypeOK, gen \in Nat
  PROVE  covered_by_tombstone(kind, id, gen)
BY DEF Fenced, covered_by_tombstone, TypeOK, IsMap, TombstoneRecord

\* No tombstone stands at an id the allocator hands out.
LEMMA AllocatedNotFenced ==
  ASSUME TypeOK, TombstonesGiven, NEW kind, NEW inputs, TombstonesKeptApart(kind, inputs),
         NEW in \in inputs, in.id = None, TakeId(in.id), NEW gen
  PROVE  ~Fenced(kind, IdOf(in.id), gen)
<1>1. next_id \in Nat /\ MaxId \in Nat /\ next_id <= MaxId /\ IdOf(in.id) = next_id
  BY BoundsAssumption DEF TypeOK, TakeId, IdOf
<1>2. \A t \in DOMAIN tombstones : tombstones[t].target_kind = kind => tombstones[t].target > MaxId
  BY DEF TombstonesGiven, TombstonesKeptApart
<1>3. ASSUME Fenced(kind, next_id, gen) PROVE FALSE
  <2>1. PICK t \in DOMAIN tombstones :
          tombstones[t] \in [target_kind : {kind}, target : {next_id}, generation_floor : Nat]
    BY <1>3 DEF Fenced
  <2>2. tombstones[t].target_kind = kind /\ tombstones[t].target = next_id
    BY <2>1
  <2>3. QED
    BY <1>1, <1>2, <2>2
<1>4. QED
  BY <1>1, <1>3

\* A registration of an instance over a service all of whose instances are
\* historical installs a generation that no tombstone of the service covers.
LEMMA RegisterOverFenced ==
  ASSUME TypeOK, NEW insts, IsMap(insts, Nat, ServiceInstance),
         DOMAIN insts = DOMAIN instances,
         \A i \in DOMAIN insts : /\ insts[i].service_id = instances[i].service_id
                                 /\ insts[i] = instances[i] \/ insts[i].lifecycle = "SUPERSEDED",
         NEW in, in.id \in Nat, NEW inst \in ServiceInstance, RegisterOver(insts, in, inst),
         NEW i \in DOMAIN instances' \ DOMAIN instances,
         \A j \in DOMAIN instances :
           instances[j].service_id = instances'[i].service_id => instances[j].lifecycle \in Historical
  PROVE  ~Fenced("ServiceId", instances'[i].service_id, instances'[i].instance_generation)
<1>1. ASSUME NEW is, DOMAIN is = DOMAIN instances, NEW id, Install(is, id, inst)
      PROVE  /\ instances'[i].service_id = inst.service_id
             /\ instances'[i].instance_generation = inst.instance_generation
  <2>1. \/ instances' = is
        \/ instances' = Put(is, id, reclassify_lifecycle(inst, endpoints'))
    BY <1>1 DEF Install
  <2>2. instances'[i] = reclassify_lifecycle(inst, endpoints')
    BY <1>1, <2>1 DEF Put
  <2>3. QED
    BY <2>2, ReclassifyLinks
<1>2. ~Refuse(insts)
  BY DEF Refuse
<1>3. ASSUME NEW current \in Newest(insts, inst.service_id),
             Install([insts EXCEPT ![current].lifecycle = "SUPERSEDED"], IdOf(in.id), inst)
      PROVE  FALSE
  <2> DEFINE is == [insts EXCEPT ![current].lifecycle = "SUPERSEDED"]
  <2>1. DOMAIN is = DOMAIN instances /\ Install(is, IdOf(in.id), inst)
    BY <1>3
  <2> HIDE DEF is
  <2>2. instances'[i].service_id = inst.service_id
    BY <1>1, <2>1
  <2>3. /\ current \in DOMAIN instances /\ insts[current].service_id = inst.service_id
        /\ insts[current].lifecycle \notin Historical
    BY DEF Newest
  <2>4. instances[current].lifecycle \in Historical
    BY <2>2, <2>3
  <2>5. QED
    BY <2>3, <2>4 DEF Historical
<1>4. /\ ~covered_by_tombstone("ServiceId", inst.service_id, inst.instance_generation)
      /\ Install(insts, IdOf(in.id), inst)
  BY <1>2, <1>3 DEF RegisterOver
<1>5. inst.instance_generation \in Nat
  BY DEF ServiceInstance
<1>6. QED
  BY <1>1, <1>4, <1>5, FencedCovered

\* As long as tombstones of endpoints and runtime instances name ids that are
\* not the allocator's, a tombstone keeps every covered generation out of an
\* unregistered identity and of a service without a current instance.
THEOREM TombstonesKeepOut ==
  ASSUME TombstonesKeptApart("EndpointId", EndpointInputs),
         TombstonesKeptApart("RuntimeInstanceId", CatalogInputsOf("RuntimeInstanceId"))
  PROVE  Spec => TombstoneKeepsOut
<1> DEFINE Step ==
      /\ \A s \in DOMAIN services' \ DOMAIN services :
           ~Fenced("ServiceId", s, services'[s].generation)
      /\ \A e \in DOMAIN endpoints' \ DOMAIN endpoints :
           ~Fenced("EndpointId", e, endpoints'[e].generation)
      /\ \A r \in DOMAIN catalog'["RuntimeInstanceId"] \ DOMAIN catalog["RuntimeInstanceId"] :
           ~Fenced("RuntimeInstanceId", r, catalog'["RuntimeInstanceId"][r].generation)
      /\ \A i \in DOMAIN instances' \ DOMAIN instances :
           LET s == instances'[i].service_id
           IN  (\A j \in DOMAIN instances :
                  instances[j].service_id = s => instances[j].lifecycle \in Historical)
               => ~Fenced("ServiceId", s, instances'[i].instance_generation)
<1>1. TypeOK /\ TypeOK' /\ AllocatorsSound /\ TombstonesGiven /\ [Next]_vars => [Step]_vars
  <2> SUFFICES ASSUME TypeOK, TypeOK', AllocatorsSound, TombstonesGiven, Next PROVE Step
    OBVIOUS
  <2>1. ASSUME NEW s \in DOMAIN services' \ DOMAIN services
        PROVE  ~Fenced("ServiceId", s, services'[s].generation)
    <3>1. PICK env \in Envelopes, in \in ServiceInputs : register_service(env, in)
      BY <2>1, ServiceFrame
    <3>2. /\ s = in.id /\ services'[s] = in.rec
          /\ ~covered_by_tombstone("ServiceId", s, in.rec.generation)
      BY <2>1, <3>1 DEF register_service, Registrable, Put
    <3>3. in.rec.generation \in Nat
      BY InputsAssumption DEF ServiceDescriptor
    <3>4. QED
      BY <3>2, <3>3, FencedCovered
  <2>2. ASSUME NEW e \in DOMAIN endpoints' \ DOMAIN endpoints
        PROVE  ~Fenced("EndpointId", e, endpoints'[e].generation)
    <3>1. PICK env \in Envelopes, in \in EndpointInputs : register_endpoint(env, in)
      BY <2>2, EndpointsKept
    <3>2. /\ e = IdOf(in.id) /\ endpoints'[e] = in.rec /\ TakeId(in.id)
          /\ in.id \notin DOMAIN endpoints =>
               ~covered_by_tombstone("EndpointId", in.id, in.rec.generation)
      BY <2>2, <3>1 DEF register_endpoint, Registrable, Put
    <3>3. in.rec.generation \in Nat
      BY InputsAssumption DEF EndpointDescriptor
    <3>4. CASE in.id = None
      BY <3>2, <3>4, AllocatedNotFenced
    <3>5. CASE in.id # None
      BY <2>2, <3>2, <3>3, <3>5, FencedCovered DEF IdOf
    <3>6. QED
      BY <3>4, <3>5
  <2>3. ASSUME NEW r \in DOMAIN catalog'["RuntimeInstanceId"] \ DOMAIN catalog["RuntimeInstanceId"]
        PROVE  ~Fenced("RuntimeInstanceId", r, catalog'["RuntimeInstanceId"][r].generation)
    <3>1. CatalogNext
      BY <2>3, CatalogOnlyFrame
    <3>2. PICK in \in CatalogInputs, v \in CatalogDescriptor : CatalogTakes(in, v)
      BY <3>1, CatalogCases
    <3>3. in.kind = "RuntimeInstanceId"
      BY <2>3, <3>2 DEF CatalogTakes, CatalogKind
    <3>4. /\ r = IdOf(in.id) /\ TakeId(in.id)
          /\ catalog'["RuntimeInstanceId"][r].generation = in.rec.generation
          /\ in.id \notin DOMAIN catalog["RuntimeInstanceId"] =>
               ~covered_by_tombstone("RuntimeInstanceId", in.id, in.rec.generation)
      BY <2>3, <3>2, <3>3 DEF CatalogTakes, AllocatedKind, Put
    <3>5. in.rec.generation \in Nat /\ in \in CatalogInputsOf("RuntimeInstanceId")
      BY <3>3, InputsAssumption DEF CatalogDescriptor, CatalogInputsOf
    <3>6. CASE in.id = None
      BY <3>4, <3>5, <3>6, AllocatedNotFenced
    <3>7. CASE in.id # None
      BY <2>3, <3>4, <3>5, <3>7, FencedCovered DEF IdOf
    <3>8. QED
      BY <3>6, <3>7
  <2>4. ASSUME NEW i \in DOMAIN instances' \ DOMAIN instances,
               \A j \in DOMAIN instances :
                 instances[j].service_id = instances'[i].service_id
                   => instances[j].lifecycle \in Historical
        PROVE  ~Fenced("ServiceId", instances'[i].service_id, instances'[i].instance_generation)
    <3>1. IsMap(instances, Nat, ServiceInstance)
      BY DEF TypeOK
    <3>2. RegistrationNext
      <4>1. ~UNCHANGED instances
        BY <2>4
      <4>2. ~(AuthorityNext \/ UpdateNext)
        BY <2>4, AuthorityLinks, UpdateStep DEF SameLinks
      <4>3. QED
        BY <4>1, <4>2, CatalogFrame, LeaseFrame, FencingFrame DEF Next, CatalogOnly, LeasesOnly
    <3>3. ASSUME NEW env \in Envelopes, NEW in \in InstanceInputs, NEW b \in OwnerBoots(env),
                 register_instance(env, in, b)
          PROVE  ~Fenced("ServiceId", instances'[i].service_id, instances'[i].instance_generation)
      <4>1. RegisterOver(instances, in, [in.rec EXCEPT !.boot = b])
        BY <3>3 DEF register_instance
      <4>2. QED
        BY <2>4, <3>1, <4>1, OwnedType, RegisterOverFenced
    <3>4. ASSUME NEW env \in Envelopes, NEW old \in DOMAIN instances, NEW in \in InstanceInputs,
                 NEW b \in OwnerBoots(env), supersede(env, old, in, b)
          PROVE  ~Fenced("ServiceId", instances'[i].service_id, instances'[i].instance_generation)
      <4> DEFINE marked == [instances EXCEPT ![old].lifecycle = "SUPERSEDED"]
      <4>1. RegisterOver(marked, in, [in.rec EXCEPT !.boot = b])
        BY <3>4 DEF supersede
      <4>2. /\ IsMap(marked, Nat, ServiceInstance) /\ SameLinks(instances, marked)
        BY <3>1, MarkType, MarkLinks DEF Lifecycle
      <4>3. [instances[old] EXCEPT !.lifecycle = "SUPERSEDED"].lifecycle = "SUPERSEDED"
        BY <3>1 DEF IsMap, ServiceInstance
      <4>4. \A j \in DOMAIN marked :
              marked[j] = instances[j] \/ marked[j].lifecycle = "SUPERSEDED"
        BY <4>3
      <4> HIDE DEF marked
      <4>5. /\ DOMAIN marked = DOMAIN instances
            /\ \A j \in DOMAIN marked : marked[j].service_id = instances[j].service_id
        BY <4>2 DEF SameLinks
      <4>6. QED
        BY <2>4, <4>1, <4>2, <4>4, <4>5, OwnedType, RegisterOverFenced
    <3>5. QED
      BY <2>4, <3>2, <3>3, <3>4
         DEF RegistrationNext, register_service, register_endpoint, register_capability
  <2>5. QED
    BY <2>1, <2>2, <2>3, <2>4
<1>2. QED
  BY <1>1, TypeCorrect, AllocatorsCorrect, TombstonesCorrect, PTL DEF Spec, TombstoneKeepsOut

-----------------------------------------------------------------------------
(* Keys                                                                    *)

\* n has the keys of m, or one more: the id that some input took.
Adds(m, n, inputs) ==
  \/ DOMAIN n = DOMAIN m
  \/ \E in \in inputs : TakeId(in.id) /\ DOMAIN n = DOMAIN m \cup {IdOf(in.id)}

\* A registration of an instance changes the keys of no endpoint.
LEMMA RegisterOverKeys ==
  ASSUME NEW insts, IsMap(insts, Nat, ServiceInstance), DOMAIN insts = DOMAIN instances,
         NEW in \in InstanceInputs, NEW inst \in ServiceInstance, RegisterOver(insts, in, inst)
  PROVE  DOMAIN endpoints' = DOMAIN endpoints /\ Adds(instances, instances', InstanceInputs)
<1>1. CASE instances' = insts /\ UNCHANGED endpoints
  BY <1>1 DEF Adds
<1>2. ASSUME NEW is, SameLinks(insts, is), Install(is, IdOf(in.id), inst),
             inst.service_id \in DOMAIN services
      PROVE  DOMAIN endpoints' = DOMAIN endpoints /\ Adds(instances, instances', InstanceInputs)
  <2>1. /\ DOMAIN endpoints' = DOMAIN endpoints /\ DOMAIN is = DOMAIN instances
        /\ \/ instances' = is
           \/ instances' = Put(is, IdOf(in.id), reclassify_lifecycle(inst, endpoints'))
    BY <1>2 DEF Install, SameLinks
  <2>2. TakeId(in.id)
    BY <1>2 DEF RegisterOver
  <2>3. QED
    BY <2>1, <2>2 DEF Adds, Put
<1>3. QED
  BY <1>1, <1>2, RegisterOverCases

\* No operation removes a record, and each adds at most the one it was given.
LEMMA KeysAdded ==
  ASSUME TypeOK, [Next]_vars
  PROVE  /\ Adds(endpoints, endpoints', EndpointInputs)
         /\ Adds(capabilities, capabilities', CapabilityInputs)
         /\ Adds(instances, instances', InstanceInputs)
         /\ Adds(leases, leases', LeaseInputs)
         /\ Adds(tombstones, tombstones', TombstoneInputs)
<1>1. ASSUME NEW m, NEW n, DOMAIN n = DOMAIN m, NEW inputs PROVE Adds(m, n, inputs)
  BY <1>1 DEF Adds
<1>2. ASSUME NEW m, NEW inputs, NEW in \in inputs, TakeId(in.id), NEW v
      PROVE  Adds(m, Put(m, IdOf(in.id), v), inputs)
  BY <1>2 DEF Adds, Put
<1>3. CASE AuthorityNext
  <2>1. DOMAIN endpoints' = DOMAIN endpoints /\ DOMAIN instances' = DOMAIN instances
    BY <1>3, AuthorityLinks DEF SameLinks
  <2>2. DOMAIN capabilities' = DOMAIN capabilities /\ DOMAIN leases' = DOMAIN leases
    BY <1>3 DEF AuthorityNext, begin_coordinator_epoch, adopt_worker, mark_worker_died,
                RevokeRecords, RevokedLeases
  <2>3. QED
    BY <1>1, <1>3, <2>1, <2>2, AuthorityRecordsFrame
<1>4. CASE UpdateNext
  <2>1. DOMAIN endpoints' = DOMAIN endpoints /\ DOMAIN instances' = DOMAIN instances
    BY <1>4, UpdateStep DEF SameLinks
  <2>2. QED
    BY <1>1, <1>4, <2>1, UpdateFrame
<1>5. CASE CatalogNext \/ UNCHANGED vars
  BY <1>1, <1>5, CatalogFrame DEF CatalogOnly, vars
<1>6. CASE LeaseNext
  <2>1. Adds(leases, leases', LeaseInputs)
    BY <1>1, <1>2, <1>6 DEF LeaseNext, acquire_lease, renew_lease, EndLease, expire_lease,
       revoke_lease, mark_lease_revalidation_required
  <2>2. QED
    BY <1>1, <1>6, <2>1, LeaseFrame DEF LeasesOnly
<1>7. CASE FencingNext
  <2>1. Adds(tombstones, tombstones', TombstoneInputs)
    BY <1>1, <1>2, <1>7 DEF FencingNext, create_tombstone, invalidate
  <2>2. QED
    BY <1>1, <1>7, <2>1, FencingFrame
<1>8. CASE RegistrationNext
  <2>1. IsMap(instances, Nat, ServiceInstance)
    BY DEF TypeOK
  <2>2. ASSUME NEW env \in Envelopes, NEW in \in InstanceInputs, NEW b \in OwnerBoots(env),
               register_instance(env, in, b)
        PROVE  /\ DOMAIN endpoints' = DOMAIN endpoints /\ UNCHANGED capabilities
               /\ Adds(instances, instances', InstanceInputs)
    <3>1. /\ RegisterOver(instances, in, [in.rec EXCEPT !.boot = b])
          /\ UNCHANGED capabilities
      BY <2>2 DEF register_instance
    <3>2. QED
      BY <2>1, <3>1, OwnedType, RegisterOverKeys
  <2>3. ASSUME NEW env \in Envelopes, NEW old \in DOMAIN instances, NEW in \in InstanceInputs,
               NEW b \in OwnerBoots(env), supersede(env, old, in, b)
        PROVE  /\ DOMAIN endpoints' = DOMAIN endpoints /\ UNCHANGED capabilities
               /\ Adds(instances, instances', InstanceInputs)
    <3> DEFINE marked == [instances EXCEPT ![old].lifecycle = "SUPERSEDED"]
    <3>1. /\ RegisterOver(marked, in, [in.rec EXCEPT !.boot = b])
          /\ UNCHANGED capabilities
      BY <2>3 DEF supersede
    <3>2. IsMap(marked, Nat, ServiceInstance) /\ DOMAIN marked = DOMAIN instances
      BY <2>1, MarkType DEF Lifecycle
    <3> HIDE DEF marked
    <3>3. QED
      BY <3>1, <3>2, OwnedType, RegisterOverKeys
  <2>4. ASSUME NEW env, NEW in \in ServiceInputs, register_service(env, in)
        PROVE  UNCHANGED <<endpoints, capabilities, instances>>
    BY <2>4 DEF register_service
  <2>5. ASSUME NEW env, NEW in \in EndpointInputs, register_endpoint(env, in)
        PROVE  Adds(endpoints, endpoints', EndpointInputs) /\ UNCHANGED <<capabilities, instances>>
    BY <1>2, <2>5 DEF register_endpoint
  <2>6. ASSUME NEW env, NEW in \in CapabilityInputs, register_capability(env, in)
        PROVE  /\ Adds(capabilities, capabilities', CapabilityInputs)
               /\ UNCHANGED <<endpoints, instances>>
    BY <1>2, <2>6 DEF register_capability
  <2>7. /\ Adds(endpoints, endpoints', EndpointInputs)
        /\ Adds(capabilities, capabilities', CapabilityInputs)
        /\ Adds(instances, instances', InstanceInputs)
    BY <1>1, <1>8, <2>2, <2>3, <2>4, <2>5, <2>6 DEF RegistrationNext
  <2>8. QED
    BY <1>1, <1>8, <2>7, RegistrationFrame
<1>9. QED
  BY <1>3, <1>4, <1>5, <1>6, <1>7, <1>8 DEF Next

-----------------------------------------------------------------------------
(* Stored lifecycles                                                       *)

\* The lifecycles an operation stores, and the maps that hold no other.
StoredLifecycle == Lifecycle \ {"TOMBSTONED", "INVALIDATED", "REGISTERING"}
AllStored(insts) == \A i \in DOMAIN insts : insts[i].lifecycle \in StoredLifecycle

\* A caller names any lifecycle it likes; what is stored is the verdict.
LEMMA ReclassifyStores ==
  ASSUME NEW inst \in ServiceInstance, NEW eps
  PROVE  reclassify_lifecycle(inst, eps).lifecycle \in StoredLifecycle
<1>1. ASSUME NEW h, NEW r PROVE classify(inst, h, r) \in StoredLifecycle
  BY DEF classify, StoredLifecycle, Lifecycle
<1>2. QED
  BY <1>1 DEF reclassify_lifecycle, ServiceInstance

LEMMA MarkStores ==
  ASSUME NEW insts, IsMap(insts, Nat, ServiceInstance), AllStored(insts),
         NEW i \in DOMAIN insts, NEW l \in StoredLifecycle
  PROVE  AllStored([insts EXCEPT ![i].lifecycle = l])
<1>1. [insts[i] EXCEPT !.lifecycle = l].lifecycle = l
  BY DEF IsMap, ServiceInstance
<1>2. QED
  BY <1>1 DEF AllStored

LEMMA RegisterOverStores ==
  ASSUME NEW insts, IsMap(insts, Nat, ServiceInstance), AllStored(insts),
         NEW in, NEW inst \in ServiceInstance, RegisterOver(insts, in, inst)
  PROVE  AllStored(instances')
<1>1. ASSUME NEW is, AllStored(is), NEW id, Install(is, id, inst) PROVE AllStored(instances')
  <2>1. \/ instances' = Put(is, id, reclassify_lifecycle(inst, endpoints'))
        \/ instances' = is
    BY <1>1 DEF Install
  <2>2. QED
    BY <1>1, <2>1, ReclassifyStores DEF AllStored, Put
<1>2. ASSUME NEW current \in Newest(insts, inst.service_id)
      PROVE  AllStored([insts EXCEPT ![current].lifecycle = "SUPERSEDED"])
  BY <1>2, MarkStores DEF Newest, StoredLifecycle, Lifecycle
<1>3. QED
  BY <1>1, <1>2 DEF RegisterOver, Refuse

LEMMA RevokedStores ==
  ASSUME TypeOK, AllStored(instances), NEW b, instances' = RevokedInstances(b)
  PROVE  AllStored(instances')
<1> SUFFICES ASSUME NEW i \in DOMAIN instances
             PROVE  instances'[i].lifecycle \in StoredLifecycle
  BY DEF RevokedInstances, AllStored
<1>1. instances[i] \in ServiceInstance /\ instances[i].lifecycle \in StoredLifecycle
  BY DEF TypeOK, IsMap, AllStored
<1>2. CASE i \in Orphans(b)
  BY <1>1, <1>2 DEF RevokedInstances, ServiceInstance, StoredLifecycle, Lifecycle
<1>3. CASE i \notin Orphans(b)
  BY <1>1, <1>3 DEF RevokedInstances
<1>4. QED
  BY <1>2, <1>3

LEMMA StoredStep == TypeOK /\ AllStored(instances) /\ [Next]_vars => AllStored(instances)'
<1> SUFFICES ASSUME TypeOK, AllStored(instances), [Next]_vars PROVE AllStored(instances')
  BY DEF AllStored
<1>1. IsMap(instances, Nat, ServiceInstance)
  BY DEF TypeOK
<1>2. "SUPERSEDED" \in StoredLifecycle /\ "RETIRED" \in StoredLifecycle
  BY DEF StoredLifecycle, Lifecycle
<1>3. CASE AuthorityNext
  <2>1. CASE begin_coordinator_epoch
    <3>1. ASSUME NEW inst \in ServiceInstance, inst.lifecycle \in StoredLifecycle
          PROVE  RevalidatedInstance(inst).lifecycle \in StoredLifecycle
      BY <3>1 DEF RevalidatedInstance, ServiceInstance, StoredLifecycle, Lifecycle
    <3>2. QED
      BY <1>1, <2>1, <3>1 DEF begin_coordinator_epoch, AllStored, IsMap
  <2>2. ASSUME NEW w \in Workers, adopt_worker(w) PROVE AllStored(instances')
    BY <2>2, RevokedStores DEF adopt_worker, RevokeRecords
  <2>3. ASSUME NEW b \in Boots, mark_worker_died(b) PROVE AllStored(instances')
    BY <2>3, RevokedStores DEF mark_worker_died, RevokeRecords
  <2>4. QED
    BY <1>3, <2>1, <2>2, <2>3 DEF AuthorityNext
<1>4. CASE RegistrationNext
  <2>1. ASSUME NEW env \in Envelopes, NEW in \in InstanceInputs, NEW b \in OwnerBoots(env)
        PROVE  [in.rec EXCEPT !.boot = b] \in ServiceInstance
    <3>1. b \in Nat
      BY BoundsAssumption DEF OwnerBoots, Envelopes, Boots
    <3>2. in.rec \in ServiceInstance
      BY InputsAssumption
    <3>3. QED
      BY <3>1, <3>2 DEF ServiceInstance
  <2>2. ASSUME NEW env \in Envelopes, NEW in \in InstanceInputs, NEW b \in OwnerBoots(env),
               register_instance(env, in, b)
        PROVE  AllStored(instances')
    BY <1>1, <2>1, <2>2, RegisterOverStores DEF register_instance
  <2>3. ASSUME NEW env \in Envelopes, NEW old \in DOMAIN instances, NEW in \in InstanceInputs,
               NEW b \in OwnerBoots(env), supersede(env, old, in, b)
        PROVE  AllStored(instances')
    <3>1. LET marked == [instances EXCEPT ![old].lifecycle = "SUPERSEDED"]
          IN  IsMap(marked, Nat, ServiceInstance) /\ AllStored(marked)
      BY <1>1, <1>2, MarkStores, MarkType DEF Lifecycle
    <3>2. QED
      BY <2>1, <2>3, <3>1, RegisterOverStores DEF supersede
  <2>4. QED
    BY <1>4, <2>2, <2>3 DEF RegistrationNext, register_service, register_endpoint,
                            register_capability
<1>5. CASE UpdateNext
  <2>1. ASSUME NEW i, NEW inst \in ServiceInstance, NEW eps,
               instances' = [instances EXCEPT ![i] = reclassify_lifecycle(inst, eps)]
        PROVE  AllStored(instances')
    BY <2>1, ReclassifyStores DEF AllStored
  <2>2. ASSUME NEW id \in DOMAIN instances
        PROVE  /\ instances[id] \in ServiceInstance
               /\ \A h \in HealthInputs : [instances[id] EXCEPT !.health = h] \in ServiceInstance
               /\ \A r \in ReadinessInputs : [instances[id] EXCEPT !.readiness = r] \in ServiceInstance
               /\ \A f \in FreshnessInputs : [instances[id] EXCEPT !.freshness = f] \in ServiceInstance
               /\ \A r \in ReachabilityInputs :
                    [instances[id] EXCEPT !.reachability = r] \in ServiceInstance
    BY <1>1, ReportedType, InputsAssumption DEF IsMap
  <2>3. ASSUME NEW env, NEW e \in DOMAIN endpoints, NEW g, NEW r \in ReachabilityInputs,
               update_reachability(env, e, g, r)
        PROVE  AllStored(instances')
    BY <2>1, <2>2, <2>3 DEF update_reachability
  <2>4. ASSUME NEW env, NEW id \in DOMAIN instances, NEW g, deregister(env, id, g)
        PROVE  AllStored(instances')
    BY <1>1, <1>2, <2>4, MarkStores DEF deregister
  <2>5. ASSUME NEW env, NEW id, NEW g, NEW updated \in ServiceInstance,
               UpdateInstance(env, id, g, updated)
        PROVE  AllStored(instances')
    BY <2>1, <2>5 DEF UpdateInstance
  <2>6. QED
    BY <1>5, <2>2, <2>3, <2>4, <2>5 DEF UpdateNext, update_health,
       update_readiness, update_freshness, update_instance_reachability
<1>6. CASE CatalogNext \/ LeaseNext \/ FencingNext \/ UNCHANGED vars
  BY <1>6, CatalogFrame, LeaseFrame, FencingFrame DEF CatalogOnly, LeasesOnly, vars
<1>7. QED
  BY <1>3, <1>4, <1>5, <1>6 DEF Next

\* No operation stores an instance as TOMBSTONED or INVALIDATED, whatever the
\* caller wrote into its record and although the code tests for both: every
\* registration and report goes through reclassify_lifecycle.  Module Selection
\* takes this for granted of the registries it queries.
THEOREM LifecyclesStored == Spec => []AllStored(instances)
<1>1. Init => TypeOK /\ AllStored(instances)
  BY TypeInit, EmptyIsMap DEF Init, AllStored
<1>2. TypeOK /\ AllStored(instances) /\ [Next]_vars => (TypeOK /\ AllStored(instances))'
  BY TypeNext, StoredStep
<1>3. QED
  BY <1>1, <1>2, PTL DEF Spec
=============================================================================
