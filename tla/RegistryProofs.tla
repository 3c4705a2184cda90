--------------------------- MODULE RegistryProofs ---------------------------
(***************************************************************************)
(* Proofs about Registry, for every number of workers, boots and epochs    *)
(* and for every set of inputs the two assumptions of Registry allow:      *)
(* first its types, then incarnation safety (the authority maps agree,     *)
(* only live incarnations serve, a dead boot stays dead, and the registry  *)
(* implements Incarnations).                                               *)
(*                                                                         *)
(* TypeOK /\ AuthorityConsistent and TypeOK /\ ServingIsLive are inductive; *)
(* neither is without the types, because reclassification is sound only    *)
(* for values of the enumerations.  The refinement needs all three: that a *)
(* lost boot withdraws exactly what one worker served rests on the maps    *)
(* naming its one owner.                                                   *)
(***************************************************************************)
EXTENDS Registry, TLAPS

-----------------------------------------------------------------------------
(* Maps                                                                    *)

\* m[k] = v keeps a map's type.
LEMMA PutMap ==
  ASSUME NEW K, NEW V, NEW m, IsMap(m, K, V), NEW k \in K, NEW v \in V
  PROVE  IsMap(Put(m, k, v), K, V)
BY DEF IsMap, Put

\* A map rebuilt entry by entry keeps its type.
LEMMA ExceptMap ==
  ASSUME NEW K, NEW V, NEW m, IsMap(m, K, V), NEW k \in DOMAIN m, NEW v \in V
  PROVE  IsMap([m EXCEPT ![k] = v], K, V)
BY DEF IsMap

LEMMA EmptyIsMap ==
  ASSUME NEW K, NEW V
  PROVE  IsMap(EmptyMap, K, V) /\ DOMAIN EmptyMap = {}
BY DEF IsMap, EmptyMap

-----------------------------------------------------------------------------
(* Classification                                                          *)

\* The aggregates are values of their enumerations (aggregate_health,
\* aggregate_reachability).
LEMMA AggregateType ==
  ASSUME NEW inst \in ServiceInstance, NEW eps, IsMap(eps, Nat, EndpointDescriptor)
  PROVE  /\ aggregate_health(inst, eps) \in Health
         /\ aggregate_reachability(inst, eps) \in Reachability
<1>1. aggregate_health(inst, eps) \in Health
  BY DEF aggregate_health, Health, ServiceInstance
<1>2. aggregate_reachability(inst, eps) \in Reachability
  <2>1. inst.reachability \in Reachability
    BY DEF ServiceInstance
  <2>2. QED
    BY <2>1 DEF aggregate_reachability, Reachability
<1>3. QED
  BY <1>1, <1>2

\* A classification is a lifecycle, and AVAILABLE or DEGRADED only for a live
\* boot, current freshness and acceptable readiness, health and reachability.
LEMMA ClassifyType ==
  ASSUME NEW inst, NEW h \in Health, NEW r \in Reachability,
         inst.readiness \in Readiness
  PROVE  /\ classify(inst, h, r) \in Lifecycle
         /\ classify(inst, h, r) \in {"AVAILABLE", "DEGRADED"} =>
              /\ is_boot_live(inst.boot) /\ inst.freshness = "CURRENT"
              /\ r \in {"REACHABLE", "DEGRADED"}
              /\ inst.readiness \in {"READY", "PARTIALLY_READY"}
              /\ h \notin {"UNHEALTHY", "UNAVAILABLE"}
BY DEF classify, Lifecycle, Health, Reachability, Readiness

\* reclassify_lifecycle returns an instance that differs from its argument in
\* health, reachability and lifecycle only, and serves only when it may.
LEMMA ReclassifyType ==
  ASSUME NEW inst \in ServiceInstance, NEW eps, IsMap(eps, Nat, EndpointDescriptor)
  PROVE  LET new == reclassify_lifecycle(inst, eps) IN
         /\ new \in ServiceInstance
         /\ new.service_id = inst.service_id /\ new.boot = inst.boot
         /\ new.endpoints = inst.endpoints
         /\ new.lifecycle \in {"AVAILABLE", "DEGRADED"} =>
              /\ is_boot_live(new.boot) /\ new.freshness = "CURRENT"
              /\ new.reachability \in {"REACHABLE", "DEGRADED"}
              /\ new.readiness \in {"READY", "PARTIALLY_READY"}
              /\ new.health \notin {"UNHEALTHY", "UNAVAILABLE"}
<1> DEFINE h == aggregate_health(inst, eps)
           r == aggregate_reachability(inst, eps)
           c == classify(inst, h, r)
<1>1. h \in Health /\ r \in Reachability
  BY AggregateType
<1>2. inst.readiness \in Readiness
  BY DEF ServiceInstance
<1>3. /\ c \in Lifecycle
      /\ c \in {"AVAILABLE", "DEGRADED"} =>
           /\ is_boot_live(inst.boot) /\ inst.freshness = "CURRENT"
           /\ r \in {"REACHABLE", "DEGRADED"}
           /\ inst.readiness \in {"READY", "PARTIALLY_READY"}
           /\ h \notin {"UNHEALTHY", "UNAVAILABLE"}
  BY <1>1, <1>2, ClassifyType
<1>4. reclassify_lifecycle(inst, eps)
        = [inst EXCEPT !.health = h, !.reachability = r, !.lifecycle = c]
  BY DEF reclassify_lifecycle
<1> HIDE DEF h, r, c
<1>5. QED
  BY <1>1, <1>3, <1>4 DEF ServiceInstance

-----------------------------------------------------------------------------
(* Type correctness                                                        *)

\* The records that a lost boot leaves behind are of their types.
LEMMA RevokeType ==
  ASSUME TypeOK, NEW b
  PROVE  /\ IsMap(RevokedBoots(b), Workers, Nat)
         /\ IsMap(RevokedOwners(b), Nat, Workers)
         /\ IsMap(RevokedInstances(b), Nat, ServiceInstance)
         /\ IsMap(RevokedLeases(b), Nat, LeaseDescriptor)
         /\ IsMap(ReleasedEndpoints(b), Nat, EndpointDescriptor)
<1>1. IsMap(RevokedBoots(b), Workers, Nat)
  BY DEF TypeOK, RevokedBoots, IsMap, Lookup, None
<1>2. IsMap(RevokedOwners(b), Nat, Workers)
  BY DEF TypeOK, RevokedOwners, IsMap
<1>3. IsMap(RevokedInstances(b), Nat, ServiceInstance)
  <2>1. ASSUME NEW i \in DOMAIN instances
        PROVE  [instances[i] EXCEPT !.lifecycle = "STALE", !.freshness = "STALE",
                  !.reachability = "UNREACHABLE", !.readiness = "NOT_READY"]
                 \in ServiceInstance
    BY <2>1 DEF TypeOK, IsMap, ServiceInstance, Lifecycle, Freshness,
                Reachability, Readiness
  <2>2. QED
    BY <2>1 DEF TypeOK, IsMap, RevokedInstances
<1>4. IsMap(RevokedLeases(b), Nat, LeaseDescriptor)
  <2>1. ASSUME NEW l \in DOMAIN leases
        PROVE  [leases[l] EXCEPT !.state = "EXPIRED"] \in LeaseDescriptor
    BY <2>1 DEF TypeOK, IsMap, LeaseDescriptor, LeaseState
  <2>2. QED
    BY <2>1 DEF TypeOK, IsMap, RevokedLeases
<1>5. IsMap(ReleasedEndpoints(b), Nat, EndpointDescriptor)
  <2>1. ASSUME NEW e \in DOMAIN endpoints
        PROVE  [endpoints[e] EXCEPT !.service_instance = None,
                  !.reachability = "UNREACHABLE"] \in EndpointDescriptor
    BY <2>1 DEF TypeOK, IsMap, EndpointDescriptor, Reachability, None
  <2>2. QED
    BY <2>1 DEF TypeOK, IsMap, ReleasedEndpoints
<1>6. QED
  BY <1>1, <1>2, <1>3, <1>4, <1>5

\* So are the records a new epoch asks to revalidate.
LEMMA RevalidatedType ==
  /\ \A inst \in ServiceInstance : RevalidatedInstance(inst) \in ServiceInstance
  /\ \A ep \in EndpointDescriptor : RevalidatedEndpoint(ep) \in EndpointDescriptor
  /\ \A cap \in CapabilityDescriptor : RevalidatedCapability(cap) \in CapabilityDescriptor
  /\ \A lease \in LeaseDescriptor : RevalidatedLease(lease) \in LeaseDescriptor
<1>1. ASSUME NEW inst \in ServiceInstance
      PROVE  RevalidatedInstance(inst) \in ServiceInstance
  BY DEF RevalidatedInstance, ServiceInstance, Lifecycle, Freshness, Reachability
<1>2. ASSUME NEW ep \in EndpointDescriptor
      PROVE  RevalidatedEndpoint(ep) \in EndpointDescriptor
  BY DEF RevalidatedEndpoint, EndpointDescriptor, Freshness, Reachability
<1>3. ASSUME NEW cap \in CapabilityDescriptor
      PROVE  RevalidatedCapability(cap) \in CapabilityDescriptor
  BY DEF RevalidatedCapability, CapabilityDescriptor, Freshness
<1>4. ASSUME NEW lease \in LeaseDescriptor
      PROVE  RevalidatedLease(lease) \in LeaseDescriptor
  BY DEF RevalidatedLease, LeaseDescriptor, LeaseState
<1>5. QED
  BY <1>1, <1>2, <1>3, <1>4

\* Writing a lifecycle into one instance keeps the map's type.
LEMMA MarkType ==
  ASSUME NEW insts, IsMap(insts, Nat, ServiceInstance), NEW i \in DOMAIN insts,
         NEW l \in Lifecycle
  PROVE  IsMap([insts EXCEPT ![i].lifecycle = l], Nat, ServiceInstance)
<1>1. [insts[i] EXCEPT !.lifecycle = l] \in ServiceInstance
  BY DEF IsMap, ServiceInstance
<1>2. QED
  BY <1>1, ExceptMap

\* A reported value keeps the instance's type (the update_* handlers).
LEMMA ReportedType ==
  ASSUME NEW inst \in ServiceInstance
  PROVE  /\ \A h \in Health : [inst EXCEPT !.health = h] \in ServiceInstance
         /\ \A r \in Readiness : [inst EXCEPT !.readiness = r] \in ServiceInstance
         /\ \A f \in Freshness : [inst EXCEPT !.freshness = f] \in ServiceInstance
         /\ \A r \in Reachability : [inst EXCEPT !.reachability = r] \in ServiceInstance
<1>1. ASSUME NEW h \in Health PROVE [inst EXCEPT !.health = h] \in ServiceInstance
  BY DEF ServiceInstance
<1>2. ASSUME NEW r \in Readiness PROVE [inst EXCEPT !.readiness = r] \in ServiceInstance
  BY DEF ServiceInstance
<1>3. ASSUME NEW f \in Freshness PROVE [inst EXCEPT !.freshness = f] \in ServiceInstance
  BY DEF ServiceInstance
<1>4. ASSUME NEW r \in Reachability PROVE [inst EXCEPT !.reachability = r] \in ServiceInstance
  BY DEF ServiceInstance
<1>5. QED
  BY <1>1, <1>2, <1>3, <1>4

\* The allocator hands out naturals.
LEMMA IdType ==
  ASSUME TypeOK, NEW id \in Nat, TakeId(id)
  PROVE  IdOf(id) \in Nat /\ next_id' \in Nat
BY DEF TypeOK, IdOf, TakeId

\* A registration over any well-typed instance map leaves the maps it writes
\* well typed, whether it installs, refuses or stops half way.
LEMMA RegisterOverType ==
  ASSUME TypeOK, NEW insts, IsMap(insts, Nat, ServiceInstance),
         NEW in, in.id \in Nat, NEW inst \in ServiceInstance,
         RegisterOver(insts, in, inst)
  PROVE  /\ IsMap(instances', Nat, ServiceInstance)
         /\ IsMap(endpoints', Nat, EndpointDescriptor)
         /\ next_id' \in Nat
<1>1. ASSUME NEW is, IsMap(is, Nat, ServiceInstance), NEW id \in Nat,
             Install(is, id, inst)
      PROVE  /\ IsMap(instances', Nat, ServiceInstance)
             /\ IsMap(endpoints', Nat, EndpointDescriptor)
  <2>1. ASSUME NEW e \in DOMAIN endpoints
        PROVE  Claimed(endpoints[e], id) \in EndpointDescriptor
    BY <1>1 DEF TypeOK, IsMap, Claimed, EndpointDescriptor, Reachability, Freshness
  <2>2. IsMap(endpoints', Nat, EndpointDescriptor)
    BY <1>1, <2>1 DEF Install, TypeOK, IsMap
  <2>3. \/ instances' = Put(is, id, reclassify_lifecycle(inst, endpoints'))
        \/ instances' = is
    BY <1>1 DEF Install
  <2>4. reclassify_lifecycle(inst, endpoints') \in ServiceInstance
    BY <2>2, ReclassifyType
  <2>5. QED
    BY <1>1, <2>2, <2>3, <2>4, PutMap
<1>2. ASSUME Refuse(insts)
      PROVE  /\ IsMap(instances', Nat, ServiceInstance)
             /\ IsMap(endpoints', Nat, EndpointDescriptor)
  BY <1>2 DEF Refuse, TypeOK
<1>3. ASSUME NEW current \in Newest(insts, inst.service_id)
      PROVE  IsMap([insts EXCEPT ![current].lifecycle = "SUPERSEDED"], Nat, ServiceInstance)
  BY <1>3, MarkType DEF Newest, Lifecycle
<1>4. CASE inst.service_id \notin DOMAIN services
  BY <1>2, <1>4 DEF RegisterOver, TypeOK
<1>5. CASE inst.service_id \in DOMAIN services
  <2>1. TakeId(in.id)
    BY <1>5 DEF RegisterOver
  <2>2. IdOf(in.id) \in Nat /\ next_id' \in Nat
    BY <2>1, IdType
  <2>3. \/ Refuse(insts)
        \/ Install(insts, IdOf(in.id), inst)
        \/ \E current \in Newest(insts, inst.service_id) :
             Install([insts EXCEPT ![current].lifecycle = "SUPERSEDED"], IdOf(in.id), inst)
    BY <1>5 DEF RegisterOver
  <2>4. QED
    BY <1>1, <1>2, <1>3, <2>2, <2>3
<1>6. QED
  BY <1>4, <1>5

\* Every reachable state is well typed: no operation stores a value outside
\* its enumeration, an id that is not a natural or a record of another shape.
LEMMA TypeInit == Init => TypeOK
BY EmptyIsMap, BoundsAssumption DEF Init, TypeOK

LEMMA TypeAuthority == TypeOK /\ AuthorityNext => TypeOK'
<1> SUFFICES ASSUME TypeOK, AuthorityNext PROVE TypeOK'
  OBVIOUS
<1> USE BoundsAssumption
<1>1. CASE begin_coordinator_epoch
  <2>1. /\ IsMap(instances', Nat, ServiceInstance)
        /\ IsMap(endpoints', Nat, EndpointDescriptor)
        /\ IsMap(capabilities', Nat, CapabilityDescriptor)
        /\ IsMap(leases', Nat, LeaseDescriptor)
    BY <1>1, RevalidatedType DEF begin_coordinator_epoch, TypeOK, IsMap
  <2>2. /\ live_boots' = {} /\ epoch' \in Nat /\ next_boot' \in Nat
        /\ IsMap(current_boot', Workers, Nat) /\ IsMap(boot_worker', Nat, Workers)
    BY <1>1, EmptyIsMap DEF begin_coordinator_epoch, ClearAuthority, TypeOK
  <2>3. QED
    BY <1>1, <2>1, <2>2 DEF begin_coordinator_epoch, TypeOK
<1>2. ASSUME NEW w \in Workers, adopt_worker(w)
      PROVE  TypeOK'
  <2> DEFINE prev == Lookup(current_boot, w, None)
  <2>1. /\ IsMap(RevokedBoots(prev), Workers, Nat)
        /\ IsMap(RevokedOwners(prev), Nat, Workers)
        /\ IsMap(RevokedInstances(prev), Nat, ServiceInstance)
        /\ IsMap(RevokedLeases(prev), Nat, LeaseDescriptor)
        /\ IsMap(ReleasedEndpoints(prev), Nat, EndpointDescriptor)
    BY RevokeType
  <2>2. next_boot + 1 \in Nat
    BY DEF TypeOK
  <2>3. /\ IsMap(current_boot', Workers, Nat) /\ IsMap(boot_worker', Nat, Workers)
    BY <1>2, <2>1, <2>2, PutMap DEF adopt_worker
  <2>4. live_boots' \subseteq Nat /\ next_boot' \in Nat
    BY <1>2, <2>2 DEF adopt_worker, TypeOK
  <2>5. QED
    BY <1>2, <2>1, <2>3, <2>4 DEF adopt_worker, RevokeRecords, TypeOK
<1>3. ASSUME NEW b \in Boots, mark_worker_died(b)
      PROVE  TypeOK'
  BY <1>3, RevokeType DEF mark_worker_died, RevokeRecords, TypeOK
<1>4. QED
  BY <1>1, <1>2, <1>3 DEF AuthorityNext

\* The catalog after one of its maps took a record.
LEMMA CatalogPut ==
  ASSUME TypeOK, NEW kind \in CatalogKind, NEW id \in Nat, NEW rec \in CatalogDescriptor,
         NEW m, m = [catalog EXCEPT ![kind] = Put(@, id, rec)]
  PROVE  /\ DOMAIN m = CatalogKind
         /\ \A k \in CatalogKind : IsMap(m[k], Nat, CatalogDescriptor)
<1>1. IsMap(Put(catalog[kind], id, rec), Nat, CatalogDescriptor)
  BY PutMap DEF TypeOK
<1>2. QED
  BY <1>1 DEF TypeOK

LEMMA CatalogRuntime ==
  ASSUME TypeOK, NEW in \in [kind : CatalogKind, id : Nat, rec : CatalogDescriptor],
         NEW id \in Nat
  PROVE  /\ DOMAIN WithRuntime(in, id) = CatalogKind
         /\ \A k \in CatalogKind : IsMap(WithRuntime(in, id)[k], Nat, CatalogDescriptor)
<1> DEFINE copy == [in.rec EXCEPT !.runtime_instance = id]
           byInstance == Put(catalog["RuntimeInstanceId"], id, copy)
           byRuntime == IF in.id \in DOMAIN catalog["RuntimeInstanceId"]
                        THEN catalog["RuntimeId"]
                        ELSE Put(catalog["RuntimeId"], copy.runtime_id, copy)
<1>1. copy \in CatalogDescriptor /\ copy.runtime_id \in Nat
  BY DEF CatalogDescriptor
<1>2. /\ IsMap(catalog["RuntimeInstanceId"], Nat, CatalogDescriptor)
      /\ IsMap(catalog["RuntimeId"], Nat, CatalogDescriptor)
  BY DEF TypeOK, CatalogKind
<1> HIDE DEF copy
<1>3. IsMap(byInstance, Nat, CatalogDescriptor) /\ IsMap(byRuntime, Nat, CatalogDescriptor)
  BY <1>1, <1>2, PutMap
<1>4. WithRuntime(in, id) = [catalog EXCEPT !["RuntimeInstanceId"] = byInstance,
                                            !["RuntimeId"] = byRuntime]
  BY DEF WithRuntime, TypeOK, CatalogKind, copy
<1> HIDE DEF byInstance, byRuntime
<1>5. QED
  BY <1>3, <1>4 DEF TypeOK

LEMMA TypeCatalog == TypeOK /\ CatalogNext => TypeOK'
<1> SUFFICES ASSUME TypeOK, NEW env \in Envelopes, NEW in \in CatalogInputs,
               \/ register_runtime(env, in) \/ register_protocol(env, in)
               \/ register_backend(env, in) \/ register_device(env, in)
               \/ register_node(env, in)
             PROVE TypeOK'
  BY DEF CatalogNext
<1>1. in \in [kind : CatalogKind, id : Nat, rec : CatalogDescriptor]
  BY InputsAssumption
<1>2. IdOf(in.id) \in Nat /\ in.id \in Nat /\ in.rec \in CatalogDescriptor
  BY <1>1 DEF TypeOK, IdOf
<1>3. next_id' \in Nat
  BY <1>1 DEF TypeOK, TakeId, register_runtime, register_protocol, register_backend,
     register_device, register_node
<1>4. /\ DOMAIN catalog' = CatalogKind
      /\ \A k \in CatalogKind : IsMap(catalog'[k], Nat, CatalogDescriptor)
  <2>1. CASE register_runtime(env, in)
    BY <1>1, <1>2, <2>1, CatalogRuntime DEF register_runtime
  <2>2. ASSUME NEW kind, NEW id \in Nat, Catalogued(env, in, kind, id)
        PROVE  /\ DOMAIN catalog' = CatalogKind
               /\ \A k \in CatalogKind : IsMap(catalog'[k], Nat, CatalogDescriptor)
    BY <1>1, <1>2, <2>2, CatalogPut DEF Catalogued
  <2>3. QED
    BY <1>2, <2>1, <2>2 DEF register_protocol, register_backend, register_device,
       register_node
<1>5. CatalogOnly
  BY DEF register_runtime, register_protocol, register_backend, register_device,
     register_node, Catalogued
<1>6. QED
  BY <1>3, <1>4, <1>5 DEF CatalogOnly, authority, TypeOK

LEMMA TypeRegistration == TypeOK /\ RegistrationNext => TypeOK'
<1> SUFFICES ASSUME TypeOK, NEW env \in Envelopes,
               \/ \E in \in ServiceInputs : register_service(env, in)
               \/ \E in \in EndpointInputs : register_endpoint(env, in)
               \/ \E in \in CapabilityInputs : register_capability(env, in)
               \/ \E in \in InstanceInputs, b \in OwnerBoots(env) : register_instance(env, in, b)
               \/ \E old \in DOMAIN instances, in \in InstanceInputs, b \in OwnerBoots(env) :
                    supersede(env, old, in, b)
             PROVE TypeOK'
  BY DEF RegistrationNext
<1> USE InputsAssumption
<1>1. ASSUME NEW in \in ServiceInputs, register_service(env, in)
      PROVE  TypeOK'
  <2>1. IsMap(services', Nat, ServiceDescriptor)
    BY <1>1, PutMap DEF register_service, TypeOK
  <2>2. QED
    BY <1>1, <2>1 DEF register_service, authority, TypeOK
<1>2. ASSUME NEW in \in EndpointInputs, register_endpoint(env, in)
      PROVE  TypeOK'
  <2>1. in.id \in Nat /\ in.rec \in EndpointDescriptor
    OBVIOUS
  <2>2. IdOf(in.id) \in Nat /\ next_id' \in Nat
    BY <1>2, <2>1, IdType DEF register_endpoint
  <2>3. IsMap(endpoints', Nat, EndpointDescriptor)
    BY <1>2, <2>1, <2>2, PutMap DEF register_endpoint, TypeOK
  <2>4. QED
    BY <1>2, <2>2, <2>3 DEF register_endpoint, authority, TypeOK
<1>3. ASSUME NEW in \in CapabilityInputs, register_capability(env, in)
      PROVE  TypeOK'
  <2>1. in.id \in Nat /\ in.rec \in CapabilityDescriptor
    OBVIOUS
  <2>2. IdOf(in.id) \in Nat /\ next_id' \in Nat
    BY <1>3, <2>1, IdType DEF register_capability
  <2>3. IsMap(capabilities', Nat, CapabilityDescriptor)
    BY <1>3, <2>1, <2>2, PutMap DEF register_capability, TypeOK
  <2>4. QED
    BY <1>3, <2>2, <2>3 DEF register_capability, authority, TypeOK
<1>4. ASSUME NEW in \in InstanceInputs, NEW b \in OwnerBoots(env)
      PROVE  in.id \in Nat /\ [in.rec EXCEPT !.boot = b] \in ServiceInstance
  <2>1. b \in Nat
    BY BoundsAssumption DEF OwnerBoots, Envelopes, Boots
  <2>2. in.id \in Nat /\ in.rec \in ServiceInstance
    OBVIOUS
  <2>3. QED
    BY <2>1, <2>2 DEF ServiceInstance
<1>5. ASSUME NEW in \in InstanceInputs, NEW b \in OwnerBoots(env),
             register_instance(env, in, b)
      PROVE  TypeOK'
  <2>1. /\ IsMap(instances', Nat, ServiceInstance)
        /\ IsMap(endpoints', Nat, EndpointDescriptor)
        /\ next_id' \in Nat
    BY <1>4, <1>5, RegisterOverType DEF register_instance, TypeOK
  <2>2. QED
    BY <1>5, <2>1 DEF register_instance, authority, TypeOK
<1>6. ASSUME NEW old \in DOMAIN instances, NEW in \in InstanceInputs,
             NEW b \in OwnerBoots(env), supersede(env, old, in, b)
      PROVE  TypeOK'
  <2>1. IsMap([instances EXCEPT ![old].lifecycle = "SUPERSEDED"], Nat, ServiceInstance)
    BY MarkType DEF TypeOK, Lifecycle
  <2>2. /\ IsMap(instances', Nat, ServiceInstance)
        /\ IsMap(endpoints', Nat, EndpointDescriptor)
        /\ next_id' \in Nat
    BY <1>4, <1>6, <2>1, RegisterOverType DEF supersede
  <2>3. QED
    BY <1>6, <2>2 DEF supersede, authority, TypeOK
<1>7. QED
  BY <1>1, <1>2, <1>3, <1>5, <1>6

LEMMA TypeUpdate == TypeOK /\ UpdateNext => TypeOK'
<1> SUFFICES ASSUME TypeOK, NEW env \in Envelopes, NEW g \in GenerationInputs,
               \/ \E id \in DOMAIN instances :
                    \/ \E h \in HealthInputs : update_health(env, id, g, h)
                    \/ \E r \in ReadinessInputs : update_readiness(env, id, g, r)
                    \/ \E f \in FreshnessInputs : update_freshness(env, id, g, f)
                    \/ \E r \in ReachabilityInputs : update_instance_reachability(env, id, g, r)
                    \/ deregister(env, id, g)
               \/ \E e \in DOMAIN endpoints, r \in ReachabilityInputs :
                    update_reachability(env, e, g, r)
             PROVE TypeOK'
  BY DEF UpdateNext
<1> USE InputsAssumption
<1>1. ASSUME NEW id \in DOMAIN instances, NEW updated \in ServiceInstance,
             UpdateInstance(env, id, g, updated)
      PROVE  TypeOK'
  <2>1. reclassify_lifecycle(updated, endpoints) \in ServiceInstance
    BY ReclassifyType DEF TypeOK
  <2>2. IsMap(instances', Nat, ServiceInstance)
    BY <1>1, <2>1, ExceptMap DEF UpdateInstance, TypeOK
  <2>3. QED
    BY <1>1, <2>2 DEF UpdateInstance, authority, TypeOK
<1>2. ASSUME NEW id \in DOMAIN instances
      PROVE  /\ instances[id] \in ServiceInstance
             /\ \A h \in Health : [instances[id] EXCEPT !.health = h] \in ServiceInstance
             /\ \A r \in Readiness : [instances[id] EXCEPT !.readiness = r] \in ServiceInstance
             /\ \A f \in Freshness : [instances[id] EXCEPT !.freshness = f] \in ServiceInstance
             /\ \A r \in Reachability : [instances[id] EXCEPT !.reachability = r] \in ServiceInstance
  <2>1. instances[id] \in ServiceInstance
    BY DEF TypeOK, IsMap
  <2>2. QED
    BY <2>1, ReportedType
<1>3. ASSUME NEW id \in DOMAIN instances, NEW h \in HealthInputs, update_health(env, id, g, h)
      PROVE  TypeOK'
  BY <1>1, <1>2, <1>3 DEF update_health
<1>4. ASSUME NEW id \in DOMAIN instances, NEW r \in ReadinessInputs, update_readiness(env, id, g, r)
      PROVE  TypeOK'
  BY <1>1, <1>2, <1>4 DEF update_readiness
<1>5. ASSUME NEW id \in DOMAIN instances, NEW f \in FreshnessInputs, update_freshness(env, id, g, f)
      PROVE  TypeOK'
  BY <1>1, <1>2, <1>5 DEF update_freshness
<1>6. ASSUME NEW id \in DOMAIN instances, NEW r \in ReachabilityInputs,
             update_instance_reachability(env, id, g, r)
      PROVE  TypeOK'
  BY <1>1, <1>2, <1>6 DEF update_instance_reachability
<1>7. ASSUME NEW id \in DOMAIN instances, deregister(env, id, g)
      PROVE  TypeOK'
  <2>1. IsMap(instances', Nat, ServiceInstance)
    BY <1>7, MarkType DEF deregister, TypeOK, Lifecycle
  <2>2. QED
    BY <1>7, <2>1 DEF deregister, authority, TypeOK
<1>8. ASSUME NEW e \in DOMAIN endpoints, NEW r \in ReachabilityInputs,
             update_reachability(env, e, g, r)
      PROVE  TypeOK'
  <2> DEFINE eps == [endpoints EXCEPT ![e].reachability = r]
             owner == endpoints[e].service_instance
  <2>1. [endpoints[e] EXCEPT !.reachability = r] \in EndpointDescriptor
    BY DEF TypeOK, IsMap, EndpointDescriptor
  <2>2. IsMap(eps, Nat, EndpointDescriptor)
    BY <2>1, ExceptMap DEF TypeOK
  <2>3. endpoints' = eps
    BY <1>8 DEF update_reachability
  <2>4. \/ instances' = instances
        \/ /\ owner \in DOMAIN instances
           /\ instances' = [instances EXCEPT ![owner] =
                              reclassify_lifecycle(instances[owner], eps)]
    BY <1>8 DEF update_reachability
  <2> HIDE DEF eps, owner
  <2>5. ASSUME owner \in DOMAIN instances
        PROVE  reclassify_lifecycle(instances[owner], eps) \in ServiceInstance
    BY <1>2, <2>2, <2>5, ReclassifyType
  <2>6. IsMap(instances', Nat, ServiceInstance)
    BY <2>4, <2>5, ExceptMap DEF TypeOK
  <2>7. QED
    BY <1>8, <2>2, <2>3, <2>6 DEF update_reachability, authority, TypeOK
<1>9. QED
  BY <1>3, <1>4, <1>5, <1>6, <1>7, <1>8

LEMMA TypeLease == TypeOK /\ LeaseNext => TypeOK'
<1> SUFFICES ASSUME TypeOK, LeaseNext PROVE TypeOK'
  OBVIOUS
<1>1. ASSUME NEW l \in DOMAIN leases, NEW state \in LeaseState
      PROVE  IsMap([leases EXCEPT ![l].state = state], Nat, LeaseDescriptor)
  <2>1. [leases[l] EXCEPT !.state = state] \in LeaseDescriptor
    BY DEF TypeOK, IsMap, LeaseDescriptor
  <2>2. QED
    BY <2>1, ExceptMap DEF TypeOK
<1>2. ASSUME NEW env, NEW in \in LeaseInputs, acquire_lease(env, in)
      PROVE  TypeOK'
  <2>1. in.id \in Nat /\ in.rec \in LeaseDescriptor
    BY InputsAssumption
  <2>2. IdOf(in.id) \in Nat /\ next_id' \in Nat
    BY <1>2, <2>1, IdType DEF acquire_lease
  <2>3. [in.rec EXCEPT !.generation = lease_gen + 1] \in LeaseDescriptor
    BY <2>1 DEF LeaseDescriptor, TypeOK
  <2>4. IsMap(leases, Nat, LeaseDescriptor) /\ lease_gen' \in Nat
    BY <1>2 DEF acquire_lease, TypeOK
  <2>5. IsMap(leases', Nat, LeaseDescriptor)
    BY <1>2, <2>2, <2>3, <2>4, PutMap DEF acquire_lease
  <2>6. QED
    BY <1>2, <2>2, <2>4, <2>5 DEF acquire_lease, LeasesOnly, authority, TypeOK
<1>3. ASSUME NEW env, NEW l \in DOMAIN leases, NEW g, renew_lease(env, l, g)
      PROVE  TypeOK'
  <2>1. IsMap(leases', Nat, LeaseDescriptor)
    BY <1>1, <1>3 DEF renew_lease, LeaseState
  <2>2. QED
    BY <1>3, <2>1 DEF renew_lease, LeasesOnly, authority, TypeOK
<1>4. ASSUME NEW l \in DOMAIN leases, NEW state \in LeaseState, EndLease(l, state)
      PROVE  TypeOK'
  <2>1. IsMap(leases', Nat, LeaseDescriptor)
    BY <1>1, <1>4 DEF EndLease, TypeOK
  <2>2. QED
    BY <1>4, <2>1 DEF EndLease, LeasesOnly, authority, TypeOK
<1>5. {"EXPIRED", "REVOKED", "REVALIDATION_REQUIRED"} \subseteq LeaseState
  BY DEF LeaseState
<1>6. QED
  BY <1>2, <1>3, <1>4, <1>5
     DEF LeaseNext, expire_lease, revoke_lease, mark_lease_revalidation_required

LEMMA TypeFencing == TypeOK /\ FencingNext => TypeOK'
<1> SUFFICES ASSUME TypeOK, FencingNext PROVE TypeOK'
  OBVIOUS
<1>1. ASSUME NEW env, NEW in \in TombstoneInputs, create_tombstone(env, in)
      PROVE  TypeOK'
  <2>1. in.id \in Nat /\ in.rec \in TombstoneRecord
    BY InputsAssumption
  <2>2. IdOf(in.id) \in Nat /\ next_id' \in Nat
    BY <1>1, <2>1, IdType DEF create_tombstone
  <2>3. IsMap(tombstones', Nat, TombstoneRecord)
    BY <1>1, <2>1, <2>2, PutMap DEF create_tombstone, TypeOK
  <2>4. QED
    BY <1>1, <2>2, <2>3 DEF create_tombstone, authority, TypeOK
<1>2. ASSUME NEW env, NEW rec \in InvalidationInputs, invalidate(env, rec)
      PROVE  TypeOK'
  BY <1>2, InputsAssumption DEF invalidate, authority, TypeOK
<1>3. QED
  BY <1>1, <1>2 DEF FencingNext

LEMMA TypeNext == TypeOK /\ [Next]_vars => TypeOK'
<1>1. TypeOK /\ UNCHANGED vars => TypeOK'
  BY DEF vars, authority, TypeOK
<1>2. QED
  BY <1>1, TypeAuthority, TypeCatalog, TypeRegistration, TypeUpdate, TypeLease, TypeFencing DEF Next

\* Every operation leaves every record, map and allocator in its type, whatever
\* the inputs and the bounds; every other theorem rests on this one.
THEOREM TypeCorrect == Spec => []TypeOK
BY TypeInit, TypeNext, PTL DEF Spec

-----------------------------------------------------------------------------
(* Authority                                                               *)

\* Only the three authority operations change the authority; every other
\* operation of registry.cpp reads it through validate_envelope.
LEMMA AuthorityFrame ==
  ASSUME \/ CatalogNext \/ RegistrationNext \/ UpdateNext \/ LeaseNext
         \/ FencingNext \/ UNCHANGED vars
  PROVE  UNCHANGED authority
<1>0. CASE CatalogNext
  BY <1>0 DEF CatalogNext, CatalogOnly, Catalogued, register_runtime, register_protocol,
              register_backend, register_device, register_node
<1>1. CASE RegistrationNext
  BY <1>1 DEF RegistrationNext, register_service, register_endpoint,
              register_capability, register_instance, supersede
<1>2. CASE UpdateNext
  BY <1>2 DEF UpdateNext, UpdateInstance, update_health, update_readiness,
              update_freshness, update_instance_reachability,
              update_reachability, deregister
<1>3. CASE LeaseNext
  BY <1>3 DEF LeaseNext, LeasesOnly, acquire_lease, renew_lease, EndLease,
              expire_lease, revoke_lease, mark_lease_revalidation_required
<1>4. CASE FencingNext
  BY <1>4 DEF FencingNext, create_tombstone, invalidate
<1>5. CASE UNCHANGED vars
  BY <1>5 DEF vars
<1>6. QED
  BY <1>0, <1>1, <1>2, <1>3, <1>4, <1>5

\* What revoking boot b leaves of the authority maps (revoke_boot_internal):
\* b has no owner and is nobody's current boot; all else is as it was.
LEMMA RevokeAuthority ==
  ASSUME TypeOK, AuthorityConsistent, NEW b
  PROVE  /\ DOMAIN RevokedOwners(b) = live_boots \ {b}
         /\ \A c \in live_boots \ {b} : RevokedOwners(b)[c] = boot_worker[c]
         /\ DOMAIN RevokedBoots(b) = DOMAIN current_boot
         /\ \A w \in DOMAIN current_boot : RevokedBoots(b)[w] =
              IF is_boot_live(b) /\ current_boot[w] = b THEN None ELSE current_boot[w]
<1>1. /\ DOMAIN RevokedOwners(b) = live_boots \ {b}
      /\ \A c \in live_boots \ {b} : RevokedOwners(b)[c] = boot_worker[c]
  BY DEF RevokedOwners, AuthorityConsistent
<1>2. CASE ~is_boot_live(b)
  BY <1>1, <1>2 DEF RevokedBoots
<1>3. CASE is_boot_live(b)
  <2> DEFINE owner == boot_worker[b]
  <2>1. b \in live_boots /\ Lookup(boot_worker, b, None) = owner
    BY <1>3 DEF is_boot_live, AuthorityConsistent, Lookup
  <2>2. Lookup(current_boot, owner, None) = b
    BY <2>1 DEF AuthorityConsistent
  <2>3. b # None
    BY <2>1, BoundsAssumption DEF AuthorityConsistent, None, TypeOK
  <2>4. owner \in DOMAIN current_boot /\ current_boot[owner] = b
    BY <2>2, <2>3 DEF Lookup
  <2>5. \A w \in DOMAIN current_boot : current_boot[w] = b => w = owner
    BY <2>3 DEF AuthorityConsistent
  <2>6. RevokedBoots(b) = [current_boot EXCEPT ![owner] = None]
    BY <1>3, <2>1, <2>2 DEF RevokedBoots
  <2> HIDE DEF owner
  <2>7. QED
    BY <1>1, <1>3, <2>4, <2>5, <2>6
<1>4. QED
  BY <1>2, <1>3

LEMMA AuthorityInit == Init => AuthorityConsistent
BY EmptyIsMap, BoundsAssumption DEF Init, AuthorityConsistent

\* A restarted worker owns its new boot and nothing else.
LEMMA AuthorityAdopt ==
  ASSUME TypeOK, AuthorityConsistent, NEW w \in Workers, adopt_worker(w)
  PROVE  AuthorityConsistent'
<1> DEFINE prev == Lookup(current_boot, w, None)
           new  == next_boot + 1
           cb   == RevokedBoots(prev)
           bw   == RevokedOwners(prev)
<1>1. /\ DOMAIN bw = live_boots \ {prev}
      /\ \A c \in live_boots \ {prev} : bw[c] = boot_worker[c]
      /\ DOMAIN cb = DOMAIN current_boot
      /\ \A x \in DOMAIN current_boot : cb[x] =
           IF is_boot_live(prev) /\ current_boot[x] = prev THEN None ELSE current_boot[x]
  BY RevokeAuthority
<1>2. /\ next_boot' = new /\ current_boot' = Put(cb, w, new)
      /\ live_boots' = (live_boots \ {prev}) \cup {new}
      /\ boot_worker' = Put(bw, new, w)
  BY DEF adopt_worker
<1>3. next_boot \in Nat /\ FirstBoot \in Nat /\ live_boots \subseteq FirstBoot + 1 .. next_boot
      /\ next_boot >= FirstBoot
  BY BoundsAssumption DEF TypeOK, AuthorityConsistent
<1>4. new \notin live_boots /\ new # None /\ None \notin live_boots
  BY <1>3 DEF None
<1>5. w \in DOMAIN current_boot => prev = current_boot[w]
  BY DEF Lookup
<1> HIDE DEF prev, new, cb, bw
<1>6. /\ DOMAIN boot_worker' = DOMAIN bw \cup {new} /\ boot_worker'[new] = w
      /\ \A c \in DOMAIN bw : c # new => boot_worker'[c] = bw[c]
  BY <1>2 DEF Put
<1>7. /\ DOMAIN current_boot' = DOMAIN cb \cup {w} /\ current_boot'[w] = new
      /\ \A x \in DOMAIN cb : x # w => current_boot'[x] = cb[x]
  BY <1>2 DEF Put
<1>8. next_boot' >= FirstBoot /\ live_boots' \subseteq FirstBoot + 1 .. next_boot'
  <2>1. /\ FirstBoot + 1 .. next_boot \subseteq FirstBoot + 1 .. new
        /\ new >= FirstBoot /\ new \in FirstBoot + 1 .. new
    BY <1>3 DEF new
  <2>2. QED
    BY <1>2, <1>3, <2>1
<1>9. live_boots' = DOMAIN boot_worker'
  BY <1>1, <1>2, <1>6
<1>10. ASSUME NEW b \in live_boots'
       PROVE  Lookup(current_boot', boot_worker'[b], None) = b
  <2>1. CASE b = new
    BY <1>6, <1>7, <2>1 DEF Lookup
  <2>2. CASE b # new
    <3>1. b \in live_boots /\ b # prev /\ b # None
      BY <1>2, <1>4, <1>10, <2>2
    <3>2. boot_worker'[b] = boot_worker[b]
      BY <1>1, <1>6, <2>2, <3>1
    <3>3. boot_worker[b] \in DOMAIN current_boot /\ current_boot[boot_worker[b]] = b
      BY <3>1 DEF AuthorityConsistent, Lookup
    <3>4. boot_worker[b] # w
      BY <1>5, <3>1, <3>3
    <3>5. current_boot'[boot_worker[b]] = b
      BY <1>1, <1>7, <3>1, <3>3, <3>4
    <3>6. QED
      BY <1>1, <1>7, <3>2, <3>3, <3>5 DEF Lookup
  <2>3. QED
    BY <2>1, <2>2
<1>11. ASSUME NEW x \in DOMAIN current_boot', current_boot'[x] # None
       PROVE  current_boot'[x] \in live_boots' /\ boot_worker'[current_boot'[x]] = x
  <2>1. CASE x = w
    BY <1>2, <1>6, <1>7, <2>1
  <2>2. CASE x # w
    <3>1. x \in DOMAIN current_boot /\ current_boot'[x] = cb[x]
      BY <1>1, <1>7, <2>2
    <3>2. /\ cb[x] = current_boot[x] /\ current_boot[x] # None
          /\ ~(is_boot_live(prev) /\ current_boot[x] = prev)
      BY <1>1, <1>11, <3>1
    <3>3. current_boot[x] \in live_boots /\ boot_worker[current_boot[x]] = x
      BY <3>1, <3>2 DEF AuthorityConsistent
    <3>4. current_boot[x] # prev /\ current_boot[x] # new
      BY <1>4, <3>2, <3>3 DEF is_boot_live
    <3>5. QED
      BY <1>1, <1>2, <1>6, <3>1, <3>2, <3>3, <3>4
  <2>3. QED
    BY <2>1, <2>2
<1>12. QED
  BY <1>8, <1>9, <1>10, <1>11 DEF AuthorityConsistent

\* A death ends the ownership of one boot, or changes nothing.
LEMMA AuthorityDeath ==
  ASSUME TypeOK, AuthorityConsistent, NEW b, mark_worker_died(b)
  PROVE  AuthorityConsistent'
<1>1. /\ DOMAIN boot_worker' = live_boots \ {b}
      /\ \A c \in live_boots \ {b} : boot_worker'[c] = boot_worker[c]
      /\ DOMAIN current_boot' = DOMAIN current_boot
      /\ \A x \in DOMAIN current_boot : current_boot'[x] =
           IF is_boot_live(b) /\ current_boot[x] = b THEN None ELSE current_boot[x]
  BY RevokeAuthority DEF mark_worker_died
<1>2. live_boots' = live_boots \ {b} /\ next_boot' = next_boot
  BY DEF mark_worker_died
<1>3. ASSUME NEW c \in live_boots'
      PROVE  Lookup(current_boot', boot_worker'[c], None) = c
  <2>1. c \in live_boots /\ c # b /\ boot_worker'[c] = boot_worker[c]
    BY <1>1, <1>2, <1>3
  <2>2. c # None
    BY <2>1, BoundsAssumption DEF AuthorityConsistent, None, TypeOK
  <2>3. boot_worker[c] \in DOMAIN current_boot /\ current_boot[boot_worker[c]] = c
    BY <2>1, <2>2 DEF AuthorityConsistent, Lookup
  <2>4. QED
    BY <1>1, <2>1, <2>3 DEF Lookup
<1>4. ASSUME NEW x \in DOMAIN current_boot', current_boot'[x] # None
      PROVE  current_boot'[x] \in live_boots' /\ boot_worker'[current_boot'[x]] = x
  BY <1>1, <1>2, <1>4 DEF AuthorityConsistent, is_boot_live
<1>5. QED
  BY <1>1, <1>2, <1>3, <1>4 DEF AuthorityConsistent

LEMMA AuthorityStep == TypeOK /\ AuthorityConsistent /\ [Next]_vars => AuthorityConsistent'
<1> SUFFICES ASSUME TypeOK, AuthorityConsistent, [Next]_vars PROVE AuthorityConsistent'
  OBVIOUS
<1>1. CASE begin_coordinator_epoch
  BY <1>1, EmptyIsMap DEF begin_coordinator_epoch, ClearAuthority, AuthorityConsistent
<1>2. CASE UNCHANGED authority
  BY <1>2 DEF authority, AuthorityConsistent
<1>3. QED
  BY <1>1, <1>2, AuthorityAdopt, AuthorityDeath, AuthorityFrame DEF Next, AuthorityNext

\* The authority maps agree in every reachable state, for any number of
\* workers, restarts, deaths and epochs.
THEOREM AuthorityCorrect == Spec => []AuthorityConsistent
<1>1. Init => TypeOK /\ AuthorityConsistent
  BY TypeInit, AuthorityInit
<1>2. TypeOK /\ AuthorityConsistent /\ [Next]_vars => (TypeOK /\ AuthorityConsistent)'
  BY TypeNext, AuthorityStep
<1>3. QED
  BY <1>1, <1>2, PTL DEF Spec
-----------------------------------------------------------------------------
(* Serving                                                                 *)

\* What ServingIsLive asks of one record.
Sound(inst) ==
  inst.lifecycle \in {"AVAILABLE", "DEGRADED"} =>
    /\ is_boot_live(inst.boot)
    /\ inst.freshness = "CURRENT"
    /\ inst.reachability \in {"REACHABLE", "DEGRADED"}
    /\ inst.readiness \in {"READY", "PARTIALLY_READY"}
    /\ inst.health \notin {"UNHEALTHY", "UNAVAILABLE"}
AllSound(insts) == \A i \in DOMAIN insts : Sound(insts[i])

LEMMA ServingSound == ServingIsLive <=> AllSound(instances)
BY DEF ServingIsLive, Serving, AllSound, Sound

\* A reclassified instance is sound whatever it was before.
LEMMA ReclassifySound ==
  ASSUME NEW inst \in ServiceInstance, NEW eps, IsMap(eps, Nat, EndpointDescriptor)
  PROVE  Sound(reclassify_lifecycle(inst, eps))
BY ReclassifyType DEF Sound

\* Marking an instance with a lifecycle that does not serve keeps the others.
LEMMA MarkSound ==
  ASSUME NEW insts, IsMap(insts, Nat, ServiceInstance), AllSound(insts),
         NEW i \in DOMAIN insts, NEW l, l \notin {"AVAILABLE", "DEGRADED"}
  PROVE  AllSound([insts EXCEPT ![i].lifecycle = l])
<1>1. insts[i] \in ServiceInstance
  BY DEF IsMap
<1>2. [insts[i] EXCEPT !.lifecycle = l].lifecycle = l
  BY <1>1 DEF ServiceInstance
<1>3. Sound([insts[i] EXCEPT !.lifecycle = l])
  BY <1>2 DEF Sound
<1>4. QED
  BY <1>3 DEF AllSound

\* A step that keeps the live boots and leaves a sound map keeps ServingIsLive.
LEMMA SoundStep ==
  ASSUME AllSound(instances'), live_boots' = live_boots
  PROVE  ServingIsLive'
BY DEF ServingIsLive, Serving, AllSound, Sound, is_boot_live

\* A registration installs a reclassified instance or none.
LEMMA RegisterOverSound ==
  ASSUME TypeOK, NEW insts, IsMap(insts, Nat, ServiceInstance), AllSound(insts),
         NEW in, in.id \in Nat, NEW inst \in ServiceInstance,
         RegisterOver(insts, in, inst)
  PROVE  AllSound(instances')
<1>1. IsMap(endpoints', Nat, EndpointDescriptor)
  BY RegisterOverType
<1>2. Sound(reclassify_lifecycle(inst, endpoints'))
  BY <1>1, ReclassifySound
<1>3. ASSUME NEW is, AllSound(is), NEW id, Install(is, id, inst)
      PROVE  AllSound(instances')
  <2>1. \/ instances' = Put(is, id, reclassify_lifecycle(inst, endpoints'))
        \/ instances' = is
    BY <1>3 DEF Install
  <2>2. QED
    BY <1>2, <1>3, <2>1 DEF AllSound, Put
<1>4. ASSUME NEW current \in Newest(insts, inst.service_id)
      PROVE  AllSound([insts EXCEPT ![current].lifecycle = "SUPERSEDED"])
  BY <1>4, MarkSound DEF Newest
<1>5. QED
  BY <1>3, <1>4 DEF RegisterOver, Refuse

\* Whoever loses boot b withdraws all of its instances; the other instances
\* keep their record and their boot.
LEMMA RevokedSound ==
  ASSUME TypeOK, ServingIsLive, NEW b,
         instances' = RevokedInstances(b), live_boots \ {b} \subseteq live_boots'
  PROVE  ServingIsLive'
<1> SUFFICES ASSUME NEW i \in DOMAIN instances', Serving(i)'
             PROVE  /\ i \in DOMAIN instances /\ Serving(i)
                    /\ instances'[i] = instances[i] /\ instances[i].boot # b
  BY DEF ServingIsLive, is_boot_live
<1>1. i \in DOMAIN instances /\ instances[i] \in ServiceInstance
  BY DEF RevokedInstances, TypeOK, IsMap
<1>2. CASE i \in Orphans(b)
  <2>1. instances'[i].lifecycle = "STALE"
    BY <1>1, <1>2 DEF RevokedInstances, ServiceInstance
  <2>2. QED
    BY <2>1 DEF Serving
<1>3. CASE i \notin Orphans(b)
  <2>1. instances'[i] = instances[i]
    BY <1>1, <1>3 DEF RevokedInstances
  <2>2. Serving(i)
    BY <2>1 DEF Serving
  <2>3. is_boot_live(instances[i].boot)
    BY <1>1, <2>2 DEF ServingIsLive
  <2>4. QED
    BY <1>1, <1>3, <2>1, <2>2, <2>3 DEF Orphans
<1>4. QED
  BY <1>2, <1>3

LEMMA ServingAuthority == TypeOK /\ ServingIsLive /\ AuthorityNext => ServingIsLive'
<1> SUFFICES ASSUME TypeOK, ServingIsLive, AuthorityNext PROVE ServingIsLive'
  OBVIOUS
<1>1. CASE begin_coordinator_epoch
  <2>1. ASSUME NEW inst \in ServiceInstance
        PROVE  RevalidatedInstance(inst).lifecycle \notin {"AVAILABLE", "DEGRADED"}
    BY DEF RevalidatedInstance, ServiceInstance
  <2>2. \A i \in DOMAIN instances' : ~Serving(i)'
    BY <1>1, <2>1 DEF begin_coordinator_epoch, Serving, TypeOK, IsMap
  <2>3. QED
    BY <2>2 DEF ServingIsLive
<1>2. ASSUME NEW w \in Workers, adopt_worker(w)
      PROVE  ServingIsLive'
  BY <1>2, RevokedSound DEF adopt_worker, RevokeRecords
<1>3. ASSUME NEW b \in Boots, mark_worker_died(b)
      PROVE  ServingIsLive'
  BY <1>3, RevokedSound DEF mark_worker_died, RevokeRecords
<1>4. QED
  BY <1>1, <1>2, <1>3 DEF AuthorityNext

LEMMA ServingRegistration == TypeOK /\ ServingIsLive /\ RegistrationNext => ServingIsLive'
<1> SUFFICES ASSUME TypeOK, ServingIsLive, RegistrationNext PROVE ServingIsLive'
  OBVIOUS
<1>1. live_boots' = live_boots
  BY AuthorityFrame DEF authority
<1>2. IsMap(instances, Nat, ServiceInstance) /\ AllSound(instances)
  BY ServingSound DEF TypeOK
<1>3. ASSUME NEW env \in Envelopes, NEW in \in InstanceInputs, NEW b \in OwnerBoots(env)
      PROVE  in.id \in Nat /\ [in.rec EXCEPT !.boot = b] \in ServiceInstance
  <2>1. b \in Nat
    BY BoundsAssumption DEF OwnerBoots, Envelopes, Boots
  <2>2. in.id \in Nat /\ in.rec \in ServiceInstance
    BY InputsAssumption
  <2>3. QED
    BY <2>1, <2>2 DEF ServiceInstance
<1>4. ASSUME NEW env \in Envelopes, NEW in \in InstanceInputs, NEW b \in OwnerBoots(env),
             register_instance(env, in, b)
      PROVE  AllSound(instances')
  BY <1>2, <1>3, <1>4, RegisterOverSound DEF register_instance
<1>5. ASSUME NEW env \in Envelopes, NEW old \in DOMAIN instances, NEW in \in InstanceInputs,
             NEW b \in OwnerBoots(env), supersede(env, old, in, b)
      PROVE  AllSound(instances')
  <2>1. LET marked == [instances EXCEPT ![old].lifecycle = "SUPERSEDED"]
        IN  IsMap(marked, Nat, ServiceInstance) /\ AllSound(marked)
    BY <1>2, MarkSound, MarkType DEF Lifecycle
  <2>2. QED
    BY <1>3, <1>5, <2>1, RegisterOverSound DEF supersede
<1>6. ASSUME UNCHANGED instances PROVE AllSound(instances')
  BY <1>2, <1>6
<1>7. AllSound(instances')
  BY <1>4, <1>5, <1>6 DEF RegistrationNext, register_service, register_endpoint,
                          register_capability
<1>8. QED
  BY <1>1, <1>7, SoundStep

LEMMA ServingUpdate == TypeOK /\ ServingIsLive /\ UpdateNext => ServingIsLive'
<1> SUFFICES ASSUME TypeOK, ServingIsLive, UpdateNext PROVE ServingIsLive'
  OBVIOUS
<1>1. live_boots' = live_boots
  BY AuthorityFrame DEF authority
<1>2. /\ IsMap(instances, Nat, ServiceInstance) /\ IsMap(endpoints, Nat, EndpointDescriptor)
      /\ AllSound(instances)
  BY ServingSound DEF TypeOK
<1>3. ASSUME NEW i, NEW inst, Sound(inst)
      PROVE  AllSound([instances EXCEPT ![i] = inst])
  BY <1>2, <1>3 DEF AllSound
<1>4. ASSUME NEW env, NEW id \in DOMAIN instances, NEW g, NEW updated \in ServiceInstance,
             UpdateInstance(env, id, g, updated)
      PROVE  AllSound(instances')
  BY <1>2, <1>3, <1>4, ReclassifySound DEF UpdateInstance
<1>5. ASSUME NEW id \in DOMAIN instances
      PROVE  /\ \A h \in HealthInputs : [instances[id] EXCEPT !.health = h] \in ServiceInstance
             /\ \A r \in ReadinessInputs : [instances[id] EXCEPT !.readiness = r] \in ServiceInstance
             /\ \A f \in FreshnessInputs : [instances[id] EXCEPT !.freshness = f] \in ServiceInstance
             /\ \A r \in ReachabilityInputs :
                  [instances[id] EXCEPT !.reachability = r] \in ServiceInstance
  BY <1>2, ReportedType, InputsAssumption DEF IsMap
<1>6. ASSUME NEW env, NEW e \in DOMAIN endpoints, NEW g, NEW r \in ReachabilityInputs,
             update_reachability(env, e, g, r)
      PROVE  AllSound(instances')
  <2> DEFINE eps == [endpoints EXCEPT ![e].reachability = r]
             owner == endpoints[e].service_instance
  <2>1. [endpoints[e] EXCEPT !.reachability = r] \in EndpointDescriptor
    BY <1>2, InputsAssumption DEF IsMap, EndpointDescriptor
  <2>2. IsMap(eps, Nat, EndpointDescriptor)
    BY <1>2, <2>1, ExceptMap
  <2>3. \/ instances' = instances
        \/ /\ owner \in DOMAIN instances
           /\ instances' = [instances EXCEPT ![owner] =
                              reclassify_lifecycle(instances[owner], eps)]
    BY <1>6 DEF update_reachability
  <2> HIDE DEF eps, owner
  <2>4. ASSUME owner \in DOMAIN instances
        PROVE  Sound(reclassify_lifecycle(instances[owner], eps))
    BY <1>2, <2>2, <2>4, ReclassifySound DEF IsMap
  <2>5. QED
    BY <1>2, <1>3, <2>3, <2>4
<1>7. ASSUME NEW env, NEW id \in DOMAIN instances, NEW g, deregister(env, id, g)
      PROVE  AllSound(instances')
  BY <1>2, <1>7, MarkSound DEF deregister
<1>8. AllSound(instances')
  BY <1>4, <1>5, <1>6, <1>7 DEF UpdateNext, update_health, update_readiness,
     update_freshness, update_instance_reachability
<1>9. QED
  BY <1>1, <1>8, SoundStep

LEMMA ServingStep == TypeOK /\ ServingIsLive /\ [Next]_vars => ServingIsLive'
<1> SUFFICES ASSUME TypeOK, ServingIsLive, [Next]_vars PROVE ServingIsLive'
  OBVIOUS
<1>1. CASE CatalogNext \/ LeaseNext \/ FencingNext \/ UNCHANGED vars
  <2>1. UNCHANGED instances
    BY <1>1 DEF CatalogNext, CatalogOnly, Catalogued, register_runtime,
                register_protocol, register_backend, register_device, register_node,
                LeaseNext, LeasesOnly, acquire_lease, renew_lease, EndLease,
                expire_lease, revoke_lease, mark_lease_revalidation_required,
                FencingNext, create_tombstone, invalidate, vars
  <2>2. live_boots' = live_boots
    BY <1>1, AuthorityFrame DEF authority
  <2>3. QED
    BY <2>1, <2>2, ServingSound, SoundStep
<1>2. QED
  BY <1>1, ServingAuthority, ServingRegistration, ServingUpdate DEF Next

\* In every reachable state only a live incarnation with acceptable status is
\* AVAILABLE or DEGRADED, for any interleaving of any number of operations.
THEOREM ServingCorrect == Spec => []ServingIsLive
<1>1. Init => TypeOK /\ ServingIsLive
  BY TypeInit, EmptyIsMap DEF Init, ServingIsLive
<1>2. TypeOK /\ ServingIsLive /\ [Next]_vars => (TypeOK /\ ServingIsLive)'
  BY TypeNext, ServingStep
<1>3. QED
  BY <1>1, <1>2, PTL DEF Spec

-----------------------------------------------------------------------------
(* Boot numbers                                                            *)

\* Numbering never goes back and no boot that was lost is live again: a new
\* boot is one that was never issued (adopt_worker), and nothing else adds one.
THEOREM DeadBootsCorrect == Spec => DeadBootsStayDead
<1>1. TypeOK /\ [Next]_vars =>
        [/\ next_boot' >= next_boot
         /\ \A b \in FirstBoot + 1 .. next_boot :
              b \notin live_boots => b \notin live_boots']_vars
  <2> SUFFICES ASSUME TypeOK, Next
               PROVE  /\ next_boot' >= next_boot
                      /\ \A b \in FirstBoot + 1 .. next_boot :
                           b \notin live_boots => b \notin live_boots'
    OBVIOUS
  <2>1. next_boot \in Nat /\ FirstBoot \in Nat
    BY BoundsAssumption DEF TypeOK
  <2>2. CASE begin_coordinator_epoch
    BY <2>1, <2>2 DEF begin_coordinator_epoch, ClearAuthority
  <2>3. ASSUME NEW w, adopt_worker(w)
        PROVE  next_boot' = next_boot + 1 /\ live_boots' \subseteq live_boots \cup {next_boot + 1}
    BY <2>3 DEF adopt_worker
  <2>4. ASSUME NEW b, mark_worker_died(b)
        PROVE  next_boot' = next_boot /\ live_boots' \subseteq live_boots
    BY <2>4 DEF mark_worker_died
  <2>5. CASE UNCHANGED authority
    BY <2>1, <2>5 DEF authority
  <2>6. QED
    BY <2>1, <2>2, <2>3, <2>4, <2>5, AuthorityFrame DEF Next, AuthorityNext
<1>2. QED
  BY <1>1, TypeCorrect, PTL DEF Spec, DeadBootsStayDead

-----------------------------------------------------------------------------
(* Refinement                                                              *)

\* The boots some worker has are the live boots.
LEMMA LiveBoots ==
  ASSUME TypeOK, AuthorityConsistent
  PROVE  Abstract!Live = live_boots
<1>1. None \notin live_boots
  BY BoundsAssumption DEF TypeOK, AuthorityConsistent, None
<1>2. ASSUME NEW w \in Workers, Lookup(current_boot, w, None) # None
      PROVE  Lookup(current_boot, w, None) \in live_boots
  BY <1>2 DEF AuthorityConsistent, Lookup
<1>3. ASSUME NEW b \in live_boots
      PROVE  \E w \in Workers : Lookup(current_boot, w, None) = b
  BY DEF AuthorityConsistent, TypeOK, IsMap
<1>4. QED
  BY <1>1, <1>2, <1>3 DEF Abstract!Live, None

\* Revoking boot b takes exactly the pairs of b from what is served.
LEMMA RevokedServed ==
  ASSUME TypeOK, ServingIsLive, NEW b, instances' = RevokedInstances(b)
  PROVE  served' = {p \in served : p[2] # b}
<1>1. DOMAIN instances' = DOMAIN instances
  BY DEF RevokedInstances
<1>2. ASSUME NEW i \in DOMAIN instances
      PROVE  Serving(i)' <=> Serving(i) /\ instances[i].boot # b
  <2>1. CASE i \in Orphans(b)
    <3>1. instances[i] \in ServiceInstance
      BY DEF TypeOK, IsMap
    <3>2. instances'[i].lifecycle = "STALE"
      BY <2>1, <3>1 DEF RevokedInstances, ServiceInstance
    <3>3. QED
      BY <2>1, <3>2 DEF Serving, Orphans
  <2>2. CASE i \notin Orphans(b)
    BY <2>2 DEF RevokedInstances, Serving, Orphans, ServingIsLive
  <2>3. QED
    BY <2>1, <2>2
<1>3. ASSUME NEW i \in DOMAIN instances, Serving(i)'
      PROVE  instances'[i].boot = instances[i].boot
  <2>1. i \notin Orphans(b)
    BY <1>2, <1>3 DEF Orphans
  <2>2. QED
    BY <2>1 DEF RevokedInstances
<1>4. served' = {<<i, instances'[i].boot>> : i \in {j \in DOMAIN instances' : Serving(j)'}}
  BY DEF served
<1>5. QED
  BY <1>1, <1>2, <1>3, <1>4 DEF served

\* Losing boot b ends the incarnation of its owner and of no other worker.
LEMMA RevokedIncarnation ==
  ASSUME TypeOK, AuthorityConsistent, NEW b, NEW w \in Workers
  PROVE  Lookup(RevokedBoots(b), w, None) =
           IF is_boot_live(b) /\ w = boot_worker[b] THEN None
           ELSE Lookup(current_boot, w, None)
<1>1. /\ DOMAIN RevokedBoots(b) = DOMAIN current_boot
      /\ \A x \in DOMAIN current_boot : RevokedBoots(b)[x] =
           IF is_boot_live(b) /\ current_boot[x] = b THEN None ELSE current_boot[x]
  BY RevokeAuthority
<1>2. is_boot_live(b) => b # None
  BY BoundsAssumption DEF is_boot_live, TypeOK, AuthorityConsistent, None
<1>3. ASSUME is_boot_live(b), w \in DOMAIN current_boot
      PROVE  current_boot[w] = b <=> w = boot_worker[b]
  BY <1>2, <1>3 DEF AuthorityConsistent, is_boot_live, Lookup
<1>4. QED
  BY <1>1, <1>3 DEF Lookup

\* A restart is Adopt.
LEMMA AdoptRefines ==
  ASSUME TypeOK, AuthorityConsistent, ServingIsLive, NEW w \in Workers, adopt_worker(w)
  PROVE  Abstract!Adopt(w)
<1> DEFINE inc(x) == Lookup(current_boot, x, None)
           prev == inc(w)
           cb == RevokedBoots(prev)
<1>1. served' = {p \in served : p[2] # prev}
  BY RevokedServed DEF adopt_worker, RevokeRecords
<1>2. next_boot' = next_boot + 1 /\ epoch' = epoch /\ current_boot' = Put(cb, w, next_boot + 1)
  BY DEF adopt_worker
<1>3. Lookup(current_boot', w, None) = next_boot + 1
  BY <1>2 DEF Put, Lookup
<1>4. ASSUME NEW x \in Workers, x # w
      PROVE  Lookup(current_boot', x, None) = inc(x)
  <2>1. Lookup(current_boot', x, None) = Lookup(cb, x, None)
    BY <1>2, <1>4 DEF Put, Lookup
  <2>2. Lookup(cb, x, None) = IF is_boot_live(prev) /\ x = boot_worker[prev] THEN None ELSE inc(x)
    BY RevokedIncarnation
  <2>3. is_boot_live(prev) => boot_worker[prev] = w
    BY BoundsAssumption DEF AuthorityConsistent, TypeOK, Lookup, is_boot_live, None
  <2>4. QED
    BY <1>4, <2>1, <2>2, <2>3
<1>5. [x \in Workers |-> Lookup(current_boot', x, None)]
        = [[x \in Workers |-> inc(x)] EXCEPT ![w] = next_boot + 1]
  BY <1>3, <1>4
<1>6. QED
  BY <1>1, <1>2, <1>5 DEF Abstract!Adopt, Abstract!Withdraw

\* A death report is Lose, or stutters when the boot is not live.
LEMMA DeathRefines ==
  ASSUME TypeOK, AuthorityConsistent, ServingIsLive, NEW b, mark_worker_died(b)
  PROVE  (\E w \in Workers : Abstract!Lose(w)) \/ UNCHANGED Abstract!vars
<1> DEFINE inc(x) == Lookup(current_boot, x, None)
<1>1. served' = {p \in served : p[2] # b}
  BY RevokedServed DEF mark_worker_died, RevokeRecords
<1>2. epoch' = epoch /\ next_boot' = next_boot /\ current_boot' = RevokedBoots(b)
  BY DEF mark_worker_died
<1>3. ASSUME NEW x \in Workers
      PROVE  Lookup(current_boot', x, None) =
               IF is_boot_live(b) /\ x = boot_worker[b] THEN None ELSE inc(x)
  BY <1>2, RevokedIncarnation
<1>4. CASE is_boot_live(b)
  <2>1. boot_worker[b] \in Workers /\ inc(boot_worker[b]) = b /\ b # 0
    BY <1>4, BoundsAssumption DEF is_boot_live, AuthorityConsistent, TypeOK, IsMap
  <2>2. [x \in Workers |-> Lookup(current_boot', x, None)]
          = [[x \in Workers |-> inc(x)] EXCEPT ![boot_worker[b]] = 0]
    BY <1>3, <1>4, <2>1 DEF None
  <2>3. Abstract!Lose(boot_worker[b])
    BY <1>1, <1>2, <2>1, <2>2 DEF Abstract!Lose, Abstract!Withdraw
  <2>4. QED
    BY <2>1, <2>3
<1>5. CASE ~is_boot_live(b)
  <2>1. [x \in Workers |-> Lookup(current_boot', x, None)] = [x \in Workers |-> inc(x)]
    BY <1>3, <1>5
  <2>2. \A p \in served : p[2] # b
    BY <1>5 DEF served, ServingIsLive
  <2>3. served' = served
    BY <1>1, <2>2
  <2>4. QED
    BY <1>2, <2>1, <2>3 DEF Abstract!vars
<1>6. QED
  BY <1>4, <1>5

\* A new epoch is NewEpoch.
LEMMA EpochRefines ==
  ASSUME TypeOK, begin_coordinator_epoch
  PROVE  Abstract!NewEpoch
<1>1. ASSUME NEW inst \in ServiceInstance
      PROVE  RevalidatedInstance(inst).lifecycle \notin {"AVAILABLE", "DEGRADED"}
  BY DEF RevalidatedInstance, ServiceInstance
<1>2. \A i \in DOMAIN instances' : ~Serving(i)'
  BY <1>1 DEF begin_coordinator_epoch, Serving, TypeOK, IsMap
<1>3. served' = {}
  BY <1>2 DEF served
<1>4. /\ epoch' = epoch + 1 /\ next_boot' = next_boot
      /\ [x \in Workers |-> Lookup(current_boot', x, None)] = [x \in Workers |-> 0]
  BY EmptyIsMap DEF begin_coordinator_epoch, ClearAuthority, Lookup, None
<1>5. QED
  BY <1>3, <1>4 DEF Abstract!NewEpoch

\* Everything else is Publish.
LEMMA PublishRefines ==
  ASSUME TypeOK, AuthorityConsistent, ServingIsLive', UNCHANGED authority
  PROVE  Abstract!Publish
<1>1. live_boots' = live_boots /\ current_boot' = current_boot
      /\ epoch' = epoch /\ next_boot' = next_boot
  BY DEF authority
<1>2. \A p \in served' : p[2] \in live_boots
  BY <1>1 DEF served, ServingIsLive, is_boot_live
<1>3. QED
  BY <1>1, <1>2, LiveBoots DEF Abstract!Publish

\* The registry implements Incarnations: every operation is one of its four
\* actions or a stutter, under the mapping of Registry.
THEOREM RefinementCorrect == Spec => ImplementsIncarnations
<1>1. Init => Abstract!Init
  BY EmptyIsMap DEF Init, Abstract!Init, served, Lookup, None
<1>2. /\ TypeOK /\ AuthorityConsistent /\ ServingIsLive /\ ServingIsLive'
      /\ [Next]_vars
      => [Abstract!Next]_Abstract!vars
  BY AdoptRefines, DeathRefines, EpochRefines, PublishRefines, AuthorityFrame
     DEF Next, AuthorityNext, Abstract!Next
<1>3. QED
  BY <1>1, <1>2, TypeCorrect, AuthorityCorrect, ServingCorrect, PTL
     DEF Spec, ImplementsIncarnations, Abstract!Spec
=============================================================================
