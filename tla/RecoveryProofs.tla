--------------------------- MODULE RecoveryProofs ---------------------------
(***************************************************************************)
(* Proofs about Recovery, for all constants: whatever is saved, loaded,    *)
(* half loaded or started again, and whenever, what the registry holds     *)
(* after a load that succeeded is what Registry promises.                  *)
(*                                                                         *)
(* A recovery replaces the records by those of the snapshot, so nothing is *)
(* inductive without an invariant of the snapshot itself: that it is typed *)
(* and, unless it was saved in a damaged state, that its records resolve   *)
(* and its allocator is ahead of them.                                     *)
(***************************************************************************)
EXTENDS Recovery, RegistryRecords

-----------------------------------------------------------------------------
(* Snapshots                                                               *)

\* The records of a snapshot are of the types the registry's are of.
SnapshotType(s) ==
  /\ s = [epoch |-> s.epoch, next_boot |-> s.next_boot, next_id |-> s.next_id,
          lease_gen |-> s.lease_gen, catalog |-> s.catalog, services |-> s.services,
          instances |-> s.instances, endpoints |-> s.endpoints,
          capabilities |-> s.capabilities, leases |-> s.leases,
          tombstones |-> s.tombstones, invalidations |-> s.invalidations,
          long_history |-> s.long_history, sound |-> s.sound]
  /\ s.epoch \in Nat /\ s.next_boot \in Nat /\ s.next_id \in Nat /\ s.lease_gen \in Nat
  /\ DOMAIN s.catalog = CatalogKind
  /\ \A k \in CatalogKind : IsMap(s.catalog[k], Nat, CatalogDescriptor)
  /\ IsMap(s.services, Nat, ServiceDescriptor)
  /\ IsMap(s.endpoints, Nat, EndpointDescriptor)
  /\ IsMap(s.capabilities, Nat, CapabilityDescriptor)
  /\ IsMap(s.instances, Nat, ServiceInstance)
  /\ IsMap(s.leases, Nat, LeaseDescriptor)
  /\ IsMap(s.tombstones, Nat, TombstoneRecord)
  /\ s.invalidations \subseteq InvalidationRecord
  /\ s.sound \in BOOLEAN

\* What load_from makes of a snapshot, field by field.
LEMMA RecoveredFields ==
  ASSUME NEW s, SnapshotType(s)
  PROVE  Recovered(s) =
           [epoch |-> s.epoch, next_boot |-> s.next_boot, next_id |-> s.next_id,
            lease_gen |-> s.lease_gen, catalog |-> s.catalog, services |-> s.services,
            instances |-> [i \in DOMAIN s.instances |-> RevalidatedInstance(s.instances[i])],
            endpoints |-> [e \in DOMAIN s.endpoints |-> RevalidatedEndpoint(s.endpoints[e])],
            capabilities |-> [c \in DOMAIN s.capabilities |->
                                RevalidatedCapability(s.capabilities[c])],
            leases |-> [l \in DOMAIN s.leases |-> RevalidatedLease(s.leases[l])],
            tombstones |-> s.tombstones, invalidations |-> s.invalidations,
            long_history |-> s.long_history, sound |-> s.sound]
<1> DEFINE ni == [i \in DOMAIN s.instances |-> RevalidatedInstance(s.instances[i])]
           ne == [e \in DOMAIN s.endpoints |-> RevalidatedEndpoint(s.endpoints[e])]
           nc == [c \in DOMAIN s.capabilities |-> RevalidatedCapability(s.capabilities[c])]
           nl == [l \in DOMAIN s.leases |-> RevalidatedLease(s.leases[l])]
           With(i, e, c, l) ==
             [epoch |-> s.epoch, next_boot |-> s.next_boot, next_id |-> s.next_id,
              lease_gen |-> s.lease_gen, catalog |-> s.catalog, services |-> s.services,
              instances |-> i, endpoints |-> e, capabilities |-> c, leases |-> l,
              tombstones |-> s.tombstones, invalidations |-> s.invalidations,
              long_history |-> s.long_history, sound |-> s.sound]
<1>1. Recovered(s) = [s EXCEPT !.instances = ni, !.endpoints = ne,
                               !.capabilities = nc, !.leases = nl]
  BY DEF Recovered, SnapshotType
<1>2. s = With(s.instances, s.endpoints, s.capabilities, s.leases)
  BY DEF SnapshotType
<1> HIDE DEF ni, ne, nc, nl
<1> DEFINE si == s.instances
           se == s.endpoints
           sc == s.capabilities
           sl == s.leases
<1> HIDE DEF si, se, sc, sl
<1>3. s = With(si, se, sc, sl)
  BY <1>2 DEF si, se, sc, sl
<1>4. [With(si, se, sc, sl) EXCEPT !.instances = ni] = With(ni, se, sc, sl)
  OBVIOUS
<1>5. [With(ni, se, sc, sl) EXCEPT !.endpoints = ne] = With(ni, ne, sc, sl)
  OBVIOUS
<1>6. [With(ni, ne, sc, sl) EXCEPT !.capabilities = nc] = With(ni, ne, nc, sl)
  OBVIOUS
<1>7. [With(ni, ne, nc, sl) EXCEPT !.leases = nl] = With(ni, ne, nc, nl)
  OBVIOUS
<1> HIDE DEF With
<1>8. [s EXCEPT !.instances = ni, !.endpoints = ne, !.capabilities = nc, !.leases = nl] =
        With(ni, ne, nc, nl)
  BY <1>3, <1>4, <1>5, <1>6, <1>7, Zenon
<1>9. QED
  BY <1>1, <1>8 DEF ni, ne, nc, nl, With

\* A recovered snapshot is a snapshot.
LEMMA RecoveredType ==
  ASSUME NEW s, SnapshotType(s)
  PROVE  SnapshotType(Recovered(s))
<1> DEFINE r == Recovered(s)
<1>1. /\ r.epoch = s.epoch /\ r.next_boot = s.next_boot /\ r.next_id = s.next_id
      /\ r.lease_gen = s.lease_gen /\ r.catalog = s.catalog /\ r.services = s.services
      /\ r.instances = [i \in DOMAIN s.instances |-> RevalidatedInstance(s.instances[i])]
      /\ r.endpoints = [e \in DOMAIN s.endpoints |-> RevalidatedEndpoint(s.endpoints[e])]
      /\ r.capabilities = [c \in DOMAIN s.capabilities |->
                             RevalidatedCapability(s.capabilities[c])]
      /\ r.leases = [l \in DOMAIN s.leases |-> RevalidatedLease(s.leases[l])]
      /\ r.tombstones = s.tombstones /\ r.invalidations = s.invalidations
      /\ r.long_history = s.long_history /\ r.sound = s.sound
  BY RecoveredFields
<1>2. r = [epoch |-> r.epoch, next_boot |-> r.next_boot, next_id |-> r.next_id,
           lease_gen |-> r.lease_gen, catalog |-> r.catalog, services |-> r.services,
           instances |-> r.instances, endpoints |-> r.endpoints,
           capabilities |-> r.capabilities, leases |-> r.leases,
           tombstones |-> r.tombstones, invalidations |-> r.invalidations,
           long_history |-> r.long_history, sound |-> r.sound]
  BY RecoveredFields
<1> HIDE DEF r
<1>3. IsMap(r.instances, Nat, ServiceInstance)
  BY <1>1, RevalidatedType DEF SnapshotType, IsMap
<1>4. IsMap(r.endpoints, Nat, EndpointDescriptor)
  BY <1>1, RevalidatedType DEF SnapshotType, IsMap
<1>5. IsMap(r.capabilities, Nat, CapabilityDescriptor)
  BY <1>1, RevalidatedType DEF SnapshotType, IsMap
<1>6. IsMap(r.leases, Nat, LeaseDescriptor)
  BY <1>1, RevalidatedType DEF SnapshotType, IsMap
<1>7. SnapshotType(r)
  BY <1>1, <1>2, <1>3, <1>4, <1>5, <1>6 DEF SnapshotType
<1>8. QED
  BY <1>7 DEF r

\* What is half read is typed as well.
LEMMA PartlyReadType ==
  ASSUME NEW s, SnapshotType(s)
  PROVE  LET p == PartlyRead(s) IN
         /\ DOMAIN p.catalog = CatalogKind
         /\ \A k \in CatalogKind : IsMap(p.catalog[k], Nat, CatalogDescriptor)
         /\ IsMap(p.services, Nat, ServiceDescriptor)
         /\ IsMap(p.endpoints, Nat, EndpointDescriptor)
         /\ IsMap(p.capabilities, Nat, CapabilityDescriptor)
         /\ IsMap(p.instances, Nat, ServiceInstance)
         /\ IsMap(p.leases, Nat, LeaseDescriptor)
         /\ IsMap(p.tombstones, Nat, TombstoneRecord)
         /\ p.invalidations \subseteq InvalidationRecord
<1> DEFINE p == PartlyRead(s)
           firsts == {j \in DOMAIN s.instances : j < Min(Unreadable(s))}
           read == [i \in firsts |-> s.instances[i]]
<1>1. CASE Unreadable(s) = {}
  <2>1. /\ p.catalog = s.catalog /\ p.services = s.services /\ p.endpoints = s.endpoints
        /\ p.capabilities = s.capabilities /\ p.instances = s.instances
        /\ p.leases = s.leases /\ p.tombstones = s.tombstones
        /\ p.invalidations = s.invalidations
    BY <1>1 DEF PartlyRead, SnapshotType
  <2> HIDE DEF p
  <2>2. QED
    BY <2>1 DEF SnapshotType, p
<1>2. CASE Unreadable(s) # {}
  <2>0. p = [s EXCEPT !.instances = read, !.catalog = [k \in CatalogKind |-> EmptyMap],
               !.endpoints = EmptyMap, !.capabilities = EmptyMap, !.leases = EmptyMap,
               !.tombstones = EmptyMap, !.invalidations = {}, !.long_history = FALSE]
    BY <1>2 DEF PartlyRead, SnapshotType
  <2> HIDE DEF p, read
  <2>1. /\ p.catalog = [k \in CatalogKind |-> EmptyMap] /\ p.services = s.services
        /\ p.endpoints = EmptyMap /\ p.capabilities = EmptyMap /\ p.instances = read
        /\ p.leases = EmptyMap /\ p.tombstones = EmptyMap /\ p.invalidations = {}
    BY <2>0 DEF SnapshotType
  <2>2. IsMap(read, Nat, ServiceInstance)
    BY DEF read, SnapshotType, IsMap
  <2>3. IsMap(s.services, Nat, ServiceDescriptor)
    BY DEF SnapshotType
  <2>4. QED
    BY <2>1, <2>2, <2>3, EmptyIsMap DEF p
<1>3. QED
  BY <1>1, <1>2

\* To revalidate twice is to revalidate once.
LEMMA RevalidatedTwice ==
  /\ \A inst \in ServiceInstance :
       RevalidatedInstance(RevalidatedInstance(inst)) = RevalidatedInstance(inst)
  /\ \A ep \in EndpointDescriptor :
       RevalidatedEndpoint(RevalidatedEndpoint(ep)) = RevalidatedEndpoint(ep)
  /\ \A cap \in CapabilityDescriptor :
       RevalidatedCapability(RevalidatedCapability(cap)) = RevalidatedCapability(cap)
  /\ \A lease \in LeaseDescriptor :
       RevalidatedLease(RevalidatedLease(lease)) = RevalidatedLease(lease)
<1>1. ASSUME NEW inst \in ServiceInstance
      PROVE  RevalidatedInstance(RevalidatedInstance(inst)) = RevalidatedInstance(inst)
  BY DEF RevalidatedInstance, ServiceInstance
<1>2. ASSUME NEW ep \in EndpointDescriptor
      PROVE  RevalidatedEndpoint(RevalidatedEndpoint(ep)) = RevalidatedEndpoint(ep)
  BY DEF RevalidatedEndpoint, EndpointDescriptor
<1>3. ASSUME NEW cap \in CapabilityDescriptor
      PROVE  RevalidatedCapability(RevalidatedCapability(cap)) = RevalidatedCapability(cap)
  BY DEF RevalidatedCapability, CapabilityDescriptor
<1>4. ASSUME NEW lease \in LeaseDescriptor
      PROVE  RevalidatedLease(RevalidatedLease(lease)) = RevalidatedLease(lease)
  BY DEF RevalidatedLease, LeaseDescriptor
<1>5. QED
  BY <1>1, <1>2, <1>3, <1>4

LEMMA RecoveredTwice ==
  ASSUME NEW s, SnapshotType(s)
  PROVE  Recovered(Recovered(s)) = Recovered(s)
<1> DEFINE r == Recovered(s)
           t == Recovered(r)
<1>1. SnapshotType(r)
  BY RecoveredType
<1>2. r = [epoch |-> s.epoch, next_boot |-> s.next_boot, next_id |-> s.next_id,
           lease_gen |-> s.lease_gen, catalog |-> s.catalog, services |-> s.services,
           instances |-> [i \in DOMAIN s.instances |-> RevalidatedInstance(s.instances[i])],
           endpoints |-> [e \in DOMAIN s.endpoints |-> RevalidatedEndpoint(s.endpoints[e])],
           capabilities |-> [c \in DOMAIN s.capabilities |->
                               RevalidatedCapability(s.capabilities[c])],
           leases |-> [l \in DOMAIN s.leases |-> RevalidatedLease(s.leases[l])],
           tombstones |-> s.tombstones, invalidations |-> s.invalidations,
           long_history |-> s.long_history, sound |-> s.sound]
  BY RecoveredFields
<1> HIDE DEF r
<1>3. t = [epoch |-> r.epoch, next_boot |-> r.next_boot, next_id |-> r.next_id,
           lease_gen |-> r.lease_gen, catalog |-> r.catalog, services |-> r.services,
           instances |-> [i \in DOMAIN r.instances |-> RevalidatedInstance(r.instances[i])],
           endpoints |-> [e \in DOMAIN r.endpoints |-> RevalidatedEndpoint(r.endpoints[e])],
           capabilities |-> [c \in DOMAIN r.capabilities |->
                               RevalidatedCapability(r.capabilities[c])],
           leases |-> [l \in DOMAIN r.leases |-> RevalidatedLease(r.leases[l])],
           tombstones |-> r.tombstones, invalidations |-> r.invalidations,
           long_history |-> r.long_history, sound |-> r.sound]
  BY <1>1, RecoveredFields
<1>4. [i \in DOMAIN r.instances |-> RevalidatedInstance(r.instances[i])] = r.instances
  BY <1>2, RevalidatedTwice DEF SnapshotType, IsMap
<1>5. [e \in DOMAIN r.endpoints |-> RevalidatedEndpoint(r.endpoints[e])] = r.endpoints
  BY <1>2, RevalidatedTwice DEF SnapshotType, IsMap
<1>6. [c \in DOMAIN r.capabilities |-> RevalidatedCapability(r.capabilities[c])] = r.capabilities
  BY <1>2, RevalidatedTwice DEF SnapshotType, IsMap
<1>7. [l \in DOMAIN r.leases |-> RevalidatedLease(r.leases[l])] = r.leases
  BY <1>2, RevalidatedTwice DEF SnapshotType, IsMap
<1>8. t = [epoch |-> r.epoch, next_boot |-> r.next_boot, next_id |-> r.next_id,
           lease_gen |-> r.lease_gen, catalog |-> r.catalog, services |-> r.services,
           instances |-> r.instances, endpoints |-> r.endpoints,
           capabilities |-> r.capabilities, leases |-> r.leases,
           tombstones |-> r.tombstones, invalidations |-> r.invalidations,
           long_history |-> r.long_history, sound |-> r.sound]
  BY <1>3, <1>4, <1>5, <1>6, <1>7
<1>9. t = r
  BY <1>1, <1>8 DEF SnapshotType
<1>10. QED
  BY <1>9 DEF r

-----------------------------------------------------------------------------
(* The inductive invariant                                                 *)

\* The allocator n is ahead of the ids of m that no caller chose.
Ahead(m, inputs, n) == \A id \in Allocated(m, inputs) : id < n
AllAhead(insts, eps, caps, ls, ts, n) ==
  /\ Ahead(insts, InstanceInputs, n) /\ Ahead(eps, EndpointInputs, n)
  /\ Ahead(caps, CapabilityInputs, n) /\ Ahead(ls, LeaseInputs, n)
  /\ Ahead(ts, TombstoneInputs, n)

\* A snapshot that was not saved in a damaged state can be recovered.
SnapshotResolves(s) ==
  /\ \A i \in DOMAIN s.instances : /\ s.instances[i].service_id \in DOMAIN s.services
                                   /\ Range(s.instances[i].endpoints) \subseteq DOMAIN s.endpoints
  /\ RuntimesResolve(s.catalog)
  /\ AllAhead(s.instances, s.endpoints, s.capabilities, s.leases, s.tombstones, s.next_id)

FileSound(s) ==
  s # NoSnapshot =>
    /\ SnapshotType(s) /\ s.next_boot >= FirstBoot
    /\ s.sound => SnapshotResolves(s)
DiskSound ==
  /\ disk = [f \in Files |-> disk[f]]
  /\ \A f \in Files : FileSound(disk[f])

\* The boots that are live were issued after the recovery.
FloorSound ==
  /\ floor \in Nat /\ floor <= next_boot
  /\ \A b \in live_boots : b > floor

RecoveryInv ==
  /\ TypeOK /\ AuthorityConsistent /\ damaged \in BOOLEAN
  /\ DiskSound /\ FloorSound
  /\ WholeServes /\ WholeResolves /\ AllocatorAhead

LEMMA AheadParts ==
  AllocatorAhead <=>
    (~damaged => AllAhead(instances, endpoints, capabilities, leases, tombstones, next_id))
BY DEF AllocatorAhead, AllAhead, Ahead

\* An empty registry, the first one and that of every new process.
Fresh ==
  /\ TypeOK /\ AuthorityConsistent /\ ServingIsLive /\ RecordsResolve
  /\ AllAhead(instances, endpoints, capabilities, leases, tombstones, next_id)
  /\ next_boot = FirstBoot /\ live_boots = {}

LEMMA EmptyRegistry == Init => Fresh
<1> SUFFICES ASSUME Init PROVE Fresh
  OBVIOUS
<1>1. DOMAIN EmptyMap = {}
  BY EmptyIsMap
<1>2. TypeOK /\ AuthorityConsistent
  BY TypeInit, AuthorityInit
<1>3. ServingIsLive
  BY <1>1 DEF Init, ServingIsLive
<1>4. RecordsResolve
  BY <1>1 DEF Init, RecordsResolve, CatalogKind
<1>5. AllAhead(instances, endpoints, capabilities, leases, tombstones, next_id)
  BY <1>1 DEF Init, AllAhead, Ahead, Allocated
<1>6. QED
  BY <1>2, <1>3, <1>4, <1>5 DEF Init, Fresh

LEMMA RecoveryInitial == RecoveryInit => RecoveryInv
<1> SUFFICES ASSUME RecoveryInit PROVE RecoveryInv
  OBVIOUS
<1>1. Init /\ disk = [f \in Files |-> NoSnapshot] /\ floor = FirstBoot /\ damaged = FALSE
  BY DEF RecoveryInit
<1>2. FloorSound
  BY <1>1, EmptyRegistry, BoundsAssumption DEF FloorSound, Fresh
<1>3. AllocatorAhead
  BY <1>1, EmptyRegistry, AheadParts DEF Fresh
<1>4. DiskSound
  BY <1>1 DEF DiskSound, FileSound
<1>5. QED
  BY <1>1, <1>2, <1>3, <1>4, EmptyRegistry
     DEF RecoveryInv, WholeServes, WholeResolves, Fresh

-----------------------------------------------------------------------------
(* Operations of the registry                                              *)

\* A new boot is above every boot issued before (adopt_worker).
LEMMA BootsIssued ==
  ASSUME TypeOK, [Next]_vars
  PROVE  /\ next_boot' >= next_boot
         /\ live_boots' \subseteq live_boots \cup {next_boot + 1}
<1>1. next_boot \in Nat
  BY DEF TypeOK
<1>2. CASE begin_coordinator_epoch
  BY <1>1, <1>2 DEF begin_coordinator_epoch, ClearAuthority
<1>3. ASSUME NEW w, adopt_worker(w)
      PROVE  next_boot' = next_boot + 1 /\ live_boots' \subseteq live_boots \cup {next_boot + 1}
  BY <1>3 DEF adopt_worker
<1>4. ASSUME NEW b, mark_worker_died(b)
      PROVE  next_boot' = next_boot /\ live_boots' \subseteq live_boots
  BY <1>4 DEF mark_worker_died
<1>5. CASE UNCHANGED authority
  BY <1>1, <1>5 DEF authority
<1>6. QED
  BY <1>1, <1>2, <1>3, <1>4, <1>5, AuthorityFrame DEF Next, AuthorityNext

\* An id the allocator handed out is below what it will hand out next.
LEMMA AheadStep ==
  ASSUME TypeOK, [Next]_vars, NEW m, DOMAIN m \subseteq Nat, NEW n, NEW inputs,
         Ahead(m, inputs, next_id), Adds(m, n, inputs)
  PROVE  Ahead(n, inputs, next_id')
<1>1. next_id \in Nat /\ next_id' \in Nat /\ next_id' >= next_id
  BY NextIdAdvances, TypeNext DEF TypeOK
<1>2. CASE DOMAIN n = DOMAIN m
  BY <1>1, <1>2 DEF Ahead, Allocated
<1>3. CASE \E in \in inputs : TakeId(in.id) /\ DOMAIN n = DOMAIN m \cup {IdOf(in.id)}
  <2>1. PICK in \in inputs : TakeId(in.id) /\ DOMAIN n = DOMAIN m \cup {IdOf(in.id)}
    BY <1>3
  <2>2. ASSUME NEW id \in Allocated(n, inputs)
        PROVE  id < next_id'
    <3>1. CASE id \in DOMAIN m
      BY <1>1, <2>2, <3>1 DEF Ahead, Allocated
    <3>2. CASE id = IdOf(in.id)
      <4>1. in.id = None /\ id = next_id
        BY <2>2, <3>2 DEF Allocated, IdOf
      <4>2. QED
        BY <1>1, <2>1, <4>1 DEF TakeId
    <3>3. QED
      BY <2>1, <2>2, <3>1, <3>2 DEF Allocated
  <2>3. QED
    BY <2>2 DEF Ahead
<1>4. QED
  BY <1>2, <1>3 DEF Adds

LEMMA OperateKeeps ==
  ASSUME RecoveryInv, [Next]_vars, UNCHANGED <<disk, floor, damaged>>
  PROVE  RecoveryInv'
<1>1. TypeOK' /\ AuthorityConsistent'
  BY TypeNext, AuthorityStep DEF RecoveryInv
<1>2. WholeServes' /\ WholeResolves'
  BY ServingStep, RecordsStep DEF RecoveryInv, WholeServes, WholeResolves
<1>3. DiskSound'
  BY DEF RecoveryInv, DiskSound
<1>4. FloorSound'
  <2>1. floor \in Nat /\ next_boot \in Nat /\ next_boot' \in Nat
    BY <1>1 DEF RecoveryInv, FloorSound, TypeOK
  <2>2. QED
    BY <2>1, BootsIssued DEF RecoveryInv, FloorSound
<1>5. AllocatorAhead'
  <2> SUFFICES ASSUME ~damaged
               PROVE  AllAhead(instances', endpoints', capabilities', leases', tombstones', next_id')
    BY AheadParts DEF AllocatorAhead, AllAhead, Ahead
  <2>1. TypeOK /\ AllAhead(instances, endpoints, capabilities, leases, tombstones, next_id)
    BY AheadParts DEF RecoveryInv
  <2>2. /\ DOMAIN instances \subseteq Nat /\ DOMAIN endpoints \subseteq Nat
        /\ DOMAIN capabilities \subseteq Nat /\ DOMAIN leases \subseteq Nat
        /\ DOMAIN tombstones \subseteq Nat
    BY <2>1 DEF TypeOK, IsMap
  <2>3. QED
    BY <2>1, <2>2, KeysAdded, AheadStep DEF AllAhead
<1>6. QED
  BY <1>1, <1>2, <1>3, <1>4, <1>5 DEF RecoveryInv

-----------------------------------------------------------------------------
(* Saving, restarting and loading                                          *)

\* What is written is a snapshot, one that can be recovered unless the
\* registry is damaged.
LEMMA SerializeSound ==
  ASSUME RecoveryInv
  PROVE  /\ SnapshotType(serialize) /\ serialize.next_boot >= FirstBoot
         /\ serialize.sound => SnapshotResolves(serialize)
<1> DEFINE s == serialize
<1>1. /\ s.epoch = epoch /\ s.next_boot = next_boot /\ s.next_id = next_id
      /\ s.lease_gen = lease_gen /\ s.catalog = catalog /\ s.services = services
      /\ s.instances = instances /\ s.endpoints = endpoints
      /\ s.capabilities = capabilities /\ s.leases = leases /\ s.tombstones = tombstones
      /\ s.invalidations = invalidations /\ s.long_history = long_history
      /\ s.sound = ~damaged
  BY DEF serialize
<1>2. s = [epoch |-> s.epoch, next_boot |-> s.next_boot, next_id |-> s.next_id,
           lease_gen |-> s.lease_gen, catalog |-> s.catalog, services |-> s.services,
           instances |-> s.instances, endpoints |-> s.endpoints,
           capabilities |-> s.capabilities, leases |-> s.leases,
           tombstones |-> s.tombstones, invalidations |-> s.invalidations,
           long_history |-> s.long_history, sound |-> s.sound]
  BY DEF serialize
<1> HIDE DEF s
<1>3. SnapshotType(s)
  BY <1>1, <1>2 DEF RecoveryInv, TypeOK, SnapshotType
<1>4. s.next_boot >= FirstBoot
  BY <1>1 DEF RecoveryInv, AuthorityConsistent
<1>5. ASSUME ~damaged
      PROVE  SnapshotResolves(s)
  <2>1. AllAhead(instances, endpoints, capabilities, leases, tombstones, next_id)
    BY <1>5, AheadParts DEF RecoveryInv
  <2>2. LinksResolve(instances, endpoints) /\ RuntimesResolve(catalog)
    BY <1>5, RecordsParts DEF RecoveryInv, WholeResolves
  <2>3. QED
    BY <1>1, <2>1, <2>2 DEF SnapshotResolves, LinksResolve
<1>6. QED
  BY <1>1, <1>3, <1>4, <1>5 DEF s

LEMMA SaveKeeps ==
  ASSUME RecoveryInv, NEW f \in Files, Save(f)
  PROVE  RecoveryInv'
<1>1. DiskSound'
  <2>1. /\ disk = [g \in Files |-> disk[g]] /\ disk' = [disk EXCEPT ![f] = serialize]
        /\ \A g \in Files : FileSound(disk[g])
    BY DEF RecoveryInv, DiskSound, Save
  <2>2. FileSound(serialize)
    BY SerializeSound DEF FileSound
  <2>3. disk' = [g \in Files |-> disk'[g]] /\ \A g \in Files : disk'[g] \in {disk[g], serialize}
    BY <2>1
  <2>4. \A g \in Files : FileSound(disk'[g])
    BY <2>1, <2>2, <2>3
  <2>5. QED
    BY <2>3, <2>4 DEF DiskSound, FileSound
<1>2. UNCHANGED <<vars, floor, damaged>>
  BY DEF Save
<1>3. TypeOK' /\ AuthorityConsistent' /\ WholeServes' /\ WholeResolves'
  BY <1>2, TypeNext, AuthorityStep, ServingStep, RecordsStep
     DEF RecoveryInv, WholeServes, WholeResolves
<1>4. FloorSound' /\ AllocatorAhead'
  BY <1>2 DEF RecoveryInv, FloorSound, AllocatorAhead, vars, authority
<1>5. QED
  BY <1>1, <1>2, <1>3, <1>4 DEF RecoveryInv

\* A new process is what Init describes.
LEMMA RestartKeeps == RecoveryInv /\ Restart => RecoveryInv'
<1> SUFFICES ASSUME RecoveryInv, Restart PROVE RecoveryInv'
  OBVIOUS
<1>1. Init' /\ floor' = FirstBoot /\ damaged' = FALSE /\ disk' = disk
  BY DEF Restart, Init
<1>2. Fresh'
  BY <1>1, EmptyRegistry, PTL
<1>3. FloorSound'
  BY <1>1, <1>2, BoundsAssumption DEF FloorSound, Fresh
<1>4. AllocatorAhead'
  BY <1>2 DEF AllocatorAhead, AllAhead, Ahead, Fresh
<1>5. DiskSound'
  BY <1>1 DEF RecoveryInv, DiskSound
<1>6. QED
  BY <1>1, <1>2, <1>3, <1>4, <1>5 DEF RecoveryInv, WholeServes, WholeResolves, Fresh

\* Nothing that comes back from a snapshot serves.
LEMMA RevalidatedIdle ==
  ASSUME NEW inst \in ServiceInstance
  PROVE  RevalidatedInstance(inst).lifecycle \notin {"AVAILABLE", "DEGRADED"}
BY DEF RevalidatedInstance, ServiceInstance

\* The registry a snapshot is loaded into, field by field (load_from).
LEMMA LoadedFields ==
  ASSUME NEW f \in Files, SnapshotType(disk[f]), load_from(f)
  PROVE  /\ epoch' = disk[f].epoch /\ next_boot' = disk[f].next_boot /\ next_id' = disk[f].next_id
         /\ lease_gen' = disk[f].lease_gen /\ catalog' = disk[f].catalog /\ services' = disk[f].services
         /\ instances' = [i \in DOMAIN disk[f].instances |-> RevalidatedInstance(disk[f].instances[i])]
         /\ endpoints' = [e \in DOMAIN disk[f].endpoints |-> RevalidatedEndpoint(disk[f].endpoints[e])]
         /\ capabilities' = [c \in DOMAIN disk[f].capabilities |->
                               RevalidatedCapability(disk[f].capabilities[c])]
         /\ leases' = [l \in DOMAIN disk[f].leases |-> RevalidatedLease(disk[f].leases[l])]
         /\ tombstones' = disk[f].tombstones /\ invalidations' = disk[f].invalidations
         /\ live_boots' = {} /\ current_boot' = EmptyMap /\ boot_worker' = EmptyMap
         /\ index_by_service' = rebuild_indexes(instances')
         /\ floor' = disk[f].next_boot /\ damaged' = ~disk[f].sound /\ disk' = disk
<1> DEFINE r == Recovered(disk[f])
<1>1. /\ r.epoch = disk[f].epoch /\ r.next_boot = disk[f].next_boot /\ r.next_id = disk[f].next_id
      /\ r.lease_gen = disk[f].lease_gen /\ r.catalog = disk[f].catalog /\ r.services = disk[f].services
      /\ r.instances = [i \in DOMAIN disk[f].instances |-> RevalidatedInstance(disk[f].instances[i])]
      /\ r.endpoints = [e \in DOMAIN disk[f].endpoints |-> RevalidatedEndpoint(disk[f].endpoints[e])]
      /\ r.capabilities = [c \in DOMAIN disk[f].capabilities |->
                             RevalidatedCapability(disk[f].capabilities[c])]
      /\ r.leases = [l \in DOMAIN disk[f].leases |-> RevalidatedLease(disk[f].leases[l])]
      /\ r.tombstones = disk[f].tombstones /\ r.invalidations = disk[f].invalidations
      /\ r.sound = disk[f].sound
  BY RecoveredFields
<1> HIDE DEF r
<1>2. /\ ReadInto(r) /\ epoch' = r.epoch /\ next_boot' = r.next_boot
      /\ next_id' = r.next_id /\ lease_gen' = r.lease_gen /\ ForgetProcesses
      /\ index_by_service' = RecoveredIndex(r.instances)
      /\ floor' = disk[f].next_boot /\ damaged' = ~disk[f].sound /\ disk' = disk
  BY DEF load_from, r
<1>3. QED
  BY <1>1, <1>2 DEF ReadInto, ForgetProcesses, RecoveredIndex

LEMMA LoadKeeps ==
  ASSUME RecoveryInv, NEW f \in Files, load_from(f)
  PROVE  /\ RecoveryInv'
         /\ disk[f].sound => ~damaged' /\ ServingIsLive' /\ RecordsResolve'
<1>1. /\ SnapshotType(disk[f]) /\ disk[f].next_boot >= FirstBoot
      /\ disk[f].sound => SnapshotResolves(disk[f])
  BY DEF RecoveryInv, DiskSound, FileSound, load_from
<1>2. /\ epoch' = disk[f].epoch /\ next_boot' = disk[f].next_boot /\ next_id' = disk[f].next_id
      /\ lease_gen' = disk[f].lease_gen /\ catalog' = disk[f].catalog /\ services' = disk[f].services
      /\ instances' = [i \in DOMAIN disk[f].instances |-> RevalidatedInstance(disk[f].instances[i])]
      /\ endpoints' = [e \in DOMAIN disk[f].endpoints |-> RevalidatedEndpoint(disk[f].endpoints[e])]
      /\ capabilities' = [c \in DOMAIN disk[f].capabilities |->
                            RevalidatedCapability(disk[f].capabilities[c])]
      /\ leases' = [l \in DOMAIN disk[f].leases |-> RevalidatedLease(disk[f].leases[l])]
      /\ tombstones' = disk[f].tombstones /\ invalidations' = disk[f].invalidations
      /\ live_boots' = {} /\ current_boot' = EmptyMap /\ boot_worker' = EmptyMap
      /\ index_by_service' = rebuild_indexes(instances')
      /\ floor' = disk[f].next_boot /\ damaged' = ~disk[f].sound /\ disk' = disk
  BY <1>1, LoadedFields
<1>3. /\ IsMap(disk[f].instances, Nat, ServiceInstance)
      /\ IsMap(disk[f].endpoints, Nat, EndpointDescriptor)
      /\ IsMap(disk[f].capabilities, Nat, CapabilityDescriptor)
      /\ IsMap(disk[f].leases, Nat, LeaseDescriptor)
      /\ disk[f].sound \in BOOLEAN /\ disk[f].next_boot \in Nat
  BY <1>1 DEF SnapshotType
<1>4. /\ IsMap(instances', Nat, ServiceInstance) /\ IsMap(endpoints', Nat, EndpointDescriptor)
      /\ IsMap(capabilities', Nat, CapabilityDescriptor)
      /\ IsMap(leases', Nat, LeaseDescriptor)
  BY <1>2, <1>3, RevalidatedType DEF IsMap
<1>5. TypeOK'
  BY <1>1, <1>2, <1>4, EmptyIsMap DEF SnapshotType, TypeOK
<1>6. AuthorityConsistent'
  BY <1>1, <1>2, EmptyIsMap DEF AuthorityConsistent
<1>7. WholeServes'
  <2>1. \A i \in DOMAIN instances' : instances'[i].lifecycle \notin {"AVAILABLE", "DEGRADED"}
    BY <1>2, <1>3, RevalidatedIdle DEF IsMap
  <2>2. QED
    BY <2>1 DEF WholeServes, ServingIsLive, Serving
<1>8. ASSUME disk[f].sound
      PROVE  RecordsResolve'
  <2>1. SameLinks(disk[f].instances, instances')
    BY <1>2, <1>3, RevalidatedLinks
  <2>2. \A i \in DOMAIN instances' :
          /\ instances'[i].service_id \in DOMAIN services'
          /\ Range(instances'[i].endpoints) \subseteq DOMAIN endpoints'
    BY <1>1, <1>2, <1>8, <2>1 DEF SnapshotResolves, SameLinks
  <2>3. RuntimesResolve(catalog')
    BY <1>1, <1>2, <1>8 DEF SnapshotResolves
  <2>4. QED
    BY <1>2, <2>2, <2>3 DEF RecordsResolve, RuntimesResolve
<1>9. ASSUME disk[f].sound
      PROVE  AllAhead(instances', endpoints', capabilities', leases', tombstones', next_id')
  <2>1. /\ DOMAIN instances' = DOMAIN disk[f].instances /\ DOMAIN endpoints' = DOMAIN disk[f].endpoints
        /\ DOMAIN capabilities' = DOMAIN disk[f].capabilities
        /\ DOMAIN leases' = DOMAIN disk[f].leases /\ tombstones' = disk[f].tombstones
        /\ next_id' = disk[f].next_id
    BY <1>2
  <2>2. QED
    BY <1>1, <1>9, <2>1 DEF SnapshotResolves, AllAhead, Ahead, Allocated
<1>10. FloorSound' /\ DiskSound' /\ damaged' \in BOOLEAN
  <2>1. DiskSound'
    BY <1>2 DEF RecoveryInv, DiskSound, FileSound
  <2>2. FloorSound'
    BY <1>2, <1>3 DEF FloorSound
  <2>3. QED
    BY <1>2, <2>1, <2>2
<1>11. ~damaged' <=> disk[f].sound
  BY <1>2, <1>3
<1>12. WholeResolves' /\ AllocatorAhead'
  BY <1>8, <1>9, <1>11 DEF WholeResolves, AllocatorAhead, AllAhead, Ahead
<1>13. disk[f].sound => ~damaged' /\ ServingIsLive' /\ RecordsResolve'
  BY <1>7, <1>8, <1>11 DEF WholeServes
<1>14. QED
  BY <1>5, <1>6, <1>7, <1>10, <1>12, <1>13 DEF RecoveryInv

\* A load that fails leaves typed records and the authority it found; about
\* the records nothing else is claimed.
LEMMA FailureKeeps ==
  ASSUME RecoveryInv, NEW f \in Files, load_fails(f)
  PROVE  RecoveryInv'
<1>1. SnapshotType(disk[f])
  BY DEF RecoveryInv, DiskSound, FileSound, load_fails
<1> DEFINE p == PartlyRead(disk[f])
<1>2. /\ DOMAIN p.catalog = CatalogKind
      /\ \A k \in CatalogKind : IsMap(p.catalog[k], Nat, CatalogDescriptor)
      /\ IsMap(p.services, Nat, ServiceDescriptor)
      /\ IsMap(p.endpoints, Nat, EndpointDescriptor)
      /\ IsMap(p.capabilities, Nat, CapabilityDescriptor)
      /\ IsMap(p.instances, Nat, ServiceInstance)
      /\ IsMap(p.leases, Nat, LeaseDescriptor)
      /\ IsMap(p.tombstones, Nat, TombstoneRecord)
      /\ p.invalidations \subseteq InvalidationRecord
  BY <1>1, PartlyReadType
<1> HIDE DEF p
<1>3. /\ ReadInto(p) /\ damaged' = TRUE
      /\ UNCHANGED <<authority, next_id, lease_gen, disk, floor>>
  BY DEF load_fails, p
<1>4. TypeOK'
  BY <1>2, <1>3 DEF RecoveryInv, TypeOK, ReadInto, authority
<1>5. AuthorityConsistent' /\ FloorSound' /\ DiskSound'
  BY <1>3 DEF RecoveryInv, AuthorityConsistent, FloorSound, DiskSound, authority
<1>6. WholeServes' /\ WholeResolves' /\ AllocatorAhead'
  BY <1>3 DEF WholeServes, WholeResolves, AllocatorAhead
<1>7. QED
  BY <1>3, <1>4, <1>5, <1>6 DEF RecoveryInv

LEMMA RecoveryStep == RecoveryInv /\ [RecoveryNext]_rvars => RecoveryInv'
<1> SUFFICES ASSUME RecoveryInv, [RecoveryNext]_rvars PROVE RecoveryInv'
  OBVIOUS
<1>1. CASE Operate
  BY <1>1, OperateKeeps DEF Operate
<1>2. CASE UNCHANGED rvars
  BY <1>2, OperateKeeps DEF rvars
<1>3. QED
  BY <1>1, <1>2, SaveKeeps, RestartKeeps, LoadKeeps, FailureKeeps DEF RecoveryNext

LEMMA RecoveryInvariant == RecoverySpec => []RecoveryInv
BY RecoveryInitial, RecoveryStep, PTL DEF RecoverySpec

-----------------------------------------------------------------------------
(* Theorems                                                                *)

\* Through saves, restarts, loads and loads that fail, the authority maps
\* agree: a load drops every process and numbers on from the snapshot.
THEOREM RecoveredAuthority == RecoverySpec => []AuthorityConsistent
BY RecoveryInvariant, PTL DEF RecoveryInv

\* What serves after a recovery serves under a live incarnation (load_from).
THEOREM RecoveredServing == RecoverySpec => []WholeServes
BY RecoveryInvariant, PTL DEF RecoveryInv

\* A load that succeeds repairs what a load that failed left behind: whatever
\* state the registry is in, after it has loaded a file that a sound registry
\* saved nothing serves without a live incarnation, the records name each other
\* and the index fits them (load_from clears every map and the process authority
\* and calls rebuild_indexes).
THEOREM LoadRepairs ==
  RecoverySpec =>
    [][\A f \in Files :
         load_from(f) /\ disk[f].sound => ~damaged' /\ ServingIsLive' /\ RecordsResolve']_rvars
<1>1. RecoveryInv => \A f \in Files :
        load_from(f) /\ disk[f].sound => ~damaged' /\ ServingIsLive' /\ RecordsResolve'
  <2> SUFFICES ASSUME RecoveryInv, NEW f \in Files, load_from(f), disk[f].sound
               PROVE  ~damaged' /\ ServingIsLive' /\ RecordsResolve'
    OBVIOUS
  <2>1. QED
    BY LoadKeeps
<1>2. QED
  BY <1>1, RecoveryInvariant, PTL

\* A recovery restores records that name each other and the index they give.
THEOREM RecoveredRecords == RecoverySpec => []WholeResolves
BY RecoveryInvariant, PTL DEF RecoveryInv

\* An instance that came back from a snapshot does not serve under the boot
\* stored in it: what serves has a live boot, and those are above the floor.
THEOREM RecoveredIncarnations == RecoverySpec => []ServedSinceRecovery
<1>1. RecoveryInv => ServedSinceRecovery
  BY DEF RecoveryInv, WholeServes, ServingIsLive, FloorSound, ServedSinceRecovery, is_boot_live
<1>2. QED
  BY <1>1, RecoveryInvariant, PTL

\* To load, save and load again is to load once.
THEOREM RecoveryIdempotent == RecoverySpec => []RoundTripStable
<1>1. RecoveryInv => RoundTripStable
  BY RecoveredTwice DEF RecoveryInv, DiskSound, FileSound, RoundTripStable
<1>2. QED
  BY <1>1, RecoveryInvariant, PTL

\* No id in use that the allocator handed out is handed out again, in this
\* process or after a recovery (next_id_ is saved with the records).
THEOREM RecoveredAllocator == RecoverySpec => []AllocatorAhead
BY RecoveryInvariant, PTL DEF RecoveryInv
-----------------------------------------------------------------------------
(* Stored lifecycles                                                       *)

\* Neither the registry nor a file holds a lifecycle no operation stores.
StoredOnly ==
  /\ AllStored(instances)
  /\ \A f \in Files : disk[f] # NoSnapshot => AllStored(disk[f].instances)

\* A recovery turns a stored lifecycle into one of them.
LEMMA RevalidatedStores ==
  ASSUME NEW insts, IsMap(insts, Nat, ServiceInstance), AllStored(insts)
  PROVE  AllStored([i \in DOMAIN insts |-> RevalidatedInstance(insts[i])])
<1>1. ASSUME NEW inst \in ServiceInstance, inst.lifecycle \in StoredLifecycle
      PROVE  RevalidatedInstance(inst).lifecycle \in StoredLifecycle
  BY <1>1 DEF RevalidatedInstance, ServiceInstance, StoredLifecycle, Lifecycle
<1>2. QED
  BY <1>1 DEF AllStored, IsMap

\* A load that fails keeps a part of the snapshot's instances as they are.
LEMMA PartlyReadStores ==
  ASSUME NEW s, SnapshotType(s), AllStored(s.instances)
  PROVE  AllStored(PartlyRead(s).instances)
<1>1. CASE Unreadable(s) = {}
  BY <1>1 DEF PartlyRead, SnapshotType
<1>2. CASE Unreadable(s) # {}
  <2> DEFINE part == [i \in {j \in DOMAIN s.instances : j < Min(Unreadable(s))} |->
                        s.instances[i]]
  <2>1. PartlyRead(s).instances = part
    BY <1>2 DEF PartlyRead, SnapshotType
  <2>2. QED
    BY <2>1 DEF AllStored
<1>3. QED
  BY <1>1, <1>2

LEMMA StoredOnlyStep == RecoveryInv /\ StoredOnly /\ [RecoveryNext]_rvars => StoredOnly'
<1> SUFFICES ASSUME RecoveryInv, StoredOnly, [RecoveryNext]_rvars PROVE StoredOnly'
  OBVIOUS
<1>1. CASE Operate \/ UNCHANGED rvars
  <2>1. TypeOK /\ AllStored(instances) /\ [Next]_vars /\ disk' = disk
    BY <1>1 DEF RecoveryInv, StoredOnly, Operate, rvars
  <2>2. QED
    BY <2>1, StoredStep DEF StoredOnly
<1>2. ASSUME NEW f \in Files, Save(f)
      PROVE  StoredOnly'
  <2>1. /\ instances' = instances /\ serialize.instances = instances
        /\ disk = [g \in Files |-> disk[g]] /\ disk' = [disk EXCEPT ![f] = serialize]
    BY <1>2 DEF RecoveryInv, DiskSound, Save, serialize, vars
  <2>2. \A g \in Files : disk'[g] \in {disk[g], serialize}
    BY <2>1
  <2>3. AllStored(serialize.instances)
    BY <2>1 DEF StoredOnly
  <2>4. \A g \in Files : disk'[g] # NoSnapshot => AllStored(disk'[g].instances)
    <3> SUFFICES ASSUME NEW g \in Files, disk'[g] # NoSnapshot
                 PROVE  AllStored(disk'[g].instances)
      OBVIOUS
    <3>1. CASE disk'[g] = serialize
      BY <2>3, <3>1
    <3>2. CASE disk'[g] = disk[g]
      BY <3>2 DEF StoredOnly
    <3>3. QED
      BY <2>2, <3>1, <3>2
  <2>5. AllStored(instances)'
    BY <2>1, <2>3
  <2>6. QED
    BY <2>4, <2>5 DEF StoredOnly, AllStored
<1>3. CASE Restart
  <2>1. instances' = EmptyMap /\ disk' = disk
    BY <1>3 DEF Restart
  <2>2. AllStored(instances)'
    BY <2>1, EmptyIsMap DEF AllStored
  <2>3. QED
    BY <2>1, <2>2 DEF StoredOnly, AllStored
<1>4. ASSUME NEW f \in Files, load_from(f)
      PROVE  StoredOnly'
  <2>1. SnapshotType(disk[f]) /\ AllStored(disk[f].instances)
    BY <1>4 DEF load_from, RecoveryInv, DiskSound, FileSound, StoredOnly
  <2>2. /\ instances' = [i \in DOMAIN disk[f].instances |-> RevalidatedInstance(disk[f].instances[i])]
        /\ disk' = disk
    BY <1>4, <2>1, LoadedFields
  <2>3. AllStored(instances')
    BY <2>1, <2>2, RevalidatedStores DEF SnapshotType
  <2>4. QED
    BY <2>1, <2>2, <2>3 DEF StoredOnly
<1>5. ASSUME NEW f \in Files, load_fails(f)
      PROVE  StoredOnly'
  <2>1. SnapshotType(disk[f]) /\ AllStored(disk[f].instances)
    BY <1>5 DEF load_fails, RecoveryInv, DiskSound, FileSound, StoredOnly
  <2>2. instances' = PartlyRead(disk[f]).instances /\ disk' = disk
    BY <1>5 DEF load_fails, ReadInto
  <2>3. QED
    BY <2>1, <2>2, PartlyReadStores DEF StoredOnly
<1>6. QED
  BY <1>1, <1>2, <1>3, <1>4, <1>5 DEF RecoveryNext

\* Nor does a recovery, or one that fails, bring an instance back as TOMBSTONED
\* or INVALIDATED: what LifecyclesStored says of a registry that was never
\* loaded holds of every registry that has only loaded files a registry wrote.
THEOREM RecoveredLifecycles == RecoverySpec => []AllStored(instances)
<1>1. RecoveryInit => StoredOnly
  BY EmptyIsMap DEF RecoveryInit, Init, StoredOnly, AllStored
<1>2. RecoverySpec => []StoredOnly
  BY <1>1, RecoveryInvariant, StoredOnlyStep, PTL DEF RecoverySpec
<1>3. QED
  BY <1>2, PTL DEF StoredOnly
=============================================================================
