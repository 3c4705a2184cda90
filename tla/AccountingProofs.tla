-------------------------- MODULE AccountingProofs --------------------------
(***************************************************************************)
(* The counters of Accounting, for any inputs and any bounds: how many     *)
(* records of each kind there are and how many leases are active, counted  *)
(* with the theorems on finite sets.                                       *)
(*                                                                         *)
(* CountersCoverRecords is not inductive: that a registration with a known *)
(* id adds no record needs that the id 0, which stands for "allocate one", *)
(* is never a key.                                                         *)
(***************************************************************************)
EXTENDS Accounting, RegistryRecords, FiniteSetTheorems

\* The allocator never hands out the id that stands for "none".
NoneUnused ==
  /\ None \notin DOMAIN endpoints /\ None \notin DOMAIN capabilities
  /\ \A k \in {"RuntimeInstanceId", "BackendId", "DeviceId"} : None \notin DOMAIN catalog[k]

RecordsCounted ==
  \A c \in DOMAIN Records :
    IsFiniteSet(DOMAIN Records[c]) /\ Cardinality(DOMAIN Records[c]) <= accounting[c]

Counted ==
  /\ accounting \in [Counters -> Nat] /\ revived \in Nat
  /\ NoneUnused /\ RecordsCounted /\ LeaseCountsBacked

AccountingInv == TypeOK /\ AllocatorsSound /\ Counted

-----------------------------------------------------------------------------
(* Counting                                                                *)

\* A set that did not grow, or that grew by one element and was counted.
Grown(S, T, n, k) ==
  \/ T \subseteq S /\ k >= n
  \/ (\E x : T \subseteq S \cup {x}) /\ k >= n + 1

LEMMA GrownCounted ==
  ASSUME NEW S, NEW T, NEW n \in Nat, NEW k \in Nat,
         IsFiniteSet(S), Cardinality(S) <= n, Grown(S, T, n, k)
  PROVE  IsFiniteSet(T) /\ Cardinality(T) <= k
<1>1. Cardinality(S) \in Nat
  BY FS_CardinalityType
<1>2. CASE T \subseteq S /\ k >= n
  <2>1. IsFiniteSet(T) /\ Cardinality(T) <= Cardinality(S)
    BY <1>2, FS_Subset
  <2>2. Cardinality(T) \in Nat
    BY <2>1, FS_CardinalityType
  <2>3. QED
    BY <1>1, <1>2, <2>1, <2>2
<1>3. ASSUME NEW x, T \subseteq S \cup {x}, k >= n + 1
      PROVE  IsFiniteSet(T) /\ Cardinality(T) <= k
  <2>0. /\ IsFiniteSet(S \cup {x})
        /\ Cardinality(S \cup {x}) = IF x \in S THEN Cardinality(S) ELSE Cardinality(S) + 1
    BY FS_AddElement
  <2>1. IsFiniteSet(S \cup {x}) /\ Cardinality(S \cup {x}) <= Cardinality(S) + 1
    BY <1>1, <2>0
  <2>2. /\ IsFiniteSet(T) /\ Cardinality(T) <= Cardinality(S \cup {x})
        /\ Cardinality(S \cup {x}) \in Nat
    BY <1>3, <2>1, FS_Subset, FS_CardinalityType
  <2>3. Cardinality(T) \in Nat
    BY <2>2, FS_CardinalityType
  <2>4. QED
    BY <1>1, <1>3, <2>1, <2>2, <2>3
<1>4. QED
  BY <1>2, <1>3 DEF Grown

\* Taking away the part E of a finite set.
LEMMA Removed ==
  ASSUME NEW S, IsFiniteSet(S), NEW E \in SUBSET S
  PROVE  /\ IsFiniteSet(E) /\ IsFiniteSet(S \ E)
         /\ Cardinality(S) \in Nat /\ Cardinality(E) \in Nat /\ Cardinality(S \ E) \in Nat
         /\ Cardinality(S \ E) = Cardinality(S) - Cardinality(E)
<1>1. IsFiniteSet(E) /\ IsFiniteSet(S \ E)
  BY FS_Subset
<1>2. Cardinality(E) \in Nat /\ Cardinality(S \ E) \in Nat /\ Cardinality(S) \in Nat
  BY <1>1, FS_CardinalityType
<1>3. Cardinality(E \cup (S \ E)) =
        Cardinality(E) + Cardinality(S \ E) - Cardinality(E \cap (S \ E))
  BY <1>1, FS_Union
<1>4. E \cup (S \ E) = S /\ E \cap (S \ E) = {}
  OBVIOUS
<1>5. Cardinality({}) = 0
  BY FS_EmptySet
<1>6. Cardinality(S) = Cardinality(E) + Cardinality(S \ E) - 0
  BY <1>3, <1>4, <1>5
<1>7. QED
  BY <1>1, <1>2, <1>6

LEMMA CountFacts ==
  ASSUME accounting \in [Counters -> Nat], NEW cs, NEW condition, Count(cs, condition)
  PROVE  /\ accounting' \in [Counters -> Nat] /\ revived' = revived
         /\ \A c \in Counters : accounting'[c] >= accounting[c]
         /\ \A c \in Counters \ cs : accounting'[c] = accounting[c]
         /\ condition => \A c \in Counters \cap cs : accounting'[c] = accounting[c] + 1
BY DEF Count

LEMMA EndedFacts ==
  ASSUME accounting \in [Counters -> Nat], NEW n \in Nat, NEW expires, Ended(n, expires)
  PROVE  /\ accounting' \in [Counters -> Nat] /\ revived' = revived
         /\ \A c \in Counters \ {"active_leases", "expired_leases"} :
              accounting'[c] = accounting[c]
         /\ accounting'.active_leases >= accounting.active_leases - n
         /\ accounting'.expired_leases <= accounting.expired_leases + n
<1> DEFINE a == IF accounting["active_leases"] > n THEN accounting["active_leases"] - n ELSE 0
           x == accounting["expired_leases"] + IF expires THEN n ELSE 0
<1>1. accounting["active_leases"] \in Nat /\ accounting["expired_leases"] \in Nat
  BY DEF Counters
<1>2. a \in Nat /\ a >= accounting["active_leases"] - n
  BY <1>1
<1>3. x \in Nat /\ x <= accounting["expired_leases"] + n
  BY <1>1
<1>4. /\ accounting' = [accounting EXCEPT !["active_leases"] = a, !["expired_leases"] = x]
      /\ revived' = revived
  BY DEF Ended
<1> HIDE DEF a, x
<1>5. QED
  BY <1>2, <1>3, <1>4 DEF Counters

LEMMA RecordNames ==
  /\ DOMAIN Records = Counters \ {"active_leases", "expired_leases"}
  /\ Records["services"] = services /\ Records["service_instances"] = instances
  /\ Records["endpoints"] = endpoints /\ Records["capabilities"] = capabilities
  /\ Records["leases"] = leases
  /\ Records["runtimes"] = catalog["RuntimeId"]
  /\ Records["runtime_instances"] = catalog["RuntimeInstanceId"]
  /\ Records["protocols"] = catalog["ProtocolId"] /\ Records["backends"] = catalog["BackendId"]
  /\ Records["devices"] = catalog["DeviceId"] /\ Records["nodes"] = catalog["NodeId"]
BY DEF Records, Counters

LEMMA CountedStep ==
  ASSUME accounting \in [Counters -> Nat], accounting' \in [Counters -> Nat], RecordsCounted,
         \A c \in DOMAIN Records :
           Grown(DOMAIN Records[c], DOMAIN Records'[c], accounting[c], accounting'[c])
  PROVE  RecordsCounted'
<1>1. DOMAIN Records' = DOMAIN Records /\ DOMAIN Records \subseteq Counters
  BY DEF Records, Counters
<1>2. SUFFICES ASSUME NEW c \in DOMAIN Records
               PROVE  /\ IsFiniteSet(DOMAIN Records'[c])
                      /\ Cardinality(DOMAIN Records'[c]) <= accounting'[c]
  BY <1>1 DEF RecordsCounted
<1>3. /\ accounting[c] \in Nat /\ accounting'[c] \in Nat
      /\ IsFiniteSet(DOMAIN Records[c]) /\ Cardinality(DOMAIN Records[c]) <= accounting[c]
      /\ Grown(DOMAIN Records[c], DOMAIN Records'[c], accounting[c], accounting'[c])
  BY <1>1, <1>2 DEF RecordsCounted
<1>4. QED
  BY <1>3, GrownCounted

\* The same records, or records with the same keys, and no counter that fell.
LEMMA SameKeysCounted ==
  ASSUME AccountingInv, accounting' \in [Counters -> Nat],
         \A c \in DOMAIN Records : accounting'[c] >= accounting[c],
         DOMAIN services' = DOMAIN services, DOMAIN instances' = DOMAIN instances,
         DOMAIN endpoints' = DOMAIN endpoints, DOMAIN capabilities' = DOMAIN capabilities,
         DOMAIN leases' = DOMAIN leases, catalog' = catalog
  PROVE  RecordsCounted'
<1>1. \A c \in DOMAIN Records : DOMAIN Records'[c] = DOMAIN Records[c]
  BY DEF Records
<1>2. QED
  BY <1>1, CountedStep DEF AccountingInv, Counted, Grown

LEMMA ActiveFinite ==
  ASSUME AccountingInv
  PROVE  /\ IsFiniteSet(DOMAIN leases) /\ Cardinality(DOMAIN leases) \in Nat
         /\ Cardinality(DOMAIN leases) <= accounting.leases
         /\ IsFiniteSet(Active) /\ Cardinality(Active) \in Nat
         /\ accounting.leases \in Nat /\ accounting.active_leases \in Nat
         /\ accounting.expired_leases \in Nat /\ revived \in Nat
<1>1. "leases" \in DOMAIN Records /\ Records["leases"] = leases
  BY RecordNames DEF Counters
<1>2. IsFiniteSet(DOMAIN leases) /\ Cardinality(DOMAIN leases) <= accounting["leases"]
  BY <1>1 DEF AccountingInv, Counted, RecordsCounted
<1>3. IsFiniteSet(Active)
  BY <1>2, FS_Subset DEF Active
<1>4. QED
  BY <1>2, <1>3, FS_CardinalityType DEF AccountingInv, Counted, Counters

-----------------------------------------------------------------------------
(* How many leases are active                                              *)

\* Leases end, all of them counted or none of the counters moved.
LEMMA BackedEnded ==
  ASSUME AccountingInv, accounting' \in [Counters -> Nat], revived' = revived,
         NEW E \in SUBSET Active, Active' = Active \ E,
         accounting'.leases = accounting.leases,
         \/ /\ accounting'.active_leases >= accounting.active_leases - Cardinality(E)
            /\ accounting'.expired_leases <= accounting.expired_leases + Cardinality(E)
         \/ /\ accounting'.active_leases = accounting.active_leases
            /\ accounting'.expired_leases = accounting.expired_leases
  PROVE  LeaseCountsBacked'
<1>1. /\ Cardinality(Active) \in Nat /\ Cardinality(E) \in Nat /\ Cardinality(Active') \in Nat
      /\ Cardinality(Active') = Cardinality(Active) - Cardinality(E)
  BY ActiveFinite, Removed
<1>2. /\ accounting'["leases"] \in Nat /\ accounting'["active_leases"] \in Nat
      /\ accounting'["expired_leases"] \in Nat
  BY DEF Counters
<1>3. /\ Cardinality(Active) <= accounting.active_leases + revived
      /\ accounting.expired_leases + Cardinality(Active) <= accounting.leases + revived
  BY DEF AccountingInv, Counted, LeaseCountsBacked
<1>4. /\ Cardinality(Active') <= accounting'.active_leases + revived
      /\ accounting'.expired_leases + Cardinality(Active') <= accounting'.leases + revived
  BY <1>1, <1>2, <1>3, ActiveFinite
<1>5. QED
  BY <1>4 DEF LeaseCountsBacked

\* At most one lease becomes active, and it is counted or a revival.
LEMMA BackedStarted ==
  ASSUME AccountingInv, accounting' \in [Counters -> Nat], revived' \in Nat,
         NEW x, Active' \subseteq Active \cup {x},
         accounting'.expired_leases = accounting.expired_leases,
         \/ /\ accounting'.active_leases >= accounting.active_leases
            /\ accounting'.leases >= accounting.leases /\ revived' >= revived
            /\ Active' \subseteq Active
         \/ /\ accounting'.active_leases >= accounting.active_leases + 1
            /\ accounting'.leases >= accounting.leases + 1 /\ revived' = revived
         \/ /\ accounting'.active_leases = accounting.active_leases
            /\ accounting'.leases = accounting.leases /\ revived' = revived + 1
  PROVE  LeaseCountsBacked'
<1>1. /\ Active' \subseteq Active => Cardinality(Active') <= Cardinality(Active)
      /\ Cardinality(Active') <= Cardinality(Active) + 1 /\ Cardinality(Active') \in Nat
  <2>1. Grown(Active, Active', Cardinality(Active), Cardinality(Active) + 1)
    BY ActiveFinite DEF Grown
  <2>2. IsFiniteSet(Active') /\ Cardinality(Active') <= Cardinality(Active) + 1
    BY <2>1, ActiveFinite, GrownCounted
  <2>3. QED
    BY <2>2, ActiveFinite, FS_Subset, FS_CardinalityType
<1>2. /\ accounting'["leases"] \in Nat /\ accounting'["active_leases"] \in Nat
      /\ accounting'["expired_leases"] \in Nat
  BY DEF Counters
<1>3. /\ Cardinality(Active) <= accounting.active_leases + revived
      /\ accounting.expired_leases + Cardinality(Active) <= accounting.leases + revived
  BY DEF AccountingInv, Counted, LeaseCountsBacked
<1>4. /\ Cardinality(Active') <= accounting'.active_leases + revived'
      /\ accounting'.expired_leases + Cardinality(Active') <= accounting'.leases + revived'
  BY <1>1, <1>2, <1>3, ActiveFinite
<1>5. QED
  BY <1>4 DEF LeaseCountsBacked

\* Losing a boot ends the active leases of its instances, and no other lease.
LEMMA RevokedActive ==
  ASSUME TypeOK, NEW b, leases' = RevokedLeases(b)
  PROVE  /\ DOMAIN leases' = DOMAIN leases
         /\ Active' = Active \ ({instances[i].lease : i \in Orphans(b)} \cap Active)
<1>1. \A l \in DOMAIN leases : leases[l] \in LeaseDescriptor
  BY DEF TypeOK, IsMap
<1>2. \A l \in DOMAIN leases :
        leases'[l].state = IF leases[l].state = "ACTIVE" /\ \E i \in Orphans(b) : instances[i].lease = l
                           THEN "EXPIRED" ELSE leases[l].state
  BY <1>1 DEF RevokedLeases, LeaseDescriptor
<1>3. DOMAIN leases' = DOMAIN leases
  BY DEF RevokedLeases
<1>4. QED
  BY <1>2, <1>3 DEF Active

LEMMA RevalidatedActive ==
  ASSUME TypeOK, leases' = [l \in DOMAIN leases |-> RevalidatedLease(leases[l])]
  PROVE  DOMAIN leases' = DOMAIN leases /\ Active' = {}
<1>1. \A l \in DOMAIN leases : leases[l] \in LeaseDescriptor
  BY DEF TypeOK, IsMap
<1>2. \A l \in DOMAIN leases : leases'[l].state # "ACTIVE"
  BY <1>1 DEF RevalidatedLease, LeaseDescriptor
<1>3. QED
  BY <1>2 DEF Active

-----------------------------------------------------------------------------
(* One lemma per group of operations                                       *)

\* A death, a restart and a new epoch add no record; the leases they end are
\* counted once each (adopt_worker, mark_worker_died) or not at all.
LEMMA CountedAuthority == AccountingInv /\ AccountAuthority => Counted'
<1> SUFFICES ASSUME AccountingInv, AccountAuthority PROVE Counted'
  OBVIOUS
<1>0. TypeOK /\ accounting \in [Counters -> Nat] /\ revived \in Nat /\ NoneUnused
  BY DEF AccountingInv, Counted
<1>1. AuthorityNext
  BY DEF AccountAuthority, AuthorityNext
<1>2. /\ DOMAIN instances' = DOMAIN instances /\ DOMAIN endpoints' = DOMAIN endpoints
      /\ UNCHANGED <<catalog, services>>
  BY <1>0, <1>1, AuthorityLinks, AuthorityRecordsFrame DEF SameLinks
<1>3. DOMAIN capabilities' = DOMAIN capabilities
  BY <1>1 DEF AuthorityNext, begin_coordinator_epoch, adopt_worker, mark_worker_died,
              RevokeRecords
<1>4. NoneUnused'
  BY <1>0, <1>2, <1>3 DEF NoneUnused
<1>5. CASE begin_coordinator_epoch /\ Uncounted
  <2>1. DOMAIN leases' = DOMAIN leases /\ Active' = {}
    BY <1>0, <1>5, RevalidatedActive DEF begin_coordinator_epoch
  <2>2. accounting' = accounting /\ revived' = revived
    BY <1>5 DEF Uncounted
  <2>3. RecordsCounted'
    <3>1. DOMAIN Records \subseteq Counters
      BY RecordNames
    <3>2. \A c \in DOMAIN Records : accounting'[c] >= accounting[c]
      BY <1>0, <2>2, <3>1
    <3>3. QED
      BY <1>0, <1>2, <1>3, <2>1, <2>2, <3>2, SameKeysCounted
  <2>4. LeaseCountsBacked'
    <3>1. Active' = Active \ Active /\ Active \in SUBSET Active
      BY <2>1
    <3>2. QED
      BY <1>0, <2>2, <3>1, BackedEnded
  <2>5. QED
    BY <1>0, <1>4, <2>2, <2>3, <2>4 DEF Counted
<1>6. ASSUME NEW b, RevokeRecords(b), Ended(Orphaned(b), TRUE)
      PROVE  Counted'
  <2> DEFINE E == {instances[i].lease : i \in Orphans(b)} \cap Active
  <2>1. DOMAIN leases' = DOMAIN leases /\ Active' = Active \ E
    BY <1>0, <1>6, RevokedActive DEF RevokeRecords
  <2>2. Orphaned(b) = Cardinality(E) /\ E \in SUBSET Active
    BY DEF Orphaned
  <2> HIDE DEF E
  <2>3. Orphaned(b) \in Nat
    BY <2>2, ActiveFinite, Removed
  <2>4. /\ accounting' \in [Counters -> Nat] /\ revived' = revived
        /\ \A c \in Counters \ {"active_leases", "expired_leases"} :
             accounting'[c] = accounting[c]
        /\ accounting'.active_leases >= accounting.active_leases - Orphaned(b)
        /\ accounting'.expired_leases <= accounting.expired_leases + Orphaned(b)
    BY <1>0, <1>6, <2>3, EndedFacts
  <2>5. RecordsCounted'
    <3>1. \A c \in DOMAIN Records : accounting'[c] >= accounting[c]
      BY <1>0, <2>4, RecordNames
    <3>2. QED
      BY <1>0, <1>2, <1>3, <2>1, <2>4, <3>1, SameKeysCounted
  <2>6. LeaseCountsBacked'
    <3>1. accounting'["leases"] = accounting["leases"]
      BY <2>4 DEF Counters
    <3>2. QED
      BY <2>1, <2>2, <2>4, <3>1, BackedEnded
  <2>7. QED
    BY <1>0, <1>4, <2>4, <2>5, <2>6 DEF Counted
<1>7. QED
  BY <1>5, <1>6 DEF AccountAuthority, adopt_worker, mark_worker_died

\* An acquisition counts the lease, and the active one once more; the end of a
\* lease counts when it was active; a renewal counts nothing.
LEMMA CountedLeases == AccountingInv /\ AccountLeases => Counted'
<1> SUFFICES ASSUME AccountingInv, AccountLeases PROVE Counted'
  OBVIOUS
<1>0. /\ TypeOK /\ accounting \in [Counters -> Nat] /\ revived \in Nat /\ NoneUnused
      /\ \A l \in DOMAIN leases : leases[l] \in LeaseDescriptor
  BY DEF AccountingInv, Counted, TypeOK, IsMap
<1>1. UNCHANGED <<catalog, services, endpoints, capabilities, instances>>
  <2>1. LeaseNext
    BY DEF AccountLeases, AccountAcquire, AccountRenew, LeaseNext
  <2>2. QED
    BY <2>1, LeaseFrame DEF LeasesOnly
<1>2. NoneUnused'
  BY <1>0, <1>1 DEF NoneUnused
<1>3. ASSUME NEW env, NEW in \in LeaseInputs, AccountAcquire(env, in)
      PROVE  Counted'
  <2> DEFINE id == IdOf(in.id)
             cs == {"leases"} \cup (IF in.rec.state = "ACTIVE" THEN {"active_leases"} ELSE {})
             new == [in.rec EXCEPT !.generation = lease_gen + 1]
  <2>1. /\ leases' = Put(leases, id, new) /\ Count(cs, TRUE)
    BY <1>3 DEF AccountAcquire, acquire_lease
  <2>2. in.rec \in LeaseDescriptor
    BY InputsAssumption
  <2>3. new.state = in.rec.state
    BY <2>2 DEF LeaseDescriptor
  <2>4. /\ DOMAIN leases' \subseteq DOMAIN leases \cup {id}
        /\ Active' \subseteq Active \cup {id}
        /\ in.rec.state # "ACTIVE" => Active' \subseteq Active
    <3> HIDE DEF id, new
    <3>1. QED
      BY <2>1, <2>3 DEF Put, Active
  <2>5. /\ accounting' \in [Counters -> Nat] /\ revived' = revived
        /\ \A c \in Counters : accounting'[c] >= accounting[c]
        /\ \A c \in Counters \ cs : accounting'[c] = accounting[c]
        /\ \A c \in Counters \cap cs : accounting'[c] = accounting[c] + 1
    BY <1>0, <2>1, CountFacts
  <2>6. /\ accounting'["leases"] = accounting["leases"] + 1
        /\ accounting'["expired_leases"] = accounting["expired_leases"]
        /\ accounting'["active_leases"] >= accounting["active_leases"]
        /\ in.rec.state = "ACTIVE" =>
             accounting'["active_leases"] = accounting["active_leases"] + 1
    BY <2>5 DEF Counters
  <2> HIDE DEF id, cs, new
  <2>7. RecordsCounted'
    <3>1. SUFFICES ASSUME NEW c \in DOMAIN Records
                   PROVE  Grown(DOMAIN Records[c], DOMAIN Records'[c], accounting[c], accounting'[c])
      BY <1>0, <2>5, CountedStep DEF AccountingInv, Counted
    <3>2. c \in Counters
      BY RecordNames
    <3>3. CASE c = "leases"
      <4>1. Records[c] = leases /\ Records'[c] = leases'
        BY <3>3 DEF Records
      <4>2. accounting[c] \in Nat /\ accounting'[c] >= accounting[c] + 1
        BY <1>0, <2>6, <3>2, <3>3
      <4>3. QED
        BY <2>4, <4>1, <4>2 DEF Grown
    <3>4. CASE c # "leases"
      <4>1. Records'[c] = Records[c]
        BY <1>1, <3>4 DEF Records
      <4>2. QED
        BY <2>5, <3>2, <4>1 DEF Grown
    <3>5. QED
      BY <3>3, <3>4
  <2>8. LeaseCountsBacked'
    BY <1>0, <2>4, <2>5, <2>6, ActiveFinite, BackedStarted
  <2>9. QED
    BY <1>0, <1>2, <2>5, <2>7, <2>8 DEF Counted
<1>4. ASSUME NEW env, NEW l \in DOMAIN leases, NEW g, AccountRenew(env, l, g)
      PROVE  Counted'
  <2>1. /\ leases' = [leases EXCEPT ![l].state = "ACTIVE"]
        /\ accounting' = accounting
        /\ revived' = IF l \in Active THEN revived ELSE revived + 1
    BY <1>4 DEF AccountRenew, renew_lease
  <2>2. DOMAIN leases' = DOMAIN leases /\ Active' \subseteq Active \cup {l}
    BY <2>1 DEF Active
  <2>3. l \in Active => Active' \subseteq Active
    BY <2>2
  <2>4. RecordsCounted'
    <3>1. \A c \in DOMAIN Records : accounting'[c] >= accounting[c]
      BY <1>0, <2>1, RecordNames
    <3>2. QED
      BY <1>0, <1>1, <2>1, <2>2, <3>1, SameKeysCounted
  <2>5. revived' \in Nat
    BY <1>0, <2>1
  <2>6. LeaseCountsBacked'
    BY <1>0, <2>1, <2>2, <2>3, <2>5, ActiveFinite, BackedStarted
  <2>7. QED
    BY <1>0, <1>2, <2>1, <2>4, <2>5, <2>6 DEF Counted
<1>5. ASSUME NEW l \in DOMAIN leases, NEW state, state # "ACTIVE", NEW expires,
             EndLease(l, state), Ended(EndedNow(l), expires)
      PROVE  Counted'
  <2> DEFINE E == {l} \cap Active
  <2>1. DOMAIN leases' = DOMAIN leases
    BY <1>5 DEF EndLease
  <2>2. Active' = Active \ E
    <3>1. CASE leases[l].state = "ACTIVE"
      <4>1. leases' = [leases EXCEPT ![l].state = state]
        BY <1>5, <3>1 DEF EndLease
      <4>2. leases'[l].state = state
        BY <1>0, <4>1 DEF LeaseDescriptor
      <4>3. \A k \in DOMAIN leases \ {l} : leases'[k] = leases[k]
        BY <4>1
      <4>4. QED
        BY <1>5, <2>1, <3>1, <4>2, <4>3 DEF Active
    <3>2. CASE leases[l].state # "ACTIVE"
      BY <1>5, <3>2 DEF EndLease, Active
    <3>3. QED
      BY <3>1, <3>2
  <2>3. EndedNow(l) = Cardinality(E) /\ E \in SUBSET Active
    BY DEF EndedNow
  <2> HIDE DEF E
  <2>4. EndedNow(l) \in Nat
    BY <2>3, ActiveFinite, Removed
  <2>5. /\ accounting' \in [Counters -> Nat] /\ revived' = revived
        /\ \A c \in Counters \ {"active_leases", "expired_leases"} :
             accounting'[c] = accounting[c]
        /\ accounting'.active_leases >= accounting.active_leases - EndedNow(l)
        /\ accounting'.expired_leases <= accounting.expired_leases + EndedNow(l)
    BY <1>0, <1>5, <2>4, EndedFacts
  <2>6. RecordsCounted'
    <3>1. \A c \in DOMAIN Records : accounting'[c] >= accounting[c]
      BY <1>0, <2>5, RecordNames
    <3>2. QED
      BY <1>0, <1>1, <2>1, <2>5, <3>1, SameKeysCounted
  <2>7. LeaseCountsBacked'
    <3>1. accounting'["leases"] = accounting["leases"]
      BY <2>5 DEF Counters
    <3>2. QED
      BY <2>2, <2>3, <2>5, <3>1, BackedEnded
  <2>8. QED
    BY <1>0, <1>2, <2>5, <2>6, <2>7 DEF Counted
<1>6. QED
  BY <1>3, <1>4, <1>5 DEF AccountLeases, expire_lease, revoke_lease,
                          mark_lease_revalidation_required

\* A registration of the kinds cs adds at most one record of each, none that it
\* does not count, and moves no lease.
LEMMA CountedRegister ==
  ASSUME AccountingInv, NEW cs, cs \subseteq DOMAIN Records \ {"leases"}, leases' = leases,
         accounting' \in [Counters -> Nat], revived' = revived,
         \A c \in Counters : accounting'[c] >= accounting[c],
         \A c \in Counters \ cs : accounting'[c] = accounting[c],
         \A c \in DOMAIN Records \ cs : DOMAIN Records'[c] = DOMAIN Records[c],
         \A c \in cs : \/ DOMAIN Records'[c] \subseteq DOMAIN Records[c]
                      \/ /\ accounting'[c] = accounting[c] + 1
                         /\ \E x : DOMAIN Records'[c] \subseteq DOMAIN Records[c] \cup {x}
  PROVE  /\ accounting' \in [Counters -> Nat] /\ revived' \in Nat
         /\ RecordsCounted' /\ LeaseCountsBacked'
<1>0. accounting \in [Counters -> Nat] /\ revived \in Nat /\ RecordsCounted
  BY DEF AccountingInv, Counted
<1>1. RecordsCounted'
  <2>1. SUFFICES ASSUME NEW c \in DOMAIN Records
                 PROVE  Grown(DOMAIN Records[c], DOMAIN Records'[c], accounting[c], accounting'[c])
    BY <1>0, CountedStep
  <2>2. c \in Counters /\ accounting[c] \in Nat
    BY <1>0, RecordNames
  <2>3. CASE DOMAIN Records'[c] \subseteq DOMAIN Records[c]
    BY <2>2, <2>3 DEF Grown
  <2>4. CASE ~(DOMAIN Records'[c] \subseteq DOMAIN Records[c])
    <3>1. /\ accounting'[c] = accounting[c] + 1
          /\ \E x : DOMAIN Records'[c] \subseteq DOMAIN Records[c] \cup {x}
      BY <2>4
    <3>2. QED
      BY <2>2, <3>1 DEF Grown
  <2>5. QED
    BY <2>3, <2>4
<1>2. LeaseCountsBacked'
  <2>1. Active' = Active \ {} /\ {} \in SUBSET Active
    BY DEF Active
  <2>2. {"leases", "active_leases", "expired_leases"} \subseteq Counters \ cs
    BY RecordNames DEF Counters
  <2>3. /\ accounting'["leases"] = accounting["leases"]
        /\ accounting'["active_leases"] = accounting["active_leases"]
        /\ accounting'["expired_leases"] = accounting["expired_leases"]
    BY <2>2
  <2>4. QED
    BY <2>1, <2>3, BackedEnded
<1>3. QED
  BY <1>0, <1>1, <1>2

\* The registrations of runtimes, protocols, backends, devices and nodes.
LEMMA CountedCatalog == AccountingInv /\ AccountCatalog => Counted'
<1> SUFFICES ASSUME AccountingInv, NEW env \in Envelopes, NEW in \in CatalogInputs,
               LET new == in.id \notin DOMAIN catalog[in.kind] IN
               \/ register_runtime(env, in) /\ Count({"runtimes", "runtime_instances"}, new)
               \/ register_protocol(env, in) /\ Count({"protocols"}, new)
               \/ register_backend(env, in) /\ Count({"backends"}, new)
               \/ register_device(env, in) /\ Count({"devices"}, new)
               \/ register_node(env, in) /\ Count({"nodes"}, new)
             PROVE  Counted'
  BY DEF AccountCatalog
<1> DEFINE new == in.id \notin DOMAIN catalog[in.kind]
           id == IdOf(in.id)
<1>0. /\ DOMAIN catalog = CatalogKind /\ NoneUnused /\ next_id \in Nat /\ next_id >= 1
      /\ in.id \in Nat /\ accounting \in [Counters -> Nat]
  BY InputsAssumption DEF AccountingInv, Counted, TypeOK, AllocatorsSound
<1>1. id # None /\ (in.id # None => id = in.id)
  BY <1>0 DEF IdOf, None
<1>2. UNCHANGED <<services, endpoints, capabilities, instances, leases>>
  <2>1. CatalogNext
    BY DEF CatalogNext
  <2>2. QED
    BY <2>1, CatalogFrame DEF CatalogOnly
<1>3. ASSUME register_runtime(env, in), Count({"runtimes", "runtime_instances"}, new)
      PROVE  Counted'
  <2> DEFINE copy == [in.rec EXCEPT !.runtime_instance = id]
             byInstance == catalog["RuntimeInstanceId"]
             byRuntime == catalog["RuntimeId"]
  <2>1. /\ in.kind = "RuntimeInstanceId"
        /\ catalog'["RuntimeInstanceId"] = Put(byInstance, id, copy)
        /\ catalog'["RuntimeId"] = IF in.id \in DOMAIN byInstance THEN byRuntime
                                   ELSE Put(byRuntime, copy.runtime_id, copy)
        /\ \A k \in CatalogKind \ {"RuntimeInstanceId", "RuntimeId"} : catalog'[k] = catalog[k]
    BY <1>0, <1>3 DEF register_runtime, WithRuntime, CatalogKind
  <2> HIDE DEF copy
  <2>2. None \notin DOMAIN byInstance
    BY <1>0 DEF NoneUnused
  <2>3. /\ DOMAIN catalog'["RuntimeInstanceId"] = DOMAIN byInstance \cup {id}
        /\ ~new => id \in DOMAIN byInstance
    BY <1>1, <2>1, <2>2 DEF Put
  <2>4. \/ DOMAIN catalog'["RuntimeId"] = DOMAIN byRuntime
        \/ new /\ DOMAIN catalog'["RuntimeId"] = DOMAIN byRuntime \cup {copy.runtime_id}
    BY <2>1 DEF Put
  <2> HIDE DEF id, new
  <2>5. NoneUnused'
    BY <1>0, <1>1, <1>2, <2>1, <2>2, <2>3 DEF NoneUnused, CatalogKind
  <2>6. \A c \in DOMAIN Records \ {"runtimes", "runtime_instances"} :
           DOMAIN Records'[c] = DOMAIN Records[c]
    BY <1>2, <2>1 DEF Records, CatalogKind
  <2>7. /\ Records["runtimes"] = byRuntime /\ Records'["runtimes"] = catalog'["RuntimeId"]
        /\ Records["runtime_instances"] = byInstance
        /\ Records'["runtime_instances"] = catalog'["RuntimeInstanceId"]
        /\ {"runtimes", "runtime_instances"} \subseteq DOMAIN Records \ {"leases"}
    BY DEF Records
  <2> DEFINE cs == {"runtimes", "runtime_instances"}
  <2>8. /\ accounting' \in [Counters -> Nat] /\ revived' = revived
        /\ \A c \in Counters : accounting'[c] >= accounting[c]
        /\ \A c \in Counters \ cs : accounting'[c] = accounting[c]
        /\ new => \A c \in Counters \cap cs : accounting'[c] = accounting[c] + 1
    BY <1>0, <1>3, CountFacts
  <2>9. cs \subseteq DOMAIN Records \ {"leases"} /\ cs \subseteq Counters
    BY <2>7 DEF Counters
  <2>10. \A c \in cs :
          \/ DOMAIN Records'[c] \subseteq DOMAIN Records[c]
          \/ /\ accounting'[c] = accounting[c] + 1
             /\ \E x : DOMAIN Records'[c] \subseteq DOMAIN Records[c] \cup {x}
    BY <2>3, <2>4, <2>7, <2>8, <2>9
  <2>11. \A c \in DOMAIN Records \ cs : DOMAIN Records'[c] = DOMAIN Records[c]
    BY <2>6
  <2> HIDE DEF cs
  <2>12. QED
    BY <1>2, <2>5, <2>8, <2>9, <2>10, <2>11, CountedRegister DEF Counted
<1>4. ASSUME NEW kind, NEW k, NEW key, Catalogued(env, in, kind, key), Count({k}, new),
             \/ kind = "ProtocolId" /\ k = "protocols" /\ key = in.id
             \/ kind = "BackendId" /\ k = "backends" /\ key = id
             \/ kind = "DeviceId" /\ k = "devices" /\ key = id
             \/ kind = "NodeId" /\ k = "nodes" /\ key = in.id
      PROVE  Counted'
  <2>1. /\ in.kind = kind /\ kind \in CatalogKind
        /\ catalog'[kind] = Put(catalog[kind], key, in.rec)
        /\ \A j \in CatalogKind \ {kind} : catalog'[j] = catalog[j]
    BY <1>0, <1>4 DEF Catalogued, CatalogKind
  <2>2. /\ DOMAIN catalog'[kind] = DOMAIN catalog[kind] \cup {key}
        /\ ~new => key \in DOMAIN catalog[kind]
    <3>1. kind \in {"BackendId", "DeviceId"} => None \notin DOMAIN catalog[kind]
      BY <1>0 DEF NoneUnused
    <3>2. QED
      BY <1>1, <1>4, <2>1, <3>1 DEF Put
  <2> HIDE DEF id, new
  <2>3. NoneUnused'
    BY <1>0, <1>1, <1>2, <1>4, <2>1, <2>2 DEF NoneUnused, CatalogKind
  <2>4. /\ Records[k] = catalog[kind] /\ Records'[k] = catalog'[kind]
        /\ {k} \subseteq DOMAIN Records \ {"leases"}
    BY <1>4 DEF Records
  <2>5. \A c \in DOMAIN Records \ {k} : DOMAIN Records'[c] = DOMAIN Records[c]
    BY <1>2, <1>4, <2>1 DEF Records, CatalogKind
  <2>6. /\ accounting' \in [Counters -> Nat] /\ revived' = revived
        /\ \A c \in Counters : accounting'[c] >= accounting[c]
        /\ \A c \in Counters \ {k} : accounting'[c] = accounting[c]
        /\ new => \A c \in Counters \cap {k} : accounting'[c] = accounting[c] + 1
    BY <1>0, <1>4, CountFacts
  <2>7. \A c \in {k} :
          \/ DOMAIN Records'[c] \subseteq DOMAIN Records[c]
          \/ /\ accounting'[c] = accounting[c] + 1
             /\ \E x : DOMAIN Records'[c] \subseteq DOMAIN Records[c] \cup {x}
    <3>1. k \in Counters
      BY <2>4, RecordNames
    <3>2. QED
      BY <2>2, <2>4, <2>6, <3>1
  <2> DEFINE cs == {k}
  <2>8. /\ cs \subseteq DOMAIN Records \ {"leases"}
        /\ \A c \in Counters \ cs : accounting'[c] = accounting[c]
        /\ \A c \in DOMAIN Records \ cs : DOMAIN Records'[c] = DOMAIN Records[c]
        /\ \A c \in cs :
             \/ DOMAIN Records'[c] \subseteq DOMAIN Records[c]
             \/ /\ accounting'[c] = accounting[c] + 1
                /\ \E x : DOMAIN Records'[c] \subseteq DOMAIN Records[c] \cup {x}
    BY <2>4, <2>5, <2>6, <2>7
  <2> HIDE DEF cs
  <2>9. QED
    BY <1>2, <2>3, <2>6, <2>8, CountedRegister DEF Counted
<1>5. QED
  BY <1>3, <1>4 DEF register_protocol, register_backend, register_device, register_node

\* When a registration over insts adds an instance, it got to the end.
LEMMA InstalledNew ==
  ASSUME TypeOK, NEW insts, IsMap(insts, Nat, ServiceInstance), NEW in, in.id \in Nat, NEW b,
         [in.rec EXCEPT !.boot = b] \in ServiceInstance,
         RegisterOver(insts, in, [in.rec EXCEPT !.boot = b])
  PROVE  /\ DOMAIN endpoints' = DOMAIN endpoints
         /\ \/ DOMAIN instances' \subseteq DOMAIN insts
            \/ /\ Installed(insts, in, b)
               /\ DOMAIN instances' \subseteq DOMAIN insts \cup {IdOf(in.id)}
<1> DEFINE inst == [in.rec EXCEPT !.boot = b]
           id == IdOf(in.id)
<1>1. id \in Nat
  BY DEF IdOf, TypeOK
<1>2. inst \in ServiceInstance /\ RegisterOver(insts, in, inst)
  OBVIOUS
<1>3. Installed(insts, in, b) <=>
        /\ id \in DOMAIN instances' /\ instances'[id] = reclassify_lifecycle(inst, endpoints')
        /\ id \in DOMAIN insts => insts[id] # reclassify_lifecycle(inst, endpoints')
  BY DEF Installed
<1> HIDE DEF inst, id
<1>4. \/ instances' = insts /\ UNCHANGED <<endpoints, index_by_service>>
      \/ \E is : /\ IsMap(is, Nat, ServiceInstance) /\ SameLinks(insts, is)
                 /\ Install(is, id, inst)
  BY <1>2, RegisterOverCases DEF id
<1>5. ASSUME NEW is, IsMap(is, Nat, ServiceInstance), DOMAIN is = DOMAIN insts,
             Install(is, id, inst)
      PROVE  /\ DOMAIN endpoints' = DOMAIN endpoints
             /\ \/ DOMAIN instances' \subseteq DOMAIN insts
                \/ /\ Installed(insts, in, b)
                   /\ DOMAIN instances' \subseteq DOMAIN insts \cup {id}
  <2>1. /\ DOMAIN endpoints' = DOMAIN endpoints
        /\ \/ instances' = is
           \/ instances' = Put(is, id, reclassify_lifecycle(inst, endpoints'))
    BY <1>1, <1>2, <1>5, InstallCases
  <2>2. CASE instances' = is
    BY <1>5, <2>1, <2>2
  <2>3. CASE instances' = Put(is, id, reclassify_lifecycle(inst, endpoints'))
    <3>1. /\ DOMAIN instances' = DOMAIN insts \cup {id}
          /\ instances'[id] = reclassify_lifecycle(inst, endpoints')
      BY <1>5, <2>3 DEF Put
    <3>2. CASE id \in DOMAIN insts
      BY <2>1, <3>1, <3>2
    <3>3. CASE id \notin DOMAIN insts
      BY <1>3, <2>1, <3>1, <3>3
    <3>4. QED
      BY <3>2, <3>3
  <2>4. QED
    BY <2>1, <2>2, <2>3
<1>6. QED
  BY <1>4, <1>5 DEF SameLinks, id

\* The registrations of services, endpoints, capabilities and instances.
LEMMA CountedRegistration == AccountingInv /\ AccountRegistration => Counted'
<1> SUFFICES ASSUME AccountingInv, AccountRegistration PROVE Counted'
  OBVIOUS
<1>0. /\ TypeOK /\ NoneUnused /\ next_id \in Nat /\ next_id >= 1
      /\ IsMap(instances, Nat, ServiceInstance) /\ accounting \in [Counters -> Nat]
  BY DEF AccountingInv, Counted, TypeOK, AllocatorsSound
<1>1. UNCHANGED <<catalog, leases>>
  <2>1. RegistrationNext
    BY DEF AccountRegistration, RegistrationNext
  <2>2. QED
    BY <2>1, RegistrationFrame
<1>2. ASSUME NEW k \in {"services", "service_instances", "endpoints", "capabilities"},
             NEW condition, Count({k}, condition), NoneUnused',
             \A c \in {"services", "service_instances", "endpoints", "capabilities"} \ {k} :
               DOMAIN Records'[c] = DOMAIN Records[c],
             \/ DOMAIN Records'[k] \subseteq DOMAIN Records[k]
             \/ condition /\ \E x : DOMAIN Records'[k] \subseteq DOMAIN Records[k] \cup {x}
      PROVE  Counted'
  <2>1. {k} \subseteq DOMAIN Records \ {"leases"}
    BY <1>2 DEF Records
  <2>2. \A c \in DOMAIN Records \ {k} : DOMAIN Records'[c] = DOMAIN Records[c]
    <3>1. \A c \in DOMAIN Records \ {"services", "service_instances", "endpoints", "capabilities"} :
            Records'[c] = Records[c]
      BY <1>1 DEF Records
    <3>2. QED
      BY <1>2, <3>1
  <2>3. /\ accounting' \in [Counters -> Nat] /\ revived' = revived
        /\ \A c \in Counters : accounting'[c] >= accounting[c]
        /\ \A c \in Counters \ {k} : accounting'[c] = accounting[c]
        /\ condition => \A c \in Counters \cap {k} : accounting'[c] = accounting[c] + 1
    BY <1>0, <1>2, CountFacts
  <2> DEFINE cs == {k}
  <2>4. \A c \in cs :
          \/ DOMAIN Records'[c] \subseteq DOMAIN Records[c]
          \/ /\ accounting'[c] = accounting[c] + 1
             /\ \E x : DOMAIN Records'[c] \subseteq DOMAIN Records[c] \cup {x}
    <3>1. k \in Counters
      BY <2>1, RecordNames
    <3>2. QED
      BY <1>2, <2>3, <3>1
  <2>5. /\ cs \subseteq DOMAIN Records \ {"leases"}
        /\ \A c \in Counters \ cs : accounting'[c] = accounting[c]
        /\ \A c \in DOMAIN Records \ cs : DOMAIN Records'[c] = DOMAIN Records[c]
    BY <2>1, <2>2, <2>3
  <2> HIDE DEF cs
  <2>6. QED
    BY <1>1, <1>2, <2>3, <2>4, <2>5, CountedRegister DEF Counted
<1>3. /\ Records["services"] = services /\ Records'["services"] = services'
      /\ Records["service_instances"] = instances /\ Records'["service_instances"] = instances'
      /\ Records["endpoints"] = endpoints /\ Records'["endpoints"] = endpoints'
      /\ Records["capabilities"] = capabilities /\ Records'["capabilities"] = capabilities'
  BY DEF Records
<1>4. ASSUME NEW env, NEW in \in ServiceInputs, register_service(env, in),
             Count({"services"}, in.id \notin DOMAIN services)
      PROVE  Counted'
  <2> DEFINE new == in.id \notin DOMAIN services
  <2>1. /\ services' = Put(services, in.id, in.rec)
        /\ UNCHANGED <<endpoints, capabilities, instances>>
    BY <1>4 DEF register_service
  <2>2. \/ DOMAIN services' \subseteq DOMAIN services
        \/ new /\ DOMAIN services' \subseteq DOMAIN services \cup {in.id}
    BY <2>1 DEF Put
  <2>3. NoneUnused'
    BY <1>0, <1>1, <2>1 DEF NoneUnused
  <2>4. Count({"services"}, new)
    BY <1>4
  <2> HIDE DEF new
  <2>5. QED
    BY <1>2, <1>3, <2>1, <2>2, <2>3, <2>4
<1>5. ASSUME NEW env, NEW in \in EndpointInputs, register_endpoint(env, in),
             Count({"endpoints"}, in.id \notin DOMAIN endpoints)
      PROVE  Counted'
  <2> DEFINE new == in.id \notin DOMAIN endpoints
             id == IdOf(in.id)
  <2>1. /\ endpoints' = Put(endpoints, id, in.rec)
        /\ UNCHANGED <<services, capabilities, instances>>
    BY <1>5 DEF register_endpoint
  <2>2. id # None /\ (in.id # None => id = in.id)
    BY <1>0 DEF IdOf, None
  <2>3. None \notin DOMAIN endpoints
    BY <1>0 DEF NoneUnused
  <2>4. \/ DOMAIN endpoints' \subseteq DOMAIN endpoints
        \/ new /\ DOMAIN endpoints' \subseteq DOMAIN endpoints \cup {id}
    BY <2>1, <2>2, <2>3 DEF Put
  <2>5. NoneUnused'
    <3> HIDE DEF id, new
    <3>1. QED
      BY <1>0, <1>1, <2>1, <2>2, <2>4 DEF NoneUnused
  <2>6. Count({"endpoints"}, new)
    BY <1>5
  <2> HIDE DEF new, id
  <2>7. QED
    BY <1>2, <1>3, <2>1, <2>4, <2>5, <2>6
<1>6. ASSUME NEW env, NEW in \in CapabilityInputs, register_capability(env, in),
             Count({"capabilities"}, in.id \notin DOMAIN capabilities)
      PROVE  Counted'
  <2> DEFINE new == in.id \notin DOMAIN capabilities
             id == IdOf(in.id)
  <2>1. /\ capabilities' = Put(capabilities, id, in.rec)
        /\ UNCHANGED <<services, endpoints, instances>>
    BY <1>6 DEF register_capability
  <2>2. id # None /\ (in.id # None => id = in.id)
    BY <1>0 DEF IdOf, None
  <2>3. None \notin DOMAIN capabilities
    BY <1>0 DEF NoneUnused
  <2>4. \/ DOMAIN capabilities' \subseteq DOMAIN capabilities
        \/ new /\ DOMAIN capabilities' \subseteq DOMAIN capabilities \cup {id}
    BY <2>1, <2>2, <2>3 DEF Put
  <2>5. NoneUnused'
    <3> HIDE DEF id, new
    <3>1. QED
      BY <1>0, <1>1, <2>1, <2>2, <2>4 DEF NoneUnused
  <2>6. Count({"capabilities"}, new)
    BY <1>6
  <2> HIDE DEF new, id
  <2>7. QED
    BY <1>2, <1>3, <2>1, <2>4, <2>5, <2>6
<1>7. ASSUME NEW env \in Envelopes, NEW in \in InstanceInputs, NEW b \in OwnerBoots(env),
             NEW insts, IsMap(insts, Nat, ServiceInstance), DOMAIN insts = DOMAIN instances,
             RegisterOver(insts, in, [in.rec EXCEPT !.boot = b]),
             UNCHANGED <<services, capabilities>>,
             Count({"service_instances"}, Installed(insts, in, b))
      PROVE  Counted'
  <2>1. /\ DOMAIN endpoints' = DOMAIN endpoints
        /\ \/ DOMAIN instances' \subseteq DOMAIN insts
           \/ /\ Installed(insts, in, b)
              /\ DOMAIN instances' \subseteq DOMAIN insts \cup {IdOf(in.id)}
    BY <1>0, <1>7, OwnedType, InstalledNew
  <2>2. NoneUnused'
    BY <1>0, <1>1, <1>7, <2>1 DEF NoneUnused
  <2>3. QED
    BY <1>2, <1>3, <1>7, <2>1, <2>2
<1>8. ASSUME NEW env \in Envelopes, NEW old \in DOMAIN instances, NEW in \in InstanceInputs,
             NEW b \in OwnerBoots(env), supersede(env, old, in, b),
             Count({"service_instances"},
                   Installed([instances EXCEPT ![old].lifecycle = "SUPERSEDED"], in, b))
      PROVE  Counted'
  <2> DEFINE marked == [instances EXCEPT ![old].lifecycle = "SUPERSEDED"]
  <2>1. /\ RegisterOver(marked, in, [in.rec EXCEPT !.boot = b])
        /\ UNCHANGED <<services, capabilities>>
        /\ Count({"service_instances"}, Installed(marked, in, b))
    BY <1>8 DEF supersede
  <2>2. IsMap(marked, Nat, ServiceInstance) /\ DOMAIN marked = DOMAIN instances
    BY <1>0, MarkType DEF Lifecycle
  <2> HIDE DEF marked
  <2>3. QED
    BY <1>7, <2>1, <2>2
<1>9. ASSUME NEW env \in Envelopes, NEW in \in InstanceInputs, NEW b \in OwnerBoots(env),
             register_instance(env, in, b),
             Count({"service_instances"}, Installed(instances, in, b))
      PROVE  Counted'
  BY <1>0, <1>7, <1>9 DEF register_instance
<1>10. QED
  BY <1>4, <1>5, <1>6, <1>8, <1>9 DEF AccountRegistration

\* Status reports, deregistrations, tombstones and invalidations.
LEMMA CountedRest == AccountingInv /\ AccountRest => Counted'
<1> SUFFICES ASSUME AccountingInv, AccountRest PROVE Counted'
  OBVIOUS
<1>0. /\ TypeOK /\ NoneUnused /\ accounting \in [Counters -> Nat] /\ revived \in Nat
      /\ accounting' = accounting /\ revived' = revived
  BY DEF AccountingInv, Counted, AccountRest, Uncounted
<1>1. /\ DOMAIN instances' = DOMAIN instances /\ DOMAIN endpoints' = DOMAIN endpoints
      /\ UNCHANGED <<catalog, services, capabilities, leases>>
  BY <1>0, UpdateStep, UpdateFrame, FencingFrame DEF AccountRest, SameLinks
<1>2. RecordsCounted'
  <2>1. \A c \in DOMAIN Records : accounting'[c] >= accounting[c]
    BY <1>0, RecordNames
  <2>2. QED
    BY <1>0, <1>1, <2>1, SameKeysCounted
<1>3. LeaseCountsBacked'
  <2>1. Active' = Active \ {} /\ {} \in SUBSET Active
    BY <1>1 DEF Active
  <2>2. QED
    BY <1>0, <2>1, BackedEnded
<1>4. QED
  BY <1>0, <1>1, <1>2, <1>3 DEF Counted, NoneUnused

\* load_from counts the records again; no lease is active after it.
LEMMA CountedReload == AccountingInv /\ Reload => AccountingInv'
<1> SUFFICES ASSUME AccountingInv, Reload PROVE AccountingInv'
  OBVIOUS
<1>0. TypeOK /\ AllocatorsSound /\ NoneUnused /\ RecordsCounted
  BY DEF AccountingInv, Counted
<1>1. TypeOK'
  <2>1. /\ IsMap(instances, Nat, ServiceInstance) /\ IsMap(endpoints, Nat, EndpointDescriptor)
        /\ IsMap(capabilities, Nat, CapabilityDescriptor) /\ IsMap(leases, Nat, LeaseDescriptor)
    BY <1>0 DEF TypeOK
  <2>2. /\ IsMap(instances', Nat, ServiceInstance) /\ IsMap(endpoints', Nat, EndpointDescriptor)
        /\ IsMap(capabilities', Nat, CapabilityDescriptor) /\ IsMap(leases', Nat, LeaseDescriptor)
    BY <2>1, RevalidatedType DEF Reload, IsMap
  <2>3. IsMap(current_boot', Workers, Nat) /\ IsMap(boot_worker', Nat, Workers)
    BY EmptyIsMap DEF Reload
  <2>4. QED
    BY <1>0, <2>2, <2>3 DEF TypeOK, Reload
<1>2. /\ DOMAIN services' = DOMAIN services /\ DOMAIN instances' = DOMAIN instances
      /\ DOMAIN endpoints' = DOMAIN endpoints /\ DOMAIN capabilities' = DOMAIN capabilities
      /\ DOMAIN leases' = DOMAIN leases /\ catalog' = catalog
      /\ next_id' = next_id /\ lease_gen' = lease_gen /\ revived' = 0
      /\ accounting' = Recounted
  BY DEF Reload
<1>3. AllocatorsSound'
  <2>1. \A l \in DOMAIN leases : leases[l] \in LeaseDescriptor
    BY <1>0 DEF TypeOK, IsMap
  <2>2. \A l \in DOMAIN leases : leases'[l].generation = leases[l].generation
    BY <2>1 DEF Reload, RevalidatedLease, LeaseDescriptor
  <2>3. QED
    BY <1>0, <1>2, <2>2 DEF AllocatorsSound
<1>4. /\ NoneUnused' /\ DOMAIN Records' = DOMAIN Records
      /\ \A c \in DOMAIN Records : DOMAIN Records'[c] = DOMAIN Records[c]
  BY <1>0, <1>2 DEF NoneUnused, Records
<1>5. \A c \in DOMAIN Records : IsFiniteSet(DOMAIN Records[c])
  BY <1>0 DEF RecordsCounted
<1>6. \A c \in DOMAIN Records : Cardinality(DOMAIN Records[c]) \in Nat
  BY <1>5, FS_CardinalityType
<1>7. /\ accounting' \in [Counters -> Nat]
      /\ \A c \in DOMAIN Records : accounting'[c] = Cardinality(DOMAIN Records[c])
      /\ accounting'["active_leases"] = 0 /\ accounting'["expired_leases"] = 0
  <2>1. /\ DOMAIN Records \subseteq Counters
        /\ {"active_leases", "expired_leases"} \subseteq Counters \ DOMAIN Records
    BY RecordNames DEF Counters
  <2>2. QED
    BY <1>2, <1>6, <2>1 DEF Recounted
<1>8. RecordsCounted'
  BY <1>4, <1>5, <1>6, <1>7 DEF RecordsCounted
<1>9. LeaseCountsBacked'
  <2>1. Active' = {}
    BY <1>0, RevalidatedActive DEF Reload
  <2>2. Cardinality(Active') = 0
    BY <2>1, FS_EmptySet
  <2>3. accounting'["leases"] \in Nat
    BY <1>7 DEF Counters
  <2>4. QED
    BY <1>2, <1>7, <2>2, <2>3 DEF LeaseCountsBacked
<1>10. QED
  BY <1>1, <1>2, <1>3, <1>4, <1>7, <1>8, <1>9 DEF AccountingInv, Counted

-----------------------------------------------------------------------------
(* The invariant and what follows from it                                  *)

LEMMA AccountingInitial == AccountingInit => AccountingInv
<1> SUFFICES ASSUME AccountingInit PROVE AccountingInv
  OBVIOUS
<1>1. Init /\ accounting = [c \in Counters |-> 0] /\ revived = 0
  BY DEF AccountingInit
<1>2. TypeOK
  BY <1>1, TypeInit
<1>3. /\ \A k \in CatalogKind : DOMAIN catalog[k] = {}
      /\ DOMAIN services = {} /\ DOMAIN endpoints = {} /\ DOMAIN capabilities = {}
      /\ DOMAIN instances = {} /\ DOMAIN leases = {} /\ next_id = 1
  BY <1>1 DEF Init, EmptyMap
<1>4. AllocatorsSound /\ NoneUnused
  BY <1>3 DEF AllocatorsSound, NoneUnused, CatalogKind
<1>5. \A c \in DOMAIN Records : DOMAIN Records[c] = {} /\ c \in Counters
  <2>1. DOMAIN Records \subseteq Counters
    BY RecordNames
  <2>2. QED
    BY <1>3, <2>1 DEF Records, CatalogKind
<1>6. RecordsCounted
  BY <1>1, <1>5, FS_EmptySet DEF RecordsCounted
<1>7. LeaseCountsBacked
  <2>1. Active = {}
    BY <1>3 DEF Active
  <2>2. Cardinality(Active) = 0
    BY <2>1, FS_EmptySet
  <2>3. /\ accounting["leases"] = 0 /\ accounting["active_leases"] = 0
        /\ accounting["expired_leases"] = 0
    BY <1>1 DEF Counters
  <2>4. QED
    BY <1>1, <2>2, <2>3 DEF LeaseCountsBacked
<1>8. QED
  BY <1>1, <1>2, <1>4, <1>6, <1>7 DEF AccountingInv, Counted

LEMMA AccountingStep == AccountingInv /\ [AccountingNext]_avars => AccountingInv'
<1> SUFFICES ASSUME AccountingInv, [AccountingNext]_avars PROVE AccountingInv'
  OBVIOUS
<1>1. CASE Reload
  BY <1>1, CountedReload
<1>2. CASE \/ AccountAuthority \/ AccountCatalog \/ AccountRegistration
           \/ AccountLeases \/ AccountRest
  <2>1. Next
    <3>1. AccountAuthority => AuthorityNext
      BY DEF AccountAuthority, AuthorityNext
    <3>2. AccountCatalog => CatalogNext
      BY DEF AccountCatalog, CatalogNext
    <3>3. AccountRegistration => RegistrationNext
      BY DEF AccountRegistration, RegistrationNext
    <3>4. AccountLeases => LeaseNext
      BY DEF AccountLeases, AccountAcquire, AccountRenew, LeaseNext
    <3>5. QED
      BY <1>2, <3>1, <3>2, <3>3, <3>4 DEF Next, AccountRest
  <2>2. TypeOK' /\ AllocatorsSound'
    BY <2>1, TypeNext, AllocatorsStep DEF AccountingInv
  <2>3. Counted'
    BY <1>2, CountedAuthority, CountedCatalog, CountedRegistration, CountedLeases, CountedRest
  <2>4. QED
    BY <2>2, <2>3 DEF AccountingInv
<1>3. CASE UNCHANGED avars
  <2>1. UNCHANGED vars /\ UNCHANGED <<accounting, revived>>
    BY <1>3 DEF avars
  <2>2. TypeOK' /\ AllocatorsSound'
    BY <2>1, TypeNext, AllocatorsStep DEF AccountingInv
  <2>3. Counted'
    BY <2>1 DEF AccountingInv, Counted, vars, NoneUnused, RecordsCounted, Records,
                LeaseCountsBacked, Active
  <2>4. QED
    BY <2>2, <2>3 DEF AccountingInv
<1>4. QED
  BY <1>1, <1>2, <1>3 DEF AccountingNext

LEMMA AccountingInvariant == AccountingSpec => []AccountingInv
BY AccountingInitial, AccountingStep, PTL DEF AccountingSpec

\* However registrations, allocated ids that replace a record, supersessions
\* that are refused half way, deaths and reloads interleave, no counter goes
\* below zero and none is smaller than the map it counts.
THEOREM CountersCorrect == AccountingSpec => []CountersCoverRecords
<1>1. AccountingInv => CountersCoverRecords
  <2>1. DOMAIN Records \subseteq Counters
    BY RecordNames
  <2>2. QED
    BY <2>1 DEF AccountingInv, Counted, CountersCoverRecords, RecordsCounted
<1>2. QED
  BY <1>1, AccountingInvariant, PTL

\* Every active lease was counted by its acquisition or is a revival, and no
\* end of a lease is counted twice, whichever of expiry, revocation, death and
\* restart of its holder comes first.
THEOREM LeaseCountsCorrect == AccountingSpec => []LeaseCountsBacked
<1>1. AccountingInv => LeaseCountsBacked
  BY DEF AccountingInv, Counted
<1>2. QED
  BY <1>1, AccountingInvariant, PTL
=============================================================================
