----------------------------- MODULE Accounting -----------------------------
(***************************************************************************)
(* The counters that accounting_negative looks at (accounting.hpp), beside *)
(* the registry that moves them: one per kind of record, the leases, the   *)
(* active and the expired ones.  Operations count in the same step in      *)
(* which they change the records.                                          *)
(*                                                                         *)
(* Left out: the counters of events (registrations, supersessions,         *)
(* rejections, queries and their outcomes, restarts), which only grow, and *)
(* the ones by lifecycle, which no check reads.                            *)
(***************************************************************************)
EXTENDS Registry, FiniteSetsExt

CONSTANT MaxRevived     \* bound: renewals that make a lease active again

ASSUME MaxRevivedAssumption == MaxRevived \in Nat

VARIABLES
  accounting,     \* accounting_
  revived         \* history variable: leases a renewal made ACTIVE again, since
                  \*   the counters were last rebuilt

avars == <<vars, accounting, revived>>

Counters ==
  {"services", "service_instances", "runtimes", "runtime_instances", "nodes",
   "endpoints", "protocols", "backends", "devices", "capabilities",
   "leases", "active_leases", "expired_leases"}

AccountingInit == Init /\ accounting = [c \in Counters |-> 0] /\ revived = 0

\* Adds one to each of the counters cs if the condition holds.
Count(cs, condition) ==
  /\ accounting' = [c \in Counters |->
       accounting[c] + IF c \in cs /\ condition THEN 1 ELSE 0]
  /\ UNCHANGED revived

Uncounted == UNCHANGED <<accounting, revived>>

\* n leases stop being active, and expire or not: active_leases is not taken
\* below zero.
Bug_EndedUnguarded(n, expires) ==
  /\ accounting' = [accounting EXCEPT !.active_leases = @ - n,
                                      !.expired_leases = @ + IF expires THEN n ELSE 0]
  /\ UNCHANGED revived
Ended(n, expires) ==
  /\ accounting' = [accounting EXCEPT !.active_leases = IF @ > n THEN @ - n ELSE 0,
                                      !.expired_leases = @ + IF expires THEN n ELSE 0]
  /\ UNCHANGED revived

Active == {l \in DOMAIN leases : leases[l].state = "ACTIVE"}

\* The leases of the instances that losing boot b orphans: each expires once,
\* however many of them name it.
Bug_OrphanedPerInstance(b) == Cardinality({i \in Orphans(b) : instances[i].lease # None})
Orphaned(b) == Cardinality({instances[i].lease : i \in Orphans(b)} \cap Active)

\* Did register_instance get to the end?  insts is the map it started from,
\* in which it never installs what is there already.
Installed(insts, in, b) ==
  LET id   == IdOf(in.id)
      inst == reclassify_lifecycle([in.rec EXCEPT !.boot = b], endpoints')
  IN  /\ id \in DOMAIN instances' /\ instances'[id] = inst
      /\ id \in DOMAIN insts => insts[id] # inst

-----------------------------------------------------------------------------
(* The operations and what they count                                      *)

AccountAuthority ==
  \/ begin_coordinator_epoch /\ Uncounted
  \/ \E w \in Workers :
       adopt_worker(w) /\ Ended(Orphaned(Lookup(current_boot, w, None)), TRUE)
  \/ \E b \in Boots : mark_worker_died(b) /\ Ended(Orphaned(b), TRUE)

AccountCatalog ==
  \E env \in Envelopes, in \in CatalogInputs :
    LET new == in.id \notin DOMAIN catalog[in.kind]
    IN  \/ register_runtime(env, in) /\ Count({"runtimes", "runtime_instances"}, new)
        \/ register_protocol(env, in) /\ Count({"protocols"}, new)
        \/ register_backend(env, in) /\ Count({"backends"}, new)
        \/ register_device(env, in) /\ Count({"devices"}, new)
        \/ register_node(env, in) /\ Count({"nodes"}, new)

AccountRegistration ==
  \E env \in Envelopes :
    \/ \E in \in ServiceInputs : /\ register_service(env, in)
                                 /\ Count({"services"}, in.id \notin DOMAIN services)
    \/ \E in \in EndpointInputs : /\ register_endpoint(env, in)
                                  /\ Count({"endpoints"}, in.id \notin DOMAIN endpoints)
    \/ \E in \in CapabilityInputs :
         /\ register_capability(env, in)
         /\ Count({"capabilities"}, in.id \notin DOMAIN capabilities)
    \/ \E in \in InstanceInputs, b \in OwnerBoots(env) :
         /\ register_instance(env, in, b)
         /\ Count({"service_instances"}, Installed(instances, in, b))
    \/ \E old \in DOMAIN instances, in \in InstanceInputs, b \in OwnerBoots(env) :
         /\ supersede(env, old, in, b)
         /\ Count({"service_instances"},
                  Installed([instances EXCEPT ![old].lifecycle = "SUPERSEDED"], in, b))

AccountAcquire(env, in) ==
  /\ acquire_lease(env, in)
  /\ Count({"leases"} \cup (IF in.rec.state = "ACTIVE" THEN {"active_leases"} ELSE {}), TRUE)

\* A renewal counts nothing, also when it makes the lease active again.
AccountRenew(env, l, g) ==
  /\ renew_lease(env, l, g)
  /\ revived' = IF l \in Active THEN revived ELSE revived + 1
  /\ revived' <= MaxRevived
  /\ UNCHANGED accounting

\* Ending a lease counts only when it was active.
EndedNow(l) == Cardinality({l} \cap Active)

AccountLeases ==
  \/ \E env \in Envelopes :
       \/ \E in \in LeaseInputs : AccountAcquire(env, in)
       \/ \E l \in DOMAIN leases :
            \/ \E g \in GenerationInputs : AccountRenew(env, l, g)
            \/ expire_lease(env, l) /\ Ended(EndedNow(l), TRUE)
            \/ revoke_lease(env, l) /\ Ended(EndedNow(l), TRUE)
  \/ \E l \in DOMAIN leases :
       mark_lease_revalidation_required(l) /\ Ended(EndedNow(l), FALSE)

\* Status updates, deregistrations, tombstones and invalidations move none of
\* these counters.
AccountRest == (UpdateNext \/ FencingNext) /\ Uncounted

\* The maps and the counters of their sizes.
Records ==
  [services |-> services, service_instances |-> instances, endpoints |-> endpoints,
   capabilities |-> capabilities, leases |-> leases,
   runtimes |-> catalog["RuntimeId"], runtime_instances |-> catalog["RuntimeInstanceId"],
   protocols |-> catalog["ProtocolId"], backends |-> catalog["BackendId"],
   devices |-> catalog["DeviceId"], nodes |-> catalog["NodeId"]]

\* load_from counts the records again and forgets everything else; a registry
\* that loads what it has just saved (Recovery has loads at other moments).
Recounted ==
  [c \in Counters |-> IF c \in DOMAIN Records THEN Cardinality(DOMAIN Records[c]) ELSE 0]

Reload ==
  /\ live_boots' = {} /\ current_boot' = EmptyMap /\ boot_worker' = EmptyMap
  /\ instances' = [i \in DOMAIN instances |-> RevalidatedInstance(instances[i])]
  /\ endpoints' = [e \in DOMAIN endpoints |-> RevalidatedEndpoint(endpoints[e])]
  /\ capabilities' = [c \in DOMAIN capabilities |-> RevalidatedCapability(capabilities[c])]
  /\ leases' = [l \in DOMAIN leases |-> RevalidatedLease(leases[l])]
  /\ index_by_service' = rebuild_indexes(instances')
  /\ accounting' = Recounted /\ revived' = 0
  /\ UNCHANGED <<epoch, next_boot, next_id, lease_gen, catalog, services, tombstones,
                 invalidations>>

AccountingNext ==
  \/ AccountAuthority \/ AccountCatalog \/ AccountRegistration
  \/ AccountLeases \/ AccountRest \/ Reload

AccountingSpec == AccountingInit /\ [][AccountingNext]_avars

-----------------------------------------------------------------------------
(* Properties                                                              *)

\* Every active lease has been counted by its acquisition or revived by a
\* renewal, and no end of a lease is counted twice, whichever of expiry,
\* revocation, death of its holder or supersession of the holder's boot came
\* first ("duplicate removal/expiration/invalidation never double-account",
\* accounting.hpp).  The revivals are as far as the counters drift.
LeaseCountsBacked ==
  /\ Cardinality(Active) <= accounting.active_leases + revived
  /\ accounting.expired_leases + Cardinality(Active) <= accounting.leases + revived

\* No counter ever goes negative ("Counters only move in ways that cannot go
\* negative", accounting.hpp), although a lease that a renewal made active
\* again without counting it is subtracted when it ends, and no record is left
\* out of the count: not the ones installed by a supersession, nor the ones
\* whose allocated id replaces another record.
CountersCoverRecords ==
  /\ \A c \in Counters : accounting[c] >= 0
  /\ \A c \in DOMAIN Records : Cardinality(DOMAIN Records[c]) <= accounting[c]
=============================================================================
