----------------------------- MODULE Selection ------------------------------
(***************************************************************************)
(* Discovery: Registry::query (selection.cpp).  A query is evaluated under *)
(* the registry's mutex, so against one state of the registry, here the    *)
(* constant record reg of a behaviour.  The loop visits the instances in   *)
(* the order of a hash map, which is any order; each visit is one step.    *)
(*                                                                         *)
(* A version is a tuple <<major, minor, patch>>.  Texts (reasons, details, *)
(* the explanation) are left out; strings that are only compared are model *)
(* strings, the empty one written "".                                      *)
(* An operator whose name starts with Bug_ is a wrong variant of the next  *)
(* definition, which the properties reject.                                *)
(***************************************************************************)
EXTENDS RegistryTypes, Integers, FiniteSets, SequencesExt

CONSTANTS
  Catalogs,    \* registry states that are queried
  Queries      \* the queries

Version == Nat \X Nat \X Nat

\* version_policy is kept as the one question asked of it, whether the newest
\* version is preferred; backend_requirement is read nowhere and left out.  No
\* kind of capability is called "none", which stands for no capability below.
RegistryQuery ==
  [service_kind : STRING, exact_service_id : Nat, runtime_kind : STRING,
   runtime_family : STRING, minimum_api : Version, has_minimum_api : BOOLEAN,
   abi_requirement : Version, has_abi_requirement : BOOLEAN,
   protocol_requirement : Nat, protocol_version : Version,
   has_protocol_version : BOOLEAN, required_capabilities : Seq(STRING \ {"none"}),
   architecture : STRING, required_health : Health, required_readiness : Readiness,
   required_freshness : Freshness, required_reachability : Reachability,
   preferred_node : Nat, preferred_runtime : Nat, prefer_recent : BOOLEAN,
   current_only : BOOLEAN, max_results : Nat]

ASSUME QueriesAssumption == Queries \subseteq RegistryQuery

\* The fields of the records that a query reads.  No operation of the registry
\* stores a TOMBSTONED or INVALIDATED lifecycle.
QueriedInstance ==
  [service_id : Nat, boot : Nat, lifecycle : Lifecycle \ {"TOMBSTONED", "INVALIDATED"},
   freshness : Freshness, lease : Nat, readiness : Readiness, health : Health,
   reachability : Reachability, protocols : SUBSET Nat, capabilities : SUBSET Nat,
   runtime_instance : Nat, runtime_id : Nat, node : Nat]
QueriedService ==
  [kind : STRING, api_version : Version, abi_version : Version, version : Version]

ASSUME CatalogsAssumption ==
  \A r \in Catalogs :
    /\ IsMap(r.instances, Nat, QueriedInstance) /\ IsFiniteSet(DOMAIN r.instances)
    /\ IsMap(r.services, Nat, QueriedService) /\ IsMap(r.leases, Nat, LeaseState)
    /\ IsMap(r.capabilities, Nat, [kind : STRING, freshness : Freshness])

VARIABLES
  reg,         \* the registry during the query
  q,           \* the RegistryQuery
  todo,        \* instances the loop has not visited
  rejected,    \* {<<instance, category>>}
  ranked,      \* {[id, total]}
  saw,         \* the saw_* flags that are set
  result       \* [outcome, selected]; UNKNOWN until the end

svars == <<reg, q, todo, rejected, ranked, saw, result>>

-----------------------------------------------------------------------------
(* Versions                                                                *)

\* StructuredVersion::compare, as the order it defines.
Older(v, w) ==
  \E k \in DOMAIN v : v[k] < w[k] /\ \A j \in 1 .. k - 1 : v[j] = w[j]

negotiate_protocol(required, offered, exact_required) ==
  CASE required = offered -> "EXACT"
    [] required # offered /\ (exact_required \/ required[1] # offered[1]) -> "INCOMPATIBLE"
    [] OTHER -> IF required[2] = offered[2] THEN "EXACT"
                ELSE IF offered[2] > required[2] THEN "UPGRADE_REQUIRED"
                ELSE "DOWNGRADE_ALLOWED"

-----------------------------------------------------------------------------
(* Hard filters                                                            *)

Unrestricted == "UNKNOWN"

readiness_meets(actual, required) ==
  \/ required = Unrestricted \/ actual = required
  \/ required \in {"READY", "PARTIALLY_READY"} /\ actual \in {"READY", "PARTIALLY_READY"}

health_meets(actual, required) ==
  \/ required = Unrestricted \/ actual = required
  \/ required = "DEGRADED" /\ actual = "HEALTHY"

reachability_meets(actual, required) ==
  \/ required = Unrestricted \/ actual = required
  \/ required \in {"REACHABLE", "DEGRADED"} /\ actual \in {"REACHABLE", "DEGRADED"}

freshness_meets(actual, required) == required = Unrestricted \/ actual = required

Bug_LeaseKnown(inst) == inst.lease # None => inst.lease \in DOMAIN reg.leases
LeaseActive(inst) ==
  inst.lease # None => Lookup(reg.leases, inst.lease, "UNKNOWN") = "ACTIVE"

\* capability_satisfaction over all capabilities of an instance.
Known(inst) == inst.capabilities \cap DOMAIN reg.capabilities
Satisfies(inst, req) ==
  \E c \in Known(inst) :
    reg.capabilities[c].kind = req /\ reg.capabilities[c].freshness = "CURRENT"
Mentions(inst, req) == \E c \in Known(inst) : reg.capabilities[c].kind = req

\* The first required capability that is not satisfied.
Lacking(inst) ==
  LET k == SelectInSeq(q.required_capabilities, LAMBDA req : ~Satisfies(inst, req))
  IN  IF k = 0 THEN "none" ELSE q.required_capabilities[k]

WrongRuntime(inst) ==
  inst.runtime_instance \in DOMAIN reg.runtimes /\
  LET rt == reg.runtimes[inst.runtime_instance]
  IN  \/ q.runtime_kind # Unrestricted /\ rt.kind # q.runtime_kind
      \/ q.runtime_family # "" /\ rt.family # q.runtime_family
WrongArchitecture(inst) ==
  inst.runtime_instance \in DOMAIN reg.runtimes /\
  LET rt == reg.runtimes[inst.runtime_instance]
  IN  q.architecture # "" /\ rt.architecture # "" /\ rt.architecture # q.architecture

\* The checks before and after the protocol check, in the order of the code.
StatusFilters(inst) ==
  << <<q.current_only /\ inst.lifecycle \in {"SUPERSEDED", "TOMBSTONED", "RETIRED", "INVALIDATED"},
       "STALE">>,
     <<inst.lifecycle = "STALE", "STALE">>,
     <<inst.lifecycle = "INVALIDATED", "INVALIDATED">>,
     <<inst.lifecycle = "TOMBSTONED", "TOMBSTONED">>,
     <<inst.boot \notin reg.live_boots, "STALE_AUTHORITY">>,
     <<~freshness_meets(inst.freshness, q.required_freshness), "STALE">>,
     <<~LeaseActive(inst), "LEASE_INVALID">>,
     <<~readiness_meets(inst.readiness, q.required_readiness), "UNREADY">>,
     <<~health_meets(inst.health, q.required_health), "UNHEALTHY">>,
     <<~reachability_meets(inst.reachability, q.required_reachability), "UNREACHABLE">> >>

ContractFilters(inst) ==
  LET svc == reg.services[inst.service_id]
      cap == Lacking(inst)
  IN  << <<cap # "none" /\ Mentions(inst, cap), "INSUFFICIENT_EVIDENCE">>,
         <<cap # "none", "MISSING_CAPABILITY">>,
         <<WrongRuntime(inst), "WRONG_RUNTIME">>,
         <<WrongArchitecture(inst), "ARCHITECTURE_MISMATCH">>,
         <<q.has_minimum_api /\ Older(svc.api_version, q.minimum_api), "BELOW_MIN_VERSION">>,
         <<q.has_abi_requirement /\ svc.abi_version[1] # q.abi_requirement[1],
           "INCOMPATIBLE_ABI">> >>

\* The category of the first filter that applies, "none" when all are passed.
FirstHit(filters) ==
  LET k == SelectInSeq(filters, LAMBDA f : f[1])
  IN  IF k = 0 THEN "none" ELSE filters[k][2]

\* The protocol check: one incompatible protocol is enough to be recorded.
ProtocolVerdict(inst) ==
  LET offered == {reg.protocols[p] : p \in inst.protocols \cap DOMAIN reg.protocols}
  IN  IF ~(q.protocol_requirement # None /\ q.has_protocol_version) THEN "none"
      ELSE IF offered = {} THEN "INSUFFICIENT_EVIDENCE"
      ELSE IF \E v \in offered : negotiate_protocol(q.protocol_version, v, FALSE) = "INCOMPATIBLE"
      THEN "INCOMPATIBLE_PROTOCOL" ELSE "none"

\* The categories instance inst is rejected with: at most one, except that an
\* incompatible protocol jumps to done_proto and falls through to the rest.
Rejections(inst) ==
  LET status   == FirstHit(StatusFilters(inst))
      protocol == ProtocolVerdict(inst)
      contract == FirstHit(ContractFilters(inst))
  IN  IF status # "none" THEN {status}
      ELSE IF protocol = "INSUFFICIENT_EVIDENCE" THEN {protocol}
      ELSE {protocol, contract} \ {"none"}
Passes(inst) ==
  /\ FirstHit(StatusFilters(inst)) = "none"
  /\ ProtocolVerdict(inst) # "INSUFFICIENT_EVIDENCE"
  /\ FirstHit(ContractFilters(inst)) = "none"

\* The saw_* flag that a rejection category sets; the rest set none.
Bug_FlagUnready(cat) ==
  IF cat \in {"UNREADY", "UNHEALTHY"} THEN "unhealthy"
  ELSE IF cat \in {"STALE", "STALE_AUTHORITY", "LEASE_INVALID"} THEN "stale"
  ELSE IF cat = "UNREACHABLE" THEN "unreachable"
  ELSE IF cat = "INSUFFICIENT_EVIDENCE" THEN "insufficient"
  ELSE IF cat = "MISSING_CAPABILITY" THEN "any" ELSE "incompatible"
Flag(cat) ==
  CASE cat \in {"STALE", "STALE_AUTHORITY", "LEASE_INVALID", "INVALIDATED", "TOMBSTONED"} -> "stale"
    [] cat = "UNREADY" -> "unready"
    [] cat = "UNHEALTHY" -> "unhealthy"
    [] cat = "UNREACHABLE" -> "unreachable"
    [] cat \in {"INCOMPATIBLE_PROTOCOL", "INCOMPATIBLE_API", "INCOMPATIBLE_ABI",
                "BELOW_MIN_VERSION", "ARCHITECTURE_MISMATCH", "WRONG_RUNTIME"} -> "incompatible"
    [] cat = "INSUFFICIENT_EVIDENCE" -> "insufficient"
    [] OTHER -> "any"

-----------------------------------------------------------------------------
(* Ranking                                                                 *)

Grade(value, full, half, points) ==
  IF value = full THEN points ELSE IF value = half THEN points \div 2 ELSE 0
If(cond, points) == IF cond THEN points ELSE 0

\* How many of the required capabilities are satisfied.
Met(inst) ==
  Cardinality({k \in DOMAIN q.required_capabilities :
                 Satisfies(inst, q.required_capabilities[k])})

\* The sum of the named factors.
Score(inst) ==
  LET svc  == reg.services[inst.service_id]
      need == Len(q.required_capabilities)
  IN  If(q.exact_service_id # None /\ inst.service_id = q.exact_service_id, 1000)
      + If(q.has_minimum_api /\ svc.api_version = q.minimum_api, 200)
      + (IF ~q.has_abi_requirement THEN 0
         ELSE IF svc.abi_version = q.abi_requirement THEN 150
         ELSE If(svc.abi_version[1] = q.abi_requirement[1], 80))
      + (IF need = 0 THEN 100 ELSE (100 * Met(inst)) \div need)
      + Grade(inst.readiness, "READY", "PARTIALLY_READY", 80)
      + Grade(inst.health, "HEALTHY", "DEGRADED", 80)
      + If(q.preferred_node # None /\ inst.node = q.preferred_node, 100)
      + If(q.preferred_runtime # None /\ inst.runtime_id = q.preferred_runtime, 100)
      + svc.version[1] * 100 + svc.version[2] * 10 + svc.version[3]
      + Grade(inst.reachability, "REACHABLE", "DEGRADED", 60)
      + If(inst.freshness = "CURRENT", 100)
      + If(q.prefer_recent, 10)

\* The comparison std::sort is given.
Bug_ByIdFirst(a, b) == a.id < b.id
Ahead(a, b) == a.total > b.total \/ (a.total = b.total /\ a.id < b.id)

Truncated(ids) == IF Len(ids) > q.max_results THEN SubSeq(ids, 1, q.max_results) ELSE ids

-----------------------------------------------------------------------------
(* The loop                                                                *)

Done == result.outcome # "UNKNOWN"

SelectionInit ==
  /\ reg \in Catalogs /\ q \in Queries
  /\ todo = DOMAIN reg.instances
  /\ rejected = {} /\ ranked = {} /\ saw = {}
  /\ result = [outcome |-> "UNKNOWN", selected |-> << >>]

\* Passed over before it counts as considered.
OutOfScope(inst) ==
  \/ inst.service_id \notin DOMAIN reg.services
  \/ q.exact_service_id # None /\ inst.service_id # q.exact_service_id
OtherKind(inst) ==
  q.service_kind # Unrestricted /\ reg.services[inst.service_id].kind # q.service_kind

\* Only a wrong kind leaves a trace of a candidate that is passed over.
Skip(i) ==
  LET inst == reg.instances[i]
  IN  /\ OutOfScope(inst) \/ OtherKind(inst)
      /\ saw' = IF OutOfScope(inst) THEN saw ELSE saw \cup {"any", "incompatible"}
      /\ UNCHANGED <<rejected, ranked>>

Bug_ConsiderFirst(i) ==
  LET inst == reg.instances[i]
  IN  /\ ~OutOfScope(inst) /\ ~OtherKind(inst)
      /\ rejected' = IF ranked # {} THEN rejected ELSE rejected \cup {<<i, c>> : c \in Rejections(inst)}
      /\ saw' = saw \cup {"any"} \cup {Flag(c) : c \in Rejections(inst)}
      /\ ranked' = IF Passes(inst) THEN ranked \cup {[id |-> i, total |-> Score(inst)]} ELSE ranked
Consider(i) ==
  LET inst == reg.instances[i]
  IN  /\ ~OutOfScope(inst) /\ ~OtherKind(inst)
      /\ rejected' = rejected \cup {<<i, c>> : c \in Rejections(inst)}
      /\ saw' = saw \cup {"any"} \cup {Flag(c) : c \in Rejections(inst)}
      /\ ranked' = IF Passes(inst)
                   THEN ranked \cup {[id |-> i, total |-> Score(inst)]} ELSE ranked

Visit(i) ==
  /\ Skip(i) \/ Consider(i)
  /\ todo' = todo \ {i}
  /\ UNCHANGED <<reg, q, result>>

Outcome ==
  IF Cardinality(ranked) = 1 THEN "FOUND_EXACT"
  ELSE IF ranked # {} THEN "FOUND_MULTIPLE"
  ELSE IF saw = {} THEN "NOT_FOUND"
  ELSE IF saw \ {"any"} = {"insufficient"} THEN "INSUFFICIENT_EVIDENCE"
  ELSE IF "stale" \in saw THEN "STALE_ONLY"
  ELSE IF "unready" \in saw THEN "UNREADY_ONLY"
  ELSE IF "unhealthy" \in saw THEN "UNHEALTHY_ONLY"
  ELSE IF "unreachable" \in saw THEN "UNREACHABLE_ONLY"
  ELSE IF "incompatible" \in saw THEN "INCOMPATIBLE_ONLY"
  ELSE "INSUFFICIENT_EVIDENCE"

\* What std::sort may leave: every candidate once, none before one that the
\* comparison puts ahead of it.
Orders ==
  {s \in Injection(1 .. Cardinality(ranked), ranked) :
     \A k, m \in DOMAIN s : k < m => ~Ahead(s[m], s[k])}

Finish ==
  /\ todo = {} /\ ~Done
  /\ \E order \in Orders :
       result' = [outcome |-> Outcome,
                  selected |-> Truncated([k \in DOMAIN order |-> order[k].id])]
  /\ UNCHANGED <<reg, q, todo, rejected, ranked, saw>>

SelectionNext == (\E i \in todo : Visit(i)) \/ Finish

SelectionSpec == SelectionInit /\ [][SelectionNext]_svars

-----------------------------------------------------------------------------
(* Properties                                                              *)

Selected == Range(result.selected)

\* Whatever the query asks for or leaves open, a selected instance belongs to a
\* live incarnation, holds an active lease if it holds one, has every required
\* capability from current evidence ("UNKNOWN never satisfies a required
\* capability"), has the status the query requires or a better one, of which
\* "UNKNOWN readiness never becomes READY" is a part, and, in a current lookup,
\* is not history, although its lifecycle may have been stored long before.
SelectedIsTrustworthy ==
  Done => \A i \in Selected :
    LET inst == reg.instances[i]
        Suffices(actual, required, better) ==
          required # Unrestricted => actual \in {required} \cup better
    IN  /\ inst.boot \in reg.live_boots /\ inst.lifecycle # "STALE"
        /\ inst.lease # None => inst.lease \in DOMAIN reg.leases /\ reg.leases[inst.lease] = "ACTIVE"
        /\ \A req \in Range(q.required_capabilities) :
             \E c \in inst.capabilities \cap DOMAIN reg.capabilities :
               reg.capabilities[c] = [kind |-> req, freshness |-> "CURRENT"]
        /\ Suffices(inst.freshness, q.required_freshness, {})
        /\ Suffices(inst.health, q.required_health, {"HEALTHY"})
        /\ Suffices(inst.readiness, q.required_readiness, {"READY", "PARTIALLY_READY"})
        /\ Suffices(inst.reachability, q.required_reachability, {"REACHABLE", "DEGRADED"})
        /\ q.current_only => inst.lifecycle \notin {"SUPERSEDED", "RETIRED"}

\* The selection is deterministic: in whatever order the hash map yields the
\* instances, the result is the max_results best of all instances that pass
\* the filters, the best first, equal totals by smaller id.
Eligible == {i \in DOMAIN reg.instances :
               LET inst == reg.instances[i]
               IN  ~OutOfScope(inst) /\ ~OtherKind(inst) /\ Passes(inst)}
Beats(i, j) ==
  LET a == Score(reg.instances[i]) b == Score(reg.instances[j])
  IN  a > b \/ (a = b /\ i < j)
SelectionIsDeterministic ==
  Done => LET best == {i \in Eligible :
                         Cardinality({j \in Eligible : Beats(j, i)}) < q.max_results}
          IN  /\ Selected = best /\ Len(result.selected) = Cardinality(best)
              /\ \A k, m \in DOMAIN result.selected :
                   k < m => Beats(result.selected[k], result.selected[m])

\* Every candidate is accounted for: an instance in the scope of the query is
\* ranked or has at least one recorded rejection, and nothing else has ("every
\* query returns an explanation").
EveryCandidateExplained ==
  Done => {r.id : r \in ranked} \cup {r[1] : r \in rejected} =
            {i \in DOMAIN reg.instances :
               LET inst == reg.instances[i] IN ~OutOfScope(inst) /\ ~OtherKind(inst)}

\* The outcome tells the caller the truth: FOUND exactly when something can be
\* selected, NOT_FOUND only when nothing in scope was looked at, every other
\* verdict only if some candidate was turned away for that reason, or passed
\* over as of another kind, and INSUFFICIENT_EVIDENCE, the last resort of the
\* ladder, only if there was no other reason for anyone.
Blamed ==
  [STALE_ONLY |-> {"STALE", "STALE_AUTHORITY", "LEASE_INVALID"},
   UNREADY_ONLY |-> {"UNREADY"}, UNHEALTHY_ONLY |-> {"UNHEALTHY"},
   UNREACHABLE_ONLY |-> {"UNREACHABLE"},
   INCOMPATIBLE_ONLY |-> {"WRONG_RUNTIME", "ARCHITECTURE_MISMATCH", "BELOW_MIN_VERSION",
                          "INCOMPATIBLE_ABI", "INCOMPATIBLE_PROTOCOL"},
   INSUFFICIENT_EVIDENCE |-> {"INSUFFICIENT_EVIDENCE", "MISSING_CAPABILITY"}]
OutcomeIsBacked ==
  Done =>
    /\ result.outcome \in {"FOUND_EXACT", "FOUND_MULTIPLE"} <=> Eligible # {}
    /\ result.outcome = "NOT_FOUND" =>
         \A i \in DOMAIN reg.instances : OutOfScope(reg.instances[i])
    /\ result.outcome \in DOMAIN Blamed =>
         \/ \E r \in rejected : r[2] \in Blamed[result.outcome]
         \/ /\ result.outcome = "INCOMPATIBLE_ONLY"
            /\ \E i \in DOMAIN reg.instances :
                 ~OutOfScope(reg.instances[i]) /\ OtherKind(reg.instances[i])
    /\ result.outcome = "INSUFFICIENT_EVIDENCE" =>
         \A r \in rejected : r[2] \in Blamed[result.outcome]

\* README: "Hard filters eliminate candidates first; remaining candidates are
\* ranked".  No candidate is both rejected and ranked.  The protocol filter
\* records its rejection and the goto behind it continues with the ranking.
FiltersEliminate ==
  Done => {r.id : r \in ranked} \cap {r[1] : r \in rejected} = {}
=============================================================================
