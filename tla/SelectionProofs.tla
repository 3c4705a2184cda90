-------------------------- MODULE SelectionProofs ---------------------------
(***************************************************************************)
(* Registry::query, for any registry state and any query: what the loop    *)
(* has recorded is a function of the instances it has visited, so that     *)
(* neither the order of the hash map nor the moment of a look matters, and *)
(* what std::sort leaves is the one order the comparison allows.           *)
(***************************************************************************)
EXTENDS Selection, FiniteSetTheorems, SequenceTheorems, WellFoundedInduction, TLAPS

-----------------------------------------------------------------------------
(* The first filter that hits                                              *)

\* A set of naturals with an element has a smallest one.
LEMMA LeastNatural ==
  ASSUME NEW I, I \subseteq Nat, I # {}
  PROVE  /\ \E x \in I : \A y \in I : x <= y
         /\ Min(I) \in I /\ \A y \in I : Min(I) <= y
<1> DEFINE R == {p \in Nat \X Nat : p[1] < p[2]}
<1>0. IsWellFoundedOn(R, Nat)
  BY NatLessThanWellFounded DEF OpToRel
<1> HIDE DEF R
<1>1. PICK x \in I : \A y \in I : ~(<<y, x>> \in R)
  BY <1>0, WFMin
<1>2. ASSUME NEW y \in I
      PROVE  x <= y
  <2>1. x \in Nat /\ y \in Nat
    OBVIOUS
  <2>2. <<y, x>> \in Nat \X Nat /\ y < x => <<y, x>> \in R
    BY DEF R
  <2>3. QED
    BY <1>1, <2>1, <2>2
<1>3. QED
  BY <1>2 DEF Min

LEMMA FirstHitFacts ==
  ASSUME NEW filters, NEW n \in Nat, Len(filters) = n
  PROVE  \/ FirstHit(filters) = "none" /\ \A k \in 1 .. n : ~filters[k][1]
         \/ \E k \in 1 .. n : filters[k][1] /\ FirstHit(filters) = filters[k][2]
<1> DEFINE I == {k \in 1 .. Len(filters) : filters[k][1]}
           first == IF I # {} THEN Min(I) ELSE 0
<1>1. FirstHit(filters) = IF first = 0 THEN "none" ELSE filters[first][2]
  BY DEF FirstHit, SelectInSeq
<1>2. I # {} => Min(I) \in I
  <2>1. I \subseteq Nat
    OBVIOUS
  <2> HIDE DEF I
  <2>2. QED
    BY <2>1, LeastNatural
<1>3. CASE I = {}
  BY <1>1, <1>3
<1>4. CASE I # {}
  <2>1. Min(I) \in 1 .. n /\ filters[Min(I)][1] /\ first = Min(I) /\ first # 0
    BY <1>2, <1>4
  <2> HIDE DEF first, I
  <2>2. QED
    BY <1>1, <2>1
<1>5. QED
  BY <1>3, <1>4

-----------------------------------------------------------------------------
(* What a candidate is turned away for                                     *)

\* The lifecycle and the status fields: the categories they give, and what holds
\* of an instance that passes them.
LEMMA StatusFacts ==
  ASSUME NEW inst \in QueriedInstance
  PROVE  /\ FirstHit(StatusFilters(inst)) \in {"none", "STALE", "STALE_AUTHORITY",
              "LEASE_INVALID", "UNREADY", "UNHEALTHY", "UNREACHABLE"}
         /\ FirstHit(StatusFilters(inst)) = "none" =>
              /\ inst.boot \in reg.live_boots /\ inst.lifecycle # "STALE" /\ LeaseActive(inst)
              /\ ~(q.current_only /\ inst.lifecycle \in {"SUPERSEDED", "RETIRED"})
              /\ freshness_meets(inst.freshness, q.required_freshness)
              /\ readiness_meets(inst.readiness, q.required_readiness)
              /\ health_meets(inst.health, q.required_health)
              /\ reachability_meets(inst.reachability, q.required_reachability)
<1> DEFINE f == StatusFilters(inst)
<1>1. Len(f) = 10
  BY DEF StatusFilters
<1>2. /\ f[1][2] = "STALE" /\ f[2][2] = "STALE" /\ f[5][2] = "STALE_AUTHORITY"
      /\ f[6][2] = "STALE" /\ f[7][2] = "LEASE_INVALID" /\ f[8][2] = "UNREADY"
      /\ f[9][2] = "UNHEALTHY" /\ f[10][2] = "UNREACHABLE"
  BY DEF StatusFilters
<1>3. ~f[3][1] /\ ~f[4][1]
  BY DEF StatusFilters, QueriedInstance
<1>4. /\ f[2][1] <=> inst.lifecycle = "STALE"
      /\ f[5][1] <=> inst.boot \notin reg.live_boots
      /\ f[6][1] <=> ~freshness_meets(inst.freshness, q.required_freshness)
      /\ f[7][1] <=> ~LeaseActive(inst)
      /\ f[8][1] <=> ~readiness_meets(inst.readiness, q.required_readiness)
      /\ f[9][1] <=> ~health_meets(inst.health, q.required_health)
      /\ f[10][1] <=> ~reachability_meets(inst.reachability, q.required_reachability)
      /\ q.current_only /\ inst.lifecycle \in {"SUPERSEDED", "RETIRED"} => f[1][1]
  BY DEF StatusFilters
<1> HIDE DEF f
<1>5. \/ FirstHit(f) = "none" /\ \A k \in 1 .. 10 : ~f[k][1]
      \/ \E k \in 1 .. 10 : f[k][1] /\ FirstHit(f) = f[k][2]
  BY <1>1, FirstHitFacts
<1>6. QED
  BY <1>2, <1>3, <1>4, <1>5 DEF f

\* No required capability is lacking exactly when each is satisfied.
LEMMA LackingFacts ==
  ASSUME q \in RegistryQuery, NEW inst
  PROVE  Lacking(inst) = "none" =>
           \A req \in Range(q.required_capabilities) : Satisfies(inst, req)
<1> DEFINE caps == q.required_capabilities
           I == {k \in 1 .. Len(caps) : ~Satisfies(inst, caps[k])}
<1>1. caps \in Seq(STRING \ {"none"})
  BY DEF RegistryQuery
<1>2. Lacking(inst) = LET first == IF I # {} THEN Min(I) ELSE 0
                      IN  IF first = 0 THEN "none" ELSE caps[first]
  BY DEF Lacking, SelectInSeq
<1>3. I # {} => Min(I) \in I
  <2>1. I \subseteq Nat
    BY <1>1
  <2> HIDE DEF I
  <2>2. QED
    BY <2>1, LeastNatural
<1>4. \A k \in I : k # 0 /\ caps[k] # "none"
  BY <1>1
<1>5. \A req \in Range(caps) : \E k \in 1 .. Len(caps) : req = caps[k]
  BY <1>1 DEF Range
<1>6. Lacking(inst) = "none" => I = {}
  <2> HIDE DEF I, caps
  <2>1. QED
    BY <1>2, <1>3, <1>4
<1>7. QED
  BY <1>5, <1>6

\* Capabilities, runtime, architecture and versions.
LEMMA ContractFacts ==
  ASSUME NEW inst
  PROVE  /\ FirstHit(ContractFilters(inst)) \in {"none", "INSUFFICIENT_EVIDENCE",
              "MISSING_CAPABILITY", "WRONG_RUNTIME", "ARCHITECTURE_MISMATCH",
              "BELOW_MIN_VERSION", "INCOMPATIBLE_ABI"}
         /\ FirstHit(ContractFilters(inst)) = "none" => Lacking(inst) = "none"
<1> DEFINE f == ContractFilters(inst)
<1>1. Len(f) = 6
  BY DEF ContractFilters
<1>2. /\ f[1][2] = "INSUFFICIENT_EVIDENCE" /\ f[2][2] = "MISSING_CAPABILITY"
      /\ f[3][2] = "WRONG_RUNTIME" /\ f[4][2] = "ARCHITECTURE_MISMATCH"
      /\ f[5][2] = "BELOW_MIN_VERSION" /\ f[6][2] = "INCOMPATIBLE_ABI"
  BY DEF ContractFilters
<1>3. f[2][1] <=> Lacking(inst) # "none"
  BY DEF ContractFilters
<1> HIDE DEF f
<1>4. \/ FirstHit(f) = "none" /\ \A k \in 1 .. 6 : ~f[k][1]
      \/ \E k \in 1 .. 6 : f[k][1] /\ FirstHit(f) = f[k][2]
  BY <1>1, FirstHitFacts
<1>5. QED
  BY <1>2, <1>3, <1>4 DEF f

LEMMA ProtocolFacts ==
  ASSUME NEW inst
  PROVE  ProtocolVerdict(inst) \in {"none", "INSUFFICIENT_EVIDENCE", "INCOMPATIBLE_PROTOCOL"}
BY DEF ProtocolVerdict

\* A candidate that does not pass is rejected, and every rejection has one of
\* these categories.
LEMMA RejectionFacts ==
  ASSUME NEW inst \in QueriedInstance
  PROVE  /\ ~Passes(inst) => Rejections(inst) # {}
         /\ Rejections(inst) \subseteq
              {"STALE", "STALE_AUTHORITY", "LEASE_INVALID", "UNREADY", "UNHEALTHY",
               "UNREACHABLE", "INSUFFICIENT_EVIDENCE", "MISSING_CAPABILITY", "WRONG_RUNTIME",
               "ARCHITECTURE_MISMATCH", "BELOW_MIN_VERSION", "INCOMPATIBLE_ABI",
               "INCOMPATIBLE_PROTOCOL"}
BY StatusFacts, ContractFacts, ProtocolFacts DEF Passes, Rejections

-----------------------------------------------------------------------------
(* The loop                                                                *)

Visited == DOMAIN reg.instances \ todo
InScope(i) == ~OutOfScope(reg.instances[i]) /\ ~OtherKind(reg.instances[i])
Ranking(i) == [id |-> i, total |-> Score(reg.instances[i])]

\* No flag is missing, and none is set before there is something to look at.
Flagged ==
  /\ \A i \in Visited : InScope(i) =>
       \A c \in Rejections(reg.instances[i]) : Flag(c) \in saw
  /\ \A i \in Visited :
       ~OutOfScope(reg.instances[i]) /\ OtherKind(reg.instances[i]) => "incompatible" \in saw
  /\ saw # {} => \E i \in Visited : ~OutOfScope(reg.instances[i])

\* What the loop recorded is what the visited instances call for.
Recorded ==
  /\ reg \in Catalogs /\ q \in RegistryQuery /\ todo \subseteq DOMAIN reg.instances
  /\ \A r \in rejected : \E i \in Visited :
       InScope(i) /\ \E c \in Rejections(reg.instances[i]) : r = <<i, c>>
  /\ \A i \in Visited : InScope(i) =>
       \A c \in Rejections(reg.instances[i]) : <<i, c>> \in rejected
  /\ \A r \in ranked : \E i \in Visited :
       InScope(i) /\ Passes(reg.instances[i]) /\ r = Ranking(i)
  /\ \A i \in Visited : InScope(i) /\ Passes(reg.instances[i]) => Ranking(i) \in ranked
  /\ \A f \in saw \ {"any"} :
       \/ /\ f = "incompatible"
          /\ \E i \in Visited : ~OutOfScope(reg.instances[i]) /\ OtherKind(reg.instances[i])
       \/ \E i \in Visited :
            InScope(i) /\ \E c \in Rejections(reg.instances[i]) : f = Flag(c)
  /\ \A i \in Visited : ~OutOfScope(reg.instances[i]) => saw # {}
  /\ Flagged

\* The result was made from it when the loop had visited all instances.
Resulting ==
  Done => /\ todo = {} /\ result.outcome = Outcome
          /\ \E order \in Orders :
               result.selected = Truncated([k \in DOMAIN order |-> order[k].id])

LoopInv == Recorded /\ Resulting

LEMMA LoopInitial == SelectionInit => LoopInv
BY QueriesAssumption DEF SelectionInit, LoopInv, Recorded, Flagged, Resulting, Visited, Done


\* The verdict on an instance depends on the registry and the query alone.
LEMMA SameVerdicts ==
  ASSUME reg' = reg, q' = q
  PROVE  \A i : /\ InScope(i)' <=> InScope(i)
                /\ OutOfScope(reg.instances[i])' <=> OutOfScope(reg.instances[i])
                /\ OtherKind(reg.instances[i])' <=> OtherKind(reg.instances[i])
                /\ Rejections(reg.instances[i])' = Rejections(reg.instances[i])
                /\ Passes(reg.instances[i])' <=> Passes(reg.instances[i])
                /\ Ranking(i)' = Ranking(i)
<1>1. \A inst : StatusFilters(inst)' = StatusFilters(inst)
  BY DEF StatusFilters, LeaseActive
<1>2. \A inst : Known(inst)' = Known(inst)
  BY DEF Known
<1>3. \A inst, req : /\ Satisfies(inst, req)' <=> Satisfies(inst, req)
                     /\ Mentions(inst, req)' <=> Mentions(inst, req)
  BY <1>2 DEF Satisfies, Mentions
<1>4. \A inst : Lacking(inst)' = Lacking(inst)
  BY <1>3 DEF Lacking, SelectInSeq
<1>5. \A inst : ContractFilters(inst)' = ContractFilters(inst)
  BY <1>3, <1>4 DEF ContractFilters, WrongRuntime, WrongArchitecture
<1>6. \A inst : ProtocolVerdict(inst)' = ProtocolVerdict(inst)
  BY DEF ProtocolVerdict
<1>7. \A inst : Rejections(inst)' = Rejections(inst) /\ (Passes(inst)' <=> Passes(inst))
  BY <1>1, <1>5, <1>6 DEF Rejections, Passes
<1>8. \A inst : Score(inst)' = Score(inst)
  <2>1. \A inst : Met(inst)' = Met(inst)
    BY <1>3 DEF Met
  <2>2. QED
    BY <2>1 DEF Score
<1>9. \A inst : (OutOfScope(inst)' <=> OutOfScope(inst)) /\ (OtherKind(inst)' <=> OtherKind(inst))
  BY DEF OutOfScope, OtherKind
<1>10. QED
  BY <1>7, <1>8, <1>9 DEF InScope, Ranking

LEMMA LoopVisit ==
  ASSUME LoopInv, NEW i \in todo, Visit(i)
  PROVE  LoopInv'
<1> DEFINE inst == reg.instances[i]
<1>1. /\ reg' = reg /\ q' = q /\ result' = result /\ todo' = todo \ {i}
      /\ i \in DOMAIN reg.instances /\ todo \subseteq DOMAIN reg.instances
      /\ reg \in Catalogs /\ q \in RegistryQuery
  BY DEF LoopInv, Recorded, Resulting, Visit
<1>2. Visited' = Visited \cup {i} /\ i \notin Visited
  BY <1>1 DEF Visited
<1>3. /\ ~Done /\ ~Done'
  BY <1>1 DEF LoopInv, Recorded, Resulting, Done
<1>4. \/ /\ ~InScope(i) /\ UNCHANGED <<rejected, ranked>>
         /\ saw' = IF OutOfScope(inst) THEN saw ELSE saw \cup {"any", "incompatible"}
      \/ /\ InScope(i)
         /\ rejected' = rejected \cup {<<i, c>> : c \in Rejections(inst)}
         /\ saw' = saw \cup {"any"} \cup {Flag(c) : c \in Rejections(inst)}
         /\ ranked' = IF Passes(inst) THEN ranked \cup {Ranking(i)} ELSE ranked
  BY DEF Visit, Skip, Consider, InScope, Ranking
<1>5. /\ \A r \in rejected' : \E j \in Visited' :
           InScope(j) /\ \E c \in Rejections(reg.instances[j]) : r = <<j, c>>
      /\ \A j \in Visited' : InScope(j) =>
           \A c \in Rejections(reg.instances[j]) : <<j, c>> \in rejected'
  BY <1>2, <1>4 DEF LoopInv, Recorded, Resulting
<1>6. /\ \A r \in ranked' : \E j \in Visited' :
           InScope(j) /\ Passes(reg.instances[j]) /\ r = Ranking(j)
      /\ \A j \in Visited' : InScope(j) /\ Passes(reg.instances[j]) => Ranking(j) \in ranked'
  BY <1>2, <1>4 DEF LoopInv, Recorded, Resulting
<1>7. /\ \A f \in saw' \ {"any"} :
           \/ /\ f = "incompatible"
              /\ \E j \in Visited' : ~OutOfScope(reg.instances[j]) /\ OtherKind(reg.instances[j])
           \/ \E j \in Visited' :
                InScope(j) /\ \E c \in Rejections(reg.instances[j]) : f = Flag(c)
      /\ \A j \in Visited' : ~OutOfScope(reg.instances[j]) => saw' # {}
  BY <1>2, <1>4 DEF LoopInv, Recorded, Resulting, InScope
<1>8. Flagged'
  <2>1. Flagged
    BY DEF LoopInv, Recorded
  <2>2. \A j \in Visited' : InScope(j) =>
          \A c \in Rejections(reg.instances[j]) : Flag(c) \in saw'
    BY <1>2, <1>4, <2>1 DEF Flagged
  <2>3. \A j \in Visited' :
          ~OutOfScope(reg.instances[j]) /\ OtherKind(reg.instances[j]) => "incompatible" \in saw'
    BY <1>2, <1>4, <2>1 DEF Flagged, InScope
  <2>4. saw' # {} => \E j \in Visited' : ~OutOfScope(reg.instances[j])
    BY <1>2, <1>4, <2>1 DEF Flagged, InScope
  <2>5. QED
    BY <1>1, <2>2, <2>3, <2>4, SameVerdicts DEF Flagged
<1>9. QED
  BY <1>1, <1>3, <1>5, <1>6, <1>7, <1>8, SameVerdicts DEF LoopInv, Recorded, Resulting

LEMMA LoopFinish ==
  ASSUME LoopInv, Finish
  PROVE  LoopInv'
<1>1. reg' = reg /\ q' = q /\ UNCHANGED <<todo, rejected, ranked, saw>> /\ todo = {}
  BY DEF Finish
<1>2. PICK order \in Orders :
        result' = [outcome |-> Outcome,
                   selected |-> Truncated([k \in DOMAIN order |-> order[k].id])]
  BY DEF Finish
<1>3. Visited' = Visited
  BY <1>1 DEF Visited
<1>4. Outcome' = Outcome /\ Orders' = Orders
  BY <1>1 DEF Outcome, Orders
<1>5. \A ids : Truncated(ids)' = Truncated(ids)
  BY <1>1 DEF Truncated
<1>6. /\ result'.outcome = Outcome'
      /\ \E o \in Orders' : result'.selected = Truncated([k \in DOMAIN o |-> o[k].id])'
  BY <1>2, <1>4, <1>5
<1>7. Flagged'
  BY <1>1, <1>3, SameVerdicts DEF LoopInv, Recorded, Flagged
<1>8. Recorded'
  BY <1>1, <1>3, <1>7, SameVerdicts DEF LoopInv, Recorded
<1>9. Resulting'
  BY <1>1, <1>6 DEF Resulting
<1>10. QED
  BY <1>8, <1>9 DEF LoopInv

LEMMA LoopInvariant == SelectionSpec => []LoopInv
<1>1. LoopInv /\ UNCHANGED svars => LoopInv'
  <2> SUFFICES ASSUME LoopInv, UNCHANGED svars PROVE LoopInv'
    OBVIOUS
  <2>1. /\ reg' = reg /\ q' = q /\ todo' = todo /\ rejected' = rejected /\ ranked' = ranked
        /\ saw' = saw /\ result' = result
    BY DEF svars
  <2>2. Visited' = Visited /\ Outcome' = Outcome /\ Orders' = Orders /\ (Done' <=> Done)
    BY <2>1 DEF Visited, Outcome, Orders, Done
  <2>3. \A ids : Truncated(ids)' = Truncated(ids)
    BY <2>1 DEF Truncated
  <2>4. Flagged'
    BY <2>1, <2>2, SameVerdicts DEF LoopInv, Recorded, Flagged
  <2>5. Recorded'
    BY <2>1, <2>2, <2>4, SameVerdicts DEF LoopInv, Recorded
  <2>6. Resulting'
    BY <2>1, <2>2, <2>3 DEF LoopInv, Resulting
  <2>7. QED
    BY <2>5, <2>6 DEF LoopInv
<1>2. LoopInv /\ [SelectionNext]_svars => LoopInv'
  BY <1>1, LoopVisit, LoopFinish DEF SelectionNext
<1>3. QED
  BY <1>2, LoopInitial, PTL DEF SelectionSpec

-----------------------------------------------------------------------------
(* What follows when the query is done                                     *)

LEMMA InstanceType ==
  ASSUME reg \in Catalogs
  PROVE  /\ DOMAIN reg.instances \subseteq Nat /\ IsFiniteSet(DOMAIN reg.instances)
         /\ \A i \in DOMAIN reg.instances : reg.instances[i] \in QueriedInstance
BY CatalogsAssumption DEF IsMap

\* Whatever the registry and the query are, no candidate goes unexplained: the
\* instances in scope are exactly the ranked and the rejected ones.
THEOREM ExplanationComplete == SelectionSpec => []EveryCandidateExplained
<1>1. LoopInv => EveryCandidateExplained
  <2> SUFFICES ASSUME LoopInv, Done
               PROVE  {r.id : r \in ranked} \cup {r[1] : r \in rejected} =
                        {i \in DOMAIN reg.instances : InScope(i)}
    BY DEF EveryCandidateExplained, InScope
  <2>1. Visited = DOMAIN reg.instances
    BY DEF LoopInv, Recorded, Resulting, Visited
  <2>2. \A r \in ranked : \E i \in DOMAIN reg.instances : InScope(i) /\ r.id = i
    BY <2>1 DEF LoopInv, Recorded, Resulting, Ranking
  <2>3. \A r \in rejected : \E i \in DOMAIN reg.instances : InScope(i) /\ r[1] = i
    BY <2>1 DEF LoopInv, Recorded, Resulting
  <2>4. ASSUME NEW i \in DOMAIN reg.instances, InScope(i)
        PROVE  \/ \E r \in ranked : r.id = i
               \/ \E r \in rejected : r[1] = i
    <3>1. CASE Passes(reg.instances[i])
      <4>1. Ranking(i) \in ranked /\ Ranking(i).id = i
        BY <2>1, <2>4, <3>1 DEF LoopInv, Recorded, Resulting, Ranking
      <4>2. QED
        BY <4>1
    <3>2. CASE ~Passes(reg.instances[i])
      <4>1. reg.instances[i] \in QueriedInstance
        BY InstanceType DEF LoopInv, Recorded, Resulting
      <4>2. PICK c : c \in Rejections(reg.instances[i])
        BY <3>2, <4>1, RejectionFacts
      <4>3. <<i, c>> \in rejected
        BY <2>1, <2>4, <4>2 DEF LoopInv, Recorded, Resulting
      <4>4. QED
        BY <4>3
    <3>3. QED
      BY <3>1, <3>2
  <2>5. QED
    BY <2>2, <2>3, <2>4
<1>2. QED
  BY <1>1, LoopInvariant, PTL

\* The flag of a category tells which category it was.
LEMMA FlagFacts ==
  ASSUME NEW inst \in QueriedInstance, NEW c \in Rejections(inst)
  PROVE  /\ Flag(c) = "stale" => c \in Blamed["STALE_ONLY"]
         /\ Flag(c) = "unready" => c \in Blamed["UNREADY_ONLY"]
         /\ Flag(c) = "unhealthy" => c \in Blamed["UNHEALTHY_ONLY"]
         /\ Flag(c) = "unreachable" => c \in Blamed["UNREACHABLE_ONLY"]
         /\ Flag(c) = "incompatible" => c \in Blamed["INCOMPATIBLE_ONLY"]
         /\ Flag(c) \in {"insufficient", "any"} => c \in Blamed["INSUFFICIENT_EVIDENCE"]
         /\ Flag(c) \in {"stale", "unready", "unhealthy", "unreachable", "incompatible",
                         "insufficient", "any"}
BY RejectionFacts DEF Flag, Blamed

\* Some candidate was turned away for one of these.
TurnedAway(cats) == \E r \in rejected : r[2] \in cats
OtherKindSeen ==
  \E i \in DOMAIN reg.instances :
    ~OutOfScope(reg.instances[i]) /\ OtherKind(reg.instances[i])

\* The ladder of outcomes tells the truth for every mix of candidates and
\* rejections: what is said to be found can be selected, what is blamed turned a
\* candidate away, and evidence is called insufficient only when nothing else
\* was wrong with anyone.
THEOREM OutcomeTrue == SelectionSpec => []OutcomeIsBacked
<1>1. LoopInv => OutcomeIsBacked
  <2> SUFFICES ASSUME LoopInv, Done PROVE OutcomeIsBacked
    BY DEF OutcomeIsBacked
  <2> DEFINE o == result.outcome
  <2>1. Visited = DOMAIN reg.instances /\ o = Outcome
    BY DEF LoopInv, Recorded, Resulting, Visited
  <2>2. ranked # {} <=> Eligible # {}
    <3>1. \A r \in ranked : \E i \in DOMAIN reg.instances : InScope(i) /\ Passes(reg.instances[i])
      BY <2>1 DEF LoopInv, Recorded, Resulting
    <3>2. \A i \in DOMAIN reg.instances :
            InScope(i) /\ Passes(reg.instances[i]) => Ranking(i) \in ranked
      BY <2>1 DEF LoopInv, Recorded, Resulting
    <3>3. QED
      BY <3>1, <3>2 DEF Eligible, InScope
  <2>3. Cardinality(ranked) = 1 => ranked # {}
    BY FS_EmptySet
  <2>4. ASSUME NEW f \in saw, NEW cats,
               \A i \in DOMAIN reg.instances : \A c \in Rejections(reg.instances[i]) :
                 Flag(c) = f => c \in cats,
               f # "any"
        PROVE  TurnedAway(cats) \/ (f = "incompatible" /\ OtherKindSeen)
    <3>1. SUFFICES ASSUME NEW i \in DOMAIN reg.instances, InScope(i),
                          NEW c \in Rejections(reg.instances[i]), f = Flag(c)
                   PROVE  TurnedAway(cats)
      BY <2>1, <2>4 DEF LoopInv, Recorded, Resulting, OtherKindSeen
    <3>2. <<i, c>> \in rejected /\ c \in cats
      BY <2>1, <2>4, <3>1 DEF LoopInv, Recorded, Resulting
    <3>3. QED
      BY <3>2 DEF TurnedAway
  <2>5. \A i \in DOMAIN reg.instances : reg.instances[i] \in QueriedInstance
    BY InstanceType DEF LoopInv, Recorded, Resulting
  <2>6. o \in {"FOUND_EXACT", "FOUND_MULTIPLE"} <=> Eligible # {}
    BY <2>1, <2>2, <2>3 DEF Outcome
  <2>7. o = "NOT_FOUND" => \A i \in DOMAIN reg.instances : OutOfScope(reg.instances[i])
    BY <2>1 DEF Outcome, LoopInv, Recorded, Resulting
  <2>8. /\ o = "STALE_ONLY" => "stale" \in saw
        /\ o = "UNREADY_ONLY" => "unready" \in saw
        /\ o = "UNHEALTHY_ONLY" => "unhealthy" \in saw
        /\ o = "UNREACHABLE_ONLY" => "unreachable" \in saw
        /\ o = "INCOMPATIBLE_ONLY" => "incompatible" \in saw
    BY <2>1 DEF Outcome
  <2>9. o = "INSUFFICIENT_EVIDENCE" =>
          /\ ranked = {} /\ saw # {}
          /\ saw \cap {"stale", "unready", "unhealthy", "unreachable", "incompatible"} = {}
    BY <2>1 DEF Outcome
  <2> HIDE DEF o
  <2>10. /\ o = "STALE_ONLY" => TurnedAway(Blamed["STALE_ONLY"])
         /\ o = "UNREADY_ONLY" => TurnedAway(Blamed["UNREADY_ONLY"])
         /\ o = "UNHEALTHY_ONLY" => TurnedAway(Blamed["UNHEALTHY_ONLY"])
    BY <2>4, <2>5, <2>8, FlagFacts
  <2>11. /\ o = "UNREACHABLE_ONLY" => TurnedAway(Blamed["UNREACHABLE_ONLY"])
         /\ o = "INCOMPATIBLE_ONLY" => TurnedAway(Blamed["INCOMPATIBLE_ONLY"]) \/ OtherKindSeen
    BY <2>4, <2>5, <2>8, FlagFacts
  <2>12. ASSUME o = "INSUFFICIENT_EVIDENCE"
         PROVE  /\ TurnedAway(Blamed["INSUFFICIENT_EVIDENCE"])
                /\ \A r \in rejected : r[2] \in Blamed["INSUFFICIENT_EVIDENCE"]
    <3>1. Flagged
      BY DEF LoopInv, Recorded
    <3>2. \A r \in rejected : r[2] \in Blamed["INSUFFICIENT_EVIDENCE"]
      <4>1. SUFFICES ASSUME NEW i \in Visited, InScope(i), NEW c \in Rejections(reg.instances[i])
                     PROVE  c \in Blamed["INSUFFICIENT_EVIDENCE"]
        BY DEF LoopInv, Recorded
      <4>2. Flag(c) \in saw
        BY <3>1, <4>1 DEF Flagged
      <4>3. QED
        BY <2>1, <2>5, <2>9, <2>12, <4>1, <4>2, FlagFacts
    <3>3. PICK i \in Visited : ~OutOfScope(reg.instances[i])
      BY <2>9, <2>12, <3>1 DEF Flagged
    <3>4. InScope(i) /\ ~Passes(reg.instances[i])
      BY <2>9, <2>12, <3>1, <3>3 DEF Flagged, InScope, LoopInv, Recorded
    <3>5. PICK c : c \in Rejections(reg.instances[i])
      BY <2>1, <2>5, <3>4, RejectionFacts
    <3>6. <<i, c>> \in rejected
      BY <3>4, <3>5 DEF LoopInv, Recorded
    <3>7. QED
      BY <3>2, <3>6 DEF TurnedAway
  <2>13. o \in DOMAIN Blamed =>
           TurnedAway(Blamed[o]) \/ (o = "INCOMPATIBLE_ONLY" /\ OtherKindSeen)
    <3>1. DOMAIN Blamed = {"STALE_ONLY", "UNREADY_ONLY", "UNHEALTHY_ONLY", "UNREACHABLE_ONLY",
                           "INCOMPATIBLE_ONLY", "INSUFFICIENT_EVIDENCE"}
      BY DEF Blamed
    <3>2. QED
      BY <2>10, <2>11, <2>12, <3>1
  <2>14. QED
    BY <2>6, <2>7, <2>12, <2>13 DEF OutcomeIsBacked, TurnedAway, OtherKindSeen, o
<1>2. QED
  BY <1>1, LoopInvariant, PTL

-----------------------------------------------------------------------------
(* Ranking and truncation                                                  *)

\* A score is a number.
LEMMA ScoreType ==
  ASSUME reg \in Catalogs, q \in RegistryQuery, NEW i \in DOMAIN reg.instances, InScope(i)
  PROVE  Score(reg.instances[i]) \in Int
<1> DEFINE inst == reg.instances[i]
           svc == reg.services[inst.service_id]
           need == Len(q.required_capabilities)
<1>1. svc \in QueriedService
  BY CatalogsAssumption DEF IsMap, InScope, OutOfScope
<1>2. svc.version[1] \in Int /\ svc.version[2] \in Int /\ svc.version[3] \in Int
  BY <1>1 DEF QueriedService, Version
<1>3. need \in Nat /\ DOMAIN q.required_capabilities = 1 .. need
  BY DEF RegistryQuery
<1>4. Met(inst) \in Nat
  <2>1. IsFiniteSet(1 .. need)
    BY <1>3, FS_Interval
  <2>2. {k \in DOMAIN q.required_capabilities : Satisfies(inst, q.required_capabilities[k])}
          \in SUBSET (1 .. need)
    BY <1>3
  <2>3. QED
    BY <2>1, <2>2, FS_Subset, FS_CardinalityType DEF Met
<1> DEFINE t1 == If(q.exact_service_id # None /\ inst.service_id = q.exact_service_id, 1000)
           t2 == If(q.has_minimum_api /\ svc.api_version = q.minimum_api, 200)
           t3 == IF ~q.has_abi_requirement THEN 0
                 ELSE IF svc.abi_version = q.abi_requirement THEN 150
                 ELSE If(svc.abi_version[1] = q.abi_requirement[1], 80)
           t4 == IF need = 0 THEN 100 ELSE (100 * Met(inst)) \div need
           t5 == Grade(inst.readiness, "READY", "PARTIALLY_READY", 80)
           t6 == Grade(inst.health, "HEALTHY", "DEGRADED", 80)
           t7 == If(q.preferred_node # None /\ inst.node = q.preferred_node, 100)
           t8 == If(q.preferred_runtime # None /\ inst.runtime_id = q.preferred_runtime, 100)
           t9 == Grade(inst.reachability, "REACHABLE", "DEGRADED", 60)
           t10 == If(inst.freshness = "CURRENT", 100)
           t11 == If(q.prefer_recent, 10)
           t12 == svc.version[1] * 100
           t13 == svc.version[2] * 10
<1>5. t4 \in Int /\ t12 \in Int /\ t13 \in Int
  <2>1. t12 \in Int /\ t13 \in Int
    <3> HIDE DEF svc
    <3>1. QED
      BY <1>2
  <2>2. t4 \in Int
    <3> DEFINE met == Met(inst)
    <3>1. need \in Nat /\ met \in Nat
      BY <1>3, <1>4
    <3> HIDE DEF need, met
    <3>2. need # 0 => (100 * met) \div need \in Int
      BY <3>1
    <3>3. QED
      BY <3>2 DEF met
  <2>3. QED
    BY <2>1, <2>2
<1>6. /\ t1 \in Int /\ t2 \in Int /\ t3 \in Int /\ t7 \in Int /\ t8 \in Int
      /\ t10 \in Int /\ t11 \in Int
  BY DEF If
<1>7. t5 \in Int /\ t6 \in Int /\ t9 \in Int
  BY DEF Grade
<1>8. Score(inst) = t1 + t2 + t3 + t4 + t5 + t6 + t7 + t8
                    + t12 + t13 + svc.version[3] + t9 + t10 + t11
  BY DEF Score
<1> HIDE DEF t1, t2, t3, t4, t5, t6, t7, t8, t9, t10, t11, t12, t13, svc
<1>9. QED
  BY <1>2, <1>5, <1>6, <1>7, <1>8

\* When the loop is over, the candidates are the eligible instances.
LEMMA RankedFacts ==
  ASSUME LoopInv, Done
  PROVE  /\ Eligible \subseteq Nat /\ IsFiniteSet(Eligible)
         /\ \A i \in Eligible : Score(reg.instances[i]) \in Int /\ Ranking(i) \in ranked
         /\ \A r \in ranked : r.id \in Eligible /\ r = Ranking(r.id)
         /\ IsFiniteSet(ranked) /\ Cardinality(ranked) \in Nat
<1>1. /\ reg \in Catalogs /\ q \in RegistryQuery /\ Visited = DOMAIN reg.instances
  BY DEF LoopInv, Recorded, Resulting, Visited
<1>2. \A i : i \in Eligible <=>
        i \in DOMAIN reg.instances /\ InScope(i) /\ Passes(reg.instances[i])
  BY DEF Eligible, InScope
<1>3. Eligible \subseteq Nat /\ IsFiniteSet(Eligible)
  <2>1. Eligible \in SUBSET DOMAIN reg.instances
    BY <1>2
  <2>2. QED
    BY <1>1, <2>1, InstanceType, FS_Subset
<1>4. \A i \in Eligible : Score(reg.instances[i]) \in Int /\ Ranking(i) \in ranked
  BY <1>1, <1>2, ScoreType DEF LoopInv, Recorded
<1>5. \A r \in ranked : r.id \in Eligible /\ r = Ranking(r.id)
  <2>1. \A r \in ranked : \E i \in Eligible : r = Ranking(i)
    BY <1>1, <1>2 DEF LoopInv, Recorded
  <2>2. \A i : Ranking(i).id = i
    BY DEF Ranking
  <2>3. QED
    BY <2>1, <2>2
<1>6. IsFiniteSet(ranked) /\ Cardinality(ranked) \in Nat
  <2> DEFINE f == [i \in Eligible |-> Ranking(i)]
  <2>1. f \in Surjection(Eligible, ranked)
    BY <1>4, <1>5 DEF Surjection
  <2> HIDE DEF f
  <2>2. QED
    BY <1>3, <2>1, FS_Surjection, FS_CardinalityType
<1>7. QED
  BY <1>3, <1>4, <1>5, <1>6

\* What std::sort leaves lists every eligible instance once, and of two of them
\* the one that beats the other first: the comparison is total on distinct ids.
LEMMA SortedIds ==
  ASSUME LoopInv, Done
  PROVE  \E n \in Nat : \E ids \in [1 .. n -> Eligible] :
           /\ \A i \in Eligible : \E k \in 1 .. n : ids[k] = i
           /\ \A k, m \in 1 .. n : k < m => Beats(ids[k], ids[m])
           /\ result.selected = Truncated(ids)
<1> DEFINE n == Cardinality(ranked)
<1>1. PICK order \in Orders :
        result.selected = Truncated([k \in DOMAIN order |-> order[k].id])
  BY DEF LoopInv, Resulting
<1> DEFINE ids == [k \in DOMAIN order |-> order[k].id]
<1>2. n \in Nat /\ IsFiniteSet(ranked)
  BY RankedFacts
<1>3. /\ order \in Injection(1 .. n, ranked) /\ order \in [1 .. n -> ranked]
      /\ \A k, m \in 1 .. n : k < m => ~Ahead(order[m], order[k])
      /\ \A k, m \in 1 .. n : order[k] = order[m] => k = m
  BY <1>1 DEF Orders, Injection, IsInjective
<1>4. \A r \in ranked : \E k \in 1 .. n : order[k] = r
  <2> HIDE DEF n
  <2>1. Cardinality(1 .. n) = n
    BY <1>2, FS_Interval
  <2>2. order \in Surjection(1 .. n, ranked)
    BY <1>2, <1>3, <2>1, FS_Injection DEF n
  <2>3. QED
    BY <2>2 DEF Surjection
<1> HIDE DEF n
<1>5. ids \in [1 .. n -> Eligible] /\ \A k \in 1 .. n : order[k] = Ranking(ids[k])
  BY <1>3, RankedFacts
<1>6. \A i \in Eligible : \E k \in 1 .. n : ids[k] = i
  <2>1. \A i \in Eligible : Ranking(i) \in ranked /\ Ranking(i).id = i
    BY RankedFacts DEF Ranking
  <2>2. \A i \in Eligible : \E k \in 1 .. n : order[k] = Ranking(i)
    BY <1>4, <2>1
  <2>3. QED
    BY <1>3, <2>1, <2>2
<1>7. ASSUME NEW k \in 1 .. n, NEW m \in 1 .. n, k < m
      PROVE  Beats(ids[k], ids[m])
  <2> DEFINE i == ids[k]
             j == ids[m]
             a == Score(reg.instances[i])
             b == Score(reg.instances[j])
  <2>1. i \in Eligible /\ j \in Eligible /\ order[k] = Ranking(i) /\ order[m] = Ranking(j)
    BY <1>5
  <2> HIDE DEF i, j
  <2>2. i # j
    BY <1>2, <1>3, <1>7, <2>1
  <2>3. i \in Nat /\ j \in Nat /\ a \in Int /\ b \in Int
    BY <2>1, RankedFacts
  <2>4. ~(b > a \/ (b = a /\ j < i))
    BY <1>3, <1>7, <2>1 DEF Ahead, Ranking
  <2>5. a > b \/ (a = b /\ i < j)
    <3> HIDE DEF a, b
    <3>1. QED
      BY <2>2, <2>3, <2>4
  <2>6. QED
    BY <2>5 DEF Beats, i, j
<1>8. QED
  BY <1>1, <1>2, <1>5, <1>6, <1>7

\* first holds the first t of the n elements of ids, max_results if there are
\* that many.
FirstOf(first, ids, n, S, t) ==
  /\ t <= q.max_results /\ (t < n => t = q.max_results)
  /\ first \in [1 .. t -> S] /\ Len(first) = t
  /\ \A k \in 1 .. t : first[k] = ids[k]

\* resize() to max_results keeps the first ones.
LEMMA TruncatedFacts ==
  ASSUME q \in RegistryQuery, NEW n \in Nat, NEW S, NEW ids \in [1 .. n -> S]
  PROVE  \E t \in 0 .. n : FirstOf(Truncated(ids), ids, n, S, t)
<1> DEFINE most == q.max_results
<1>1. most \in Nat
  BY DEF RegistryQuery
<1>2. Len(ids) = n /\ DOMAIN ids = 1 .. n
  OBVIOUS
<1>3. CASE n > most
  <2>1. Truncated(ids) = SubSeq(ids, 1, most)
    BY <1>2, <1>3 DEF Truncated
  <2> HIDE DEF most
  <2>2. /\ SubSeq(ids, 1, most) \in Seq(S)
        /\ Len(SubSeq(ids, 1, most)) = most
        /\ \A k \in 1 .. most : SubSeq(ids, 1, most)[k] = ids[k]
    <3>1. \A k \in 1 .. most : ids[k] \in S
      BY <1>1, <1>3
    <3>2. /\ SubSeq(ids, 1, most) \in Seq(S)
          /\ Len(SubSeq(ids, 1, most)) = IF 1 <= most THEN most - 1 + 1 ELSE 0
          /\ \A k \in 1 .. most - 1 + 1 : SubSeq(ids, 1, most)[k] = ids[1 + k - 1]
      BY <1>1, <3>1, SubSeqProperties
    <3>3. QED
      BY <1>1, <3>2
  <2>3. SubSeq(ids, 1, most) \in [1 .. most -> S]
    <3> DEFINE sub == SubSeq(ids, 1, most)
    <3>1. sub \in Seq(S) /\ Len(sub) = most
      BY <2>2
    <3> HIDE DEF sub
    <3>2. sub \in [1 .. most -> S]
      BY <3>1
    <3>3. QED
      BY <3>2 DEF sub
  <2>4. most \in 0 .. n /\ most <= most
    BY <1>1, <1>3
  <2>5. QED
    BY <2>1, <2>2, <2>3, <2>4 DEF most, FirstOf
<1>4. CASE ~(n > most)
  <2>1. Truncated(ids) = ids
    BY <1>2, <1>4 DEF Truncated
  <2>2. n <= most
    BY <1>1, <1>4
  <2>3. QED
    BY <1>2, <2>1, <2>2 DEF FirstOf
<1>5. QED
  BY <1>3, <1>4

\* A listing of a set without repetition counts it.
LEMMA CountedBy ==
  ASSUME NEW n \in Nat, NEW S, NEW f \in [1 .. n -> S],
         \A x \in S : \E k \in 1 .. n : f[k] = x,
         \A k, m \in 1 .. n : k < m => f[k] # f[m]
  PROVE  Cardinality(S) = n
<1>1. \A k, m \in 1 .. n : f[k] = f[m] => k = m
  OBVIOUS
<1>2. f \in Bijection(1 .. n, S)
  BY <1>1 DEF Bijection, Injection, Surjection, IsInjective
<1>3. QED
  BY <1>2, FS_CountingElements DEF ExistsBijection

\* Two instances never beat each other, and none beats itself.
LEMMA BeatsOneWay ==
  ASSUME LoopInv, Done, NEW i \in Eligible, NEW j \in Eligible, Beats(i, j)
  PROVE  ~Beats(j, i) /\ i # j
<1> DEFINE a == Score(reg.instances[i])
           b == Score(reg.instances[j])
<1>1. i \in Nat /\ j \in Nat /\ a \in Int /\ b \in Int
  BY RankedFacts
<1>2. a > b \/ (a = b /\ i < j)
  BY DEF Beats
<1>3. ~(b > a \/ (b = a /\ j < i)) /\ i # j
  <2>1. i = j => a = b
    OBVIOUS
  <2> HIDE DEF a, b
  <2>2. QED
    BY <1>1, <1>2, <2>1
<1>4. QED
  BY <1>3 DEF Beats

\* The position of an instance in the sorted list is the number of instances
\* that beat it.
LEMMA PositionIsRank ==
  ASSUME LoopInv, Done, NEW n \in Nat, NEW ids \in [1 .. n -> Eligible],
         \A i \in Eligible : \E k \in 1 .. n : ids[k] = i,
         \A k, m \in 1 .. n : k < m => Beats(ids[k], ids[m]),
         NEW k \in 1 .. n
  PROVE  Cardinality({j \in Eligible : Beats(j, ids[k])}) = k - 1
<1> DEFINE S == {j \in Eligible : Beats(j, ids[k])}
           f == [m \in 1 .. k - 1 |-> ids[m]]
<1>1. k - 1 \in Nat /\ \A m \in 1 .. k - 1 : m \in 1 .. n /\ m < k
  OBVIOUS
<1>2. f \in [1 .. k - 1 -> S]
  BY <1>1
<1>3. \A j \in S : \E m \in 1 .. k - 1 : f[m] = j
  <2> SUFFICES ASSUME NEW j \in S PROVE \E m \in 1 .. k - 1 : f[m] = j
    OBVIOUS
  <2>1. PICK m \in 1 .. n : ids[m] = j
    OBVIOUS
  <2>2. ids[k] \in Eligible /\ j \in Eligible /\ ~Beats(ids[k], j) /\ ids[k] # j
    BY BeatsOneWay
  <2>3. ~(k < m) /\ m # k
    BY <2>1, <2>2
  <2>4. m \in 1 .. k - 1
    BY <2>3
  <2>5. QED
    BY <2>1, <2>4
<1>4. \A l, m \in 1 .. k - 1 : l < m => f[l] # f[m]
  <2> SUFFICES ASSUME NEW l \in 1 .. k - 1, NEW m \in 1 .. k - 1, l < m
               PROVE  f[l] # f[m]
    OBVIOUS
  <2>1. ids[l] \in Eligible /\ ids[m] \in Eligible /\ Beats(ids[l], ids[m])
    BY <1>1
  <2>2. QED
    BY <2>1, BeatsOneWay
<1>5. Cardinality(S) = k - 1
  <2> DEFINE p == k - 1
  <2>1. /\ p \in Nat /\ f \in [1 .. p -> S]
        /\ \A j \in S : \E m \in 1 .. p : f[m] = j
        /\ \A l, m \in 1 .. p : l < m => f[l] # f[m]
    BY <1>1, <1>2, <1>3, <1>4
  <2> HIDE DEF S, f, p
  <2>2. Cardinality(S) = p
    BY <2>1, CountedBy
  <2>3. QED
    BY <2>2 DEF p
<1>6. QED
  BY <1>5

\* In whatever order the hash map yields the instances and whatever order the
\* sort leaves equal elements in, there is one answer: the max_results best of
\* the eligible instances, the best first.
THEOREM SelectionCorrect == SelectionSpec => []SelectionIsDeterministic
<1>1. LoopInv => SelectionIsDeterministic
  <2> SUFFICES ASSUME LoopInv, Done PROVE SelectionIsDeterministic
    BY DEF SelectionIsDeterministic
  <2> DEFINE rank(i) == Cardinality({j \in Eligible : Beats(j, i)})
             best == {i \in Eligible : rank(i) < q.max_results}
             selected == result.selected
  <2>1. q \in RegistryQuery /\ q.max_results \in Nat
    BY DEF LoopInv, Recorded, RegistryQuery
  <2>2. PICK n \in Nat : \E ids \in [1 .. n -> Eligible] :
           /\ \A i \in Eligible : \E k \in 1 .. n : ids[k] = i
           /\ \A k, m \in 1 .. n : k < m => Beats(ids[k], ids[m])
           /\ selected = Truncated(ids)
    BY SortedIds
  <2>3. PICK ids \in [1 .. n -> Eligible] :
           /\ \A i \in Eligible : \E k \in 1 .. n : ids[k] = i
           /\ \A k, m \in 1 .. n : k < m => Beats(ids[k], ids[m])
           /\ selected = Truncated(ids)
    BY <2>2
  <2>4. PICK t \in 0 .. n :
           /\ t <= q.max_results /\ (t < n => t = q.max_results)
           /\ selected \in [1 .. t -> Eligible] /\ Len(selected) = t
           /\ \A k \in 1 .. t : selected[k] = ids[k]
    <3>1. \E t \in 0 .. n : FirstOf(Truncated(ids), ids, n, Eligible, t)
      BY <2>1, TruncatedFacts
    <3>2. QED
      BY <2>3, <3>1 DEF FirstOf
  <2> HIDE DEF selected
  <2>5. \A k \in 1 .. n : rank(ids[k]) = k - 1
    BY <2>3, PositionIsRank
  <2> HIDE DEF rank
  <2>6. \A k \in 1 .. n : ids[k] \in best <=> k \in 1 .. t
    BY <2>1, <2>4, <2>5
  <2>7. selected \in [1 .. t -> best] /\ \A i \in best : \E k \in 1 .. t : selected[k] = i
    <3>1. best \subseteq Eligible
      OBVIOUS
    <3> HIDE DEF best
    <3>2. \A i \in best : \E k \in 1 .. t : ids[k] = i
      BY <2>3, <2>6, <3>1
    <3>3. \A k \in 1 .. t : k \in 1 .. n
      BY <2>4
    <3>4. QED
      BY <2>4, <2>6, <3>2, <3>3
  <2>8. \A k, m \in 1 .. t : k < m => Beats(selected[k], selected[m])
    BY <2>3, <2>4
  <2>9. Range(selected) = best
    BY <2>7 DEF Range
  <2>10. Cardinality(best) = t
    <3>1. \A k, m \in 1 .. t : k < m => selected[k] # selected[m]
      BY <2>4, <2>8, BeatsOneWay
    <3> HIDE DEF best
    <3>2. QED
      BY <2>7, <3>1, CountedBy
  <2>11. QED
    BY <2>4, <2>8, <2>9, <2>10 DEF SelectionIsDeterministic, Selected, rank, selected
<1>2. QED
  BY <1>1, LoopInvariant, PTL

\* Whatever is asked and whatever the records say, a selected instance can be
\* trusted: live boot, active lease, current evidence for every capability, and the
\* status that was asked for.
THEOREM SelectionTrusted == SelectionSpec => []SelectedIsTrustworthy
<1>1. LoopInv => SelectedIsTrustworthy
  <2> DEFINE suffices(actual, required, better) ==
               required # Unrestricted => actual \in {required} \cup better
             meets(inst) ==
               /\ suffices(inst.freshness, q.required_freshness, {})
               /\ suffices(inst.health, q.required_health, {"HEALTHY"})
               /\ suffices(inst.readiness, q.required_readiness, {"READY", "PARTIALLY_READY"})
               /\ suffices(inst.reachability, q.required_reachability, {"REACHABLE", "DEGRADED"})
  <2> SUFFICES ASSUME LoopInv, Done, NEW i \in Selected
               PROVE  LET inst == reg.instances[i]
                      IN  /\ inst.boot \in reg.live_boots /\ inst.lifecycle # "STALE"
                          /\ inst.lease # None =>
                               inst.lease \in DOMAIN reg.leases /\ reg.leases[inst.lease] = "ACTIVE"
                          /\ \A req \in Range(q.required_capabilities) :
                               \E c \in inst.capabilities \cap DOMAIN reg.capabilities :
                                 reg.capabilities[c] = [kind |-> req, freshness |-> "CURRENT"]
                          /\ meets(inst)
                          /\ q.current_only => inst.lifecycle \notin {"SUPERSEDED", "RETIRED"}
    BY DEF SelectedIsTrustworthy
  <2> DEFINE inst == reg.instances[i]
  <2>1. reg \in Catalogs /\ q \in RegistryQuery
    BY DEF LoopInv, Recorded
  <2>2. i \in Eligible
    <3>1. PICK n \in Nat : \E ids \in [1 .. n -> Eligible] : result.selected = Truncated(ids)
      BY SortedIds
    <3>2. PICK ids \in [1 .. n -> Eligible] : result.selected = Truncated(ids)
      BY <3>1
    <3>3. \E t \in 0 .. n : result.selected \in [1 .. t -> Eligible]
      <4>1. \E t \in 0 .. n : FirstOf(Truncated(ids), ids, n, Eligible, t)
        BY <2>1, TruncatedFacts
      <4>2. QED
        BY <3>2, <4>1 DEF FirstOf
    <3>4. QED
      BY <3>3 DEF Selected, Range
  <2>3. i \in DOMAIN reg.instances /\ Passes(inst)
    BY <2>2 DEF Eligible
  <2>4. inst \in QueriedInstance
    BY <2>1, <2>3, InstanceType
  <2>5. FirstHit(StatusFilters(inst)) = "none" /\ FirstHit(ContractFilters(inst)) = "none"
    BY <2>3 DEF Passes
  <2>6. /\ inst.boot \in reg.live_boots /\ inst.lifecycle # "STALE" /\ LeaseActive(inst)
        /\ ~(q.current_only /\ inst.lifecycle \in {"SUPERSEDED", "RETIRED"})
        /\ freshness_meets(inst.freshness, q.required_freshness)
        /\ readiness_meets(inst.readiness, q.required_readiness)
        /\ health_meets(inst.health, q.required_health)
        /\ reachability_meets(inst.reachability, q.required_reachability)
    BY <2>4, <2>5, StatusFacts
  <2>7. \A req \in Range(q.required_capabilities) : Satisfies(inst, req)
    BY <2>1, <2>5, ContractFacts, LackingFacts
  <2> HIDE DEF inst
  <2>8. inst.lease # None =>
          inst.lease \in DOMAIN reg.leases /\ reg.leases[inst.lease] = "ACTIVE"
    BY <2>6 DEF LeaseActive, Lookup
  <2>9. \A req : Satisfies(inst, req) =>
          \E c \in inst.capabilities \cap DOMAIN reg.capabilities :
            reg.capabilities[c] = [kind |-> req, freshness |-> "CURRENT"]
    <3>1. \A c \in DOMAIN reg.capabilities :
            reg.capabilities[c] \in [kind : STRING, freshness : Freshness]
      BY <2>1, CatalogsAssumption DEF IsMap
    <3>2. QED
      BY <3>1 DEF Satisfies, Known
  <2>10. meets(inst)
    BY <2>6 DEF freshness_meets, readiness_meets, health_meets, reachability_meets
  <2> HIDE DEF meets
  <2>11. QED
    BY <2>6, <2>7, <2>8, <2>9, <2>10 DEF inst
<1>2. QED
  BY <1>1, LoopInvariant, PTL
=============================================================================
