----------------------------- MODULE MCRecovery -----------------------------
(***************************************************************************)
(* Recovery with the small inputs of MCRegistry, in three scenarios.       *)
(* "leases": leases and epochs around one instance that rolls its          *)
(* generation.  "lists": instances with allocated ids and an instance 9,   *)
(* which serves without a lease and is too long to be read back until it   *)
(* is replaced.  "repair": two files around instance 9, so that a load     *)
(* that fails, after which it may serve for a dead boot, is followed by    *)
(* one that succeeds.                                                      *)
(***************************************************************************)
EXTENDS Recovery, MCRegistry, TLC

HeldInstances == {Entry(None, Instance(1, 1, <<1>>, {1}, 1)),
                  Entry(9, Instance(1, 2, <<1, 1>>, {1}, None)),
                  Entry(9, Instance(1, 3, <<1>>, {1}, None))}
CurrentOnly == {"CURRENT"}
ReachableOnly == {"REACHABLE"}

SameFiles == Permutations(Files)

VARIABLE scenario

\* Nobody reports in "lists" and "repair".
Silent == INSTANCE Recovery WITH
  FreshnessInputs <- NoInputs, ReachabilityInputs <- NoInputs, LeaseInputs <- NoInputs

\* deregister belongs to other runs.  Only "repair" keeps two files: one that can
\* be read and was saved by a sound registry, and one that cannot be read.
OneSaved == \E f \in Files : disk[f] = NoSnapshot
OneBoot == epoch = 1 /\ next_boot < MaxBoot
InScope ==
  /\ \A i \in DOMAIN instances : instances[i].lifecycle # "RETIRED"
  /\ \/ scenario = "leases" /\ OneSaved /\ ~long_history /\ DOMAIN instances \subseteq {1}
     \/ scenario = "lists" /\ OneSaved /\ OneBoot
     \/ /\ scenario = "repair" /\ OneBoot /\ DOMAIN instances \subseteq {9}
        /\ OneSaved \/ \E f, g \in Files : Readable(disk[f]) /\ disk[f].sound /\ ~Readable(disk[g])

MCInit == RecoveryInit /\ scenario \in {"leases", "lists", "repair"}
MCNext ==
  /\ IF scenario = "leases" THEN RecoveryNext ELSE Silent!RecoveryNext
  /\ UNCHANGED scenario /\ InScope'
MCSpec == MCInit /\ [][MCNext]_<<rvars, scenario>>
=============================================================================
