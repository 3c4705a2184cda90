--------------------------- MODULE RegistryClaims ---------------------------
(***************************************************************************)
(* Statements the repository's documentation makes about the registry and  *)
(* its code does not keep.  Each is checked by a run of its own; TLC's     *)
(* counterexample is the sequence of operations that breaks it.            *)
(***************************************************************************)
EXTENDS MCRegistry

\* README: "A larger generation from an old boot never fences a fresh
\* incarnation."  While some incarnation is live, no registration it could
\* make is refused because of a larger generation left by a dead boot.
\* register_instance skips only SUPERSEDED, TOMBSTONED, RETIRED and
\* INVALIDATED records, so the STALE record of a dead boot still fences.
OldBootNeverFences ==
  \A in \in InstanceInputs : \A current \in Newest(instances, in.rec.service_id) :
    /\ live_boots # {}
    /\ in.rec.instance_generation < instances[current].instance_generation
    => is_boot_live(instances[current].boot)

\* registry.hpp: "On rejection a RegistryError is thrown and no state
\* changes."  An instance gives way only to the newer instance that the same
\* call installs.  register_instance and supersede write SUPERSEDED before
\* the checks that may still reject the registration.
SupersededOnlyByInstalled ==
  [][\A i \in DOMAIN instances :
       /\ instances[i].lifecycle # "SUPERSEDED"
       /\ instances'[i].lifecycle = "SUPERSEDED"
       => \E j \in DOMAIN instances' :
            j \notin DOMAIN instances \/ instances'[j].boot # instances[j].boot
            \/ instances'[j].instance_generation # instances[j].instance_generation]_vars

\* README: "Historical entries are preserved (as configured) but never enter a
\* current lookup accidentally."  A superseded or retired incarnation of an
\* instance never serves again.  The update operations accept the record's
\* own generation and reclassify it like a current one.
HistoryNeverServes ==
  [][\A i \in DOMAIN instances :
       /\ instances[i].lifecycle \in {"SUPERSEDED", "RETIRED"}
       /\ instances'[i].boot = instances[i].boot
       /\ instances'[i].instance_generation = instances[i].instance_generation
       => ~Serving(i)']_vars
=============================================================================
