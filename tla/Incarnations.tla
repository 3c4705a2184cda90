---------------------------- MODULE Incarnations ----------------------------
(***************************************************************************)
(* What the registry promises about process incarnations, without any of   *)
(* its records: a worker has at most one live incarnation, boot ids are    *)
(* never issued twice, and only a live incarnation serves.  Losing one     *)
(* incarnation withdraws exactly what that incarnation served.             *)
(***************************************************************************)
EXTENDS Naturals

CONSTANTS Workers, FirstBoot

VARIABLES
  epoch,         \* the coordinator epoch
  issued,        \* the last boot id handed out
  incarnation,   \* the live boot of each worker, 0 when it has none
  serving        \* the <<instance, boot>> pairs a client may be sent to

vars == <<epoch, issued, incarnation, serving>>

Live == {incarnation[w] : w \in Workers} \ {0}
Withdraw(b) == {p \in serving : p[2] # b}

Init ==
  /\ epoch = 1 /\ issued = FirstBoot
  /\ incarnation = [w \in Workers |-> 0]
  /\ serving = {}

\* A new epoch ends every incarnation and serves nothing.
NewEpoch ==
  /\ epoch' = epoch + 1
  /\ incarnation' = [w \in Workers |-> 0]
  /\ serving' = {}
  /\ UNCHANGED issued

\* A new incarnation of w replaces the previous one and what it served.
Adopt(w) ==
  /\ issued' = issued + 1
  /\ incarnation' = [incarnation EXCEPT ![w] = issued + 1]
  /\ serving' = Withdraw(incarnation[w])
  /\ UNCHANGED epoch

Lose(w) ==
  /\ incarnation[w] # 0
  /\ incarnation' = [incarnation EXCEPT ![w] = 0]
  /\ serving' = Withdraw(incarnation[w])
  /\ UNCHANGED <<epoch, issued>>

\* Registrations and reports change what live incarnations serve.
Publish ==
  /\ \A p \in serving' : p[2] \in Live
  /\ UNCHANGED <<epoch, issued, incarnation>>

Next == NewEpoch \/ Publish \/ \E w \in Workers : Adopt(w) \/ Lose(w)

Spec == Init /\ [][Next]_vars
=============================================================================
