------------------------------ MODULE Channel -------------------------------
(***************************************************************************)
(* What the coordinator relies on when it takes requests from a            *)
(* connection: they arrive whole, in the order they were sent, none twice  *)
(* and none left out before one that arrives.  Nothing is promised about   *)
(* the last of them: a connection may end at any moment.                   *)
(***************************************************************************)
EXTENDS Naturals, Sequences

VARIABLES
  sent,     \* how many messages were sent; message k is the k-th
  taken     \* the messages taken at the other end, in that order

Init == sent = 0 /\ taken = << >>

Send == sent' = sent + 1 /\ UNCHANGED taken

Take ==
  /\ Len(taken) < sent
  /\ taken' = Append(taken, Len(taken) + 1)
  /\ UNCHANGED sent

Spec == Init /\ [][Send \/ Take]_<<sent, taken>>
=============================================================================
