----------------------------- MODULE MCFraming ------------------------------
(***************************************************************************)
(* Framing with small frames: a header of three bytes can be cut in two    *)
(* places, as one of ten bytes can in nine; payloads of one and two bytes  *)
(* give frames that end on and beside the end of a misread one, and a      *)
(* reply of three is over the limit.                                       *)
(***************************************************************************)
EXTENDS Framing

SmallRequests == {1}
AnyReplies == 1 .. 3
=============================================================================
