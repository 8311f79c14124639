------------------------- MODULE MCConsensusEvents -------------------------
(***************************************************************************)
(* Small instances of ConsensusEvents: orders of this node and of another, *)
(* approved and refused, one of them naming this node as an assist peer.   *)
(***************************************************************************)
EXTENDS ConsensusEvents

CONSTANTS i1, i2, i3

MCId == {i1, i2, i3}

Solo(i, own) ==
  [id |-> i, local |-> own, approved |-> TRUE, mode |-> "solo", subs |-> {}]

\* This node orders alone; another asks this node, at any height, to assist;
\* this node sends an order that its own CheckTx refuses.
Own == Solo(i1, TRUE)
Asking == [Solo(i2, FALSE) EXCEPT !.mode = "assist", !.subs = 1..(MaxHeight + 1)]
Refused == [Solo(i3, TRUE) EXCEPT !.approved = FALSE]

MCOrder == {Own, Asking, Refused}
=============================================================================
