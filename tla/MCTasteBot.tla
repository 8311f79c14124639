----------------------------- MODULE MCTasteBot -----------------------------
(***************************************************************************)
(* Small instances of TasteBot: two customers, who write texts and keys.   *)
(***************************************************************************)
EXTENDS TasteBot

CONSTANTS c1, c2

MCCustomer == {c1, c2}
Texts == {"text"}
=============================================================================
