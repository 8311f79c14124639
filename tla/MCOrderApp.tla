----------------------------- MODULE MCOrderApp -----------------------------
(***************************************************************************)
(* Small instances of OrderApp: two restaurants, and orders that between   *)
(* them are solo and assist, approved, refused and met too early.          *)
(***************************************************************************)
EXTENDS OrderApp

CONSTANTS n1, n2, p1, p2, p3, e1, e2, e3

MCNode == {n1, n2}
MCProof == {p1, p2, p3}
MCEnr == {e1, e2, e3}

D1 == CreatePeerSubDomain(e1)
D2 == CreatePeerSubDomain(e2)
D3 == CreatePeerSubDomain(e3)

Solo(n, p, t, e, subs) ==
  [node |-> n, proof |-> p, time |-> t, mode |-> "solo", enr |-> e,
   url |-> n, subs |-> subs, signed |-> {}]

Assist(n, p, t, e, subs, signed) ==
  [Solo(n, p, t, e, subs) EXCEPT !.mode = "assist", !.signed = signed]

\* n1 orders alone, naming a peer nobody registers and then n2.
SoloFirst == Solo(n1, p1, 1, e1, <<D3, D2>>)
\* The same order sent again a second later.
SoloAgain == Solo(n1, p1, 2, e1, <<D3, D2>>)
\* n2 orders alone, and with it registers e2.
SoloSecond == Solo(n2, p2, 1, e2, <<D3>>)
\* n1 orders with the approval of n2, which must have registered first.
AssistedByN2 == Assist(n1, p3, 1, e1, <<D2>>, {D2})
\* n2 asks for approval from two peers and has that of the second only.
HalfSigned == Assist(n2, p3, 2, e2, <<D1, D2>>, {D2})
\* An order sent without idle peers: no ENR and no url.
NoPeersFound == [Solo(n2, p3, 3, NoEnr, <<>>) EXCEPT !.url = NoUrl]

\* The ones about approval; the ones that are always approved; and the ones
\* that carry one proof twice.
OrdersAssist == {SoloSecond, AssistedByN2, HalfSigned, NoPeersFound}
OrdersSolo == {SoloFirst, SoloSecond}
OrdersAgain == {SoloFirst, SoloAgain, SoloSecond}
=============================================================================
