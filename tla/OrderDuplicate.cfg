CONSTANTS
  n1 = n1
  n2 = n2
  p1 = p1
  p2 = p2
  p3 = p3
  e1 = e1
  e2 = e2
  e3 = e3
  NoEnr = NoEnr
  NoUrl = NoUrl
  NoPeers = NoPeers
  Node <- MCNode
  Proof <- MCProof
  Enr <- MCEnr
  Order <- OrdersAgain
  MaxHeight = 2
  MaxCrash = 0

SPECIFICATION Spec

INVARIANTS
  EachProofCountedOnce

\* The chain is bounded, the crashes are too, and every order may be in it.
CHECK_DEADLOCK FALSE
