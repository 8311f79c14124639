CONSTANTS
  i1 = i1
  i2 = i2
  i3 = i3
  NoSubDomain = NoSubDomain
  Domain = Domain
  None = None
  Id <- MCId
  Order <- MCOrder
  OutCap = 1
  MaxHeight = 2
  MaxBlock = 2

SPECIFICATION FairSpec

INVARIANTS
  TypeOK
  OnlyStartIsSignalled
  StartThenDone
  HeightsGrow

PROPERTIES
  CheckTxReturns
  BlockFinishes

\* The chain is bounded, and every order may be in it.
CHECK_DEADLOCK FALSE
