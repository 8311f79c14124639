CONSTANTS
  c1 = c1
  c2 = c2
  None = None
  Customer <- MCCustomer
  Kind <- AllKinds
  MaxMsg = 2

SPECIFICATION FairSpec

INVARIANTS
  TypeOK
  LossesExplained
  AnsweredOnce
  MisrouteNeedsGreet

PROPERTIES
  PromptServed
  ContactGetsBot

\* Customers may stop writing, and threads may be dead.
CHECK_DEADLOCK FALSE
