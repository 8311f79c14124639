CONSTANTS
  c1 = c1
  c2 = c2
  None = None
  Customer <- MCCustomer
  Kind <- Texts
  MaxMsg = 2

SPECIFICATION Spec

INVARIANTS
  ReplyGoesToSender

\* Customers may stop writing, and threads may be dead.
CHECK_DEADLOCK FALSE
