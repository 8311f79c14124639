SPECIFICATION FairSpec
CONSTANT MaxTries = 3
INVARIANTS
  TypeOK
  DuplicateNeedsOverlap
  ServedWhenUp
  LoginAfterExitWasExpected
PROPERTY LoginIsServed
\* The process ends.
CHECK_DEADLOCK FALSE
