SPECIFICATION FairSpec
CONSTANTS
  Missing = Missing
  None = None
  Failed = Failed
  Restaurant = {0, 1}
  Active = {0}
  Row = {0, 1}
  Seeds = 1
  MaxRuns = 2
  Table <- MCTable
  Trainer <- MCTrainer
  Imports = {TRUE, FALSE}
  Rounds = 2
  Epochs = 2
  Batches = 2
\* The rounds end, and the bound on the starts is reached.
CHECK_DEADLOCK FALSE
INVARIANTS
  TypeOK
  ReadyStoreIsOfThisRun
  ResultsFromGlobal
  AlignedSubgraphIsNeighborhood
 
