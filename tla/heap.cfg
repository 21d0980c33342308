SPECIFICATION FairHeapSpec
CONSTANTS
  Capacity = 4
  Weights = {0, 1}
INVARIANTS
  PositionsAgree
PROPERTIES
  OperationsEnd
  ImplementsMinQueue
