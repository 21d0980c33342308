SPECIFICATION FairSpec
CONSTANTS
  MaxFitness = 1
  Least = 2
  Probes = 2
  Budgets = {1, 4, 8}
  MaxIterations = 3
  SampleSize = 2
  Reduction = 2
  MinNoImprovement = 1
  MaxNoImprovement = 2
INVARIANTS
  OvershootBounded
  IncumbentBeatsMinima
  EndingExplained
PROPERTIES
  MinimizeReturns
