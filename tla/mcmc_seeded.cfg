SPECIFICATION SeededSpec
CONSTANTS
  ChainCounts = {0, 1, 2}
  IterationCounts = {2}
  WarmupCounts = {1}
  InitialCounts = {2}
  Thinnings = {0, 1}
  OutputLengths = {1}
  InitTypes = {"MAP", "UserDefined"}
  SeedSizes = {2}
  SeedChains = {1, 2}
  MinChains = 1
  MinIterations = 2
  MinOutputLength = 1
  IsPopulationSampler = FALSE
  MaxFitness = 0
  MaxCalls = 3
  MaxSeeds = 1
INVARIANTS
  IndexSafe
PROPERTIES
  SampleReturns
