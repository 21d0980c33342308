SPECIFICATION ARWMHSpec
CONSTANTS
  ChainCounts = {1, 2}
  IterationCounts = {2}
  WarmupCounts = {1}
  InitialCounts = {2}
  Thinnings = {1}
  OutputLengths = {3}
  InitTypes = {"MAP", "Randomize"}
  SeedSizes = {}
  SeedChains = {}
  MinChains = 1
  MinIterations = 2
  MinOutputLength = 2
  IsPopulationSampler = FALSE
  MaxFitness = 1
  MaxCalls = 2
  MaxSeeds = 0
  AdaptAfter = 2
INVARIANTS
  AdaptsWithHistory
  MapDominatesOutput
  OutputComplete
  Lockstep
  ChainsStartFromBest
