SPECIFICATION DEMCzsSpec
CONSTANTS
  ChainCounts = {3}
  IterationCounts = {2}
  WarmupCounts = {1}
  InitialCounts = {3}
  Thinnings = {1, 3}
  OutputLengths = {4}
  InitTypes = {"MAP", "Randomize"}
  SeedSizes = {}
  SeedChains = {}
  MinChains = 3
  MinIterations = 2
  MinOutputLength = 2
  IsPopulationSampler = TRUE
  MaxFitness = 0
  MaxCalls = 3
  MaxSeeds = 0
  SnookerGate = 2
INVARIANTS
  ProposalsAreDefined
  WorkAccounted
CHECK_DEADLOCK FALSE
