SPECIFICATION Spec
CONSTANTS
  ReplicateCounts = {1, 2}
  MaxRetries = 2
  Inner = 2
  Observations = 1
  MaxRuns = 3
INVARIANTS
  RowsAreWhole
  CompletedRunIsWhole
  BootstrapTReadsItsRun
