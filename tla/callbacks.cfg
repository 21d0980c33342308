SPECIFICATION Spec
CONSTANTS
  MaxDepth = 3
  MaxRuns = 4
  MaxCalls = 2
  MaxThrows = 2
INVARIANTS
  HostSilentAfterThrow
  FirstErrorReported
  NoPoisonedResult
  BorrowsAreLive
CHECK_DEADLOCK FALSE
