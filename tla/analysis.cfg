SPECIFICATION Spec
CONSTANTS
  Lengths = {1, 2}
  MaxFits = 2
  IsNonstationary = TRUE
CHECK_DEADLOCK FALSE
INVARIANTS
  CriteriaOfFit
  AnalysisBacked
  OneFit
  RunReadsInRange
