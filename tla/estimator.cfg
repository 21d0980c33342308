SPECIFICATION Spec
CONSTANTS
  MaxFitness = 1
  Least = 2
  MaxIterations = 3
  Warmup = 2
  Size = 2
  Parameters = 1
  DefaultBudget = 7
  Budgets = {1, 3, 5}
  MaxSearch = 3
  MaxRuns = 2
INVARIANTS
  BestSurvives
  BudgetExact
  EstimateIsOfLastRun
