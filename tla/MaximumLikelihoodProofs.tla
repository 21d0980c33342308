---------------------- MODULE MaximumLikelihoodProofs -----------------------
(***************************************************************************)
(* Invariants of the estimator and of the evolution it runs, for every     *)
(* population size, budget, number of iterations and range of fitness.     *)
(***************************************************************************)
EXTENDS MaximumLikelihood, TLAPS

Running == {"populate", "generation", "trial", "judge"}

\* While a run is under way no estimate is shown; a Hessian is asked for of an
\* estimate only, and an estimate takes a run.
ShownInv ==
  /\ EstimateIsOfLastRun
  /\ pc # "idle" \/ estimator.estimated => runs >= 1
  /\ estimator.estimated => pc \in {"idle", "hessian"}
  /\ pc = "hessian" => estimator.estimated

\* Evolution runs within its budget, and only the evaluation that spends it
\* gives the verdict.
BudgetInv ==
  /\ pc \in Running =>
       /\ built = "DifferentialEvolution"
       /\ ~Exhausted(solver) /\ solver.status = "None"
  /\ pc = "search" => built = "Brent"
  /\ BudgetExact

AllNumbers == \A p \in Members : p.fitness # NaN

\* The best point is in the population and no member is better.
Leads == solver.best \in Members /\ \A p \in Members : solver.best.fitness <= p.fitness

BestInv ==
  pc \in Running =>
    /\ population = <<>> => solver.best = NoPoint
    /\ population # <<>> => solver.best # NoPoint
    /\ population # <<>> /\ AllNumbers => Leads
    /\ pc # "populate" => Len(population) = Size
    /\ pc = "trial" => next \in 1..Size

Inv == TypeOK /\ ShownInv /\ BudgetInv /\ BestInv
-----------------------------------------------------------------------------

\* What one evaluation makes of an optimiser.
LEMMA EvaluatedFacts ==
  ASSUME NEW o \in Solvers, NEW p \in Points
  PROVE  /\ Evaluated(o, p) \in Solvers
         /\ Evaluated(o, p).best = IF Replaces(o, p) THEN p ELSE o.best
         /\ Evaluated(o, p).evaluations = o.evaluations + 1
         /\ Evaluated(o, p).budget = o.budget
         /\ Evaluated(o, p).report = o.report
         /\ Evaluated(o, p).status =
              IF o.evaluations + 1 >= o.budget THEN "MaxEvaluations" ELSE o.status
<1>1. /\ o.budget \in Nat /\ o.report \in BOOLEAN /\ o.iterations \in Nat
      /\ o.evaluations \in Nat /\ o.best \in Points /\ o.status \in Statuses
  BY DEF Solvers
<1> DEFINE best   == IF Replaces(o, p) THEN p ELSE o.best
           status == IF o.evaluations + 1 >= o.budget THEN "MaxEvaluations" ELSE o.status
<1>2. /\ best \in Points /\ status \in Statuses /\ o.evaluations + 1 \in Nat
  BY <1>1 DEF Statuses
<1>3. Evaluated(o, p) = [o EXCEPT !.best = best, !.evaluations = o.evaluations + 1,
                                  !.status = status]
  BY DEF Evaluated
<1> HIDE DEF best, status
<1>4. Evaluated(o, p) \in Solvers
  BY <1>2, <1>3 DEF Solvers
<1>5. /\ Evaluated(o, p).best = best /\ Evaluated(o, p).status = status
      /\ Evaluated(o, p).evaluations = o.evaluations + 1
      /\ Evaluated(o, p).budget = o.budget /\ Evaluated(o, p).report = o.report
  BY <1>3 DEF Solvers
<1> QED BY <1>4, <1>5 DEF best, status

LEMMA EndedFacts ==
  ASSUME NEW o \in Solvers, NEW s \in Statuses
  PROVE  /\ Ended(o, s) \in Solvers
         /\ Ended(o, s).status = s
         /\ Ended(o, s).best = o.best
         /\ Ended(o, s).evaluations = o.evaluations
         /\ Ended(o, s).budget = o.budget
         /\ Ended(o, s).report = o.report
BY DEF Ended, Solvers

LEMMA NewFacts ==
  ASSUME NEW b \in Nat, NEW r \in BOOLEAN
  PROVE  /\ NewOptimizer(b, r) \in Solvers
         /\ NewOptimizer(b, r).status = "None"
         /\ NewOptimizer(b, r).best = NoPoint
         /\ NewOptimizer(b, r).evaluations = 0
         /\ NewOptimizer(b, r).budget = b
         /\ NewOptimizer(b, r).report = r
BY FitnessAssumption DEF NewOptimizer, Solvers, Statuses, NoPoint, Point, Points, Fitness, NaN, Infinity

Estimates == [estimated : BOOLEAN, status : Statuses, evaluations : Nat,
              best : Points, of : Nat, hessian : Nat]

LEMMA NoPointTyped == NoPoint \in Points /\ NoEstimate \in Estimates
<1>1. NoPoint \in Points
  BY FitnessAssumption DEF NoPoint, Point, Points, Fitness, NaN, Infinity
<1> QED BY <1>1 DEF NoEstimate, Estimates, Statuses

\* A run begins by taking the results back.
LEMMA RestartedFacts ==
  ASSUME NEW e \in Estimates
  PROVE  /\ Restarted(e) \in Estimates
         /\ ~Restarted(e).estimated /\ Restarted(e).hessian = 0
         /\ Restarted(e).evaluations = 0
         /\ Restarted(e).best = e.best /\ Restarted(e).of = e.of
BY DEF Restarted, Estimates, Statuses

LEMMA MadeFacts ==
  ASSUME TypeOK, NEW f \in Fitness
  PROVE  Made(f) \in Points /\ Made(f).fitness = f /\ Made(f) # NoPoint
BY DEF TypeOK, Made, Point, Points, Solvers, NoPoint

\* The verdict on a run that ends, however it does.
LEMMA StopTyped ==
  ASSUME TypeOK, NEW o \in Solvers, NEW how \in Stages, Stop(o, how),
         UNCHANGED <<method, built, switches, estimator, runs>>
  PROVE  TypeOK'
BY DEF TypeOK, Stop
-----------------------------------------------------------------------------

LEMMA InitInv == Init => Inv
<1> SUFFICES ASSUME Init PROVE Inv
  OBVIOUS
<1>1. /\ solver \in Solvers /\ NoPoint \in Points
      /\ solver.status = "None"
  <2>1. NewOptimizer(DefaultBudget, FALSE) \in Solvers
        /\ NewOptimizer(DefaultBudget, FALSE).status = "None"
    BY NewFacts, EstimatorAssumption
  <2> QED BY <2>1, NoPointTyped DEF Init
<1>2. TypeOK
  <2>1. solver \in Solvers /\ estimator \in Estimates
    BY <1>1, NoPointTyped DEF Init
  <2>2. population \in Seq(Points) /\ next \in Nat /\ runs \in Nat /\ pc \in Stages
    BY DEF Init, Stages
  <2>3. method \in Methods /\ built \in Methods /\ switches \in [report : BOOLEAN, hessian : BOOLEAN]
    BY DEF Init, Methods
  <2> QED BY <2>1, <2>2, <2>3 DEF TypeOK, Estimates
<1>3. ShownInv
  BY DEF Init, ShownInv, EstimateIsOfLastRun, NoEstimate
<1>4. BudgetInv /\ BestInv
  BY DEF Init, BudgetInv, BudgetExact, BestInv, Running
<1> QED BY <1>2, <1>3, <1>4 DEF Inv

\* What a caller does between runs.
LEMMA HostStep == Inv /\ Host => Inv'
<1> SUFFICES ASSUME Inv, Host PROVE Inv'
  OBVIOUS
<1> USE DEF Inv
<1>1. CASE \E m \in Methods : SetOptimizerMethod(m)
  <2>1. PICK m \in Methods : SetOptimizerMethod(m)
    BY <1>1
  <2>2. NewOptimizer(DefaultBudget, switches.report) \in Solvers
    BY NewFacts, EstimatorAssumption DEF TypeOK
  <2>3. TypeOK'
    BY <2>1, <2>2, NoPointTyped DEF TypeOK, Estimates, SetOptimizerMethod, Idle
  <2>4. ShownInv'
    BY <2>1 DEF ShownInv, EstimateIsOfLastRun, SetOptimizerMethod, Idle, NoEstimate
  <2>5. BudgetInv' /\ BestInv'
    BY <2>1 DEF BudgetInv, BudgetExact, BestInv, SetOptimizerMethod, Idle, Running
  <2> QED BY <2>3, <2>4, <2>5
<1>2. CASE \E b \in BOOLEAN : SetReportFailure(b) \/ SetComputeHessian(b)
  <2>1. PICK b \in BOOLEAN : SetReportFailure(b) \/ SetComputeHessian(b)
    BY <1>2
  <2>2. TypeOK'
    BY <2>1 DEF TypeOK, SetReportFailure, SetComputeHessian, Idle, Solvers
  <2>3. ShownInv'
    BY <2>1 DEF TypeOK, ShownInv, EstimateIsOfLastRun, SetReportFailure, SetComputeHessian,
                Idle, Solvers
  <2>4. BudgetInv' /\ BestInv'
    BY <2>1 DEF BudgetInv, BudgetExact, BestInv, SetReportFailure, SetComputeHessian, Idle,
                Running
  <2> QED BY <2>2, <2>3, <2>4
<1>3. CASE \E b \in Budgets : SetBudget(b)
  <2>1. PICK b \in Budgets : SetBudget(b)
    BY <1>3
  <2>2. TypeOK'
    BY <2>1, EstimatorAssumption DEF TypeOK, SetBudget, Idle, Solvers
  <2>3. ShownInv'
    BY <2>1 DEF TypeOK, ShownInv, EstimateIsOfLastRun, SetBudget, Idle, Solvers
  <2>4. BudgetInv' /\ BestInv'
    BY <2>1 DEF BudgetInv, BudgetExact, BestInv, SetBudget, Idle, Running
  <2> QED BY <2>2, <2>3, <2>4
<1>4. CASE ClearResults
  <2>1. TypeOK'
    BY <1>4, NoPointTyped DEF TypeOK, Estimates, ClearResults, Idle
  <2>2. ShownInv' /\ BudgetInv' /\ BestInv'
    BY <1>4 DEF ShownInv, EstimateIsOfLastRun, BudgetInv, BudgetExact, BestInv, ClearResults,
                Idle, NoEstimate, Running
  <2> QED BY <2>1, <2>2
<1>5. CASE Estimate
  <2> DEFINE first == IF built = "Brent" THEN "search" ELSE "populate"
  <2>1. CASE Valid(solver)
    <3>1. Stop(Cleared(solver), first)
      BY <1>5, <2>1 DEF Estimate, Maximize
    <3>2. /\ Cleared(solver) \in Solvers
          /\ Cleared(solver).status = "None" /\ Cleared(solver).best = NoPoint
          /\ Cleared(solver).evaluations = 0 /\ Cleared(solver).budget = solver.budget
      BY NewFacts DEF Cleared, TypeOK, Solvers
    <3>3. TypeOK'
      BY <3>1, <3>2, <1>5, RestartedFacts DEF TypeOK, Estimates, Estimate, Stop, Stages
    <3>4. ShownInv'
      BY <3>1, <1>5, RestartedFacts
      DEF TypeOK, Estimates, ShownInv, EstimateIsOfLastRun, Estimate, Stop
    <3>5. solver.budget > 0
      BY <2>1, LeastAssumption DEF Valid, TypeOK, Solvers
    <3>6. BudgetInv'
      BY <3>1, <3>2, <3>5, <1>5
      DEF TypeOK, BudgetInv, BudgetExact, Exhausted, Estimate, Stop, Running, Methods, Solvers
    <3>7. BestInv'
      BY <3>1, <3>2 DEF BestInv, Stop, Running
    <3> QED BY <3>3, <3>4, <3>6, <3>7
  <2>2. CASE ~Valid(solver)
    <3>1. Stop(solver, "threw")
      BY <1>5, <2>2 DEF Estimate, Maximize
    <3>2. TypeOK'
      BY <3>1, <1>5, RestartedFacts DEF TypeOK, Estimates, Estimate, Stop, Stages
    <3>3. ShownInv'
      BY <3>1, <1>5, RestartedFacts
      DEF TypeOK, Estimates, ShownInv, EstimateIsOfLastRun, Estimate, Stop
    <3>4. BudgetInv' /\ BestInv'
      BY <3>1, <1>5 DEF BudgetInv, BudgetExact, BestInv, Estimate, Stop, Running
    <3> QED BY <3>2, <3>3, <3>4
  <2> QED BY <2>1, <2>2
<1> QED BY <1>1, <1>2, <1>3, <1>4, <1>5 DEF Host

\* What estimate() does once its optimiser is back.
LEMMA ResultStep ==
  Inv /\ (Accept \/ Reject \/ Caught \/ Escapes \/ Hessian \/ NoHessian) => Inv'
<1> SUFFICES ASSUME Inv, Accept \/ Reject \/ Caught \/ Escapes \/ Hessian \/ NoHessian
             PROVE  Inv'
  OBVIOUS
<1> USE DEF Inv
<1>b. BudgetInv' /\ BestInv'
  BY DEF BudgetInv, BudgetExact, BestInv, Accept, Reject, Caught, Escapes, Hessian, NoHessian,
         Leaves, Running
<1>1. CASE Accept
  <2>1. TypeOK'
    BY <1>1 DEF TypeOK, Accept, Solvers, Stages, Statuses
  <2>2. ShownInv'
    BY <1>1 DEF TypeOK, ShownInv, EstimateIsOfLastRun, Accept, Solvers
  <2> QED BY <1>b, <2>1, <2>2
<1>2. CASE Reject \/ Caught \/ Escapes \/ Hessian \/ NoHessian
  <2>1. TypeOK'
    BY <1>2 DEF TypeOK, Reject, Caught, Escapes, Hessian, NoHessian, Leaves, Solvers, Stages,
                Statuses
  <2>2. ShownInv'
    BY <1>2 DEF TypeOK, ShownInv, EstimateIsOfLastRun, Reject, Caught, Escapes, Hessian,
                NoHessian, Leaves, Solvers
  <2> QED BY <1>b, <2>1, <2>2
<1> QED BY <1>1, <1>2

\* A run that ends with a verdict of its own.
LEMMA StopStep ==
  ASSUME Inv, pc \in Running \cup {"search"}, NEW o \in Solvers,
         NEW how \in {"ended", "threw", "escaped"}, Stop(o, how),
         UNCHANGED <<method, built, switches, estimator, runs>>,
         built = "DifferentialEvolution" =>
           (o.status = "MaxEvaluations" <=> o.evaluations = o.budget)
  PROVE  Inv'
<1>1. how \in Stages
  BY DEF Stages
<1>2. TypeOK'
  BY <1>1, StopTyped DEF Inv
<1>3. ShownInv'
  BY DEF Inv, ShownInv, EstimateIsOfLastRun, Stop, Running
<1>4. BudgetInv' /\ BestInv'
  BY DEF Inv, BudgetInv, BudgetExact, BestInv, Stop, Running
<1> QED BY <1>2, <1>3, <1>4 DEF Inv

\* In a run that goes on nothing is shown.
LEMMA ShownStep ==
  ASSUME Inv, pc \in Running, pc' \in Running,
         UNCHANGED <<method, built, switches, estimator, runs>>
  PROVE  ShownInv'
BY DEF Inv, ShownInv, EstimateIsOfLastRun, Running

LEMMA EndedStep ==
  ASSUME Inv, pc \in Running \cup {"search"},
         NEW s \in Statuses \ {"MaxEvaluations"},
         NEW how \in {"ended", "threw", "escaped"}, Stop(Ended(solver, s), how),
         UNCHANGED <<method, built, switches, estimator, runs>>
  PROVE  Inv'
<1>1. solver \in Solvers
  BY DEF Inv, TypeOK
<1>2. /\ Ended(solver, s) \in Solvers /\ Ended(solver, s).status = s
      /\ Ended(solver, s).evaluations = solver.evaluations
      /\ Ended(solver, s).budget = solver.budget
  BY <1>1, EndedFacts
<1>3. built = "DifferentialEvolution" => pc \in Running /\ solver.evaluations # solver.budget
  BY <1>1 DEF Inv, BudgetInv, Exhausted, Solvers, Running
<1> QED BY <1>2, <1>3, StopStep

\* Every evaluation counts one, and the one that spends the budget ends the run.
LEMMA EvaluationEnds ==
  ASSUME Inv, pc \in Running, NEW f \in Fitness,
         Cancelled(Evaluated(solver, Made(f))), Stop(Evaluated(solver, Made(f)), "ended"),
         UNCHANGED <<method, built, switches, estimator, runs>>
  PROVE  Inv'
<1> DEFINE o == Evaluated(solver, Made(f))
<1>1. solver \in Solvers /\ Made(f) \in Points
  BY MadeFacts DEF Inv, TypeOK
<1>2. /\ o \in Solvers /\ o.evaluations = solver.evaluations + 1 /\ o.budget = solver.budget
      /\ o.status = IF solver.evaluations + 1 >= solver.budget
                      THEN "MaxEvaluations" ELSE solver.status
  BY <1>1, EvaluatedFacts
<1>3. ~Exhausted(solver) /\ Exhausted(o)
  BY DEF Inv, BudgetInv, Cancelled
<1>4. o.status = "MaxEvaluations" /\ o.evaluations = o.budget
  BY <1>1, <1>2, <1>3 DEF Exhausted, Solvers
<1> QED BY <1>2, <1>4, StopStep

LEMMA EvaluationGoesOn ==
  ASSUME Inv, pc \in Running, NEW f \in Fitness, pc' \in Running,
         ~Cancelled(Evaluated(solver, Made(f))), solver' = Evaluated(solver, Made(f)),
         UNCHANGED <<method, built, switches, estimator, runs>>
  PROVE  solver' \in Solvers /\ BudgetInv'
<1>1. solver \in Solvers /\ Made(f) \in Points
  BY MadeFacts DEF Inv, TypeOK
<1>2. /\ solver' \in Solvers /\ solver'.evaluations = solver.evaluations + 1
      /\ solver'.budget = solver.budget
      /\ solver'.status = IF solver.evaluations + 1 >= solver.budget
                            THEN "MaxEvaluations" ELSE solver.status
  BY <1>1, EvaluatedFacts
<1>3. ~Exhausted(solver)' /\ solver'.status = "None"
  BY <1>1, <1>2 DEF Inv, BudgetInv, Cancelled, Exhausted, Solvers
<1> QED BY <1>2, <1>3 DEF Inv, BudgetInv, BudgetExact, Running

\* The fitness of a member and of the best are integers.
LEMMA FitnessIsInteger ==
  ASSUME TypeOK
  PROVE  /\ Members \subseteq Points
         /\ solver.best.fitness \in Int /\ \A p \in Members : p.fitness \in Int
<1>1. \A p \in Points : p.fitness \in Int
  BY FitnessAssumption DEF Points, Fitness, NaN, Infinity
<1>2. Members \subseteq Points
  BY DEF TypeOK, Members
<1>3. solver.best \in Points
  BY DEF TypeOK, Solvers
<1> QED BY <1>1, <1>2, <1>3

\* A new member is the best, or no better than the best that stays.
LEMMA PopulateLeads ==
  ASSUME Inv, NEW f \in Fitness, pc = "populate",
         solver' = Evaluated(solver, Made(f)), population' = Append(population, Made(f))
  PROVE  /\ population' # <<>> /\ solver'.best # NoPoint
         /\ AllNumbers' => Leads'
<1>1. /\ solver \in Solvers /\ population \in Seq(Points) /\ Made(f) \in Points
      /\ Made(f).fitness = f /\ Made(f) # NoPoint /\ f \in Int
  BY MadeFacts, FitnessAssumption DEF Inv, TypeOK, Fitness, NaN, Infinity
<1>2. solver'.best = IF Replaces(solver, Made(f)) THEN Made(f) ELSE solver.best
  BY <1>1, EvaluatedFacts
<1>3. Members' = Members \cup {Made(f)}
  BY <1>1 DEF Members
<1>4. population' # <<>>
  BY <1>1
<1>5. population = <<>> => solver.best = NoPoint /\ Members = {}
  BY DEF Inv, BestInv, Running, Members
<1>6. population # <<>> => solver.best # NoPoint /\ (AllNumbers => Leads)
  BY DEF Inv, BestInv, Running
<1>7. solver'.best # NoPoint
  BY <1>1, <1>2, <1>5, <1>6 DEF Replaces
<1>8. ASSUME AllNumbers' PROVE Leads'
  <2>1. AllNumbers /\ f # NaN
    BY <1>1, <1>3, <1>8 DEF AllNumbers
  <2>2. CASE population = <<>>
    BY <1>1, <1>2, <1>3, <1>5, <2>2 DEF Leads, Replaces
  <2>3. CASE population # <<>>
    <3>1. Leads /\ solver.best # NoPoint /\ solver.best.fitness # NaN
      BY <1>6, <2>1, <2>3 DEF AllNumbers, Leads
    <3>2. solver.best.fitness \in Int /\ \A p \in Members : p.fitness \in Int
      BY FitnessIsInteger DEF Inv
    <3>3. Replaces(solver, Made(f)) <=> f <= solver.best.fitness
      BY <1>1, <2>1, <3>1 DEF Replaces, NoWorse
    <3> QED BY <1>1, <1>2, <1>3, <3>1, <3>2, <3>3 DEF Leads
  <2> QED BY <2>2, <2>3
<1> QED BY <1>4, <1>7, <1>8

LEMMA PopulateStep ==
  ASSUME Inv, NEW f \in Fitness, Populate(f),
         UNCHANGED <<method, built, switches, estimator, runs>>
  PROVE  Inv'
<1>1. CASE Cancelled(Evaluated(solver, Made(f)))
  BY <1>1, EvaluationEnds DEF Populate, Running
<1>2. CASE ~Cancelled(Evaluated(solver, Made(f)))
  <2>1. /\ pc = "populate" /\ pc' = "populate" /\ next' = next
        /\ solver' = Evaluated(solver, Made(f)) /\ population' = Append(population, Made(f))
    BY <1>2 DEF Populate
  <2>2. solver' \in Solvers /\ BudgetInv'
    BY <1>2, <2>1, EvaluationGoesOn DEF Running
  <2>3. TypeOK'
    BY <2>1, <2>2, MadeFacts DEF Inv, TypeOK
  <2>4. BestInv'
    BY <2>1, PopulateLeads DEF BestInv
  <2>5. ShownInv'
    BY <2>1, ShownStep DEF Running
  <2> QED BY <2>2, <2>3, <2>4, <2>5 DEF Inv
<1> QED BY <1>1, <1>2

\* The member a trial replaces is not the best, unless the trial is.
LEMMA TrialLeads ==
  ASSUME Inv, NEW f \in Fitness, pc = "trial",
         solver' = Evaluated(solver, Made(f)),
         population' = IF Accepts(f, population[next])
                         THEN [population EXCEPT ![next] = Made(f)] ELSE population
  PROVE  /\ population' \in Seq(Points) /\ Len(population') = Size /\ population' # <<>>
         /\ solver'.best # NoPoint
         /\ AllNumbers' => Leads'
<1>1. /\ solver \in Solvers /\ population \in Seq(Points) /\ Made(f) \in Points
      /\ Made(f).fitness = f /\ Made(f) # NoPoint /\ f \in Int
  BY MadeFacts, FitnessAssumption DEF Inv, TypeOK, Fitness, NaN, Infinity
<1>2. solver'.best = IF Replaces(solver, Made(f)) THEN Made(f) ELSE solver.best
  BY <1>1, EvaluatedFacts
<1>3. Size \in Nat \ {0} /\ Len(population) = Size /\ next \in 1..Size
  BY GenerationAssumption DEF Inv, BestInv, Running
<1>4. population # <<>> /\ solver.best # NoPoint /\ (AllNumbers => Leads)
  BY <1>1, <1>3 DEF Inv, BestInv, Running
<1>5. population' \in Seq(Points) /\ Len(population') = Size
  BY <1>1, <1>3
<1>6. population' # <<>>
  BY <1>3, <1>5
<1>7. solver'.best # NoPoint
  BY <1>1, <1>2, <1>4
<1>8. ASSUME AllNumbers' PROVE Leads'
  <2>1. solver.best.fitness \in Int /\ \A p \in Members : p.fitness \in Int
    BY FitnessIsInteger DEF Inv
  <2>2. population[next] \in Members
    BY <1>3 DEF Members
  <2>3. CASE Accepts(f, population[next])
    <3>1. population' = [population EXCEPT ![next] = Made(f)]
      BY <2>3
    <3>2. f # NaN /\ population[next].fitness # NaN /\ f <= population[next].fitness
      BY <2>3 DEF Accepts, NoWorse
    <3>3. /\ Made(f) \in Members'
          /\ \A p \in Members' : p \in Members \/ p = Made(f)
          /\ \A p \in Members : p = population[next] \/ p \in Members'
      BY <1>1, <1>3, <1>5, <3>1 DEF Members
    <3>4. AllNumbers
      BY <1>8, <3>2, <3>3 DEF AllNumbers
    <3>5. Leads /\ solver.best.fitness # NaN
      BY <1>4, <3>4 DEF Leads, AllNumbers
    <3>6. Replaces(solver, Made(f)) <=> f <= solver.best.fitness
      BY <1>1, <1>4, <3>2, <3>5 DEF Replaces, NoWorse
    <3> QED BY <1>1, <1>2, <2>1, <2>2, <3>2, <3>3, <3>5, <3>6 DEF Leads
  <2>4. CASE ~Accepts(f, population[next])
    <3>1. Members' = Members /\ AllNumbers
      BY <1>8, <2>4 DEF Members, AllNumbers
    <3>2. Leads /\ solver.best.fitness # NaN /\ population[next].fitness # NaN
      BY <1>4, <2>2, <3>1 DEF Leads, AllNumbers
    <3>3. f = NaN \/ f > population[next].fitness
      BY <1>1, <2>1, <2>2, <2>4, <3>2 DEF Accepts, NoWorse
    <3>4. ~Replaces(solver, Made(f))
      BY <1>1, <1>4, <2>1, <2>2, <3>2, <3>3 DEF Replaces, NoWorse, Leads
    <3> QED BY <1>2, <3>1, <3>2, <3>4 DEF Leads
  <2> QED BY <2>3, <2>4
<1> QED BY <1>5, <1>6, <1>7, <1>8

LEMMA TrialStep ==
  ASSUME Inv, NEW f \in Fitness, Trial(f),
         UNCHANGED <<method, built, switches, estimator, runs>>
  PROVE  Inv'
<1>1. CASE Cancelled(Evaluated(solver, Made(f)))
  BY <1>1, EvaluationEnds DEF Trial, Running
<1>2. CASE ~Cancelled(Evaluated(solver, Made(f)))
  <2>1. /\ pc = "trial" /\ pc' = IF next = Size THEN "judge" ELSE "trial"
        /\ next' = next + 1 /\ solver' = Evaluated(solver, Made(f))
        /\ population' = IF Accepts(f, population[next])
                           THEN [population EXCEPT ![next] = Made(f)] ELSE population
    BY <1>2 DEF Trial
  <2>2. solver' \in Solvers /\ BudgetInv'
    BY <1>2, <2>1, EvaluationGoesOn DEF Running
  <2>3. /\ population' \in Seq(Points) /\ Len(population') = Size /\ population' # <<>>
        /\ solver'.best # NoPoint
        /\ AllNumbers' => Leads'
    BY <2>1, TrialLeads
  <2>4. TypeOK'
    BY <2>1, <2>2, <2>3 DEF Inv, TypeOK, Stages
  <2>5. next \in 1..Size /\ Size \in Nat
    BY <2>1, GenerationAssumption DEF Inv, BestInv, Running
  <2>6. BestInv'
    BY <2>1, <2>3, <2>5 DEF BestInv
  <2>7. ShownInv'
    BY <2>1, ShownStep DEF Running
  <2> QED BY <2>2, <2>4, <2>6, <2>7 DEF Inv
<1> QED BY <1>1, <1>2

\* A step that only counts an iteration or looks at the population.
LEMMA TurnStep ==
  ASSUME Inv, pc \in Running \ {"trial"}, pc' \in Running \ {"populate"},
         solver' = solver \/ solver' = [solver EXCEPT !.iterations = @ + 1],
         population' = population, pc = "populate" => Len(population) = Size,
         next' \in Nat, pc' = "trial" => next' = 1,
         UNCHANGED <<method, built, switches, estimator, runs>>
  PROVE  Inv'
<1>1. /\ solver \in Solvers /\ solver' \in Solvers
      /\ solver'.evaluations = solver.evaluations /\ solver'.budget = solver.budget
      /\ solver'.status = solver.status /\ solver'.best = solver.best
  BY DEF Inv, TypeOK, Solvers
<1>2. Size \in Nat \ {0} /\ Running \subseteq Stages
  BY GenerationAssumption DEF Running, Stages
<1>3. TypeOK'
  BY <1>1, <1>2 DEF Inv, TypeOK
<1>4. BudgetInv'
  BY <1>1 DEF Inv, BudgetInv, BudgetExact, Exhausted, Running
<1>5. Members' = Members
  BY DEF Members
<1>6. BestInv'
  BY <1>1, <1>2, <1>5 DEF Inv, BestInv, AllNumbers, Leads
<1>7. ShownInv'
  BY ShownStep
<1> QED BY <1>3, <1>4, <1>6, <1>7 DEF Inv

LEMMA BrentStep ==
  ASSUME Inv, NEW f \in Fitness, NEW n \in 2..MaxSearch, BrentSearch(f, n)
  PROVE  Inv'
<1> DEFINE o == [Ended(solver, "Success") EXCEPT !.best = Point(f, n), !.evaluations = n]
<1>1. Ended(solver, "Success") \in Solvers
  BY EndedFacts DEF Inv, TypeOK, Statuses
<1>2. Point(f, n) \in Points /\ n \in Nat
  BY EstimatorAssumption DEF Point, Points
<1>3. o \in Solvers
  BY <1>1, <1>2 DEF Solvers
<1>4. Stop(o, "ended") /\ UNCHANGED <<method, built, switches, estimator, runs>>
  BY DEF BrentSearch
<1>5. pc = "search" /\ built = "Brent"
  BY DEF Inv, BudgetInv, BrentSearch
<1> HIDE DEF o
<1> QED BY <1>3, <1>4, <1>5, StopStep

LEMMA ThrowStep ==
  ASSUME Inv, NEW how \in {"threw", "escaped"}, ObjectiveThrows(how)
  PROVE  Inv'
<1>1. pc \in Running \cup {"search"}
  BY DEF ObjectiveThrows, Evaluating, Running
<1>2. "Failure" \in Statuses \ {"MaxEvaluations"}
  BY DEF Statuses
<1>3. \/ Stop(Ended(solver, "Failure"), how)
      \/ Stop(Ended(solver, "Failure"), "ended")
  BY DEF ObjectiveThrows, Fails
<1>4. UNCHANGED <<method, built, switches, estimator, runs>>
  BY DEF ObjectiveThrows
<1> QED BY <1>1, <1>2, <1>3, <1>4, EndedStep

LEMMA EvolveStep ==
  ASSUME Inv, Evolve, UNCHANGED <<method, built, switches, estimator, runs>>
  PROVE  Inv'
<1>n. next \in Nat /\ 1 \in Nat
  BY DEF Inv, TypeOK
<1>1. CASE \E f \in Fitness : Populate(f) \/ Trial(f)
  BY <1>1, PopulateStep, TrialStep
<1>2. CASE Populated
  BY <1>2, <1>n, TurnStep DEF Populated, Running
<1>3. CASE Generation
  <2>1. CASE solver.iterations < MaxIterations
    BY <1>3, <2>1, <1>n, TurnStep DEF Generation, Running
  <2>2. CASE ~(solver.iterations < MaxIterations)
    <3>1. "MaxIterations" \in Statuses \ {"MaxEvaluations"}
      BY DEF Statuses
    <3> QED BY <1>3, <2>2, <3>1, EndedStep DEF Generation, Running
  <2> QED BY <2>1, <2>2
<1>4. CASE Converged
  <2>1. "Success" \in Statuses \ {"MaxEvaluations"}
    BY DEF Statuses
  <2> QED BY <1>4, <2>1, EndedStep DEF Converged, Running
<1>5. CASE NextGeneration
  BY <1>5, <1>n, TurnStep DEF NextGeneration, Running
<1> QED BY <1>1, <1>2, <1>3, <1>4, <1>5 DEF Evolve

LEMMA StutterStep == Inv /\ UNCHANGED vars => Inv'
BY DEF Inv, TypeOK, ShownInv, EstimateIsOfLastRun, BudgetInv, BudgetExact, BestInv, AllNumbers,
       Leads, Members, Exhausted, Running, vars, search

LEMMA Inductive == Inv /\ [Next]_vars => Inv'
<1> SUFFICES ASSUME Inv, [Next]_vars PROVE Inv'
  OBVIOUS
<1>1. CASE Host
  BY <1>1, HostStep
<1>2. CASE Evolve /\ UNCHANGED <<method, built, switches, estimator, runs>>
  BY <1>2, EvolveStep
<1>3. CASE \E f \in Fitness, n \in 2..MaxSearch : BrentSearch(f, n)
  BY <1>3, BrentStep
<1>4. CASE \E how \in {"threw", "escaped"} : ObjectiveThrows(how)
  BY <1>4, ThrowStep
<1>5. CASE Accept \/ Reject \/ Caught \/ Escapes \/ Hessian \/ NoHessian
  BY <1>5, ResultStep
<1>6. CASE UNCHANGED vars
  BY <1>6, StutterStep
<1> QED BY <1>1, <1>2, <1>3, <1>4, <1>5, <1>6 DEF Next, Steps

\* Inv holds in every state an estimator reaches.
THEOREM Invariant == Spec => []Inv
BY InitInv, Inductive, PTL DEF Spec
-----------------------------------------------------------------------------

\* The members of the estimator and its optimiser keep their types, through
\* refused methods and runs that throw.
THEOREM Typed == Spec => []TypeOK
<1>1. Inv => TypeOK
  BY DEF Inv
<1> QED BY <1>1, Invariant, PTL

\* Evolution never loses its best point to a trial, for every population size
\* and range of fitness, unless a NaN settled in the population.
THEOREM NeverLosesBest == Spec => []BestSurvives
<1>1. Inv => BestSurvives
  BY GenerationAssumption DEF Inv, TypeOK, BestInv, BestSurvives, AllNumbers, Leads, Running
<1> QED BY <1>1, Invariant, PTL

\* The budget is respected to the evaluation, whatever a caller sets it to.
THEOREM BudgetRespected == Spec => []BudgetExact
<1>1. Inv => BudgetExact
  BY DEF Inv, BudgetInv
<1> QED BY <1>1, Invariant, PTL

\* An estimate is shown whole, as its optimiser left it, and only while it is the last
\* one; what stays readable after a refused, failed or abandoned one is the best point
\* of an earlier success, with no count and no Hessian.
THEOREM ShownOfLastRun == Spec => []EstimateIsOfLastRun
<1>1. Inv => EstimateIsOfLastRun
  BY DEF Inv, ShownInv
<1> QED BY <1>1, Invariant, PTL
=============================================================================
