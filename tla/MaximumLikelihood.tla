------------------------- MODULE MaximumLikelihood --------------------------
(***************************************************************************)
(* The maximum likelihood estimator (estimation/maximum_likelihood.hpp)    *)
(* over the optimiser it builds: differential evolution, or the adapter of *)
(* Brent's search (estimation/support/optimizer_adapters.hpp), which only  *)
(* a model of one parameter admits.  The maximum a posteriori estimator    *)
(* has the same steps over another objective.                              *)
(*                                                                         *)
(* A caller holds the estimator across estimates, changes its method and   *)
(* switches, and reaches its optimiser by reference to set its budget; it  *)
(* does not run that optimiser behind the estimator's back.                *)
(***************************************************************************)
EXTENDS DifferentialEvolution

CONSTANTS Parameters,      \* number_of_parameters() of the model
          DefaultBudget,   \* max_function_evaluations of a new optimiser
          Budgets,         \* and the values a caller may set
          MaxSearch,       \* evaluations of Brent's search, at most
          MaxRuns          \* bound on the estimates of a behaviour

ASSUME EstimatorAssumption ==
  /\ {Parameters, MaxSearch, MaxRuns} \subseteq Nat \ {0}
  /\ {DefaultBudget} \cup Budgets \subseteq Nat

VARIABLES method,      \* method_
          built,       \* the class of *optimizer_
          switches,    \* report_failure_ and compute_hessian_
          estimator,   \* the results
          runs         \* estimates so far

vars == <<search, method, built, switches, estimator, runs>>

Methods == {"DifferentialEvolution", "Brent"}

\* of and hessian are the estimate that the best set and the Hessian are from.
NoEstimate == [estimated |-> FALSE, status |-> "None", evaluations |-> 0,
               best |-> NoPoint, of |-> 0, hessian |-> 0]

Init ==
  /\ method = "DifferentialEvolution" /\ built = method
  /\ switches = [report |-> FALSE, hessian |-> TRUE]
  /\ solver = NewOptimizer(DefaultBudget, FALSE)
  /\ estimator = NoEstimate /\ runs = 0
  /\ population = <<>> /\ next = 0 /\ pc = "idle"

Idle == pc = "idle" /\ UNCHANGED <<population, next, pc, runs>>

\* The results go first; a model that Brent does not admit leaves the old optimiser.
SetOptimizerMethod(m) ==
  /\ Idle /\ method # m
  /\ method' = m
  /\ estimator' = NoEstimate
  /\ IF m = "Brent" /\ Parameters # 1
       THEN UNCHANGED <<built, solver>>
       ELSE built' = m /\ solver' = NewOptimizer(DefaultBudget, switches.report)
  /\ UNCHANGED switches

SetReportFailure(r) ==
  /\ Idle
  /\ switches' = [switches EXCEPT !.report = r]
  /\ solver' = [solver EXCEPT !.report = r]
  /\ UNCHANGED <<method, built, estimator>>

SetComputeHessian(h) ==
  /\ Idle
  /\ switches' = [switches EXCEPT !.hessian = h]
  /\ estimator' = IF h THEN estimator ELSE [estimator EXCEPT !.hessian = 0]
  /\ UNCHANGED <<method, built, solver>>

SetBudget(b) ==
  /\ Idle
  /\ solver' = [solver EXCEPT !.budget = b]
  /\ UNCHANGED <<method, built, switches, estimator>>

ClearResults ==
  /\ Idle
  /\ estimator' = NoEstimate
  /\ UNCHANGED <<solver, method, built, switches>>

\* Mutant: the Hessian of the last estimate is left.
RestartedKeeps(e) == [e EXCEPT !.estimated = FALSE, !.status = "None", !.evaluations = 0]

\* estimate() resets all but the best parameter set.
Restarted(e) ==
  [e EXCEPT !.estimated = FALSE, !.status = "None", !.evaluations = 0, !.hessian = 0]

Estimate ==
  /\ pc = "idle" /\ runs < MaxRuns
  /\ runs' = runs + 1
  /\ estimator' = Restarted(estimator)
  /\ Maximize(IF built = "Brent" THEN "search" ELSE "populate")
  /\ UNCHANGED <<method, built, switches>>

\* Brent's search and one evaluation more, whatever the budget: always a success.
BrentSearch(f, n) ==
  /\ pc = "search"
  /\ Stop([Ended(solver, "Success") EXCEPT !.best = Point(f, n), !.evaluations = n], "ended")
  /\ UNCHANGED <<method, built, switches, estimator, runs>>

\* The objective throws: an exception of the standard library, or one of a host
\* language that estimate() does not catch.
ObjectiveThrows(how) ==
  /\ Evaluating \/ pc = "search"
  /\ Fails(how)
  /\ UNCHANGED <<method, built, switches, estimator, runs>>

Leaves == pc' = "idle" /\ UNCHANGED <<solver, population, next, method, built, switches, runs>>

Accept ==
  /\ pc = "ended" /\ solver.status = "Success"
  /\ estimator' = [estimator EXCEPT !.estimated = TRUE, !.status = "Success",
                     !.best = solver.best, !.of = runs, !.evaluations = solver.evaluations]
  /\ pc' = IF switches.hessian THEN "hessian" ELSE "idle"
  /\ UNCHANGED <<solver, population, next, method, built, switches, runs>>

Reject ==
  /\ pc = "ended" /\ solver.status # "Success"
  /\ estimator' = [estimator EXCEPT !.status = solver.status]
  /\ Leaves

Caught ==
  /\ pc = "threw"
  /\ estimator' = [estimator EXCEPT !.status = "Failure"]
  /\ Leaves

Escapes == pc = "escaped" /\ UNCHANGED estimator /\ Leaves

Hessian ==
  /\ pc = "hessian"
  /\ estimator' = [estimator EXCEPT !.hessian = runs]
  /\ Leaves

\* An exception of the standard library resets the Hessian, which is not there yet.
NoHessian ==
  /\ pc = "hessian"
  /\ estimator' = [estimator EXCEPT !.hessian = 0]
  /\ Leaves

Steps ==
  \/ Evolve /\ UNCHANGED <<method, built, switches, estimator, runs>>
  \/ \E f \in Fitness, n \in 2..MaxSearch : BrentSearch(f, n)
  \/ \E how \in {"threw", "escaped"} : ObjectiveThrows(how)
  \/ Accept \/ Reject \/ Caught \/ Escapes \/ Hessian \/ NoHessian

Host ==
  \/ \E m \in Methods : SetOptimizerMethod(m)
  \/ \E b \in BOOLEAN : SetReportFailure(b) \/ SetComputeHessian(b)
  \/ \E b \in Budgets : SetBudget(b)
  \/ ClearResults \/ Estimate

Next == Host \/ Steps

Spec == Init /\ [][Next]_vars
-----------------------------------------------------------------------------

Stages == {"idle", "populate", "generation", "trial", "judge", "search", "ended", "threw",
           "escaped", "hessian"}

TypeOK ==
  /\ solver \in Solvers /\ population \in Seq(Points) /\ next \in Nat /\ pc \in Stages
  /\ method \in Methods /\ built \in Methods
  /\ switches \in [report : BOOLEAN, hessian : BOOLEAN]
  /\ estimator \in [estimated : BOOLEAN, status : Statuses, evaluations : Nat,
                    best : Points, of : Nat, hessian : Nat]
  /\ runs \in Nat

\* The best point the search ever made is still in the population, under the
\* same identity, unless a value that is not a number sits there: such a member
\* is never replaced, and the best may then be a trial it turned away.
BestSurvives ==
  pc \in {"generation", "trial", "judge"} /\ (\A p \in Members : p.fitness # NaN) =>
    solver.best \in Members

\* The budget is never passed, and it is the verdict exactly when it is spent.
BudgetExact ==
  built = "DifferentialEvolution" =>
    /\ pc \in {"populate", "generation", "trial", "judge"} => ~Exhausted(solver)
    /\ pc = "ended" =>
         (solver.status = "MaxEvaluations" <=> solver.evaluations = solver.budget)

\* What the estimator shows as an estimate is all of one run, the last one, and
\* what its optimiser shows: the point, its count, and the Hessian behind the
\* covariance matrix.  A failed or abandoned estimate leaves neither an evaluation
\* count nor a Hessian.  It does leave the point of an earlier success, which is
\* reset by clear_results only and readable without being estimated
\* (maximum_likelihood.hpp:160, 173-180): never one of its own.
EstimateIsOfLastRun ==
  /\ estimator.estimated =>
       /\ estimator.of = runs
       /\ estimator.status = "Success" /\ solver.status = "Success"
       /\ estimator.best = solver.best /\ estimator.evaluations = solver.evaluations
  /\ estimator.hessian # 0 => estimator.estimated /\ estimator.hessian = runs
  /\ estimator.evaluations # 0 => estimator.estimated
  /\ ~estimator.estimated /\ estimator.best # NoPoint => estimator.of \in 1..(runs - 1)

=============================================================================
