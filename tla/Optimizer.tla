----------------------------- MODULE Optimizer ------------------------------
(***************************************************************************)
(* What every optimiser inherits                                           *)
(* (numerics/math/optimization/support/optimizer.hpp): the budget of       *)
(* evaluations, the incumbent and the status, as operators on the record   *)
(* of one optimiser, so that a search that runs inside another one is a    *)
(* second record.                                                          *)
(*                                                                         *)
(* Fitness is what is minimised, the objective times function_scale_.  A   *)
(* point is its fitness and the evaluation that made it.  Of the settings  *)
(* only the budget and report_failure are kept: the other checks of        *)
(* validate() throw as the one on the budget does.                         *)
(***************************************************************************)
EXTENDS Integers

CONSTANTS MaxFitness,   \* finite values of the objective are 0..MaxFitness
          Least         \* the smallest budget validate() accepts (10 in the code)

ASSUME FitnessAssumption == MaxFitness \in Nat
ASSUME LeastAssumption == Least \in Nat /\ Least >= 2

NaN      == -1
Infinity == MaxFitness + 1
Fitness  == NaN..Infinity
Finite(f) == f \in 0..MaxFitness

\* The comparisons of floating point numbers: false of a NaN.
NoWorse(f, g) == f # NaN /\ g # NaN /\ f <= g
Better(f, g)  == f # NaN /\ g # NaN /\ f < g

Point(f, n) == [fitness |-> f, at |-> n]
NoPoint     == Point(NaN, -1)   \* a ParameterSet without values

Statuses == {"None", "Success", "MaxIterations", "MaxEvaluations", "Failure", "LineSearchFailed"}

Points  == [fitness : Fitness, at : Int]
Solvers == [budget : Nat, report : BOOLEAN, iterations : Nat, evaluations : Nat,
            best : Points, status : Statuses]

NewOptimizer(budget, report) ==
  [budget |-> budget, report |-> report, iterations |-> 0, evaluations |-> 0,
   best |-> NoPoint, status |-> "None"]

Cleared(o) == NewOptimizer(o.budget, o.report)

\* validate() throws of a budget below Least.
Valid(o) == o.budget >= Least

Replaces(o, p) == o.best = NoPoint \/ NoWorse(p.fitness, o.best.fitness)

Exhausted(o) == o.evaluations >= o.budget

\* evaluate(): the incumbent, the counter, and the status once the budget is spent.
Evaluated(o, p) ==
  LET n == o.evaluations + 1
  IN  [o EXCEPT !.best = IF Replaces(o, p) THEN p ELSE @,
                !.evaluations = n,
                !.status = IF n >= o.budget THEN "MaxEvaluations" ELSE @]

\* update_status() throws of a spent budget or of too many iterations if
\* failures are reported; minimize() swallows exactly these exceptions.
Ended(o, status) == [o EXCEPT !.status = status]
=============================================================================
