---------------------------- MODULE GlobalSearch ----------------------------
(***************************************************************************)
(* The two global optimisers that run local ones: multi-start              *)
(* (numerics/math/optimization/multi_start.hpp) and multi-level single     *)
(* linkage (mlsl.hpp), from minimize() to its end.                         *)
(*                                                                         *)
(* cancel stays FALSE after a local search: get_local_optimizer reads the  *)
(* flag of the search it has just built, before that search runs.          *)
(* Distances between points are left out: a point may be near any other.   *)
(***************************************************************************)
EXTENDS LocalSearch, Sequences, SequencesExt

CONSTANTS Budgets,            \* max_function_evaluations
          MaxIterations,      \* max_iterations
          SampleSize,         \* points MLSL samples in an iteration (at least 4 in the code)
          Reduction,          \* one of this many sampled points is kept (1/gamma)
          MinNoImprovement,   \* of MLSL's stopping rule
          MaxNoImprovement

ASSUME BudgetAssumption == Budgets \subseteq Nat
ASSUME SettingsAssumption ==
  /\ {MaxIterations, SampleSize, Reduction, MinNoImprovement} \subseteq Nat \ {0}
  /\ MaxNoImprovement \in Nat /\ MaxNoImprovement >= MinNoImprovement

VARIABLES solver,      \* which of the two runs
          sampled,     \* sampled_points_, [fitness, minimized] records
          minima,      \* the fitness of the local_minimums_, and NoMinimum
          visited,     \* points of the sample, or of the reduced one, done in this iteration
          improvement  \* no_improvement and old_fit

mlsl == <<sampled, minima, visited, improvement>>
vars == <<outer, local, method, purpose, diff, probes, broken, outcome, pc, solver, mlsl>>

NoMinimum == -2   \* the point of a local search that evaluated nothing

Init ==
  /\ outer = NewOptimizer(0, TRUE) /\ local = NoLocal
  /\ method = "BFGS" /\ solver = "MultiStart"
  /\ purpose = "none" /\ diff = "none" /\ probes = 0
  /\ broken = FALSE /\ outcome = "none" /\ pc = "idle"
  /\ sampled = <<>> /\ minima = {} /\ visited = 0
  /\ improvement = [count |-> 0, old |-> NaN]

\* The host makes an optimiser of class s over method m and calls minimize().
Minimize(s, m, budget, report) ==
  /\ pc = "idle"
  /\ solver' = s /\ method' = m
  /\ LET o == NewOptimizer(budget, report)
     IN  IF Valid(o)
           THEN outer' = o /\ pc' = "next" /\ outcome' = "none" /\ broken' = FALSE
           ELSE outer' = o /\ pc' = "idle" /\ outcome' = "threw" /\ broken' = TRUE
  /\ sampled' = <<>> /\ minima' = {} /\ visited' = 0
  /\ improvement' = [count |-> 0, old |-> NaN]
  /\ UNCHANGED run

\* The Hessian of a result that counts as one; of a NaN there is none, and the
\* objective may throw at its base point.
Result(o) ==
  /\ UNCHANGED <<method, solver, mlsl>>
  /\ \/ Finite(o.best.fitness) /\ Leave(o, "returned") /\ UNCHANGED broken
     \/ o.status \in {"Success", "LineSearchFailed"} /\ Breaks(o)

\* optimize() comes to an end with this status; the exceptions of the two limits
\* are swallowed.
Conclude(status) ==
  IF status \in {"Success", "LineSearchFailed"} THEN Result(Ended(outer, status))
  ELSE Leave(Ended(outer, status), "returned") /\ UNCHANGED <<method, broken, solver, mlsl>>

Counted == [outer EXCEPT !.iterations = @ + 1]

-----------------------------------------------------------------------------
(* MultiStart.  The first search starts from the initial values, the others *)
(* from points drawn at random.                                             *)

StartMultiStart ==
  /\ pc = "next" /\ solver = "MultiStart"
  /\ outer.iterations < MaxIterations
  /\ StartLocal(outer, "start")
  /\ UNCHANGED <<method, solver, mlsl>>

StartReturned ==
  /\ pc = "returned" /\ purpose = "start"
  /\ outer' = Counted
  /\ pc' = "next" /\ RunIdle
  /\ UNCHANGED <<method, ends, solver, mlsl>>

PolishMultiStart ==
  /\ pc = "next" /\ solver = "MultiStart"
  /\ outer.iterations = MaxIterations
  /\ StartLocal(outer, "polish")
  /\ UNCHANGED <<method, solver, mlsl>>

\* The loop is over, and polish is not asked for.
LoopEnds ==
  /\ pc = "next"
  /\ outer.iterations = MaxIterations
  /\ Conclude("MaxIterations")

PolishReturned ==
  /\ pc = "returned" /\ purpose = "polish"
  /\ Conclude(IF solver = "MLSL" THEN local.status ELSE "MaxIterations")

-----------------------------------------------------------------------------
(* MLSL.                                                                    *)

\* An evaluation of MLSL's own spends the budget and throws, which ends the run quietly.
OwnEvaluationThrows(f) ==
  /\ OuterThrows(f)
  /\ Leave(Seen(outer, Point(f, 0)), "returned")
  /\ UNCHANGED <<broken, mlsl>>

Sampled(f, done) == [fitness |-> f, minimized |-> done]

\* The initial point; cancel is not asked before its local search is built.
InitialPoint(f) ==
  /\ pc = "next" /\ solver = "MLSL" /\ outer.iterations = 0
  /\ \/ OwnEvaluationThrows(f)
     \/ /\ ~OuterThrows(f)
        /\ sampled' = <<Sampled(f, TRUE)>>
        /\ StartLocal(Seen(outer, Point(f, 0)), "initial")
        /\ UNCHANGED <<minima, visited, improvement>>
  /\ UNCHANGED <<method, solver>>

MinimumOf(l) == IF l.best = NoPoint THEN NoMinimum ELSE l.best.fitness

InitialReturned ==
  /\ pc = "returned" /\ purpose = "initial"
  /\ minima' = minima \cup {MinimumOf(local)}
  /\ pc' = "sample" /\ visited' = 1
  /\ RunIdle
  /\ UNCHANGED <<outer, method, ends, solver, sampled, improvement>>

NextIteration ==
  /\ pc = "next" /\ solver = "MLSL"
  /\ outer.iterations \in 1..(MaxIterations - 1)
  /\ pc' = "sample" /\ visited' = 0
  /\ UNCHANGED <<outer, method, run, ends, solver, sampled, minima, improvement>>

\* A stable sort; NaN sorts first.
InOrder(ps) ==
  LET Before(k, l) == \/ ps[k].fitness < ps[l].fitness
                      \/ ps[k].fitness = ps[l].fitness /\ k < l
      order == SortSeq([k \in 1..Len(ps) |-> k], Before)
  IN  [k \in 1..Len(ps) |-> ps[order[k]]]

\* cancel ends the run and the point is not kept.
SamplePoint(f) ==
  /\ pc = "sample" /\ visited < SampleSize
  /\ LET o == Seen(outer, Point(f, 0))
     IN  \/ OwnEvaluationThrows(f)
         \/ /\ ~OuterThrows(f) /\ Exhausted(o)
            /\ Leave(o, "returned") /\ UNCHANGED <<broken, mlsl>>
         \/ /\ ~Exhausted(o)
            /\ outer' = o
            /\ sampled' = Append(sampled, Sampled(f, FALSE))
            /\ visited' = visited + 1
            /\ UNCHANGED <<run, ends, pc, minima, improvement>>
  /\ UNCHANGED <<method, solver>>

Reduce ==
  /\ pc = "sample" /\ visited = SampleSize
  /\ sampled' = InOrder(sampled)
  /\ pc' = "points" /\ visited' = 0
  /\ UNCHANGED <<outer, method, run, ends, solver, minima, improvement>>

\* ceil(gamma * k * N) of the sampled points.
Reduced ==
  LET wanted == ((outer.iterations + 1) * SampleSize + Reduction - 1) \div Reduction
  IN  IF wanted < Len(sampled) THEN wanted ELSE Len(sampled)

Candidate == sampled[visited + 1]

\* Mutant: a point is given up and asked for again.
PointSkippedStays ==
  /\ pc = "points" /\ visited < Reduced
  /\ \/ Candidate.minimized
     \/ \E k \in 1..Reduced : Better(sampled[k].fitness, Candidate.fitness)
     \/ \E m \in minima \ {NoMinimum} : Better(m, Candidate.fitness)
  /\ UNCHANGED vars

\* Already searched from, or a better point or local minimum is near.
PointSkipped ==
  /\ pc = "points" /\ visited < Reduced
  /\ \/ Candidate.minimized
     \/ \E k \in 1..Reduced : Better(sampled[k].fitness, Candidate.fitness)
     \/ \E m \in minima \ {NoMinimum} : Better(m, Candidate.fitness)
  /\ visited' = visited + 1
  /\ UNCHANGED <<outer, method, run, ends, pc, solver, sampled, minima, improvement>>

StartPoint ==
  /\ pc = "points" /\ visited < Reduced
  /\ ~Candidate.minimized
  /\ StartLocal(outer, "point")
  /\ UNCHANGED <<method, solver, mlsl>>

PointReturned ==
  /\ pc = "returned" /\ purpose = "point"
  /\ sampled' = [sampled EXCEPT ![visited + 1].minimized = TRUE]
  /\ minima' = minima \cup {MinimumOf(local)}
  /\ pc' = "points" /\ visited' = visited + 1
  /\ RunIdle
  /\ UNCHANGED <<outer, method, ends, solver, improvement>>

\* The counters of the stopping rule; a NaN never equals the last one.
Improvement ==
  LET f == outer.best.fitness
  IN  IF outer.iterations >= 1 /\ f # NaN /\ improvement.old = f
        THEN [improvement EXCEPT !.count = @ + 1]
        ELSE [count |-> 0, old |-> f]

\* Enough iterations without improvement, or some and the Bayesian estimate.
MayStop == Improvement.count >= MinNoImprovement
MustStop == Improvement.count >= MaxNoImprovement

GoOn ==
  /\ pc = "points" /\ visited = Reduced
  /\ ~MustStop
  /\ improvement' = Improvement
  /\ outer' = Counted
  /\ pc' = "next"
  /\ UNCHANGED <<method, run, ends, solver, sampled, minima, visited>>

StopRule ==
  /\ pc = "points" /\ visited = Reduced
  /\ MayStop
  /\ \/ StartLocal(outer, "polish") /\ UNCHANGED <<method, solver, mlsl>>
     \/ Conclude("Success")

-----------------------------------------------------------------------------

MultiStart == StartMultiStart \/ StartReturned \/ PolishMultiStart

MLSL ==
  \/ \E f \in Fitness : InitialPoint(f) \/ SamplePoint(f)
  \/ InitialReturned \/ NextIteration \/ Reduce
  \/ PointSkipped \/ StartPoint \/ PointReturned \/ GoOn \/ StopRule

\* The objective throws in an evaluation of MLSL's own.
OwnObjectiveThrows ==
  /\ solver = "MLSL"
  /\ \/ pc = "next" /\ outer.iterations = 0
     \/ pc = "sample" /\ visited < SampleSize
  /\ Breaks(outer)
  /\ UNCHANGED <<method, solver, mlsl>>

Steps ==
  \/ LocalStep /\ UNCHANGED <<solver, mlsl>>
  \/ MultiStart \/ MLSL \/ LoopEnds \/ PolishReturned \/ OwnObjectiveThrows

Host ==
  \E s \in {"MultiStart", "MLSL"}, m \in Methods, b \in Budgets, r \in BOOLEAN :
    Minimize(s, m, b, r)

Next == Host \/ Steps

Spec == Init /\ [][Next]_vars

\* A minimize() that is entered keeps running.
FairSpec == Spec /\ WF_vars(Steps)
-----------------------------------------------------------------------------

\* The records of both optimisers, and the place in the run.
TypeOK ==
  /\ outer \in Solvers /\ outer.iterations <= MaxIterations /\ local \in Solvers
  /\ method \in Methods /\ solver \in {"MultiStart", "MLSL"}
  /\ purpose \in {"none", "start", "initial", "point", "polish"}
  /\ diff \in {"none", "gradient", "hessian"} /\ probes \in 0..Probes
  /\ outcome \in {"none", "returned", "threw"} /\ broken \in BOOLEAN
  /\ minima \subseteq Fitness \cup {NoMinimum}
  /\ visited \in Nat
  /\ pc \in {"idle", "next", "sample", "points",
             "begin", "search", "decide", "base", "probe", "returned"}

\* Past the budget there is at most the finite difference during which it ran
\* out, whose probes swallow the exception, and one evaluation more: the search
\* then ends, and no other is built.
OvershootBounded == outer.evaluations <= outer.budget + Probes + 1

\* The result is no worse than what any local search found: it keeps two
\* incumbents, one of them behind an exception.
Missed(f) == outer.best = NoPoint \/ Better(f, outer.best.fitness)

IncumbentBeatsMinima ==
  /\ \A f \in minima \ {NoMinimum} : ~Missed(f)
  /\ local.best # NoPoint => ~Missed(local.best.fitness)

Spent == outer.evaluations > outer.budget - Least

\* A failure is reported for a failure of the run's own or when the rest of the
\* budget is too small for a local search, and only a run whose budget is spent
\* ends without a verdict or with that of the budget.
EndingExplained ==
  outcome # "none" =>
    /\ outer.status = "Failure" => broken \/ Spent
    /\ outer.status \in {"None", "MaxEvaluations"} => Spent
    /\ outcome = "threw" => outer.report \/ ~Valid(outer)

\* A run comes to an end: of its iterations, of its budget or by its stopping
\* rule.  Points given up are never asked for again.
MinimizeReturns == pc # "idle" ~> pc = "idle"
=============================================================================
