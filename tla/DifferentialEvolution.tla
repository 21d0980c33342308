----------------------- MODULE DifferentialEvolution ------------------------
(***************************************************************************)
(* The differential evolution optimiser                                    *)
(* (numerics/math/optimization/differential_evolution.hpp), as run by an   *)
(* estimator: maximize() from its checks to its end.  Which values a trial *)
(* takes is left out, and its fitness is any; an estimator's population    *)
(* never lacks the three donors of a trial.  A member of the population is *)
(* a point and keeps the evaluation that made it, so that two members of   *)
(* the same fitness differ.                                                *)
(***************************************************************************)
EXTENDS Optimizer, Sequences

CONSTANTS MaxIterations,   \* max_iterations
          Warmup,          \* iterations before convergence is looked at (10 in the code)
          Size             \* population_size, ten times the parameters

ASSUME GenerationAssumption == {MaxIterations, Warmup, Size} \subseteq Nat \ {0}

VARIABLES solver,       \* the optimiser's record
          population,   \* Xp, while optimize() runs
          next,         \* the member whose trial is due
          pc            \* where the run is

search == <<solver, population, next, pc>>

\* optimize() is left: the population is a local of it.
Stop(o, how) == solver' = o /\ population' = <<>> /\ next' = 0 /\ pc' = how

\* A genuine failure is the status, and is thrown if failures are reported.
Fails(how) == Stop(Ended(solver, "Failure"), IF solver.report THEN how ELSE "ended")

\* validate() throws before anything is cleared.
Maximize(first) ==
  IF Valid(solver) THEN Stop(Cleared(solver), first) ELSE Stop(solver, "threw")

Made(f) == Point(f, solver.evaluations)

\* Mutant: cancel is not looked at, and only a thrown budget ends the run.
CancelledIfThrown(o) == Exhausted(o) /\ o.report

Cancelled(o) == Exhausted(o)

\* The population is filled; the budget may be spent on the way.
Populate(f) ==
  /\ pc = "populate" /\ Len(population) < Size
  /\ LET o == Evaluated(solver, Made(f))
     IN  IF Cancelled(o) THEN Stop(o, "ended")
         ELSE /\ solver' = o
              /\ population' = Append(population, Made(f))
              /\ UNCHANGED <<next, pc>>

Populated ==
  /\ pc = "populate" /\ Len(population) = Size
  /\ solver' = [solver EXCEPT !.iterations = @ + 1]
  /\ pc' = "generation"
  /\ UNCHANGED <<population, next>>

Generation ==
  /\ pc = "generation"
  /\ IF solver.iterations < MaxIterations
       THEN next' = 1 /\ pc' = "trial" /\ UNCHANGED <<solver, population>>
       ELSE Stop(Ended(solver, "MaxIterations"), "ended")

\* Mutant: a trial that ties its member is dropped.
AcceptsBetter(f, member) == Better(f, member.fitness)

Accepts(f, member) == NoWorse(f, member.fitness)

Trial(f) ==
  /\ pc = "trial"
  /\ LET o == Evaluated(solver, Made(f))
     IN  IF Cancelled(o) THEN Stop(o, "ended")
         ELSE /\ solver' = o
              /\ population' = IF Accepts(f, population[next])
                                 THEN [population EXCEPT ![next] = Made(f)] ELSE population
              /\ next' = next + 1
              /\ pc' = IF next = Size THEN "judge" ELSE "trial"

Members == {population[k] : k \in 1..Len(population)}

\* The deviation of the fitness is below the tolerances: never with a value that
\* is not finite, always when all are equal.
MayConverge  == solver.iterations >= Warmup /\ \A p \in Members : Finite(p.fitness)
MustConverge == MayConverge /\ \A p, q \in Members : p.fitness = q.fitness

Converged ==
  /\ pc = "judge" /\ MayConverge
  /\ Stop(Ended(solver, "Success"), "ended")

NextGeneration ==
  /\ pc = "judge" /\ ~MustConverge
  /\ solver' = [solver EXCEPT !.iterations = @ + 1]
  /\ pc' = "generation"
  /\ UNCHANGED <<population, next>>

Evaluating ==
  \/ pc = "populate" /\ Len(population) < Size
  \/ pc = "trial"

Evolve ==
  \/ \E f \in Fitness : Populate(f) \/ Trial(f)
  \/ Populated \/ Generation \/ Converged \/ NextGeneration
=============================================================================
