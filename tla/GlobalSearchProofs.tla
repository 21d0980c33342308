------------------------- MODULE GlobalSearchProofs -------------------------
(***************************************************************************)
(* Invariants of GlobalSearch, for every budget, number of iterations,     *)
(* probes and range of fitness.                                            *)
(***************************************************************************)
EXTENDS GlobalSearch, TLAPS

Outside == {"idle", "next", "sample", "points"}

\* The local search evaluates, for itself or for a gradient.
Searching ==
  \/ pc \in {"begin", "search", "decide"}
  \/ pc \in {"base", "probe"} /\ diff = "gradient"

\* The record of a local search exists inside of one only, a gradient is one of
\* BFGS, and what counts an iteration at its end began below the limit.
PlaceInv ==
  /\ pc \in Outside => purpose = "none" /\ local = NoLocal
  /\ pc \in {"base", "probe"} => diff \in {"gradient", "hessian"}
  /\ pc \in {"base", "probe"} /\ diff = "gradient" => method = "BFGS"
  /\ pc = "decide" => method = "BFGS"
  /\ pc \in {"sample", "points"} \/ purpose \in {"start", "initial", "point"} =>
       outer.iterations < MaxIterations

\* The two budgets run out together; only where the outer one throws may it be
\* ahead.  A search that came back without a verdict of its own met a spent one.
SyncInv ==
  /\ Searching =>
       /\ local.status = "None" /\ ~Exhausted(local)
       /\ outer.budget - outer.evaluations <= local.budget - local.evaluations
       /\ ~outer.report =>
            outer.budget - outer.evaluations = local.budget - local.evaluations
  /\ pc = "base" /\ ~outer.report => ~Exhausted(outer)
  /\ pc \in {"base", "probe"} /\ diff = "hessian" =>
       local.status \in {"Success", "LineSearchFailed"}
  /\ pc = "returned" =>
       /\ local.status # "Failure"
       /\ local.status \in {"None", "MaxEvaluations"} => Spent

\* How far the outer budget may be passed at each place.
BudgetInv ==
  /\ pc = "idle" => OvershootBounded
  /\ pc \in {"next", "sample", "points", "returned"} =>
       outer.evaluations <= outer.budget + Probes
  /\ pc = "begin" \/ (pc = "base" /\ diff = "gradient") => ~Exhausted(outer)
  /\ pc \in {"search", "decide", "base"} => outer.evaluations < outer.budget + Probes
  /\ pc = "probe" /\ diff = "gradient" => outer.evaluations < outer.budget + probes
  /\ pc = "probe" => outer.evaluations <= outer.budget + probes

\* An incumbent that is no worse than f.
Beats(b, f) == b # NoPoint /\ ~Better(f, b.fitness)

BestInv ==
  /\ \A f \in minima \ {NoMinimum} : Beats(outer.best, f)
  /\ local.best # NoPoint => Beats(outer.best, local.best.fitness)
  /\ pc = "begin" => local.best = NoPoint
  /\ method = "BFGS" /\ pc \in {"search", "decide", "base", "probe"} =>
       Finite(local.best.fitness)

EndInv == (pc # "idle" => outcome = "none") /\ EndingExplained

Inv == TypeOK /\ PlaceInv /\ SyncInv /\ BudgetInv /\ BestInv /\ EndInv
-----------------------------------------------------------------------------
(* The records. *)

LEMMA EvaluatedFacts ==
  ASSUME NEW o \in Solvers, NEW p \in Points
  PROVE  /\ Evaluated(o, p) \in Solvers
         /\ Evaluated(o, p).best = IF Replaces(o, p) THEN p ELSE o.best
         /\ Evaluated(o, p).evaluations = o.evaluations + 1
         /\ Evaluated(o, p).budget = o.budget
         /\ Evaluated(o, p).report = o.report
         /\ Evaluated(o, p).iterations = o.iterations
         /\ Evaluated(o, p).status =
              IF o.evaluations + 1 >= o.budget THEN "MaxEvaluations" ELSE o.status
<1>1. /\ o.budget \in Nat /\ o.report \in BOOLEAN /\ o.iterations \in Nat
      /\ o.evaluations \in Nat /\ o.best \in Points /\ o.status \in Statuses
  BY DEF Solvers
<1> DEFINE best   == IF Replaces(o, p) THEN p ELSE o.best
           status == IF o.evaluations + 1 >= o.budget THEN "MaxEvaluations" ELSE o.status
<1>2. /\ best \in Points /\ status \in Statuses /\ o.evaluations + 1 \in Nat
  BY <1>1 DEF Statuses
<1>3. Evaluated(o, p) = [o EXCEPT !.best = best, !.evaluations = o.evaluations + 1,
                                  !.status = status]
  BY DEF Evaluated
<1> HIDE DEF best, status
<1>4. Evaluated(o, p) \in Solvers
  BY <1>2, <1>3 DEF Solvers
<1>5. /\ Evaluated(o, p).best = best /\ Evaluated(o, p).status = status
      /\ Evaluated(o, p).evaluations = o.evaluations + 1
      /\ Evaluated(o, p).budget = o.budget /\ Evaluated(o, p).report = o.report
      /\ Evaluated(o, p).iterations = o.iterations
  BY <1>3 DEF Solvers
<1> QED BY <1>4, <1>5 DEF best, status

LEMMA EndedFacts ==
  ASSUME NEW o \in Solvers, NEW s \in Statuses
  PROVE  /\ Ended(o, s) \in Solvers
         /\ Ended(o, s).status = s
         /\ Ended(o, s).best = o.best
         /\ Ended(o, s).evaluations = o.evaluations
         /\ Ended(o, s).budget = o.budget
         /\ Ended(o, s).report = o.report
         /\ Ended(o, s).iterations = o.iterations
BY DEF Ended, Solvers

LEMMA PointFacts ==
  /\ NoPoint \in Points
  /\ \A f \in Fitness : Point(f, 0) \in Points /\ Point(f, 0).fitness = f /\ Point(f, 0) # NoPoint
  /\ \A p \in Points : p.fitness \in Fitness
  /\ \A f \in Fitness : f \in Int
<1>1. \A f \in Fitness : f \in Int
  BY FitnessAssumption DEF Fitness, NaN, Infinity
<1>2. NaN \in Fitness
  BY FitnessAssumption DEF Fitness, NaN, Infinity
<1> QED BY <1>1, <1>2 DEF NoPoint, Point, Points

LEMMA NewFacts ==
  ASSUME NEW b \in Nat, NEW r \in BOOLEAN
  PROVE  /\ NewOptimizer(b, r) \in Solvers
         /\ NewOptimizer(b, r).status = "None"
         /\ NewOptimizer(b, r).best = NoPoint
         /\ NewOptimizer(b, r).evaluations = 0
         /\ NewOptimizer(b, r).iterations = 0
         /\ NewOptimizer(b, r).budget = b
         /\ NewOptimizer(b, r).report = r
BY PointFacts DEF NewOptimizer, Solvers, Statuses

LEMMA CountedFacts ==
  ASSUME outer \in Solvers
  PROVE  /\ Counted \in Solvers
         /\ Counted.status = outer.status
         /\ Counted.best = outer.best
         /\ Counted.evaluations = outer.evaluations
         /\ Counted.budget = outer.budget
         /\ Counted.report = outer.report
         /\ Counted.iterations = outer.iterations + 1
BY DEF Counted, Solvers

LEMMA SolverFacts ==
  ASSUME NEW o \in Solvers
  PROVE  /\ o.budget \in Nat /\ o.evaluations \in Nat /\ o.iterations \in Nat
         /\ o.report \in BOOLEAN /\ o.best \in Points /\ o.status \in Statuses
BY DEF Solvers

\* The closure of the outer optimiser: what its incumbent beat it still beats,
\* and the point it was given.
LEMMA SeenFacts ==
  ASSUME NEW o \in Solvers, NEW f \in Fitness
  PROVE  LET s == Seen(o, Point(f, 0))
         IN  /\ s \in Solvers
             /\ s.evaluations = o.evaluations + 1 /\ s.budget = o.budget
             /\ s.report = o.report /\ s.iterations = o.iterations
             /\ s.status = IF o.evaluations + 1 >= o.budget THEN "MaxEvaluations" ELSE o.status
             /\ Exhausted(s) <=> o.evaluations + 1 >= o.budget
             /\ Beats(s.best, f)
             /\ \A g \in Int : Beats(o.best, g) => Beats(s.best, g)
<1> DEFINE p == Point(f, 0)
           s == Seen(o, p)
<1>1. p \in Points /\ p.fitness = f /\ p # NoPoint /\ f \in Int
  BY PointFacts
<1>2. o.best \in Points /\ o.best.fitness \in Int
  BY PointFacts, SolverFacts
<1> HIDE DEF p
<1>3. /\ s \in Solvers
      /\ s.evaluations = o.evaluations + 1 /\ s.budget = o.budget
      /\ s.report = o.report /\ s.iterations = o.iterations
      /\ s.status = IF o.evaluations + 1 >= o.budget THEN "MaxEvaluations" ELSE o.status
      /\ s.best = IF Replaces(o, p) THEN p ELSE o.best
  BY <1>1, EvaluatedFacts DEF Seen
<1> HIDE DEF s
<1>4. Exhausted(s) <=> o.evaluations + 1 >= o.budget
  BY <1>3 DEF Exhausted
<1>5. Beats(s.best, f)
  BY <1>1, <1>2, <1>3 DEF Beats, Replaces, NoWorse, Better
<1>6. ASSUME NEW g \in Int, Beats(o.best, g) PROVE Beats(s.best, g)
  BY <1>1, <1>2, <1>3, <1>6 DEF Beats, Replaces, NoWorse, Better
<1> QED BY <1>3, <1>4, <1>5, <1>6 DEF s, p

\* What the local search keeps of the same evaluation.
LEMMA SeesFacts ==
  ASSUME local \in Solvers, NEW f \in Fitness
  PROVE  LET l == LocalSees(f)
         IN  /\ l \in Solvers
             /\ l.evaluations = local.evaluations + 1 /\ l.budget = local.budget
             /\ l.status = IF local.evaluations + 1 >= local.budget
                             THEN "MaxEvaluations" ELSE local.status
             /\ Exhausted(l) <=> local.evaluations + 1 >= local.budget
             /\ l.best \in {local.best, Point(f, 0)}
             /\ method = "BFGS" /\ Finite(local.best.fitness) => Finite(l.best.fitness)
             /\ method = "BFGS" /\ Finite(f) /\ local.best = NoPoint => l.best = Point(f, 0)
<1> DEFINE p == Point(f, 0)
           e == Evaluated(local, p)
           l == LocalSees(f)
<1>1. p \in Points /\ p.fitness = f /\ p # NoPoint
  BY PointFacts
<1> HIDE DEF p
<1>2. /\ e \in Solvers
      /\ e.evaluations = local.evaluations + 1 /\ e.budget = local.budget
      /\ e.status = IF local.evaluations + 1 >= local.budget THEN "MaxEvaluations" ELSE local.status
      /\ e.best = IF Replaces(local, p) THEN p ELSE local.best
  BY <1>1, EvaluatedFacts
<1>3. l = IF method = "BFGS" /\ ~Finite(f) THEN [e EXCEPT !.best = local.best] ELSE e
  BY DEF LocalSees, p
<1>4. local.best \in Points
  BY SolverFacts
<1> HIDE DEF e, l
<1>5. /\ l \in Solvers
      /\ l.evaluations = local.evaluations + 1 /\ l.budget = local.budget
      /\ l.status = IF local.evaluations + 1 >= local.budget THEN "MaxEvaluations" ELSE local.status
      /\ l.best = IF method = "BFGS" /\ ~Finite(f) THEN local.best
                  ELSE IF Replaces(local, p) THEN p ELSE local.best
  BY <1>2, <1>3, <1>4 DEF Solvers
<1>6. Exhausted(l) <=> local.evaluations + 1 >= local.budget
  BY <1>5 DEF Exhausted
<1>7. local.best = NoPoint => Replaces(local, p)
  BY DEF Replaces
<1> QED BY <1>1, <1>5, <1>6, <1>7 DEF l, p

LEMMA NoLocalFacts == NoLocal \in Solvers /\ NoLocal.best = NoPoint
BY NewFacts DEF NoLocal
-----------------------------------------------------------------------------
(* Steps that several actions share. *)

Quiet == UNCHANGED <<method, solver>>

SameSample == UNCHANGED <<minima, visited>>

LEMMA InitInv == Init => Inv
<1> SUFFICES ASSUME Init PROVE Inv
  OBVIOUS
<1>0. /\ Probes >= 0 /\ Probes \in Nat /\ MaxIterations \in Nat /\ MaxIterations >= 1
      /\ 0 \in Nat /\ TRUE \in BOOLEAN
  BY ProbesAssumption, SettingsAssumption
<1>1. /\ outer \in Solvers /\ outer.evaluations = 0 /\ outer.budget = 0
      /\ outer.iterations = 0 /\ outer.best = NoPoint
  BY <1>0, NewFacts DEF Init
<1>2. /\ local = NoLocal /\ local \in Solvers /\ local.best = NoPoint
      /\ probes = 0 /\ pc = "idle"
  BY NoLocalFacts DEF Init
<1>3. TypeOK
  <2>1. outer.iterations <= MaxIterations /\ probes \in 0..Probes
    BY <1>0, <1>1, <1>2
  <2> QED BY <1>1, <1>2, <2>1, <1>0 DEF Init, TypeOK, Methods
<1>4. PlaceInv /\ SyncInv
  BY <1>1, <1>2 DEF Init, PlaceInv, SyncInv, Outside, Searching
<1>5. BudgetInv
  <2>1. pc = "idle" /\ OvershootBounded
    BY <1>0, <1>1, <1>2 DEF OvershootBounded
  <2> QED BY <2>1 DEF BudgetInv
<1>6. BestInv /\ EndInv
  BY <1>1, <1>2 DEF Init, BestInv, EndInv, EndingExplained
<1> QED BY <1>3, <1>4, <1>5, <1>6 DEF Inv

\* minimize() of the outer optimiser is left.
LEMMA LeaveStep ==
  ASSUME Inv, NEW o \in Solvers, NEW how \in {"returned", "threw"}, Leave(o, how),
         Quiet, SameSample, broken' \in BOOLEAN,
         o.iterations <= MaxIterations,
         o.evaluations <= o.budget + Probes + 1,
         \A f \in minima \ {NoMinimum} : Beats(o.best, f),
         o.status = "Failure" => broken' \/ o.evaluations > o.budget - Least,
         o.status \in {"None", "MaxEvaluations"} => o.evaluations > o.budget - Least,
         how = "threw" => o.report
  PROVE  Inv'
<1>1. /\ outer' = o /\ outcome' = how /\ pc' = "idle" /\ local' = NoLocal
      /\ purpose' = "none" /\ diff' = "none" /\ probes' = 0
  BY DEF Leave, RunIdle
<1>2. TypeOK'
  BY <1>1, NoLocalFacts, ProbesAssumption DEF Inv, TypeOK, Quiet, SameSample
<1>3. PlaceInv' /\ SyncInv'
  BY <1>1 DEF PlaceInv, SyncInv, Searching, Outside
<1>4. BudgetInv'
  BY <1>1 DEF BudgetInv, OvershootBounded
<1>5. BestInv'
  BY <1>1, NoLocalFacts DEF BestInv, SameSample
<1>6. EndInv'
  BY <1>1 DEF EndInv, EndingExplained, Spent
<1> QED BY <1>2, <1>3, <1>4, <1>5, <1>6 DEF Inv

LEMMA FailStep ==
  ASSUME Inv, NEW o \in Solvers, Fail(o), Quiet, SameSample, broken' \in BOOLEAN,
         o.iterations <= MaxIterations,
         o.evaluations <= o.budget + Probes + 1,
         \A f \in minima \ {NoMinimum} : Beats(o.best, f),
         broken' \/ o.evaluations > o.budget - Least
  PROVE  Inv'
<1> DEFINE e == Ended(o, "Failure")
           how == IF o.report THEN "threw" ELSE "returned"
<1>1. Leave(e, how)
  BY DEF Fail
<1>2. /\ e \in Solvers /\ e.status = "Failure" /\ e.best = o.best
      /\ e.evaluations = o.evaluations /\ e.budget = o.budget /\ e.report = o.report
      /\ e.iterations = o.iterations
  BY EndedFacts DEF Statuses
<1>3. how \in {"returned", "threw"} /\ (how = "threw" => o.report)
  OBVIOUS
<1> HIDE DEF e, how
<1> QED BY <1>1, <1>2, <1>3, LeaveStep

\* An exception of the objective, or of a search that finds nothing to go on with.
LEMMA BreaksStep ==
  ASSUME Inv, NEW o \in Solvers, Breaks(o), Quiet, SameSample,
         o.iterations <= MaxIterations,
         o.evaluations <= o.budget + Probes + 1,
         \A f \in minima \ {NoMinimum} : Beats(o.best, f)
  PROVE  Inv'
<1>1. Fail(o) /\ broken' = TRUE
  BY DEF Breaks
<1> QED BY <1>1, FailStep

LEMMA StartLocalStep ==
  ASSUME Inv, NEW o \in Solvers, NEW why \in {"start", "initial", "point", "polish"},
         StartLocal(o, why), Quiet, SameSample, pc \in Outside, pc # "idle",
         o.iterations <= MaxIterations,
         why # "polish" => o.iterations < MaxIterations,
         o.evaluations <= o.budget + Probes + 1,
         \A f \in minima \ {NoMinimum} : Beats(o.best, f)
  PROVE  Inv'
<1> DEFINE l == NewOptimizer(LocalBudget(o), TRUE)
<1>0. /\ o.budget \in Nat /\ o.evaluations \in Nat /\ o.iterations \in Nat
      /\ LocalBudget(o) = o.budget - o.evaluations
  BY SolverFacts DEF LocalBudget
<1>2. CASE o.budget - o.evaluations >= Least
  <2>0. Valid(l)
    BY <1>0, <1>2 DEF NewOptimizer, Valid
  <2>1. /\ local' = l /\ outer' = o /\ purpose' = why /\ pc' = "begin"
        /\ UNCHANGED <<diff, probes, ends>>
    BY <2>0 DEF StartLocal
  <2>2. LocalBudget(o) \in Nat
    BY <1>0, <1>2, LeastAssumption
  <2>3. /\ l \in Solvers /\ l.status = "None" /\ l.best = NoPoint /\ l.evaluations = 0
        /\ l.budget = o.budget - o.evaluations
    BY <2>2, <1>0, NewFacts
  <2> HIDE DEF l
  <2>4. TypeOK'
    BY <2>1, <2>3 DEF Inv, TypeOK, Quiet, SameSample, ends
  <2>5. PlaceInv'
    BY <2>1, <1>0 DEF PlaceInv, Outside
  <2>6. SyncInv'
    BY <2>1, <2>3, <1>0, <1>2, LeastAssumption DEF SyncInv, Searching, Exhausted
  <2>7. BudgetInv'
    BY <2>1, <1>0, <1>2, LeastAssumption DEF BudgetInv, Exhausted
  <2>8. BestInv'
    BY <2>1, <2>3 DEF BestInv, SameSample
  <2>9. EndInv'
    BY <2>1 DEF Inv, EndInv, EndingExplained, Outside, ends
  <2> QED BY <2>4, <2>5, <2>6, <2>7, <2>8, <2>9 DEF Inv
<1>3. CASE ~(o.budget - o.evaluations >= Least)
  <2>0. ~Valid(l)
    BY <1>0, <1>3 DEF NewOptimizer, Valid
  <2>1. Fail(o) /\ UNCHANGED broken
    BY <2>0 DEF StartLocal
  <2>2. o.evaluations > o.budget - Least
    BY <1>0, <1>3, LeastAssumption
  <2> QED BY <2>1, <2>2, FailStep DEF Inv, TypeOK
<1> QED BY <1>2, <1>3

\* A local search hands its record l back.
LEMMA ReturnStep ==
  ASSUME Inv, NEW l \in Solvers, LocalReturns(l), outer' \in Solvers, Quiet, SameSample,
         pc \notin Outside,
         outer'.iterations = outer.iterations,
         outer'.evaluations <= outer'.budget + Probes,
         \A f \in minima \ {NoMinimum} : Beats(outer'.best, f),
         l.best # NoPoint => Beats(outer'.best, l.best.fitness),
         l.status # "Failure",
         l.status \in {"None", "MaxEvaluations"} => outer'.evaluations > outer'.budget - Least
  PROVE  Inv'
<1>1. /\ local' = l /\ pc' = "returned" /\ diff' = "none" /\ probes' = 0
      /\ UNCHANGED <<purpose, broken, outcome>>
  BY DEF LocalReturns, ends
<1>2. TypeOK'
  BY <1>1, ProbesAssumption DEF Inv, TypeOK, Quiet, SameSample
<1>3. PlaceInv'
  BY <1>1 DEF Inv, PlaceInv, Outside
<1>4. SyncInv'
  BY <1>1 DEF SyncInv, Searching, Spent
<1>5. BudgetInv'
  BY <1>1 DEF BudgetInv
<1>6. BestInv'
  BY <1>1 DEF BestInv, SameSample
<1>7. EndInv'
  BY <1>1 DEF Inv, EndInv, EndingExplained, Outside
<1> QED BY <1>2, <1>3, <1>4, <1>5, <1>6, <1>7 DEF Inv
-----------------------------------------------------------------------------
(* Steps of the local search. *)

LEMMA Typing ==
  ASSUME Inv
  PROVE  /\ outer \in Solvers /\ local \in Solvers
         /\ outer.budget \in Nat /\ outer.evaluations \in Nat /\ outer.iterations \in Nat
         /\ local.budget \in Nat /\ local.evaluations \in Nat
         /\ outer.report \in BOOLEAN /\ local.best \in Points
         /\ local.best.fitness \in Int
         /\ probes \in Nat /\ probes <= Probes /\ Probes \in Nat
<1>1. outer \in Solvers /\ local \in Solvers /\ probes \in 0..Probes
  BY DEF Inv, TypeOK
<1>2. local.best \in Points /\ local.best.fitness \in Int
  BY <1>1, SolverFacts, PointFacts
<1> QED BY <1>1, <1>2, SolverFacts, ProbesAssumption

\* What the minima and the local incumbent say of the outer one stays true of
\* what it makes of another evaluation.
LEMMA SeenBeats ==
  ASSUME Inv, NEW f \in Fitness
  PROVE  LET s == Seen(outer, Point(f, 0))
         IN  /\ \A g \in minima \ {NoMinimum} : Beats(s.best, g)
             /\ local.best # NoPoint => Beats(s.best, local.best.fitness)
             /\ LocalSees(f).best # NoPoint => Beats(s.best, LocalSees(f).best.fitness)
<1> DEFINE s == Seen(outer, Point(f, 0))
<1>1. /\ Beats(s.best, f)
      /\ \A g \in Int : Beats(outer.best, g) => Beats(s.best, g)
  BY Typing, SeenFacts
<1> HIDE DEF s
<1>2. \A g \in minima \ {NoMinimum} : g \in Int
  BY PointFacts DEF Inv, TypeOK
<1>3. \A g \in minima \ {NoMinimum} : Beats(s.best, g)
  BY <1>1, <1>2 DEF Inv, BestInv
<1>4. local.best # NoPoint => Beats(s.best, local.best.fitness)
  BY <1>1, Typing DEF Inv, BestInv
<1>5. LocalSees(f).best \in {local.best, Point(f, 0)} /\ Point(f, 0).fitness = f
  BY Typing, SeesFacts, PointFacts
<1>6. LocalSees(f).best # NoPoint => Beats(s.best, LocalSees(f).best.fitness)
  BY <1>1, <1>4, <1>5
<1> QED BY <1>3, <1>4, <1>6 DEF s

\* The outer budget throws of an evaluation that is not a swallowed probe.
LEMMA ThrownStep ==
  ASSUME Inv, NEW f \in Fitness, OuterThrows(f), pc \notin Outside, Quiet, SameSample,
         outer' = Seen(outer, Point(f, 0)), LocalReturns(local),
         outer.evaluations < outer.budget + Probes,
         local.status # "Failure"
  PROVE  Inv'
<1>1. /\ outer' \in Solvers
      /\ outer'.evaluations = outer.evaluations + 1 /\ outer'.budget = outer.budget
      /\ outer'.iterations = outer.iterations
      /\ outer.evaluations + 1 >= outer.budget
  BY Typing, SeenFacts DEF OuterThrows
<1>2. /\ \A g \in minima \ {NoMinimum} : Beats(outer'.best, g)
      /\ local.best # NoPoint => Beats(outer'.best, local.best.fitness)
  BY SeenBeats
<1>3. outer'.evaluations <= outer'.budget + Probes
  BY <1>1, Typing
<1>4. outer'.evaluations > outer'.budget - Least
  BY <1>1, Typing, LeastAssumption
<1> QED BY <1>1, <1>2, <1>3, <1>4, Typing, ReturnStep

\* An evaluation of the local search itself, or the base point of a gradient.
LEMMA EvaluateStep ==
  ASSUME Inv, NEW f \in Fitness, NEW next \in {"search", "base", "probe"},
         Evaluate(f, next), Quiet, SameSample,
         \/ pc \in {"begin", "search"} /\ next # "probe"
         \/ pc = "base" /\ diff = "gradient" /\ next = "probe",
         next = "base" => method = "BFGS",
         pc = "begin" /\ method = "BFGS" =>
           Finite(f) \/ OuterThrows(f) \/ Exhausted(LocalSees(f))
  PROVE  Inv'
<1> DEFINE s == Seen(outer, Point(f, 0))
           l == LocalSees(f)
<1>1. /\ s \in Solvers
      /\ s.evaluations = outer.evaluations + 1 /\ s.budget = outer.budget
      /\ s.report = outer.report /\ s.iterations = outer.iterations
      /\ Exhausted(s) <=> outer.evaluations + 1 >= outer.budget
  BY Typing, SeenFacts
<1>2. /\ l \in Solvers
      /\ l.evaluations = local.evaluations + 1 /\ l.budget = local.budget
      /\ l.status = IF local.evaluations + 1 >= local.budget
                      THEN "MaxEvaluations" ELSE local.status
      /\ Exhausted(l) <=> local.evaluations + 1 >= local.budget
      /\ method = "BFGS" /\ Finite(local.best.fitness) => Finite(l.best.fitness)
      /\ method = "BFGS" /\ Finite(f) /\ local.best = NoPoint => l.best = Point(f, 0)
  BY Typing, SeesFacts
<1>3. /\ \A g \in minima \ {NoMinimum} : Beats(s.best, g)
      /\ l.best # NoPoint => Beats(s.best, l.best.fitness)
  BY SeenBeats
<1>4. /\ local.status = "None" /\ ~Exhausted(local)
      /\ outer.budget - outer.evaluations <= local.budget - local.evaluations
      /\ ~outer.report => outer.budget - outer.evaluations = local.budget - local.evaluations
      /\ pc \notin Outside
  BY DEF Inv, SyncInv, Searching, Outside
<1>5. outer.evaluations < outer.budget + Probes
  <2>1. CASE pc = "begin"
    <3>1. ~(outer.evaluations >= outer.budget)
      BY <2>1 DEF Inv, BudgetInv, Exhausted
    <3> QED BY <3>1, Typing
  <2>2. CASE pc # "begin"
    BY <2>2 DEF Inv, BudgetInv
  <2> QED BY <2>1, <2>2
<1>6. CASE OuterThrows(f)
  <2>1. outer' = s /\ LocalReturns(local)
    BY <1>6 DEF Evaluate
  <2> QED BY <1>4, <1>5, <1>6, <2>1, ThrownStep
<1>7. CASE ~OuterThrows(f) /\ Exhausted(l)
  <2>1. outer' = s /\ LocalReturns(l)
    BY <1>7 DEF Evaluate
  <2> HIDE DEF s, l
  <2>2. outer'.evaluations <= outer'.budget + Probes
    BY <1>1, <1>5, <2>1, Typing
  <2>3. outer'.evaluations > outer'.budget - Least
    BY <1>1, <1>2, <1>4, <1>7, <2>1, Typing, LeastAssumption
  <2>4. l.status # "Failure"
    BY <1>2, <1>4
  <2> QED BY <1>1, <1>2, <1>3, <1>4, <2>1, <2>2, <2>3, <2>4, ReturnStep
<1>8. CASE ~OuterThrows(f) /\ ~Exhausted(l)
  <2>1. /\ outer' = s /\ local' = l /\ pc' = next
        /\ diff' = IF next \in {"base", "probe"} THEN "gradient" ELSE "none"
        /\ probes' = 0
        /\ UNCHANGED <<purpose, broken, outcome>>
    BY <1>8 DEF Evaluate, ends
  <2>2. outer.report => ~Exhausted(s)
    BY <1>8 DEF OuterThrows
  <2> HIDE DEF s, l
  <2>3. outer.evaluations + 1 < outer.budget
    <3>1. CASE outer.report
      BY <3>1, <2>2, <1>1, Typing
    <3>2. CASE ~outer.report
      BY <3>2, <1>2, <1>4, <1>8, Typing
    <3> QED BY <3>1, <3>2, Typing
  <2>4. TypeOK'
    BY <1>1, <1>2, <2>1, Typing, ProbesAssumption DEF Inv, TypeOK, Quiet, SameSample
  <2>5. PlaceInv'
    BY <1>1, <1>4, <2>1 DEF Inv, PlaceInv, Outside, Quiet
  <2>6. SyncInv'
    BY <1>1, <1>2, <1>4, <1>8, <2>1, <2>3, Typing DEF SyncInv, Searching, Exhausted
  <2>7. BudgetInv'
    BY <1>1, <2>1, <2>3, Typing DEF BudgetInv, Exhausted
  <2>8. BestInv'
    <3>1. method = "BFGS" => Finite(l.best.fitness)
      <4>1. CASE pc = "begin"
        BY <4>1, <1>2, <1>8, PointFacts DEF Inv, BestInv, l
      <4>2. CASE pc # "begin"
        BY <4>2, <1>2 DEF Inv, BestInv
      <4> QED BY <4>1, <4>2
    <3> QED BY <3>1, <1>3, <2>1 DEF BestInv, Quiet, SameSample
  <2>9. EndInv'
    BY <1>4, <2>1 DEF Inv, EndInv, EndingExplained, Outside
  <2> QED BY <2>4, <2>5, <2>6, <2>7, <2>8, <2>9 DEF Inv
<1> QED BY <1>6, <1>7, <1>8

\* A value at which a search or a Hessian breaks off, and the objective's own throw.
LEMMA BrokenStep ==
  ASSUME Inv, NEW f \in Fitness, pc \notin Outside, Quiet, SameSample,
         outer.evaluations <= outer.budget + Probes,
         Breaks(outer) \/ Breaks(Seen(outer, Point(f, 0)))
  PROVE  Inv'
<1> DEFINE s == Seen(outer, Point(f, 0))
<1>1. /\ s \in Solvers
      /\ s.evaluations = outer.evaluations + 1 /\ s.budget = outer.budget
      /\ s.iterations = outer.iterations
      /\ \A g \in minima \ {NoMinimum} : Beats(s.best, g)
  BY Typing, SeenFacts, SeenBeats
<1>2. /\ outer.iterations <= MaxIterations
      /\ \A g \in minima \ {NoMinimum} : Beats(outer.best, g)
  BY DEF Inv, TypeOK, BestInv
<1> HIDE DEF s
<1>3. /\ s.evaluations <= s.budget + Probes + 1
      /\ outer.evaluations <= outer.budget + Probes + 1
      /\ s.iterations <= MaxIterations
  BY <1>1, <1>2, Typing
<1>4. CASE Breaks(outer)
  BY <1>2, <1>3, <1>4, Typing, BreaksStep
<1>5. CASE Breaks(s)
  BY <1>1, <1>3, <1>5, BreaksStep
<1> QED BY <1>4, <1>5 DEF s

LEMMA BeginStep ==
  ASSUME Inv, NEW f \in Fitness, Begin(f), UNCHANGED <<solver, mlsl>>
  PROVE  Inv'
<1>1. pc = "begin" /\ pc \notin Outside /\ Quiet /\ SameSample
  BY DEF Begin, Outside, Quiet, SameSample, mlsl
<1>2. CASE method = "BFGS" /\ ~Finite(f) /\ ~OuterThrows(f) /\ ~Exhausted(LocalSees(f))
  <2>1. Breaks(Seen(outer, Point(f, 0)))
    BY <1>2 DEF Begin
  <2>2. ~(outer.evaluations >= outer.budget)
    BY <1>1 DEF Inv, BudgetInv, Exhausted
  <2>3. outer.evaluations <= outer.budget + Probes
    BY <2>2, Typing
  <2> QED BY <1>1, <2>1, <2>3, BrokenStep
<1>3. CASE ~(method = "BFGS" /\ ~Finite(f) /\ ~OuterThrows(f) /\ ~Exhausted(LocalSees(f)))
  <2>1. Evaluate(f, IF method = "BFGS" THEN "base" ELSE "search")
    BY <1>3 DEF Begin
  <2>2. CASE method = "BFGS"
    BY <1>1, <1>3, <2>1, <2>2, EvaluateStep
  <2>3. CASE method # "BFGS"
    BY <1>1, <1>3, <2>1, <2>3, EvaluateStep
  <2> QED BY <2>2, <2>3
<1> QED BY <1>2, <1>3

LEMMA SearchStep ==
  ASSUME Inv, NEW f \in Fitness, Search(f), UNCHANGED <<solver, mlsl>>
  PROVE  Inv'
<1>1. pc = "search" /\ Quiet /\ SameSample
  BY DEF Search, Quiet, SameSample, mlsl
<1>2. PICK n \in IF method = "BFGS" /\ Finite(f) THEN {"search", "base"} ELSE {"search"} :
        Evaluate(f, n)
  BY DEF Search
<1>3. n \in {"search", "base", "probe"} /\ n # "probe" /\ (n = "base" => method = "BFGS")
  BY <1>2
<1> QED BY <1>1, <1>2, <1>3, EvaluateStep

LEMMA BaseStep ==
  ASSUME Inv, NEW f \in Fitness, Base(f), UNCHANGED <<solver, mlsl>>
  PROVE  Inv'
<1> DEFINE s == Seen(outer, Point(f, 0))
<1>1. pc = "base" /\ pc \notin Outside /\ Quiet /\ SameSample
  BY DEF Base, Outside, Quiet, SameSample, mlsl
<1>2. CASE diff = "gradient"
  <2>1. Evaluate(f, "probe")
    BY <1>2 DEF Base
  <2> QED BY <1>1, <1>2, <2>1, EvaluateStep
<1>3. CASE diff # "gradient"
  <2>1. diff = "hessian" /\ local.status \in {"Success", "LineSearchFailed"}
    BY <1>1, <1>3 DEF Inv, PlaceInv, SyncInv
  <2>2. outer.evaluations < outer.budget + Probes
    BY <1>1 DEF Inv, BudgetInv
  <2>3. CASE OuterThrows(f)
    <3>1. outer' = s /\ LocalReturns(local)
      BY <1>3, <2>3 DEF Base
    <3> QED BY <1>1, <2>1, <2>2, <2>3, <3>1, ThrownStep
  <2>4. CASE ~OuterThrows(f) /\ Finite(f)
    <3>1. /\ outer' = s /\ pc' = "probe"
          /\ UNCHANGED <<local, purpose, diff, probes, broken, outcome>>
      BY <1>3, <2>4 DEF Base, run, ends
    <3>2. /\ s \in Solvers
          /\ s.evaluations = outer.evaluations + 1 /\ s.budget = outer.budget
          /\ s.report = outer.report /\ s.iterations = outer.iterations
          /\ Exhausted(s) <=> outer.evaluations + 1 >= outer.budget
          /\ \A g \in minima \ {NoMinimum} : Beats(s.best, g)
          /\ local.best # NoPoint => Beats(s.best, local.best.fitness)
      BY Typing, SeenFacts, SeenBeats
    <3>3. outer.report => ~Exhausted(s)
      BY <2>4 DEF OuterThrows
    <3> HIDE DEF s
    <3>4. outer.evaluations + 1 <= outer.budget
      <4>1. CASE outer.report
        BY <4>1, <3>2, <3>3, Typing
      <4>2. CASE ~outer.report
        <5>1. ~(outer.evaluations >= outer.budget)
          BY <1>1, <4>2 DEF Inv, SyncInv, Exhausted
        <5> QED BY <5>1, Typing
      <4> QED BY <4>1, <4>2
    <3>5. TypeOK'
      <4>1. outer' \in Solvers /\ outer'.iterations <= MaxIterations
        BY <3>1, <3>2 DEF Inv, TypeOK
      <4> QED BY <1>1, <3>1, <4>1 DEF Inv, TypeOK, Quiet, SameSample
    <3>6. PlaceInv' /\ SyncInv'
      BY <1>1, <2>1, <3>1, <3>2 DEF Inv, PlaceInv, SyncInv, Searching, Outside, Quiet
    <3>7. BudgetInv'
      BY <2>1, <3>1, <3>2, <3>4, Typing DEF BudgetInv
    <3>8. BestInv'
      BY <1>1, <3>1, <3>2 DEF Inv, BestInv, Quiet, SameSample
    <3>9. EndInv'
      BY <1>1, <3>1 DEF Inv, EndInv, EndingExplained
    <3> QED BY <3>5, <3>6, <3>7, <3>8, <3>9 DEF Inv
  <2>5. CASE ~OuterThrows(f) /\ ~Finite(f)
    <3>1. Breaks(s)
      BY <1>3, <2>5 DEF Base
    <3>2. outer.evaluations <= outer.budget + Probes
      BY <2>2, Typing
    <3> QED BY <1>1, <3>1, <3>2, BrokenStep
  <2> QED BY <2>3, <2>4, <2>5
<1> QED BY <1>2, <1>3

LEMMA ProbeStep ==
  ASSUME Inv, NEW f \in Fitness, Probe(f), UNCHANGED <<solver, mlsl>>
  PROVE  Inv'
<1> DEFINE s == Seen(outer, Point(f, 0))
           l == LocalSees(f)
           keeps == diff = "gradient" /\ ~OuterThrows(f)
<1>1. /\ pc = "probe" /\ probes < Probes /\ outer' = s /\ pc \notin Outside
      /\ Quiet /\ SameSample
  BY DEF Probe, Outside, Quiet, SameSample, mlsl
<1>2. /\ s \in Solvers
      /\ s.evaluations = outer.evaluations + 1 /\ s.budget = outer.budget
      /\ s.report = outer.report /\ s.iterations = outer.iterations
      /\ Exhausted(s) <=> outer.evaluations + 1 >= outer.budget
      /\ \A g \in minima \ {NoMinimum} : Beats(s.best, g)
      /\ local.best # NoPoint => Beats(s.best, local.best.fitness)
      /\ l.best # NoPoint => Beats(s.best, l.best.fitness)
  BY Typing, SeenFacts, SeenBeats
<1>3. /\ l \in Solvers
      /\ l.evaluations = local.evaluations + 1 /\ l.budget = local.budget
      /\ l.status = IF local.evaluations + 1 >= local.budget
                      THEN "MaxEvaluations" ELSE local.status
      /\ Exhausted(l) <=> local.evaluations + 1 >= local.budget
      /\ method = "BFGS" /\ Finite(local.best.fitness) => Finite(l.best.fitness)
  BY Typing, SeesFacts
<1>4. outer.evaluations <= outer.budget + probes
      /\ (diff = "gradient" => outer.evaluations < outer.budget + probes)
  BY <1>1 DEF Inv, BudgetInv
<1>5. diff = "gradient" =>
        /\ local.status = "None" /\ ~Exhausted(local)
        /\ outer.budget - outer.evaluations <= local.budget - local.evaluations
        /\ ~outer.report => outer.budget - outer.evaluations = local.budget - local.evaluations
  BY <1>1 DEF Inv, SyncInv, Searching
<1>6. outer.report /\ OuterThrows(f) <=> OuterThrows(f)
  BY DEF OuterThrows
<1>7. OuterThrows(f) => outer.evaluations + 1 >= outer.budget
  BY <1>2 DEF OuterThrows
<1> HIDE DEF s, l
<1>8. CASE keeps /\ Exhausted(l)
  <2>1. LocalReturns(l)
    BY <1>8 DEF Probe, l
  <2>2. outer'.evaluations <= outer'.budget + Probes
    BY <1>1, <1>2, <1>4, Typing
  <2>3. outer'.evaluations > outer'.budget - Least
    BY <1>1, <1>2, <1>3, <1>5, <1>8, Typing, LeastAssumption
  <2>4. l.status # "Failure"
    BY <1>3, <1>5, <1>8
  <2> QED BY <1>1, <1>2, <1>3, <2>1, <2>2, <2>3, <2>4, ReturnStep
<1>9. CASE ~(keeps /\ Exhausted(l))
  <2>1. /\ probes' = probes + 1
        /\ local' = IF keeps THEN l ELSE local
        /\ UNCHANGED <<purpose, diff, pc, broken, outcome>>
    BY <1>9 DEF Probe, ends, l
  <2>2. TypeOK'
    <3>1. probes' \in 0..Probes
      BY <1>1, <2>1, Typing
    <3> QED BY <1>1, <1>2, <1>3, <2>1, <3>1 DEF Inv, TypeOK, Quiet, SameSample
  <2>3. PlaceInv'
    BY <1>1, <1>2, <2>1 DEF Inv, PlaceInv, Outside, Quiet
  <2>4. SyncInv'
    <3>1. CASE keeps
      BY <1>1, <1>2, <1>3, <1>5, <1>9, <2>1, <3>1, Typing DEF SyncInv, Searching, Exhausted
    <3>2. CASE diff = "gradient" /\ OuterThrows(f)
      BY <1>1, <1>2, <1>5, <1>6, <2>1, <3>2, Typing DEF SyncInv, Searching, Exhausted
    <3>3. CASE diff # "gradient"
      BY <1>1, <2>1, <3>3 DEF Inv, SyncInv, Searching
    <3> QED BY <3>1, <3>2, <3>3
  <2>5. BudgetInv'
    BY <1>1, <1>2, <1>4, <2>1, Typing DEF BudgetInv
  <2>6. BestInv'
    BY <1>1, <1>2, <1>3, <2>1 DEF Inv, BestInv, Quiet, SameSample
  <2>7. EndInv'
    BY <1>1, <2>1 DEF Inv, EndInv, EndingExplained
  <2> QED BY <2>2, <2>3, <2>4, <2>5, <2>6, <2>7 DEF Inv
<1> QED BY <1>8, <1>9

LEMMA DifferentiatedStep ==
  ASSUME Inv, Differentiated, UNCHANGED <<solver, mlsl>>
  PROVE  Inv'
<1>1. pc = "probe" /\ pc \notin Outside /\ outer' = outer /\ Quiet /\ SameSample
  BY DEF Differentiated, Outside, Quiet, SameSample, mlsl
<1>2. /\ outer.evaluations <= outer.budget + probes
      /\ diff = "gradient" => outer.evaluations < outer.budget + probes
  BY <1>1 DEF Inv, BudgetInv
<1>3. CASE diff = "gradient"
  <2>1. /\ pc' \in {"decide", "search"} /\ diff' = "none" /\ probes' = 0
        /\ UNCHANGED <<local, purpose, broken, outcome>>
    BY <1>3 DEF Differentiated, ends
  <2>2. method = "BFGS"
    BY <1>1, <1>3 DEF Inv, PlaceInv
  <2>3. TypeOK' /\ PlaceInv'
    BY <1>1, <2>1, <2>2, ProbesAssumption
    DEF Inv, TypeOK, PlaceInv, Outside, Quiet, SameSample
  <2>4. SyncInv'
    BY <1>1, <1>3, <2>1 DEF Inv, SyncInv, Searching, Exhausted
  <2>5. BudgetInv'
    <3>1. outer'.evaluations < outer'.budget + Probes
      BY <1>1, <1>2, <1>3, Typing
    <3> QED BY <2>1, <3>1 DEF BudgetInv
  <2>6. BestInv' /\ EndInv'
    BY <1>1, <2>1, <2>2 DEF Inv, BestInv, EndInv, EndingExplained, Quiet, SameSample
  <2> QED BY <2>3, <2>4, <2>5, <2>6 DEF Inv
<1>4. CASE diff # "gradient"
  <2>1. LocalReturns(local)
    BY <1>4 DEF Differentiated
  <2>2. local.status \in {"Success", "LineSearchFailed"}
    BY <1>1, <1>4 DEF Inv, PlaceInv, SyncInv
  <2>3. /\ outer'.iterations = outer.iterations
        /\ outer'.evaluations <= outer'.budget + Probes
    BY <1>1, <1>2, Typing
  <2>4. /\ \A f \in minima \ {NoMinimum} : Beats(outer'.best, f)
        /\ local.best # NoPoint => Beats(outer'.best, local.best.fitness)
    BY <1>1 DEF Inv, BestInv
  <2> QED BY <1>1, <2>1, <2>2, <2>3, <2>4, Typing, ReturnStep
<1> QED BY <1>3, <1>4

\* The search has its verdict, with the incumbent b, and goes on to the Hessian.
LEMMA VerdictStep ==
  ASSUME Inv, NEW l \in Solvers, LocalEnds(l), UNCHANGED <<solver, mlsl>>,
         pc \in {"search", "decide"},
         l.status \in {"Success", "LineSearchFailed"},
         l.best # NoPoint => Beats(outer.best, l.best.fitness),
         method = "BFGS" => Finite(l.best.fitness)
  PROVE  Inv'
<1>1. /\ local' = l /\ pc' = "base" /\ diff' = "hessian" /\ probes' = 0
      /\ outer' = outer /\ UNCHANGED <<purpose, broken, outcome>> /\ Quiet /\ SameSample
  BY DEF LocalEnds, ends, Quiet, SameSample, mlsl
<1>2. TypeOK' /\ PlaceInv'
  BY <1>1, ProbesAssumption DEF Inv, TypeOK, PlaceInv, Outside, Quiet, SameSample
<1>3. SyncInv'
  <2>1. ~outer.report => ~(outer.evaluations >= outer.budget)
    BY Typing DEF Inv, SyncInv, Searching, Exhausted
  <2> QED BY <1>1, <2>1 DEF SyncInv, Searching, Exhausted
<1>4. BudgetInv'
  BY <1>1 DEF Inv, BudgetInv
<1>5. BestInv' /\ EndInv'
  BY <1>1 DEF Inv, BestInv, EndInv, EndingExplained, Quiet, SameSample
<1> QED BY <1>2, <1>3, <1>4, <1>5 DEF Inv

LEMMA ConvergesStep ==
  ASSUME Inv, Converges, UNCHANGED <<solver, mlsl>>
  PROVE  Inv'
<1>1. PICK f \in Accepted :
        LocalEnds(Ended([local EXCEPT !.best.fitness = f], "Success"))
  BY DEF Converges
<1>2. pc \in {"search", "decide"}
  BY DEF Converges, Stops
<1> DEFINE b == [local.best EXCEPT !.fitness = f]
           k == [local EXCEPT !.best = b]
           l == Ended(k, "Success")
<1>3. LocalEnds(l)
  BY <1>1
<1>4. local.best \in Points /\ local.best.fitness \in Int
  BY Typing
<1>5. /\ method = "BFGS" => Finite(local.best.fitness)
      /\ local.best # NoPoint => Beats(outer.best, local.best.fitness)
  BY <1>2 DEF Inv, BestInv
<1>6. f \in Fitness /\ (method = "BFGS" => Finite(f))
  <2>1. CASE method = "BFGS"
    <3>1. f \in local.best.fitness..MaxFitness
      BY <1>1, <2>1 DEF Accepted
    <3> QED BY <1>4, <1>5, <2>1, <3>1, FitnessAssumption DEF Finite, Fitness, NaN, Infinity
  <2>2. CASE method # "BFGS"
    <3>1. f = local.best.fitness
      BY <1>1, <2>2 DEF Accepted
    <3> QED BY <1>4, <2>2, <3>1, PointFacts
  <2> QED BY <2>1, <2>2
<1>7. b \in Points /\ b.fitness = f /\ b.at = local.best.at
  BY <1>4, <1>6 DEF Points
<1>8. b # NoPoint => Beats(outer.best, f)
  <2>1. CASE method = "BFGS"
    <3>1. f \in local.best.fitness..MaxFitness
      BY <1>1, <2>1 DEF Accepted
    <3>2. local.best.fitness # NaN
      BY <1>5, <2>1, FitnessAssumption DEF Finite, NaN
    <3>3. local.best # NoPoint
      BY <3>2 DEF NoPoint, Point
    <3>4. outer.best.fitness \in Int
      BY Typing, SolverFacts, PointFacts
    <3> QED BY <1>4, <1>5, <2>1, <3>1, <3>2, <3>3, <3>4, FitnessAssumption
        DEF Beats, Better, NaN
  <2>2. CASE method # "BFGS"
    <3>1. f = local.best.fitness
      BY <1>1, <2>2 DEF Accepted
    <3>2. b = local.best
      BY <1>4, <3>1 DEF Points
    <3> QED BY <1>5, <3>1, <3>2
  <2> QED BY <2>1, <2>2
<1> HIDE DEF b
<1>9. k \in Solvers /\ k.best = b
  BY <1>7, Typing DEF Solvers
<1> HIDE DEF k
<1>10. l \in Solvers /\ l.status = "Success" /\ l.best = b
  BY <1>9, EndedFacts DEF Statuses
<1> HIDE DEF l
<1> QED BY <1>2, <1>3, <1>6, <1>7, <1>8, <1>10, VerdictStep

LEMMA LineSearchFailsStep ==
  ASSUME Inv, LineSearchFails, UNCHANGED <<solver, mlsl>>
  PROVE  Inv'
<1> DEFINE l == Ended(local, "LineSearchFailed")
<1>1. LocalEnds(l) /\ pc \in {"search", "decide"} /\ method = "BFGS"
  BY DEF LineSearchFails
<1>2. l \in Solvers /\ l.status = "LineSearchFailed" /\ l.best = local.best
  BY Typing, EndedFacts DEF Statuses
<1>3. /\ local.best # NoPoint => Beats(outer.best, local.best.fitness)
      /\ Finite(local.best.fitness)
  BY <1>1 DEF Inv, BestInv
<1> HIDE DEF l
<1> QED BY <1>1, <1>2, <1>3, VerdictStep

LEMMA GivesUpStep ==
  ASSUME Inv, GivesUp, UNCHANGED <<solver, mlsl>>
  PROVE  Inv'
<1> DEFINE l == Ended(local, "MaxIterations")
<1>1. /\ LocalReturns(l) /\ outer' = outer /\ pc \in {"search", "decide"}
      /\ pc \notin Outside /\ Quiet /\ SameSample
  BY DEF GivesUp, Stops, Outside, Quiet, SameSample, mlsl
<1>2. l \in Solvers /\ l.status = "MaxIterations" /\ l.best = local.best
  BY Typing, EndedFacts DEF Statuses
<1>3. /\ \A f \in minima \ {NoMinimum} : Beats(outer'.best, f)
      /\ local.best # NoPoint => Beats(outer'.best, local.best.fitness)
      /\ outer.evaluations < outer.budget + Probes
  BY <1>1 DEF Inv, BestInv, BudgetInv
<1>4. outer'.evaluations <= outer'.budget + Probes /\ outer'.iterations = outer.iterations
  BY <1>1, <1>3, Typing
<1> HIDE DEF l
<1> QED BY <1>1, <1>2, <1>3, <1>4, Typing, ReturnStep

LEMMA ContinuesStep ==
  ASSUME Inv, Continues, UNCHANGED <<solver, mlsl>>
  PROVE  Inv'
<1>1. /\ pc = "decide" /\ pc' = "search" /\ Quiet /\ SameSample
      /\ UNCHANGED <<outer, local, purpose, diff, probes, broken, outcome>>
  BY DEF Continues, run, ends, Quiet, SameSample, mlsl
<1>2. TypeOK' /\ PlaceInv'
  BY <1>1 DEF Inv, TypeOK, PlaceInv, Outside, Quiet, SameSample
<1>3. SyncInv' /\ BudgetInv'
  BY <1>1 DEF Inv, SyncInv, BudgetInv, Searching, Exhausted
<1>4. BestInv' /\ EndInv'
  BY <1>1 DEF Inv, BestInv, EndInv, EndingExplained, Quiet, SameSample
<1> QED BY <1>2, <1>3, <1>4 DEF Inv

LEMMA ObjectiveThrowsStep ==
  ASSUME Inv, ObjectiveThrows, UNCHANGED <<solver, mlsl>>
  PROVE  Inv'
<1>1. pc \in {"begin", "base", "search"} /\ Breaks(outer) /\ Quiet /\ SameSample
  BY DEF ObjectiveThrows, Quiet, SameSample, mlsl
<1>2. pc = "begin" => ~(outer.evaluations >= outer.budget)
  BY DEF Inv, BudgetInv, Exhausted
<1>3. pc # "begin" => outer.evaluations < outer.budget + Probes
  BY <1>1 DEF Inv, BudgetInv
<1>4. outer.evaluations <= outer.budget + Probes
  BY <1>2, <1>3, Typing
<1>5. \E f : f \in Fitness
  BY PointFacts
<1>6. PICK f \in Fitness : TRUE
  BY <1>5
<1> QED BY <1>1, <1>4, <1>6, BrokenStep DEF Outside

LEMMA LocalStepInv ==
  ASSUME Inv, LocalStep, UNCHANGED <<solver, mlsl>>
  PROVE  Inv'
BY BeginStep, SearchStep, BaseStep, ProbeStep, DifferentiatedStep, ConvergesStep,
   LineSearchFailsStep, GivesUpStep, ContinuesStep, ObjectiveThrowsStep DEF LocalStep
-----------------------------------------------------------------------------
(* Steps of the global search. *)

LEMMA MinimizeStep ==
  ASSUME Inv, NEW s \in {"MultiStart", "MLSL"}, NEW m \in Methods, NEW b \in Budgets,
         NEW r \in BOOLEAN, Minimize(s, m, b, r)
  PROVE  Inv'
<1> DEFINE o == NewOptimizer(b, r)
<1>1. /\ o \in Solvers /\ o.status = "None" /\ o.best = NoPoint /\ o.evaluations = 0
      /\ o.iterations = 0 /\ o.budget = b /\ o.report = r /\ b \in Nat
  BY BudgetAssumption, NewFacts
<1>2. /\ pc = "idle" /\ solver' = s /\ method' = m /\ minima' = {} /\ visited' = 0
      /\ UNCHANGED <<local, purpose, diff, probes>>
  BY DEF Minimize, run
<1>3. purpose = "none" /\ local = NoLocal
  BY <1>2 DEF Inv, PlaceInv, Outside
<1>4. CASE Valid(o)
  <2>1. outer' = o /\ pc' = "next" /\ outcome' = "none" /\ broken' = FALSE
    BY <1>4 DEF Minimize
  <2> HIDE DEF o
  <2>2. TypeOK' /\ PlaceInv'
    <3>1. 0 <= MaxIterations
      BY SettingsAssumption
    <3> QED BY <1>1, <1>2, <1>3, <2>1, <3>1 DEF Inv, TypeOK, PlaceInv, Outside
  <2>3. SyncInv' /\ BudgetInv'
    BY <1>1, <2>1, ProbesAssumption DEF SyncInv, BudgetInv, Searching
  <2>4. BestInv' /\ EndInv'
    BY <1>2, <1>3, <2>1, NoLocalFacts DEF BestInv, EndInv, EndingExplained
  <2> QED BY <2>2, <2>3, <2>4 DEF Inv
<1>5. CASE ~Valid(o)
  <2>1. outer' = o /\ pc' = "idle" /\ outcome' = "threw" /\ broken' = TRUE
    BY <1>5 DEF Minimize
  <2> HIDE DEF o
  <2>2. TypeOK' /\ PlaceInv'
    <3>1. 0 <= MaxIterations
      BY SettingsAssumption
    <3> QED BY <1>1, <1>2, <1>3, <2>1, <3>1 DEF Inv, TypeOK, PlaceInv, Outside
  <2>3. SyncInv' /\ BudgetInv'
    BY <1>1, <2>1, ProbesAssumption DEF SyncInv, BudgetInv, Searching, OvershootBounded
  <2>4. BestInv'
    BY <1>2, <1>3, <2>1, NoLocalFacts DEF BestInv
  <2>5. EndInv'
    <3>1. outer'.evaluations > outer'.budget - Least /\ ~Valid(outer')
      BY <1>1, <1>5, <2>1, LeastAssumption DEF Valid
    <3> QED BY <1>1, <2>1, <3>1 DEF EndInv, EndingExplained, Spent, Valid
  <2> QED BY <2>2, <2>3, <2>4, <2>5 DEF Inv
<1> QED BY <1>4, <1>5

\* A run ends of itself, or of what its last local search tells.
LEMMA ConcludeStep ==
  ASSUME Inv, NEW status \in Statuses, Conclude(status), pc \in {"next", "points", "returned"},
         status # "Failure",
         status \in {"None", "MaxEvaluations"} => outer.evaluations > outer.budget - Least
  PROVE  Inv'
<1> DEFINE o == Ended(outer, status)
<1>1. /\ o \in Solvers /\ o.status = status /\ o.best = outer.best
      /\ o.evaluations = outer.evaluations /\ o.budget = outer.budget
      /\ o.report = outer.report /\ o.iterations = outer.iterations
  BY Typing, EndedFacts
<1>2. /\ outer.evaluations <= outer.budget + Probes
      /\ outer.iterations <= MaxIterations /\ broken \in BOOLEAN
      /\ \A f \in minima \ {NoMinimum} : Beats(outer.best, f)
  BY DEF Inv, BudgetInv, TypeOK, BestInv
<1>3. o.evaluations <= o.budget + Probes + 1
  BY <1>1, <1>2, Typing
<1>4. Quiet /\ SameSample /\ (Breaks(o) \/ (Leave(o, "returned") /\ UNCHANGED broken))
  <2>1. CASE status \in {"Success", "LineSearchFailed"}
    BY <2>1 DEF Conclude, Result, Quiet, SameSample, mlsl
  <2>2. CASE status \notin {"Success", "LineSearchFailed"}
    BY <2>2 DEF Conclude, Quiet, SameSample, mlsl
  <2> QED BY <2>1, <2>2
<1> HIDE DEF o
<1>5. CASE Breaks(o)
  BY <1>1, <1>2, <1>3, <1>4, <1>5, BreaksStep
<1>6. CASE Leave(o, "returned") /\ UNCHANGED broken
  BY <1>1, <1>2, <1>3, <1>4, <1>6, LeaveStep
<1> QED BY <1>4, <1>5, <1>6

\* What holds of the outer optimiser when no local search runs.
LEMMA BetweenFacts ==
  ASSUME Inv, pc \in {"next", "sample", "points", "returned"}
  PROVE  /\ outer \in Solvers /\ outer.evaluations <= outer.budget + Probes
         /\ outer.evaluations <= outer.budget + Probes + 1
         /\ outer.iterations <= MaxIterations
         /\ \A f \in minima \ {NoMinimum} : Beats(outer.best, f)
<1>1. outer.evaluations <= outer.budget + Probes
  BY DEF Inv, BudgetInv
<1> QED BY <1>1, Typing DEF Inv, TypeOK, BestInv

LEMMA MultiStartStep == Inv /\ MultiStart => Inv'
<1> SUFFICES ASSUME Inv, MultiStart PROVE Inv'
  OBVIOUS
<1>1. CASE StartMultiStart
  <2>1. /\ pc = "next" /\ pc \in Outside /\ StartLocal(outer, "start")
        /\ outer.iterations < MaxIterations /\ Quiet /\ SameSample
    BY <1>1 DEF StartMultiStart, Outside, Quiet, SameSample, mlsl
  <2> QED BY <2>1, BetweenFacts, StartLocalStep
<1>2. CASE StartReturned
  <2>1. /\ pc = "returned" /\ purpose = "start" /\ outer' = Counted /\ pc' = "next"
        /\ local' = NoLocal /\ purpose' = "none" /\ diff' = "none" /\ probes' = 0
        /\ UNCHANGED <<broken, outcome>> /\ Quiet /\ SameSample
    BY <1>2 DEF StartReturned, RunIdle, ends, Quiet, SameSample, mlsl
  <2>2. outer.iterations + 1 <= MaxIterations
    BY <2>1, Typing, SettingsAssumption DEF Inv, PlaceInv
  <2>3. TypeOK' /\ PlaceInv'
    BY <2>1, <2>2, Typing, CountedFacts, NoLocalFacts, ProbesAssumption
    DEF Inv, TypeOK, PlaceInv, Outside, Quiet, SameSample
  <2>4. SyncInv' /\ BudgetInv'
    BY <2>1, Typing, CountedFacts, BetweenFacts DEF SyncInv, BudgetInv, Searching
  <2>5. BestInv' /\ EndInv'
    BY <2>1, Typing, CountedFacts, NoLocalFacts
    DEF Inv, BestInv, EndInv, EndingExplained, SameSample
  <2> QED BY <2>3, <2>4, <2>5 DEF Inv
<1>3. CASE PolishMultiStart
  <2>1. /\ pc = "next" /\ pc \in Outside /\ StartLocal(outer, "polish") /\ Quiet /\ SameSample
    BY <1>3 DEF PolishMultiStart, Outside, Quiet, SameSample, mlsl
  <2> QED BY <2>1, BetweenFacts, StartLocalStep
<1> QED BY <1>1, <1>2, <1>3 DEF MultiStart

\* The quiet end of an evaluation of MLSL's own.
LEMMA OwnEvaluationStep ==
  ASSUME Inv, NEW f \in Fitness, pc \in {"next", "sample"}, Quiet,
         \/ OwnEvaluationThrows(f)
         \/ /\ Exhausted(Seen(outer, Point(f, 0)))
            /\ Leave(Seen(outer, Point(f, 0)), "returned") /\ UNCHANGED <<broken, mlsl>>
  PROVE  Inv'
<1> DEFINE s == Seen(outer, Point(f, 0))
<1>1. /\ Leave(s, "returned") /\ UNCHANGED broken /\ SameSample
      /\ Exhausted(s)
  BY DEF OwnEvaluationThrows, OuterThrows, SameSample, mlsl
<1>2. /\ s \in Solvers /\ s.evaluations = outer.evaluations + 1 /\ s.budget = outer.budget
      /\ s.iterations = outer.iterations
      /\ Exhausted(s) <=> outer.evaluations + 1 >= outer.budget
      /\ \A g \in minima \ {NoMinimum} : Beats(s.best, g)
  BY Typing, SeenFacts, SeenBeats
<1> HIDE DEF s
<1>3. s.evaluations <= s.budget + Probes + 1 /\ s.evaluations > s.budget - Least
  BY <1>1, <1>2, Typing, BetweenFacts, LeastAssumption
<1>4. s.iterations <= MaxIterations /\ broken' \in BOOLEAN
  BY <1>1, <1>2 DEF Inv, TypeOK
<1> QED BY <1>1, <1>2, <1>3, <1>4, LeaveStep

LEMMA InitialPointStep ==
  ASSUME Inv, NEW f \in Fitness, InitialPoint(f)
  PROVE  Inv'
<1>1. pc = "next" /\ outer.iterations = 0 /\ pc \in Outside /\ Quiet
  BY DEF InitialPoint, Outside, Quiet
<1>2. CASE OwnEvaluationThrows(f)
  BY <1>1, <1>2, OwnEvaluationStep
<1>3. CASE ~OwnEvaluationThrows(f)
  <2> DEFINE s == Seen(outer, Point(f, 0))
  <2>1. StartLocal(s, "initial") /\ SameSample
    BY <1>3 DEF InitialPoint, SameSample
  <2>2. /\ s \in Solvers /\ s.evaluations = outer.evaluations + 1 /\ s.budget = outer.budget
        /\ s.iterations = outer.iterations
        /\ \A g \in minima \ {NoMinimum} : Beats(s.best, g)
    BY Typing, SeenFacts, SeenBeats
  <2> HIDE DEF s
  <2>3. s.evaluations <= s.budget + Probes + 1
    BY <1>1, <2>2, Typing, BetweenFacts
  <2>4. s.iterations < MaxIterations
    BY <1>1, <2>2, SettingsAssumption
  <2>5. s.iterations <= MaxIterations
    BY <1>1, <2>2, SettingsAssumption
  <2> QED BY <1>1, <2>1, <2>2, <2>3, <2>4, <2>5, StartLocalStep
<1> QED BY <1>2, <1>3

LEMMA SamplePointStep ==
  ASSUME Inv, NEW f \in Fitness, SamplePoint(f)
  PROVE  Inv'
<1> DEFINE s == Seen(outer, Point(f, 0))
<1>1. pc = "sample" /\ Quiet
  BY DEF SamplePoint, Quiet
<1>2. CASE OwnEvaluationThrows(f)
             \/ (Exhausted(s) /\ Leave(s, "returned") /\ UNCHANGED <<broken, mlsl>>)
  BY <1>1, <1>2, OwnEvaluationStep
<1>3. CASE ~Exhausted(s) /\ outer' = s /\ visited' = visited + 1
             /\ UNCHANGED <<run, ends, pc, minima, improvement>>
  <2>1. UNCHANGED <<local, purpose, diff, probes, broken, outcome, pc, minima>>
    BY <1>3 DEF run, ends
  <2>2. /\ s \in Solvers /\ s.evaluations = outer.evaluations + 1 /\ s.budget = outer.budget
        /\ s.iterations = outer.iterations
        /\ Exhausted(s) <=> outer.evaluations + 1 >= outer.budget
        /\ \A g \in minima \ {NoMinimum} : Beats(s.best, g)
    BY Typing, SeenFacts, SeenBeats
  <2> HIDE DEF s
  <2>3. purpose = "none" /\ local = NoLocal /\ local.best = NoPoint
    BY <1>1, NoLocalFacts DEF Inv, PlaceInv, Outside
  <2>4. TypeOK' /\ PlaceInv'
    BY <1>1, <1>3, <2>1, <2>2 DEF Inv, TypeOK, PlaceInv, Outside, Quiet
  <2>5. SyncInv' /\ BudgetInv'
    <3>1. outer'.evaluations <= outer'.budget + Probes
      BY <1>3, <2>2, Typing
    <3> QED BY <1>1, <2>1, <3>1 DEF SyncInv, BudgetInv, Searching
  <2>6. BestInv' /\ EndInv'
    BY <1>1, <1>3, <2>1, <2>2, <2>3 DEF Inv, BestInv, EndInv, EndingExplained
  <2> QED BY <2>4, <2>5, <2>6 DEF Inv
<1> QED BY <1>2, <1>3 DEF SamplePoint

\* The steps of MLSL that evaluate nothing.
LEMMA TurnStep ==
  ASSUME Inv, outer' = outer, pc \in {"next", "sample", "points"},
         pc' \in {"sample", "points"},
         pc = "next" => outer.iterations < MaxIterations,
         UNCHANGED <<local, purpose, diff, probes, broken, outcome, minima>>, Quiet,
         visited' \in Nat
  PROVE  Inv'
<1>1. outer.iterations < MaxIterations
  BY DEF Inv, PlaceInv
<1>2. TypeOK' /\ PlaceInv'
  BY <1>1 DEF Inv, TypeOK, PlaceInv, Outside, Quiet
<1>3. SyncInv' /\ BudgetInv'
  BY BetweenFacts DEF SyncInv, BudgetInv, Searching
<1>4. BestInv' /\ EndInv'
  BY DEF Inv, BestInv, EndInv, EndingExplained
<1> QED BY <1>2, <1>3, <1>4 DEF Inv

\* A local search came back: what it found is a local minimum.
LEMMA FoundStep ==
  ASSUME Inv, pc = "returned", purpose \in {"initial", "point"}, outer' = outer,
         minima' = minima \cup {MinimumOf(local)}, visited' \in Nat, RunIdle,
         pc' \in {"sample", "points"}, UNCHANGED <<broken, outcome>>, Quiet
  PROVE  Inv'
<1>1. local' = NoLocal /\ purpose' = "none" /\ diff' = "none" /\ probes' = 0
  BY DEF RunIdle
<1>2. outer.iterations < MaxIterations
  BY DEF Inv, PlaceInv
<1>3. MinimumOf(local) \in Fitness \cup {NoMinimum}
  BY Typing, PointFacts DEF MinimumOf
<1>4. TypeOK' /\ PlaceInv'
  <2>1. minima' \subseteq Fitness \cup {NoMinimum}
    BY <1>3 DEF Inv, TypeOK
  <2> QED BY <1>1, <1>2, <2>1, NoLocalFacts, ProbesAssumption
      DEF Inv, TypeOK, PlaceInv, Outside, Quiet
<1>5. SyncInv' /\ BudgetInv'
  BY BetweenFacts DEF SyncInv, BudgetInv, Searching
<1>6. BestInv'
  <2>1. \A f \in minima' \ {NoMinimum} : Beats(outer.best, f)
    BY DEF Inv, BestInv, MinimumOf
  <2> QED BY <1>1, <2>1, NoLocalFacts DEF BestInv
<1>7. EndInv'
  BY DEF Inv, EndInv, EndingExplained
<1> QED BY <1>4, <1>5, <1>6, <1>7 DEF Inv

LEMMA GoOnStep == Inv /\ GoOn => Inv'
<1> SUFFICES ASSUME Inv, GoOn PROVE Inv'
  OBVIOUS
<1>1. /\ pc = "points" /\ outer' = Counted /\ pc' = "next" /\ Quiet /\ SameSample
      /\ UNCHANGED <<local, purpose, diff, probes, broken, outcome>>
  BY DEF GoOn, run, ends, Quiet, SameSample
<1>2. /\ outer.iterations + 1 <= MaxIterations
      /\ purpose = "none" /\ local = NoLocal /\ local.best = NoPoint
  BY <1>1, Typing, NoLocalFacts, SettingsAssumption DEF Inv, PlaceInv, Outside
<1>3. TypeOK' /\ PlaceInv'
  BY <1>1, <1>2, Typing, CountedFacts DEF Inv, TypeOK, PlaceInv, Outside, Quiet, SameSample
<1>4. SyncInv' /\ BudgetInv'
  BY <1>1, Typing, CountedFacts, BetweenFacts DEF SyncInv, BudgetInv, Searching
<1>5. BestInv' /\ EndInv'
  BY <1>1, <1>2, Typing, CountedFacts DEF Inv, BestInv, EndInv, EndingExplained, SameSample
<1> QED BY <1>3, <1>4, <1>5 DEF Inv

LEMMA MLSLStep == Inv /\ MLSL => Inv'
<1> SUFFICES ASSUME Inv, MLSL PROVE Inv'
  OBVIOUS
<1>1. ASSUME NEW f \in Fitness, InitialPoint(f) \/ SamplePoint(f) PROVE Inv'
  BY <1>1, InitialPointStep, SamplePointStep
<1>2. CASE InitialReturned
  BY <1>2, FoundStep DEF InitialReturned, ends, Quiet
<1>3. CASE NextIteration
  <2>1. outer.iterations < MaxIterations
    BY <1>3, Typing, SettingsAssumption DEF NextIteration
  <2> QED BY <1>3, <2>1, TurnStep DEF NextIteration, run, ends, Quiet
<1>4. CASE Reduce
  BY <1>4, TurnStep DEF Reduce, run, ends, Quiet
<1>5. CASE PointSkipped
  <2>1. visited' \in Nat
    BY <1>5 DEF PointSkipped, Inv, TypeOK
  <2> QED BY <1>5, <2>1, TurnStep DEF PointSkipped, run, ends, Quiet
<1>6. CASE StartPoint
  <2>1. /\ pc = "points" /\ pc \in Outside /\ StartLocal(outer, "point") /\ Quiet /\ SameSample
    BY <1>6 DEF StartPoint, Outside, Quiet, SameSample, mlsl
  <2>2. outer.iterations < MaxIterations
    BY <2>1 DEF Inv, PlaceInv
  <2> QED BY <2>1, <2>2, BetweenFacts, StartLocalStep
<1>7. CASE PointReturned
  <2>1. visited' \in Nat
    BY <1>7 DEF PointReturned, Inv, TypeOK
  <2> QED BY <1>7, <2>1, FoundStep DEF PointReturned, ends, Quiet
<1>8. CASE GoOn
  BY <1>8, GoOnStep
<1>9. CASE StopRule
  <2>1. pc = "points" /\ pc \in Outside
    BY <1>9 DEF StopRule, Outside
  <2>2. CASE StartLocal(outer, "polish") /\ UNCHANGED <<method, solver, mlsl>>
    BY <2>1, <2>2, BetweenFacts, StartLocalStep DEF Quiet, SameSample, mlsl
  <2>3. CASE Conclude("Success")
    BY <2>1, <2>3, ConcludeStep DEF Statuses
  <2> QED BY <1>9, <2>2, <2>3 DEF StopRule
<1> QED BY <1>1, <1>2, <1>3, <1>4, <1>5, <1>6, <1>7, <1>8, <1>9 DEF MLSL

LEMMA EndStep == Inv /\ (LoopEnds \/ PolishReturned \/ OwnObjectiveThrows) => Inv'
<1> SUFFICES ASSUME Inv, LoopEnds \/ PolishReturned \/ OwnObjectiveThrows PROVE Inv'
  OBVIOUS
<1>1. CASE LoopEnds
  BY <1>1, ConcludeStep DEF LoopEnds, Statuses
<1>2. CASE PolishReturned
  <2>1. pc = "returned"
    BY <1>2 DEF PolishReturned
  <2>2. /\ local.status \in Statuses /\ local.status # "Failure"
        /\ local.status \in {"None", "MaxEvaluations"} => outer.evaluations > outer.budget - Least
    BY <2>1, Typing, SolverFacts DEF Inv, SyncInv, Spent
  <2>3. CASE solver = "MLSL"
    <3>1. Conclude(local.status)
      BY <1>2, <2>3 DEF PolishReturned
    <3> QED BY <2>1, <2>2, <3>1, ConcludeStep
  <2>4. CASE solver # "MLSL"
    <3>1. Conclude("MaxIterations")
      BY <1>2, <2>4 DEF PolishReturned
    <3> QED BY <2>1, <3>1, ConcludeStep DEF Statuses
  <2> QED BY <2>3, <2>4
<1>3. CASE OwnObjectiveThrows
  <2>1. pc \in {"next", "sample"} /\ Breaks(outer) /\ Quiet /\ SameSample
    BY <1>3 DEF OwnObjectiveThrows, Quiet, SameSample, mlsl
  <2> QED BY <2>1, BetweenFacts, BreaksStep
<1> QED BY <1>1, <1>2, <1>3

LEMMA Inductive == Inv /\ [Next]_vars => Inv'
<1> SUFFICES ASSUME Inv, [Next]_vars PROVE Inv'
  OBVIOUS
<1>1. CASE UNCHANGED vars
  BY <1>1 DEF vars, mlsl, Inv, TypeOK, PlaceInv, SyncInv, BudgetInv, BestInv, EndInv,
     EndingExplained, OvershootBounded, Spent, Searching, Exhausted, Valid
<1>2. CASE Host
  BY <1>2, MinimizeStep DEF Host
<1>3. CASE Steps
  BY <1>3, LocalStepInv, MultiStartStep, MLSLStep, EndStep DEF Steps
<1> QED BY <1>1, <1>2, <1>3 DEF Next

THEOREM Invariant == Spec => []Inv
<1> QED BY InitInv, Inductive, PTL DEF Spec

\* Types of both optimisers and the place in the run; no iteration is counted
\* past the limit.
THEOREM Typed == Spec => []TypeOK
<1>1. Inv => TypeOK
  BY DEF Inv
<1> QED BY <1>1, Invariant, PTL

\* However many local searches share a budget, and whatever their finite
\* differences swallow, it is passed by at most one difference and one evaluation.
THEOREM Overshoot == Spec => []OvershootBounded
<1>1. Inv => OvershootBounded
  <2> SUFFICES ASSUME Inv PROVE OvershootBounded
    OBVIOUS
  <2>1. CASE pc = "idle"
    BY <2>1 DEF Inv, BudgetInv
  <2>2. CASE pc = "begin"
    BY <2>2, Typing DEF Inv, BudgetInv, OvershootBounded, Exhausted
  <2>3. CASE pc \in {"next", "sample", "points", "returned", "search", "decide", "base"}
    BY <2>3, Typing DEF Inv, BudgetInv, OvershootBounded
  <2>4. CASE pc = "probe"
    BY <2>4, Typing DEF Inv, BudgetInv, OvershootBounded
  <2> QED BY <2>1, <2>2, <2>3, <2>4 DEF Inv, TypeOK
<1> QED BY <1>1, Invariant, PTL

\* The two incumbents of nested searches never disagree about a better point,
\* through every exception between them.
THEOREM Incumbent == Spec => []IncumbentBeatsMinima
<1>1. Inv => IncumbentBeatsMinima
  BY DEF Inv, BestInv, IncumbentBeatsMinima, Missed, Beats
<1> QED BY <1>1, Invariant, PTL

\* Whatever way minimize() ends, its status names the reason.
THEOREM Explained == Spec => []EndingExplained
<1>1. Inv => EndingExplained
  BY DEF Inv, EndInv
<1> QED BY <1>1, Invariant, PTL
=============================================================================
