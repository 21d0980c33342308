---------------------------- MODULE LocalSearch -----------------------------
(***************************************************************************)
(* A local optimiser run by a global one (get_local_optimizer of           *)
(* multi_start.hpp and mlsl.hpp, with bfgs.hpp, powell.hpp and             *)
(* support/nelder_mead_solver.hpp): its objective is evaluate() of the     *)
(* global optimiser, so each evaluation passes two incumbents, two         *)
(* counters and two budgets, and an exception of the outer budget unwinds  *)
(* through the inner search.                                               *)
(*                                                                         *)
(* A local optimiser reports failures and computes a Hessian, whatever the *)
(* outer one was told: these are its defaults.  A finite difference        *)
(* evaluates its base point unprotected and then probes around it, and     *)
(* swallows every exception of a probe                                     *)
(* (differentiation/numerical_derivative.hpp).  Where a search goes next   *)
(* depends on values left out, and is any of its moves; its own limit of   *)
(* iterations may be reached between any two.                              *)
(***************************************************************************)
EXTENDS Optimizer

CONSTANT Probes   \* evaluations a finite difference makes after its base point, at most

ASSUME ProbesAssumption == Probes \in Nat

Methods == {"BFGS", "NelderMead", "Powell"}

VARIABLES outer,     \* the global optimiser
          local,     \* the local one, while it exists
          method,    \* its class
          purpose,   \* what the global optimiser runs it for
          diff,      \* what a finite difference is made for
          probes,    \* evaluations of it so far
          broken,    \* the run met a failure of its own: of its settings or the objective
          outcome,   \* how the last minimize() ended
          pc

run  == <<local, purpose, diff, probes>>
ends == <<broken, outcome>>

NoLocal == NewOptimizer(0, TRUE)

RunIdle == local' = NoLocal /\ purpose' = "none" /\ diff' = "none" /\ probes' = 0

\* minimize() of the global optimiser ends, with its record o.
Leave(o, how) ==
  /\ outer' = o /\ outcome' = how
  /\ pc' = "idle"
  /\ RunIdle

\* An exception that is not about a budget reaches minimize().
Fail(o) == Leave(Ended(o, "Failure"), IF o.report THEN "threw" ELSE "returned")

\* Mutant: every local search gets the whole budget.
LocalBudgetWhole(o) == o.budget

\* Mutant: one evaluation of the rest is kept back.
LocalBudgetShort(o) == o.budget - o.evaluations - 1

LocalBudget(o) == o.budget - o.evaluations

\* get_local_optimizer(), then minimize() of what it built, whose validate() is
\* outside of the try block.
StartLocal(o, why) ==
  LET l == NewOptimizer(LocalBudget(o), TRUE)
  IN  IF Valid(l)
        THEN /\ local' = l /\ outer' = o /\ purpose' = why /\ pc' = "begin"
             /\ UNCHANGED <<diff, probes, ends>>
        ELSE Fail(o) /\ UNCHANGED broken

\* Mutant: the outer optimiser counts what a local search evaluates, no more.
CountedOnly(o, p) == [Evaluated(o, p) EXCEPT !.best = o.best]

\* The closure handed to the local optimiser.
Seen(o, p) == Evaluated(o, p)

OuterThrows(f) == outer.report /\ Exhausted(Seen(outer, Point(f, 0)))

\* BFGS puts its incumbent back when the value is not finite.
LocalSees(f) ==
  LET l == Evaluated(local, Point(f, 0))
  IN  IF method = "BFGS" /\ ~Finite(f) THEN [l EXCEPT !.best = local.best] ELSE l

\* The local minimize() ends and leaves its record l to the global optimiser.
LocalReturns(l) ==
  /\ local' = l /\ pc' = "returned"
  /\ diff' = "none" /\ probes' = 0
  /\ UNCHANGED <<purpose, ends>>

\* One evaluation of fitness f by the local search, outside of a finite
\* difference or at its base point: a spent budget ends it quietly.
Evaluate(f, next) ==
  /\ outer' = Seen(outer, Point(f, 0))
  /\ IF OuterThrows(f) THEN LocalReturns(local)
     ELSE IF Exhausted(LocalSees(f)) THEN LocalReturns(LocalSees(f))
     ELSE /\ local' = LocalSees(f) /\ pc' = next
          /\ diff' = IF next \in {"base", "probe"} THEN "gradient" ELSE "none"
          /\ probes' = 0
          /\ UNCHANGED <<purpose, ends>>

\* A genuine failure unwinds through both optimisers.
Breaks(o) == Fail(o) /\ broken' = TRUE

\* The objective throws where nothing catches it, or Powell finds no bracket.
ObjectiveThrows ==
  /\ pc \in {"begin", "base", "search"}
  /\ Breaks(outer)
  /\ UNCHANGED method

\* The first evaluation; BFGS throws of a value that is not finite.
Begin(f) ==
  /\ pc = "begin"
  /\ IF method = "BFGS" /\ ~Finite(f) /\ ~OuterThrows(f) /\ ~Exhausted(LocalSees(f))
       THEN Breaks(Seen(outer, Point(f, 0)))
       ELSE Evaluate(f, IF method = "BFGS" THEN "base" ELSE "search")
  /\ UNCHANGED method

\* A step of a line search or of a simplex; a finite value of BFGS may be tried
\* for its gradient.
Search(f) ==
  /\ pc = "search"
  /\ \E next \in IF method = "BFGS" /\ Finite(f) THEN {"search", "base"} ELSE {"search"} :
       Evaluate(f, next)
  /\ UNCHANGED method

\* The base point of a gradient, which the local search counts, and of a
\* Hessian, which it does not; a Hessian of a NaN throws.
Base(f) ==
  /\ pc = "base"
  /\ Finite(f) <=> diff = "gradient" \/ Finite(local.best.fitness)
  /\ IF diff = "gradient" THEN Evaluate(f, "probe")
     ELSE IF Finite(f) \/ OuterThrows(f)
       THEN /\ outer' = Seen(outer, Point(f, 0))
            /\ IF OuterThrows(f) THEN LocalReturns(local)
                                 ELSE pc' = "probe" /\ UNCHANGED <<run, ends>>
       ELSE Breaks(Seen(outer, Point(f, 0)))
  /\ UNCHANGED method

\* A probe: what the outer budget throws is swallowed; the local one stops a gradient.
Probe(f) ==
  /\ pc = "probe" /\ probes < Probes
  /\ outer' = Seen(outer, Point(f, 0))
  /\ IF diff = "gradient" /\ ~OuterThrows(f) /\ Exhausted(LocalSees(f))
       THEN LocalReturns(LocalSees(f))
       ELSE /\ probes' = probes + 1
            /\ local' = IF diff = "gradient" /\ ~OuterThrows(f) THEN LocalSees(f) ELSE local
            /\ UNCHANGED <<purpose, diff, pc, ends>>
  /\ UNCHANGED method

\* A gradient goes back to the search, a Hessian to minimize().
Differentiated ==
  /\ pc = "probe"
  /\ IF diff = "gradient"
       THEN /\ \E next \in {"decide", "search"} : pc' = next
            /\ diff' = "none" /\ probes' = 0
            /\ UNCHANGED <<local, purpose, ends>>
       ELSE LocalReturns(local)
  /\ UNCHANGED <<outer, method>>

\* The record l has its final status, and minimize() goes on to the Hessian.
LocalEnds(l) ==
  /\ local' = l
  /\ pc' = "base" /\ diff' = "hessian" /\ probes' = 0
  /\ UNCHANGED <<outer, method, purpose, ends>>

\* The places where a search may stop.  Simplex and Powell try one point first.
Stops(kinds) ==
  /\ method \in kinds
  /\ pc = IF method = "BFGS" THEN "decide" ELSE "search"
  /\ local.evaluations >= 1

\* BFGS makes its accepted point the incumbent, even if a probe was better.
Accepted ==
  IF method = "BFGS" THEN local.best.fitness..MaxFitness ELSE {local.best.fitness}

\* The tolerance is met; the simplex also says so when its iterations are over.
Converges ==
  /\ Stops(Methods)
  /\ \E f \in Accepted : LocalEnds(Ended([local EXCEPT !.best.fitness = f], "Success"))

\* No acceptable step of BFGS.
LineSearchFails ==
  /\ method = "BFGS" /\ pc \in {"decide", "search"}
  /\ LocalEnds(Ended(local, "LineSearchFailed"))

\* The limit of iterations throws, and minimize() swallows it.
GivesUp ==
  /\ Stops({"BFGS", "Powell"})
  /\ LocalReturns(Ended(local, "MaxIterations"))
  /\ UNCHANGED <<outer, method>>

\* Another line search from an accepted point.
Continues ==
  /\ pc = "decide"
  /\ pc' = "search"
  /\ UNCHANGED <<outer, method, run, ends>>

LocalStep ==
  \/ \E f \in Fitness : Begin(f) \/ Search(f) \/ Base(f) \/ Probe(f)
  \/ Differentiated \/ Converges \/ LineSearchFails \/ GivesUp \/ Continues
  \/ ObjectiveThrows
=============================================================================
