--------------------- MODULE GeneralizedMethodOfMoments --------------------
(***************************************************************************)
(* The GMM estimator (estimation/generalized_method_of_moments.hpp) of a   *)
(* just identified problem: the passes of its three strategies, each with  *)
(* the fallback from BFGS to Nelder-Mead, and the weighting between them.  *)
(*                                                                         *)
(* A parameter vector is a point; the matrices S and W are the points they *)
(* were computed at.  Where an optimiser ends is a choice among what       *)
(* Optimizer and the adapters allow: BFGS may end in any way with or       *)
(* without a finite point, Nelder-Mead fails without one or succeeds.      *)
(* Stopped stands for the limits and for a failed line search.             *)
(***************************************************************************)
EXTENDS Integers

CONSTANTS Points,      \* parameter vectors an optimiser may end at
          None,        \* no vector or matrix
          Identity,    \* the first weighting matrix
          Elsewhere,   \* a vector of the caller's
          MaxPasses    \* bound of max_gmm_iterations

ASSUME GmmAssumption ==
  /\ {None, Identity, Elsewhere} \cap Points = {}
  /\ None # Identity /\ None # Elsewhere /\ Identity # Elsewhere
  /\ MaxPasses \in Nat \ {0}

VARIABLES gmm,
          pc,
          caller   \* who called estimate: the host or the analysis's run()

Knobs == [method   : {"BFGS", "Powell"},
          strategy : {"OneStep", "TwoStep", "Iterative"},
          fallback : BOOLEAN,
          max      : 0..MaxPasses]

DefaultKnobs == [method |-> "BFGS", strategy |-> "Iterative", fallback |-> TRUE,
                 max |-> MaxPasses]

NewGmm ==
  [is_estimated |-> FALSE, converged |-> FALSE, sticky |-> FALSE, fallbacks |-> 0,
   status |-> "None", best |-> None, passes |-> 0, history |-> 0,
   s |-> None, w |-> None, knobs |-> DefaultKnobs]

\* The optional estimator of an owner, without a value.
NoGmm == [NewGmm EXCEPT !.status = "NoGmm"]

-----------------------------------------------------------------------------
(* One pass: minimize_with_fallback().                                     *)

\* How an optimiser may end: its status and its finite best point, if any.
Minimised(method) ==
  IF method = "NelderMead"
    THEN [status : {"Success"}, point : Points \cup {None}]
         \cup [status : {"Failure"}, point : {None}]
    ELSE [status : {"Success", "Stopped", "Failure"}, point : Points \cup {None}]

\* The best point is kept whatever the status says.
Captured(g, r) ==
  [g EXCEPT !.status = r.status, !.best = IF r.point = None THEN @ ELSE r.point]

Passed(r) == r.point # None /\ r.status # "Failure"

\* The fallback is for the rest of the estimation.
Fallen(g) == [g EXCEPT !.sticky = TRUE, !.fallbacks = @ + 1]

PassOutcomes(g) ==
  LET primary      == IF g.sticky THEN "NelderMead" ELSE g.knobs.method
      FallsBack(r) == ~Passed(r) /\ primary = "BFGS" /\ g.knobs.fallback
      ends         == Minimised(primary)
  IN  {[gmm |-> Captured(g, r), ok |-> Passed(r)] : r \in {e \in ends : ~FallsBack(e)}}
      \cup {[gmm |-> Captured(Fallen(Captured(g, r)), n), ok |-> Passed(n)] :
              r \in {e \in ends : FallsBack(e)}, n \in Minimised("NelderMead")}

-----------------------------------------------------------------------------
(* estimate()                                                              *)

\* Mutant: the convergence flag of the last estimation stays up.
RestartedConverged(g, knobs) ==
  [g EXCEPT !.is_estimated = FALSE, !.sticky = FALSE, !.fallbacks = 0, !.status = "None",
            !.best = None, !.passes = 1, !.history = 0,
            !.w = IF @ = None THEN Identity ELSE @, !.knobs = knobs]

\* What estimate() resets: neither S nor W.
Restarted(g, knobs) ==
  [g EXCEPT !.is_estimated = FALSE, !.converged = FALSE, !.sticky = FALSE, !.fallbacks = 0,
            !.status = "None", !.best = None, !.passes = 1, !.history = 0,
            !.w = IF @ = None THEN Identity ELSE @, !.knobs = knobs]

\* The host chooses the knobs before each call of its own; the default ones serve for
\* the value they have in between.
StartEstimate(g, knobs) == gmm' = Restarted(g, knobs) /\ pc' = "pass"

\* Where an estimate() that has returned leaves its caller.
Return == pc' = IF caller = "run" THEN "decide" ELSE "idle"

EndEstimate(g) ==
  gmm' = [g EXCEPT !.is_estimated = g.best # None, !.knobs = DefaultKnobs] /\ Return

Unwind == pc' = "idle" /\ caller' = "host"

\* A pass that failed ends the estimation; one that succeeded is the last one of the
\* strategy or is followed by new weights.
Pass ==
  /\ pc = "pass" /\ UNCHANGED caller
  /\ \E o \in PassOutcomes(gmm) :
       LET last == \/ ~o.ok \/ gmm.knobs.strategy = "OneStep"
                   \/ gmm.knobs.strategy = "TwoStep" /\ gmm.passes = 2
       IN  IF last THEN EndEstimate(o.gmm) ELSE gmm' = o.gmm /\ pc' = "weigh"

\* S and then W, its inverse, at the best point.
Weighed(g) == [g EXCEPT !.s = g.best, !.w = g.best]

\* The number of the pass that comes next, clamped when there is none.
NextPass(g) == IF g.passes < g.knobs.max THEN g.passes + 1 ELSE g.knobs.max

WeighTwoStep ==
  /\ pc = "weigh" /\ gmm.knobs.strategy = "TwoStep"
  /\ gmm' = [Weighed(gmm) EXCEPT !.passes = 2]
  /\ pc' = "pass" /\ UNCHANGED caller

\* A pass behind the first one is compared with the pass before.
WeighConverged ==
  /\ pc = "weigh" /\ gmm.knobs.strategy = "Iterative"
  /\ gmm.passes >= 2
  /\ EndEstimate([Weighed(gmm) EXCEPT !.history = @ + 1, !.converged = TRUE])
  /\ UNCHANGED caller

WeighIterative ==
  /\ pc = "weigh" /\ gmm.knobs.strategy = "Iterative"
  /\ LET weighed == [Weighed(gmm) EXCEPT !.history = @ + 1, !.passes = NextPass(gmm)]
     IN  IF gmm.passes < gmm.knobs.max
           THEN gmm' = weighed /\ pc' = "pass"
           ELSE EndEstimate(weighed)
  /\ UNCHANGED caller

\* get_s(), the inverse or q() throws out of estimate(): in this order.
WeighThrows ==
  /\ pc = "weigh" /\ Unwind
  /\ \E g \in {gmm, [gmm EXCEPT !.s = gmm.best], Weighed(gmm)} :
       gmm' = [g EXCEPT !.knobs = DefaultKnobs]

Estimation == Pass \/ WeighTwoStep \/ WeighConverged \/ WeighIterative

-----------------------------------------------------------------------------
(* The covariance.                                                         *)

\* get_covariance(x) stores S and then W at x; it swallows what throws.
CovarianceAt(g, x) == {g, [g EXCEPT !.s = x], [g EXCEPT !.s = x, !.w = x]}
=============================================================================
