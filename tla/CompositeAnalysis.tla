------------------------- MODULE CompositeAnalysis -------------------------
(***************************************************************************)
(* A composite analysis (analyses/univariate/composite_analysis.hpp) of    *)
(* one child, a Bulletin 17C analysis the host goes on using: run(), and   *)
(* the reprocessing of results the child may have replaced.  The weights   *)
(* and the placeholder estimator of the composite are left out.            *)
(***************************************************************************)
EXTENDS Bulletin17CAnalysis

VARIABLE composite   \* its flag, and whether it has results

vars == <<analysisVars, composite>>

NoComposite == [is_estimated |-> FALSE, has_results |-> FALSE]

CompositeInit == Init /\ composite = NoComposite

\* get_child_point_estimate_distribution() gives one.
ChildHasPoint == HasFit /\ analysis.bayesian_estimated

\* The realisations are counted by the child's knob, and get_distribution() checks no
\* index: a shorter ensemble is read past its end.
Overrun == ChildHasPoint /\ analysis.output_length > analysis.ensemble.size

\* create_frequency_analysis_results(): it gives up when the child has no point.
CreateComposite(c) ==
  /\ pc' = IF Overrun THEN "undefined" ELSE pc
  /\ IF ChildHasPoint
       THEN /\ analysis' = Handed(analysis)
            /\ composite' = [c EXCEPT !.has_results = TRUE]
       ELSE UNCHANGED analysis /\ composite' = [c EXCEPT !.has_results = FALSE]
  /\ UNCHANGED <<gmm, caller, call>>

\* Mutant: the flag of the child is enough.
ChildIsEstimated == analysis.is_estimated

ChildIsFit == analysis.is_estimated /\ analysis.analysis_results # NoResults

\* run(): it throws before anything changes unless the child is fit; the flag goes up
\* last, whatever the results.
CompositeRun ==
  /\ pc = "idle" /\ ChildIsFit
  /\ CreateComposite([is_estimated |-> TRUE, has_results |-> FALSE])

\* The composite of the distributions throws, in run() or in a reprocessing call: nothing
\* has been assigned since the clearing.
CompositeThrows ==
  /\ pc = "idle" /\ ChildHasPoint /\ ~Overrun
  /\ analysis' = Handed(analysis)
  /\ \/ ChildIsFit /\ composite' = NoComposite
     \/ composite' = [composite EXCEPT !.has_results = FALSE]
  /\ UNCHANGED <<gmm, pc, caller, call>>

CompositeReprocess == pc = "idle" /\ CreateComposite(composite)

CompositeClear ==
  /\ pc = "idle" /\ composite' = NoComposite
  /\ UNCHANGED analysisVars

Next ==
  \/ AnalysisNext /\ UNCHANGED composite
  \/ CompositeRun \/ CompositeThrows \/ CompositeReprocess \/ CompositeClear

Spec == CompositeInit /\ [][Next]_vars

-----------------------------------------------------------------------------

\* A GMM estimator that says it is estimated has a best point, and it says it converged
\* only of a fit weighed at that point after each of its passes, whatever strategy,
\* fallback and failed estimation came before; it falls back at most once.
FitIsWhole ==
  /\ gmm.fallbacks <= 1
  /\ gmm.is_estimated => gmm.best # None
  /\ pc = "idle" /\ gmm.converged =>
       /\ gmm.is_estimated /\ gmm.history = gmm.passes
       /\ {gmm.s, gmm.w} \subseteq {gmm.best, Elsewhere}

\* Unless the host changed the fit behind the analysis, the sets it published, its
\* curves, its effective record length and the distributions it handed out are of the one
\* fit its estimator holds, its diagnostics are of its method, and no temporary link
\* outlives the draws it was made for.  The one thing shown that is of no fit is a mode
\* curve an exception left unfinished: in a run() that did not return then, or in a
\* reprocessing call of the host's own.
ShownOfOneFit ==
  /\ analysis.driven = 0 =>
       /\ analysis.ensemble # NoEnsemble =>
            analysis.is_estimated /\ analysis.ensemble.map = gmm.best
       /\ analysis.analysis_results # NoResults =>
            /\ analysis.ensemble # NoEnsemble
            /\ analysis.analysis_results.intervals = gmm.best
            /\ analysis.analysis_results.mode_curve \in
                 {gmm.best, Unfinished("host"), Unfinished("run")}
            /\ analysis.returned => analysis.analysis_results.mode_curve # Unfinished("run")
            /\ analysis.analysis_results.erl \in {None, gmm.best}
       /\ \A point \in analysis.distribution_cache :
            analysis.ensemble # NoEnsemble /\ point = gmm.best
  /\ analysis.bootstrap_results # NoDiagnostics => IsBootstrap(analysis.uncertainty_method)
  /\ analysis.linked => pc = "linked"

\* A run that returned with an estimated analysis published an ensemble, or left the
\* message that says why not: never both, never neither.
MessageExplains ==
  /\ analysis.driven = 0 /\ analysis.message # "None" => analysis.ensemble = NoEnsemble
  /\ pc = "idle" /\ analysis.returned /\ analysis.is_estimated /\ analysis.driven = 0 =>
       (analysis.message = "None") = (analysis.ensemble # NoEnsemble)

\* The diagnostics add up: every rejected attempt is a retry or the last one of a
\* replicate that failed, every slot of a pivotal run is retained or lost; and a
\* bootstrap publishes an ensemble of all the sets asked for, or none.
ReplicatesAccounted ==
  LET diag == analysis.bootstrap_results
  IN  /\ diag.failed <= diag.total
      /\ diag.failed * (MaxRetries - 1) <= diag.retries
      /\ diag.mahalanobis <= diag.retries + diag.failed
      /\ diag.retained # Unset => diag.retained + diag.transform = diag.total
      /\ /\ analysis.ensemble # NoEnsemble /\ analysis.driven = 0
         /\ IsBootstrap(analysis.uncertainty_method)
         => /\ analysis.ensemble.size = analysis.ensemble.asked
            /\ diag.total = analysis.ensemble.asked /\ diag.transform = 0

\* The host left the child's fit, and the output_length it was made with, alone.
ChildUntouched ==
  analysis.driven = 0 /\ analysis.output_length = analysis.ensemble.asked

\* A composite of an untouched child reads past the child's ensemble only when that was
\* drawn from a normal distribution, never after a bootstrap; and one that becomes
\* estimated has results, unless the host changed its child's fit.
CompositeReadsChild ==
  [][/\ pc = "idle" /\ pc' = "undefined" /\ ChildUntouched =>
          ~IsBootstrap(analysis.uncertainty_method)
     /\ ~composite.is_estimated /\ composite'.is_estimated /\ analysis.driven = 0 =>
          composite'.has_results]_vars

\* "It can be shorter than B.  That is safe downstream" (bulletin17c_analysis.hpp:
\* 763-767), of an ensemble that lost draws: a composite of an untouched child, whose
\* calls are the host's, reads it within bounds.
ShorterIsSafe == pc = "undefined" /\ caller = "host" => ~ChildUntouched
=============================================================================
