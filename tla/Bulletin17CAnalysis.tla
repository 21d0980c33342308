------------------------ MODULE Bulletin17CAnalysis ------------------------
(***************************************************************************)
(* The Bulletin 17C analysis (analyses/univariate/bulletin17c_analysis     *)
(* .hpp): run() fits the moments, then draws an ensemble of parameter      *)
(* sets by one of four methods, publishes it through the estimator it      *)
(* borrows from the Bayesian analyses, and assembles the curves.           *)
(*                                                                         *)
(* A parameter set is valid or not, an ensemble its size and the point it  *)
(* was drawn around; what is computed from a fit is the point of the fit.  *)
(* A random draw that may be rejected is a choice.                         *)
(***************************************************************************)
EXTENDS GeneralizedMethodOfMoments

CONSTANTS Lengths,      \* values of output_length
          MaxRetries,   \* max_retries of a replicate
          MaxDrives     \* bound on the host's changes of one fit behind the analysis

ASSUME EnsembleAssumption ==
  Lengths \subseteq Nat \ {0} /\ MaxRetries \in Nat \ {0} /\ MaxDrives \in Nat

UncertaintyMethods == {"MultivariateNormal", "LinkedMultivariateNormal", "Bootstrap",
                       "BiasCorrectedBootstrap"}
IsBootstrap(method) == method \in {"Bootstrap", "BiasCorrectedBootstrap"}

VARIABLES analysis,
          call   \* the locals of the replicate loop

analysisVars == <<gmm, pc, caller, analysis, call>>

NoEnsemble == [map |-> None, size |-> 0, asked |-> 0]
NoResults  == [intervals |-> None, mode_curve |-> None, erl |-> None]

\* A mode curve of zeros, or filled in part only: of no fit.  History: whose call an
\* exception ended there.
Unfinished(by) == <<"unfinished", by>>

ASSUME CurveAssumption ==
  \A by \in {"host", "run"} : Unfinished(by) \notin Points \cup {None, Elsewhere}

\* A diagnostics object that was never told how many replicates were retained.
Unset == -1
NoDiagnostics == [total |-> 0, failed |-> 0, retries |-> 0, mahalanobis |-> 0,
                  transform |-> 0, retained |-> Unset]

\* The locals: the replicate, its attempt and the diagnostics so far.
NoCall == [replicate |-> 1, attempt |-> 1, diag |-> NoDiagnostics]

\* ensemble, with the output_length it was asked for, and bayesian_estimated are the
\* results and the flag of the borrowed estimator.  History: how often the host changed
\* the fit behind the analysis, and whether the last run() returned.
Init ==
  /\ gmm = NoGmm /\ pc = "idle" /\ caller = "host" /\ call = NoCall
  /\ analysis \in
       [uncertainty_method : UncertaintyMethods, output_length : Lengths,
        is_estimated : {FALSE}, ensemble : {NoEnsemble}, bayesian_estimated : {FALSE},
        analysis_results : {NoResults}, bootstrap_results : {NoDiagnostics},
        message : {"None"}, distribution_cache : {{}}, linked : {FALSE},
        driven : {0}, returned : {FALSE}]

\* Mutant: the message is left to the methods that write one.
ClearedButMessage(a) ==
  [a EXCEPT !.is_estimated = FALSE, !.ensemble = NoEnsemble, !.bayesian_estimated = FALSE,
            !.analysis_results = NoResults, !.bootstrap_results = NoDiagnostics,
            !.distribution_cache = {}, !.driven = 0, !.returned = FALSE]

\* Mutant: the curves stay until the next ones are there.
ClearedButResults(a) ==
  [a EXCEPT !.is_estimated = FALSE, !.ensemble = NoEnsemble, !.bayesian_estimated = FALSE,
            !.bootstrap_results = NoDiagnostics, !.message = "None",
            !.distribution_cache = {}, !.driven = 0, !.returned = FALSE]

\* clear_results() of the analysis, which drops the GMM estimator, too.
Cleared(a) ==
  [a EXCEPT !.is_estimated = FALSE, !.ensemble = NoEnsemble, !.bayesian_estimated = FALSE,
            !.analysis_results = NoResults, !.bootstrap_results = NoDiagnostics,
            !.message = "None", !.distribution_cache = {},
            !.driven = 0, !.returned = FALSE]

Clear(a) == analysis' = Cleared(a) /\ gmm' = NoGmm

-----------------------------------------------------------------------------
(* run()                                                                   *)

Run ==
  /\ pc = "idle" /\ Clear(analysis)
  /\ pc' = "prepare" /\ caller' = "run" /\ UNCHANGED call

\* The data and the model are prepared, and the moments fitted.
Prepare ==
  /\ pc = "prepare" /\ StartEstimate(NewGmm, DefaultKnobs)
  /\ UNCHANGED <<caller, analysis, call>>

PrepareThrows == pc = "prepare" /\ Unwind /\ UNCHANGED <<gmm, analysis, call>>

Returned(a) == [a EXCEPT !.returned = TRUE]

\* Only a solver that failed ends the run here, best point or not.
Decide ==
  /\ pc = "decide" /\ UNCHANGED <<gmm, call>>
  /\ IF gmm.status = "Failure"
       THEN Unwind /\ analysis' = Returned(analysis)
       ELSE /\ analysis' = [analysis EXCEPT !.is_estimated = TRUE]
            /\ pc' = "quantify" /\ UNCHANGED caller

\* run_uncertainty_quantification() up to its switch: no parameters are set from an
\* empty best point.
Quantify ==
  /\ pc = "quantify" /\ gmm.best # None
  /\ pc' = CASE analysis.uncertainty_method = "MultivariateNormal"       -> "mvn"
             [] analysis.uncertainty_method = "LinkedMultivariateNormal" -> "link"
             [] OTHER                                                    -> "bootstrap"
  /\ UNCHANGED <<gmm, caller, analysis, call>>

QuantifyThrows == pc = "quantify" /\ Unwind /\ UNCHANGED <<gmm, analysis, call>>

\* The methods return null with a message, or without one: the default is set then.
Abort(message) == analysis' = [analysis EXCEPT !.message = message, !.linked = FALSE]

Published(a, n) ==
  [a EXCEPT !.ensemble = [map |-> gmm.best, size |-> n, asked |-> a.output_length],
            !.bayesian_estimated = TRUE]

\* Mutant: the exact count is asked of the slots, not of the sets in them.
DeliveredSlots(a, slots, valid) ==
  IF IsBootstrap(a.uncertainty_method) /\ slots # a.output_length
    THEN [a EXCEPT !.message = "NotExact"]
  ELSE IF valid < 2 THEN [a EXCEPT !.message = "TooFew"] ELSE Published(a, valid)

\* The guards behind the switch, and the publication of the sets.
Delivered(a, slots, valid) ==
  IF IsBootstrap(a.uncertainty_method) /\ {slots, valid} # {a.output_length}
    THEN [a EXCEPT !.message = "NotExact"]
  ELSE IF valid < 2 THEN [a EXCEPT !.message = "TooFew"] ELSE Published(a, valid)

\* A method ends: create_frequency_analysis_results() comes next, whatever it gave.
Quantified == pc' = "frequency" /\ UNCHANGED caller

TooManyRejected(k) == 2 * k > analysis.output_length
TooFewAccepted(k)  == analysis.output_length - k < 2

-----------------------------------------------------------------------------
(* The two methods that draw from a normal distribution.                   *)

MultivariateNormal ==
  /\ pc = "mvn" /\ Quantified /\ UNCHANGED call
  /\ gmm' \in CovarianceAt(gmm, gmm.best)
  /\ \/ Abort("Covariance")
     \/ \E k \in 0..analysis.output_length :
          IF TooManyRejected(k) \/ TooFewAccepted(k)
            THEN Abort("Rejected")
            ELSE LET n == analysis.output_length - k IN analysis' = Delivered(analysis, n, n)

MultivariateNormalThrows ==
  /\ pc = "mvn" /\ Unwind
  /\ gmm' \in CovarianceAt(gmm, gmm.best)
  /\ UNCHANGED <<analysis, call>>

\* The covariance comes before the temporary links.
InstallLinks ==
  /\ pc = "link" /\ pc' = "linked"
  /\ gmm' \in CovarianceAt(gmm, gmm.best)
  /\ analysis' = [analysis EXCEPT !.linked = TRUE]
  /\ UNCHANGED <<caller, call>>

\* Every way out restores the identity links; null goes on with plain draws.
DrawLinked ==
  /\ pc = "linked" /\ UNCHANGED <<gmm, caller, call>>
  /\ LET restored == [analysis EXCEPT !.linked = FALSE]
     IN  \/ analysis' = restored /\ pc' = "mvn"
         \/ \E k \in 0..analysis.output_length :
              /\ ~(TooManyRejected(k) \/ TooFewAccepted(k))
              /\ LET n == analysis.output_length - k IN analysis' = Delivered(restored, n, n)
              /\ pc' = "frequency"

LinkedThrows ==
  /\ pc \in {"link", "linked"} /\ Unwind
  /\ gmm' \in CovarianceAt(gmm, gmm.best)
  /\ analysis' = [analysis EXCEPT !.linked = FALSE]
  /\ UNCHANGED call

-----------------------------------------------------------------------------
(* The two bootstraps.                                                     *)

IsPivotal == analysis.uncertainty_method = "BiasCorrectedBootstrap"

\* Only the pivotal one asks for a covariance that is not degenerate.
StartBootstrap ==
  /\ pc = "bootstrap" /\ UNCHANGED caller
  /\ gmm' \in CovarianceAt(gmm, gmm.best)
  /\ \/ /\ pc' = "replicate" /\ UNCHANGED analysis
        /\ call' = [NoCall EXCEPT !.diag.total = analysis.output_length]
     \/ IsPivotal /\ Abort("Pivot") /\ pc' = "frequency" /\ UNCHANGED call

BootstrapThrows ==
  /\ pc \in {"bootstrap", "factor"} /\ Unwind
  /\ gmm' \in CovarianceAt(gmm, gmm.best)
  /\ call' = NoCall /\ UNCHANGED analysis

NextReplicate(c) == [c EXCEPT !.replicate = @ + 1, !.attempt = 1]

\* The fit of a resample is accepted; it reads the fit's best point, which one that
\* ended with Success need not have.
AcceptReplicate ==
  /\ pc = "replicate" /\ call.replicate <= call.diag.total
  /\ \/ pc' = pc /\ call' = NextReplicate(call)
     \/ pc' = "undefined" /\ UNCHANGED call
  /\ UNCHANGED <<gmm, caller, analysis>>

\* Any exception: a fit without Success, one too far off, no covariance.  The last
\* attempt gives the parent's fit to the replicate.
RejectReplicate ==
  /\ pc = "replicate" /\ call.replicate <= call.diag.total
  /\ \E far \in {0, 1} :
       LET counted == [call EXCEPT !.diag.mahalanobis = @ + far]
       IN  call' = IF call.attempt < MaxRetries
                     THEN [counted EXCEPT !.diag.retries = @ + 1, !.attempt = @ + 1]
                     ELSE NextReplicate([counted EXCEPT !.diag.failed = @ + 1])
  /\ UNCHANGED <<gmm, pc, caller, analysis>>

\* Behind the loop: the parametric sets are there, the pivotal ones are still to draw.
EndReplicates ==
  /\ pc = "replicate" /\ call.replicate > call.diag.total /\ UNCHANGED <<gmm, caller>>
  /\ IF IsPivotal
       THEN pc' = "factor" /\ UNCHANGED <<analysis, call>>
       ELSE LET n == call.diag.total
            IN  /\ analysis' = Delivered([analysis EXCEPT !.bootstrap_results = call.diag], n, n)
                /\ pc' = "frequency" /\ call' = NoCall

FactorFails ==
  /\ pc = "factor" /\ Quantified
  /\ Abort("Pivot")
  /\ call' = NoCall /\ UNCHANGED gmm

\* A draw that fails leaves its slot empty.
DrawPivots ==
  /\ pc = "factor" /\ Quantified /\ UNCHANGED gmm
  /\ \E k \in 0..call.diag.total :
       LET n    == call.diag.total - k
           diag == [call.diag EXCEPT !.transform = k, !.retained = n]
       IN  analysis' = Delivered([analysis EXCEPT !.bootstrap_results = diag], call.diag.total, n)
  /\ call' = NoCall

\* The diagnostics of a bootstrap are stored before its sets, all of them valid, are
\* published.
PublishThrows ==
  /\ \/ pc = "replicate" /\ call.replicate > call.diag.total /\ ~IsPivotal
     \/ pc = "factor"
  /\ call.diag.total >= 2 /\ Unwind
  /\ LET retained == IF IsPivotal THEN call.diag.total ELSE Unset
     IN  analysis' = [analysis EXCEPT !.bootstrap_results =
                                        [call.diag EXCEPT !.retained = retained]]
  /\ call' = NoCall /\ UNCHANGED gmm

Quantification ==
  \/ Quantify \/ QuantifyThrows
  \/ MultivariateNormal \/ MultivariateNormalThrows
  \/ InstallLinks \/ DrawLinked \/ LinkedThrows
  \/ StartBootstrap \/ BootstrapThrows \/ AcceptReplicate \/ RejectReplicate \/ EndReplicates
  \/ FactorFails \/ DrawPivots \/ PublishThrows

-----------------------------------------------------------------------------
(* The results.                                                            *)

\* The end of a reprocessing call of the host's, or of run().
Finish(a) ==
  Unwind /\ analysis' = IF caller = "run" THEN Returned(a) ELSE a

\* create_frequency_analysis_results() up to its last line; the curves start with the
\* mode of the map.
CreateFrequency ==
  /\ pc = "frequency" /\ UNCHANGED <<gmm, call>>
  /\ IF analysis.bayesian_estimated /\ analysis.ensemble # NoEnsemble
       THEN LET map == analysis.ensemble.map
            IN  /\ analysis' = [analysis EXCEPT !.analysis_results =
                                  [intervals |-> map, mode_curve |-> map, erl |-> None]]
                /\ pc' = "update" /\ UNCHANGED caller
       ELSE Finish([analysis EXCEPT !.analysis_results = NoResults])

FrequencyThrows ==
  /\ pc = "frequency" /\ analysis.ensemble # NoEnsemble /\ Unwind
  /\ analysis' = [analysis EXCEPT !.analysis_results = NoResults]
  /\ UNCHANGED <<gmm, call>>

HasAll == /\ gmm # NoGmm
          /\ analysis.ensemble # NoEnsemble /\ analysis.analysis_results # NoResults

\* update_point_estimate_results(): the curve and the scalars are of the published
\* sets, the effective record length is of the estimator's best point.
UpdatePointEstimate ==
  /\ pc = "update" /\ UNCHANGED call
  /\ IF HasAll
       THEN /\ gmm' \in CovarianceAt(gmm, gmm.best)
            /\ Finish([analysis EXCEPT !.analysis_results.mode_curve = analysis.ensemble.map,
                                       !.analysis_results.erl = gmm.best])
       ELSE Finish(analysis) /\ UNCHANGED gmm

\* The curve is zeros before its first point is computed.
UpdateThrows ==
  /\ pc = "update" /\ HasAll /\ Unwind
  /\ gmm' \in CovarianceAt(gmm, gmm.best)
  /\ \E curve \in {analysis.analysis_results.mode_curve, analysis.ensemble.map,
                   Unfinished(caller)} :
       analysis' = [analysis EXCEPT !.analysis_results.mode_curve = curve]
  /\ UNCHANGED call

Reporting == CreateFrequency \/ FrequencyThrows \/ UpdatePointEstimate \/ UpdateThrows

-----------------------------------------------------------------------------
(* The host's calls.                                                       *)

\* A setter that changes the method clears the analysis.
SetUncertaintyMethod ==
  /\ \E m \in UncertaintyMethods \ {analysis.uncertainty_method} :
       Clear([analysis EXCEPT !.uncertainty_method = m])
  /\ UNCHANGED <<pc, caller, call>>

\* bayesian_analysis().set_output_length() clears nothing.
SetOutputLength ==
  /\ \E n \in Lengths : analysis' = [analysis EXCEPT !.output_length = n]
  /\ UNCHANGED <<gmm, pc, caller, call>>

ClearAnalysis == Clear(analysis) /\ UNCHANGED <<pc, caller, call>>

ClearFrequency ==
  /\ analysis' = [analysis EXCEPT !.analysis_results = NoResults]
  /\ UNCHANGED <<gmm, pc, caller, call>>

Reprocess == pc' \in {"frequency", "update"} /\ UNCHANGED <<gmm, caller, analysis, call>>

HasFit == analysis.is_estimated /\ analysis.ensemble # NoEnsemble

\* get_distribution() and get_point_estimate_distribution() keep a clone of what they
\* hand out.
Handed(a) == [a EXCEPT !.distribution_cache = @ \cup {a.ensemble.map}]

GetDistribution == HasFit /\ analysis' = Handed(analysis) /\ UNCHANGED <<gmm, pc, caller, call>>

\* The quadrature of the Cohn intervals: covariances at the best point and around it.
CohnIntervals ==
  /\ gmm.is_estimated
  /\ \E g \in CovarianceAt(gmm, gmm.best) : gmm' \in CovarianceAt(g, Elsewhere)
  /\ UNCHANGED <<pc, caller, analysis, call>>

\* A change of the fit that the analysis does not see.
Driven(a) == [a EXCEPT !.driven = @ + 1]

\* gmm() is a pointer to the estimator: its estimate() and clear_results().
DriveGmm ==
  /\ gmm # NoGmm /\ analysis' = Driven(analysis)
  /\ \/ \E knobs \in Knobs : StartEstimate(gmm, knobs)
     \/ gmm' = NewGmm /\ UNCHANGED pc
  /\ UNCHANGED <<caller, call>>

\* bayesian_analysis() is a reference, too: clear_results() and results of the host's,
\* whose criteria may throw.
DriveBayesian ==
  /\ LET Holding(ensemble, estimated) ==
           [Driven(analysis) EXCEPT !.ensemble = ensemble, !.bayesian_estimated = estimated]
     IN  \/ analysis' = Holding(NoEnsemble, FALSE)
         \/ \E n \in Lengths, estimated \in {analysis.bayesian_estimated, TRUE} :
              analysis' = Holding([map |-> Elsewhere, size |-> n, asked |-> n], estimated)
  /\ UNCHANGED <<gmm, pc, caller, call>>

\* Bound: the host changes a fit at most MaxDrives times, and only while there are no
\* diagnostics, which such a change leaves alone.
Host ==
  /\ pc = "idle"
  /\ \/ Run \/ SetUncertaintyMethod \/ SetOutputLength \/ ClearAnalysis \/ ClearFrequency
     \/ Reprocess \/ GetDistribution \/ CohnIntervals
     \/ /\ analysis.driven < MaxDrives /\ analysis.bootstrap_results = NoDiagnostics
        /\ DriveGmm \/ DriveBayesian

AnalysisNext ==
  \/ Host
  \/ (Estimation \/ WeighThrows) /\ UNCHANGED <<analysis, call>>
  \/ Prepare \/ PrepareThrows \/ Decide \/ Quantification \/ Reporting
=============================================================================
