------------------------- MODULE UnivariateAnalysis ------------------------
(***************************************************************************)
(* A frequency analysis over a Bayesian estimator it owns                  *)
(* (analyses/univariate/univariate_analysis.hpp): run(), the reprocessing  *)
(* methods, the results they assemble from the fit, and the distributions  *)
(* it hands out.  The host may also drive the estimator behind its back    *)
(* (bayesian_analysis() returns a reference).                              *)
(*                                                                         *)
(* A curve, an interval or a parameter vector is the fit it came from.     *)
(***************************************************************************)
EXTENDS BayesianAnalysis

CONSTANT IsNonstationary   \* whether the model has a chronology

ASSUME AnalysisAssumption == IsNonstationary \in BOOLEAN

None == 0

\* A mode curve of zeros, or filled in part only: of no fit.  History: whose call an
\* exception ended there.
Unfinished(by) == IF by = "host" THEN -1 ELSE -2

NoResults == [intervals |-> None, mode_curve |-> None, dic |-> NaN]

VARIABLES analysis_results,
          chronology, chronology_parent,
          analysis_estimated,   \* is_estimated_ of the analysis
          parameters,           \* the fit the model's parameters come from
          distribution_cache,   \* the fits of the distributions handed out and not freed yet
          driven                \* the host changed the fit behind the analysis

reports      == <<analysis_results, chronology, chronology_parent, parameters>>
analysisVars == <<reports, analysis_estimated, distribution_cache, driven>>
vars         == <<bayesVars, analysisVars>>
fitVars      == <<sampler, results, criteria, is_estimated, fits, unchecked>>

Init ==
  /\ BayesInit
  /\ analysis_results = NoResults
  /\ chronology = None /\ chronology_parent = None
  /\ analysis_estimated = FALSE
  /\ parameters = None
  /\ distribution_cache = {}
  /\ driven = FALSE

\* Mutant: the chronology of the last fit is kept.
ClearAnalysisButChronology ==
  /\ ClearFit
  /\ analysis_results' = NoResults
  /\ distribution_cache' = {}
  /\ analysis_estimated' = FALSE /\ driven' = FALSE
  /\ UNCHANGED <<chronology, chronology_parent, parameters>>

\* Mutant: the flag of the analysis is left to run().
ClearAnalysisButFlag ==
  /\ ClearFit
  /\ analysis_results' = NoResults
  /\ chronology' = None /\ chronology_parent' = None
  /\ distribution_cache' = {}
  /\ driven' = FALSE
  /\ UNCHANGED <<analysis_estimated, parameters>>

\* clear_results() of the analysis; the model keeps its parameters.
ClearAnalysis ==
  /\ ClearFit
  /\ analysis_results' = NoResults
  /\ chronology' = None /\ chronology_parent' = None
  /\ distribution_cache' = {}
  /\ analysis_estimated' = FALSE /\ driven' = FALSE
  /\ UNCHANGED parameters

\* run(): an invalid analysis throws before anything changes.
Run ==
  /\ pc = "idle" /\ knobs.valid /\ model.valid
  /\ ClearAnalysis
  /\ pc' = "prepare" /\ caller' = "run"

\* The data are prepared, and estimate() starts.
PrepareData ==
  /\ pc = "prepare" /\ caller' = caller
  /\ EstimateBody(TRUE)
  /\ UNCHANGED analysisVars

PrepareThrows ==
  /\ pc = "prepare" /\ Unwind
  /\ UNCHANGED <<inputs, fitVars, analysisVars>>

PostProcess ==
  /\ pc = "post"
  /\ pc' = IF is_estimated THEN "frequency" ELSE "mirror"
  /\ UNCHANGED <<inputs, fitVars, caller, analysisVars>>

\* The guard of every method that reads the fit.
HasFit == is_estimated /\ results # NoFit

\* The loops over output read its first output_length() entries.
OutputReadable == knobs.output_length <= results.length

\* Where run() goes on behind each method; the host's own call is over.
After(method) ==
  IF caller = "host" THEN "idle"
  ELSE IF method = "frequency" THEN "chronology" ELSE "mirror"

\* create_frequency_analysis_results() up to its last line.
CreateFrequency ==
  /\ pc = "frequency"
  /\ IF HasFit
       THEN /\ parameters' = results.fit
            /\ IF OutputReadable
                 THEN /\ analysis_results' = [intervals  |-> results.fit,
                                              mode_curve |-> results.fit, dic |-> NaN]
                      /\ pc' = "update"
                 ELSE analysis_results' = NoResults /\ pc' = "undefined"
       ELSE analysis_results' = NoResults /\ pc' = After("frequency") /\ UNCHANGED parameters
  /\ UNCHANGED <<inputs, fitVars, caller, chronology, chronology_parent,
                 analysis_estimated, distribution_cache, driven>>

FrequencyThrows ==
  /\ pc = "frequency" /\ HasFit /\ Unwind
  /\ analysis_results' = NoResults
  /\ parameters' \in {parameters, results.fit}
  /\ UNCHANGED <<inputs, fitVars, chronology, chronology_parent,
                 analysis_estimated, distribution_cache, driven>>

\* update_point_estimate_results().
UpdatePointEstimate ==
  /\ pc = "update" /\ pc' = After("frequency")
  /\ IF HasFit /\ analysis_results # NoResults
       THEN /\ parameters' = results.fit
            /\ analysis_results' = [analysis_results EXCEPT !.mode_curve = results.fit,
                                                            !.dic        = dic]
       ELSE UNCHANGED <<parameters, analysis_results>>
  /\ UNCHANGED <<inputs, fitVars, caller, chronology, chronology_parent,
                 analysis_estimated, distribution_cache, driven>>

\* The curve is zeros before its first point is computed; the scalars are assigned
\* last: an exception leaves those of before.
UpdateThrows ==
  /\ pc = "update" /\ HasFit /\ analysis_results # NoResults /\ Unwind
  /\ parameters' \in {parameters, results.fit}
  /\ \E curve \in {analysis_results.mode_curve, results.fit, Unfinished(caller)} :
       analysis_results' = [analysis_results EXCEPT !.mode_curve = curve]
  /\ UNCHANGED <<inputs, fitVars, chronology, chronology_parent,
                 analysis_estimated, distribution_cache, driven>>

\* create_chronology_results().
CreateChronology ==
  /\ pc = "chronology"
  /\ IF HasFit /\ IsNonstationary
       THEN /\ parameters' = results.fit /\ chronology_parent' = results.fit
            /\ IF OutputReadable
                 THEN chronology' = results.fit /\ pc' = After("chronology")
                 ELSE chronology' = None /\ pc' = "undefined"
       ELSE /\ chronology' = None /\ chronology_parent' = None
            /\ pc' = After("chronology") /\ UNCHANGED parameters
  /\ UNCHANGED <<inputs, fitVars, caller, analysis_results,
                 analysis_estimated, distribution_cache, driven>>

ChronologyThrows ==
  /\ pc = "chronology" /\ HasFit /\ IsNonstationary /\ Unwind
  /\ parameters' \in {parameters, results.fit}
  /\ chronology' = None /\ chronology_parent' \in {None, results.fit}
  /\ UNCHANGED <<inputs, fitVars, analysis_results, analysis_estimated, distribution_cache,
                 driven>>

\* The last line of run().
MirrorFit ==
  /\ pc = "mirror" /\ Unwind
  /\ analysis_estimated' = is_estimated
  /\ UNCHANGED <<inputs, fitVars, reports, distribution_cache, driven>>

\* The host calls a reprocessing method.
Reprocess ==
  /\ pc = "idle" /\ pc' \in {"frequency", "update", "chronology"}
  /\ UNCHANGED <<inputs, fitVars, caller, analysisVars>>

ClearFrequency ==
  /\ pc = "idle"
  /\ analysis_results' = NoResults
  /\ UNCHANGED <<bayesVars, chronology, chronology_parent, parameters,
                 analysis_estimated, distribution_cache, driven>>

\* get_distribution() and get_point_estimate_distribution() hand out a clone the
\* analysis keeps, and any run() or clear_results() frees.
GetDistribution ==
  /\ pc = "idle" /\ HasFit
  /\ distribution_cache' = distribution_cache \cup {results.fit}
  /\ UNCHANGED <<bayesVars, reports, analysis_estimated, driven>>

\* Calls on bayesian_analysis(), the estimator inside.
Drive ==
  /\ Estimate \/ Inject \/ ClearResults
  /\ driven' = TRUE
  /\ UNCHANGED <<reports, analysis_estimated, distribution_cache>>

Host ==
  \/ (SetKnobs \/ Rebuild \/ Recompute) /\ UNCHANGED analysisVars
  \/ pc = "idle" /\ ClearAnalysis /\ UNCHANGED <<pc, caller>>
  \/ Run \/ Reprocess \/ ClearFrequency \/ GetDistribution \/ Drive

PostProcessing ==
  \/ PostProcess \/ CreateFrequency \/ FrequencyThrows \/ UpdatePointEstimate \/ UpdateThrows
  \/ CreateChronology \/ ChronologyThrows \/ MirrorFit

Next ==
  \/ Host
  \/ PrepareData \/ PrepareThrows \/ PostProcessing
  \/ Estimation /\ UNCHANGED analysisVars

Spec == Init /\ [][Next]_vars

-----------------------------------------------------------------------------

FitIds  == 0..MaxFits
Reports == [intervals  : FitIds, dic : FitIds,
            mode_curve : FitIds \cup {Unfinished("host"), Unfinished("run")}]

\* Types.  A pointer to the sampler that is followed is not null, and fits are
\* numbered in order.
TypeOK ==
  /\ knobs \in Knobs /\ model \in Models
  /\ sampler \in Lengths \cup {NoSampler}
  /\ results \in [fit : FitIds, length : Lengths \cup {0}]
  /\ dic \in FitIds /\ waic \in FitIds /\ loo \in FitIds
  /\ is_estimated \in BOOLEAN /\ unchecked \in BOOLEAN
  /\ fits \in FitIds /\ results.fit <= fits
  /\ pc \in {"idle", "sample", "dic", "waic", "loo", "prepare", "post", "frequency",
             "update", "chronology", "mirror", "undefined"}
  /\ pc = "sample" => sampler # NoSampler
  /\ caller \in {"host", "run"}
  /\ analysis_results \in Reports
  /\ chronology \in FitIds /\ chronology_parent \in FitIds
  /\ analysis_estimated \in BOOLEAN /\ driven \in BOOLEAN
  /\ parameters \in FitIds
  /\ distribution_cache \subseteq FitIds

\* Between calls an estimator that says it is estimated has results, and the DIC,
\* WAIC and LOO it shows are those of these results, whatever threw in estimates
\* before; unless the caller injected results and took the criteria on itself.
CriteriaOfFit ==
  pc = "idle" /\ is_estimated /\ ~unchecked
    => /\ results # NoFit
       /\ dic = Criterion /\ waic = Criterion /\ loo = Criterion

\* An analysis that says it is estimated has a fit behind it, and its model holds
\* parameters of that fit, through failed runs and reprocessing.
AnalysisBacked ==
  pc = "idle" /\ ~driven /\ analysis_estimated => HasFit /\ parameters = results.fit

\* Whatever an analysis shows comes from one fit, the estimator's: intervals, mode
\* curve and DIC, the chronology with the distribution it points to, and every
\* distribution the host still holds: none outlives its fit.  The one thing shown that
\* is of no fit is a mode curve an exception left unfinished, and an analysis that says
\* it is estimated shows one only where the exception ended a reprocessing call of the
\* host's own and no later call has rewritten the curve.
OneFit ==
  ~driven =>
    /\ analysis_results # NoResults =>
         /\ HasFit
         /\ analysis_results.intervals = results.fit
         /\ analysis_results.mode_curve \in
              {results.fit, Unfinished("host"), Unfinished("run")}
         /\ analysis_estimated => analysis_results.mode_curve # Unfinished("run")
         /\ analysis_results.dic \in {NaN, results.fit}
    /\ chronology # None =>
         HasFit /\ chronology = results.fit /\ chronology_parent = results.fit
    /\ \A f \in distribution_cache : HasFit /\ f = results.fit

\* run() reads the output of its fit within bounds, whatever knobs the host set after
\* the sampler was built.
RunReadsInRange == pc = "undefined" => caller = "host"
=============================================================================
