---------------------- MODULE UnivariateAnalysisProofs ---------------------
(***************************************************************************)
(* Invariants of UnivariateAnalysis for any number of fits and output      *)
(* lengths, for models with and without a chronology.                      *)
(***************************************************************************)
EXTENDS UnivariateAnalysis, TLAPS

\* Whose call a step belongs to, and what the history variables record: only the
\* host's own estimates and injections change a fit that is already reported on.
Ownership ==
  /\ pc = "idle" => caller = "host"
  /\ pc \in {"prepare", "post", "mirror"} => caller = "run"
  /\ caller = "run" => ~driven /\ ~analysis_estimated
  /\ pc \in {"sample", "dic", "waic", "loo"} /\ caller = "host" => driven
  /\ unchecked => driven

\* The criteria computed so far are those of the results.
CriteriaInv ==
  /\ pc = "sample" => ~is_estimated /\ results = NoFit
  /\ pc \in {"dic", "waic", "loo"} => results.fit # 0
  /\ pc \in {"waic", "loo"} => dic = Criterion
  /\ pc = "loo" => waic = Criterion
  /\ results = NoFit \/ results.fit # 0
  /\ is_estimated => results.fit # 0
  /\ is_estimated /\ ~unchecked => dic = Criterion /\ waic = Criterion /\ loo = Criterion

\* What is shown is of the fit; before run() has a fit, nothing is shown, and an
\* unfinished curve of its own is the end of it.
ReportInv ==
  /\ OneFit
  /\ ~driven /\ analysis_estimated => HasFit /\ parameters = results.fit
  /\ caller = "run" /\ pc \in {"prepare", "sample", "dic", "waic", "loo", "post"}
       => analysis_results = NoResults /\ chronology = None
  /\ caller = "run" /\ pc \in {"update", "chronology", "mirror"} /\ is_estimated
       => parameters = results.fit
  /\ caller = "run" => analysis_results.mode_curve # Unfinished("run")

\* Inside run() the fit has as many samples as the knobs ask for.
LengthInv ==
  /\ caller = "run" /\ pc = "prepare" => results = NoFit
  /\ caller = "run" /\ pc = "sample" => sampler = knobs.output_length
  /\ caller = "run" /\ results # NoFit => results.length = knobs.output_length
  /\ RunReadsInRange

Inv == TypeOK /\ Ownership /\ CriteriaInv /\ ReportInv /\ LengthInv

-----------------------------------------------------------------------------

LEMMA EmptyValues ==
  /\ 0 \in FitIds
  /\ NoFit \in [fit : FitIds, length : Lengths \cup {0}]
  /\ NoResults \in Reports
<1>1. 0 \in FitIds
  BY BayesAssumption DEF FitIds
<1> QED BY <1>1 DEF NoFit, NoResults, Reports, None, NaN

LEMMA BuiltTyped ==
  ASSUME knobs \in Knobs
  PROVE  BuiltSampler \in Lengths \cup {NoSampler}
BY DEF Knobs, BuiltSampler

LEMMA ClearTyped ==
  ASSUME TypeOK, ClearFit
  PROVE  /\ sampler' \in Lengths \cup {NoSampler}
         /\ results' \in [fit : FitIds, length : Lengths \cup {0}]
         /\ dic' \in FitIds /\ waic' \in FitIds /\ loo' \in FitIds
         /\ is_estimated' \in BOOLEAN /\ unchecked' \in BOOLEAN
         /\ fits' \in FitIds /\ results'.fit <= fits'
         /\ knobs' = knobs /\ model' = model
<1>1. fits \in Nat /\ NoFit.fit = 0
  BY BayesAssumption DEF TypeOK, FitIds, NoFit
<1>2. sampler' \in Lengths \cup {NoSampler}
  BY BuiltTyped DEF TypeOK, ClearFit, SetUpSampler
<1>3. results' = NoFit /\ knobs' = knobs /\ model' = model /\ fits' = fits
  BY DEF ClearFit, inputs
<1>4. results'.fit <= fits'
  BY <1>1, <1>3
<1>5. dic' \in FitIds /\ waic' \in FitIds /\ loo' \in FitIds
  BY EmptyValues DEF ClearFit, NaN
<1>6. is_estimated' \in BOOLEAN /\ unchecked' \in BOOLEAN
  BY DEF ClearFit
<1> QED BY <1>2, <1>3, <1>4, <1>5, <1>6, EmptyValues DEF TypeOK

LEMMA EstimateTyped ==
  ASSUME TypeOK, NEW set_up \in BOOLEAN, EstimateBody(set_up)
  PROVE  /\ sampler' \in Lengths \cup {NoSampler}
         /\ results' \in [fit : FitIds, length : Lengths \cup {0}]
         /\ results'.fit <= fits' /\ fits' = fits
         /\ is_estimated' \in BOOLEAN
         /\ pc' \in {"sample", "post", "idle"}
         /\ pc' = "sample" => sampler' # NoSampler
         /\ UNCHANGED <<knobs, model, dic, waic, loo, unchecked>>
<1>1. fits \in Nat /\ NoFit.fit = 0
  BY BayesAssumption DEF TypeOK, FitIds, NoFit
<1>2. sampler' \in Lengths \cup {NoSampler}
  BY BuiltTyped DEF TypeOK, EstimateBody, SetUpSampler
<1>3. results' \in {NoFit, results} /\ fits' = fits
  BY DEF EstimateBody
<1>4. results'.fit <= fits' /\ results' \in [fit : FitIds, length : Lengths \cup {0}]
  BY <1>1, <1>3, EmptyValues DEF TypeOK
<1> QED BY <1>2, <1>3, <1>4 DEF TypeOK, EstimateBody, Continue, inputs, criteria

LEMMA NewFitTyped ==
  ASSUME TypeOK, NEW length \in Lengths \cup {0}, NewFit(length)
  PROVE  /\ fits' \in FitIds
         /\ results' \in [fit : FitIds, length : Lengths \cup {0}]
         /\ results'.fit <= fits'
<1>1. fits' \in FitIds /\ fits' <= fits'
  BY BayesAssumption DEF TypeOK, FitIds, NewFit
<1> QED BY <1>1 DEF NewFit

LEMMA CriterionTyped ==
  ASSUME TypeOK
  PROVE  Criterion \in FitIds
BY EmptyValues DEF TypeOK, Criterion, NaN

LEMMA FitIsFinished ==
  ASSUME TypeOK
  PROVE  results.fit \notin {Unfinished("host"), Unfinished("run")}
BY BayesAssumption DEF TypeOK, FitIds, Unfinished

LEMMA Initially == Init => Inv
<1> SUFFICES ASSUME Init PROVE Inv
  OBVIOUS
<1>1. TypeOK
  <2>1. 0 <= 0
    OBVIOUS
  <2>2. NoFit.fit = 0
    BY DEF NoFit
  <2> QED BY <2>1, <2>2, EmptyValues, BuiltTyped DEF Init, BayesInit, TypeOK, Reports, NaN, None
<1>2. Ownership /\ CriteriaInv /\ ReportInv /\ LengthInv
  BY DEF Init, BayesInit, Ownership, CriteriaInv, ReportInv, LengthInv, OneFit, HasFit, Criterion,
         RunReadsInRange, None
<1> QED BY <1>1, <1>2 DEF Inv

\* Inside run() the loops over the output stay within it.
LEMMA RunReadable ==
  ASSUME TypeOK, LengthInv, results # NoFit, ~OutputReadable
  PROVE  caller = "host"
<1>1. knobs.output_length \in Nat
  BY BayesAssumption DEF TypeOK, Knobs
<1>2. caller # "run"
  <2> SUFFICES ASSUME caller = "run" PROVE FALSE
    OBVIOUS
  <2>1. results.length = knobs.output_length
    BY DEF LengthInv
  <2> QED BY <1>1, <2>1 DEF OutputReadable
<1> QED BY <1>2 DEF TypeOK

\* One step per action; what an action does to the types and to the other parts of the
\* invariant is proved separately, since only the first needs the record sets.
LEMMA Step == Inv /\ [Next]_vars => Inv'
<1> SUFFICES ASSUME Inv, [Next]_vars PROVE Inv'
  OBVIOUS
<1> USE BayesAssumption, AnalysisAssumption
        DEF bayesVars, analysisVars, fitVars, criteria, inputs, reports, Reports, None
<1>1. CASE SetKnobs /\ UNCHANGED analysisVars
  <2>1. TypeOK'
    BY <1>1 DEF Inv, TypeOK, Knobs, Models, FitIds, HasFit, SetKnobs
  <2>2. (Ownership /\ CriteriaInv /\ ReportInv /\ LengthInv)'
    BY <1>1, <2>1 DEF Inv,
           TypeOK, Knobs, Models, FitIds, Ownership, CriteriaInv, ReportInv, LengthInv,
           OneFit, HasFit, Criterion, RunReadsInRange, SetKnobs,
           NoFit, NoResults, NoSampler, NaN, Unfinished
  <2> QED BY <2>1, <2>2 DEF Inv
<1>2. CASE pc = "idle" /\ ClearAnalysis /\ UNCHANGED <<pc, caller>>
  <2>1. TypeOK'
    <3>1. ClearFit /\ analysis_results' = NoResults /\ chronology' = 0 /\ chronology_parent' = 0
          /\ distribution_cache' = {} /\ analysis_estimated' = FALSE /\ driven' = FALSE
          /\ parameters' = parameters /\ pc' = "idle" /\ caller' = caller
      BY <1>2 DEF ClearAnalysis
    <3> QED BY <3>1, ClearTyped, EmptyValues DEF Inv, TypeOK
  <2>2. (Ownership /\ CriteriaInv /\ ReportInv /\ LengthInv)'
    BY <1>2, <2>1 DEF Inv,
           TypeOK, Knobs, Models, FitIds, Ownership, CriteriaInv, ReportInv, LengthInv,
           OneFit, HasFit, Criterion, RunReadsInRange, ClearAnalysis, ClearFit,
           SetUpSampler, BuiltSampler,
           NoFit, NoResults, NoSampler, NaN, Unfinished
  <2> QED BY <2>1, <2>2 DEF Inv
<1>3. CASE Run
  <2>1. TypeOK'
    <3>1. ClearFit /\ analysis_results' = NoResults /\ chronology' = 0 /\ chronology_parent' = 0
          /\ distribution_cache' = {} /\ analysis_estimated' = FALSE /\ driven' = FALSE
          /\ parameters' = parameters /\ pc' = "prepare" /\ caller' = "run"
      BY <1>3 DEF Run, ClearAnalysis
    <3> QED BY <3>1, ClearTyped, EmptyValues DEF Inv, TypeOK
  <2>2. (Ownership /\ CriteriaInv /\ ReportInv /\ LengthInv)'
    BY <1>3, <2>1 DEF Inv,
           TypeOK, Knobs, Models, FitIds, Ownership, CriteriaInv, ReportInv, LengthInv,
           OneFit, HasFit, Criterion, RunReadsInRange, Run, ClearAnalysis, ClearFit,
           SetUpSampler, BuiltSampler,
           NoFit, NoResults, NoSampler, NaN, Unfinished
  <2> QED BY <2>1, <2>2 DEF Inv
<1>4. CASE Reprocess
  <2>1. TypeOK'
    BY <1>4 DEF Inv, TypeOK, Knobs, Models, FitIds, HasFit, Reprocess
  <2>2. (Ownership /\ CriteriaInv /\ ReportInv /\ LengthInv)'
    BY <1>4, <2>1 DEF Inv,
           TypeOK, Knobs, Models, FitIds, Ownership, CriteriaInv, ReportInv, LengthInv,
           OneFit, HasFit, Criterion, RunReadsInRange, Reprocess,
           NoFit, NoResults, NoSampler, NaN, Unfinished
  <2> QED BY <2>1, <2>2 DEF Inv
<1>5. CASE ClearFrequency
  <2>1. TypeOK'
    BY <1>5, EmptyValues DEF Inv, TypeOK, ClearFrequency
  <2>2. (Ownership /\ CriteriaInv /\ ReportInv /\ LengthInv)'
    BY <1>5, <2>1 DEF Inv,
           TypeOK, Knobs, Models, FitIds, Ownership, CriteriaInv, ReportInv, LengthInv,
           OneFit, HasFit, Criterion, RunReadsInRange, ClearFrequency,
           NoFit, NoResults, NoSampler, NaN, Unfinished
  <2> QED BY <2>1, <2>2 DEF Inv
<1>6. CASE GetDistribution
  <2>1. TypeOK'
    BY <1>6 DEF Inv, TypeOK, Knobs, Models, FitIds, HasFit,
           GetDistribution
  <2>2. (Ownership /\ CriteriaInv /\ ReportInv /\ LengthInv)'
    BY <1>6, <2>1 DEF Inv,
           TypeOK, Knobs, Models, FitIds, Ownership, CriteriaInv, ReportInv, LengthInv,
           OneFit, HasFit, Criterion, RunReadsInRange, GetDistribution,
           NoFit, NoResults, NoSampler, NaN, Unfinished
  <2> QED BY <2>1, <2>2 DEF Inv
<1>7. CASE Drive /\ Estimate
  <2>1. TypeOK'
    <3>1. PICK set_up \in BOOLEAN : EstimateBody(set_up)
      BY <1>7 DEF Estimate
    <3> QED BY <1>7, <3>1, EstimateTyped DEF Inv, TypeOK, Drive, Estimate
  <2>2. (Ownership /\ CriteriaInv /\ ReportInv /\ LengthInv)'
    BY <1>7, <2>1 DEF Inv,
           TypeOK, Knobs, Models, FitIds, Ownership, CriteriaInv, ReportInv, LengthInv,
           OneFit, HasFit, Criterion, RunReadsInRange, Drive, Estimate, EstimateBody,
           SetUpSampler, BuiltSampler, Continue,
           NoFit, NoResults, NoSampler, NaN, Unfinished
  <2> QED BY <2>1, <2>2 DEF Inv
<1>8. CASE Drive /\ Inject
  <2>1. TypeOK'
    <3>1. PICK length \in Lengths \cup {0} : NewFit(length)
      BY <1>8 DEF Inject
    <3> QED BY <1>8, <3>1, NewFitTyped DEF Inv, TypeOK, Drive, Inject
  <2>2. (Ownership /\ CriteriaInv /\ ReportInv /\ LengthInv)'
    BY <1>8, <2>1 DEF Inv,
           TypeOK, Knobs, Models, FitIds, Ownership, CriteriaInv, ReportInv, LengthInv,
           OneFit, HasFit, Criterion, RunReadsInRange, Drive, Inject, NewFit,
           NoFit, NoResults, NoSampler, NaN, Unfinished
  <2> QED BY <2>1, <2>2 DEF Inv
<1>9. CASE Drive /\ ClearResults
  <2>1. TypeOK'
    BY <1>9, ClearTyped DEF Inv, TypeOK, Drive, ClearResults
  <2>2. (Ownership /\ CriteriaInv /\ ReportInv /\ LengthInv)'
    BY <1>9, <2>1 DEF Inv,
           TypeOK, Knobs, Models, FitIds, Ownership, CriteriaInv, ReportInv, LengthInv,
           OneFit, HasFit, Criterion, RunReadsInRange, Drive, ClearResults, ClearFit,
           SetUpSampler, BuiltSampler,
           NoFit, NoResults, NoSampler, NaN, Unfinished
  <2> QED BY <2>1, <2>2 DEF Inv
<1>10. CASE PrepareData
  <2>1. TypeOK'
    BY <1>10, EstimateTyped DEF Inv, TypeOK, PrepareData
  <2>2. (Ownership /\ CriteriaInv /\ ReportInv /\ LengthInv)'
    BY <1>10, <2>1 DEF Inv,
           TypeOK, Knobs, Models, FitIds, Ownership, CriteriaInv, ReportInv, LengthInv,
           OneFit, HasFit, Criterion, RunReadsInRange, PrepareData, EstimateBody,
           SetUpSampler, BuiltSampler, Continue,
           NoFit, NoResults, NoSampler, NaN, Unfinished
  <2> QED BY <2>1, <2>2 DEF Inv
<1>11. CASE PrepareThrows
  <2>1. TypeOK'
    BY <1>11 DEF Inv, TypeOK, Knobs, Models, FitIds, HasFit,
           PrepareThrows, Unwind
  <2>2. (Ownership /\ CriteriaInv /\ ReportInv /\ LengthInv)'
    BY <1>11, <2>1 DEF Inv,
           TypeOK, Knobs, Models, FitIds, Ownership, CriteriaInv, ReportInv, LengthInv,
           OneFit, HasFit, Criterion, RunReadsInRange, PrepareThrows, Unwind,
           NoFit, NoResults, NoSampler, NaN, Unfinished
  <2> QED BY <2>1, <2>2 DEF Inv
<1>12. CASE PostProcess
  <2>1. TypeOK'
    BY <1>12 DEF Inv, TypeOK, Knobs, Models, FitIds, HasFit,
           PostProcess
  <2>2. (Ownership /\ CriteriaInv /\ ReportInv /\ LengthInv)'
    BY <1>12, <2>1 DEF Inv,
           TypeOK, Knobs, Models, FitIds, Ownership, CriteriaInv, ReportInv, LengthInv,
           OneFit, HasFit, Criterion, RunReadsInRange, PostProcess,
           NoFit, NoResults, NoSampler, NaN, Unfinished
  <2> QED BY <2>1, <2>2 DEF Inv
<1>13. CASE CreateFrequency
  <2>1. TypeOK'
    <3>1. results.fit \in FitIds /\ NaN \in FitIds
      BY EmptyValues DEF Inv, TypeOK, NaN
    <3>2. analysis_results' \in {NoResults,
            [intervals |-> results.fit, mode_curve |-> results.fit, dic |-> NaN]}
          /\ parameters' \in {parameters, results.fit}
          /\ pc' \in {"update", "undefined", "idle", "chronology"}
      BY <1>13 DEF CreateFrequency, After
    <3>3. analysis_results' \in Reports
      BY <3>1, <3>2, EmptyValues
    <3> QED BY <1>13, <3>1, <3>2, <3>3 DEF Inv, TypeOK, CreateFrequency
  <2>2. (Ownership /\ CriteriaInv /\ ReportInv /\ LengthInv)'
    <3>1. CASE HasFit /\ OutputReadable
      <4> DEFINE whole == [intervals |-> results.fit, mode_curve |-> results.fit, dic |-> NaN]
      <4>1. UNCHANGED <<inputs, fitVars, caller, chronology, chronology_parent, driven,
                        distribution_cache, analysis_estimated>>
            /\ analysis_results' = whole /\ pc' = "update"
            /\ parameters' = results.fit /\ pc = "frequency"
        BY <1>13, <3>1 DEF CreateFrequency
      <4>2. whole.intervals = results.fit /\ whole.mode_curve = results.fit /\ whole.dic = NaN
            /\ whole.mode_curve # Unfinished("run")
        BY FitIsFinished DEF Inv
      <4> HIDE DEF whole
      <4>3. (Ownership /\ CriteriaInv /\ LengthInv)'
        BY <3>1, <4>1 DEF Inv, Ownership, CriteriaInv, LengthInv, RunReadsInRange, Criterion
      <4>4. OneFit'
        BY <3>1, <4>1, <4>2 DEF Inv, ReportInv, OneFit, HasFit
      <4>5. ReportInv'
        BY <3>1, <4>1, <4>2, <4>4 DEF Inv, ReportInv, HasFit
      <4> QED BY <4>3, <4>4, <4>5
    <3>2. CASE HasFit /\ ~OutputReadable
      <4>1. caller = "host"
        BY <3>2, RunReadable DEF Inv, HasFit
      <4>2. UNCHANGED <<inputs, fitVars, caller, chronology, chronology_parent, driven,
                        distribution_cache, analysis_estimated>>
            /\ analysis_results' = NoResults /\ pc' = "undefined"
            /\ parameters' = results.fit
        BY <1>13, <3>2 DEF CreateFrequency
      <4> QED BY <2>1, <3>2, <4>1, <4>2 DEF Inv,
           TypeOK, Ownership, CriteriaInv, ReportInv, LengthInv,
           OneFit, HasFit, Criterion, RunReadsInRange,
           NoFit, NoResults, NoSampler, NaN, Unfinished
    <3>3. CASE ~HasFit
      BY <1>13, <2>1, <3>3 DEF Inv,
           TypeOK, Ownership, CriteriaInv, ReportInv, LengthInv,
           OneFit, HasFit, Criterion, RunReadsInRange, CreateFrequency, After,
           NoFit, NoResults, NoSampler, NaN, Unfinished
    <3> QED BY <3>1, <3>2, <3>3
  <2> QED BY <2>1, <2>2 DEF Inv
<1>14. CASE FrequencyThrows
  <2>1. TypeOK'
    BY <1>14, EmptyValues DEF Inv, TypeOK, FrequencyThrows, Unwind
  <2>2. (Ownership /\ CriteriaInv /\ ReportInv /\ LengthInv)'
    BY <1>14, <2>1 DEF Inv,
           TypeOK, Knobs, Models, FitIds, Ownership, CriteriaInv, ReportInv, LengthInv,
           OneFit, HasFit, Criterion, RunReadsInRange, FrequencyThrows, Unwind,
           NoFit, NoResults, NoSampler, NaN, Unfinished
  <2> QED BY <2>1, <2>2 DEF Inv
<1>15. CASE UpdatePointEstimate
  <2>1. TypeOK'
    BY <1>15 DEF Inv, TypeOK, Knobs, Models, FitIds, HasFit,
           UpdatePointEstimate, After
  <2>2. (Ownership /\ CriteriaInv /\ ReportInv /\ LengthInv)'
    <3>1. CASE HasFit /\ analysis_results # NoResults
      <4>1. UNCHANGED <<inputs, fitVars, caller, chronology, chronology_parent, driven,
                        distribution_cache, analysis_estimated>>
            /\ parameters' = results.fit
            /\ pc = "update" /\ pc' = After("frequency")
            /\ analysis_results' = [analysis_results EXCEPT !.mode_curve = results.fit,
                                                            !.dic = dic]
        BY <1>15, <3>1 DEF UpdatePointEstimate
      <4>2. analysis_results'.intervals = analysis_results.intervals
            /\ analysis_results'.mode_curve = results.fit
            /\ analysis_results'.dic = dic
            /\ results.fit # Unfinished("run")
        BY <4>1, FitIsFinished DEF Inv, TypeOK
      <4>3. (Ownership /\ CriteriaInv /\ LengthInv)'
        BY <4>1 DEF Inv, Ownership, CriteriaInv, LengthInv, RunReadsInRange, Criterion, After
      <4>4. ~driven => dic \in {NaN, results.fit}
        BY <3>1 DEF Inv, Ownership, CriteriaInv, HasFit, Criterion
      <4>5. OneFit'
        BY <3>1, <4>1, <4>2, <4>4 DEF Inv, ReportInv, OneFit, HasFit
      <4>6. ReportInv'
        BY <3>1, <4>1, <4>2, <4>5 DEF Inv, ReportInv, HasFit, After
      <4> QED BY <4>3, <4>5, <4>6
    <3>2. CASE ~(HasFit /\ analysis_results # NoResults)
      BY <1>15, <2>1, <3>2 DEF Inv,
           Ownership, CriteriaInv, ReportInv, LengthInv,
           OneFit, HasFit, Criterion, RunReadsInRange, UpdatePointEstimate, After, NaN
    <3> QED BY <3>1, <3>2
  <2> QED BY <2>1, <2>2 DEF Inv
<1>16. CASE UpdateThrows
  <2>1. TypeOK'
    BY <1>16 DEF Inv, TypeOK, Knobs, Models, FitIds, HasFit,
           UpdateThrows, Unwind
  <2>2. (Ownership /\ CriteriaInv /\ ReportInv /\ LengthInv)'
    BY <1>16, <2>1 DEF Inv,
           TypeOK, Knobs, Models, FitIds, Ownership, CriteriaInv, ReportInv, LengthInv,
           OneFit, HasFit, Criterion, RunReadsInRange, UpdateThrows, Unwind,
           NoFit, NoResults, NoSampler, NaN, Unfinished
  <2> QED BY <2>1, <2>2 DEF Inv
<1>17. CASE CreateChronology
  <2>1. TypeOK'
    BY <1>17 DEF Inv, TypeOK, Knobs, Models, FitIds, HasFit,
           CreateChronology, After, OutputReadable
  <2>2. (Ownership /\ CriteriaInv /\ ReportInv /\ LengthInv)'
    <3>1. CASE HasFit /\ IsNonstationary /\ OutputReadable
      BY <1>17, <2>1, <3>1 DEF Inv,
           TypeOK, Ownership, CriteriaInv, ReportInv, LengthInv,
           OneFit, HasFit, Criterion, RunReadsInRange, CreateChronology, After,
           NoFit, NoResults, NoSampler, NaN, Unfinished
    <3>2. CASE HasFit /\ IsNonstationary /\ ~OutputReadable
      <4>1. caller = "host"
        BY <3>2, RunReadable DEF Inv, HasFit
      <4>2. UNCHANGED <<inputs, fitVars, caller, analysis_results, driven, analysis_estimated,
                        distribution_cache>>
            /\ chronology' = 0 /\ pc' = "undefined"
            /\ parameters' = results.fit
        BY <1>17, <3>2 DEF CreateChronology
      <4> QED BY <2>1, <3>2, <4>1, <4>2 DEF Inv,
           TypeOK, Ownership, CriteriaInv, ReportInv, LengthInv,
           OneFit, HasFit, Criterion, RunReadsInRange,
           NoFit, NoResults, NoSampler, NaN, Unfinished
    <3>3. CASE ~(HasFit /\ IsNonstationary)
      BY <1>17, <2>1, <3>3 DEF Inv,
           TypeOK, Ownership, CriteriaInv, ReportInv, LengthInv,
           OneFit, HasFit, Criterion, RunReadsInRange, CreateChronology, After,
           NoFit, NoResults, NoSampler, NaN, Unfinished
    <3> QED BY <3>1, <3>2, <3>3
  <2> QED BY <2>1, <2>2 DEF Inv
<1>18. CASE ChronologyThrows
  <2>1. TypeOK'
    BY <1>18 DEF Inv, TypeOK, Knobs, Models, FitIds, HasFit,
           ChronologyThrows, Unwind
  <2>2. (Ownership /\ CriteriaInv /\ ReportInv /\ LengthInv)'
    BY <1>18, <2>1 DEF Inv,
           TypeOK, Knobs, Models, FitIds, Ownership, CriteriaInv, ReportInv, LengthInv,
           OneFit, HasFit, Criterion, RunReadsInRange, ChronologyThrows, Unwind,
           NoFit, NoResults, NoSampler, NaN, Unfinished
  <2> QED BY <2>1, <2>2 DEF Inv
<1>19. CASE MirrorFit
  <2>1. TypeOK'
    BY <1>19 DEF Inv, TypeOK, Knobs, Models, FitIds, HasFit,
           MirrorFit, Unwind
  <2>2. (Ownership /\ CriteriaInv /\ ReportInv /\ LengthInv)'
    BY <1>19, <2>1 DEF Inv,
           TypeOK, Knobs, Models, FitIds, Ownership, CriteriaInv, ReportInv, LengthInv,
           OneFit, HasFit, Criterion, RunReadsInRange, MirrorFit, Unwind,
           NoFit, NoResults, NoSampler, NaN, Unfinished
  <2> QED BY <2>1, <2>2 DEF Inv
<1>20. CASE BuildResults /\ UNCHANGED analysisVars
  <2>1. TypeOK'
    BY <1>20, NewFitTyped DEF Inv, TypeOK, BuildResults
  <2>2. (Ownership /\ CriteriaInv /\ ReportInv /\ LengthInv)'
    BY <1>20, <2>1 DEF Inv,
           TypeOK, Knobs, Models, FitIds, Ownership, CriteriaInv, ReportInv, LengthInv,
           OneFit, HasFit, Criterion, RunReadsInRange, BuildResults, NewFit,
           NoFit, NoResults, NoSampler, NaN, Unfinished
  <2> QED BY <2>1, <2>2 DEF Inv
<1>21. CASE SamplingThrows /\ UNCHANGED analysisVars
  <2>1. TypeOK'
    BY <1>21 DEF Inv, TypeOK, Knobs, Models, FitIds, HasFit,
           SamplingThrows, Unwind
  <2>2. (Ownership /\ CriteriaInv /\ ReportInv /\ LengthInv)'
    BY <1>21, <2>1 DEF Inv,
           TypeOK, Knobs, Models, FitIds, Ownership, CriteriaInv, ReportInv, LengthInv,
           OneFit, HasFit, Criterion, RunReadsInRange, SamplingThrows, Unwind,
           NoFit, NoResults, NoSampler, NaN, Unfinished
  <2> QED BY <2>1, <2>2 DEF Inv
<1>22. CASE ComputeDic /\ UNCHANGED analysisVars
  <2>1. TypeOK'
    BY <1>22, CriterionTyped DEF Inv, TypeOK, ComputeDic
  <2>2. (Ownership /\ CriteriaInv /\ ReportInv /\ LengthInv)'
    BY <1>22, <2>1 DEF Inv,
           TypeOK, Knobs, Models, FitIds, Ownership, CriteriaInv, ReportInv, LengthInv,
           OneFit, HasFit, Criterion, RunReadsInRange, ComputeDic,
           NoFit, NoResults, NoSampler, NaN, Unfinished
  <2> QED BY <2>1, <2>2 DEF Inv
<1>23. CASE ComputeWaic /\ UNCHANGED analysisVars
  <2>1. TypeOK'
    BY <1>23, CriterionTyped DEF Inv, TypeOK, ComputeWaic
  <2>2. (Ownership /\ CriteriaInv /\ ReportInv /\ LengthInv)'
    BY <1>23, <2>1 DEF Inv,
           TypeOK, Knobs, Models, FitIds, Ownership, CriteriaInv, ReportInv, LengthInv,
           OneFit, HasFit, Criterion, RunReadsInRange, ComputeWaic,
           NoFit, NoResults, NoSampler, NaN, Unfinished
  <2> QED BY <2>1, <2>2 DEF Inv
<1>24. CASE ComputeLoo /\ UNCHANGED analysisVars
  <2>1. TypeOK'
    BY <1>24, CriterionTyped DEF Inv, TypeOK, ComputeLoo, Continue
  <2>2. (Ownership /\ CriteriaInv /\ ReportInv /\ LengthInv)'
    BY <1>24, <2>1 DEF Inv,
           TypeOK, Knobs, Models, FitIds, Ownership, CriteriaInv, ReportInv, LengthInv,
           OneFit, HasFit, Criterion, RunReadsInRange, ComputeLoo, Continue,
           NoFit, NoResults, NoSampler, NaN, Unfinished
  <2> QED BY <2>1, <2>2 DEF Inv
<1>25. CASE CriteriaThrow /\ UNCHANGED analysisVars
  <2>1. TypeOK'
    BY <1>25 DEF Inv, TypeOK, Knobs, Models, FitIds, HasFit,
           CriteriaThrow, Unwind
  <2>2. (Ownership /\ CriteriaInv /\ ReportInv /\ LengthInv)'
    BY <1>25, <2>1 DEF Inv,
           TypeOK, Knobs, Models, FitIds, Ownership, CriteriaInv, ReportInv, LengthInv,
           OneFit, HasFit, Criterion, RunReadsInRange, CriteriaThrow, Unwind,
           NoFit, NoResults, NoSampler, NaN, Unfinished
  <2> QED BY <2>1, <2>2 DEF Inv
<1>26. CASE UNCHANGED vars
  <2>1. TypeOK'
    BY <1>26 DEF Inv, TypeOK, Knobs, Models, FitIds, HasFit, vars
  <2>2. (Ownership /\ CriteriaInv /\ ReportInv /\ LengthInv)'
    BY <1>26, <2>1 DEF Inv,
           TypeOK, Knobs, Models, FitIds, Ownership, CriteriaInv, ReportInv, LengthInv,
           OneFit, HasFit, Criterion, RunReadsInRange, vars,
           NoFit, NoResults, NoSampler, NaN, Unfinished
  <2> QED BY <2>1, <2>2 DEF Inv
<1>27. CASE Rebuild /\ UNCHANGED analysisVars
  <2>1. TypeOK'
    BY <1>27, BuiltTyped DEF Inv, TypeOK, Rebuild, SetUpSampler
  <2>2. (Ownership /\ CriteriaInv /\ ReportInv /\ LengthInv)'
    BY <1>27, <2>1 DEF Inv,
           TypeOK, Ownership, CriteriaInv, ReportInv, LengthInv,
           OneFit, HasFit, Criterion, RunReadsInRange, Rebuild, SetUpSampler, BuiltSampler,
           NoFit, NoResults, NoSampler, NaN, Unfinished
  <2> QED BY <2>1, <2>2 DEF Inv
<1>28. CASE Recompute /\ UNCHANGED analysisVars
  <2>1. TypeOK'
    BY <1>28, CriterionTyped DEF Inv, TypeOK, Recompute
  <2>2. (Ownership /\ CriteriaInv /\ ReportInv /\ LengthInv)'
    BY <1>28, <2>1 DEF Inv,
           TypeOK, Ownership, CriteriaInv, ReportInv, LengthInv,
           OneFit, HasFit, Criterion, RunReadsInRange, Recompute,
           NoFit, NoResults, NoSampler, NaN, Unfinished
  <2> QED BY <2>1, <2>2 DEF Inv
<1> QED
  BY <1>1, <1>2, <1>3, <1>4, <1>5, <1>6, <1>7, <1>8, <1>9, <1>10, <1>11, <1>12, <1>13,
     <1>14, <1>15, <1>16, <1>17, <1>18, <1>19, <1>20, <1>21, <1>22, <1>23, <1>24, <1>25, <1>26, <1>27,
     <1>28
     DEF Next, Host, Drive, PostProcessing, Estimation

-----------------------------------------------------------------------------

\* The invariant holds throughout.
THEOREM Invariance == Spec => []Inv
BY Initially, Step, PTL DEF Spec

\* Every state is well typed: the sampler is followed only where there is one, and the
\* fits are numbered in order (estimate() returns early on a null sampler).
THEOREM Typed == Spec => []TypeOK
<1>1. Inv => TypeOK
  BY DEF Inv
<1> QED BY <1>1, Invariance, PTL

\* An idle estimated estimator shows the criteria of its own results: estimate() lowers
\* is_estimated_ before it replaces the results and raises it after the last criterion.
THEOREM CriteriaOfOneFit == Spec => []CriteriaOfFit
<1>1. Inv => CriteriaOfFit
  BY DEF Inv, CriteriaInv, CriteriaOfFit, NoFit
<1> QED BY <1>1, Invariance, PTL

\* An analysis that says it is estimated has a fit and its parameters: run() raises the
\* flag in its last line only.
THEOREM EstimatedIsBacked == Spec => []AnalysisBacked
<1>1. Inv => AnalysisBacked
  BY DEF Inv, ReportInv, AnalysisBacked
<1> QED BY <1>1, Invariance, PTL

\* All an analysis shows is of one fit: clear_results() drops every report together
\* with the fit, and each method assembles its report from the current one.
THEOREM ShownOfOneFit == Spec => []OneFit
<1>1. Inv => OneFit
  BY DEF Inv, ReportInv
<1> QED BY <1>1, Invariance, PTL

\* run() stays within the output of its fit: clear_results() rebuilds the sampler with
\* the output length the loops use later.
THEOREM RunInRange == Spec => []RunReadsInRange
<1>1. Inv => RunReadsInRange
  BY DEF Inv, LengthInv
<1> QED BY <1>1, Invariance, PTL

=============================================================================
