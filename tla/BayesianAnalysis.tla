-------------------------- MODULE BayesianAnalysis -------------------------
(***************************************************************************)
(* A Bayesian estimator (estimation/bayesian_analysis.hpp): its knobs, the *)
(* sampler built from them, the results of the last fit and the            *)
(* information criteria computed from these results.                       *)
(*                                                                         *)
(* A fit is a number and the length of its output; a criterion is the fit  *)
(* it was computed from.  The sampler is the output length it was built    *)
(* with: a completed sample() deals out exactly that many states           *)
(* (MCMCSampler!OutputComplete).  The model's likelihood may throw in      *)
(* every loop over it.  The model has observations.                        *)
(***************************************************************************)
EXTENDS Integers

CONSTANTS Lengths,   \* values of output_length
          MaxFits    \* results produced in all

ASSUME BayesAssumption == Lengths \subseteq Nat \ {0} /\ MaxFits \in Nat

NaN       == 0
NoSampler == 0
NoFit     == [fit |-> 0, length |-> 0]

VARIABLES knobs,         \* the settings: output_length_, and whether the others are valid
          model,         \* the model's number of parameters, and whether it is valid
          sampler,
          results,
          dic, waic, loo,
          is_estimated,
          pc,
          caller,        \* who called estimate: the host or an analysis's run()
          fits,
          unchecked      \* results were injected, no criteria were computed for them

criteria  == <<dic, waic, loo>>
inputs    == <<knobs, model>>
bayesVars == <<inputs, sampler, results, criteria, is_estimated, pc, caller, fits, unchecked>>

Knobs  == [output_length : Lengths, valid : BOOLEAN]
Models == [parameters : {0, 1}, valid : BOOLEAN]

\* The sampler a model and the knobs give: none for a model without parameters.
BuiltSampler == IF model.parameters = 0 THEN NoSampler ELSE knobs.output_length

\* Mutant: an existing sampler is used again.
SetUpSamplerOnce == sampler' = IF sampler = NoSampler THEN BuiltSampler ELSE sampler

SetUpSampler == sampler' = BuiltSampler

BayesInit ==
  /\ knobs \in Knobs /\ model \in Models
  /\ sampler = BuiltSampler
  /\ results = NoFit
  /\ dic = NaN /\ waic = NaN /\ loo = NaN
  /\ is_estimated = FALSE
  /\ pc = "idle" /\ caller = "host"
  /\ fits = 0 /\ unchecked = FALSE

\* Where a call goes when it has ended; an exception ends the host's call, too.
Continue == IF caller' = "run" THEN "post" ELSE "idle"

Unwind == pc' = "idle" /\ caller' = "host"

\* The knob setters are plain; the host owns the model.
SetKnobs ==
  /\ pc = "idle"
  /\ knobs' \in Knobs /\ model' \in Models
  /\ UNCHANGED <<sampler, results, criteria, is_estimated, pc, caller, fits, unchecked>>

\* Mutant: the flag of the last fit stays up.
EstimateBodyKeepsFlag(set_up) ==
  /\ IF set_up THEN SetUpSampler ELSE UNCHANGED sampler
  /\ IF sampler' = NoSampler
       THEN pc' = Continue /\ UNCHANGED results
       ELSE pc' = "sample" /\ results' = NoFit
  /\ UNCHANGED <<inputs, criteria, is_estimated, fits, unchecked>>

\* estimate() behind its validation, which throws before anything changes.  Without
\* a sampler it returns false and leaves the results of the last fit alone.
EstimateBody(set_up) ==
  /\ IF set_up THEN SetUpSampler ELSE UNCHANGED sampler
  /\ IF sampler' = NoSampler
       THEN pc' = Continue /\ UNCHANGED <<results, is_estimated>>
       ELSE pc' = "sample" /\ results' = NoFit /\ is_estimated' = FALSE
  /\ UNCHANGED <<inputs, criteria, fits, unchecked>>

Estimate ==
  /\ pc = "idle" /\ knobs.valid
  /\ caller' = "host"
  /\ \E set_up \in BOOLEAN : EstimateBody(set_up)

NewFit(length) ==
  /\ fits < MaxFits
  /\ fits' = fits + 1
  /\ results' = [fit |-> fits', length |-> length]

\* sample() and the construction of MCMCResults, which evaluates the likelihood, too.
BuildResults ==
  /\ pc = "sample" /\ pc' = "dic"
  /\ NewFit(sampler)
  /\ UNCHANGED <<inputs, sampler, criteria, is_estimated, caller, unchecked>>

SamplingThrows ==
  /\ pc = "sample" /\ Unwind
  /\ UNCHANGED <<inputs, sampler, results, criteria, is_estimated, fits, unchecked>>

\* What a criterion of the results is: NaN for an empty output.
Criterion == IF results.length = 0 THEN NaN ELSE results.fit

ComputeDic ==
  /\ pc = "dic" /\ pc' = "waic"
  /\ dic' = Criterion
  /\ UNCHANGED <<inputs, sampler, results, waic, loo, is_estimated, caller, fits, unchecked>>

ComputeWaic ==
  /\ pc = "waic" /\ pc' = "loo"
  /\ waic' = Criterion
  /\ UNCHANGED <<inputs, sampler, results, dic, loo, is_estimated, caller, fits, unchecked>>

\* compute_psis_loo() and the lines after it, in estimate() and in an injection.
ComputeLoo ==
  /\ pc = "loo" /\ caller' = caller /\ pc' = Continue
  /\ loo' = Criterion
  /\ is_estimated' = TRUE /\ unchecked' = FALSE
  /\ UNCHANGED <<inputs, sampler, results, dic, waic, fits>>

CriteriaThrow ==
  /\ pc \in {"dic", "waic", "loo"} /\ Unwind
  /\ results.length > 0
  /\ UNCHANGED <<inputs, sampler, results, criteria, is_estimated, fits, unchecked>>

\* set_custom_mcmc_results().
Inject ==
  /\ pc = "idle"
  /\ \E length \in Lengths \cup {0} : NewFit(length)
  /\ \/ pc' = "dic" /\ UNCHANGED is_estimated
     \/ pc' = "idle" /\ is_estimated' = TRUE
  /\ unchecked' = TRUE
  /\ UNCHANGED <<inputs, sampler, criteria, caller>>

\* clear_results() of the estimator.
ClearFit ==
  /\ results' = NoFit
  /\ dic' = NaN /\ waic' = NaN /\ loo' = NaN
  /\ is_estimated' = FALSE /\ unchecked' = FALSE
  /\ SetUpSampler
  /\ UNCHANGED <<inputs, fits>>

ClearResults == pc = "idle" /\ ClearFit /\ UNCHANGED <<pc, caller>>

\* set_up_sampler(), called by the host.
Rebuild ==
  /\ pc = "idle" /\ SetUpSampler
  /\ UNCHANGED <<inputs, results, criteria, is_estimated, pc, caller, fits, unchecked>>

\* compute_dic(), compute_waic() or compute_psis_loo(), called by the host; one that
\* throws leaves its criterion alone.
Recompute ==
  /\ pc = "idle"
  /\ \/ dic' = Criterion /\ UNCHANGED <<waic, loo>>
     \/ waic' = Criterion /\ UNCHANGED <<dic, loo>>
     \/ loo' = Criterion /\ UNCHANGED <<dic, waic>>
  /\ UNCHANGED <<inputs, sampler, results, is_estimated, pc, caller, fits, unchecked>>

\* The steps inside a call.
Estimation ==
  BuildResults \/ SamplingThrows \/ ComputeDic \/ ComputeWaic \/ ComputeLoo \/ CriteriaThrow

=============================================================================
