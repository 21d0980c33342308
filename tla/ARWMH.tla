------------------------------- MODULE ARWMH -------------------------------
(***************************************************************************)
(* The adaptive random walk sampler (numerics/sampling/mcmc/arwmh.hpp): an *)
(* MCMCSampler whose proposal covariance is learned online, per chain.     *)
(*                                                                         *)
(* Two counters must agree although different operations reset them: the   *)
(* number of proposals a chain made (sample_count, reset by the setters)   *)
(* decides when the learned covariance is used, and the number of states   *)
(* pushed into that covariance (restarted by every initialisation) decides *)
(* whether it can be: it is scaled by 1 / (n - 1).                         *)
(*                                                                         *)
(* A RunningCovarianceMatrix is its number of pushed states.  The draw of  *)
(* "next_double() <= beta" may always choose the fixed identity proposal,  *)
(* so the branch decides only whether the step can throw.                  *)
(***************************************************************************)
EXTENDS MCMCSampler

CONSTANT AdaptAfter   \* proposals before the learned covariance is used (100 * D)

ASSUME AdaptAssumption == AdaptAfter \in Nat /\ AdaptAfter >= 2

VARIABLES sigma_n,     \* states pushed into each chain's running covariance
          outrun       \* history: the covariances were re-created under a running count

arwmhVars == <<vars, sigma_n, outrun>>

ARWMHInit == Init /\ sigma_n = <<>> /\ outrun = FALSE

\* One fresh running covariance per chain; nothing here throws.
InitializeCovariance ==
  /\ InitializeCustomSettings
  /\ sigma_n' = [c \in ChainIds |-> 0]
  /\ outrun' = \E c \in ChainIds : sample_count[c] # 0

\* The iteration being made uses the learned covariance unless beta chooses not to.
Adapts == sample_count[j] + 1 > AdaptAfter

\* Mutant: a rejected proposal does not contribute the repeated state.
LearnAccepted ==
  sigma_n' = IF accept_count' # accept_count THEN [sigma_n EXCEPT ![j] = @ + 1] ELSE sigma_n

\* The retained state, repeated or new, is pushed into the covariance.
Learn == sigma_n' = [sigma_n EXCEPT ![j] = @ + 1]

AdaptiveIteration(new) == ChainIteration(new) /\ Learn /\ UNCHANGED outrun

\* The likelihood throws before the state is pushed.
AdaptiveLikelihoodThrows == LikelihoodThrows /\ UNCHANGED <<sigma_n, outrun>>

\* Over fewer than two pushed states the scaled covariance is not positive
\* definite, and setting the proposal's parameters throws.
CovarianceThrows == pc = "chain" /\ Adapts /\ sigma_n[j] < 2 /\ AdaptiveLikelihoodThrows

ARWMHNext ==
  \/ (Host \/ InitializeChains \/ Record \/ Finish) /\ UNCHANGED <<sigma_n, outrun>>
  \/ InitializeCovariance
  \/ \E f \in Fitness : AdaptiveIteration(f)
  \/ AdaptiveLikelihoodThrows
  \/ CovarianceThrows

ARWMHSpec == ARWMHInit /\ [][ARWMHNext]_arwmhVars
-----------------------------------------------------------------------------

\* "Use the identity matrix the first 100*D samples" (arwmh.hpp:7-9, 121): the
\* covariance holds the chain's own history and no more than was proposed,
\* every output state thinning_interval times (arwmh.hpp:20-21), and it is used
\* only once it holds two states, so that its scale is defined.  That fails for
\* covariances re-created while the count that opens the warmup gate went on:
\* a restarted call, and the call after a first one that threw.
AdaptsWithHistory ==
  /\ pc \in {"chain", "record", "finish"} =>
       \A c \in ChainIds : /\ sigma_n[c] <= sample_count[c]
                           /\ thinning_interval * output[c].len <= sigma_n[c]
  /\ pc = "chain" /\ Adapts /\ ~outrun => sigma_n[j] >= 2
=============================================================================
