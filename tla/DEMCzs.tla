------------------------------ MODULE DEMCzs -------------------------------
(***************************************************************************)
(* The differential evolution sampler with snooker updates                 *)
(* (numerics/sampling/mcmc/demczs.hpp): an MCMCSampler whose chains        *)
(* propose from each other, by difference of two rows of the shared        *)
(* population matrix or along a line through recorded states of three      *)
(* other chains.  Nothing of what a proposal reads is checked: two         *)
(* distinct rows must exist, and the history of the first chain drawn      *)
(* supplies the index into the histories of the other two.                 *)
(***************************************************************************)
EXTENDS MCMCSampler

CONSTANT SnookerGate   \* recorded iterations before a snooker update (5 in the code)

ASSUME GateAssumption == SnookerGate \in Nat \ {0}

\* sample_count_[index] > 5 * thinning_interval_, after this proposal is counted.
SnookerAllowed == sample_count[j] + 1 > SnookerGate * thinning_interval

\* The step reads past the end of a vector, or draws for a second row for ever.
ReadsNothing ==
  /\ CountProposal
  /\ pc' = "undefined"
  /\ UNCHANGED <<loop, temp_population, returned_from, accept_count, chain_states>>

Propose(new, readable) ==
  /\ IF readable THEN ProposalKept(new) \/ ProposalAccepted(new) ELSE ReadsNothing
  /\ UNCHANGED <<inputs, seeds, simulations, mapStatus, histories, output, map, calls>>

\* Two distinct rows of the population matrix; unlike DEMCz no guard on its size.
ParallelUpdate(new) ==
  /\ pc = "chain"
  /\ Propose(new, population_matrix >= 2)

\* Chain c other than this one, then c1 and c2 other than c and each other; one
\* length, that of c, indexes all three histories.
SnookerUpdate(new) ==
  /\ pc = "chain"
  /\ SnookerAllowed
  /\ \E c \in ChainIds \ {j} : \E c1 \in ChainIds \ {c} : \E c2 \in ChainIds \ {c, c1} :
       LET n == markov_chains[c].len
       IN  Propose(new, n >= 1 /\ \A d \in {c1, c2} : n <= markov_chains[d].len)

Update == \E f \in Fitness : ParallelUpdate(f) \/ SnookerUpdate(f)

VARIABLE unrecorded   \* history: a likelihood threw before anything was recorded

\* DEMCzs has no custom settings to initialise: nothing there throws.
DEMCzsNext ==
  \/ /\ Host \/ InitializeChains \/ InitializeCustomSettings \/ Record \/ Finish \/ Update
     /\ UNCHANGED unrecorded
  \/ LikelihoodThrows /\ unrecorded' = (unrecorded \/ \E c \in ChainIds : markov_chains[c].len = 0)

DEMCzsSpec == Init /\ unrecorded = FALSE /\ [][DEMCzsNext]_<<vars, unrecorded>>
-----------------------------------------------------------------------------

\* No proposal reads a row or a state that does not exist (demczs.hpp:147-152,
\* 214-221).  The population holds the initial one and every recorded state, also when
\* it was left behind by a failed MAP start; "every chain's MarkovChains[j].size() is
\* equal", through calls that throw too; and "the warmup gate guarantees n >= 1
\* whenever SnookerUpdate() runs" (demczs.hpp:50-57) as long as no call threw before it
\* recorded a state: such calls advance the count that opens the gate, and record
\* nothing.
ProposalsAreDefined ==
  /\ unrecorded \/ pc # "undefined"
  /\ pc = "chain" /\ SnookerAllowed =>
       \A c \in ChainIds : /\ markov_chains[c].len = markov_chains[1].len
                           /\ ~unrecorded => markov_chains[c].len >= 1
  /\ pc \in {"chain", "record", "finish"} =>
       population_matrix >= initial_iterations + Recorded
=============================================================================
