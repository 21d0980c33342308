---------------------------- MODULE MCMCSampler ----------------------------
(***************************************************************************)
(* The base class of every Bayesian sampler                                *)
(* (numerics/sampling/mcmc/base/mcmc_sampler.hpp): its inputs, the reset   *)
(* that every input setter performs, the three ways of initialising the    *)
(* chains, and the driver loop of sample().                                *)
(*                                                                         *)
(* One object, one thread.  What makes it hard is the protocol: setters,   *)
(* plain fields, seeds and sample() may be called in any order, sample()   *)
(* may be resumed or restarted, and the log-likelihood is a host closure   *)
(* that may throw out of the middle of any of its loops, leaving whatever  *)
(* had been written so far.                                                *)
(*                                                                         *)
(* Abstractions.  A parameter set is its fitness, a member of Fitness;     *)
(* NegInf stands for -infinity.  A recorded chain is its length and its    *)
(* last state, an output list its length and its best state, the           *)
(* population matrix its length, and an entry of mean_log_likelihood the   *)
(* number of terms "fitness / number_of_chains" added into it.  The random *)
(* generators are the nondeterminism of the draws.  chain_iteration, pure  *)
(* virtual in the base, is the Metropolis step of rwmh.hpp.                *)
(***************************************************************************)
EXTENDS Integers, Sequences, FiniteSets, Functions

CONSTANTS
  ChainCounts, IterationCounts, WarmupCounts, InitialCounts, Thinnings,
                        \* the arguments the input setters are called with
  OutputLengths,        \* the values output_length is assigned
  InitTypes,            \* the values initialize is assigned
  SeedSizes,            \* sizes of the populations passed to seed_population
  SeedChains,           \* chain indexes (from 1) passed to seed_chain
  MinChains,            \* fewest chains the sampler validates (1; DEMCz, DEMCzs: 3)
  MinIterations,        \* fewest iterations it validates (100 in the code)
  MinOutputLength,      \* shortest output it validates (100 in the code)
  IsPopulationSampler,  \* is_population_sampler_
  MaxFitness,           \* bound: fitness levels above -infinity
  MaxCalls,             \* bound: sample() calls between two resets
  MaxSeeds              \* bound: states seeded into one chain

ASSUME InputsAssumption ==
  /\ ChainCounts \subseteq Nat /\ ChainCounts # {}
  /\ IterationCounts \subseteq Nat /\ IterationCounts # {}
  /\ WarmupCounts \subseteq Nat /\ WarmupCounts # {}
  /\ InitialCounts \subseteq Nat /\ InitialCounts # {}
  /\ Thinnings \subseteq Nat /\ Thinnings # {}
  /\ OutputLengths \subseteq Nat /\ OutputLengths # {}
  /\ InitTypes \subseteq {"MAP", "Randomize", "UserDefined"}
  /\ SeedSizes \subseteq Nat
  /\ SeedChains \subseteq Nat \ {0}

ASSUME LimitsAssumption ==
  /\ MinChains \in Nat \ {0}
  /\ MinIterations \in Nat \ {0}
  /\ MinOutputLength \in Nat \ {0}
  /\ IsPopulationSampler \in BOOLEAN
  /\ MaxFitness \in Nat
  /\ MaxCalls \in Nat
  /\ MaxSeeds \in Nat

VARIABLES
  \* inputs: the first record has resetting setters, the rest are plain fields
  settings, output_length, resume_simulation, initialize,
  \* the UserDefined seed store, which no reset clears
  seeded_population, seeded_chains,
  \* outputs
  simulations, map_initialization_failed, map_successful, population_matrix,
  markov_chains, output, accept_count, sample_count, mean_log_likelihood, map,
  \* the current state of each chain
  chain_states,
  \* the frame of the running call: where it is, its loop counters and locals
  pc, i, j, t, state, temp_population, output_count, returned_from,
  \* bound only: sample() calls since the last reset
  calls

fields    == <<output_length, resume_simulation, initialize>>
inputs    == <<settings, fields>>
seeds     == <<seeded_population, seeded_chains>>
mapStatus == <<map_initialization_failed, map_successful>>
histories == <<population_matrix, markov_chains, mean_log_likelihood>>
counts    == <<accept_count, sample_count>>
results   == <<simulations, mapStatus, histories, counts, output, map>>
loop      == <<i, j, t, state, output_count>>
frame     == <<pc, loop, temp_population, returned_from>>
vars      == <<inputs, seeds, results, chain_states, frame, calls>>

-----------------------------------------------------------------------------
(* Data. *)

NegInf  == 0
Fitness == NegInf..MaxFitness

History == [len : Nat, last : Fitness]
Empty   == [len |-> 0, last |-> NegInf]
Push(h, f) == [len |-> h.len + 1, last |-> f]

OutputList   == [len : Nat, best : Fitness]
EmptyOutput  == [len |-> 0, best |-> NegInf]
PushBest(o, f) == [len |-> o.len + 1, best |-> IF f > o.best THEN f ELSE o.best]

number_of_chains   == settings.number_of_chains
iterations         == settings.iterations
initial_iterations == settings.initial_iterations
thinning_interval  == settings.thinning_interval
ChainIds           == 1..number_of_chains

Settings == [number_of_chains : ChainCounts, iterations : IterationCounts,
             warmup_iterations : WarmupCounts, initial_iterations : InitialCounts,
             thinning_interval : Thinnings]

\* The argument values of the setter of one input.
Arguments(f) ==
  CASE f = "number_of_chains"   -> ChainCounts
    [] f = "iterations"         -> IterationCounts
    [] f = "warmup_iterations"  -> WarmupCounts
    [] f = "initial_iterations" -> InitialCounts
    [] f = "thinning_interval"  -> Thinnings

\* Iterations spent on output: output_length spread over the chains, rounded up.
\* Mutant: rounded down.
output_iterations_floor == output_length \div number_of_chains

output_iterations == (output_length + number_of_chains - 1) \div number_of_chains
total_iterations  == iterations + output_iterations

\* validate_settings, with validate_custom_settings' chain minimum.
SettingsValid ==
  /\ number_of_chains >= MinChains
  /\ iterations >= MinIterations
  /\ settings.warmup_iterations >= 1
  /\ 2 * settings.warmup_iterations <= iterations
  /\ thinning_interval >= 1
  /\ initial_iterations >= number_of_chains
  /\ output_length >= MinOutputLength

\* Mutant: worst draws first.
AscendingRankings(s) ==
  {p \in [DOMAIN s -> DOMAIN s] :
     \A a, b \in DOMAIN s :
       a < b => \/ s[p[a]] < s[p[b]]
                \/ s[p[a]] = s[p[b]] /\ p[a] < p[b]}

\* The stable descending order of a draw sequence, as an index permutation
\* (there is exactly one).
Rankings(s) ==
  {p \in [DOMAIN s -> DOMAIN s] :
     \A a, b \in DOMAIN s :
       a < b => \/ s[p[a]] > s[p[b]]
                \/ s[p[a]] = s[p[b]] /\ p[a] < p[b]}

-----------------------------------------------------------------------------
(* reset(): the outputs a setter or the constructor leaves behind, for n   *)
(* chains.                                                                 *)

ResetOutputs(n) ==
  /\ map_initialization_failed' = FALSE
  /\ population_matrix' = 0
  /\ output' = [c \in 1..n |-> EmptyOutput]
  /\ accept_count' = [c \in 1..n |-> 0]
  /\ sample_count' = [c \in 1..n |-> 0]
  /\ mean_log_likelihood' = <<>>
  /\ map' = NegInf
  /\ calls' = 0

\* Mutant: the next sample() resumes.
ResetResumes(n) ==
  /\ ResetOutputs(n)
  /\ markov_chains' = [c \in 1..n |-> Empty]
  /\ UNCHANGED simulations

Reset(n) ==
  /\ ResetOutputs(n)
  /\ simulations' = 0
  /\ markov_chains' = [c \in 1..n |-> Empty]

Init ==
  /\ settings \in Settings
  /\ output_length \in OutputLengths
  /\ resume_simulation = TRUE
  /\ initialize = "Randomize"
  /\ seeded_population = 0
  /\ seeded_chains = <<>>
  /\ simulations = 0
  /\ map_initialization_failed = FALSE
  /\ map_successful = FALSE
  /\ population_matrix = 0
  /\ markov_chains = [c \in ChainIds |-> Empty]
  /\ output = [c \in ChainIds |-> EmptyOutput]
  /\ accept_count = [c \in ChainIds |-> 0]
  /\ sample_count = [c \in ChainIds |-> 0]
  /\ mean_log_likelihood = <<>>
  /\ map = NegInf
  /\ chain_states = <<>>
  /\ pc = "idle" /\ i = 1 /\ j = 1 /\ t = 1
  /\ state = NegInf /\ temp_population = <<>> /\ output_count = 0
  /\ returned_from = "none"
  /\ calls = 0

-----------------------------------------------------------------------------
(* Calls of the host while no sample() runs.                               *)

SetInput(f, v) ==
  /\ pc = "idle"
  /\ settings' = [settings EXCEPT ![f] = v]
  /\ Reset(settings'.number_of_chains)
  /\ UNCHANGED <<fields, seeds, map_successful, chain_states, frame>>

AssignField ==
  /\ pc = "idle"
  /\ \/ output_length' \in OutputLengths /\ UNCHANGED <<resume_simulation, initialize>>
     \/ resume_simulation' \in BOOLEAN /\ UNCHANGED <<output_length, initialize>>
     \/ initialize' \in InitTypes /\ UNCHANGED <<output_length, resume_simulation>>
  /\ UNCHANGED <<settings, seeds, results, chain_states, frame, calls>>

SeedPopulation(m) ==
  /\ pc = "idle"
  /\ seeded_population' = m
  /\ UNCHANGED <<inputs, seeded_chains, results, chain_states, frame, calls>>

SeedOf(c) == IF c \in DOMAIN seeded_chains THEN seeded_chains[c] ELSE Empty

\* seed_chain grows the store up to the chain it is given.
SeedChain(c, f) ==
  /\ pc = "idle"
  /\ SeedOf(c).len < MaxSeeds
  /\ seeded_chains' =
       [k \in 1..(IF c > Len(seeded_chains) THEN c ELSE Len(seeded_chains)) |->
          IF k = c THEN Push(SeedOf(k), f) ELSE SeedOf(k)]
  /\ UNCHANGED <<inputs, seeded_population, results, chain_states, frame, calls>>

ClearSeed ==
  /\ pc = "idle"
  /\ seeded_population' = 0
  /\ seeded_chains' = <<>>
  /\ UNCHANGED <<inputs, results, chain_states, frame, calls>>

-----------------------------------------------------------------------------
(* sample().                                                               *)

\* The counters and locals of a frame that is not in its loop.
NoLoop == /\ i' = 1 /\ j' = 1 /\ t' = 1 /\ state' = NegInf /\ output_count' = 0

\* The call ends, by its return or by an exception that leaves it.
Leave == /\ pc' = "idle"
         /\ NoLoop
         /\ temp_population' = <<>>
         /\ returned_from' = "none"

\* Clear the output lists and enter the iteration loop.
EnterLoop ==
  /\ output' = [c \in ChainIds |-> EmptyOutput]
  /\ pc' = "chain"
  /\ NoLoop
  /\ temp_population' = <<>>
  /\ returned_from' = "none"

\* A call with invalid settings throws before it changes anything.
Sample ==
  /\ pc = "idle"
  /\ calls < MaxCalls
  /\ SettingsValid
  /\ calls' = calls + 1
  /\ IF ~resume_simulation \/ simulations < 1
       THEN /\ pc' = "initialize"
            /\ UNCHANGED <<output, loop, temp_population, returned_from>>
       ELSE EnterLoop
  /\ UNCHANGED <<inputs, seeds, simulations, mapStatus, histories, counts, map, chain_states>>

\* chain_states := what initialize_chains returned, along the path it took.
InitialsFrom(path, initials) ==
  /\ chain_states' = initials
  /\ returned_from' = path
  /\ pc' = "custom"
  /\ UNCHANGED loop

Materialised(c) ==
  IF SeedOf(c).len > 0 THEN SeedOf(c) ELSE markov_chains[c]

\* UserDefined: re-materialise the stored seed, then take the last state of
\* each recorded chain; back() of an empty one is undefined.
InitializeUserDefined ==
  /\ pc = "initialize" /\ initialize = "UserDefined"
  /\ population_matrix' = IF seeded_population > 0 THEN seeded_population
                                                    ELSE population_matrix
  /\ markov_chains' = [c \in ChainIds |-> Materialised(c)]
  /\ IF \A c \in ChainIds : Materialised(c).len > 0
       THEN /\ InitialsFrom("user", [c \in ChainIds |-> Materialised(c).last])
            /\ UNCHANGED temp_population
       ELSE /\ pc' = "undefined"
            /\ UNCHANGED <<loop, temp_population, returned_from, chain_states>>
  /\ UNCHANGED <<inputs, seeds, simulations, mapStatus, mean_log_likelihood,
                 counts, output, map, calls>>

\* MAP: the optimiser swallows what its objective throws; any status but
\* Success goes straight on to the random draws.
MaximizeFails ==
  /\ pc = "initialize" /\ initialize = "MAP"
  /\ pc' = "draw"
  /\ UNCHANGED <<inputs, seeds, results, chain_states, loop, temp_population,
                 returned_from, calls>>

MaximizeSucceeds(f) ==
  /\ pc = "initialize" /\ initialize = "MAP"
  /\ map_successful' = TRUE
  /\ map' = f
  /\ pc' = "mvn"
  /\ UNCHANGED <<inputs, seeds, simulations, map_initialization_failed, histories,
                 counts, output, chain_states, loop, temp_population,
                 returned_from, calls>>

\* Mutant: initial draws stay out of the population matrix.
DrawUnpooled(f) ==
  temp_population' = Append(temp_population, f) /\ UNCHANGED population_matrix

\* A parameter set drawn and evaluated during initialisation.
Draw(f) ==
  /\ temp_population' = Append(temp_population, f)
  /\ population_matrix' = IF IsPopulationSampler THEN population_matrix + 1
                                                  ELSE population_matrix

\* One draw from the MAP proposal; after the last the first draws start the chains.
MvnDraw(f) ==
  /\ pc = "mvn"
  /\ Draw(f)
  /\ IF Len(temp_population') = initial_iterations
       THEN InitialsFrom("mvn", [c \in ChainIds |-> temp_population'[c]])
       ELSE UNCHANGED <<pc, loop, returned_from, chain_states>>
  /\ UNCHANGED <<inputs, seeds, simulations, mapStatus, markov_chains,
                 mean_log_likelihood, counts, output, map, calls>>

\* No Hessian, a singular one, or a likelihood that throws: all are caught,
\* and what was drawn so far stays in both populations.
MvnFails ==
  /\ pc = "mvn"
  /\ initialize' = "Randomize"
  /\ map_initialization_failed' = TRUE
  /\ pc' = "draw"
  /\ UNCHANGED <<settings, output_length, resume_simulation, seeds, simulations,
                 map_successful, histories, counts, output, map, chain_states,
                 loop, temp_population, returned_from, calls>>

StartRandomize ==
  /\ pc = "initialize" /\ initialize = "Randomize"
  /\ pc' = "draw"
  /\ UNCHANGED <<inputs, seeds, results, chain_states, loop, temp_population,
                 returned_from, calls>>

\* The prior mean, then initial_iterations - 1 draws from the priors (i counts
\* them); the best ones start the chains.
RandomDraw(f) ==
  /\ pc = "draw"
  /\ Draw(f)
  /\ IF i = initial_iterations
       THEN /\ IF initial_iterations = 1 /\ number_of_chains = 1
                 THEN chain_states' = <<temp_population'[1]>>
                 ELSE \E p \in Rankings(temp_population') :
                        chain_states' = [c \in ChainIds |-> temp_population'[p[c]]]
            /\ returned_from' = "random"
            /\ pc' = "custom"
            /\ i' = 1
       ELSE /\ i' = i + 1
            /\ UNCHANGED <<pc, returned_from, chain_states>>
  /\ UNCHANGED <<inputs, seeds, simulations, mapStatus, markov_chains,
                 mean_log_likelihood, counts, output, map, j, t, state,
                 output_count, calls>>

\* A likelihood that throws during the random draws leaves sample().
DrawThrows ==
  /\ pc = "draw"
  /\ Leave
  /\ UNCHANGED <<inputs, seeds, results, chain_states, calls>>

\* initialize_custom_settings: the subclass factors its proposal covariance,
\* which may throw.
InitializeCustomSettings ==
  /\ pc = "custom"
  /\ EnterLoop
  /\ UNCHANGED <<inputs, seeds, simulations, mapStatus, histories, counts, map,
                 chain_states, calls>>

CustomSettingsThrow ==
  /\ pc = "custom"
  /\ Leave
  /\ UNCHANGED <<inputs, seeds, results, chain_states, calls>>

-----------------------------------------------------------------------------
(* sample_chain and chain_iteration.                                       *)

\* The state a chain_iteration starts from.
Current == IF t = 1 THEN chain_states[j] ELSE state

\* sample_chain goes on to its next thinning step, or returns the state into
\* chain_states and the driver moves to the next chain.
AdvanceChain(new) ==
  /\ IF t < thinning_interval
       THEN t' = t + 1 /\ state' = new /\ UNCHANGED <<pc, j, chain_states>>
       ELSE /\ t' = 1
            /\ state' = NegInf
            /\ chain_states' = [chain_states EXCEPT ![j] = new]
            /\ IF j < number_of_chains
                 THEN j' = j + 1 /\ UNCHANGED pc
                 ELSE j' = 1 /\ pc' = "record"
  /\ UNCHANGED <<i, output_count, temp_population, returned_from>>

CountProposal == sample_count' = [sample_count EXCEPT ![j] = @ + 1]

\* Mutant: a kept state is not counted as sampled.
ProposalKeptUncounted(new) ==
  new = Current /\ AdvanceChain(new) /\ UNCHANGED <<accept_count, sample_count>>

\* The proposal is outside the priors' bounds, or it lost the acceptance draw.
ProposalKept(new) ==
  /\ CountProposal
  /\ new = Current
  /\ AdvanceChain(new)
  /\ UNCHANGED accept_count

\* log u <= ratio: -infinity is never accepted over -infinity.
ProposalAccepted(new) ==
  /\ CountProposal
  /\ accept_count' = [accept_count EXCEPT ![j] = @ + 1]
  /\ ~(new = NegInf /\ Current = NegInf)
  /\ AdvanceChain(new)

ChainIteration(new) ==
  /\ pc = "chain"
  /\ ProposalKept(new) \/ ProposalAccepted(new)
  /\ UNCHANGED <<inputs, seeds, simulations, mapStatus, histories, output, map, calls>>

\* The likelihood throws after the proposal was counted: sample() unwinds and
\* the thinning steps this chain already made are lost.
LikelihoodThrows ==
  /\ pc = "chain"
  /\ CountProposal
  /\ Leave
  /\ UNCHANGED <<inputs, seeds, simulations, mapStatus, histories, accept_count,
                 output, map, chain_states, calls>>

-----------------------------------------------------------------------------
(* The "Record output" loop, one chain at a time.                          *)

\* mean_log_likelihood_[i - 1] += fitness / number_of_chains, grown on demand.
AddToMean ==
  mean_log_likelihood' =
    IF Len(mean_log_likelihood) < i THEN Append(mean_log_likelihood, 1)
                                    ELSE [mean_log_likelihood EXCEPT ![i] = @ + 1]

\* Mutant: a state equal to the last one recorded is not recorded again.
RecordChainDistinct ==
  /\ i <= iterations
  /\ AddToMean
  /\ markov_chains' =
       [markov_chains EXCEPT ![j] = IF @.len > 0 /\ @.last = chain_states[j]
                                      THEN @ ELSE Push(@, chain_states[j])]
  /\ UNCHANGED <<output, output_count, map>>

RecordChain ==
  /\ i <= iterations
  /\ AddToMean
  /\ markov_chains' = [markov_chains EXCEPT ![j] = Push(@, chain_states[j])]
  /\ UNCHANGED <<output, output_count, map>>

\* Mutant: the MAP stays frozen at its initial estimate.
RecordOutputFrozen ==
  /\ i > iterations /\ output_count < output_length
  /\ output' = [output EXCEPT ![j] = PushBest(@, chain_states[j])]
  /\ output_count' = output_count + 1
  /\ UNCHANGED <<map, markov_chains, mean_log_likelihood>>

RecordOutput ==
  /\ i > iterations /\ output_count < output_length
  /\ output' = [output EXCEPT ![j] = PushBest(@, chain_states[j])]
  /\ output_count' = output_count + 1
  /\ map' = IF chain_states[j] > map THEN chain_states[j] ELSE map
  /\ UNCHANGED <<markov_chains, mean_log_likelihood>>

OutputFull ==
  /\ i > iterations /\ output_count >= output_length
  /\ UNCHANGED <<output, output_count, map, markov_chains, mean_log_likelihood>>

\* Mutant: a chain whose output is full is not passed over.
NextRecordStuck ==
  IF i > iterations /\ output_count >= output_length THEN UNCHANGED <<pc, i, j>>
  ELSE IF j < number_of_chains
    THEN j' = j + 1 /\ UNCHANGED <<pc, i>>
    ELSE /\ j' = 1
         /\ IF i < total_iterations THEN i' = i + 1 /\ pc' = "chain"
                                    ELSE i' = i /\ pc' = "finish"

NextRecord ==
  IF j < number_of_chains
    THEN j' = j + 1 /\ UNCHANGED <<pc, i>>
    ELSE /\ j' = 1
         /\ IF i < total_iterations THEN i' = i + 1 /\ pc' = "chain"
                                    ELSE i' = i /\ pc' = "finish"

Record ==
  /\ pc = "record"
  /\ population_matrix' = IF IsPopulationSampler THEN population_matrix + 1
                                                  ELSE population_matrix
  /\ RecordChain \/ RecordOutput \/ OutputFull
  /\ NextRecord
  /\ UNCHANGED <<inputs, seeds, simulations, mapStatus, counts, chain_states,
                 t, state, temp_population, returned_from, calls>>

Finish ==
  /\ pc = "finish"
  /\ simulations' = simulations + 1
  /\ Leave
  /\ UNCHANGED <<inputs, seeds, mapStatus, histories, counts, output, map,
                 chain_states, calls>>

-----------------------------------------------------------------------------

SetterCall == \E f \in DOMAIN settings : \E v \in Arguments(f) : SetInput(f, v)

SeedCall ==
  \/ \E m \in SeedSizes : SeedPopulation(m)
  \/ \E c \in SeedChains, f \in Fitness : SeedChain(c, f)
  \/ ClearSeed

InitializeChains ==
  \/ InitializeUserDefined
  \/ MaximizeFails
  \/ \E f \in Fitness : MaximizeSucceeds(f) \/ MvnDraw(f) \/ RandomDraw(f)
  \/ MvnFails
  \/ StartRandomize
  \/ DrawThrows

Initialisation == InitializeChains \/ InitializeCustomSettings \/ CustomSettingsThrow

Host == SetterCall \/ AssignField \/ SeedCall \/ Sample

Driver == Initialisation \/ Record \/ Finish

Proposal == LikelihoodThrows \/ \E f \in Fitness : ChainIteration(f)

Next == Host \/ Driver \/ Proposal

Spec == Init /\ [][Next]_vars

\* A host that honours the documented precondition of UserDefined: it calls
\* sample() with it only when every chain has a seed or a recorded state.
HonoursUserDefined ==
  pc = "idle" /\ pc' = "initialize" /\ initialize = "UserDefined"
    => \A c \in ChainIds : Materialised(c).len > 0

SeededNext == (Host /\ HonoursUserDefined) \/ Driver \/ Proposal

\* With such a host; the thread inside sample() keeps running.
SeededSpec == Init /\ [][SeededNext]_vars /\ WF_vars(Driver \/ Proposal)

-----------------------------------------------------------------------------
(* Properties.                                                             *)

Pcs == {"idle", "initialize", "mvn", "draw", "custom", "chain", "record",
        "finish", "undefined"}

\* Every variable keeps its type, and the per-chain outputs keep one entry per
\* chain through every change of number_of_chains.
TypeOK ==
  /\ settings \in Settings
  /\ output_length \in OutputLengths
  /\ resume_simulation \in BOOLEAN
  /\ initialize \in InitTypes \cup {"Randomize"}
  /\ seeded_population \in SeedSizes \cup {0}
  /\ seeded_chains \in Seq(History)
  /\ simulations \in Nat
  /\ map_initialization_failed \in BOOLEAN
  /\ map_successful \in BOOLEAN
  /\ population_matrix \in Nat
  /\ markov_chains \in [ChainIds -> History]
  /\ output \in [ChainIds -> OutputList]
  /\ accept_count \in [ChainIds -> Nat]
  /\ sample_count \in [ChainIds -> Nat]
  /\ mean_log_likelihood \in Seq(Nat)
  /\ map \in Fitness
  /\ chain_states \in Seq(Fitness)
  /\ pc \in Pcs
  /\ i \in Nat /\ j \in Nat /\ t \in Nat
  /\ state \in Fitness
  /\ temp_population \in Seq(Fitness)
  /\ output_count \in Nat
  /\ returned_from \in {"none", "user", "mvn", "random"}
  /\ calls \in Nat

\* The vectors are as long as the loops of sample() take them to be: a resumed
\* call finds one state per chain although chain_states is never reset, and the
\* mean needs at most one entry appended (mcmc_sampler.hpp:318-357).
WithinVectors ==
  /\ simulations >= 1 \/ pc \in {"custom", "chain", "record", "finish"}
       => Len(chain_states) = number_of_chains
  /\ pc \in {"chain", "record"} => j \in ChainIds
  /\ pc = "record" /\ i <= iterations => Len(mean_log_likelihood) >= i - 1

\* A host that honours the precondition of UserDefined never has sample() index a
\* vector out of its range, nor take back() of an empty chain (line 457), whatever
\* setters, seeds, failed, resumed and restarted calls came before.
IndexSafe == pc # "undefined" /\ WithinVectors

\* The output budget is handed out to the chains in turn: a chain never holds
\* more than one state more than any other, and never fewer than a later one
\* (the ragged tail that diagnostics must cut to a common length).
OutputBalanced ==
  \A a, b \in ChainIds :
    a < b => output[a].len - output[b].len \in {0, 1}

\* A call that reaches its end has output exactly output_length states, also
\* when the chains do not divide it (mcmc_sampler.hpp:336-339, 433-436).
OutputComplete ==
  pc = "finish" => SumFunction([c \in ChainIds |-> output[c].len]) = output_length

\* Without user-defined seeds the recorded chains have equal lengths whenever a
\* chain_iteration may read them, also after calls that threw.
Lockstep ==
  \A a, b \in ChainIds :
    /\ pc # "record" => markov_chains[a].len = markov_chains[b].len
    /\ a < b => markov_chains[a].len - markov_chains[b].len \in {0, 1}

\* While a call iterates and when it ends, map() is at least as good as every
\* state of the output (mcmc_sampler.hpp:340-352).
MapDominatesOutput ==
  pc \in {"chain", "record", "finish"} =>
    \A c \in ChainIds : output[c].best <= map

\* The states in the recorded chains.
Recorded == SumFunction([c \in ChainIds |-> markov_chains[c].len])

\* The counts a caller reads agree with the histories, over all resumed, restarted
\* and failed calls: no more proposals accepted than made, thinning_interval of them
\* made for every recorded or output state, iterations() states recorded in every
\* chain for each simulation that completed, and each recorded state added exactly
\* once into the mean log-likelihood.
WorkAccounted ==
  /\ \A c \in ChainIds :
       /\ accept_count[c] <= sample_count[c]
       /\ thinning_interval * (markov_chains[c].len + output[c].len) <= sample_count[c]
       /\ markov_chains[c].len >= simulations * iterations
  /\ SumFunction(mean_log_likelihood) = Recorded

\* After random initialisation chain c starts at the c-th best draw, no worse
\* draw displaces a better one (mcmc_sampler.hpp:554-562).
ChainsStartFromBest ==
  pc = "custom" /\ returned_from = "random" =>
    \A c \in ChainIds :
      Cardinality({k \in DOMAIN temp_population : temp_population[k] > chain_states[c]}) < c

\* Every sample() comes back, by returning or by an exception.
SampleReturns == pc # "idle" ~> pc = "idle"

=============================================================================
