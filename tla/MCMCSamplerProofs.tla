------------------------- MODULE MCMCSamplerProofs -------------------------
(***************************************************************************)
(* Theorems about MCMCSampler and the samplers that extend it, ARWMH and   *)
(* DEMCzs, for every value of their constants.                             *)
(*                                                                         *)
(* TypeOK and WithinVectors are not inductive alone: that the draws        *)
(* suffice for the chains and that the mean grows one entry at a time rest *)
(* on the settings having been validated and on what each program counter  *)
(* knows of the loop counters.  FrameOK states that.  Of a host that keeps *)
(* to the precondition of UserDefined, SeedsReady adds that the chains are *)
(* there to start from.  The later parts add what                          *)
(* their properties need: LoopOK for the position in the loop, StartOK for *)
(* the ranking of the first draws, OutputOK for the output lists, WorkInv  *)
(* for the proposals made and kept so far, CovarianceOK and EvolutionInv   *)
(* for the two samplers.                                                   *)
(*                                                                         *)
(* The sums over the chains are recursive functions: what is proved of     *)
(* them goes by the least cardinality at which it would fail.              *)
(***************************************************************************)
EXTENDS ARWMH, DEMCzs, SequenceTheorems, FiniteSetTheorems, WellFoundedInduction, TLAPS

Running == {"initialize", "mvn", "draw", "custom", "chain", "record", "finish"}

FrameOK ==
  /\ pc \in Running => SettingsValid
  /\ i >= 1 /\ t >= 1
  /\ pc \in {"idle", "initialize", "mvn", "custom"} => i = 1
  /\ pc \in {"idle", "initialize"} => temp_population = <<>>
  /\ pc = "mvn" => Len(temp_population) < initial_iterations
  /\ pc = "draw" => i <= initial_iterations /\ Len(temp_population) >= i - 1
  /\ pc = "chain" /\ i <= iterations => Len(mean_log_likelihood) >= i - 1

IndInv == TypeOK /\ WithinVectors /\ FrameOK

-----------------------------------------------------------------------------
(* Facts about the data. *)

LEMMA VectorIsSeq ==
  ASSUME NEW S, NEW n \in Nat, NEW f \in [1..n -> S]
  PROVE  f \in Seq(S) /\ Len(f) = n /\ DOMAIN f = 1..n
<1>1. f \in Seq(S)
  BY SeqDef
<1>2. DOMAIN f = 1..n
  OBVIOUS
<1>3. Len(f) = n
  BY <1>1, <1>2, LenProperties
<1> QED BY <1>1, <1>2, <1>3

LEMMA ArgumentsTyped ==
  ASSUME NEW x \in Settings, NEW f \in DOMAIN x, NEW v \in Arguments(f)
  PROVE  [x EXCEPT ![f] = v] \in Settings
BY DEF Settings, Arguments

LEMMA SettingsTyped ==
  ASSUME settings \in Settings
  PROVE  /\ number_of_chains \in Nat /\ iterations \in Nat
         /\ initial_iterations \in Nat /\ thinning_interval \in Nat
BY InputsAssumption DEF Settings, number_of_chains, iterations,
   initial_iterations, thinning_interval

LEMMA NegInfTyped == NegInf \in Fitness
BY LimitsAssumption DEF NegInf, Fitness

LEMMA AppendTyped ==
  ASSUME NEW S, NEW s \in Seq(S), NEW e \in S
  PROVE  /\ Append(s, e) \in Seq(S)
         /\ Len(Append(s, e)) = Len(s) + 1
OBVIOUS

FrameTyped ==
  /\ pc \in Pcs
  /\ i \in Nat /\ j \in Nat /\ t \in Nat
  /\ state \in Fitness /\ output_count \in Nat
  /\ temp_population \in Seq(Fitness)
  /\ returned_from \in {"none", "user", "mvn", "random"}

LEMMA EnterLoopTyped ==
  ASSUME EnterLoop
  PROVE  FrameTyped' /\ output' \in [ChainIds -> OutputList]
<1>1. EmptyOutput \in OutputList
  BY NegInfTyped DEF EmptyOutput, OutputList
<1>2. <<>> \in Seq(Fitness)
  OBVIOUS
<1> QED BY <1>1, <1>2, NegInfTyped DEF EnterLoop, NoLoop, FrameTyped, Pcs

LEMMA LeaveTyped ==
  ASSUME Leave
  PROVE  FrameTyped'
<1>1. <<>> \in Seq(Fitness)
  OBVIOUS
<1> QED BY <1>1, NegInfTyped DEF Leave, NoLoop, FrameTyped, Pcs

-----------------------------------------------------------------------------

LEMMA InitInd == Init => IndInv
<1> SUFFICES ASSUME Init PROVE IndInv
  OBVIOUS
<1> USE DEF Init
<1>1. TypeOK
  <2>1. /\ markov_chains \in [ChainIds -> History]
        /\ output \in [ChainIds -> OutputList]
    BY NegInfTyped DEF Empty, EmptyOutput, History, OutputList
  <2>2. \A S : <<>> \in Seq(S)
    OBVIOUS
  <2>3. map \in Fitness /\ state \in Fitness
    BY NegInfTyped
  <2>4. settings \in Settings /\ output_length \in OutputLengths
    OBVIOUS
  <2> QED BY <2>1, <2>2, <2>3, <2>4, Zenon DEF TypeOK, Pcs
<1>2. WithinVectors
  BY DEF WithinVectors
<1>3. FrameOK
  BY DEF FrameOK, Running
<1> QED BY <1>1, <1>2, <1>3 DEF IndInv

LEMMA SetInputInd ==
  ASSUME IndInv, NEW f \in DOMAIN settings, NEW v \in Arguments(f), SetInput(f, v)
  PROVE  IndInv'
<1> USE DEF IndInv
<1>1. settings' \in Settings
  BY ArgumentsTyped DEF TypeOK, SetInput
<1>2. TypeOK'
  <2>1. /\ markov_chains' \in [ChainIds' -> History]
        /\ output' \in [ChainIds' -> OutputList]
        /\ accept_count' \in [ChainIds' -> Nat]
        /\ sample_count' \in [ChainIds' -> Nat]
    BY NegInfTyped DEF SetInput, Reset, ResetOutputs, Empty, EmptyOutput, History, OutputList,
       ChainIds, number_of_chains
  <2>2. mean_log_likelihood' \in Seq(Nat) /\ map' \in Fitness
    BY NegInfTyped DEF SetInput, Reset, ResetOutputs
  <2>3. /\ simulations' \in Nat /\ population_matrix' \in Nat /\ calls' \in Nat
        /\ map_initialization_failed' \in BOOLEAN
    BY DEF SetInput, Reset, ResetOutputs
  <2> QED BY <1>1, <2>1, <2>2, <2>3, Zenon
          DEF TypeOK, SetInput, fields, seeds, frame, loop
<1>3. WithinVectors'
  BY DEF TypeOK, WithinVectors, SetInput, Reset, ResetOutputs, frame, loop
<1>4. FrameOK'
  BY DEF TypeOK, FrameOK, Running, SetInput, frame, loop
<1> QED BY <1>2, <1>3, <1>4

LEMMA AssignFieldInd ==
  ASSUME IndInv, AssignField
  PROVE  IndInv'
<1> USE DEF IndInv, AssignField, results, mapStatus, histories, counts, seeds, frame, loop
<1>1. TypeOK'
  BY DEF TypeOK, ChainIds, number_of_chains
<1>2. WithinVectors'
  BY DEF WithinVectors, ChainIds, number_of_chains, iterations
<1>3. FrameOK'
  BY DEF TypeOK, FrameOK, Running
<1> QED BY <1>1, <1>2, <1>3

LEMMA SeedCallInd ==
  ASSUME IndInv, SeedCall
  PROVE  IndInv'
<1> USE DEF IndInv, inputs, fields, results, mapStatus, histories, counts, frame, loop
<1>1. /\ seeded_population' \in SeedSizes \cup {0}
      /\ seeded_chains' \in Seq(History)
  <2>1. CASE \E m \in SeedSizes : SeedPopulation(m)
    BY <2>1 DEF SeedPopulation, TypeOK
  <2>2. ASSUME NEW c \in SeedChains, NEW f \in Fitness, SeedChain(c, f)
        PROVE  seeded_population' \in SeedSizes \cup {0} /\ seeded_chains' \in Seq(History)
    <3> DEFINE n == IF c > Len(seeded_chains) THEN c ELSE Len(seeded_chains)
    <3>1. n \in Nat
      BY InputsAssumption DEF TypeOK
    <3>2. \A k \in 1..n : SeedOf(k) \in History
      <4>1. Empty \in History
        BY NegInfTyped DEF Empty, History
      <4>2. \A k \in DOMAIN seeded_chains : seeded_chains[k] \in History
        BY LenProperties DEF TypeOK
      <4> QED BY <4>1, <4>2 DEF SeedOf
    <3>3. \A h \in History : Push(h, f) \in History
      BY DEF Push, History
    <3>4. seeded_chains' \in [1..n -> History]
      BY <2>2, <3>2, <3>3 DEF SeedChain
    <3>5. seeded_chains' \in Seq(History)
      BY <3>1, <3>4, VectorIsSeq
    <3> QED BY <2>2, <3>5 DEF SeedChain, TypeOK
  <2>3. CASE ClearSeed
    BY <2>3 DEF ClearSeed, TypeOK
  <2> QED BY <2>1, <2>2, <2>3 DEF SeedCall
<1>2. UNCHANGED <<inputs, results, chain_states, frame, calls>>
  BY DEF SeedCall, SeedPopulation, SeedChain, ClearSeed
<1>3. TypeOK'
  BY <1>1, <1>2 DEF TypeOK, ChainIds, number_of_chains
<1>4. WithinVectors' /\ FrameOK'
  BY <1>2 DEF WithinVectors, FrameOK, Running, SettingsValid, ChainIds, number_of_chains,
     iterations, initial_iterations, thinning_interval
<1> QED BY <1>3, <1>4

LEMMA SampleInd ==
  ASSUME IndInv, Sample
  PROVE  IndInv'
<1>1. /\ UNCHANGED <<inputs, seeds, simulations, mapStatus, histories, counts, map, chain_states>>
      /\ SettingsValid /\ calls' = calls + 1 /\ pc = "idle"
      /\ \/ /\ pc' = "initialize"
            /\ UNCHANGED <<output, loop, temp_population, returned_from>>
         \/ simulations >= 1 /\ EnterLoop
  BY DEF Sample, IndInv, TypeOK
<1>2. /\ number_of_chains \in Nat \ {0} /\ iterations \in Nat
      /\ settings' = settings /\ ChainIds' = ChainIds
  BY <1>1, SettingsTyped, LimitsAssumption
     DEF SettingsValid, IndInv, TypeOK, inputs, ChainIds, number_of_chains
<1>3. SettingsValid'
  BY <1>1 DEF inputs, fields, SettingsValid, number_of_chains, iterations,
     initial_iterations, thinning_interval
<1>4. FrameTyped' /\ output' \in [ChainIds -> OutputList]
  <2>1. CASE EnterLoop
    BY <2>1, EnterLoopTyped
  <2>2. CASE pc' = "initialize" /\ UNCHANGED <<output, loop, temp_population, returned_from>>
    BY <2>2 DEF loop, FrameTyped, IndInv, TypeOK, Pcs
  <2> QED BY <1>1, <2>1, <2>2
<1>5. TypeOK'
  <2>1. calls' \in Nat
    BY <1>1 DEF IndInv, TypeOK
  <2> QED BY <1>1, <1>2, <1>4, <2>1, Zenon
          DEF IndInv, TypeOK, FrameTyped, inputs, fields, seeds, mapStatus, histories, counts
<1>6. WithinVectors'
  BY <1>1, <1>2 DEF EnterLoop, NoLoop, WithinVectors, IndInv, TypeOK, ChainIds,
     number_of_chains, iterations, histories
<1>7. FrameOK'
  <2>1. Len(mean_log_likelihood) \in Nat
    BY LenProperties DEF IndInv, TypeOK
  <2> QED BY <1>1, <1>2, <1>3, <2>1
          DEF EnterLoop, NoLoop, FrameOK, Running, IndInv, TypeOK, loop, histories
<1> QED BY <1>5, <1>6, <1>7 DEF IndInv

\* A step that keeps the inputs keeps the settings valid and the chains named.
LEMMA SameSettings ==
  ASSUME IndInv, settings' = settings, output_length' = output_length
  PROVE  /\ number_of_chains' = number_of_chains /\ ChainIds' = ChainIds
         /\ iterations' = iterations /\ initial_iterations' = initial_iterations
         /\ thinning_interval' = thinning_interval
         /\ total_iterations' = total_iterations
         /\ SettingsValid' = SettingsValid
BY DEF ChainIds, number_of_chains, iterations, initial_iterations, thinning_interval,
   SettingsValid, total_iterations, output_iterations

LEMMA ValidSettings ==
  ASSUME IndInv, SettingsValid
  PROVE  /\ number_of_chains \in Nat \ {0} /\ iterations \in Nat \ {0}
         /\ initial_iterations \in Nat /\ initial_iterations >= number_of_chains
         /\ thinning_interval \in Nat \ {0}
BY SettingsTyped, LimitsAssumption DEF SettingsValid, IndInv, TypeOK

LEMMA DrawTyped ==
  ASSUME IndInv, NEW f \in Fitness, Draw(f)
  PROVE  /\ population_matrix' \in Nat
         /\ temp_population' \in Seq(Fitness)
         /\ Len(temp_population') = Len(temp_population) + 1
         /\ \A k \in 1..Len(temp_population') : temp_population'[k] \in Fitness
<1>1. /\ temp_population' \in Seq(Fitness)
      /\ Len(temp_population') = Len(temp_population) + 1
  BY AppendTyped DEF Draw, IndInv, TypeOK
<1>2. \A k \in 1..Len(temp_population') : temp_population'[k] \in Fitness
  BY <1>1, ElementOfSeq
<1>3. population_matrix' \in Nat
  BY DEF Draw, IndInv, TypeOK
<1> QED BY <1>1, <1>2, <1>3

LEMMA MaximizeInd ==
  ASSUME IndInv,
         MaximizeFails \/ StartRandomize \/ \E f \in Fitness : MaximizeSucceeds(f)
  PROVE  IndInv'
<1>1. /\ UNCHANGED <<inputs, seeds, simulations, map_initialization_failed, histories,
                      counts, output, chain_states, loop, temp_population,
                      returned_from, calls>>
      /\ pc = "initialize" /\ pc' \in {"draw", "mvn"}
      /\ map_successful' \in BOOLEAN /\ map' \in Fitness
  BY DEF MaximizeFails, StartRandomize, MaximizeSucceeds, results, mapStatus, IndInv, TypeOK
<1>2. /\ number_of_chains' = number_of_chains /\ ChainIds' = ChainIds
      /\ iterations' = iterations /\ initial_iterations' = initial_iterations
      /\ SettingsValid' = SettingsValid
  BY <1>1, SameSettings DEF inputs, fields
<1>3. TypeOK'
  <2>1. pc' \in Pcs
    BY <1>1 DEF Pcs
  <2> QED BY <1>1, <1>2, <2>1, Zenon
          DEF IndInv, TypeOK, inputs, fields, seeds, histories, counts, loop
<1>4. WithinVectors'
  BY <1>1, <1>2 DEF IndInv, WithinVectors, loop
<1>5. FrameOK'
  <2>1. initial_iterations >= 1 /\ initial_iterations \in Nat /\ Len(temp_population) = 0
    BY <1>1, ValidSettings DEF IndInv, FrameOK, Running
  <2> QED BY <1>1, <1>2, <2>1 DEF IndInv, FrameOK, Running, loop
<1> QED BY <1>3, <1>4, <1>5 DEF IndInv

LEMMA MvnFailsInd ==
  ASSUME IndInv, MvnFails
  PROVE  IndInv'
<1>1. /\ UNCHANGED <<settings, output_length, resume_simulation, seeds, simulations,
                      map_successful, histories, counts, output, map, chain_states,
                      loop, temp_population, returned_from, calls>>
      /\ pc = "mvn" /\ pc' = "draw" /\ initialize' = "Randomize"
      /\ map_initialization_failed' = TRUE
  BY DEF MvnFails
<1>2. /\ number_of_chains' = number_of_chains /\ ChainIds' = ChainIds
      /\ iterations' = iterations /\ initial_iterations' = initial_iterations
      /\ SettingsValid' = SettingsValid
  BY <1>1, SameSettings
<1>3. TypeOK'
  <2>1. pc' \in Pcs
    BY <1>1 DEF Pcs
  <2> QED BY <1>1, <1>2, <2>1, Zenon
          DEF IndInv, TypeOK, seeds, histories, counts, loop
<1>4. WithinVectors'
  BY <1>1, <1>2 DEF IndInv, WithinVectors, loop
<1>5. FrameOK'
  <2>1. initial_iterations >= 1 /\ initial_iterations \in Nat /\ Len(temp_population) \in Nat
    BY <1>1, ValidSettings, LenProperties DEF IndInv, TypeOK, FrameOK, Running
  <2> QED BY <1>1, <1>2, <2>1 DEF IndInv, FrameOK, Running, loop
<1> QED BY <1>3, <1>4, <1>5 DEF IndInv

LEMMA MvnDrawInd ==
  ASSUME IndInv, NEW f \in Fitness, MvnDraw(f)
  PROVE  IndInv'
<1>1. /\ UNCHANGED <<inputs, seeds, simulations, mapStatus, markov_chains,
                      mean_log_likelihood, counts, output, map, calls, loop>>
      /\ pc = "mvn" /\ pc' \in {"mvn", "custom"}
      /\ returned_from' \in {returned_from, "mvn"}
  BY DEF MvnDraw, InitialsFrom
<1>2. /\ number_of_chains' = number_of_chains /\ ChainIds' = ChainIds
      /\ iterations' = iterations /\ initial_iterations' = initial_iterations
      /\ SettingsValid' = SettingsValid /\ SettingsValid
  BY <1>1, SameSettings DEF inputs, fields, IndInv, FrameOK, Running
<1>3. /\ number_of_chains \in Nat \ {0} /\ initial_iterations \in Nat
      /\ initial_iterations >= number_of_chains
  BY <1>2, ValidSettings
<1>4. /\ population_matrix' \in Nat /\ temp_population' \in Seq(Fitness)
      /\ Len(temp_population') = Len(temp_population) + 1
      /\ \A k \in 1..Len(temp_population') : temp_population'[k] \in Fitness
  BY DrawTyped DEF MvnDraw
<1>5. /\ chain_states' \in Seq(Fitness)
      /\ pc' = "custom" => Len(chain_states') = number_of_chains
      /\ pc' = "mvn" => /\ chain_states' = chain_states
                        /\ Len(temp_population') # initial_iterations
  <2>1. CASE Len(temp_population') = initial_iterations
    <3>1. chain_states' \in [1..number_of_chains -> Fitness] /\ pc' = "custom"
      BY <1>3, <1>4, <2>1 DEF MvnDraw, InitialsFrom, ChainIds
    <3> QED BY <1>3, <3>1, VectorIsSeq
  <2>2. CASE Len(temp_population') # initial_iterations
    BY <1>1, <2>2 DEF MvnDraw, IndInv, TypeOK
  <2> QED BY <2>1, <2>2
<1>6. TypeOK'
  <2>1. pc' \in Pcs /\ returned_from' \in {"none", "user", "mvn", "random"}
    BY <1>1 DEF Pcs, IndInv, TypeOK
  <2> QED BY <1>1, <1>2, <1>4, <1>5, <2>1, Zenon
          DEF IndInv, TypeOK, inputs, fields, seeds, mapStatus, counts, loop
<1>7. WithinVectors'
  BY <1>1, <1>2, <1>5 DEF IndInv, WithinVectors, loop
<1>8. FrameOK'
  <2>1. Len(temp_population) \in Nat /\ Len(temp_population) < initial_iterations
    BY <1>1, LenProperties DEF IndInv, TypeOK, FrameOK
  <2> QED BY <1>1, <1>2, <1>3, <1>4, <1>5, <2>1 DEF IndInv, FrameOK, Running, loop
<1> QED BY <1>6, <1>7, <1>8 DEF IndInv

LEMMA UserDefinedInd ==
  ASSUME IndInv, InitializeUserDefined
  PROVE  IndInv'
<1>1. /\ UNCHANGED <<inputs, seeds, simulations, mapStatus, mean_log_likelihood,
                      counts, output, map, calls, loop, temp_population>>
      /\ pc = "initialize" /\ pc' \in {"custom", "undefined"}
      /\ returned_from' \in {returned_from, "user"}
  BY DEF InitializeUserDefined, InitialsFrom
<1>2. /\ number_of_chains' = number_of_chains /\ ChainIds' = ChainIds
      /\ iterations' = iterations /\ initial_iterations' = initial_iterations
      /\ SettingsValid' = SettingsValid /\ SettingsValid
  BY <1>1, SameSettings DEF inputs, fields, IndInv, FrameOK, Running
<1>3. number_of_chains \in Nat \ {0}
  BY <1>2, ValidSettings
<1>4. \A c \in ChainIds : Materialised(c) \in History
  <2>1. \A k \in DOMAIN seeded_chains : seeded_chains[k] \in History
    BY LenProperties DEF IndInv, TypeOK
  <2>2. \A c \in ChainIds : SeedOf(c).len > 0 => SeedOf(c) \in History
    BY <2>1 DEF SeedOf, Empty
  <2> QED BY <2>2 DEF Materialised, IndInv, TypeOK
<1>5. markov_chains' \in [ChainIds -> History] /\ population_matrix' \in Nat
  BY <1>4, InputsAssumption DEF InitializeUserDefined, IndInv, TypeOK
<1>6. /\ chain_states' \in Seq(Fitness)
      /\ \/ pc' = "custom" /\ Len(chain_states') = number_of_chains
         \/ pc' = "undefined" /\ chain_states' = chain_states
  <2>1. CASE \A c \in ChainIds : Materialised(c).len > 0
    <3>1. chain_states' \in [1..number_of_chains -> Fitness] /\ pc' = "custom"
      BY <1>4, <2>1 DEF InitializeUserDefined, InitialsFrom, ChainIds, History
    <3> QED BY <1>3, <3>1, VectorIsSeq
  <2>2. CASE ~(\A c \in ChainIds : Materialised(c).len > 0)
    BY <2>2 DEF InitializeUserDefined, IndInv, TypeOK
  <2> QED BY <2>1, <2>2
<1>7. TypeOK'
  <2>1. pc' \in Pcs /\ returned_from' \in {"none", "user", "mvn", "random"}
    BY <1>1 DEF Pcs, IndInv, TypeOK
  <2> QED BY <1>1, <1>2, <1>5, <1>6, <2>1, Zenon
          DEF IndInv, TypeOK, inputs, fields, seeds, mapStatus, counts, loop
<1>8. WithinVectors'
  BY <1>1, <1>2, <1>6 DEF IndInv, WithinVectors, loop
<1>9. FrameOK'
  BY <1>1, <1>2 DEF IndInv, FrameOK, Running, loop
<1> QED BY <1>7, <1>8, <1>9 DEF IndInv

LEMMA RandomDrawInd ==
  ASSUME IndInv, NEW f \in Fitness, RandomDraw(f)
  PROVE  IndInv'
<1>1. /\ UNCHANGED <<inputs, seeds, simulations, mapStatus, markov_chains,
                      mean_log_likelihood, counts, output, map, j, t, state,
                      output_count, calls>>
      /\ pc = "draw"
      /\ returned_from' \in {returned_from, "random"}
      /\ \/ i = initial_iterations /\ pc' = "custom" /\ i' = 1
         \/ /\ i # initial_iterations /\ pc' = "draw" /\ i' = i + 1
            /\ chain_states' = chain_states
  BY DEF RandomDraw
<1>2. /\ number_of_chains' = number_of_chains /\ ChainIds' = ChainIds
      /\ iterations' = iterations /\ initial_iterations' = initial_iterations
      /\ SettingsValid' = SettingsValid /\ SettingsValid
  BY <1>1, SameSettings DEF inputs, fields, IndInv, FrameOK, Running
<1>3. /\ number_of_chains \in Nat \ {0} /\ initial_iterations \in Nat
      /\ initial_iterations >= number_of_chains
  BY <1>2, ValidSettings
<1>4. /\ population_matrix' \in Nat /\ temp_population' \in Seq(Fitness)
      /\ Len(temp_population') = Len(temp_population) + 1
      /\ \A k \in 1..Len(temp_population') : temp_population'[k] \in Fitness
  BY DrawTyped DEF RandomDraw
<1>5. /\ Len(temp_population) \in Nat /\ Len(temp_population) >= i - 1
      /\ i \in Nat \ {0} /\ i <= initial_iterations
      /\ DOMAIN temp_population' = 1..Len(temp_population')
  BY <1>1, <1>4, LenProperties DEF IndInv, TypeOK, FrameOK
<1>6. /\ chain_states' \in Seq(Fitness)
      /\ pc' = "custom" => Len(chain_states') = number_of_chains
  <2>1. CASE i = initial_iterations
    <3>1. ChainIds \subseteq DOMAIN temp_population'
      BY <1>3, <1>4, <1>5, <2>1 DEF ChainIds
    <3>2. CASE initial_iterations = 1 /\ number_of_chains = 1
      <4>1. chain_states' = <<temp_population'[1]>> /\ temp_population'[1] \in Fitness
        BY <1>4, <1>5, <2>1, <3>1, <3>2 DEF RandomDraw, ChainIds
      <4> QED BY <3>2, <4>1
    <3>3. CASE ~(initial_iterations = 1 /\ number_of_chains = 1)
      <4>1. PICK p \in Rankings(temp_population') :
              chain_states' = [c \in ChainIds |-> temp_population'[p[c]]]
        BY <2>1, <3>3 DEF RandomDraw
      <4>2. p \in [DOMAIN temp_population' -> DOMAIN temp_population']
        BY DEF Rankings
      <4>3. chain_states' \in [1..number_of_chains -> Fitness]
        BY <1>4, <1>5, <3>1, <4>1, <4>2 DEF ChainIds
      <4> QED BY <1>3, <4>3, VectorIsSeq
    <3> QED BY <3>2, <3>3
  <2>2. CASE i # initial_iterations
    BY <1>1, <2>2 DEF IndInv, TypeOK
  <2> QED BY <2>1, <2>2
<1>7. TypeOK'
  <2>1. /\ pc' \in Pcs /\ returned_from' \in {"none", "user", "mvn", "random"}
        /\ i' \in Nat
    BY <1>1, <1>5 DEF Pcs, IndInv, TypeOK
  <2> QED BY <1>1, <1>2, <1>4, <1>6, <2>1, Zenon
          DEF IndInv, TypeOK, inputs, fields, seeds, mapStatus, counts
<1>8. WithinVectors'
  BY <1>1, <1>2, <1>6 DEF IndInv, WithinVectors
<1>9. FrameOK'
  BY <1>1, <1>2, <1>3, <1>4, <1>5 DEF IndInv, FrameOK, Running
<1> QED BY <1>7, <1>8, <1>9 DEF IndInv

\* sample() ends, by returning or by an exception.
LEMMA LeaveInd ==
  ASSUME IndInv, Leave,
         UNCHANGED <<inputs, seeds, mapStatus, histories, accept_count, output, map,
                     chain_states, calls>>,
         sample_count' \in [ChainIds -> Nat], simulations' \in Nat,
         simulations' = simulations \/ pc = "finish"
  PROVE  IndInv'
<1>1. /\ number_of_chains' = number_of_chains /\ ChainIds' = ChainIds
  BY SameSettings DEF inputs, fields
<1>2. TypeOK'
  <2>1. FrameTyped'
    BY LeaveTyped
  <2> QED BY <1>1, <2>1, Zenon
          DEF IndInv, TypeOK, FrameTyped, inputs, fields, seeds, mapStatus, histories
<1>3. WithinVectors'
  BY <1>1 DEF Leave, NoLoop, IndInv, WithinVectors, TypeOK
<1>4. FrameOK'
  BY DEF Leave, NoLoop, FrameOK, Running
<1> QED BY <1>2, <1>3, <1>4 DEF IndInv

LEMMA ThrowInd ==
  ASSUME IndInv, DrawThrows \/ CustomSettingsThrow
  PROVE  IndInv'
<1>1. Leave /\ UNCHANGED <<inputs, seeds, results, chain_states, calls>>
  BY DEF DrawThrows, CustomSettingsThrow
<1>2. sample_count \in [ChainIds -> Nat] /\ simulations \in Nat
  BY DEF IndInv, TypeOK
<1> QED BY <1>1, <1>2, LeaveInd DEF results, counts

LEMMA LikelihoodThrowsInd ==
  ASSUME IndInv, LikelihoodThrows
  PROVE  IndInv'
<1>1. j \in ChainIds /\ sample_count \in [ChainIds -> Nat] /\ simulations \in Nat
  BY DEF LikelihoodThrows, IndInv, TypeOK, WithinVectors
<1>2. sample_count' \in [ChainIds -> Nat]
  BY <1>1 DEF LikelihoodThrows, CountProposal
<1> QED BY <1>1, <1>2, LeaveInd DEF LikelihoodThrows

LEMMA FinishInd ==
  ASSUME IndInv, Finish
  PROVE  IndInv'
<1>1. sample_count \in [ChainIds -> Nat] /\ simulations' \in Nat
  BY DEF Finish, IndInv, TypeOK
<1> QED BY <1>1, LeaveInd DEF Finish, counts

LEMMA CustomSettingsInd ==
  ASSUME IndInv, InitializeCustomSettings
  PROVE  IndInv'
<1>1. /\ EnterLoop /\ pc = "custom"
      /\ UNCHANGED <<inputs, seeds, simulations, mapStatus, histories, counts, map,
                      chain_states, calls>>
  BY DEF InitializeCustomSettings
<1>2. /\ number_of_chains' = number_of_chains /\ ChainIds' = ChainIds
      /\ iterations' = iterations
      /\ SettingsValid' = SettingsValid /\ SettingsValid
  BY <1>1, SameSettings DEF inputs, fields, IndInv, FrameOK, Running
<1>3. number_of_chains \in Nat \ {0} /\ iterations \in Nat
  BY <1>2, ValidSettings
<1>4. TypeOK'
  <2>1. FrameTyped' /\ output' \in [ChainIds -> OutputList]
    BY <1>1, EnterLoopTyped
  <2> QED BY <1>1, <1>2, <2>1, Zenon
          DEF IndInv, TypeOK, FrameTyped, inputs, fields, seeds, mapStatus, histories, counts
<1>5. WithinVectors'
  <2>1. Len(mean_log_likelihood) \in Nat
    BY LenProperties DEF IndInv, TypeOK
  <2> QED BY <1>1, <1>2, <1>3, <2>1
          DEF EnterLoop, NoLoop, IndInv, WithinVectors, histories, ChainIds
<1>6. FrameOK'
  <2>1. Len(mean_log_likelihood) \in Nat
    BY LenProperties DEF IndInv, TypeOK
  <2> QED BY <1>1, <1>2, <2>1 DEF EnterLoop, NoLoop, FrameOK, Running, histories
<1> QED BY <1>4, <1>5, <1>6 DEF IndInv

LEMMA ChainIterationInd ==
  ASSUME IndInv, NEW new \in Fitness, ChainIteration(new)
  PROVE  IndInv'
<1>1. /\ UNCHANGED <<inputs, seeds, simulations, mapStatus, histories, output, map, calls>>
      /\ pc = "chain" /\ CountProposal /\ AdvanceChain(new)
      /\ \/ accept_count' = accept_count
         \/ accept_count' = [accept_count EXCEPT ![j] = @ + 1]
  BY DEF ChainIteration, ProposalKept, ProposalAccepted
<1>2. /\ number_of_chains' = number_of_chains /\ ChainIds' = ChainIds
      /\ iterations' = iterations /\ initial_iterations' = initial_iterations
      /\ SettingsValid' = SettingsValid /\ SettingsValid
  BY <1>1, SameSettings DEF inputs, fields, IndInv, FrameOK, Running
<1>3. /\ number_of_chains \in Nat \ {0}
      /\ j \in ChainIds /\ j \in Nat /\ i \in Nat /\ t \in Nat /\ t >= 1
      /\ Len(chain_states) = number_of_chains /\ chain_states \in Seq(Fitness)
  BY <1>1, <1>2, ValidSettings DEF IndInv, WithinVectors, FrameOK, TypeOK
<1>4. accept_count' \in [ChainIds -> Nat] /\ sample_count' \in [ChainIds -> Nat]
  BY <1>1, <1>3 DEF CountProposal, IndInv, TypeOK
<1>5. /\ i' = i /\ output_count' = output_count /\ temp_population' = temp_population
      /\ returned_from' = returned_from
      /\ t' \in Nat /\ t' >= 1 /\ j' \in ChainIds /\ state' \in Fitness
      /\ pc' \in {"chain", "record"}
  BY <1>1, <1>3, NegInfTyped DEF AdvanceChain, ChainIds
<1>6. chain_states' \in Seq(Fitness) /\ Len(chain_states') = Len(chain_states)
  BY <1>1, <1>3, ExceptSeq DEF AdvanceChain, ChainIds
<1>7. TypeOK'
  <2>1. pc' \in Pcs /\ j' \in Nat /\ i' \in Nat
    BY <1>1, <1>3, <1>5 DEF Pcs, ChainIds
  <2> QED BY <1>1, <1>2, <1>4, <1>5, <1>6, <2>1, Zenon
          DEF IndInv, TypeOK, inputs, fields, seeds, mapStatus, histories
<1>8. WithinVectors'
  <2>1. Len(mean_log_likelihood) \in Nat
    BY LenProperties DEF IndInv, TypeOK
  <2> QED BY <1>1, <1>2, <1>3, <1>5, <1>6, <2>1
          DEF IndInv, WithinVectors, FrameOK, histories
<1>9. FrameOK'
  BY <1>1, <1>2, <1>3, <1>5 DEF IndInv, FrameOK, Running, histories
<1> QED BY <1>7, <1>8, <1>9 DEF IndInv

LEMMA RecordInd ==
  ASSUME IndInv, Record
  PROVE  IndInv'
<1>1. /\ UNCHANGED <<inputs, seeds, simulations, mapStatus, counts, chain_states,
                      t, state, temp_population, returned_from, calls>>
      /\ pc = "record" /\ NextRecord
      /\ RecordChain \/ RecordOutput \/ OutputFull
  BY DEF Record
<1>2. /\ number_of_chains' = number_of_chains /\ ChainIds' = ChainIds
      /\ iterations' = iterations /\ initial_iterations' = initial_iterations
      /\ SettingsValid' = SettingsValid /\ SettingsValid
  BY <1>1, SameSettings DEF inputs, fields, IndInv, FrameOK, Running
<1>3. /\ number_of_chains \in Nat \ {0} /\ iterations \in Nat
      /\ j \in ChainIds /\ j \in Nat /\ i \in Nat /\ i >= 1 /\ t >= 1
      /\ Len(chain_states) = number_of_chains /\ chain_states \in Seq(Fitness)
      /\ Len(mean_log_likelihood) \in Nat
      /\ i <= iterations => Len(mean_log_likelihood) >= i - 1
  BY <1>1, <1>2, ValidSettings, LenProperties DEF IndInv, WithinVectors, FrameOK, TypeOK
<1>4. chain_states[j] \in Fitness
  BY <1>3, ElementOfSeq DEF ChainIds
<1>5. /\ markov_chains' \in [ChainIds -> History]
      /\ output' \in [ChainIds -> OutputList]
      /\ map' \in Fitness /\ output_count' \in Nat
      /\ mean_log_likelihood' \in Seq(Nat)
      /\ i <= iterations => Len(mean_log_likelihood') >= i
  <2>1. CASE RecordChain
    <3>1. markov_chains' \in [ChainIds -> History]
      BY <2>1, <1>3, <1>4 DEF RecordChain, Push, History, IndInv, TypeOK
    <3>2. /\ mean_log_likelihood' \in Seq(Nat)
          /\ Len(mean_log_likelihood') >= i
      <4>1. mean_log_likelihood \in Seq(Nat)
        BY DEF IndInv, TypeOK
      <4>2. CASE Len(mean_log_likelihood) < i
        BY <2>1, <1>3, <4>1, <4>2, AppendTyped DEF RecordChain, AddToMean
      <4>3. CASE ~(Len(mean_log_likelihood) < i)
        <5>1. i \in 1..Len(mean_log_likelihood)
          BY <1>3, <4>3
        <5>2. mean_log_likelihood[i] + 1 \in Nat
          BY <4>1, <5>1, ElementOfSeq
        <5> QED BY <2>1, <4>1, <4>3, <5>1, <5>2, ExceptSeq DEF RecordChain, AddToMean
      <4> QED BY <4>2, <4>3
    <3> QED BY <2>1, <3>1, <3>2 DEF RecordChain, IndInv, TypeOK
  <2>2. CASE RecordOutput
    <3>1. output' \in [ChainIds -> OutputList]
      BY <2>2, <1>3, <1>4 DEF RecordOutput, PushBest, OutputList, IndInv, TypeOK
    <3> QED BY <2>2, <1>3, <1>4, <3>1 DEF RecordOutput, IndInv, TypeOK
  <2>3. CASE OutputFull
    BY <2>3, <1>3 DEF OutputFull, IndInv, TypeOK
  <2> QED BY <1>1, <2>1, <2>2, <2>3
<1>6. population_matrix' \in Nat
  BY DEF Record, IndInv, TypeOK
<1>7. /\ i' \in {i, i + 1} /\ j' \in ChainIds
      /\ pc' \in {"record", "chain", "finish"}
      /\ pc' = "record" => i' = i
  BY <1>1, <1>3 DEF NextRecord, ChainIds
<1>8. TypeOK'
  <2>1. pc' \in Pcs /\ j' \in Nat /\ i' \in Nat
    BY <1>3, <1>7 DEF Pcs, ChainIds
  <2> QED BY <1>1, <1>2, <1>5, <1>6, <2>1, Zenon
          DEF IndInv, TypeOK, inputs, fields, seeds, mapStatus, counts
<1>9. WithinVectors'
  <2>1. Len(mean_log_likelihood') \in Nat
    BY <1>5, LenProperties
  <2> QED BY <1>1, <1>2, <1>3, <1>5, <1>7, <2>1 DEF WithinVectors
<1>10. FrameOK'
  <2>1. Len(mean_log_likelihood') \in Nat
    BY <1>5, LenProperties
  <2>2. pc' = "chain" /\ i' <= iterations => Len(mean_log_likelihood') >= i' - 1
    BY <1>3, <1>5, <1>7, <2>1
  <2> QED BY <1>1, <1>2, <1>3, <1>7, <2>2 DEF FrameOK, Running
<1> QED BY <1>8, <1>9, <1>10 DEF IndInv

LEMMA StutterInd ==
  ASSUME IndInv, UNCHANGED vars
  PROVE  IndInv'
<1>1. /\ UNCHANGED <<inputs, seeds, results, chain_states, frame, calls>>
      /\ number_of_chains' = number_of_chains /\ ChainIds' = ChainIds
      /\ iterations' = iterations /\ initial_iterations' = initial_iterations
      /\ SettingsValid' = SettingsValid
  BY SameSettings DEF vars, inputs, fields
<1> QED BY <1>1 DEF IndInv, TypeOK, WithinVectors, FrameOK, inputs, fields, seeds, results,
        mapStatus, histories, counts, frame, loop

LEMMA NextInd ==
  ASSUME IndInv, [Next]_vars
  PROVE  IndInv'
<1>1. CASE Host
  BY <1>1, SetInputInd, AssignFieldInd, SeedCallInd, SampleInd DEF Host, SetterCall
<1>2. CASE Driver
  <2>1. CASE Initialisation
    BY <2>1, UserDefinedInd, MaximizeInd, MvnDrawInd, RandomDrawInd, MvnFailsInd,
       ThrowInd, CustomSettingsInd
       DEF Initialisation, InitializeChains
  <2> QED BY <1>2, <2>1, RecordInd, FinishInd DEF Driver
<1>3. CASE Proposal
  BY <1>3, ChainIterationInd, LikelihoodThrowsInd DEF Proposal
<1>4. CASE UNCHANGED vars
  BY <1>4, StutterInd
<1> QED BY <1>1, <1>2, <1>3, <1>4 DEF Next

-----------------------------------------------------------------------------

\* The vectors of the sampler keep their types and one entry per chain, however
\* setters, seeds, failing and resumed sample() calls are interleaved.
THEOREM Typed == Spec => []TypeOK
<1>1. Spec => []IndInv
  BY InitInd, NextInd, PTL DEF Spec
<1> QED BY <1>1, PTL DEF IndInv

\* The vectors stay as long as the loops of sample() take them to be, whatever the
\* host does (mcmc_sampler.hpp:318-357).
THEOREM Within == Spec => []WithinVectors
<1>1. Spec => []IndInv
  BY InitInd, NextInd, PTL DEF Spec
<1> QED BY <1>1, PTL DEF IndInv

\* A call to be started from the chains finds a state in each of them.
SeedsReady ==
  pc = "initialize" /\ initialize = "UserDefined"
    => \A c \in ChainIds : Materialised(c).len > 0

LEMMA SampleReady ==
  ASSUME Sample, HonoursUserDefined
  PROVE  pc' # "undefined" /\ SeedsReady'
<1>1. /\ pc = "idle" /\ pc' \in {"initialize", "chain"}
      /\ UNCHANGED <<initialize, settings, seeded_chains, markov_chains>>
  BY DEF Sample, EnterLoop, inputs, fields, seeds, histories
<1>2. CASE pc' = "initialize" /\ initialize = "UserDefined"
  <2>1. \A c \in ChainIds : Materialised(c).len > 0
    BY <1>1, <1>2 DEF HonoursUserDefined
  <2> QED BY <1>1, <1>2, <2>1 DEF SeedsReady, Materialised, SeedOf, ChainIds, number_of_chains
<1>3. CASE ~(pc' = "initialize" /\ initialize = "UserDefined")
  BY <1>1, <1>3 DEF SeedsReady
<1> QED BY <1>2, <1>3

LEMMA SeededStep ==
  ASSUME [SeededNext]_vars, pc # "undefined", SeedsReady
  PROVE  pc' # "undefined" /\ SeedsReady'
<1>1. CASE Sample /\ HonoursUserDefined
  BY <1>1, SampleReady
<1>2. CASE SetterCall \/ AssignField \/ SeedCall
  BY <1>2 DEF SetterCall, SetInput, AssignField, SeedCall, SeedPopulation, SeedChain,
              ClearSeed, frame, SeedsReady
<1>3. CASE InitializeUserDefined
  BY <1>3 DEF InitializeUserDefined, InitialsFrom, SeedsReady
<1>4. CASE Driver \/ Proposal
  <2>1. pc' \in {"idle", "mvn", "draw", "custom", "chain", "record", "finish"}
        \/ InitializeUserDefined
    BY <1>4 DEF Driver, Proposal, Initialisation, InitializeChains, MaximizeFails,
         MaximizeSucceeds, MvnDraw, RandomDraw, MvnFails, StartRandomize, DrawThrows,
         InitializeCustomSettings, CustomSettingsThrow, Record, NextRecord, Finish, Leave,
         EnterLoop, InitialsFrom, LikelihoodThrows, ChainIteration, ProposalKept,
         ProposalAccepted, AdvanceChain
  <2> QED BY <2>1, <1>3 DEF SeedsReady
<1>5. CASE UNCHANGED vars
  BY <1>5 DEF vars, frame, inputs, fields, seeds, results, histories, SeedsReady,
              Materialised, SeedOf, ChainIds, number_of_chains
<1> QED BY <1>1, <1>2, <1>4, <1>5 DEF SeededNext, Host

\* With a host that keeps to the precondition of UserDefined no step of sample()
\* indexes a vector out of its range or takes back() of an empty chain
\* (mcmc_sampler.hpp:318-357, 457), for every number of chains and of resumed,
\* restarted and failed calls.
THEOREM Indexed == SeededSpec => []IndexSafe
<1> DEFINE Inv == IndInv /\ pc # "undefined" /\ SeedsReady
<1>1. Init => Inv
  BY InitInd DEF Init, SeedsReady
<1>2. Inv /\ [SeededNext]_vars => Inv'
  <2> SUFFICES ASSUME Inv, [SeededNext]_vars PROVE Inv'
    OBVIOUS
  <2>1. [Next]_vars
    BY DEF SeededNext, Next
  <2> QED BY <2>1, NextInd, SeededStep
<1>3. Inv => IndexSafe
  BY DEF IndInv, IndexSafe
<1> QED BY <1>1, <1>2, <1>3, PTL DEF SeededSpec

-----------------------------------------------------------------------------
(* What a step does to the output lists, and when it is inside the loop.   *)

InLoop == pc \in {"chain", "record", "finish"}

KeepsOutput == UNCHANGED <<settings, output_length, output, map>>

LEMMA StepCases ==
  ASSUME IndInv, [Next]_vars
  PROVE  \/ \E f \in DOMAIN settings : \E v \in Arguments(f) : SetInput(f, v)
         \/ /\ EnterLoop /\ pc \in {"idle", "custom"}
            /\ UNCHANGED <<settings, output_length, map, markov_chains>>
         \/ Record
         \/ /\ KeepsOutput /\ UNCHANGED markov_chains
            /\ pc = "chain" /\ pc' \in {"chain", "record"} /\ i' = i
            /\ pc' = "record" => j' = 1
            /\ output_count' = output_count
         \/ UNCHANGED <<settings, output, markov_chains>> /\ ~InLoop' /\ pc # "record"
         \/ UNCHANGED <<settings, output>> /\ InitializeUserDefined
         \/ KeepsOutput /\ UNCHANGED <<pc, i, j, output_count, markov_chains>>
<1> USE DEF inputs, fields, results, mapStatus, histories, frame, loop
<1>1. CASE SetterCall
  BY <1>1 DEF SetterCall
<1>2. CASE AssignField \/ SeedCall
  BY <1>2 DEF AssignField, SeedCall, SeedPopulation, SeedChain, ClearSeed, InLoop
<1>3. CASE Sample
  BY <1>3 DEF Sample, InLoop
<1>4. CASE InitializeUserDefined
  BY <1>4 DEF InitializeUserDefined
<1>5. CASE MaximizeFails \/ MvnFails \/ StartRandomize
  BY <1>5 DEF MaximizeFails, MvnFails, StartRandomize, InLoop
<1>6. ASSUME NEW f \in Fitness, MaximizeSucceeds(f) \/ MvnDraw(f) \/ RandomDraw(f)
      PROVE  UNCHANGED <<settings, output, markov_chains>> /\ ~InLoop' /\ pc # "record"
  BY <1>6 DEF MaximizeSucceeds, MvnDraw, RandomDraw, InitialsFrom, InLoop
<1>7. CASE DrawThrows \/ CustomSettingsThrow
  BY <1>7 DEF DrawThrows, CustomSettingsThrow, Leave, InLoop
<1>8. CASE InitializeCustomSettings
  BY <1>8 DEF InitializeCustomSettings
<1>9. CASE LikelihoodThrows \/ Finish
  BY <1>9 DEF LikelihoodThrows, Finish, Leave, InLoop
<1>10. ASSUME NEW f \in Fitness, ChainIteration(f)
       PROVE  /\ KeepsOutput /\ UNCHANGED markov_chains
              /\ pc = "chain" /\ pc' \in {"chain", "record"} /\ i' = i
              /\ pc' = "record" => j' = 1
              /\ output_count' = output_count
  BY <1>10 DEF ChainIteration, ProposalKept, ProposalAccepted, AdvanceChain, KeepsOutput
<1>11. CASE UNCHANGED vars
  BY <1>11 DEF vars, KeepsOutput
<1> QED BY <1>1, <1>2, <1>3, <1>4, <1>5, <1>6, <1>7, <1>8, <1>9, <1>10, <1>11
        DEF Next, Host, Driver, Initialisation, InitializeChains, Proposal

LEMMA MapStep ==
  ASSUME IndInv, IndInv', MapDominatesOutput, [Next]_vars
  PROVE  MapDominatesOutput'
<1> SUFFICES ASSUME InLoop', NEW c \in ChainIds'
             PROVE  output'[c].best <= map'
  BY DEF MapDominatesOutput, InLoop
<1>1. ASSUME NEW f \in DOMAIN settings, NEW v \in Arguments(f), SetInput(f, v)
      PROVE  FALSE
  BY <1>1 DEF SetInput, frame, InLoop
<1>2. CASE EnterLoop /\ UNCHANGED <<settings, output_length, map, markov_chains>>
  <2>1. output'[c] = EmptyOutput
    BY <1>2 DEF EnterLoop, ChainIds, number_of_chains
  <2> QED BY <2>1 DEF EmptyOutput, IndInv, TypeOK, Fitness, NegInf
<1>3. CASE Record
  <2>1. /\ c \in ChainIds /\ j \in ChainIds /\ output[c].best <= map
        /\ output \in [ChainIds -> OutputList] /\ map \in Int /\ map' \in Int
        /\ chain_states[j] \in Int
    <3>1. SettingsValid /\ Len(chain_states) = number_of_chains /\ chain_states \in Seq(Fitness)
      BY <1>3 DEF Record, IndInv, WithinVectors, FrameOK, Running, TypeOK
    <3>2. number_of_chains \in Nat \ {0} /\ j \in ChainIds
      BY <1>3, <3>1, ValidSettings DEF Record, IndInv, WithinVectors
    <3>3. chain_states[j] \in Fitness
      BY <3>1, <3>2, ElementOfSeq DEF ChainIds
    <3> QED BY <1>3, <3>2, <3>3 DEF Record, IndInv, TypeOK, MapDominatesOutput, Fitness,
            NegInf, ChainIds, number_of_chains, inputs, fields
  <2>2. CASE RecordChain \/ OutputFull
    BY <2>1, <2>2 DEF RecordChain, OutputFull
  <2>3. CASE RecordOutput
    <3>1. map <= map' /\ chain_states[j] <= map'
      BY <2>1, <2>3 DEF RecordOutput
    <3>2. output'[c] = IF c = j THEN PushBest(output[j], chain_states[j]) ELSE output[c]
      BY <2>1, <2>3 DEF RecordOutput
    <3>3. output[c].best \in Int
      BY <2>1, LimitsAssumption DEF OutputList, Fitness, NegInf
    <3> QED BY <2>1, <3>1, <3>2, <3>3 DEF PushBest
  <2> QED BY <1>3, <2>2, <2>3 DEF Record
<1>4. CASE KeepsOutput /\ pc = "chain"
  BY <1>4 DEF KeepsOutput, MapDominatesOutput, ChainIds, number_of_chains
<1>5. CASE InitializeUserDefined
  BY <1>5 DEF InitializeUserDefined, InitialsFrom, InLoop
<1>6. CASE KeepsOutput /\ UNCHANGED pc
  BY <1>6 DEF KeepsOutput, MapDominatesOutput, ChainIds, number_of_chains, InLoop
<1> QED BY <1>1, <1>2, <1>3, <1>4, <1>5, <1>6, StepCases

\* While the output is not full, the chains already served in this round are
\* one ahead of the others, and otherwise all are equal.
ServedFirst ==
  pc \in {"chain", "record"} /\ output_count < output_length =>
    \A a, b \in ChainIds :
      a < b => output[a].len - output[b].len =
                 IF pc = "record" /\ i > iterations /\ a < j /\ b >= j THEN 1 ELSE 0

Balance == OutputBalanced /\ ServedFirst

LEMMA LoopFacts ==
  ASSUME IndInv, IndInv', Record
  PROVE  /\ UNCHANGED <<settings, output_length>> /\ ChainIds' = ChainIds
         /\ number_of_chains' = number_of_chains /\ iterations' = iterations
         /\ number_of_chains \in Nat \ {0} /\ j \in ChainIds
         /\ i \in Nat /\ iterations \in Nat
         /\ output_count \in Nat /\ output_length \in Nat
         /\ \A c \in ChainIds : output[c].len \in Nat /\ markov_chains[c].len \in Nat
<1>1. /\ UNCHANGED <<settings, output_length>> /\ SettingsValid /\ j \in ChainIds
  BY DEF Record, inputs, fields, IndInv, WithinVectors, FrameOK, Running
<1>2. ChainIds' = ChainIds /\ number_of_chains' = number_of_chains /\ iterations' = iterations
  BY <1>1, SameSettings
<1>3. number_of_chains \in Nat \ {0} /\ iterations \in Nat
  BY <1>1, ValidSettings
<1>4. \A c \in ChainIds : output[c].len \in Nat /\ markov_chains[c].len \in Nat
  BY DEF IndInv, TypeOK, OutputList, History
<1>5. i \in Nat /\ output_count \in Nat /\ output_length \in Nat
  BY InputsAssumption DEF IndInv, TypeOK
<1> QED BY <1>1, <1>2, <1>3, <1>4, <1>5

LEMMA BalanceStep ==
  ASSUME IndInv, IndInv', Balance, [Next]_vars
  PROVE  Balance'
<1>1. ASSUME NEW f \in DOMAIN settings, NEW v \in Arguments(f), SetInput(f, v)
      PROVE  Balance'
  BY <1>1 DEF SetInput, Reset, ResetOutputs, frame, Balance, OutputBalanced, ServedFirst,
     ChainIds,
     number_of_chains, EmptyOutput
<1>2. CASE EnterLoop /\ UNCHANGED <<settings, output_length, map, markov_chains>>
  BY <1>2 DEF EnterLoop, Balance, OutputBalanced, ServedFirst, ChainIds,
     number_of_chains, EmptyOutput
<1>3. CASE Record
  <2>1. /\ UNCHANGED <<settings, output_length>> /\ ChainIds' = ChainIds
        /\ number_of_chains' = number_of_chains /\ iterations' = iterations
        /\ number_of_chains \in Nat \ {0} /\ j \in ChainIds
        /\ i \in Nat /\ iterations \in Nat
        /\ output_count \in Nat /\ output_length \in Nat
        /\ \A c \in ChainIds : output[c].len \in Nat
        /\ pc = "record" /\ NextRecord
    BY <1>3, LoopFacts DEF Record
  <2>2. CASE RecordChain \/ OutputFull
    <3>1. output' = output /\ output_count' = output_count
      BY <2>2 DEF RecordChain, OutputFull
    <3>2. i <= iterations \/ ~(output_count < output_length)
      BY <2>1, <2>2 DEF RecordChain, OutputFull
    <3>3. OutputBalanced'
      BY <2>1, <3>1 DEF Balance, OutputBalanced
    <3>4. ServedFirst'
      BY <2>1, <3>1, <3>2 DEF Balance, ServedFirst, NextRecord, ChainIds
    <3> QED BY <3>3, <3>4 DEF Balance
  <2>3. CASE RecordOutput
    <3>1. /\ i > iterations /\ output_count < output_length
          /\ output_count' = output_count + 1
          /\ \A c \in ChainIds : output'[c].len = output[c].len + IF c = j THEN 1 ELSE 0
      <4>1. i > iterations /\ output_count < output_length /\ output_count' = output_count + 1
        BY <2>3 DEF RecordOutput
      <4>2. ASSUME NEW c \in ChainIds
            PROVE  output'[c].len = output[c].len + IF c = j THEN 1 ELSE 0
        <5>1. output' = [output EXCEPT ![j] = PushBest(output[j], chain_states[j])]
          BY <2>3 DEF RecordOutput
        <5>2. PushBest(output[j], chain_states[j]).len = output[j].len + 1
          BY DEF PushBest
        <5>3. output \in [ChainIds -> OutputList]
          BY DEF IndInv, TypeOK
        <5> QED BY <2>1, <5>1, <5>2, <5>3
      <4> QED BY <4>1, <4>2
    <3>2. \A a, b \in ChainIds :
            a < b => output[a].len - output[b].len = IF a < j /\ b >= j THEN 1 ELSE 0
      BY <2>1, <3>1 DEF Balance, ServedFirst
    <3>3. ASSUME NEW a \in ChainIds, NEW b \in ChainIds, a < b
          PROVE  /\ output'[a].len - output'[b].len = IF a <= j /\ b > j THEN 1 ELSE 0
                 /\ b <= number_of_chains
      BY <2>1, <3>1, <3>2, <3>3 DEF ChainIds
    <3>4. OutputBalanced'
      BY <2>1, <3>3 DEF OutputBalanced
    <3>5. ServedFirst'
      <4>1. CASE j < number_of_chains
        BY <2>1, <3>1, <3>3, <4>1 DEF ServedFirst, NextRecord, ChainIds
      <4>2. CASE ~(j < number_of_chains)
        BY <2>1, <3>1, <3>3, <4>2 DEF ServedFirst, NextRecord, ChainIds
      <4> QED BY <4>1, <4>2
    <3> QED BY <3>4, <3>5 DEF Balance
  <2> QED BY <1>3, <2>2, <2>3 DEF Record
<1>4. CASE /\ KeepsOutput /\ pc = "chain" /\ pc' \in {"chain", "record"} /\ i' = i
           /\ pc' = "record" => j' = 1
           /\ output_count' = output_count
  BY <1>4 DEF KeepsOutput, Balance, OutputBalanced, ServedFirst, ChainIds,
     number_of_chains, iterations, IndInv, TypeOK
<1>5. CASE UNCHANGED <<settings, output>> /\ ~InLoop'
  BY <1>5 DEF InLoop, Balance, OutputBalanced, ServedFirst, ChainIds, number_of_chains
<1>6. CASE UNCHANGED <<settings, output>> /\ InitializeUserDefined
  BY <1>6 DEF InitializeUserDefined, InitialsFrom, Balance, OutputBalanced, ServedFirst,
     ChainIds, number_of_chains
<1>7. CASE KeepsOutput /\ UNCHANGED <<pc, i, j, output_count>>
  BY <1>7 DEF KeepsOutput, Balance, OutputBalanced, ServedFirst, ChainIds,
     number_of_chains, iterations
<1> QED BY <1>1, <1>2, <1>3, <1>4, <1>5, <1>6, <1>7, StepCases

\* While a chain is recorded, the chains before it are one state ahead.
RecordedFirst ==
  \A a, b \in ChainIds :
    a < b => markov_chains[a].len - markov_chains[b].len =
               IF pc = "record" /\ i <= iterations /\ a < j /\ b >= j THEN 1 ELSE 0

NoSeeds == seeded_chains = <<>>

LEMMA NoSeedsStep ==
  ASSUME SeedChains = {}, NoSeeds, [Next]_vars
  PROVE  NoSeeds'
<1> USE DEF NoSeeds, seeds
<1>1. CASE Host
  BY <1>1 DEF Host, SetterCall, SetInput, AssignField, SeedCall, SeedPopulation,
     ClearSeed, Sample
<1>2. CASE Driver \/ Proposal
  BY <1>2 DEF Driver, Initialisation, InitializeChains, InitializeUserDefined, MaximizeFails,
     MaximizeSucceeds, MvnDraw, RandomDraw, MvnFails, StartRandomize, DrawThrows,
     InitializeCustomSettings, CustomSettingsThrow, Record, Finish, Proposal,
     LikelihoodThrows, ChainIteration
<1>3. CASE UNCHANGED vars
  BY <1>3 DEF vars
<1> QED BY <1>1, <1>2, <1>3 DEF Next

LEMMA RecordedStep ==
  ASSUME IndInv, IndInv', NoSeeds, RecordedFirst, [Next]_vars
  PROVE  RecordedFirst'
<1>1. ASSUME NEW f \in DOMAIN settings, NEW v \in Arguments(f), SetInput(f, v)
      PROVE  RecordedFirst'
  BY <1>1 DEF SetInput, Reset, ResetOutputs, frame, RecordedFirst, ChainIds,
     number_of_chains, Empty
<1>2. CASE /\ EnterLoop /\ pc \in {"idle", "custom"}
           /\ UNCHANGED <<settings, output_length, map, markov_chains>>
  BY <1>2 DEF EnterLoop, RecordedFirst, ChainIds, number_of_chains
<1>3. CASE Record
  <2>1. /\ ChainIds' = ChainIds
        /\ number_of_chains' = number_of_chains /\ iterations' = iterations
        /\ number_of_chains \in Nat \ {0} /\ j \in ChainIds
        /\ i \in Nat /\ iterations \in Nat
        /\ \A c \in ChainIds : markov_chains[c].len \in Nat
        /\ pc = "record" /\ NextRecord
    BY <1>3, LoopFacts DEF Record
  <2>2. CASE RecordOutput \/ OutputFull
    <3>1. markov_chains' = markov_chains /\ ~(i <= iterations)
      BY <2>1, <2>2 DEF RecordOutput, OutputFull
    <3> QED BY <2>1, <3>1 DEF RecordedFirst, NextRecord
  <2>3. CASE RecordChain
    <3>1. i <= iterations
      BY <2>3 DEF RecordChain
    <3>2. ASSUME NEW c \in ChainIds
          PROVE  markov_chains'[c].len = markov_chains[c].len + IF c = j THEN 1 ELSE 0
      <4>1. markov_chains' = [markov_chains EXCEPT ![j] = Push(markov_chains[j], chain_states[j])]
        BY <2>3 DEF RecordChain
      <4>2. Push(markov_chains[j], chain_states[j]).len = markov_chains[j].len + 1
        BY DEF Push
      <4>3. markov_chains \in [ChainIds -> History]
        BY DEF IndInv, TypeOK
      <4> QED BY <2>1, <4>1, <4>2, <4>3
    <3>3. ASSUME NEW a \in ChainIds, NEW b \in ChainIds, a < b
          PROVE  /\ markov_chains'[a].len - markov_chains'[b].len
                       = IF a <= j /\ b > j THEN 1 ELSE 0
                 /\ b <= number_of_chains /\ a \in Nat /\ b \in Nat
      BY <2>1, <3>1, <3>2, <3>3 DEF RecordedFirst, ChainIds
    <3>4. CASE j < number_of_chains
      BY <2>1, <3>1, <3>3, <3>4 DEF RecordedFirst, NextRecord, ChainIds
    <3>5. CASE ~(j < number_of_chains)
      BY <2>1, <3>1, <3>3, <3>5 DEF RecordedFirst, NextRecord, ChainIds
    <3> QED BY <3>4, <3>5
  <2> QED BY <1>3, <2>2, <2>3 DEF Record
<1>4. CASE /\ KeepsOutput /\ UNCHANGED markov_chains
           /\ pc = "chain" /\ pc' \in {"chain", "record"} /\ i' = i
           /\ pc' = "record" => j' = 1
  BY <1>4 DEF KeepsOutput, RecordedFirst, ChainIds, number_of_chains, iterations, IndInv, TypeOK
<1>5. CASE UNCHANGED <<settings, output, markov_chains>> /\ ~InLoop' /\ pc # "record"
  BY <1>5 DEF InLoop, RecordedFirst, ChainIds, number_of_chains
<1>6. CASE UNCHANGED <<settings, output>> /\ InitializeUserDefined
  <2>1. markov_chains' = markov_chains
    BY <1>6 DEF InitializeUserDefined, Materialised, SeedOf, NoSeeds, Empty, IndInv, TypeOK
  <2>2. pc # "record" /\ pc' # "record"
    BY <1>6 DEF InitializeUserDefined, InitialsFrom
  <2> QED BY <1>6, <2>1, <2>2 DEF RecordedFirst, ChainIds, number_of_chains
<1>7. CASE KeepsOutput /\ UNCHANGED <<pc, i, j, output_count, markov_chains>>
  BY <1>7 DEF KeepsOutput, RecordedFirst, ChainIds, number_of_chains, iterations
<1> QED BY <1>1, <1>2, <1>3, <1>4, <1>5, <1>6, <1>7, StepCases

-----------------------------------------------------------------------------

\* While sample() iterates and when it ends, map() is at least as good as every
\* state of the output, for any number of chains, restarts and resumptions
\* (mcmc_sampler.hpp:336-353).
THEOREM MapDominates == Spec => []MapDominatesOutput
<1>1. Init => MapDominatesOutput
  BY DEF Init, MapDominatesOutput
<1>2. IndInv /\ IndInv' /\ MapDominatesOutput /\ [Next]_vars => MapDominatesOutput'
  BY MapStep
<1> QED BY <1>1, <1>2, InitInd, NextInd, PTL DEF Spec

\* The chains share the output budget to within one state, earlier chains
\* first, whatever output_length is and however calls end (mcmc_sampler.hpp:336-339).
THEOREM Balanced == Spec => []OutputBalanced
<1>1. Init => Balance
  BY DEF Init, Balance, OutputBalanced, ServedFirst, EmptyOutput
<1>2. IndInv /\ IndInv' /\ Balance /\ [Next]_vars => Balance'
  BY BalanceStep
<1>3. Balance => OutputBalanced
  BY DEF Balance
<1> QED BY <1>1, <1>2, <1>3, InitInd, NextInd, PTL DEF Spec

\* Without per-chain seeds every chain_iteration finds the recorded chains
\* equally long, also after calls that a throwing likelihood ended: the claim
\* demczs.hpp:50-53 rests its shared index on.
THEOREM InLockstep == ASSUME SeedChains = {} PROVE Spec => []Lockstep
<1>1. Init => RecordedFirst /\ NoSeeds
  BY DEF Init, RecordedFirst, NoSeeds, Empty
<1>2. IndInv /\ IndInv' /\ RecordedFirst /\ NoSeeds /\ [Next]_vars
        => RecordedFirst' /\ NoSeeds'
  BY RecordedStep, NoSeedsStep
<1>3. IndInv /\ RecordedFirst => Lockstep
  <2> SUFFICES ASSUME IndInv, RecordedFirst, NEW a \in ChainIds, NEW b \in ChainIds
               PROVE  /\ pc # "record" => markov_chains[a].len = markov_chains[b].len
                      /\ a < b => markov_chains[a].len - markov_chains[b].len \in {0, 1}
    BY DEF Lockstep
  <2>1. markov_chains[a].len \in Nat /\ markov_chains[b].len \in Nat
    BY DEF IndInv, TypeOK, History
  <2>2. a \in Int /\ b \in Int
    BY DEF ChainIds
  <2>3. a < b \/ a = b \/ b < a
    BY <2>2
  <2> QED BY <2>1, <2>3 DEF RecordedFirst
<1> QED BY <1>1, <1>2, <1>3, InitInd, NextInd, PTL DEF Spec

-----------------------------------------------------------------------------
(* Sums.  SumFunction is defined by a recursion over the subsets of its    *)
(* domain.  Its equations are proved by minimal counterexamples: a         *)
(* nonempty set of numbers, or of subsets of a finite set, has a least     *)
(* element.                                                                *)

LEMMA NatLeast ==
  ASSUME NEW T, T \subseteq Nat, T # {}
  PROVE  \E x \in T : \A y \in T : x <= y
<1> DEFINE R == OpToRel(<, Nat)
<1>1. IsWellFoundedOn(R, Nat)
  BY NatLessThanWellFounded
<1>2. \A x, y \in Nat : y < x => <<y, x>> \in R
  BY DEF OpToRel
<1> HIDE DEF R
<1>3. PICK x \in T : \A y \in T : ~ (<<y, x>> \in R)
  BY <1>1, WFMin
<1>4. ASSUME NEW y \in T PROVE x <= y
  <2>1. x \in Nat /\ y \in Nat /\ ~(y < x)
    BY <1>2, <1>3
  <2> QED BY <2>1
<1> QED BY <1>4

LEMMA FiniteLeast ==
  ASSUME NEW S, IsFiniteSet(S), NEW T, T \subseteq SUBSET S, T # {}
  PROVE  \E x \in T : \A y \in T : y \subseteq x => y = x
<1>1. IsWellFoundedOn(StrictSubsetOrdering(S), SUBSET S)
  BY FS_StrictSubsetOrderingWellFounded, FS_FiniteSubsetsOfFinite
<1>2. \E x \in T : \A y \in T : ~ (<<y, x>> \in StrictSubsetOrdering(S))
  BY <1>1, WFMin
<1> QED BY <1>2 DEF StrictSubsetOrdering

\* The sum over S, as the library computes it: the recursion of one step, and the
\* function on the subsets of S that it defines.
Body(f, it, s) ==
  IF s = {} THEN 0 ELSE LET x == CHOOSE x \in s : TRUE IN f[x] + it[s \ {x}]
Iter(f, S) == CHOOSE it : it = [s \in SUBSET S |-> Body(f, it, s)]

LEMMA SumIsIter == ASSUME NEW f, NEW S PROVE SumFunctionOnSet(f, S) = Iter(f, S)[S]
BY DEF SumFunctionOnSet, FoldFunctionOnSet, MapThenFoldSet, Iter, Body

\* The recursion has a solution: one that is right for all sets of n elements is
\* right for those of n + 1 after one more application.
LEMMA IterExists ==
  ASSUME NEW S, IsFiniteSet(S), NEW f
  PROVE  Iter(f, S) = [s \in SUBSET S |-> Body(f, Iter(f, S), s)]
<1> DEFINE Upto(n) == \E h : /\ h = [s \in SUBSET S |-> h[s]]
                             /\ \A s \in SUBSET S : Cardinality(s) <= n => h[s] = Body(f, h, s)
           Bad == {n \in Nat : ~Upto(n)}
<1>1. \A s \in SUBSET S : IsFiniteSet(s) /\ Cardinality(s) \in Nat /\ Cardinality(s) <= Cardinality(S)
  BY FS_Subset, FS_CardinalityType
<1>2. Upto(0)
  <2> DEFINE h == [s \in SUBSET S |-> 0]
  <2>1. \A s \in SUBSET S : Cardinality(s) <= 0 => s = {}
    BY <1>1, FS_EmptySet
  <2>2. \A s \in SUBSET S : Cardinality(s) <= 0 => h[s] = Body(f, h, s)
    BY <2>1 DEF Body
  <2> QED BY <2>2
<1>3. ASSUME NEW n \in Nat, Upto(n) PROVE Upto(n + 1)
  <2>1. PICK h : \A s \in SUBSET S : Cardinality(s) <= n => h[s] = Body(f, h, s)
    BY <1>3
  <2> DEFINE g == [s \in SUBSET S |-> Body(f, h, s)]
  <2>2. ASSUME NEW s \in SUBSET S, Cardinality(s) <= n + 1 PROVE g[s] = Body(f, g, s)
    <3>1. CASE s = {}
      BY <3>1 DEF Body
    <3>2. CASE s # {}
      <4> DEFINE x == CHOOSE x \in s : TRUE
                 r == s \ {x}
      <4>1. x \in s
        BY <3>2
      <4>2. r \in SUBSET S /\ Cardinality(r) <= n
        <5>1. IsFiniteSet(s) /\ Cardinality(s) \in Nat
          BY <1>1
        <5>2. Cardinality(r) = Cardinality(s) - 1
          BY <4>1, <5>1, FS_RemoveElement
        <5> QED BY <2>2, <5>1, <5>2
      <4>3. g[r] = h[r]
        BY <2>1, <4>2
      <4>4. Body(f, g, s) = f[x] + g[r] /\ Body(f, h, s) = f[x] + h[r]
        BY <3>2 DEF Body
      <4> QED BY <4>3, <4>4
    <3> QED BY <3>1, <3>2
  <2> QED BY <2>2
<1>4. Bad = {}
  <2> SUFFICES ASSUME Bad # {} PROVE FALSE
    OBVIOUS
  <2>1. PICK n \in Bad : \A m \in Bad : n <= m
    BY NatLeast
  <2> HIDE DEF Upto
  <2>2. n # 0 /\ n \in Nat
    BY <1>2
  <2>3. n - 1 \in Nat /\ ~(n - 1 \in Bad)
    BY <2>1, <2>2
  <2> QED BY <1>3, <2>1, <2>3
<1>5. PICK h : /\ h = [s \in SUBSET S |-> h[s]]
               /\ \A s \in SUBSET S : Cardinality(s) <= Cardinality(S) => h[s] = Body(f, h, s)
  <2>1. Cardinality(S) \in Nat
    BY <1>1
  <2>2. Upto(Cardinality(S))
    BY <1>4, <2>1
  <2> QED BY <2>2
<1>6. h = [s \in SUBSET S |-> Body(f, h, s)]
  BY <1>1, <1>5, Zenon
<1> QED BY <1>6 DEF Iter

IntegersOn(f, S) == \A x \in S : f[x] \in Int

LEMMA IterAt ==
  ASSUME NEW S, IsFiniteSet(S), NEW f, NEW s \in SUBSET S
  PROVE  /\ Iter(f, S)[s] = Body(f, Iter(f, S), s)
         /\ s = {} => Iter(f, S)[s] = 0
         /\ s # {} => \E x \in s : Iter(f, S)[s] = f[x] + Iter(f, S)[s \ {x}]
<1> DEFINE it == Iter(f, S)
<1>0. it = [u \in SUBSET S |-> Body(f, it, u)]
  BY IterExists
<1> HIDE DEF it
<1>1. it[s] = Body(f, it, s)
  BY <1>0, Zenon
<1> USE DEF it
<1>2. CASE s = {}
  BY <1>1, <1>2 DEF Body
<1>3. CASE s # {}
  BY <1>1, <1>3 DEF Body
<1> QED BY <1>1, <1>2, <1>3

\* The sum over a set does not depend on the superset it is computed in.
LEMMA IterAgree ==
  ASSUME NEW S, IsFiniteSet(S), NEW T \in SUBSET S, NEW f, NEW s \in SUBSET T
  PROVE  Iter(f, S)[s] = Iter(f, T)[s]
<1> DEFINE Bad == {u \in SUBSET T : Iter(f, S)[u] # Iter(f, T)[u]}
<1> SUFFICES ASSUME Bad # {} PROVE FALSE
  OBVIOUS
<1>1. IsFiniteSet(T) /\ Bad \subseteq SUBSET T
  BY FS_Subset
<1>2. PICK u \in Bad : \A v \in Bad : v \subseteq u => v = u
  <2> HIDE DEF Bad
  <2> QED BY <1>1, FiniteLeast
<1>3. /\ Iter(f, S)[u] = Body(f, Iter(f, S), u)
      /\ Iter(f, T)[u] = Body(f, Iter(f, T), u)
  BY <1>1, IterAt
<1>4. u # {}
  BY <1>2, <1>3 DEF Body
<1> DEFINE x == CHOOSE x \in u : TRUE
<1>5. x \in u
  BY <1>4
<1>6. u \ {x} \notin Bad /\ u \ {x} \in SUBSET T
  BY <1>2, <1>5
<1>7. Iter(f, S)[u] = Iter(f, T)[u]
  BY <1>3, <1>4, <1>6 DEF Body
<1> QED BY <1>2, <1>7

\* Any element may be taken out first.
LEMMA IterPick ==
  ASSUME NEW S, IsFiniteSet(S), NEW f, IntegersOn(f, S)
  PROVE  \A s \in SUBSET S : /\ Iter(f, S)[s] \in Int
                             /\ \A y \in s : Iter(f, S)[s] = f[y] + Iter(f, S)[s \ {y}]
<1> DEFINE it == Iter(f, S)
           Good(u) == /\ it[u] \in Int
                      /\ \A y \in u : it[u] = f[y] + it[u \ {y}]
           Bad == {u \in SUBSET S : ~Good(u)}
<1> SUFFICES ASSUME Bad # {} PROVE FALSE
  OBVIOUS
<1>0. Bad \subseteq SUBSET S
  OBVIOUS
<1>1. PICK u \in Bad : \A v \in Bad : v \subseteq u => v = u
  <2> HIDE DEF Bad
  <2> QED BY <1>0, FiniteLeast
<1> HIDE DEF it
<1>2. u # {}
  BY <1>1, IterAt DEF it
<1>3. PICK x \in u : it[u] = f[x] + it[u \ {x}]
  BY <1>1, <1>2, IterAt DEF it
<1>4. \A v \in SUBSET S : v \subseteq u /\ v # u => Good(v)
  BY <1>1
<1>5. Good(u \ {x})
  <2>1. u \ {x} \in SUBSET S /\ u \ {x} \subseteq u /\ u \ {x} # u
    BY <1>1, <1>3
  <2> HIDE DEF Good, Bad
  <2> QED BY <1>4, <2>1
<1>6. it[u] \in Int
  BY <1>1, <1>3, <1>5 DEF IntegersOn
<1>7. ASSUME NEW y \in u, y # x PROVE it[u] = f[y] + it[u \ {y}]
  <2>1. it[u \ {x}] = f[y] + it[(u \ {x}) \ {y}]
    BY <1>5, <1>7
  <2>2. Good(u \ {y})
    BY <1>1, <1>4, <1>7
  <2>3. it[u \ {y}] = f[x] + it[(u \ {y}) \ {x}]
    BY <1>3, <1>7, <2>2
  <2>4. (u \ {x}) \ {y} = (u \ {y}) \ {x}
    OBVIOUS
  <2>5. Good((u \ {x}) \ {y})
    BY <1>1, <1>4, <1>7
  <2>6. f[x] \in Int /\ f[y] \in Int
    BY <1>1, <1>3, <1>7 DEF IntegersOn
  <2> HIDE DEF Good
  <2>7. it[(u \ {x}) \ {y}] \in Int
    BY <2>5 DEF Good
  <2> DEFINE rest == it[(u \ {x}) \ {y}]
  <2>8. it[u] = f[x] + (f[y] + rest) /\ it[u \ {y}] = f[x] + rest
    BY <1>3, <2>1, <2>3, <2>4
  <2> HIDE DEF rest
  <2> QED BY <2>6, <2>7, <2>8 DEF rest
<1>8. Good(u)
  BY <1>3, <1>6, <1>7
<1> QED BY <1>1, <1>8 DEF Bad

\* The equations of a sum, and what follows from them.
LEMMA SumEmpty == ASSUME NEW f PROVE SumFunctionOnSet(f, {}) = 0
BY SumIsIter, IterAt, FS_EmptySet

LEMMA SumPick ==
  ASSUME NEW S, IsFiniteSet(S), NEW f, IntegersOn(f, S)
  PROVE  /\ SumFunctionOnSet(f, S) \in Int
         /\ \A y \in S : SumFunctionOnSet(f, S) = f[y] + SumFunctionOnSet(f, S \ {y})
<1>1. /\ Iter(f, S)[S] \in Int
      /\ \A y \in S : Iter(f, S)[S] = f[y] + Iter(f, S)[S \ {y}]
  <2>1. \A s \in SUBSET S : /\ Iter(f, S)[s] \in Int
                            /\ \A y \in s : Iter(f, S)[s] = f[y] + Iter(f, S)[s \ {y}]
    BY IterPick
  <2>2. S \in SUBSET S
    OBVIOUS
  <2> QED BY <2>1, <2>2
<1>2. \A y \in S : Iter(f, S)[S \ {y}] = Iter(f, S \ {y})[S \ {y}]
  BY IterAgree
<1> QED BY <1>1, <1>2, SumIsIter

LEMMA SumSame ==
  ASSUME NEW S, IsFiniteSet(S), NEW f, NEW g,
         IntegersOn(f, S), \A x \in S : g[x] = f[x]
  PROVE  SumFunctionOnSet(g, S) = SumFunctionOnSet(f, S)
<1> DEFINE Bad == {u \in SUBSET S : SumFunctionOnSet(g, u) # SumFunctionOnSet(f, u)}
<1> SUFFICES ASSUME Bad # {} PROVE FALSE
  OBVIOUS
<1>0. Bad \subseteq SUBSET S
  OBVIOUS
<1>1. PICK u \in Bad : \A v \in Bad : v \subseteq u => v = u
  <2> HIDE DEF Bad
  <2> QED BY <1>0, FiniteLeast
<1>2. u # {}
  BY <1>1, SumEmpty
<1>3. PICK y \in u : TRUE
  BY <1>2
<1>4. IsFiniteSet(u) /\ IntegersOn(f, u) /\ IntegersOn(g, u) /\ \A x \in u : g[x] = f[x]
  BY <1>1, FS_Subset DEF IntegersOn
<1>5. /\ SumFunctionOnSet(f, u) = f[y] + SumFunctionOnSet(f, u \ {y})
      /\ SumFunctionOnSet(g, u) = g[y] + SumFunctionOnSet(g, u \ {y})
  BY <1>4, SumPick
<1>6. u \ {y} \notin Bad /\ u \ {y} \in SUBSET S
  BY <1>1, <1>3
<1> QED BY <1>1, <1>5, <1>6

LEMMA SumZero ==
  ASSUME NEW S, IsFiniteSet(S), NEW f, \A x \in S : f[x] = 0
  PROVE  SumFunctionOnSet(f, S) = 0
<1> DEFINE Bad == {u \in SUBSET S : SumFunctionOnSet(f, u) # 0}
<1> SUFFICES ASSUME Bad # {} PROVE FALSE
  OBVIOUS
<1>1. Bad \subseteq SUBSET S
  OBVIOUS
<1>2. PICK u \in Bad : \A v \in Bad : v \subseteq u => v = u
  <2> HIDE DEF Bad
  <2> QED BY <1>1, FiniteLeast
<1>3. PICK y \in u : TRUE
  BY <1>2, SumEmpty
<1>4. IsFiniteSet(u) /\ IntegersOn(f, u)
  BY <1>2, FS_Subset DEF IntegersOn
<1>5. SumFunctionOnSet(f, u) = f[y] + SumFunctionOnSet(f, u \ {y})
  BY <1>4, SumPick
<1>6. u \ {y} \notin Bad /\ u \ {y} \in SUBSET S
  BY <1>2, <1>3
<1> QED BY <1>2, <1>3, <1>5, <1>6

LEMMA SumNat ==
  ASSUME NEW S, IsFiniteSet(S), NEW f, \A x \in S : f[x] \in Nat
  PROVE  SumFunctionOnSet(f, S) \in Nat
<1> DEFINE Bad == {u \in SUBSET S : SumFunctionOnSet(f, u) \notin Nat}
<1> SUFFICES ASSUME Bad # {} PROVE FALSE
  OBVIOUS
<1>1. Bad \subseteq SUBSET S
  OBVIOUS
<1>2. PICK u \in Bad : \A v \in Bad : v \subseteq u => v = u
  <2> HIDE DEF Bad
  <2> QED BY <1>1, FiniteLeast
<1>0. u # {}
  <2>1. SumFunctionOnSet(f, {}) \in Nat
    BY SumEmpty
  <2> QED BY <1>2, <2>1
<1>3. PICK y \in u : TRUE
  BY <1>0
<1>4. IsFiniteSet(u) /\ IntegersOn(f, u) /\ f[y] \in Nat
  BY <1>2, <1>3, FS_Subset DEF IntegersOn
<1>5. SumFunctionOnSet(f, u) = f[y] + SumFunctionOnSet(f, u \ {y})
  BY <1>4, SumPick
<1>6. u \ {y} \notin Bad /\ u \ {y} \in SUBSET S
  BY <1>2, <1>3
<1> QED BY <1>2, <1>4, <1>5, <1>6

\* A vector changed at one place changes its sum by as much.
LEMMA SumUpdate ==
  ASSUME NEW S, IsFiniteSet(S), NEW f \in [S -> Int], NEW g \in [S -> Int], NEW y \in S,
         \A x \in S : x # y => g[x] = f[x]
  PROVE  /\ SumFunction(f) \in Int
         /\ SumFunction(g) = SumFunction(f) + g[y] - f[y]
<1>1. IntegersOn(f, S) /\ IntegersOn(g, S)
  BY DEF IntegersOn
<1>2. /\ SumFunctionOnSet(f, S) \in Int
      /\ SumFunctionOnSet(f, S) = f[y] + SumFunctionOnSet(f, S \ {y})
      /\ SumFunctionOnSet(g, S) = g[y] + SumFunctionOnSet(g, S \ {y})
  BY <1>1, SumPick
<1>3. IsFiniteSet(S \ {y}) /\ IntegersOn(f, S \ {y})
  BY <1>1, FS_RemoveElement DEF IntegersOn
<1>4. /\ SumFunctionOnSet(g, S \ {y}) = SumFunctionOnSet(f, S \ {y})
      /\ SumFunctionOnSet(f, S \ {y}) \in Int
  BY <1>3, SumSame, SumPick
<1> QED BY <1>2, <1>4 DEF SumFunction

\* Appending a number to a sequence adds it to the sum.
LEMMA SumAppend ==
  ASSUME NEW s \in Seq(Int), NEW e \in Int
  PROVE  SumFunction(Append(s, e)) = SumFunction(s) + e
<1> DEFINE n == Len(s)
           r == Append(s, e)
<1>1. /\ n \in Nat /\ DOMAIN s = 1..n /\ DOMAIN r = 1..(n + 1)
      /\ r[n + 1] = e /\ \A k \in 1..n : r[k] = s[k] /\ s[k] \in Int
  BY AppendProperties, LenProperties
<1> HIDE DEF n, r
<1>2. /\ IsFiniteSet(1..(n + 1)) /\ IntegersOn(r, 1..(n + 1))
      /\ IsFiniteSet(1..n) /\ IntegersOn(s, 1..n)
      /\ n + 1 \in 1..(n + 1) /\ (1..(n + 1)) \ {n + 1} = 1..n
  <2>1. IsFiniteSet(1..(n + 1)) /\ IsFiniteSet(1..n)
    BY <1>1, FS_Interval
  <2>2. \A k \in 1..(n + 1) : k = n + 1 \/ k \in 1..n
    BY <1>1
  <2> QED BY <1>1, <2>1, <2>2 DEF IntegersOn
<1>3. SumFunctionOnSet(r, 1..(n + 1)) = r[n + 1] + SumFunctionOnSet(r, 1..n)
  <2> DEFINE D == 1..(n + 1)
  <2>1. IsFiniteSet(D) /\ IntegersOn(r, D) /\ n + 1 \in D /\ D \ {n + 1} = 1..n
    BY <1>2
  <2> HIDE DEF D
  <2>2. SumFunctionOnSet(r, D) = r[n + 1] + SumFunctionOnSet(r, D \ {n + 1})
    BY <2>1, SumPick
  <2> QED BY <2>1, <2>2 DEF D
<1>4. SumFunctionOnSet(r, 1..n) = SumFunctionOnSet(s, 1..n) /\ SumFunctionOnSet(s, 1..n) \in Int
  BY <1>1, <1>2, SumSame, SumPick
<1> QED BY <1>1, <1>3, <1>4 DEF SumFunction, r

-----------------------------------------------------------------------------
(* What the steps outside the loop leave alone.                            *)

\* What the rest of a call knows of its loop counters.
LoopOK ==
  /\ pc = "chain" => t <= thinning_interval
  /\ pc = "record" => t = 1
  /\ pc \in {"chain", "record"} => i <= total_iterations
  /\ pc = "finish" => i = total_iterations

\* The best draws start the chains; a single draw is the whole population.
StartOK ==
  /\ ChainsStartFromBest
  /\ pc = "draw" /\ initial_iterations = 1 => temp_population = <<>>

OutputLens == [c \in ChainIds |-> output[c].len]

Enters ==
  /\ EnterLoop /\ pc \in {"idle", "custom"} /\ SettingsValid
  /\ UNCHANGED <<settings, output_length, simulations, histories, counts>>

Prepares ==
  /\ ~InLoop /\ ~InLoop'
  /\ pc # "undefined" => pc' # "undefined"
  /\ UNCHANGED <<settings, simulations, markov_chains, mean_log_likelihood, counts, output>>

LEMMA HostSteps ==
  ASSUME Host
  PROVE  \/ \E f \in DOMAIN settings : \E v \in Arguments(f) : SetInput(f, v)
         \/ Enters /\ pc = "idle" /\ ~(simulations < 1)
         \/ Prepares
<1> USE DEF inputs, fields, results, mapStatus, histories, counts, frame, loop, Enters,
   Prepares, InLoop
<1>1. CASE SetterCall
  BY <1>1 DEF SetterCall
<1>2. CASE AssignField \/ SeedCall
  BY <1>2 DEF AssignField, SeedCall, SeedPopulation, SeedChain, ClearSeed
<1>3. CASE Sample
  BY <1>3 DEF Sample
<1> QED BY <1>1, <1>2, <1>3 DEF Host

LEMMA InitializeSteps ==
  ASSUME InitializeChains \/ CustomSettingsThrow
  PROVE  Prepares \/ InitializeUserDefined
<1> USE DEF inputs, fields, results, mapStatus, histories, counts, frame, loop, Prepares, InLoop
<1>1. CASE MaximizeFails \/ MvnFails \/ StartRandomize
  BY <1>1 DEF MaximizeFails, MvnFails, StartRandomize
<1>2. ASSUME NEW f \in Fitness, MaximizeSucceeds(f) \/ MvnDraw(f) \/ RandomDraw(f)
      PROVE  Prepares
  BY <1>2 DEF MaximizeSucceeds, MvnDraw, RandomDraw, InitialsFrom
<1>3. CASE DrawThrows \/ CustomSettingsThrow
  BY <1>3 DEF DrawThrows, CustomSettingsThrow, Leave
<1> QED BY <1>1, <1>2, <1>3 DEF InitializeChains

LEMMA CustomSettingsStep ==
  ASSUME IndInv, InitializeCustomSettings
  PROVE  Enters
BY DEF InitializeCustomSettings, Enters, inputs, fields, histories, counts, IndInv,
   FrameOK, Running

LEMMA Steps ==
  ASSUME IndInv, [Next]_vars
  PROVE  \/ \E f \in DOMAIN settings : \E v \in Arguments(f) : SetInput(f, v)
         \/ Enters
         \/ Prepares
         \/ InitializeUserDefined
         \/ \E f \in Fitness : ChainIteration(f)
         \/ LikelihoodThrows
         \/ Record
         \/ Finish
         \/ UNCHANGED vars
BY HostSteps, InitializeSteps, CustomSettingsStep DEF Next, Driver, Initialisation, Proposal

\* The iterations spent on output cover output_length, and there is at least one.
LEMMA OutputIterations ==
  ASSUME NEW L \in Nat \ {0}, NEW n \in Nat \ {0}
  PROVE  /\ (L + n - 1) \div n \in Nat \ {0}
         /\ n * ((L + n - 1) \div n) >= L
<1> DEFINE q == (L + n - 1) \div n
           r == (L + n - 1) % n
<1>1. q \in Int /\ r \in 0..(n - 1) /\ L + n - 1 = n * q + r
  OBVIOUS
<1> HIDE DEF q, r
<1>2. n * q >= L
  BY <1>1
<1>3. q >= 1
  <2> SUFFICES ASSUME q <= 0 PROVE FALSE
    BY <1>1
  <2>1. n * q <= 0
    BY <1>1
  <2> QED BY <1>1, <1>2, <2>1
<1> QED BY <1>1, <1>2, <1>3 DEF q

LEMMA LoopSettings ==
  ASSUME IndInv, SettingsValid
  PROVE  /\ number_of_chains \in Nat \ {0} /\ iterations \in Nat \ {0}
         /\ thinning_interval \in Nat \ {0}
         /\ output_length \in Nat \ {0}
         /\ output_iterations \in Nat \ {0}
         /\ number_of_chains * output_iterations >= output_length
         /\ total_iterations \in Nat /\ total_iterations = iterations + output_iterations
<1>1. output_length \in Nat \ {0}
  BY InputsAssumption, LimitsAssumption DEF SettingsValid, IndInv, TypeOK
<1>2. /\ number_of_chains \in Nat \ {0} /\ iterations \in Nat \ {0}
      /\ thinning_interval \in Nat \ {0}
  BY ValidSettings
<1> QED BY <1>1, <1>2, OutputIterations DEF output_iterations, total_iterations

LEMMA ValidInLoop ==
  ASSUME IndInv, InLoop
  PROVE  SettingsValid
BY DEF IndInv, FrameOK, InLoop, Running

LEMMA LoopStep ==
  ASSUME IndInv, IndInv', LoopOK, [Next]_vars
  PROVE  LoopOK'
<1> SUFFICES ASSUME InLoop' PROVE LoopOK'
  BY DEF LoopOK, InLoop
<1>0. SettingsValid => /\ thinning_interval \in Nat \ {0}
                       /\ total_iterations \in Nat \ {0}
  BY LoopSettings
<1>1. ASSUME NEW f \in DOMAIN settings, NEW v \in Arguments(f), SetInput(f, v)
      PROVE  FALSE
  BY <1>1 DEF SetInput, frame, InLoop
<1>2. CASE Enters
  <2>1. total_iterations' = total_iterations /\ thinning_interval' = thinning_interval
    BY <1>2, SameSettings DEF Enters
  <2> QED BY <1>0, <1>2, <2>1 DEF Enters, EnterLoop, NoLoop, LoopOK
<1>3. CASE Prepares \/ LikelihoodThrows \/ Finish
  BY <1>3 DEF Prepares, LikelihoodThrows, Finish, Leave, InLoop
<1>4. CASE InitializeUserDefined
  BY <1>4 DEF InitializeUserDefined, InitialsFrom, InLoop
<1>5. ASSUME NEW f \in Fitness, ChainIteration(f)
      PROVE  LoopOK'
  <2>1. pc = "chain" /\ AdvanceChain(f) /\ UNCHANGED inputs
    BY <1>5 DEF ChainIteration, ProposalKept, ProposalAccepted
  <2>2. total_iterations' = total_iterations /\ thinning_interval' = thinning_interval
    BY <2>1, SameSettings DEF inputs, fields
  <2>3. SettingsValid
    BY <2>1, ValidInLoop DEF InLoop
  <2> QED BY <2>1, <2>2, <2>3, <1>0 DEF AdvanceChain, LoopOK, IndInv, TypeOK
<1>6. CASE Record
  <2>1. total_iterations' = total_iterations /\ thinning_interval' = thinning_interval
    BY <1>6, SameSettings DEF Record, inputs, fields
  <2>2. i \in Nat /\ SettingsValid
    BY <1>6, ValidInLoop DEF Record, InLoop, IndInv, TypeOK
  <2> QED BY <1>0, <1>6, <2>1, <2>2 DEF Record, NextRecord, LoopOK
<1>7. CASE UNCHANGED vars
  BY <1>7 DEF vars, inputs, fields, frame, loop, LoopOK, total_iterations, output_iterations,
     iterations, number_of_chains, thinning_interval
<1> QED BY <1>1, <1>2, <1>3, <1>4, <1>5, <1>6, <1>7, Steps

-----------------------------------------------------------------------------
(* The chains start from the best draws.                                   *)

\* A ranking is a permutation, and only the states ranked before the c-th can
\* be better than it.
LEMMA RankedFirst ==
  ASSUME NEW s \in Seq(Fitness), NEW p \in Rankings(s), NEW c \in DOMAIN s
  PROVE  Cardinality({k \in DOMAIN s : s[k] > s[p[c]]}) < c
<1> DEFINE D == DOMAIN s
           Better == {k \in D : s[k] > s[p[c]]}
           rank == [k \in Better |-> CHOOSE a \in D : p[a] = k]
<1>1. /\ p \in [D -> D] /\ D = 1..Len(s) /\ Len(s) \in Nat
      /\ \A a \in D : s[a] \in Nat
      /\ \A a, b \in D : a < b => \/ s[p[a]] > s[p[b]]
                                  \/ s[p[a]] = s[p[b]] /\ p[a] < p[b]
  <2>1. D = 1..Len(s) /\ Len(s) \in Nat
    BY LenProperties
  <2>2. \A a \in D : s[a] \in Nat
    BY <2>1, ElementOfSeq, LimitsAssumption DEF Fitness, NegInf
  <2> QED BY <2>1, <2>2 DEF Rankings
<1>2. IsFiniteSet(D)
  BY <1>1, FS_Interval
<1> HIDE DEF D
<1>3. p \in Injection(D, D)
  <2>1. ASSUME NEW a \in D, NEW b \in D, p[a] = p[b]
        PROVE  a = b
    <3>1. a \in Nat /\ b \in Nat /\ p[a] \in Nat /\ s[p[a]] \in Nat
      BY <1>1
    <3>2. ~(a < b) /\ ~(b < a)
      BY <1>1, <2>1, <3>1
    <3> QED BY <3>1, <3>2
  <2> QED BY <1>1, <2>1 DEF Injection, IsInjective
<1>4. \A k \in D : \E a \in D : p[a] = k
  <2>1. p \in Surjection(D, D)
    BY <1>2, <1>3, FS_Injection
  <2> QED BY <2>1 DEF Surjection
<1>5. \A k \in Better : rank[k] \in D /\ p[rank[k]] = k
  BY <1>4
<1>6. ASSUME NEW k \in Better PROVE rank[k] \in 1..(c - 1)
  <2> DEFINE a == rank[k]
  <2>1. a \in D /\ p[a] = k /\ s[k] > s[p[c]]
    BY <1>5
  <2> HIDE DEF a
  <2>2. /\ a \in Nat /\ c \in Nat /\ a >= 1 /\ s[p[a]] \in Nat /\ s[p[c]] \in Nat
        /\ c < a => s[p[c]] >= s[p[a]]
    BY <1>1, <2>1 DEF D
  <2>3. a # c /\ ~(c < a)
    BY <2>1, <2>2
  <2>4. a \in 1..(c - 1)
    BY <2>2, <2>3
  <2> QED BY <2>4 DEF a
<1>7. rank \in Injection(Better, 1..(c - 1))
  <2> DEFINE T == 1..(c - 1)
  <2>1. rank \in [Better -> T]
    BY <1>6
  <2> HIDE DEF T
  <2>2. \A a, b \in Better : rank[a] = rank[b] => a = b
    BY <1>5
  <2>3. DOMAIN rank = Better
    OBVIOUS
  <2> HIDE DEF Better, rank
  <2>4. rank \in Injection(Better, T)
    BY <2>1, <2>2, <2>3 DEF Injection, IsInjective
  <2> QED BY <2>4 DEF T
<1>8. /\ IsFiniteSet(1..(c - 1)) /\ Cardinality(1..(c - 1)) = c - 1
      /\ c \in Nat /\ c >= 1
  <2>1. c \in Nat /\ c >= 1 /\ c - 1 \in Int
    BY <1>1 DEF D
  <2> QED BY <2>1, FS_Interval
<1> HIDE DEF Better, rank
<1>9. IsFiniteSet(Better) /\ Cardinality(Better) <= c - 1
  BY <1>7, <1>8, FS_Injection
<1>10. Cardinality(Better) \in Nat
  BY <1>9, FS_CardinalityType
<1> QED BY <1>8, <1>9, <1>10 DEF Better, D

LEMMA StartStep ==
  ASSUME IndInv, IndInv', StartOK, [Next]_vars
  PROVE  StartOK'
<1>1. ASSUME NEW f \in Fitness, RandomDraw(f)
      PROVE  StartOK'
  <2>1. /\ pc = "draw" /\ Draw(f) /\ UNCHANGED inputs
        /\ pc' \in {"draw", "custom"}
        /\ pc' = "draw" => i # initial_iterations
    BY <1>1 DEF RandomDraw
  <2>2. /\ ChainIds' = ChainIds /\ initial_iterations' = initial_iterations
        /\ number_of_chains \in Nat \ {0} /\ initial_iterations \in Nat
        /\ initial_iterations >= number_of_chains
        /\ i \in Nat /\ i >= 1 /\ i <= initial_iterations
        /\ Len(temp_population) \in Nat /\ Len(temp_population) >= i - 1
    BY <2>1, SameSettings, ValidSettings, LenProperties
       DEF inputs, fields, IndInv, TypeOK, FrameOK, Running
  <2>3. /\ temp_population' \in Seq(Fitness)
        /\ Len(temp_population') = Len(temp_population) + 1
        /\ DOMAIN temp_population' = 1..Len(temp_population')
    BY <2>1, DrawTyped, LenProperties
  <2>4. CASE i # initial_iterations
    BY <2>1, <2>2, <2>4, <1>1 DEF StartOK, ChainsStartFromBest, RandomDraw
  <2>5. CASE i = initial_iterations
    <3>1. pc' = "custom" /\ ChainIds \subseteq DOMAIN temp_population'
      BY <1>1, <2>2, <2>3, <2>5 DEF RandomDraw, ChainIds
    <3> SUFFICES ASSUME NEW c \in ChainIds
                 PROVE  Cardinality({k \in DOMAIN temp_population' :
                                       temp_population'[k] > chain_states'[c]}) < c
      BY <2>2, <3>1 DEF StartOK, ChainsStartFromBest
    <3>2. CASE initial_iterations = 1 /\ number_of_chains = 1
      <4>1. Len(temp_population') = 1 /\ c = 1 /\ chain_states'[1] = temp_population'[1]
        BY <1>1, <2>1, <2>2, <2>3, <2>5, <3>2 DEF StartOK, RandomDraw, ChainIds
      <4>2. temp_population'[1] \in Nat
        BY <2>3, <4>1, ElementOfSeq, LimitsAssumption DEF Fitness, NegInf
      <4>3. {k \in DOMAIN temp_population' : temp_population'[k] > chain_states'[c]} = {}
        <5>1. \A k \in DOMAIN temp_population' : k = 1
          BY <2>3, <4>1
        <5>2. ~(temp_population'[1] > chain_states'[c])
          BY <4>1, <4>2
        <5> QED BY <5>1, <5>2
      <4> QED BY <4>1, <4>3, FS_EmptySet
    <3>3. CASE ~(initial_iterations = 1 /\ number_of_chains = 1)
      <4>1. PICK p \in Rankings(temp_population') :
              chain_states' = [k \in ChainIds |-> temp_population'[p[k]]]
        BY <1>1, <2>5, <3>3 DEF RandomDraw
      <4>2. chain_states'[c] = temp_population'[p[c]] /\ c \in DOMAIN temp_population'
        BY <3>1, <4>1
      <4> QED BY <2>3, <4>2, RankedFirst
    <3> QED BY <3>2, <3>3
  <2> QED BY <2>4, <2>5
<1>2. CASE MaximizeFails \/ StartRandomize
  BY <1>2 DEF MaximizeFails, StartRandomize, StartOK, ChainsStartFromBest, IndInv, FrameOK
<1>3. CASE MvnFails
  <2>1. /\ pc = "mvn" /\ pc' = "draw" /\ temp_population' = temp_population
        /\ initial_iterations' = initial_iterations
    BY <1>3, SameSettings DEF MvnFails
  <2>2. initial_iterations = 1 => temp_population = <<>>
    BY <2>1, LenProperties, EmptySeq DEF IndInv, TypeOK, FrameOK
  <2> QED BY <2>1, <2>2 DEF StartOK, ChainsStartFromBest
<1>4. ASSUME NEW f \in Fitness, MvnDraw(f)
      PROVE  StartOK'
  BY <1>4 DEF MvnDraw, InitialsFrom, StartOK, ChainsStartFromBest
<1>5. CASE InitializeUserDefined
  BY <1>5 DEF InitializeUserDefined, InitialsFrom, StartOK, ChainsStartFromBest
<1>6. CASE UNCHANGED vars
  BY <1>6 DEF vars, inputs, frame, StartOK, ChainsStartFromBest, ChainIds, number_of_chains,
     initial_iterations
<1>7. CASE pc' \notin {"draw", "custom"}
  BY <1>7 DEF StartOK, ChainsStartFromBest
<1>8. CASE Host \/ (\E f \in Fitness : MaximizeSucceeds(f)) \/ DrawThrows
           \/ InitializeCustomSettings \/ CustomSettingsThrow \/ Record \/ Finish \/ Proposal
  <2>1. pc' \notin {"draw", "custom"}
    BY <1>8 DEF Host, SetterCall, SetInput, AssignField, SeedCall, SeedPopulation, SeedChain,
       ClearSeed, Sample, MaximizeSucceeds, DrawThrows, InitializeCustomSettings,
       CustomSettingsThrow, Record, NextRecord, Finish, Proposal, LikelihoodThrows, ChainIteration,
       ProposalKept, ProposalAccepted, AdvanceChain, EnterLoop, Leave, frame
  <2> QED BY <1>7, <2>1
<1> QED BY <1>1, <1>2, <1>3, <1>4, <1>5, <1>6, <1>8
        DEF Next, Driver, Initialisation, InitializeChains

\* After a random initialisation, chain c starts from a state that fewer than c of
\* the draws are better than, for every number of chains and draws
\* (mcmc_sampler.hpp:554-562).
THEOREM BestDrawsStart == Spec => []ChainsStartFromBest
<1>1. Init => StartOK
  BY DEF Init, StartOK, ChainsStartFromBest
<1>2. IndInv /\ IndInv' /\ StartOK /\ [Next]_vars => StartOK'
  BY StartStep
<1>3. StartOK => ChainsStartFromBest
  BY DEF StartOK
<1> QED BY <1>1, <1>2, <1>3, InitInd, NextInd, PTL DEF Spec

-----------------------------------------------------------------------------
(* A call that ends has output exactly output_length states.               *)


\* The output that the rounds made so far have brought.
Served == IF i <= iterations THEN 0
          ELSE number_of_chains * (i - 1 - iterations) + (IF pc = "record" THEN j - 1 ELSE 0)

OutputOK ==
  InLoop => /\ SumFunction(OutputLens) = output_count
            /\ output_count <= output_length
            /\ output_count = output_length \/ output_count >= Served
            /\ pc = "finish" => output_count = output_length

LEMMA OutputStep ==
  ASSUME IndInv, IndInv', LoopOK, OutputOK, [Next]_vars
  PROVE  OutputOK'
<1> SUFFICES ASSUME InLoop' PROVE OutputOK'
  BY DEF OutputOK
<1>1. ASSUME NEW f \in DOMAIN settings, NEW v \in Arguments(f), SetInput(f, v)
      PROVE  FALSE
  BY <1>1 DEF SetInput, frame, InLoop
<1>2. CASE Prepares \/ LikelihoodThrows \/ Finish \/ InitializeUserDefined
  BY <1>2 DEF Prepares, LikelihoodThrows, Finish, Leave, InitializeUserDefined,
     InitialsFrom, InLoop
<1>3. CASE Enters
  <2>1. /\ ChainIds' = ChainIds /\ iterations' = iterations /\ output_length' = output_length
        /\ iterations \in Nat \ {0} /\ output_length \in Nat \ {0}
        /\ number_of_chains \in Nat \ {0}
    BY <1>3, SameSettings, LoopSettings DEF Enters
  <2>2. OutputLens' = [c \in ChainIds |-> 0] /\ output_count' = 0 /\ i' = 1 /\ pc' = "chain"
    BY <1>3, <2>1 DEF Enters, EnterLoop, NoLoop, OutputLens, EmptyOutput
  <2>3. SumFunction(OutputLens') = 0
    <3> DEFINE z == [c \in ChainIds |-> 0]
    <3>1. IsFiniteSet(ChainIds) /\ DOMAIN z = ChainIds /\ \A c \in ChainIds : z[c] = 0
      BY <2>1, FS_Interval DEF ChainIds
    <3> HIDE DEF z
    <3>2. SumFunction(z) = 0
      BY <3>1, SumZero DEF SumFunction
    <3> QED BY <2>2, <3>2 DEF z
  <2> QED BY <2>1, <2>2, <2>3 DEF OutputOK, Served
<1>4. ASSUME NEW f \in Fitness, ChainIteration(f)
      PROVE  OutputOK'
  <2>1. /\ pc = "chain" /\ pc' \in {"chain", "record"}
        /\ pc' = "record" => j' = 1
        /\ UNCHANGED <<inputs, output, i, output_count>>
    BY <1>4 DEF ChainIteration, ProposalKept, ProposalAccepted, AdvanceChain
  <2>2. /\ OutputLens' = OutputLens /\ number_of_chains' = number_of_chains
        /\ iterations' = iterations /\ output_length' = output_length
    BY <2>1, SameSettings DEF inputs, fields, OutputLens
  <2>3. SettingsValid
    BY <2>1, ValidInLoop DEF InLoop
  <2>4. /\ i \in Nat /\ iterations \in Nat /\ number_of_chains \in Nat
    BY <2>3, LoopSettings DEF IndInv, TypeOK
  <2>5. number_of_chains * (i - 1 - iterations) \in Int
    BY <2>4
  <2> QED BY <2>1, <2>2, <2>4, <2>5 DEF OutputOK, Served, InLoop
<1>5. CASE Record
  <2> DEFINE n == number_of_chains
             x == i - 1 - iterations
  <2>1. /\ pc = "record" /\ NextRecord /\ SettingsValid
        /\ RecordChain \/ RecordOutput \/ OutputFull
        /\ i <= total_iterations
    BY <1>5, ValidInLoop DEF Record, InLoop, LoopOK
  <2>2. /\ UNCHANGED <<settings, output_length>> /\ ChainIds' = ChainIds
        /\ number_of_chains' = n /\ iterations' = iterations
        /\ n \in Nat \ {0} /\ j \in ChainIds /\ j \in 1..n
        /\ i \in Nat /\ iterations \in Nat \ {0}
        /\ output_count \in Nat /\ output_length \in Nat
        /\ \A c \in ChainIds : output[c].len \in Nat
    BY <1>5, <2>1, LoopFacts, LoopSettings DEF ChainIds
  <2>3. /\ output_iterations \in Nat \ {0} /\ n * output_iterations >= output_length
        /\ total_iterations = iterations + output_iterations
        /\ x \in Int /\ n * x \in Int /\ n * (x + 1) = n * x + n /\ n * 0 = 0
    BY <2>1, <2>2, LoopSettings
  <2>4. /\ SumFunction(OutputLens) = output_count /\ output_count <= output_length
        /\ \/ output_count = output_length
           \/ output_count >= IF i <= iterations THEN 0 ELSE n * x + (j - 1)
    BY <2>1 DEF OutputOK, InLoop, Served
  <2>5. /\ pc' = "record" => j < n /\ j' = j + 1 /\ i' = i
        /\ pc' = "chain" => j = n /\ i' = i + 1
        /\ pc' = "finish" => j = n /\ i' = i /\ i = total_iterations
        /\ pc' \in {"record", "chain", "finish"}
    BY <2>1, <2>2, <2>3 DEF NextRecord
  <2>6. CASE RecordOutput
    <3>1. /\ output' = [output EXCEPT ![j] = PushBest(output[j], chain_states[j])]
          /\ i > iterations /\ output_count < output_length /\ output_count' = output_count + 1
      BY <2>6 DEF RecordOutput
    <3>2. /\ OutputLens \in [ChainIds -> Int] /\ OutputLens' \in [ChainIds -> Int]
          /\ OutputLens'[j] = OutputLens[j] + 1
          /\ \A c \in ChainIds : c # j => OutputLens'[c] = OutputLens[c]
      <4>1. output \in [ChainIds -> OutputList] /\ output' \in [ChainIds -> OutputList]
        BY <2>2 DEF IndInv, TypeOK
      <4>2. \A c \in ChainIds : output[c].len \in Int /\ output'[c].len \in Int
        BY <4>1 DEF OutputList
      <4>3. OutputLens' = [c \in ChainIds |-> output'[c].len]
        BY <2>2 DEF OutputLens
      <4> QED BY <2>2, <3>1, <4>1, <4>2, <4>3 DEF OutputLens, PushBest
    <3>3. SumFunction(OutputLens') = output_count + 1
      <4> DEFINE old == OutputLens
                 new == OutputLens'
      <4>1. IsFiniteSet(ChainIds)
        BY <2>2, FS_Interval DEF ChainIds
      <4>0. /\ old \in [ChainIds -> Int] /\ new \in [ChainIds -> Int]
            /\ \A c \in ChainIds : c # j => new[c] = old[c]
        BY <3>2
      <4> HIDE DEF old, new
      <4>2. SumFunction(new) = SumFunction(old) + new[j] - old[j] /\ SumFunction(old) \in Int
        <5>1. j \in ChainIds
          BY <2>2
        <5> QED BY <4>0, <4>1, <5>1, SumUpdate, Zenon
      <4>3. old[j] \in Int /\ new[j] = old[j] + 1 /\ SumFunction(old) = output_count
        BY <2>2, <2>4, <3>2 DEF old, new
      <4> QED BY <4>2, <4>3 DEF new
    <3>4. output_count >= n * x + (j - 1)
      BY <2>2, <2>4, <3>1
    <3>5. CASE pc' = "record"
      BY <2>2, <2>3, <2>5, <3>1, <3>3, <3>4, <3>5 DEF OutputOK, Served
    <3>6. CASE pc' = "chain"
      <4>1. i' - 1 - iterations = x + 1
        BY <2>2, <2>5, <3>6
      <4>2. output_count + 1 >= n * (x + 1)
        BY <2>2, <2>3, <2>5, <3>4, <3>6
      <4> HIDE DEF x
      <4> QED BY <2>2, <2>5, <3>1, <3>3, <3>6, <4>1, <4>2 DEF OutputOK, Served
    <3>7. CASE pc' = "finish"
      <4>1. x + 1 = output_iterations
        BY <2>2, <2>3, <2>5, <3>7
      <4>2. output_count + 1 >= n * output_iterations
        BY <2>2, <2>3, <2>5, <3>4, <3>7, <4>1
      <4>3. output_count' = output_length' /\ SumFunction(OutputLens') = output_count'
        BY <2>2, <2>3, <3>1, <3>3, <4>2
      <4> QED BY <2>2, <3>7, <4>3 DEF OutputOK
    <3> QED BY <2>5, <3>5, <3>6, <3>7
  <2>7. CASE RecordChain \/ OutputFull
    <3>1. output' = output /\ output_count' = output_count
      BY <2>7 DEF RecordChain, OutputFull
    <3>2. OutputLens' = OutputLens
      BY <2>2, <3>1 DEF OutputLens
    <3>3. i <= iterations \/ output_count = output_length
      BY <2>2, <2>4, <2>7 DEF RecordChain, OutputFull
    <3>4. i <= iterations => pc' # "finish"
      BY <2>2, <2>3, <2>5
    <3>5. ASSUME i <= iterations, i' > iterations
          PROVE  pc' = "chain" /\ i' - 1 - iterations = 0
      BY <2>2, <2>5, <3>5
    <3>6. output_count' = output_length' \/ output_count' >= Served'
      <4>1. CASE i <= iterations
        <5>1. CASE i' <= iterations
          BY <2>2, <3>1, <5>1 DEF Served
        <5>2. CASE i' > iterations
          <6>1. Served' = n * 0 + 0
            BY <2>2, <2>5, <3>5, <4>1, <5>2 DEF Served
          <6> QED BY <2>2, <2>3, <3>1, <6>1
        <5> QED BY <2>2, <2>5, <5>1, <5>2
      <4> QED BY <2>2, <3>1, <3>3, <4>1
    <3> QED BY <2>2, <2>4, <3>1, <3>2, <3>3, <3>4, <3>6 DEF OutputOK
  <2> QED BY <2>1, <2>6, <2>7
<1>6. CASE UNCHANGED vars
  BY <1>6 DEF vars, inputs, fields, results, frame, loop, OutputOK, InLoop, OutputLens, Served,
     ChainIds, number_of_chains, iterations
<1> QED BY <1>1, <1>2, <1>3, <1>4, <1>5, <1>6, Steps

\* A call that reaches its end has output exactly output_length states, however
\* many chains share them, also when they do not divide the budget
\* (mcmc_sampler.hpp:336-339, 433-436).
THEOREM OutputCompletes == Spec => []OutputComplete
<1>1. Init => LoopOK /\ OutputOK
  BY DEF Init, LoopOK, OutputOK, InLoop
<1>2. IndInv /\ IndInv' /\ LoopOK /\ OutputOK /\ [Next]_vars => LoopOK' /\ OutputOK'
  BY LoopStep, OutputStep
<1>3. OutputOK => OutputComplete
  BY DEF OutputOK, OutputComplete, InLoop, OutputLens
<1> QED BY <1>1, <1>2, <1>3, InitInd, NextInd, PTL DEF Spec

-----------------------------------------------------------------------------
(* The counts agree with the histories.                                    *)

\* Proposals chain c has made for the state that it records next.
Ahead(c) ==
  CASE \/ pc = "chain" /\ c < j
       \/ pc = "record" /\ c >= j -> thinning_interval
    [] pc = "chain" /\ c = j -> t - 1
    [] OTHER -> 0

\* The iterations of this call recorded in chain c.
RoundsRecorded(c) ==
  CASE pc = "chain" -> IF i <= iterations THEN i - 1 ELSE iterations
    [] pc = "record" -> IF i > iterations THEN iterations ELSE IF c < j THEN i ELSE i - 1
    [] pc = "finish" -> iterations
    [] OTHER -> 0

MarkovLens == [c \in ChainIds |-> markov_chains[c].len]

ChainWorkOK ==
  \A c \in ChainIds :
    /\ accept_count[c] <= sample_count[c]
    /\ thinning_interval * (markov_chains[c].len + output[c].len) + Ahead(c) <= sample_count[c]
    /\ simulations * iterations + RoundsRecorded(c) <= markov_chains[c].len

MeanOK == SumFunction(mean_log_likelihood) = SumFunction(MarkovLens)

LEMMA AheadTyped ==
  ASSUME IndInv, NEW c \in ChainIds
  PROVE  Ahead(c) \in Nat
<1>1. t - 1 \in Nat /\ thinning_interval \in Nat
  BY SettingsTyped DEF IndInv, TypeOK, FrameOK
<1> QED BY <1>1 DEF Ahead

LEMMA AheadOutside ==
  ASSUME ~InLoop, NEW c
  PROVE  Ahead(c) = 0 /\ RoundsRecorded(c) = 0
BY DEF Ahead, RoundsRecorded, InLoop

LEMMA AheadIteration ==
  ASSUME IndInv, LoopOK, NEW f \in Fitness, ChainIteration(f), NEW c \in ChainIds
  PROVE  /\ Ahead(c)' = Ahead(c) + (IF c = j THEN 1 ELSE 0)
         /\ RoundsRecorded(c)' = RoundsRecorded(c)
<1>1. /\ pc = "chain" /\ AdvanceChain(f) /\ UNCHANGED inputs /\ i' = i
  BY DEF ChainIteration, ProposalKept, ProposalAccepted, AdvanceChain
<1>2. /\ number_of_chains' = number_of_chains /\ iterations' = iterations
      /\ thinning_interval' = thinning_interval /\ SettingsValid
  BY <1>1, SameSettings, ValidInLoop DEF inputs, fields, InLoop
<1>3. /\ number_of_chains \in Nat \ {0} /\ thinning_interval \in Nat \ {0}
      /\ j \in 1..number_of_chains /\ c \in 1..number_of_chains
      /\ t \in Nat /\ t >= 1 /\ t <= thinning_interval
      /\ i \in Nat /\ iterations \in Nat
  BY <1>1, <1>2, LoopSettings DEF IndInv, WithinVectors, TypeOK, FrameOK, LoopOK, ChainIds
<1>4. CASE t < thinning_interval
  <2>1. t' = t + 1 /\ pc' = "chain" /\ j' = j
    BY <1>1, <1>4 DEF AdvanceChain
  <2> QED BY <1>1, <1>2, <1>3, <2>1 DEF Ahead, RoundsRecorded
<1>5. CASE t = thinning_interval /\ j < number_of_chains
  <2>1. t' = 1 /\ pc' = "chain" /\ j' = j + 1
    BY <1>1, <1>3, <1>5 DEF AdvanceChain
  <2> QED BY <1>1, <1>2, <1>3, <1>5, <2>1 DEF Ahead, RoundsRecorded
<1>6. CASE t = thinning_interval /\ j = number_of_chains
  <2>1. t' = 1 /\ pc' = "record" /\ j' = 1
    BY <1>1, <1>3, <1>6 DEF AdvanceChain
  <2> QED BY <1>1, <1>2, <1>3, <1>6, <2>1 DEF Ahead, RoundsRecorded
<1> QED BY <1>3, <1>4, <1>5, <1>6

LEMMA AheadRecord ==
  ASSUME IndInv, LoopOK, Record, NEW c \in ChainIds
  PROVE  /\ Ahead(c)' \in Nat
         /\ Ahead(c) = Ahead(c)' + (IF c = j THEN thinning_interval ELSE 0)
         /\ RoundsRecorded(c)' = RoundsRecorded(c)
                                   + (IF c = j /\ i <= iterations THEN 1 ELSE 0)
<1>1. /\ pc = "record" /\ NextRecord /\ UNCHANGED inputs /\ t' = t /\ t = 1
      /\ i <= total_iterations
  BY DEF Record, LoopOK
<1>2. /\ number_of_chains' = number_of_chains /\ iterations' = iterations
      /\ thinning_interval' = thinning_interval /\ SettingsValid
  BY <1>1, SameSettings, ValidInLoop DEF inputs, fields, InLoop
<1>3. /\ number_of_chains \in Nat \ {0} /\ thinning_interval \in Nat \ {0}
      /\ j \in 1..number_of_chains /\ c \in 1..number_of_chains
      /\ i \in Nat /\ iterations \in Nat \ {0}
      /\ total_iterations \in Nat /\ total_iterations > iterations
  BY <1>1, <1>2, LoopSettings DEF IndInv, WithinVectors, TypeOK, ChainIds
<1>4. CASE j < number_of_chains
  <2>1. j' = j + 1 /\ pc' = "record" /\ i' = i
    BY <1>1, <1>4 DEF NextRecord
  <2> QED BY <1>1, <1>2, <1>3, <2>1 DEF Ahead, RoundsRecorded
<1>5. CASE j = number_of_chains /\ i < total_iterations
  <2>1. j' = 1 /\ pc' = "chain" /\ i' = i + 1
    BY <1>1, <1>3, <1>5 DEF NextRecord
  <2>2. i + 1 <= iterations \/ i = iterations \/ i > iterations
    BY <1>3
  <2> QED BY <1>1, <1>2, <1>3, <1>5, <2>1, <2>2 DEF Ahead, RoundsRecorded
<1>6. CASE j = number_of_chains /\ i = total_iterations
  <2>1. j' = 1 /\ pc' = "finish" /\ i' = i
    BY <1>1, <1>3, <1>6 DEF NextRecord
  <2> QED BY <1>1, <1>2, <1>3, <1>6, <2>1 DEF Ahead, RoundsRecorded
<1> QED BY <1>1, <1>3, <1>4, <1>5, <1>6

LEMMA AheadEnters ==
  ASSUME IndInv, Enters, NEW c \in ChainIds
  PROVE  Ahead(c)' = 0 /\ RoundsRecorded(c)' = 0
<1>1. pc' = "chain" /\ j' = 1 /\ t' = 1 /\ i' = 1 /\ iterations' = iterations
  BY SameSettings DEF Enters, EnterLoop, NoLoop
<1>2. iterations >= 1 /\ c \in Nat /\ c >= 1
  BY LoopSettings DEF Enters, ChainIds
<1> QED BY <1>1, <1>2 DEF Ahead, RoundsRecorded

\* The arithmetic of one recorded state, of an output list emptied, and of a
\* call that completes.
LEMMA Products ==
  ASSUME NEW n \in Nat, NEW a \in Nat, NEW b \in Nat
  PROVE  /\ n * (a + b) \in Nat /\ n * a <= n * (a + b) /\ n * 0 = 0
         /\ n * (a + b + 1) = n * (a + b) + n
         /\ a * n \in Nat /\ (a + 1) * n = a * n + n /\ 0 * n = 0
<1>1. n * a \in Nat /\ n * b \in Nat /\ n * (a + b) = n * a + n * b
  OBVIOUS
<1> QED BY <1>1

LEMMA CountsTyped ==
  ASSUME IndInv, NEW c \in ChainIds
  PROVE  /\ markov_chains[c].len \in Nat /\ output[c].len \in Nat
         /\ accept_count[c] \in Nat /\ sample_count[c] \in Nat
         /\ simulations \in Nat /\ iterations \in Nat /\ thinning_interval \in Nat
BY SettingsTyped DEF IndInv, TypeOK, History, OutputList

LEMMA ChainWorkStep ==
  ASSUME IndInv, IndInv', LoopOK, NoSeeds, ChainWorkOK, [Next]_vars
  PROVE  ChainWorkOK'
<1> SUFFICES ASSUME NEW c \in ChainIds'
             PROVE  (/\ accept_count[c] <= sample_count[c]
                     /\ thinning_interval * (markov_chains[c].len + output[c].len) + Ahead(c)
                          <= sample_count[c]
                     /\ simulations * iterations + RoundsRecorded(c) <= markov_chains[c].len)'
  BY DEF ChainWorkOK
<1> DEFINE th == thinning_interval
           m == markov_chains[c].len
           o == output[c].len
           a == accept_count[c]
           s == sample_count[c]
           si == simulations * iterations
<1>1. ASSUME NEW f \in DOMAIN settings, NEW v \in Arguments(f), SetInput(f, v)
      PROVE  /\ a' <= s' /\ th' * (m' + o') + Ahead(c)' <= s'
             /\ simulations' * iterations' + RoundsRecorded(c)' <= m'
  <2>1. /\ a' = 0 /\ s' = 0 /\ m' = 0 /\ o' = 0 /\ simulations' = 0 /\ pc' = "idle"
    BY <1>1 DEF SetInput, Reset, ResetOutputs, frame, Empty, EmptyOutput, ChainIds,
       number_of_chains
  <2>2. Ahead(c)' = 0 /\ RoundsRecorded(c)' = 0
    BY <2>1 DEF Ahead, RoundsRecorded
  <2>3. th' \in Nat /\ iterations' \in Nat
    <3>1. settings' \in Settings
      BY DEF IndInv, TypeOK
    <3> QED BY <3>1, InputsAssumption DEF Settings, thinning_interval, iterations
  <2>4. \A x \in Nat : x * 0 = 0 /\ 0 * x = 0
    OBVIOUS
  <2>5. th' * (m' + o') = 0 /\ simulations' * iterations' = 0
    <3> HIDE DEF m, o, th
    <3>1. m' + o' = 0
      BY <2>1
    <3>2. th' * 0 = 0 /\ 0 * iterations' = 0
      BY <2>3, <2>4
    <3> QED BY <2>1, <3>1, <3>2, Zenon
  <2> QED BY <2>1, <2>2, <2>5
<1>2. ASSUME settings' = settings
      PROVE  /\ c \in ChainIds /\ th' = th /\ iterations' = iterations
             /\ th \in Nat /\ iterations \in Nat /\ simulations \in Nat
             /\ m \in Nat /\ o \in Nat /\ a \in Nat /\ s \in Nat /\ Ahead(c) \in Nat
             /\ th * (m + o) \in Nat /\ th * m <= th * (m + o) /\ th * (m + o + 1) = th * (m + o) + th
             /\ si \in Nat /\ (simulations + 1) * iterations = si + iterations
             /\ a <= s /\ th * (m + o) + Ahead(c) <= s /\ si + RoundsRecorded(c) <= m
             /\ RoundsRecorded(c) \in Nat
  <2>1. c \in ChainIds /\ th' = th /\ iterations' = iterations
    BY <1>2 DEF ChainIds, number_of_chains, thinning_interval, iterations
  <2>2. /\ th \in Nat /\ iterations \in Nat /\ simulations \in Nat
        /\ m \in Nat /\ o \in Nat /\ a \in Nat /\ s \in Nat /\ Ahead(c) \in Nat
    BY <2>1, CountsTyped, AheadTyped
  <2>3. RoundsRecorded(c) \in Nat
    <3>1. i \in Nat /\ i >= 1
      BY DEF IndInv, TypeOK, FrameOK
    <3> QED BY <2>2, <3>1 DEF RoundsRecorded
  <2>4. a <= s /\ th * (m + o) + Ahead(c) <= s /\ si + RoundsRecorded(c) <= m
    BY <2>1 DEF ChainWorkOK
  <2> HIDE DEF th, m, o, a, s
  <2>5. th * (m + o) \in Nat /\ th * m <= th * (m + o) /\ th * (m + o + 1) = th * (m + o) + th
    BY <2>2, Products
  <2>6. si \in Nat /\ (simulations + 1) * iterations = si + iterations
    BY <2>2, Products
  <2> QED BY <2>1, <2>2, <2>3, <2>4, <2>5, <2>6
<1>3. CASE Enters
  <2>1. settings' = settings
    BY <1>3 DEF Enters
  <2>2. /\ m' = m /\ o' = 0 /\ s' = s /\ a' = a /\ simulations' = simulations
    BY <1>3, <1>2, <2>1 DEF Enters, EnterLoop, histories, counts, EmptyOutput
  <2>3. Ahead(c)' = 0 /\ RoundsRecorded(c)' = 0
    BY <1>2, <1>3, <2>1, AheadEnters
  <2> HIDE DEF th, m, o, a, s, si
  <2>4. m' + o' = m /\ th' * (m' + o') + Ahead(c)' <= s'
    BY <1>2, <2>1, <2>2, <2>3
  <2>5. simulations' * iterations' = si
    BY <1>2, <2>1, <2>2 DEF si
  <2> QED BY <1>2, <2>1, <2>2, <2>3, <2>4, <2>5 DEF th, m, o, a, s
<1>4. ASSUME ~InLoop, ~InLoop', settings' = settings,
             UNCHANGED <<simulations, markov_chains, accept_count, sample_count, output>>
      PROVE  /\ a' <= s' /\ th' * (m' + o') + Ahead(c)' <= s'
             /\ simulations' * iterations' + RoundsRecorded(c)' <= m'
  <2>1. Ahead(c) = 0 /\ RoundsRecorded(c) = 0
    BY <1>4, AheadOutside
  <2>2. Ahead(c)' = 0 /\ RoundsRecorded(c)' = 0
    BY <1>4 DEF Ahead, RoundsRecorded, InLoop
  <2> QED BY <1>2, <1>4, <2>1, <2>2
<1>5. CASE Prepares
  BY <1>4, <1>5 DEF Prepares, counts
<1>6. CASE InitializeUserDefined
  <2>1. markov_chains' = markov_chains
    BY <1>6 DEF InitializeUserDefined, Materialised, SeedOf, NoSeeds, Empty, IndInv, TypeOK
  <2> QED BY <1>4, <1>6, <2>1 DEF InitializeUserDefined, InitialsFrom, InLoop, inputs, counts
<1>7. ASSUME NEW f \in Fitness, ChainIteration(f)
      PROVE  /\ a' <= s' /\ th' * (m' + o') + Ahead(c)' <= s'
             /\ simulations' * iterations' + RoundsRecorded(c)' <= m'
  <2>1. /\ settings' = settings /\ UNCHANGED <<simulations, markov_chains, output>>
        /\ CountProposal
        /\ \/ accept_count' = accept_count
           \/ accept_count' = [accept_count EXCEPT ![j] = @ + 1]
    BY <1>7 DEF ChainIteration, ProposalKept, ProposalAccepted, inputs, histories
  <2>2. /\ Ahead(c)' = Ahead(c) + (IF c = j THEN 1 ELSE 0)
        /\ RoundsRecorded(c)' = RoundsRecorded(c)
    BY <1>2, <1>7, <2>1, AheadIteration
  <2>3. s' = s + (IF c = j THEN 1 ELSE 0)
    <3>1. sample_count \in [ChainIds -> Nat]
      BY DEF IndInv, TypeOK
    <3>2. s' = IF c = j THEN s + 1 ELSE s
      BY <1>2, <2>1, <3>1 DEF CountProposal
    <3> QED BY <1>2, <2>1, <3>2
  <2>4. a' = a \/ a' = a + (IF c = j THEN 1 ELSE 0)
    BY <1>2, <2>1 DEF IndInv, TypeOK
  <2>5. th' * (m' + o') + Ahead(c)' <= s'
    <3> HIDE DEF s
    <3> QED BY <1>2, <2>1, <2>2, <2>3
  <2>6. a' <= s'
    <3> HIDE DEF s, a
    <3> QED BY <1>2, <2>1, <2>3, <2>4
  <2>7. simulations' * iterations' = si /\ m' = m
    BY <1>2, <2>1
  <2> QED BY <1>2, <2>1, <2>2, <2>5, <2>6, <2>7
<1>8. CASE LikelihoodThrows
  <2>1. /\ settings' = settings /\ CountProposal /\ pc' = "idle"
        /\ UNCHANGED <<simulations, markov_chains, output, accept_count>>
    BY <1>8 DEF LikelihoodThrows, Leave, inputs, histories
  <2>2. Ahead(c)' = 0 /\ RoundsRecorded(c)' = 0
    BY <2>1 DEF Ahead, RoundsRecorded
  <2>3. s' \in {s, s + 1}
    BY <1>2, <2>1 DEF CountProposal, IndInv, TypeOK
  <2>4. simulations' * iterations' = si /\ th' * (m' + o') = th * (m + o) /\ m' = m /\ a' = a
    BY <1>2, <2>1
  <2>5. /\ a' <= s' /\ th' * (m' + o') + Ahead(c)' <= s'
        /\ simulations' * iterations' + RoundsRecorded(c)' <= m'
    <3> HIDE DEF s, si, m, a, th, o
    <3> QED BY <1>2, <2>1, <2>2, <2>3, <2>4
  <2> QED BY <2>5
<1>9. CASE Record
  <2>1. /\ settings' = settings /\ UNCHANGED <<simulations, accept_count, sample_count>>
        /\ RecordChain \/ RecordOutput \/ OutputFull
    BY <1>9 DEF Record, inputs, counts
  <2>2. /\ Ahead(c)' \in Nat
        /\ Ahead(c) = Ahead(c)' + (IF c = j THEN th ELSE 0)
        /\ RoundsRecorded(c)' = RoundsRecorded(c) + (IF c = j /\ i <= iterations THEN 1 ELSE 0)
    BY <1>2, <1>9, <2>1, AheadRecord
  <2>3. /\ m' = m + (IF c = j /\ i <= iterations THEN 1 ELSE 0)
        /\ o' \in {o, o + (IF c = j /\ i > iterations THEN 1 ELSE 0)}
        /\ i \in Nat
    <3>1. c \in ChainIds /\ markov_chains \in [ChainIds -> History] /\ output \in [ChainIds -> OutputList]
          /\ i \in Nat /\ iterations \in Nat
      BY <1>2, <2>1 DEF IndInv, TypeOK
    <3>2. CASE RecordChain
      BY <1>2, <2>1, <3>1, <3>2 DEF RecordChain, Push
    <3>3. CASE RecordOutput \/ OutputFull
      BY <1>2, <2>1, <3>1, <3>3 DEF RecordOutput, OutputFull, PushBest
    <3> QED BY <2>1, <3>1, <3>2, <3>3
  <2> HIDE DEF th, m, o, si
  <2>4. m' + o' \in {m + o, m + o + (IF c = j THEN 1 ELSE 0)}
    BY <1>2, <2>1, <2>3
  <2>5. th * (m' + o') + Ahead(c)' <= s
    <3>1. CASE m' + o' = m + o
      BY <1>2, <2>1, <2>2, <3>1
    <3>2. CASE c = j /\ m' + o' = m + o + 1
      BY <1>2, <2>1, <2>2, <3>2
    <3> QED BY <1>2, <2>1, <2>4, <3>1, <3>2
  <2>6. simulations' * iterations' = si /\ s' = s /\ a' = a
    BY <1>2, <2>1 DEF si
  <2> QED BY <1>2, <2>1, <2>2, <2>3, <2>5, <2>6 DEF th, m, o
<1>10. CASE Finish
  <2>1. /\ pc = "finish" /\ settings' = settings /\ pc' = "idle" /\ simulations' = simulations + 1
        /\ UNCHANGED <<markov_chains, output, accept_count, sample_count>>
    BY <1>10 DEF Finish, Leave, inputs, histories, counts
  <2>2. Ahead(c)' = 0 /\ RoundsRecorded(c)' = 0 /\ RoundsRecorded(c) = iterations
    BY <2>1 DEF Ahead, RoundsRecorded
  <2> HIDE DEF si
  <2> QED BY <1>2, <2>1, <2>2
<1>11. CASE UNCHANGED vars
  <2>1. UNCHANGED <<settings, simulations, markov_chains, output, accept_count, sample_count, pc, i, j, t>>
    BY <1>11 DEF vars, inputs, results, histories, counts, frame, loop
  <2>2. Ahead(c)' = Ahead(c) /\ RoundsRecorded(c)' = RoundsRecorded(c)
    BY <2>1 DEF Ahead, RoundsRecorded, thinning_interval, iterations
  <2> QED BY <1>2, <2>1, <2>2
<1> QED BY <1>1, <1>3, <1>5, <1>6, <1>7, <1>8, <1>9, <1>10, <1>11, Steps

\* The states in the recorded chains grow by the one that a Record step pushes.
LEMMA RecordedZero ==
  ASSUME IndInv', MarkovLens' = [c \in ChainIds' |-> 0]
  PROVE  SumFunction(MarkovLens') = 0
<1> DEFINE z == [c \in ChainIds' |-> 0]
           n == number_of_chains'
<1>1. n \in Nat
  BY InputsAssumption DEF IndInv, TypeOK, Settings, number_of_chains
<1> HIDE DEF n
<1>2. IsFiniteSet(1..n) /\ ChainIds' = 1..n
  BY <1>1, FS_Interval DEF ChainIds, n
<1>3. IsFiniteSet(ChainIds') /\ DOMAIN z = ChainIds' /\ \A c \in ChainIds' : z[c] = 0
  BY <1>2
<1> HIDE DEF z
<1>4. SumFunction(z) = 0
  BY <1>3, SumZero DEF SumFunction
<1> QED BY <1>4 DEF z

LEMMA RecordedOne ==
  ASSUME IndInv, IndInv', Record
  PROVE  /\ SumFunction(MarkovLens) \in Int
         /\ SumFunction(MarkovLens') = SumFunction(MarkovLens) + (IF i <= iterations THEN 1 ELSE 0)
<1>1. /\ ChainIds' = ChainIds /\ j \in ChainIds /\ i \in Nat /\ iterations \in Nat
      /\ number_of_chains \in Nat
      /\ RecordChain \/ RecordOutput \/ OutputFull
  BY LoopFacts DEF Record
<1>2. markov_chains \in [ChainIds -> History] /\ markov_chains' \in [ChainIds -> History]
  BY <1>1 DEF IndInv, TypeOK
<1>3. MarkovLens \in [ChainIds -> Int] /\ MarkovLens' \in [ChainIds -> Int]
  BY <1>1, <1>2 DEF MarkovLens, History
<1>4. /\ MarkovLens'[j] = MarkovLens[j] + (IF i <= iterations THEN 1 ELSE 0)
      /\ \A c \in ChainIds : c # j => MarkovLens'[c] = MarkovLens[c]
  <2>1. CASE RecordChain
    <3>1. /\ i <= iterations
          /\ markov_chains' = [markov_chains EXCEPT ![j] = Push(markov_chains[j], chain_states[j])]
      BY <2>1 DEF RecordChain
    <3> QED BY <1>1, <1>2, <3>1 DEF MarkovLens, Push
  <2>2. CASE RecordOutput \/ OutputFull
    <3>1. i > iterations /\ markov_chains' = markov_chains
      BY <2>2 DEF RecordOutput, OutputFull
    <3>2. MarkovLens' = MarkovLens /\ MarkovLens[j] \in Int
      BY <1>1, <1>3, <3>1 DEF MarkovLens
    <3> QED BY <1>1, <3>1, <3>2
  <2> QED BY <1>1, <2>1, <2>2
<1> DEFINE old == MarkovLens
           new == MarkovLens'
<1>5. /\ IsFiniteSet(ChainIds) /\ old \in [ChainIds -> Int] /\ new \in [ChainIds -> Int]
      /\ \A c \in ChainIds : c # j => new[c] = old[c]
  <2>1. IsFiniteSet(ChainIds)
    BY <1>1, FS_Interval DEF ChainIds
  <2> QED BY <1>3, <1>4, <2>1
<1>6. old[j] \in Int /\ new[j] = old[j] + (IF i <= iterations THEN 1 ELSE 0)
  BY <1>1, <1>3, <1>4
<1>7. j \in ChainIds
  BY <1>1
<1> HIDE DEF old, new
<1>8. SumFunction(old) \in Int /\ SumFunction(new) = SumFunction(old) + new[j] - old[j]
  BY <1>5, <1>7, SumUpdate, Zenon
<1> QED BY <1>1, <1>6, <1>8 DEF old, new

LEMMA MeanOne ==
  ASSUME IndInv, Record
  PROVE  SumFunction(mean_log_likelihood') =
           SumFunction(mean_log_likelihood) + (IF i <= iterations THEN 1 ELSE 0)
<1> DEFINE mean == mean_log_likelihood
           new == mean_log_likelihood'
<1>1. /\ mean \in Seq(Int) /\ mean \in [1..Len(mean) -> Int] /\ Len(mean) \in Nat
      /\ i \in Nat /\ iterations \in Nat /\ i >= 1
      /\ i <= iterations => Len(mean) >= i - 1
      /\ RecordChain \/ RecordOutput \/ OutputFull
  <2>1. mean \in Seq(Nat)
    BY DEF IndInv, TypeOK
  <2>2. mean \in [1..Len(mean) -> Int] /\ Len(mean) \in Nat /\ mean \in Seq(Int)
    <3>1. mean \in [1..Len(mean) -> Nat] /\ Len(mean) \in Nat
      BY <2>1, LenProperties
    <3>2. mean \in [1..Len(mean) -> Int]
      BY <3>1
    <3> QED BY <3>1, <3>2, VectorIsSeq
  <2> QED BY <2>2, SettingsTyped DEF Record, IndInv, WithinVectors, FrameOK, TypeOK
<1>2. SumFunction(mean) \in Int
  <2> DEFINE D == 1..Len(mean)
  <2>1. IsFiniteSet(D) /\ IntegersOn(mean, D) /\ DOMAIN mean = D
    BY <1>1, FS_Interval DEF IntegersOn
  <2> HIDE DEF D, mean
  <2> QED BY <2>1, SumPick DEF SumFunction
<1>3. CASE RecordOutput \/ OutputFull
  <2>1. new = mean /\ i > iterations
    BY <1>3 DEF RecordOutput, OutputFull
  <2> QED BY <1>1, <1>2, <2>1
<1>4. CASE RecordChain /\ Len(mean) < i
  <2>1. new = Append(mean, 1) /\ i <= iterations
    BY <1>4 DEF RecordChain, AddToMean
  <2>2. SumFunction(Append(mean, 1)) = SumFunction(mean) + 1
    BY <1>1, SumAppend
  <2> QED BY <2>1, <2>2
<1>5. CASE RecordChain /\ ~(Len(mean) < i)
  <2> DEFINE D == 1..Len(mean)
  <2>1. new = [mean EXCEPT ![i] = mean[i] + 1] /\ i <= iterations
    BY <1>5 DEF RecordChain, AddToMean
  <2>2. i \in D /\ mean \in [D -> Int]
    BY <1>1, <1>5
  <2>3. IsFiniteSet(D)
    BY <1>1, FS_Interval
  <2> HIDE DEF D
  <2>4. /\ new \in [D -> Int] /\ new[i] = mean[i] + 1 /\ mean[i] \in Int
        /\ \A k \in D : k # i => new[k] = mean[k]
    BY <2>1, <2>2
  <2> HIDE DEF mean, new
  <2>5. SumFunction(new) = SumFunction(mean) + new[i] - mean[i]
    BY <2>2, <2>3, <2>4, SumUpdate, Zenon
  <2> QED BY <1>2, <2>1, <2>4, <2>5 DEF mean, new
<1> QED BY <1>1, <1>3, <1>4, <1>5

\* The steps that record nothing.
LEMMA RecordsNothing ==
  ASSUME IndInv, IndInv', NoSeeds, [Next]_vars, ~Record,
         ~\E f \in DOMAIN settings : \E v \in Arguments(f) : SetInput(f, v)
  PROVE  /\ UNCHANGED <<settings, markov_chains, mean_log_likelihood>>
         /\ MarkovLens' = MarkovLens
<1>1. UNCHANGED <<settings, markov_chains, mean_log_likelihood>>
  <2> USE DEF inputs, histories
  <2>1. CASE Enters \/ Prepares
    BY <2>1 DEF Enters, Prepares
  <2>2. CASE InitializeUserDefined
    BY <2>2 DEF InitializeUserDefined, Materialised, SeedOf, NoSeeds, Empty, IndInv, TypeOK
  <2>3. CASE LikelihoodThrows \/ Finish \/ \E f \in Fitness : ChainIteration(f)
    BY <2>3 DEF LikelihoodThrows, Finish, ChainIteration
  <2>4. CASE UNCHANGED vars
    BY <2>4 DEF vars, results
  <2> QED BY <2>1, <2>2, <2>3, <2>4, Steps
<1> QED BY <1>1 DEF MarkovLens, ChainIds, number_of_chains

LEMMA SetInputRecords ==
  ASSUME IndInv', NEW f \in DOMAIN settings, NEW v \in Arguments(f), SetInput(f, v)
  PROVE  mean_log_likelihood' = <<>> /\ SumFunction(MarkovLens') = 0
<1>1. /\ mean_log_likelihood' = <<>>
      /\ markov_chains' = [c \in ChainIds' |-> Empty]
  BY DEF SetInput, Reset, ResetOutputs, ChainIds, number_of_chains
<1>2. MarkovLens' = [c \in ChainIds' |-> 0]
  BY <1>1 DEF MarkovLens, Empty
<1> QED BY <1>1, <1>2, RecordedZero

LEMMA EmptySum == SumFunction(<<>>) = 0
BY SumEmpty DEF SumFunction

LEMMA MeanStep ==
  ASSUME IndInv, IndInv', NoSeeds, MeanOK, [Next]_vars
  PROVE  MeanOK'
<1>1. ASSUME NEW f \in DOMAIN settings, NEW v \in Arguments(f), SetInput(f, v)
      PROVE  MeanOK'
  BY <1>1, SetInputRecords, EmptySum DEF MeanOK
<1>2. CASE Record
  BY <1>2, RecordedOne, MeanOne DEF MeanOK
<1>3. CASE ~Record /\ ~\E f \in DOMAIN settings : \E v \in Arguments(f) : SetInput(f, v)
  BY <1>3, RecordsNothing DEF MeanOK
<1> QED BY <1>1, <1>2, <1>3

WorkInv == LoopOK /\ NoSeeds /\ ChainWorkOK /\ MeanOK

LEMMA WorkStep ==
  ASSUME IndInv, IndInv', WorkInv, [Next]_vars, SeedChains = {}
  PROVE  WorkInv'
BY LoopStep, NoSeedsStep, ChainWorkStep, MeanStep DEF WorkInv

LEMMA InitWork == Init => WorkInv
<1> SUFFICES ASSUME Init PROVE WorkInv
  OBVIOUS
<1>1. IndInv
  BY InitInd
<1>2. LoopOK /\ NoSeeds
  BY DEF Init, LoopOK, NoSeeds
<1>3. ChainWorkOK
  <2> SUFFICES ASSUME NEW c \in ChainIds
               PROVE  /\ accept_count[c] <= sample_count[c]
                      /\ thinning_interval * (markov_chains[c].len + output[c].len) + Ahead(c)
                           <= sample_count[c]
                      /\ simulations * iterations + RoundsRecorded(c) <= markov_chains[c].len
    BY DEF ChainWorkOK
  <2>1. /\ accept_count[c] = 0 /\ sample_count[c] = 0 /\ simulations = 0
        /\ markov_chains[c].len = 0 /\ output[c].len = 0
        /\ Ahead(c) = 0 /\ RoundsRecorded(c) = 0
    BY DEF Init, Empty, EmptyOutput, Ahead, RoundsRecorded
  <2>2. \A n \in Nat : n * 0 = 0 /\ 0 * n = 0
    OBVIOUS
  <2>3. thinning_interval * (0 + 0) = 0 /\ 0 * iterations = 0
    BY <1>1, <2>2, CountsTyped
  <2> QED BY <2>1, <2>3
<1>4. MeanOK
  <2> DEFINE z == [c \in ChainIds |-> 0]
  <2>1. MarkovLens = z /\ mean_log_likelihood = <<>>
    BY DEF Init, MarkovLens, Empty
  <2>2. IsFiniteSet(ChainIds) /\ DOMAIN z = ChainIds /\ \A c \in ChainIds : z[c] = 0
    BY <1>1, SettingsTyped, FS_Interval DEF ChainIds, IndInv, TypeOK
  <2> HIDE DEF z
  <2>3. SumFunction(z) = 0
    BY <2>2, SumZero DEF SumFunction
  <2> QED BY <2>1, <2>3, EmptySum DEF MeanOK
<1> QED BY <1>2, <1>3, <1>4 DEF WorkInv

LEMMA WorkIsAccounted == IndInv /\ WorkInv => WorkAccounted
<1> SUFFICES ASSUME IndInv, WorkInv PROVE WorkAccounted
  OBVIOUS
<1>1. ASSUME NEW c \in ChainIds
      PROVE  /\ accept_count[c] <= sample_count[c]
             /\ thinning_interval * (markov_chains[c].len + output[c].len) <= sample_count[c]
             /\ markov_chains[c].len >= simulations * iterations
  <2> DEFINE p == thinning_interval * (markov_chains[c].len + output[c].len)
             q == simulations * iterations
  <2>1. /\ accept_count[c] <= sample_count[c] /\ p + Ahead(c) <= sample_count[c]
        /\ q + RoundsRecorded(c) <= markov_chains[c].len
    BY DEF WorkInv, ChainWorkOK
  <2>2. /\ Ahead(c) \in Nat /\ sample_count[c] \in Nat /\ markov_chains[c].len \in Nat
        /\ output[c].len \in Nat /\ thinning_interval \in Nat /\ simulations \in Nat /\ iterations \in Nat
    BY AheadTyped, CountsTyped
  <2>3. RoundsRecorded(c) \in Nat
    <3>1. i \in Nat /\ i >= 1
      BY DEF IndInv, TypeOK, FrameOK
    <3> QED BY <2>2, <3>1 DEF RoundsRecorded
  <2>4. p \in Nat /\ q \in Nat
    BY <2>2
  <2> HIDE DEF p, q
  <2>5. p <= sample_count[c] /\ markov_chains[c].len >= q
    BY <2>1, <2>2, <2>3, <2>4
  <2> QED BY <2>1, <2>5 DEF p, q
<1> QED BY <1>1 DEF WorkInv, MeanOK, MarkovLens, Recorded, WorkAccounted

\* Without per-chain seeds, every count a caller reads agrees with the histories
\* for any inputs, and however calls are resumed, restarted, or ended by a likelihood
\* that throws (mcmc_sampler.hpp:318-357).
THEOREM WorkIsDone == ASSUME SeedChains = {} PROVE Spec => []WorkAccounted
<1>1. IndInv /\ IndInv' /\ WorkInv /\ [Next]_vars => WorkInv'
  BY WorkStep
<1> QED BY <1>1, InitInd, NextInd, InitWork, WorkIsAccounted, PTL DEF Spec

-----------------------------------------------------------------------------
(* The adaptive sampler (ARWMH).                                           *)

LEMMA AdaptiveSteps ==
  ASSUME [ARWMHNext]_arwmhVars
  PROVE  [Next]_vars
BY DEF ARWMHNext, arwmhVars, InitializeCovariance, AdaptiveIteration, CovarianceThrows,
   AdaptiveLikelihoodThrows, Next, Driver, Initialisation, Proposal

\* The adaptive sampler is an MCMCSampler: with its covariances hidden, each of its
\* behaviours is one of the base class, so that every theorem above holds of it
\* (arwmh.hpp overrides initialize_custom_settings and chain_iteration only).
THEOREM AdaptiveIsASampler == ARWMHSpec => Spec
<1>1. ARWMHInit => Init
  BY DEF ARWMHInit
<1>2. [ARWMHNext]_arwmhVars => [Next]_vars
  BY AdaptiveSteps
<1> QED BY <1>1, <1>2, PTL DEF ARWMHSpec, Spec

\* Rounds of the call in which chain c has learned.
Rounds(c) == IF pc = "chain" /\ c >= j THEN i - 1 ELSE i

CovarianceOK ==
  /\ InLoop \/ simulations >= 1 =>
       /\ sigma_n \in [ChainIds -> Nat]
       /\ \A c \in ChainIds : sigma_n[c] <= sample_count[c]
  /\ InLoop =>
       /\ \A c \in ChainIds : /\ thinning_interval * output[c].len + Ahead(c) <= sigma_n[c]
                              /\ Rounds(c) <= sigma_n[c]
       /\ simulations = 0 /\ ~outrun => sigma_n = sample_count
  /\ simulations >= 1 =>
       \A c \in ChainIds : sample_count[c] >= 2 /\ (outrun \/ sigma_n[c] >= 2)

LEMMA CovarianceKept ==
  ASSUME IndInv, IndInv', LoopOK, CovarianceOK, UNCHANGED <<sigma_n, outrun>>,
         Host \/ InitializeChains \/ LikelihoodThrows \/ Record \/ Finish \/ UNCHANGED vars
  PROVE  CovarianceOK'
<1>1. ASSUME NEW f \in DOMAIN settings, NEW v \in Arguments(f), SetInput(f, v)
      PROVE  CovarianceOK'
  BY <1>1 DEF SetInput, Reset, ResetOutputs, frame, InLoop, CovarianceOK
<1>2. CASE Enters /\ pc = "idle" /\ ~(simulations < 1)
  <2>1. /\ ChainIds' = ChainIds /\ UNCHANGED <<simulations, sample_count>> /\ simulations \in Nat
        /\ thinning_interval' \in Nat /\ output' = [c \in ChainIds |-> EmptyOutput]
        /\ pc' = "chain" /\ i' = 1 /\ j' = 1 /\ simulations >= 1
    <3>1. thinning_interval \in Nat /\ thinning_interval' = thinning_interval
      BY <1>2, SameSettings, SettingsTyped DEF Enters, IndInv, TypeOK
    <3> QED BY <1>2, <3>1, SameSettings DEF Enters, EnterLoop, NoLoop, counts, IndInv, TypeOK
  <2>2. /\ sigma_n \in [ChainIds -> Nat]
        /\ \A c \in ChainIds : sigma_n[c] <= sample_count[c]
        /\ \A c \in ChainIds : sample_count[c] >= 2 /\ (outrun \/ sigma_n[c] >= 2)
    BY <2>1 DEF CovarianceOK
  <2>3. ASSUME NEW c \in ChainIds
        PROVE  /\ thinning_interval' * output'[c].len + Ahead(c)' <= sigma_n[c]
               /\ Rounds(c)' <= sigma_n[c]
    <3>1. Ahead(c)' = 0
      BY <1>2, AheadEnters
    <3>2. output'[c].len = 0
      BY <2>1 DEF EmptyOutput
    <3>3. \A n \in Nat : n * 0 = 0
      OBVIOUS
    <3>4. thinning_interval' * output'[c].len = 0
      BY <2>1, <3>2, <3>3
    <3>5. Rounds(c)' = 0
      BY <2>1 DEF Rounds, ChainIds
    <3> QED BY <2>2, <3>1, <3>4, <3>5
  <2> QED BY <2>1, <2>2, <2>3 DEF CovarianceOK
<1>3. ASSUME ~InLoop, ~InLoop', UNCHANGED <<settings, simulations, sample_count>>
      PROVE  CovarianceOK'
  BY <1>3 DEF CovarianceOK, ChainIds, number_of_chains
<1>4. CASE Prepares \/ InitializeUserDefined
  BY <1>3, <1>4 DEF Prepares, InitializeUserDefined, InitialsFrom, InLoop, inputs, counts
<1>5. CASE LikelihoodThrows
  <2>1. /\ pc = "chain" /\ ~InLoop' /\ ChainIds' = ChainIds /\ simulations' = simulations
        /\ sample_count' = [sample_count EXCEPT ![j] = @ + 1]
        /\ sample_count \in [ChainIds -> Nat]
    BY <1>5, SameSettings
       DEF LikelihoodThrows, CountProposal, Leave, InLoop, inputs, fields, IndInv, TypeOK
  <2>2. \A c \in ChainIds : sample_count'[c] >= sample_count[c] /\ sample_count'[c] \in Nat
    BY <2>1
  <2>3. ASSUME simulations >= 1
        PROVE  /\ sigma_n \in [ChainIds -> Nat]
               /\ \A c \in ChainIds : /\ sigma_n[c] <= sample_count'[c]
                                      /\ sample_count'[c] >= 2 /\ (outrun \/ sigma_n[c] >= 2)
    BY <2>1, <2>2, <2>3 DEF CovarianceOK
  <2> QED BY <2>1, <2>3 DEF CovarianceOK
<1>6. CASE Record
  <2>1. /\ pc = "record" /\ ChainIds' = ChainIds /\ NextRecord
        /\ thinning_interval' = thinning_interval
        /\ UNCHANGED <<simulations, sample_count>>
        /\ RecordChain \/ RecordOutput \/ OutputFull
        /\ number_of_chains \in Nat \ {0} /\ j \in ChainIds /\ i \in Nat
    BY <1>6, SameSettings, LoopFacts DEF Record, inputs, fields, counts
  <2>2. /\ sigma_n \in [ChainIds -> Nat]
        /\ \A c \in ChainIds : /\ sigma_n[c] <= sample_count[c]
                               /\ thinning_interval * output[c].len + Ahead(c) <= sigma_n[c]
                               /\ Rounds(c) <= sigma_n[c]
        /\ simulations = 0 /\ ~outrun => sigma_n = sample_count
    BY <2>1 DEF CovarianceOK, InLoop
  <2>3. ASSUME NEW c \in ChainIds
        PROVE  thinning_interval * output'[c].len + Ahead(c)' <= sigma_n[c]
    <3> DEFINE th == thinning_interval
               o == output[c].len
               s == sigma_n[c]
    <3>1. /\ o \in Nat /\ th \in Nat /\ s \in Nat /\ Ahead(c)' \in Nat
          /\ Ahead(c) = Ahead(c)' + (IF c = j THEN th ELSE 0)
          /\ th * o + Ahead(c) <= s
      BY <1>6, <2>2, CountsTyped, AheadRecord
    <3>2. output'[c].len \in {o, o + (IF c = j THEN 1 ELSE 0)}
      <4>1. output \in [ChainIds -> OutputList]
        BY DEF IndInv, TypeOK
      <4>2. CASE RecordOutput
        BY <2>1, <3>1, <4>1, <4>2 DEF RecordOutput, PushBest
      <4>3. CASE RecordChain \/ OutputFull
        BY <4>3 DEF RecordChain, OutputFull
      <4> QED BY <2>1, <4>2, <4>3
    <3> HIDE DEF th, o, s
    <3>3. th * o \in Nat /\ th * (o + 1) = th * o + th
      BY <3>1
    <3>4. CASE output'[c].len = o
      BY <3>1, <3>3, <3>4 DEF th, s
    <3>5. CASE c = j /\ output'[c].len = o + 1
      <4>1. th * output'[c].len + Ahead(c)' <= s
        BY <3>1, <3>3, <3>5
      <4> QED BY <4>1 DEF th, s
    <3> QED BY <3>1, <3>2, <3>4, <3>5
  <2>4. ASSUME NEW c \in ChainIds
        PROVE  Rounds(c)' <= sigma_n[c]
    <3>1. Rounds(c) = i /\ i <= sigma_n[c] /\ c \in Nat /\ c >= 1
      BY <2>1, <2>2 DEF Rounds, ChainIds
    <3>2. \/ pc' \in {"record", "finish"} /\ i' = i
          \/ pc' = "chain" /\ i' = i + 1 /\ j' = 1
      BY <2>1 DEF NextRecord
    <3>3. Rounds(c)' = i
      BY <2>1, <3>1, <3>2 DEF Rounds
    <3> QED BY <3>1, <3>3
  <2> QED BY <2>1, <2>2, <2>3, <2>4 DEF CovarianceOK, InLoop
<1>7. CASE Finish
  <2>1. /\ pc = "finish" /\ ~InLoop' /\ ChainIds' = ChainIds /\ simulations' = simulations + 1
        /\ sample_count' = sample_count /\ SettingsValid /\ i = total_iterations
    BY <1>7, SameSettings, ValidInLoop
       DEF Finish, Leave, InLoop, inputs, fields, counts, LoopOK
  <2>2. i >= 2 /\ i \in Nat
    <3>1. /\ iterations \in Nat \ {0} /\ output_iterations \in Nat \ {0}
          /\ total_iterations = iterations + output_iterations
      BY <2>1, LoopSettings
    <3> QED BY <2>1, <3>1
  <2>3. /\ sigma_n \in [ChainIds -> Nat] /\ sample_count \in [ChainIds -> Nat]
        /\ \A c \in ChainIds : sigma_n[c] <= sample_count[c] /\ i <= sigma_n[c]
    BY <2>1 DEF CovarianceOK, InLoop, Rounds, IndInv, TypeOK
  <2>4. \A c \in ChainIds : sample_count[c] >= 2 /\ sigma_n[c] >= 2
    BY <2>2, <2>3
  <2> QED BY <2>1, <2>3, <2>4 DEF CovarianceOK
<1>8. CASE UNCHANGED vars
  <2>1. UNCHANGED <<settings, simulations, output, sample_count, pc, i, j, t>>
    BY <1>8 DEF vars, inputs, results, counts, frame, loop
  <2>2. \A c : Ahead(c)' = Ahead(c) /\ Rounds(c)' = Rounds(c)
    BY <2>1 DEF Ahead, Rounds, thinning_interval
  <2> QED BY <2>1, <2>2 DEF CovarianceOK, InLoop, ChainIds, number_of_chains, thinning_interval
<1> QED BY <1>1, <1>2, <1>4, <1>5, <1>6, <1>7, <1>8, HostSteps, InitializeSteps

LEMMA CovarianceStarts ==
  ASSUME IndInv, CovarianceOK, InitializeCovariance
  PROVE  CovarianceOK'
<1>1. /\ ChainIds' = ChainIds /\ pc' = "chain" /\ i' = 1 /\ j' = 1
      /\ UNCHANGED <<simulations, sample_count>>
      /\ output' = [c \in ChainIds |-> EmptyOutput]
      /\ thinning_interval' \in Nat /\ Enters
  <2>1. Enters
    BY CustomSettingsStep DEF InitializeCovariance
  <2>2. thinning_interval' \in Nat /\ ChainIds' = ChainIds
    BY <2>1, SameSettings, SettingsTyped DEF Enters, IndInv, TypeOK
  <2> QED BY <2>1, <2>2 DEF Enters, EnterLoop, NoLoop, counts
<1>2. /\ sigma_n' = [c \in ChainIds |-> 0]
      /\ outrun' = \E c \in ChainIds : sample_count[c] # 0
      /\ sample_count \in [ChainIds -> Nat] /\ number_of_chains \in Nat \ {0}
  BY <1>1, ValidSettings DEF InitializeCovariance, Enters, IndInv, TypeOK
<1>3. ASSUME NEW c \in ChainIds
      PROVE  /\ thinning_interval' * output'[c].len + Ahead(c)' <= sigma_n'[c]
             /\ Rounds(c)' <= sigma_n'[c]
  <2>1. Ahead(c)' = 0
    BY <1>1, AheadEnters
  <2>2. Rounds(c)' = 0
    BY <1>1 DEF Rounds, ChainIds
  <2>3. \A n \in Nat : n * 0 = 0
    OBVIOUS
  <2>4. thinning_interval' * output'[c].len = 0
    BY <1>1, <2>3 DEF EmptyOutput
  <2> QED BY <1>2, <2>1, <2>2, <2>4
<1>4. ~outrun' => sigma_n' = sample_count'
  <2> SUFFICES ASSUME ~outrun' PROVE sigma_n' = sample_count'
    OBVIOUS
  <2>1. \A c \in ChainIds : sample_count[c] = 0
    BY <1>2
  <2> QED BY <1>1, <1>2, <2>1
<1>5. simulations >= 1 => outrun' /\ \A c \in ChainIds : sample_count'[c] >= 2
  <2> SUFFICES ASSUME simulations >= 1
               PROVE  outrun' /\ \A c \in ChainIds : sample_count'[c] >= 2
    OBVIOUS
  <2>1. \A c \in ChainIds : sample_count[c] >= 2
    BY DEF CovarianceOK
  <2>2. 1 \in ChainIds
    BY <1>2 DEF ChainIds
  <2> QED BY <1>1, <1>2, <2>1, <2>2
<1> QED BY <1>1, <1>2, <1>3, <1>4, <1>5 DEF CovarianceOK

LEMMA CovarianceLearns ==
  ASSUME IndInv, LoopOK, CovarianceOK, NEW f \in Fitness, AdaptiveIteration(f)
  PROVE  CovarianceOK'
<1>1. /\ ChainIteration(f) /\ pc = "chain" /\ CountProposal /\ AdvanceChain(f)
      /\ UNCHANGED <<inputs, simulations, output, outrun>>
      /\ sigma_n' = [sigma_n EXCEPT ![j] = @ + 1]
  BY DEF AdaptiveIteration, Learn, ChainIteration, ProposalKept, ProposalAccepted
<1>2. /\ ChainIds' = ChainIds /\ thinning_interval' = thinning_interval
      /\ number_of_chains' = number_of_chains
      /\ number_of_chains \in Nat \ {0} /\ thinning_interval \in Nat \ {0}
      /\ j \in ChainIds /\ i \in Nat /\ t <= thinning_interval /\ t \in Nat
  BY <1>1, SameSettings, ValidInLoop, LoopSettings
     DEF inputs, fields, InLoop, IndInv, WithinVectors, TypeOK, LoopOK
<1>3. /\ sigma_n \in [ChainIds -> Nat] /\ sample_count \in [ChainIds -> Nat]
      /\ sample_count' = [sample_count EXCEPT ![j] = @ + 1]
      /\ \A c \in ChainIds : /\ sigma_n[c] <= sample_count[c]
                             /\ thinning_interval * output[c].len + Ahead(c) <= sigma_n[c]
                             /\ Rounds(c) <= sigma_n[c]
      /\ simulations = 0 /\ ~outrun => sigma_n = sample_count
  BY <1>1 DEF CovarianceOK, InLoop, CountProposal, IndInv, TypeOK
<1>4. /\ sigma_n' \in [ChainIds -> Nat] /\ sample_count' \in [ChainIds -> Nat]
      /\ \A c \in ChainIds : /\ sigma_n'[c] = IF c = j THEN sigma_n[c] + 1 ELSE sigma_n[c]
                             /\ sample_count'[c] = IF c = j THEN sample_count[c] + 1
                                                            ELSE sample_count[c]
  BY <1>1, <1>2, <1>3
<1>5. simulations = 0 /\ ~outrun => sigma_n' = sample_count'
  BY <1>1, <1>3
<1>6. ASSUME NEW c \in ChainIds
      PROVE  /\ thinning_interval * output[c].len + Ahead(c)' <= sigma_n'[c]
             /\ sigma_n'[c] <= sample_count'[c]
             /\ simulations >= 1 => sample_count'[c] >= 2 /\ (outrun \/ sigma_n'[c] >= 2)
  <2> DEFINE p == thinning_interval * output[c].len
  <2>1. /\ Ahead(c)' = Ahead(c) + (IF c = j THEN 1 ELSE 0) /\ Ahead(c) \in Nat
        /\ output[c].len \in Nat
    BY <1>1, AheadIteration, AheadTyped, CountsTyped
  <2>2. p \in Nat
    BY <1>2, <2>1
  <2>3. p + Ahead(c) <= sigma_n[c] /\ sigma_n[c] <= sample_count[c]
    BY <1>3
  <2>4. /\ sigma_n[c] \in Nat /\ sample_count[c] \in Nat
        /\ sigma_n'[c] = IF c = j THEN sigma_n[c] + 1 ELSE sigma_n[c]
        /\ sample_count'[c] = IF c = j THEN sample_count[c] + 1 ELSE sample_count[c]
    BY <1>3, <1>4
  <2>5. simulations >= 1 => sample_count[c] >= 2 /\ (outrun \/ sigma_n[c] >= 2)
    BY DEF CovarianceOK
  <2> HIDE DEF p
  <2>6. p + Ahead(c)' <= sigma_n'[c] /\ sigma_n'[c] <= sample_count'[c]
    BY <2>1, <2>2, <2>3, <2>4
  <2>7. simulations >= 1 => sample_count'[c] >= 2 /\ (outrun \/ sigma_n'[c] >= 2)
    BY <2>4, <2>5
  <2> QED BY <2>6, <2>7 DEF p
<1>7. ASSUME NEW c \in ChainIds
      PROVE  Rounds(c)' <= sigma_n'[c]
  <2>1. /\ i' = i
        /\ \/ pc' = "chain" /\ j' = j
           \/ pc' = "chain" /\ j' = j + 1
           \/ pc' = "record" /\ j = number_of_chains
    BY <1>1, <1>2 DEF AdvanceChain, ChainIds
  <2>2. Rounds(c) <= sigma_n[c] /\ sigma_n[c] \in Nat /\ c \in Nat /\ j \in Nat
        /\ c <= number_of_chains
    BY <1>2, <1>3 DEF ChainIds
  <2>3. sigma_n'[c] = IF c = j THEN sigma_n[c] + 1 ELSE sigma_n[c]
    BY <1>4
  <2> QED BY <1>1, <1>2, <2>1, <2>2, <2>3 DEF Rounds
<1> QED BY <1>1, <1>2, <1>4, <1>5, <1>6, <1>7 DEF CovarianceOK, InLoop

LEMMA CovarianceStep ==
  ASSUME IndInv, IndInv', LoopOK, CovarianceOK, [ARWMHNext]_arwmhVars
  PROVE  CovarianceOK'
<1>1. CASE UNCHANGED arwmhVars
  BY <1>1, CovarianceKept DEF arwmhVars
<1>2. CASE ARWMHNext
  BY <1>2, CovarianceKept, CovarianceStarts, CovarianceLearns
     DEF ARWMHNext, CovarianceThrows, AdaptiveLikelihoodThrows
<1> QED BY <1>1, <1>2

LEMMA HistorySuffices ==
  ASSUME IndInv, CovarianceOK
  PROVE  AdaptsWithHistory
<1>1. ASSUME InLoop, NEW c \in ChainIds
      PROVE  /\ sigma_n[c] <= sample_count[c]
             /\ thinning_interval * output[c].len <= sigma_n[c]
  <2> DEFINE p == thinning_interval * output[c].len
  <2>1. /\ sigma_n[c] \in Nat /\ sigma_n[c] <= sample_count[c] /\ p + Ahead(c) <= sigma_n[c]
    BY <1>1 DEF CovarianceOK
  <2>2. p \in Nat /\ Ahead(c) \in Nat
    BY CountsTyped, AheadTyped
  <2> HIDE DEF p
  <2>3. p <= sigma_n[c]
    BY <2>1, <2>2
  <2> QED BY <2>1, <2>3 DEF p
<1>2. ASSUME pc = "chain", Adapts, ~outrun
      PROVE  sigma_n[j] >= 2
  <2>1. j \in ChainIds /\ simulations \in Nat /\ sample_count[j] \in Nat
    BY <1>2 DEF IndInv, WithinVectors, TypeOK
  <2>2. CASE simulations >= 1
    BY <1>2, <2>1, <2>2 DEF CovarianceOK
  <2>3. CASE simulations = 0
    <3>1. sigma_n[j] = sample_count[j]
      BY <1>2, <2>3 DEF CovarianceOK, InLoop
    <3> QED BY <1>2, <2>1, <3>1, AdaptAssumption DEF Adapts
  <2> QED BY <2>1, <2>2, <2>3
<1> QED BY <1>1, <1>2 DEF AdaptsWithHistory, InLoop

\* The adaptive sampler's covariance holds no more states than were proposed and
\* every output state thinning_interval times, and unless it was re-created under
\* a running proposal count it is used only once it holds two states, for any
\* warmup of at least two proposals (arwmh.hpp:20-21, 121).
THEOREM AdaptiveHistory == ARWMHSpec => []AdaptsWithHistory
<1>1. ARWMHInit => IndInv /\ LoopOK /\ CovarianceOK
  <2> SUFFICES ASSUME ARWMHInit PROVE IndInv /\ LoopOK /\ CovarianceOK
    OBVIOUS
  <2>1. Init
    BY DEF ARWMHInit
  <2> QED BY <2>1, InitInd DEF Init, LoopOK, CovarianceOK, InLoop
<1>2. IndInv /\ LoopOK /\ CovarianceOK /\ [ARWMHNext]_arwmhVars
        => (IndInv /\ LoopOK /\ CovarianceOK)'
  <2> SUFFICES ASSUME IndInv, LoopOK, CovarianceOK, [ARWMHNext]_arwmhVars
               PROVE  (IndInv /\ LoopOK /\ CovarianceOK)'
    OBVIOUS
  <2>1. [Next]_vars
    BY AdaptiveSteps
  <2>2. IndInv'
    BY <2>1, NextInd
  <2> QED BY <2>1, <2>2, LoopStep, CovarianceStep
<1>3. IndInv /\ CovarianceOK => AdaptsWithHistory
  BY HistorySuffices
<1> QED BY <1>1, <1>2, <1>3, PTL DEF ARWMHSpec

-----------------------------------------------------------------------------
(* The differential evolution sampler with snooker updates (DEMCzs).       *)

\* What the class fixes, a population sampler (demczs.hpp:88) of at least three chains
\* (:120), and what the theorems below assume of the host: that the population was
\* started by the sampler's own draws.
OwnPopulation ==
  /\ IsPopulationSampler = TRUE
  /\ MinChains >= 3
  /\ SeedChains = {}
  /\ "UserDefined" \notin InitTypes

\* The population holds every state drawn or recorded.
PopulationOK ==
  /\ initialize # "UserDefined"
  /\ population_matrix >= SumFunction(MarkovLens) + Len(temp_population)
  /\ pc = "custom" => Len(temp_population) >= initial_iterations
  /\ InLoop \/ simulations >= 1 => population_matrix >= SumFunction(MarkovLens) + initial_iterations

\* A chain without history has made only the proposals of its first state.
GateOK ==
  unrecorded \/ /\ pc # "undefined"
                /\ \A c \in ChainIds : markov_chains[c].len = 0 => sample_count[c] <= Ahead(c)

LEMMA RecordedTyped ==
  ASSUME IndInv
  PROVE  SumFunction(MarkovLens) \in Nat
<1> DEFINE lens == MarkovLens
<1>1. number_of_chains \in Nat /\ markov_chains \in [ChainIds -> History]
  BY SettingsTyped DEF IndInv, TypeOK
<1>2. IsFiniteSet(ChainIds)
  BY <1>1, FS_Interval DEF ChainIds
<1>3. DOMAIN lens = ChainIds /\ \A c \in ChainIds : lens[c] \in Nat
  BY <1>1 DEF MarkovLens, History
<1> HIDE DEF lens
<1>4. SumFunction(lens) \in Nat
  BY <1>2, <1>3, SumNat DEF SumFunction
<1> QED BY <1>4 DEF lens

LEMMA DrawPopulates ==
  ASSUME OwnPopulation, IndInv, IndInv', PopulationOK, NEW f \in Fitness,
         MvnDraw(f) \/ RandomDraw(f), UNCHANGED <<settings, simulations, initialize>>,
         MarkovLens' = MarkovLens
  PROVE  PopulationOK'
<1>1. /\ pc \in {"mvn", "draw"} /\ pc' \in {"mvn", "draw", "custom"} /\ Draw(f)
      /\ pc = "mvn" /\ pc' = "custom" => Len(temp_population') = initial_iterations
      /\ pc = "draw" /\ pc' = "custom" => i = initial_iterations
  BY DEF MvnDraw, RandomDraw, InitialsFrom
<1>2. /\ population_matrix' = population_matrix + 1 /\ population_matrix \in Nat
      /\ Len(temp_population') = Len(temp_population) + 1 /\ Len(temp_population) \in Nat
      /\ initial_iterations' = initial_iterations /\ initial_iterations \in Nat
      /\ SumFunction(MarkovLens) \in Nat
      /\ pc = "draw" => Len(temp_population) >= i - 1 /\ i \in Nat
  BY <1>1, DrawTyped, LenProperties, SettingsTyped, RecordedTyped
     DEF OwnPopulation, Draw, IndInv, TypeOK, FrameOK, initial_iterations
<1> QED BY <1>1, <1>2 DEF PopulationOK, InLoop

LEMMA PopulationStep ==
  ASSUME OwnPopulation, IndInv, IndInv', NoSeeds, PopulationOK, [Next]_vars
  PROVE  PopulationOK'
<1>0. /\ population_matrix \in Nat /\ Len(temp_population) \in Nat /\ simulations \in Nat
      /\ initial_iterations \in Nat /\ SumFunction(MarkovLens) \in Nat
      /\ pc \in {"idle", "initialize"} => temp_population = <<>>
  BY LenProperties, SettingsTyped, RecordedTyped DEF IndInv, TypeOK, FrameOK
<1>1. ASSUME NEW f \in DOMAIN settings, NEW v \in Arguments(f), SetInput(f, v)
      PROVE  PopulationOK'
  <2>1. /\ population_matrix' = 0 /\ simulations' = 0 /\ pc = "idle" /\ pc' = "idle"
        /\ UNCHANGED <<temp_population, initialize>>
    BY <1>1 DEF SetInput, Reset, ResetOutputs, frame, fields
  <2>2. SumFunction(MarkovLens') = 0
    BY <1>1, SetInputRecords
  <2> QED BY <1>0, <2>1, <2>2 DEF PopulationOK, InLoop
<1>2. CASE Record
  <2>1. /\ population_matrix' = population_matrix + 1 /\ InLoop
        /\ UNCHANGED <<temp_population, initialize, simulations, settings>>
        /\ pc' \in {"chain", "record", "finish"}
    BY <1>2 DEF OwnPopulation, Record, NextRecord, InLoop, inputs, fields
  <2>2. SumFunction(MarkovLens') = SumFunction(MarkovLens) + (IF i <= iterations THEN 1 ELSE 0)
    BY <1>2, RecordedOne
  <2>3. /\ initial_iterations' = initial_iterations
        /\ i <= iterations \/ ~(i <= iterations)
    BY <2>1 DEF initial_iterations
  <2> QED BY <1>0, <2>1, <2>2, <2>3 DEF PopulationOK
<1>3. ASSUME ~Record, ~\E f \in DOMAIN settings : \E v \in Arguments(f) : SetInput(f, v)
      PROVE  PopulationOK'
  <2>1. /\ settings' = settings /\ MarkovLens' = MarkovLens
        /\ initial_iterations' = initial_iterations
    BY <1>3, RecordsNothing DEF initial_iterations
  <2> USE DEF inputs, fields, results, histories, frame, loop
  <2>2. CASE AssignField \/ SeedCall
    <3>1. UNCHANGED <<pc, temp_population, population_matrix, simulations>>
      BY <2>2 DEF AssignField, SeedCall, SeedPopulation, SeedChain, ClearSeed
    <3>2. initialize' # "UserDefined"
      BY <2>2 DEF OwnPopulation, PopulationOK, AssignField, SeedCall, SeedPopulation,
         SeedChain, ClearSeed
    <3> QED BY <2>1, <3>1, <3>2 DEF PopulationOK, InLoop
  <2>3. CASE Sample
    <3>1. /\ pc = "idle" /\ UNCHANGED <<population_matrix, simulations, initialize>>
          /\ pc' = "initialize" \/ simulations >= 1
          /\ temp_population' = <<>>
      BY <1>0, <2>3 DEF Sample, EnterLoop
    <3>2. pc' # "custom"
      BY <2>3 DEF Sample, EnterLoop
    <3> QED BY <1>0, <2>1, <3>1, <3>2 DEF PopulationOK, InLoop
  <2>4. CASE InitializeUserDefined
    BY <2>4 DEF InitializeUserDefined, PopulationOK
  <2>5. CASE MaximizeFails \/ StartRandomize \/ MvnFails \/ \E f \in Fitness : MaximizeSucceeds(f)
    <3>1. /\ pc' \in {"draw", "mvn"} /\ initialize' \in {initialize, "Randomize"}
          /\ UNCHANGED <<population_matrix, simulations, temp_population>>
      BY <2>5 DEF MaximizeFails, StartRandomize, MvnFails, MaximizeSucceeds
    <3> QED BY <2>1, <3>1 DEF PopulationOK, InLoop
  <2>6. ASSUME NEW f \in Fitness, MvnDraw(f) \/ RandomDraw(f)
        PROVE  PopulationOK'
    <3>1. UNCHANGED <<settings, simulations, initialize>>
      BY <2>6 DEF MvnDraw, RandomDraw
    <3> QED BY <2>1, <2>6, <3>1, DrawPopulates
  <2>7. CASE DrawThrows \/ CustomSettingsThrow \/ LikelihoodThrows \/ Finish
    <3>1. /\ pc' = "idle" /\ temp_population' = <<>>
          /\ UNCHANGED <<population_matrix, initialize>>
          /\ simulations' = simulations \/ pc = "finish"
      BY <2>7 DEF DrawThrows, CustomSettingsThrow, LikelihoodThrows, Finish, Leave
    <3> QED BY <1>0, <2>1, <3>1 DEF PopulationOK, InLoop
  <2>8. CASE InitializeCustomSettings
    <3>1. /\ pc = "custom" /\ pc' = "chain" /\ temp_population' = <<>>
          /\ UNCHANGED <<population_matrix, initialize, simulations>>
      BY <2>8 DEF InitializeCustomSettings, EnterLoop
    <3> QED BY <1>0, <2>1, <3>1 DEF PopulationOK
  <2>9. ASSUME NEW f \in Fitness, ChainIteration(f)
        PROVE  PopulationOK'
    <3>1. /\ pc = "chain" /\ pc' \in {"chain", "record"}
          /\ UNCHANGED <<population_matrix, initialize, simulations, temp_population>>
      BY <2>9 DEF ChainIteration, ProposalKept, ProposalAccepted, AdvanceChain
    <3> QED BY <2>1, <3>1 DEF PopulationOK, InLoop
  <2>10. CASE UNCHANGED vars
    BY <2>1, <2>10 DEF vars, PopulationOK, InLoop
  <2> QED BY <1>3, <2>2, <2>3, <2>4, <2>5, <2>6, <2>7, <2>8, <2>9, <2>10
          DEF Next, Host, SetterCall, Driver, Initialisation, InitializeChains, Proposal
<1> QED BY <1>1, <1>2, <1>3

ChainsOK == RecordedFirst /\ WorkInv /\ PopulationOK

\* The counts of chain c in a step that keeps the chains and records nothing.
LEMMA GateStep ==
  ASSUME IndInv, IndInv', ChainsOK, GateOK, [Next]_vars, OwnPopulation,
         ~unrecorded', ~unrecorded, LikelihoodThrows => \A c \in ChainIds : markov_chains[c].len # 0
  PROVE  GateOK'
<1> USE DEF ChainsOK, WorkInv
<1>0. pc # "undefined" /\ \A c \in ChainIds : markov_chains[c].len = 0 => sample_count[c] <= Ahead(c)
  BY DEF GateOK
<1> SUFFICES /\ pc' # "undefined"
             /\ \A c \in ChainIds' : markov_chains'[c].len = 0 => sample_count'[c] <= Ahead(c)'
  BY DEF GateOK
<1>1. ASSUME NEW f \in DOMAIN settings, NEW v \in Arguments(f), SetInput(f, v)
      PROVE  /\ pc' # "undefined"
             /\ \A c \in ChainIds' : markov_chains'[c].len = 0 => sample_count'[c] <= Ahead(c)'
  <2>1. pc' = "idle" /\ \A c \in ChainIds' : sample_count'[c] = 0
    BY <1>1 DEF SetInput, Reset, ResetOutputs, frame, ChainIds, number_of_chains
  <2>2. \A c : Ahead(c)' = 0
    BY <2>1 DEF Ahead
  <2> QED BY <2>1, <2>2
<1>2. ASSUME settings' = settings
      PROVE  ChainIds' = ChainIds
  BY <1>2 DEF ChainIds, number_of_chains
<1>3. CASE Enters
  <2>1. /\ pc' = "chain" /\ ChainIds' = ChainIds /\ ~InLoop
        /\ UNCHANGED <<markov_chains, sample_count>>
    BY <1>2, <1>3 DEF Enters, EnterLoop, histories, counts, InLoop
  <2>2. \A c \in ChainIds : Ahead(c)' = 0 /\ Ahead(c) = 0
    BY <1>3, <2>1, AheadEnters, AheadOutside
  <2> QED BY <1>0, <2>1, <2>2
<1>4. CASE Prepares
  <2>1. /\ pc' # "undefined" /\ ChainIds' = ChainIds
        /\ UNCHANGED <<markov_chains, sample_count>>
    BY <1>0, <1>2, <1>4 DEF Prepares, counts
  <2>2. \A c : Ahead(c)' = 0 /\ Ahead(c) = 0
    BY <1>4 DEF Prepares, InLoop, Ahead
  <2> QED BY <1>0, <2>1, <2>2
<1>5. CASE InitializeUserDefined
  BY <1>5 DEF InitializeUserDefined, PopulationOK
<1>6. ASSUME NEW f \in Fitness, ChainIteration(f)
      PROVE  /\ pc' # "undefined"
             /\ \A c \in ChainIds' : markov_chains'[c].len = 0 => sample_count'[c] <= Ahead(c)'
  <2>1. /\ pc' \in {"chain", "record"} /\ ChainIds' = ChainIds /\ markov_chains' = markov_chains
        /\ CountProposal
    BY <1>2, <1>6 DEF ChainIteration, ProposalKept, ProposalAccepted, AdvanceChain,
       inputs, histories
  <2>2. ASSUME NEW c \in ChainIds, markov_chains'[c].len = 0
        PROVE  sample_count'[c] <= Ahead(c)'
    <3>1. Ahead(c)' = Ahead(c) + (IF c = j THEN 1 ELSE 0) /\ Ahead(c) \in Nat
      BY <1>6, AheadIteration, AheadTyped
    <3>2. sample_count \in [ChainIds -> Nat]
      BY DEF IndInv, TypeOK
    <3>3. sample_count'[c] = IF c = j THEN sample_count[c] + 1 ELSE sample_count[c]
      BY <2>1, <3>2 DEF CountProposal
    <3>4. sample_count[c] <= Ahead(c) /\ sample_count[c] \in Nat
      BY <1>0, <2>1, <2>2, <3>2
    <3> QED BY <3>1, <3>3, <3>4
  <2> QED BY <2>1, <2>2
<1>7. CASE LikelihoodThrows
  <2>1. pc' = "idle" /\ ChainIds' = ChainIds /\ markov_chains' = markov_chains
    BY <1>2, <1>7 DEF LikelihoodThrows, Leave, inputs, histories
  <2> QED BY <1>7, <2>1
<1>8. CASE Record
  <2>1. /\ pc' # "undefined" /\ ChainIds' = ChainIds /\ sample_count' = sample_count
        /\ RecordChain \/ RecordOutput \/ OutputFull
        /\ iterations \in Nat \ {0} /\ i \in Nat /\ j \in ChainIds
    <3>1. SettingsValid
      BY <1>8, ValidInLoop DEF Record, InLoop
    <3> QED BY <1>2, <1>8, <3>1, LoopSettings, LoopFacts
            DEF Record, NextRecord, inputs, counts, IndInv, TypeOK
  <2>2. ASSUME NEW c \in ChainIds, markov_chains'[c].len = 0
        PROVE  sample_count'[c] <= Ahead(c)'
    <3>1. /\ Ahead(c) = Ahead(c)' + (IF c = j THEN thinning_interval ELSE 0)
          /\ Ahead(c)' \in Nat
      BY <1>8, AheadRecord
    <3>2. markov_chains \in [ChainIds -> History] /\ markov_chains[c].len \in Nat
      BY CountsTyped DEF IndInv, TypeOK
    <3>3. CASE RecordChain /\ c = j
      <4>1. markov_chains'[c].len = markov_chains[c].len + 1
        BY <2>1, <3>2, <3>3 DEF RecordChain, Push
      <4> QED BY <2>2, <3>2, <4>1
    <3>4. CASE (RecordOutput \/ OutputFull) /\ c = j
      <4>1. markov_chains[c].len = 0 /\ i > iterations /\ pc = "record"
        BY <1>8, <2>2, <3>4 DEF RecordOutput, OutputFull, Record
      <4>2. simulations * iterations + RoundsRecorded(c) <= markov_chains[c].len
        BY DEF ChainWorkOK
      <4>3. RoundsRecorded(c) = iterations
        BY <2>1, <4>1 DEF RoundsRecorded
      <4>4. simulations * iterations \in Nat
        BY CountsTyped
      <4> QED BY <2>1, <4>1, <4>2, <4>3, <4>4
    <3>5. CASE c # j
      <4>1. markov_chains[c].len = 0
        BY <2>1, <2>2, <3>2, <3>5 DEF RecordChain, RecordOutput, OutputFull
      <4> QED BY <1>0, <2>1, <3>1, <3>5, <4>1
    <3> QED BY <2>1, <3>3, <3>4, <3>5
  <2> QED BY <2>1, <2>2
<1>9. CASE Finish
  <2>1. /\ pc = "finish" /\ pc' = "idle" /\ ChainIds' = ChainIds /\ markov_chains' = markov_chains
    BY <1>2, <1>9 DEF Finish, Leave, inputs, histories
  <2>2. ASSUME NEW c \in ChainIds
        PROVE  markov_chains[c].len # 0
    <3>1. simulations * iterations + RoundsRecorded(c) <= markov_chains[c].len
      BY DEF ChainWorkOK
    <3>2. RoundsRecorded(c) = iterations
      BY <2>1 DEF RoundsRecorded
    <3>3. simulations * iterations \in Nat /\ iterations \in Nat \ {0} /\ markov_chains[c].len \in Nat
      BY <2>1, CountsTyped, ValidInLoop, LoopSettings DEF InLoop
    <3> QED BY <3>1, <3>2, <3>3
  <2> QED BY <2>1, <2>2
<1>10. CASE UNCHANGED vars
  <2>1. UNCHANGED <<settings, markov_chains, sample_count, pc, j, t>>
    BY <1>10 DEF vars, inputs, results, histories, counts, frame, loop
  <2>2. \A c : Ahead(c)' = Ahead(c)
    BY <2>1 DEF Ahead, thinning_interval
  <2> QED BY <1>0, <1>2, <2>1, <2>2
<1> QED BY <1>1, <1>3, <1>4, <1>5, <1>6, <1>7, <1>8, <1>9, <1>10, Steps

\* A proposal that reads what does not exist.
Stuck ==
  /\ pc = "chain" /\ ReadsNothing
  /\ UNCHANGED <<inputs, seeds, simulations, mapStatus, histories, output, map, calls>>

\* The recorded chains are equally long while a chain iterates.
LEMMA EqualChains ==
  ASSUME IndInv, RecordedFirst, pc # "record", NEW a \in ChainIds, NEW b \in ChainIds
  PROVE  markov_chains[a].len = markov_chains[b].len
<1>1. markov_chains[a].len \in Nat /\ markov_chains[b].len \in Nat
  BY CountsTyped
<1>2. a \in Nat /\ b \in Nat
  BY DEF ChainIds
<1>3. a < b \/ a = b \/ b < a
  BY <1>2
<1> QED BY <1>1, <1>3 DEF RecordedFirst

LEMMA GateOpens ==
  ASSUME IndInv, ChainsOK, GateOK, pc = "chain", SnookerAllowed, ~unrecorded,
         NEW c \in ChainIds
  PROVE  markov_chains[c].len >= 1
<1> SUFFICES ASSUME markov_chains[c].len = 0 PROVE FALSE
  BY CountsTyped
<1>1. j \in ChainIds /\ SettingsValid
  BY ValidInLoop DEF IndInv, WithinVectors, InLoop
<1>2. markov_chains[j].len = 0
  BY <1>1, EqualChains DEF ChainsOK
<1>3. /\ thinning_interval \in Nat \ {0} /\ t \in Nat /\ t <= thinning_interval
      /\ sample_count[j] \in Nat
  BY <1>1, LoopSettings, CountsTyped DEF IndInv, TypeOK, ChainsOK, WorkInv, LoopOK
<1>4. sample_count[j] <= t - 1
  <2>1. ~(j < j) /\ Ahead(j) = t - 1
    BY <1>1 DEF Ahead, ChainIds
  <2> QED BY <1>1, <1>2, <2>1 DEF GateOK
<1>5. SnookerGate * thinning_interval >= thinning_interval
  <2>1. SnookerGate \in Nat \ {0}
    BY GateAssumption
  <2> QED BY <1>3, <2>1
<1>6. SnookerGate * thinning_interval \in Nat
  BY <1>3, GateAssumption
<1>7. sample_count[j] + 1 > SnookerGate * thinning_interval
  BY DEF SnookerAllowed
<1> QED BY <1>3, <1>4, <1>5, <1>6, <1>7

LEMMA UpdateSteps ==
  ASSUME OwnPopulation, IndInv, ChainsOK, GateOK, NEW f \in Fitness,
         ParallelUpdate(f) \/ SnookerUpdate(f)
  PROVE  ChainIteration(f) \/ (Stuck /\ unrecorded)
<1>1. /\ pc = "chain" /\ SettingsValid /\ number_of_chains >= 3 /\ j \in ChainIds
      /\ number_of_chains \in Nat
  BY ValidInLoop, LoopSettings, LimitsAssumption DEF OwnPopulation, SettingsValid,
     ParallelUpdate, SnookerUpdate, InLoop, IndInv, WithinVectors
<1>2. \A new : Propose(new, TRUE) /\ pc = "chain" => ChainIteration(new)
  BY DEF Propose, ChainIteration
<1>3. \A new : Propose(new, FALSE) /\ pc = "chain" => Stuck
  BY DEF Propose, Stuck
<1>4. CASE ParallelUpdate(f)
  <2>1. population_matrix >= 2
    <3>1. /\ population_matrix >= SumFunction(MarkovLens) + initial_iterations
          /\ SumFunction(MarkovLens) \in Nat /\ initial_iterations \in Nat
          /\ initial_iterations >= number_of_chains /\ population_matrix \in Nat
      BY <1>1, RecordedTyped, SettingsTyped
         DEF ChainsOK, PopulationOK, InLoop, SettingsValid, IndInv, TypeOK
    <3> QED BY <1>1, <3>1
  <2>2. Propose(f, TRUE)
    BY <1>4, <2>1 DEF ParallelUpdate, Propose
  <2> QED BY <1>1, <1>2, <2>2
<1>5. CASE SnookerUpdate(f)
  <2>1. PICK c \in ChainIds \ {j} : \E c1 \in ChainIds \ {c} : \E c2 \in ChainIds \ {c, c1} :
          Propose(f, /\ markov_chains[c].len >= 1
                     /\ \A d \in {c1, c2} : markov_chains[c].len <= markov_chains[d].len)
    BY <1>5 DEF SnookerUpdate
  <2>2. PICK c1 \in ChainIds, c2 \in ChainIds :
          Propose(f, /\ markov_chains[c].len >= 1
                     /\ \A d \in {c1, c2} : markov_chains[c].len <= markov_chains[d].len)
    BY <2>1
  <2>3. \A d \in {c1, c2} : markov_chains[c].len <= markov_chains[d].len
    BY <1>1, <2>1, <2>2, EqualChains, CountsTyped DEF ChainsOK
  <2>4. CASE markov_chains[c].len >= 1
    <3>1. Propose(f, TRUE)
      BY <2>2, <2>3, <2>4 DEF Propose
    <3> QED BY <1>1, <1>2, <3>1
  <2>5. CASE ~(markov_chains[c].len >= 1)
    <3>1. Propose(f, FALSE)
      BY <2>2, <2>5 DEF Propose
    <3>2. unrecorded
      BY <1>1, <1>5, <2>1, <2>5, GateOpens DEF SnookerUpdate
    <3> QED BY <1>1, <1>3, <3>1, <3>2
  <2> QED BY <2>4, <2>5
<1> QED BY <1>4, <1>5

LEMMA StuckStep ==
  ASSUME IndInv, ChainsOK, Stuck
  PROVE  IndInv' /\ ChainsOK'
<1>1. /\ UNCHANGED <<inputs, seeds, simulations, mapStatus, histories, output, map, calls, loop,
                     temp_population, returned_from, accept_count, chain_states>>
      /\ pc = "chain" /\ pc' = "undefined" /\ CountProposal
  BY DEF Stuck, ReadsNothing
<1>2. /\ number_of_chains' = number_of_chains /\ ChainIds' = ChainIds
      /\ iterations' = iterations /\ thinning_interval' = thinning_interval
      /\ initial_iterations' = initial_iterations
  BY <1>1, SameSettings DEF inputs, fields
<1>3. /\ sample_count' \in [ChainIds -> Nat]
      /\ \A c \in ChainIds : sample_count'[c] >= sample_count[c] /\ sample_count[c] \in Nat
  <2>1. sample_count \in [ChainIds -> Nat]
    BY DEF IndInv, TypeOK
  <2>2. \A c \in ChainIds : sample_count'[c] = IF c = j THEN sample_count[c] + 1 ELSE sample_count[c]
    BY <1>1, <2>1 DEF CountProposal
  <2>3. \A c \in ChainIds : sample_count[c] \in Nat
    BY <2>1
  <2>4. sample_count' \in [ChainIds -> Nat]
    <3>1. j \in ChainIds
      BY <1>1 DEF IndInv, WithinVectors
    <3> QED BY <1>1, <2>1, <2>3, <3>1 DEF CountProposal
  <2> QED BY <2>2, <2>3, <2>4
<1>4. IndInv'
  <2>1. TypeOK'
    <3>1. pc' \in Pcs
      BY <1>1 DEF Pcs
    <3> QED BY <1>1, <1>2, <1>3, <3>1, Zenon
            DEF IndInv, TypeOK, inputs, fields, seeds, mapStatus, histories, loop
  <2>2. WithinVectors' /\ FrameOK'
    BY <1>1, <1>2 DEF IndInv, WithinVectors, FrameOK, Running, loop
  <2> QED BY <2>1, <2>2 DEF IndInv
<1>5. RecordedFirst'
  BY <1>1, <1>2 DEF ChainsOK, RecordedFirst, histories
<1>6. LoopOK' /\ NoSeeds'
  BY <1>1 DEF ChainsOK, WorkInv, LoopOK, NoSeeds, seeds
<1>7. ChainWorkOK'
  <2> SUFFICES ASSUME NEW c \in ChainIds'
               PROVE  (/\ accept_count[c] <= sample_count[c]
                       /\ thinning_interval * (markov_chains[c].len + output[c].len) + Ahead(c)
                            <= sample_count[c]
                       /\ simulations * iterations + RoundsRecorded(c) <= markov_chains[c].len)'
    BY DEF ChainWorkOK
  <2> DEFINE p == thinning_interval * (markov_chains[c].len + output[c].len)
             q == simulations * iterations
  <2>1. /\ p' = p /\ q' = q /\ markov_chains' = markov_chains /\ accept_count' = accept_count
        /\ Ahead(c)' = 0 /\ RoundsRecorded(c)' = 0
    BY <1>1, <1>2 DEF histories, Ahead, RoundsRecorded
  <2>2. /\ accept_count[c] <= sample_count[c] /\ p + Ahead(c) <= sample_count[c]
        /\ q + RoundsRecorded(c) <= markov_chains[c].len
    BY <1>2 DEF ChainsOK, WorkInv, ChainWorkOK
  <2>3. /\ accept_count[c] \in Nat /\ sample_count[c] \in Nat /\ sample_count'[c] \in Nat
        /\ sample_count'[c] >= sample_count[c] /\ markov_chains[c].len \in Nat
        /\ Ahead(c) \in Nat
    BY <1>2, <1>3, CountsTyped, AheadTyped
  <2>4. RoundsRecorded(c) \in Nat
    <3>1. i \in Nat /\ i >= 1 /\ iterations \in Nat
      BY SettingsTyped DEF IndInv, TypeOK, FrameOK
    <3> QED BY <3>1 DEF RoundsRecorded
  <2>5. p \in Nat /\ q \in Nat
    BY <1>2, CountsTyped
  <2> HIDE DEF p, q
  <2>6. accept_count'[c] <= sample_count'[c] /\ p' + 0 <= sample_count'[c] /\ q' + 0 <= markov_chains'[c].len
    BY <2>1, <2>2, <2>3, <2>4, <2>5
  <2> QED BY <2>1, <2>6 DEF p, q
<1>8. MeanOK' /\ PopulationOK'
  <2>1. MarkovLens' = MarkovLens
    BY <1>1, <1>2 DEF MarkovLens, histories
  <2> QED BY <1>1, <1>2, <2>1 DEF ChainsOK, WorkInv, MeanOK, PopulationOK, InLoop, inputs,
          fields, histories
<1> QED BY <1>4, <1>5, <1>6, <1>7, <1>8 DEF ChainsOK, WorkInv

EvolutionInv == IndInv /\ ChainsOK /\ GateOK

LEMMA InitEvolution ==
  ASSUME Init, unrecorded = FALSE
  PROVE  EvolutionInv
<1>1. IndInv /\ WorkInv
  BY InitInd, InitWork
<1>2. RecordedFirst
  BY DEF Init, RecordedFirst, Empty
<1>3. PopulationOK
  <2> DEFINE z == [c \in ChainIds |-> 0]
  <2>1. MarkovLens = z
    BY DEF Init, MarkovLens, Empty
  <2>2. IsFiniteSet(ChainIds) /\ DOMAIN z = ChainIds /\ \A c \in ChainIds : z[c] = 0
    BY <1>1, SettingsTyped, FS_Interval DEF ChainIds, IndInv, TypeOK
  <2> HIDE DEF z
  <2>3. SumFunction(z) = 0
    BY <2>2, SumZero DEF SumFunction
  <2> QED BY <2>1, <2>3 DEF Init, PopulationOK, InLoop
<1>4. GateOK
  <2>1. \A c \in ChainIds : Ahead(c) = 0 /\ sample_count[c] = 0
    BY DEF Init, Ahead
  <2> QED BY <2>1 DEF Init, GateOK
<1> QED BY <1>1, <1>2, <1>3, <1>4 DEF EvolutionInv, ChainsOK

LEMMA EvolutionStep ==
  ASSUME OwnPopulation, EvolutionInv, [DEMCzsNext]_<<vars, unrecorded>>
  PROVE  EvolutionInv'
<1> USE DEF EvolutionInv
<1>1. CASE Stuck /\ unrecorded /\ unrecorded' = unrecorded
  BY <1>1, StuckStep DEF GateOK
<1>2. ASSUME [Next]_vars,
             \/ unrecorded' = unrecorded /\ ~LikelihoodThrows
             \/ unrecorded' = (unrecorded \/ \E c \in ChainIds : markov_chains[c].len = 0)
      PROVE  EvolutionInv'
  <2>1. IndInv'
    BY <1>2, NextInd
  <2>2. ChainsOK'
    BY <1>2, <2>1, RecordedStep, WorkStep, PopulationStep DEF ChainsOK, WorkInv, OwnPopulation
  <2>3. GateOK'
    <3>1. CASE unrecorded'
      BY <3>1 DEF GateOK
    <3>2. CASE ~unrecorded'
      <4>1. ~unrecorded /\ (LikelihoodThrows => \A c \in ChainIds : markov_chains[c].len # 0)
        <5>1. CASE unrecorded' = (unrecorded \/ \E c \in ChainIds : markov_chains[c].len = 0)
          <6>1. ~(unrecorded \/ \E c \in ChainIds : markov_chains[c].len = 0)
            BY <3>2, <5>1, Zenon
          <6> QED BY <6>1
        <5>2. CASE unrecorded' = unrecorded /\ ~LikelihoodThrows
          BY <3>2, <5>2, Zenon
        <5> QED BY <1>2, <5>1, <5>2
      <4> QED BY <1>2, <2>1, <3>2, <4>1, GateStep
    <3> QED BY <3>1, <3>2
  <2> QED BY <2>1, <2>2, <2>3
<1>3. CASE UNCHANGED <<vars, unrecorded>>
  <2>1. ~LikelihoodThrows
    BY <1>3 DEF vars, frame, LikelihoodThrows, Leave
  <2> QED BY <1>2, <1>3, <2>1
<1>4. CASE LikelihoodThrows /\ unrecorded' = (unrecorded \/ \E c \in ChainIds : markov_chains[c].len = 0)
  BY <1>2, <1>4 DEF Next, Proposal
<1>5. CASE /\ Host \/ InitializeChains \/ InitializeCustomSettings \/ Record \/ Finish
           /\ unrecorded' = unrecorded
  <2>1. [Next]_vars
    BY <1>5 DEF Next, Driver, Initialisation
  <2>2. pc # "chain"
    BY <1>5 DEF Host, SetterCall, SetInput, AssignField, SeedCall, SeedPopulation, SeedChain,
       ClearSeed, Sample, InitializeChains, InitializeUserDefined, MaximizeFails, MaximizeSucceeds,
       MvnDraw, RandomDraw, MvnFails, StartRandomize, DrawThrows, InitializeCustomSettings, Record,
       Finish
  <2>3. ~LikelihoodThrows
    BY <2>2 DEF LikelihoodThrows
  <2> QED BY <1>2, <1>5, <2>1, <2>3
<1>6. CASE Update /\ unrecorded' = unrecorded
  <2>1. PICK f \in Fitness : ParallelUpdate(f) \/ SnookerUpdate(f)
    BY <1>6 DEF Update
  <2>2. CASE ChainIteration(f)
    <3>1. ~LikelihoodThrows
      BY <2>2 DEF ChainIteration, ProposalKept, ProposalAccepted, AdvanceChain,
         LikelihoodThrows, Leave
    <3> QED BY <1>2, <1>6, <2>2, <3>1 DEF Next, Proposal
  <2>3. CASE Stuck /\ unrecorded
    BY <1>1, <1>6, <2>3
  <2> QED BY <2>1, <2>2, <2>3, UpdateSteps
<1> QED BY <1>3, <1>4, <1>5, <1>6 DEF DEMCzsNext

LEMMA EvolutionIsDefined ==
  ASSUME OwnPopulation, EvolutionInv
  PROVE  ProposalsAreDefined
<1> USE DEF EvolutionInv, ChainsOK
<1>1. unrecorded \/ pc # "undefined"
  BY DEF GateOK
<1>2. ASSUME pc = "chain", SnookerAllowed, NEW c \in ChainIds
      PROVE  /\ markov_chains[c].len = markov_chains[1].len
             /\ ~unrecorded => markov_chains[c].len >= 1
  <2>1. 1 \in ChainIds
    <3>1. SettingsValid
      BY <1>2, ValidInLoop DEF InLoop
    <3> QED BY <3>1, LoopSettings DEF ChainIds
  <2> QED BY <1>2, <2>1, EqualChains, GateOpens
<1>3. InLoop => population_matrix >= initial_iterations + Recorded
  <2>1. SumFunction(MarkovLens) \in Nat /\ initial_iterations \in Nat
    BY RecordedTyped, SettingsTyped DEF IndInv, TypeOK
  <2>2. Recorded = SumFunction(MarkovLens)
    BY DEF Recorded, MarkovLens
  <2> QED BY <2>1, <2>2 DEF PopulationOK
<1> QED BY <1>1, <1>2, <1>3 DEF ProposalsAreDefined, InLoop

\* Every proposal of the snooker sampler reads rows and states that exist, unless a
\* likelihood threw before every chain had recorded a state, for any number of chains
\* from three on, any thinning and any gate (demczs.hpp:50-57, 147-152, 214-221).
THEOREM ProposalsDefined == ASSUME OwnPopulation PROVE DEMCzsSpec => []ProposalsAreDefined
<1>1. Init /\ unrecorded = FALSE => EvolutionInv
  BY InitEvolution
<1>2. EvolutionInv /\ [DEMCzsNext]_<<vars, unrecorded>> => EvolutionInv'
  BY EvolutionStep
<1>3. EvolutionInv => ProposalsAreDefined
  BY EvolutionIsDefined
<1> QED BY <1>1, <1>2, <1>3, PTL DEF DEMCzsSpec

\* The counts agree with the histories in the snooker sampler too, also when a
\* proposal has read what does not exist.
THEOREM EvolutionAccounted == ASSUME OwnPopulation PROVE DEMCzsSpec => []WorkAccounted
<1>1. Init /\ unrecorded = FALSE => EvolutionInv
  BY InitEvolution
<1>2. EvolutionInv /\ [DEMCzsNext]_<<vars, unrecorded>> => EvolutionInv'
  BY EvolutionStep
<1>3. EvolutionInv => WorkAccounted
  BY WorkIsAccounted DEF EvolutionInv, ChainsOK
<1> QED BY <1>1, <1>2, <1>3, PTL DEF DEMCzsSpec

=============================================================================
