------------------------- MODULE CallbackRunsProofs ------------------------
(***************************************************************************)
(* Theorems about CallbackRuns, for any number of runs, nested to any      *)
(* depth, with any number of calls and exceptions.                         *)
(*                                                                         *)
(* The invariant says of every active run what its latch has to do with    *)
(* what happened in it (FrameOK), and that runs are told apart by their    *)
(* number, so that no two of them share a borrow.                          *)
(***************************************************************************)
EXTENDS CallbackRuns, TLAPS

Frames ==
  [method : Methods, run : 0..MaxRuns, stage : {"probe", "run", "post", "value"},
   via : Guards \cup {"algorithm", "unguarded"}, aborted : BOOLEAN, error : Errors,
   calls : 0..MaxCalls, threw : SUBSET Guards, first : Errors, poisoned : BOOLEAN]

\* The latch is set exactly when a callback threw and holds what the caller is
\* owed; a sentinel is only seen after that, and no host code any more.
FrameOK(f) ==
  /\ f.aborted <=> f.threw # {}
  /\ f.aborted => f.via = "algorithm" /\ f.first = rethrown(f)
  /\ f.poisoned => f.aborted
  /\ f.stage \in {"probe", "value"} => ~f.aborted
  /\ f.via \in Guards => f.calls < MaxCalls /\ f.stage \in {"run", "post"}

\* A run that is not the innermost one is in the host; runs are numbered.
StackOK ==
  /\ \A d \in 1..depth : FrameOK(frames[d]) /\ frames[d].run \in 1..runs
  /\ \A d \in 1..(depth - 1) : frames[d].via # "algorithm"
  /\ \A d, e \in 1..depth : frames[d].run = frames[e].run => d = e

IndInv == TypeOK /\ StackOK /\ FirstErrorReported /\ NoPoisonedResult /\ BorrowsAreLive

-----------------------------------------------------------------------------

LEMMA GuardFacts ==
  /\ Methods = {"sample", "fit", "nelder_mead"}
  /\ Guards = {"log_likelihood", "proposal", "moment", "jacobian", "objective"}
  /\ RngGuards \subseteq Guards
  /\ \A m \in Methods : GuardsOf[m] \subseteq Guards
<1>1. Methods = {"sample", "fit", "nelder_mead"}
  BY DEF Methods, GuardsOf
<1>2. Guards = {"log_likelihood", "proposal", "moment", "jacobian", "objective"}
  BY <1>1 DEF Guards, GuardsOf
<1> QED BY <1>1, <1>2 DEF RngGuards, GuardsOf

LEMMA NewFrameOK ==
  ASSUME NEW m \in Methods, NEW r \in 0..MaxRuns
  PROVE  NewFrame(m, r) \in Frames /\ FrameOK(NewFrame(m, r)) /\ NewFrame(m, r).run = r
         /\ NewFrame(m, r).via = "algorithm"
<1>1. NewFrame(m, r) \in Frames
  BY BoundsAssumption DEF NewFrame, Frames, Errors, None
<1> QED BY <1>1, GuardFacts DEF NewFrame, FrameOK, rethrown, None

LEMMA TopFacts ==
  ASSUME IndInv, depth > 0
  PROVE  /\ depth \in Levels /\ top \in Frames /\ FrameOK(top) /\ top.run \in 1..runs
         /\ top.via \notin RngGuards => Borrow(top) \notin valid
<1>1. depth \in Levels /\ depth \in 1..depth
  BY DEF IndInv, TypeOK, Levels
<1>2. top \in Frames /\ FrameOK(top) /\ top.run \in 1..runs
  BY <1>1 DEF IndInv, TypeOK, StackOK, top, Frames
<1>3. ASSUME top.via \notin RngGuards, Borrow(top) \in valid PROVE FALSE
  <2>1. PICK e \in 1..depth : frames[e].via \in RngGuards /\ Borrow(top) = Borrow(frames[e])
    BY <1>3 DEF IndInv, BorrowsAreLive
  <2>2. frames[e].run = frames[depth].run
    BY <2>1 DEF Borrow, top
  <2>3. e = depth
    BY <1>1, <2>1, <2>2 DEF IndInv, StackOK
  <2> QED BY <1>3, <2>1, <2>3 DEF top
<1> QED BY <1>1, <1>2, <1>3

\* The innermost run changes its frame and, with it, what it lends.
LEMMA SetTopInv ==
  ASSUME IndInv, depth > 0, NEW f \in Frames, FrameOK(f), f.run = top.run, SetTop(f),
         UNCHANGED <<depth, runs, report>>, thrown' \in 0..MaxThrows, raised' \in Errors,
         valid' = (valid \ {Borrow(top)})
                    \cup (IF f.via \in RngGuards THEN {Borrow(f)} ELSE {})
  PROVE  IndInv'
<1>1. /\ depth \in Levels /\ frames \in [Levels -> Frames]
      /\ frames' = [frames EXCEPT ![depth] = f] /\ top = frames[depth]
      /\ f.run \in 1..runs
  BY TopFacts DEF IndInv, TypeOK, SetTop, top, Frames
<1>2. frames'[depth] = f /\ \A d \in 1..depth : d # depth => frames'[d] = frames[d]
  BY <1>1 DEF Levels
<1>3. valid' \subseteq (1..MaxRuns) \X (0..MaxCalls)
  BY <1>1 DEF IndInv, TypeOK, Borrow, Frames
<1>4. TypeOK'
  <2>1. frames' \in [Levels -> Frames]
    BY <1>1
  <2> QED BY <1>3, <2>1 DEF IndInv, TypeOK, Frames
<1>5. StackOK'
  BY <1>1, <1>2 DEF IndInv, StackOK
<1>6. BorrowsAreLive'
  <2>1. ASSUME NEW b \in valid'
        PROVE  \E d \in 1..depth : frames'[d].via \in RngGuards /\ b = Borrow(frames'[d])
    <3>1. CASE f.via \in RngGuards /\ b = Borrow(f)
      BY <1>1, <1>2, <3>1 DEF Levels
    <3>2. CASE b \in valid \ {Borrow(top)}
      <4>1. PICK d \in 1..depth : frames[d].via \in RngGuards /\ b = Borrow(frames[d])
        BY <3>2 DEF IndInv, BorrowsAreLive
      <4>2. d # depth
        BY <1>1, <3>2, <4>1
      <4> QED BY <1>2, <4>1, <4>2
    <3> QED BY <2>1, <3>1, <3>2
  <2>2. ASSUME NEW d \in 1..depth, frames'[d].via \in RngGuards
        PROVE  Borrow(frames'[d]) \in valid'
    <3>1. CASE d = depth
      BY <1>2, <2>2, <3>1
    <3>2. CASE d # depth
      <4>1. frames'[d] = frames[d] /\ Borrow(frames[d]) \in valid
        BY <1>2, <2>2, <3>2 DEF IndInv, BorrowsAreLive
      <4>2. frames[d].run # frames[depth].run
        BY <1>1, <3>2 DEF IndInv, StackOK, Levels
      <4>3. Borrow(frames[d]) # Borrow(top)
        BY <1>1, <4>2 DEF Borrow
      <4> QED BY <4>1, <4>3
    <3> QED BY <3>1, <3>2
  <2> QED BY <2>1, <2>2 DEF BorrowsAreLive
<1> QED BY <1>4, <1>5, <1>6 DEF IndInv, FirstErrorReported, NoPoisonedResult

\* The innermost run ends and reports what its caller is owed.
LEMMA EndRunInv ==
  ASSUME IndInv, depth > 0, top.via \notin RngGuards, NEW e \in Errors, EndRun(e),
         UNCHANGED <<runs, valid>>, thrown' \in 0..MaxThrows,
         top.threw # {} => e = top.first, e = None => ~top.poisoned
  PROVE  IndInv'
<1>1. /\ depth \in Levels /\ frames \in [Levels -> Frames] /\ top \in Frames
      /\ NoFrame \in Frames
  BY TopFacts, NewFrameOK, GuardFacts, BoundsAssumption DEF IndInv, TypeOK, Frames, NoFrame
<1>2. /\ frames' = [frames EXCEPT ![depth] = NoFrame] /\ depth' = depth - 1
      /\ \A d \in 1..(depth - 1) : frames'[d] = frames[d]
  BY <1>1 DEF EndRun, Levels
<1>3. TypeOK'
  <2>1. frames' \in [Levels -> Frames]
    BY <1>1, <1>2
  <2> depth' \in 0..MaxDepth
    BY <1>1, <1>2, BoundsAssumption DEF Levels
  <2>2. report' \in [result : Errors, threw : SUBSET Guards, first : Errors, poisoned : BOOLEAN]
    BY <1>1 DEF EndRun, Frames
  <2>3. raised' \in Errors
    BY BoundsAssumption DEF EndRun, Errors, None
  <2> QED BY <2>1, <2>2, <2>3 DEF IndInv, TypeOK, Frames
<1>4. StackOK'
  BY <1>1, <1>2 DEF IndInv, StackOK, Levels
<1>5. FirstErrorReported' /\ NoPoisonedResult'
  BY DEF EndRun, FirstErrorReported, NoPoisonedResult
<1>6. BorrowsAreLive'
  <2>1. \A d \in 1..depth : frames[d].via \in RngGuards => d \in 1..(depth - 1)
    BY <1>1 DEF top, Levels
  <2>2. 1..(depth - 1) \subseteq 1..depth
    BY <1>1 DEF Levels
  <2> QED BY <1>2, <2>1, <2>2 DEF IndInv, BorrowsAreLive
<1> QED BY <1>3, <1>4, <1>5, <1>6 DEF IndInv
-----------------------------------------------------------------------------

LEMMA InitInv == Init => IndInv
<1> SUFFICES ASSUME Init PROVE IndInv
  OBVIOUS
<1> USE BoundsAssumption DEF Init
<1>1. NoFrame \in Frames
  BY NewFrameOK, GuardFacts DEF NoFrame
<1>2. TypeOK
  BY <1>1 DEF TypeOK, Frames, Errors, None
<1>3. StackOK /\ BorrowsAreLive
  BY DEF StackOK, BorrowsAreLive
<1> QED BY <1>2, <1>3 DEF IndInv, FirstErrorReported, NoPoisonedResult, None

LEMMA StartRunInv ==
  ASSUME IndInv, NEW m \in Methods, StartRun(m)
  PROVE  IndInv'
<1> DEFINE f == NewFrame(m, runs + 1)
<1>1. f \in Frames /\ FrameOK(f) /\ f.run = runs + 1 /\ f.via = "algorithm"
  BY NewFrameOK, BoundsAssumption DEF StartRun, IndInv, TypeOK
<1> HIDE DEF f
<1>2. /\ frames' = [frames EXCEPT ![depth + 1] = f] /\ depth' = depth + 1 /\ runs' = runs + 1
      /\ depth + 1 \in Levels /\ depth \in Nat /\ runs \in Nat /\ runs + 1 \in 1..MaxRuns
      /\ UNCHANGED <<thrown, valid, raised, report>>
  BY BoundsAssumption DEF StartRun, IndInv, TypeOK, Levels, f
<1>3. /\ frames'[depth + 1] = f /\ \A d \in 1..depth : frames'[d] = frames[d]
      /\ 1..depth' = 1..depth \cup {depth + 1}
  BY <1>2 DEF IndInv, TypeOK, Levels
<1>4. TypeOK'
  <2>1. frames' \in [Levels -> Frames]
    BY <1>1, <1>2 DEF IndInv, TypeOK, Frames
  <2>2. depth' \in 0..MaxDepth /\ runs' \in 0..MaxRuns
    BY <1>2, BoundsAssumption DEF Levels
  <2> QED BY <1>2, <2>1, <2>2 DEF IndInv, TypeOK, Frames
<1>5. StackOK'
  <2>1. \A d \in 1..depth : frames[d].via # "algorithm"
    BY <1>2 DEF StartRun, InHost, IndInv, StackOK, top
  <2>2. \A d \in 1..depth' : FrameOK(frames'[d]) /\ frames'[d].run \in 1..runs'
    <3>1. ASSUME NEW d \in 1..depth PROVE FrameOK(frames'[d]) /\ frames'[d].run \in 1..runs'
      <4>1. frames'[d] = frames[d] /\ FrameOK(frames[d]) /\ frames[d].run \in 1..runs
        BY <1>3 DEF IndInv, StackOK
      <4> QED BY <1>2, <4>1
    <3>2. FrameOK(frames'[depth + 1]) /\ frames'[depth + 1].run \in 1..runs'
      BY <1>1, <1>2, <1>3
    <3> QED BY <1>3, <3>1, <3>2
  <2>3. \A d \in 1..(depth' - 1) : frames'[d].via # "algorithm"
    BY <1>2, <1>3, <2>1
  <2>4. \A d, e \in 1..depth' : frames'[d].run = frames'[e].run => d = e
    <3>1. ASSUME NEW d \in 1..depth PROVE frames'[d].run # frames'[depth + 1].run
      <4>1. frames'[d] = frames[d] /\ frames[d].run \in 1..runs
        BY <1>3 DEF IndInv, StackOK
      <4> QED BY <1>1, <1>2, <1>3, <4>1
    <3>2. ASSUME NEW d \in 1..depth, NEW e \in 1..depth, frames'[d].run = frames'[e].run PROVE d = e
      BY <1>3, <3>2 DEF IndInv, StackOK
    <3> QED BY <1>3, <3>1, <3>2
  <2> QED BY <2>2, <2>3, <2>4 DEF StackOK
<1>6. BorrowsAreLive'
  <2>1. f.via \notin RngGuards
    BY <1>1, GuardFacts
  <2>2. {e \in 1..depth' : frames'[e].via \in RngGuards} = {e \in 1..depth : frames[e].via \in RngGuards}
    BY <1>3, <2>1
  <2> QED BY <1>2, <1>3, <2>2 DEF IndInv, BorrowsAreLive
<1> QED BY <1>2, <1>4, <1>5, <1>6 DEF IndInv, FirstErrorReported, NoPoisonedResult

LEMMA GuardedReturnsInv ==
  ASSUME IndInv, GuardedReturns
  PROVE  IndInv'
<1> DEFINE f == [top EXCEPT !.via = "algorithm", !.calls = @ + 1]
<1>1. /\ depth > 0 /\ top \in Frames /\ FrameOK(top) /\ top.via \in Guards /\ "algorithm" \notin Guards
      /\ SetTop(f) /\ valid' = valid \ {Borrow(top)} /\ UNCHANGED <<depth, runs, thrown, raised, report>>
  BY TopFacts, GuardFacts DEF GuardedReturns, InHost, ScopeEnds
<1>2. /\ f.via = "algorithm" /\ f.calls = top.calls + 1 /\ f.run = top.run /\ f.stage = top.stage
      /\ f.aborted = top.aborted /\ f.threw = top.threw /\ f.poisoned = top.poisoned
  BY <1>1 DEF Frames
<1>3. top.calls + 1 \in 0..MaxCalls /\ ~top.aborted
  BY <1>1, BoundsAssumption DEF Frames, FrameOK
<1>4. f \in Frames
  BY <1>1, <1>3 DEF Frames
<1>5. FrameOK(f) /\ f.via \notin RngGuards
  BY <1>1, <1>2, <1>3, GuardFacts DEF FrameOK
<1> QED BY <1>1, <1>2, <1>4, <1>5, SetTopInv DEF IndInv, TypeOK

LEMMA UnguardedReturnsInv ==
  ASSUME IndInv, UnguardedReturns
  PROVE  IndInv'
<1> DEFINE f == [top EXCEPT !.via = "algorithm", !.stage = "run"]
<1>1. /\ depth > 0 /\ top \in Frames /\ FrameOK(top) /\ top.via = "unguarded"
      /\ top.via \notin RngGuards /\ Borrow(top) \notin valid
      /\ UNCHANGED <<runs, thrown, valid>>
  BY TopFacts, GuardFacts DEF UnguardedReturns, InHost
<1>2. ~top.aborted /\ top.threw = {} /\ ~top.poisoned
  BY <1>1 DEF FrameOK
<1>3. CASE top.stage = "probe"
  <2>1. SetTop(f) /\ UNCHANGED <<depth, raised, report>>
    BY <1>3 DEF UnguardedReturns
  <2>2. f \in Frames /\ FrameOK(f) /\ f.run = top.run /\ f.via \notin RngGuards
    BY <1>1, <1>2, GuardFacts DEF Frames, FrameOK
  <2> QED BY <1>1, <2>1, <2>2, SetTopInv DEF IndInv, TypeOK
<1>4. CASE top.stage # "probe"
  <2>1. EndRun(None) /\ None \in Errors
    BY <1>4, BoundsAssumption DEF UnguardedReturns, Errors, None
  <2> QED BY <1>1, <1>2, <2>1, EndRunInv DEF IndInv, TypeOK
<1> QED BY <1>3, <1>4

\* A callback ends with an exception.
LEMMA CallbackEndsInv ==
  ASSUME IndInv, depth > 0, top.via # "algorithm", NEW e \in Errors, e # None,
         NEW captured \in BOOLEAN, CallbackEnds(e, captured), UNCHANGED runs,
         thrown' \in 0..MaxThrows
  PROVE  IndInv'
<1>1. /\ top \in Frames /\ FrameOK(top) /\ top.via \in Guards \cup {"unguarded"}
      /\ ~top.aborted /\ top.threw = {} /\ ~top.poisoned
      /\ top.via \notin RngGuards => Borrow(top) \notin valid
      /\ None \in Errors /\ Unusable \in Errors
  BY TopFacts, BoundsAssumption DEF Frames, FrameOK, Errors, None, Unusable
<1>2. CASE top.via \in Guards
  <2> DEFINE stored == IF captured THEN e ELSE None
             owed == IF captured THEN e ELSE Unusable
             f == [top EXCEPT !.aborted = TRUE, !.error = stored, !.via = "algorithm",
                              !.poisoned = TRUE, !.threw = {top.via}, !.first = owed]
  <2>1. [latch(top, stored) EXCEPT
           !.via = "algorithm", !.poisoned = TRUE, !.threw = @ \cup {top.via},
           !.first = IF top.threw # {} THEN @ ELSE owed] = f
    <3> HIDE DEF stored, owed
    <3> QED BY <1>1 DEF latch, Frames
  <2>2. SetTop(f) /\ valid' = valid \ {Borrow(top)} /\ raised' = None /\ UNCHANGED <<depth, report>>
    BY <1>2, <2>1 DEF CallbackEnds, ScopeEnds
  <2>3. /\ stored \in Errors /\ owed \in Errors
        /\ owed = IF stored # None THEN stored ELSE Unusable
    BY <1>1
  <2> HIDE DEF stored, owed
  <2>4. f \in Frames /\ f.run = top.run /\ f.via \notin RngGuards
    BY <1>1, <1>2, <2>3, GuardFacts DEF Frames
  <2>5. FrameOK(f)
    <3>1. /\ f.aborted = TRUE /\ f.error = stored /\ f.via = "algorithm" /\ f.first = owed
          /\ f.threw # {} /\ f.stage = top.stage
      BY <1>1 DEF Frames
    <3>2. f.stage \notin {"probe", "value"}
      BY <1>1, <1>2, <3>1 DEF FrameOK
    <3> HIDE DEF f
    <3> QED BY <2>3, <3>1, <3>2, GuardFacts DEF FrameOK, rethrown
  <2> QED BY <1>1, <2>2, <2>4, <2>5, SetTopInv
<1>3. CASE top.via \notin Guards
  <2>1. EndRun(e) /\ UNCHANGED valid
    BY <1>3 DEF CallbackEnds
  <2> QED BY <1>1, <1>3, <2>1, GuardFacts, EndRunInv
<1> QED BY <1>2, <1>3

LEMMA HostInv == IndInv /\ Host => IndInv'
<1> SUFFICES ASSUME IndInv, Host PROVE IndInv'
  OBVIOUS
<1>1. ASSUME NEW m \in Methods, StartRun(m) PROVE IndInv'
  BY <1>1, StartRunInv
<1>2. CASE HostCatches
  <2>1. TypeOK'
    BY <1>2, BoundsAssumption DEF HostCatches, IndInv, TypeOK, Errors, None
  <2> QED BY <1>2, <2>1
        DEF HostCatches, IndInv, StackOK, FirstErrorReported, NoPoisonedResult, BorrowsAreLive
<1>3. ASSUME NEW captured \in BOOLEAN, HostThrows(captured) PROVE IndInv'
  <2>1. /\ depth > 0 /\ top.via # "algorithm" /\ thrown' = thrown + 1 /\ thrown < MaxThrows
        /\ CallbackEnds(thrown + 1, captured) /\ UNCHANGED runs /\ thrown \in Nat
    BY <1>3 DEF HostThrows, InHost, IndInv, TypeOK
  <2>2. thrown + 1 \in Errors /\ thrown + 1 # None /\ thrown' \in 0..MaxThrows
    BY <2>1, BoundsAssumption DEF Errors, None
  <2> QED BY <2>1, <2>2, CallbackEndsInv
<1>4. ASSUME NEW captured \in BOOLEAN, HostPropagates(captured) PROVE IndInv'
  BY <1>4, CallbackEndsInv DEF HostPropagates, InHost, IndInv, TypeOK
<1> QED BY <1>1, <1>2, <1>3, <1>4, GuardedReturnsInv, UnguardedReturnsInv DEF Host

\* The innermost run is in its algorithm: it lends nothing, and what the drive
\* site throws is what the caller is owed.
LEMMA AlgorithmFacts ==
  ASSUME IndInv, AlgorithmRuns
  PROVE  /\ depth > 0 /\ top \in Frames /\ FrameOK(top) /\ top.via = "algorithm"
         /\ top.via \notin RngGuards /\ valid = valid \ {Borrow(top)}
         /\ Internal \in Errors /\ Internal # None /\ None \in Errors
         /\ rethrown(top) \in Errors /\ rethrown(top) # None
         /\ top.threw # {} => rethrows(top) /\ rethrown(top) = top.first
         /\ ~rethrows(top) => ~top.poisoned
<1>1. /\ depth > 0 /\ top \in Frames /\ FrameOK(top) /\ top.via = "algorithm"
      /\ top.via \notin RngGuards /\ Borrow(top) \notin valid
  BY TopFacts, GuardFacts DEF AlgorithmRuns
<1>2. Internal \in Errors /\ Internal # None /\ None \in Errors /\ Unusable \in Errors
      /\ Unusable # None
  BY BoundsAssumption DEF Internal, Unusable, None, Errors
<1>3. top.error \in Errors
  BY <1>1 DEF Frames
<1> QED BY <1>1, <1>2, <1>3 DEF FrameOK, rethrown, rethrows

LEMMA CallGuardInv ==
  ASSUME IndInv, NEW g \in Guards, CallGuard(g)
  PROVE  IndInv'
<1>1. /\ depth > 0 /\ top \in Frames /\ FrameOK(top) /\ top.via = "algorithm"
      /\ valid = valid \ {Borrow(top)} /\ AlgorithmRuns
      /\ top.stage \in {"run", "post"} /\ UNCHANGED <<depth, runs, thrown, raised, report>>
  BY AlgorithmFacts DEF CallGuard
<1>2. CASE top.aborted
  <2> DEFINE f == [top EXCEPT !.poisoned = TRUE]
  <2>1. SetTop(f) /\ UNCHANGED valid
    BY <1>2 DEF CallGuard, observes, ShortCircuit
  <2>2. f \in Frames /\ FrameOK(f) /\ f.run = top.run /\ f.via \notin RngGuards
    BY <1>1, <1>2, GuardFacts DEF Frames, FrameOK, rethrown
  <2> QED BY <1>1, <2>1, <2>2, SetTopInv DEF IndInv, TypeOK
<1>3. CASE ~top.aborted
  <2> DEFINE f == [top EXCEPT !.via = g]
  <2>1. /\ SetTop(f) /\ top.calls < MaxCalls
        /\ valid' = IF g \in RngGuards THEN valid \cup {Borrow(top)} ELSE valid
    BY <1>3 DEF CallGuard, observes
  <2>2. f \in Frames /\ FrameOK(f) /\ f.run = top.run /\ f.via = g /\ Borrow(f) = Borrow(top)
    BY <1>1, <1>3, <2>1, GuardFacts DEF Frames, FrameOK, Borrow
  <2>3. valid' = (valid \ {Borrow(top)}) \cup (IF f.via \in RngGuards THEN {Borrow(f)} ELSE {})
    BY <1>1, <2>1, <2>2
  <2> QED BY <1>1, <2>1, <2>2, <2>3, SetTopInv DEF IndInv, TypeOK
<1> QED BY <1>2, <1>3

LEMMA CallUnguardedInv ==
  ASSUME IndInv, CallUnguarded
  PROVE  IndInv'
<1> DEFINE f == [top EXCEPT !.via = "unguarded"]
<1>1. /\ depth > 0 /\ top \in Frames /\ FrameOK(top) /\ top.stage \in {"probe", "value"}
      /\ valid = valid \ {Borrow(top)} /\ SetTop(f)
      /\ UNCHANGED <<depth, runs, thrown, valid, raised, report>>
  BY AlgorithmFacts DEF CallUnguarded
<1>2. f \in Frames /\ FrameOK(f) /\ f.run = top.run /\ f.via \notin RngGuards
  BY <1>1, GuardFacts DEF Frames, FrameOK
<1> QED BY <1>1, <1>2, SetTopInv DEF IndInv, TypeOK

LEMMA DriveSiteInv == IndInv /\ DriveSite => IndInv'
<1> SUFFICES ASSUME IndInv, DriveSite PROVE IndInv'
  OBVIOUS
<1>1. CASE AlgorithmThrows
  BY <1>1, AlgorithmFacts, EndRunInv DEF AlgorithmThrows, Caught, IndInv, TypeOK
<1>2. CASE PostProcessThrows
  BY <1>2, AlgorithmFacts, EndRunInv DEF PostProcessThrows, IndInv, TypeOK
<1>3. CASE AlgorithmReturns
  <2>1. AlgorithmRuns /\ top.stage \in {"run", "post"} /\ UNCHANGED <<runs, thrown, valid>>
    BY <1>3 DEF AlgorithmReturns
  <2>2. ASSUME EndRun(None), ~rethrows(top) PROVE IndInv'
    BY <2>1, <2>2, AlgorithmFacts, EndRunInv DEF IndInv, TypeOK
  <2>3. ASSUME EndRun(rethrown(top)) PROVE IndInv'
    BY <2>1, <2>3, AlgorithmFacts, EndRunInv DEF IndInv, TypeOK
  <2>4. ASSUME NEW s \in {"post", "value"}, SetTop([top EXCEPT !.stage = s]),
               s = "value" => ~rethrows(top), UNCHANGED <<depth, raised, report>>
        PROVE  IndInv'
    <3> DEFINE f == [top EXCEPT !.stage = s]
    <3>1. f \in Frames /\ FrameOK(f) /\ f.run = top.run /\ f.via \notin RngGuards
      BY <2>1, <2>4, AlgorithmFacts, GuardFacts DEF Frames, FrameOK, rethrown, rethrows
    <3> QED BY <2>1, <2>4, <3>1, AlgorithmFacts, SetTopInv DEF IndInv, TypeOK
  <2> QED BY <1>3, <2>2, <2>3, <2>4 DEF AlgorithmReturns
<1> QED BY <1>1, <1>2, <1>3, CallGuardInv, CallUnguardedInv DEF DriveSite

LEMMA NextInv == IndInv /\ [Next]_vars => IndInv'
<1> SUFFICES ASSUME IndInv, [Next]_vars PROVE IndInv'
  OBVIOUS
<1>1. CASE UNCHANGED vars
  BY <1>1 DEF vars, IndInv, TypeOK, StackOK, FirstErrorReported, NoPoisonedResult, BorrowsAreLive
<1> QED BY <1>1, HostInv, DriveSiteInv DEF Next

-----------------------------------------------------------------------------

\* The strengthening is an invariant of all runs (callback_guard.hpp:57-145).
THEOREM Inductive == Spec => []IndInv
  BY InitInv, NextInv, PTL DEF Spec

\* No host code runs for a run after one of its callbacks threw
\* (callback_guard.hpp:27-32).
THEOREM Silent == Spec => []HostSilentAfterThrow
<1>1. IndInv => HostSilentAfterThrow
  BY DEF IndInv, TypeOK, StackOK, FrameOK, HostSilentAfterThrow
<1> QED BY <1>1, Inductive, PTL

\* The caller sees the first exception of its callbacks and nothing it provoked
\* (callback_guard.hpp:40-47).
THEOREM Owed == Spec => []FirstErrorReported
<1>1. IndInv => FirstErrorReported
  BY DEF IndInv
<1> QED BY <1>1, Inductive, PTL

\* A result is never computed from a sentinel, even when the exception could not
\* be stored (callback_guard.hpp:86-97).
THEOREM Unpoisoned == Spec => []NoPoisonedResult
<1>1. IndInv => NoPoisonedResult
  BY DEF IndInv
<1> QED BY <1>1, Inductive, PTL

\* A handle is valid exactly while the callback it was given to is active
\* (rng_handle.hpp:10-24).
THEOREM Borrowed == Spec => []BorrowsAreLive
<1>1. IndInv => BorrowsAreLive
  BY DEF IndInv
<1> QED BY <1>1, Inductive, PTL
=============================================================================
