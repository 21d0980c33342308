---------------------------- MODULE CallbackRuns ---------------------------
(***************************************************************************)
(* Runs over callbacks written in R or Python: the guards that latch the   *)
(* first host exception (numerics/support/callback_guard.hpp), the drive   *)
(* sites that rethrow it (callback/mcmc.hpp, callback/gmm.hpp,             *)
(* optimizer_runner.hpp) and the generator lent to a callback              *)
(* (rng_handle.hpp).                                                       *)
(*                                                                         *)
(* An algorithm between guard and drive site is ported code: it calls any  *)
(* guard in any order, swallows what it likes, throws or returns.  A host  *)
(* function may start a run of its own and catch, or not, what that run    *)
(* throws, so that runs nest.  Values are left out, except whether one was *)
(* a sentinel.                                                             *)
(***************************************************************************)
EXTENDS Integers

CONSTANTS MaxDepth,   \* runs inside of each other
          MaxRuns,    \* runs in all
          MaxCalls,   \* completed callbacks of one run
          MaxThrows   \* exceptions the host raises

ASSUME BoundsAssumption ==
  MaxDepth \in Nat /\ MaxRuns \in Nat /\ MaxCalls \in Nat /\ MaxThrows \in Nat

\* Exceptions: the host's are numbered; a standard exception of ported code; the
\* one that reports an abort which stored nothing.
None     == 0
Internal == -1
Unusable == -2
Errors   == -2..MaxThrows

\* The guards that share the abort state of a run, and those given a generator.
GuardsOf == [sample      |-> {"log_likelihood", "proposal"},
             fit         |-> {"moment", "jacobian"},
             nelder_mead |-> {"objective"}]
Methods   == DOMAIN GuardsOf
Guards    == UNION {GuardsOf[m] : m \in Methods}
RngGuards == {"proposal"}

VARIABLES frames,   \* the runs that are active, the innermost at depth
          depth,
          runs,     \* runs started so far
          thrown,   \* exceptions the host raised so far
          valid,    \* the borrows whose flag is up
          raised,   \* what an inner run threw into the host function that runs
          report    \* the last run that ended: its result, and what happened in it

vars == <<frames, depth, runs, thrown, valid, raised, report>>

Levels == 1..MaxDepth

\* aborted and error are the shared abort state.  threw, first and poisoned say
\* what happened: the callbacks that threw, the exception the caller is owed and
\* whether the algorithm was given a sentinel.
NewFrame(m, r) ==
  [method |-> m, run |-> r, stage |-> IF m = "fit" THEN "probe" ELSE "run", via |-> "algorithm",
   aborted |-> FALSE, error |-> None, calls |-> 0,
   threw |-> {}, first |-> None, poisoned |-> FALSE]

NoFrame == NewFrame("sample", 0)

top == frames[depth]

SetTop(f) == frames' = [frames EXCEPT ![depth] = f]

\* The borrow a frame lends to its callback.
Borrow(f) == <<f.run, f.calls>>

Init ==
  /\ frames = [d \in Levels |-> NoFrame]
  /\ depth = 0 /\ runs = 0 /\ thrown = 0
  /\ valid = {}
  /\ raised = None
  /\ report = [result |-> None, threw |-> {}, first |-> None, poisoned |-> FALSE]

InHost == depth > 0 /\ top.via # "algorithm"

\* The drive site returns, or throws e into the host function that started it.
EndRun(e) ==
  /\ report' = [result |-> e, threw |-> top.threw, first |-> top.first, poisoned |-> top.poisoned]
  /\ frames' = [frames EXCEPT ![depth] = NoFrame]
  /\ depth' = depth - 1
  /\ raised' = IF depth = 1 THEN None ELSE e

-----------------------------------------------------------------------------
(* The host, outside of any run or in a callback. *)

StartRun(m) ==
  /\ depth = 0 \/ InHost
  /\ raised = None
  /\ depth < MaxDepth /\ runs < MaxRuns
  /\ frames' = [frames EXCEPT ![depth + 1] = NewFrame(m, runs + 1)]
  /\ depth' = depth + 1 /\ runs' = runs + 1
  /\ UNCHANGED <<thrown, valid, raised, report>>

HostCatches ==
  /\ raised # None
  /\ raised' = None
  /\ UNCHANGED <<frames, depth, runs, thrown, valid, report>>

\* Only the first exception is stored.
latch(f, e) == IF f.aborted THEN f ELSE [f EXCEPT !.aborted = TRUE, !.error = e]

\* Mutant: the borrow of a callback that throws stays valid.
ScopeEndsOnReturn(f, returned) == IF returned THEN valid \ {Borrow(f)} ELSE valid

\* The RngScope of a callback is destroyed however it ends.
ScopeEnds(f, returned) == valid \ {Borrow(f)}

GuardedReturns ==
  /\ InHost /\ raised = None /\ top.via \in Guards
  /\ SetTop([top EXCEPT !.via = "algorithm", !.calls = @ + 1])
  /\ valid' = ScopeEnds(top, TRUE)
  /\ UNCHANGED <<depth, runs, thrown, raised, report>>

\* A probe before the algorithm starts, or of the value once it has ended.
UnguardedReturns ==
  /\ InHost /\ raised = None /\ top.via = "unguarded"
  /\ IF top.stage = "probe"
       THEN /\ SetTop([top EXCEPT !.via = "algorithm", !.stage = "run"])
            /\ UNCHANGED <<depth, raised, report>>
       ELSE EndRun(None)
  /\ UNCHANGED <<runs, thrown, valid>>

\* Exception e, which current_exception() captures or not, ends the callback.
CallbackEnds(e, captured) ==
  IF top.via \in Guards
    THEN /\ SetTop([latch(top, IF captured THEN e ELSE None) EXCEPT
                      !.via = "algorithm", !.poisoned = TRUE, !.threw = @ \cup {top.via},
                      !.first = IF top.threw # {} THEN @
                                ELSE IF captured THEN e ELSE Unusable])
         /\ valid' = ScopeEnds(top, FALSE)
         /\ raised' = None
         /\ UNCHANGED <<depth, report>>
    ELSE /\ EndRun(e)
         /\ UNCHANGED valid

\* Its own exception, or that of an expired handle or a return of the wrong shape.
HostThrows(captured) ==
  /\ InHost /\ raised = None
  /\ thrown < MaxThrows
  /\ thrown' = thrown + 1
  /\ CallbackEnds(thrown + 1, captured)
  /\ UNCHANGED runs

\* What an inner run threw is not caught.
HostPropagates(captured) ==
  /\ InHost /\ raised # None
  /\ CallbackEnds(raised, captured)
  /\ UNCHANGED <<runs, thrown>>

Host ==
  \/ \E m \in Methods : StartRun(m)
  \/ HostCatches
  \/ GuardedReturns
  \/ UnguardedReturns
  \/ \E captured \in BOOLEAN : HostThrows(captured)
  \/ \E captured \in BOOLEAN : HostPropagates(captured)

-----------------------------------------------------------------------------
(* The algorithm and the drive site around it. *)

AlgorithmRuns == depth > 0 /\ top.via = "algorithm"

\* Mutant: a guard of a state of its own knows its own exception only.
observes_own(f, g) == g \in f.threw

\* A guard knows of an exception of any guard of its run.
observes(f, g) == f.aborted

\* The algorithm is given the sentinel and the host is not entered.
ShortCircuit == SetTop([top EXCEPT !.poisoned = TRUE])

CallGuard(g) ==
  /\ AlgorithmRuns /\ top.stage \in {"run", "post"}
  /\ g \in GuardsOf[top.method]
  /\ IF observes(top, g)
       THEN ShortCircuit /\ UNCHANGED valid
       ELSE /\ top.calls < MaxCalls
            /\ SetTop([top EXCEPT !.via = g])
            /\ valid' = IF g \in RngGuards THEN valid \cup {Borrow(top)} ELSE valid
  /\ UNCHANGED <<depth, runs, thrown, raised, report>>

\* The host function is called directly where no ported code can swallow its throw.
CallUnguarded ==
  /\ AlgorithmRuns /\ top.stage \in {"probe", "value"}
  /\ SetTop([top EXCEPT !.via = "unguarded"])
  /\ UNCHANGED <<depth, runs, thrown, valid, raised, report>>

\* Mutant: the rethrow looks for an exception instead of the flag.
rethrows_stored(f) == f.error # None

rethrows(f) == f.aborted

rethrown(f) == IF f.error # None THEN f.error ELSE Unusable

\* Mutant: the drive site lets the exception of the algorithm pass.
CaughtUnasked(f) == Internal

\* catch (...) { rethrow_if_aborted(); throw; }
Caught(f) == IF rethrows(f) THEN rethrown(f) ELSE Internal

AlgorithmThrows ==
  /\ AlgorithmRuns /\ top.stage = "run"
  /\ EndRun(Caught(top))
  /\ UNCHANGED <<runs, thrown, valid>>

\* A J-statistic that cannot be computed is no failure of the fit.
PostProcessThrows ==
  /\ AlgorithmRuns /\ top.stage = "post"
  /\ EndRun(IF rethrows(top) THEN rethrown(top) ELSE None)
  /\ UNCHANGED <<runs, thrown, valid>>

\* fit goes on to its post-processing, aborted or not; the others ask the latch.
AlgorithmReturns ==
  /\ AlgorithmRuns /\ top.stage \in {"run", "post"}
  /\ IF top.method = "fit" /\ top.stage = "run"
       THEN SetTop([top EXCEPT !.stage = "post"]) /\ UNCHANGED <<depth, raised, report>>
     ELSE IF rethrows(top) THEN EndRun(rethrown(top))
     ELSE IF top.method = "nelder_mead"
       THEN SetTop([top EXCEPT !.stage = "value"]) /\ UNCHANGED <<depth, raised, report>>
     ELSE EndRun(None)
  /\ UNCHANGED <<runs, thrown, valid>>

DriveSite ==
  \/ \E g \in Guards : CallGuard(g)
  \/ CallUnguarded
  \/ AlgorithmThrows
  \/ PostProcessThrows
  \/ AlgorithmReturns

Next == Host \/ DriveSite

Spec == Init /\ [][Next]_vars
-----------------------------------------------------------------------------

\* Every variable has its type, and no run counts more calls than it made.
TypeOK ==
  /\ depth \in 0..MaxDepth /\ runs \in 0..MaxRuns /\ thrown \in 0..MaxThrows
  /\ frames \in [Levels ->
       [method : Methods, run : 0..MaxRuns, stage : {"probe", "run", "post", "value"},
        via : Guards \cup {"algorithm", "unguarded"}, aborted : BOOLEAN, error : Errors,
        calls : 0..MaxCalls, threw : SUBSET Guards, first : Errors, poisoned : BOOLEAN]]
  /\ valid \subseteq (1..MaxRuns) \X (0..MaxCalls)
  /\ raised \in Errors
  /\ report \in [result : Errors, threw : SUBSET Guards, first : Errors, poisoned : BOOLEAN]

\* Once a callback of a run threw, no host code runs for this run again, in any of
\* its callbacks or in a run they started (callback_guard.hpp:27-32).
HostSilentAfterThrow ==
  \A d \in 1..depth : frames[d].threw # {} => d = depth /\ frames[d].via = "algorithm"

\* A run in which a callback threw throws the first of these exceptions, whatever
\* the algorithm, the runs inside of it and a second rethrow made of it
\* (callback_guard.hpp:12-14, 40-47).
FirstErrorReported == report.threw # {} => report.result = report.first

\* A run that returns a result never computed with a sentinel
\* (callback_guard.hpp:86-91).
NoPoisonedResult == report.result = None => ~report.poisoned

\* A handle can be drawn from in the callback it was given to, and in the runs
\* that one starts, and never later (rng_handle.hpp:10-24).
BorrowsAreLive ==
  valid = {Borrow(frames[d]) : d \in {e \in 1..depth : frames[e].via \in RngGuards}}
=============================================================================
