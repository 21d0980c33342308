----------------------------- MODULE Bootstrap ------------------------------
(***************************************************************************)
(* The bootstrap analysis (numerics/sampling/bootstrap/bootstrap.hpp):     *)
(* four kinds of run over one object that keeps the results of the last.   *)
(* A replicate is retried while the callbacks given by the caller throw or *)
(* return what is not finite, and is marked as failed at last.             *)
(*                                                                         *)
(* A value computed for a replicate is the attempt it was computed in: two *)
(* rows agree when they are of the same resample, fit and statistic.  The  *)
(* two arrays of a studentized run are written and reset together, as are  *)
(* the links and the diagnostics of a pivotal one: one field each.         *)
(***************************************************************************)
EXTENDS Integers, Sequences, FiniteSets

CONSTANTS ReplicateCounts,   \* values a caller gives replicates
          MaxRetries,        \* max_retries
          Inner,             \* inner_replicates
          Observations,      \* sample_size_function of the original data
          MaxRuns            \* bound on the runs of a behaviour

ASSUME BootstrapAssumption ==
  /\ Observations \in Nat
  /\ {MaxRetries, Inner, MaxRuns} \cup ReplicateCounts \subseteq Nat \ {0}

VARIABLES results,   \* the members that outlive a run
          call,      \* the locals of the run in progress
          runs,      \* runs so far, the one in progress included
          whole      \* history: the run that completed last, 0 once another broke into its results

vars == <<results, call, runs, whole>>

Draw(row, try) == [run |-> runs, row |-> row, try |-> try]
Parent == Draw(0, 0)

\* A member not written yet, and a row of NaN.
Blank == [run |-> 0, row |-> 0, try |-> 0]
NaN   == [run |-> 0, row |-> 0, try |-> 1]

\* An optional array without a value is empty; one with a value never is.
NoDiagnostics == [run |-> 0, requested |-> 0, failed |-> 0, rejected |-> 0, accepted |-> 0,
                  invalid |-> 0, retained |-> 0]

\* parent is the run parent_statistics_ and num_stats_ were set by.
NoResults == [sets |-> <<>>, stats |-> <<>>, valid |-> <<>>, failed |-> 0, parent |-> 0,
              studentized |-> <<>>, raw |-> <<>>, rawStats |-> <<>>,
              diagnostics |-> NoDiagnostics, type |-> "None", jackknife |-> 0]

Looping == {"Regular", "DoubleBootstrap", "Studentized"}
NoCall == [mode |-> "None", rows |-> 0, row |-> 0, try |-> 0, step |-> "idle",
           inner |-> 0, valid |-> 0, fits |-> <<>>, accepted |-> <<>>, policy |-> "Drop",
           draws |-> <<>>, invalid |-> 0]

Init == results = NoResults /\ call = NoCall /\ runs = 0 /\ whole = 0

Rows(n, value) == [i \in 1..n |-> value]

\* The loop over replicates of a run of n, before its first attempt.
Loop(m, n) == [NoCall EXCEPT !.mode = m, !.rows = n, !.row = 1, !.step = "attempt"]

Enter == call.step = "idle" /\ runs < MaxRuns /\ runs' = runs + 1

\* reset_pivotal_state()
PivotalReset(r) == [r EXCEPT !.raw = <<>>, !.rawStats = <<>>, !.diagnostics = NoDiagnostics]

\* The members as every looping run sets them before its first replicate.
Emptied(r, n) ==
  [r EXCEPT !.sets = Rows(n, Blank), !.stats = Rows(n, Blank), !.valid = Rows(n, FALSE),
            !.failed = 0, !.parent = runs']

\* Mutant: the pivotal state is left to the next pivotal run.
InitializedOnly(r, n) == [Emptied(r, n) EXCEPT !.studentized = <<>>, !.type = "None"]

\* initialize_state() and reset_pivotal_state()
Initialized(r, n) ==
  PivotalReset([Emptied(r, n) EXCEPT !.studentized = <<>>, !.type = "None"])

Run(m, n) ==
  /\ Enter /\ m \in {"Regular", "DoubleBootstrap"}
  /\ results' = Initialized(results, n)
  /\ call' = Loop(m, n)
  /\ whole' = 0

\* run_type_ stays what it was until the run is over.
RunStudentized(n) ==
  /\ Enter
  /\ results' = [Emptied(PivotalReset(results), n) EXCEPT !.studentized = Rows(n, Blank)]
  /\ call' = Loop("Studentized", n)
  /\ whole' = 0

RunPivotal(n) ==
  /\ Enter
  /\ call' = Loop("Pivotal", n)
  /\ UNCHANGED <<results, whole>>

\* transform_pivotal_bootstrap() over n fits of the caller's
TransformFits(n) ==
  /\ Enter
  /\ call' = [NoCall EXCEPT !.mode = "Pivotal", !.rows = n, !.row = 1, !.step = "filter",
                !.fits = [i \in 1..n |-> [run |-> runs', row |-> i, try |-> 0]]]
  /\ UNCHANGED <<results, whole>>

\* The checks, the parent's statistics or the parent's fit throw: all but a
\* studentized run throw before they touch anything.
EntryThrows == Enter /\ UNCHANGED <<results, call, whole>>

\* It drops the pivotal state first, and the transform throws after num_stats_ is set.
StudentizedEntryThrows ==
  /\ Enter
  /\ \E p \in {results.parent, runs'} :
       results' = [PivotalReset(results) EXCEPT !.parent = p]
  /\ whole' = 0 /\ UNCHANGED call

AnyEntry ==
  \/ \E n \in ReplicateCounts :
       \/ \E m \in Looping : Run(m, n)
       \/ RunStudentized(n) \/ RunPivotal(n) \/ TransformFits(n)
  \/ EntryThrows \/ StudentizedEntryThrows
-----------------------------------------------------------------------------

Attempt == Draw(call.row, call.try)

\* Replicate i is taken as attempt d made it.
Recorded(r, i, d) == [r EXCEPT !.sets[i] = d, !.stats[i] = d, !.valid[i] = TRUE]

\* Mutant: the row is left as the last attempt wrote it.
FlaggedFailed(r, i) == [r EXCEPT !.valid[i] = FALSE, !.failed = @ + 1]

\* mark_failed(), and the two rows of a studentized run
MarkFailed(r, i) ==
  [r EXCEPT !.sets[i] = NaN, !.stats[i] = NaN, !.valid[i] = FALSE, !.failed = @ + 1,
            !.studentized = IF call.mode = "Studentized" THEN [@ EXCEPT ![i] = NaN] ELSE @]

NextRow == [call EXCEPT !.row = @ + 1, !.try = 0, !.step = "attempt", !.inner = 0, !.valid = 0]

\* The attempt throws or gives what is not finite: the next one, or none is left.
Lose ==
  IF call.try + 1 < MaxRetries
    THEN /\ call' = [call EXCEPT !.try = @ + 1, !.step = "attempt", !.inner = 0, !.valid = 0]
         /\ UNCHANGED results
    ELSE /\ call' = NextRow
         /\ results' = IF call.mode = "Pivotal" THEN results ELSE MarkFailed(results, call.row)

Attempting == call.step = "attempt" /\ call.row <= call.rows
Looked == UNCHANGED <<runs, whole>>

AttemptFails == Attempting /\ Lose /\ Looked

RegularFit ==
  /\ Attempting /\ call.mode = "Regular"
  /\ results' = Recorded(results, call.row, Attempt)
  /\ call' = NextRow
  /\ Looked

PivotalFit ==
  /\ Attempting /\ call.mode = "Pivotal"
  /\ call' = [NextRow EXCEPT !.fits = Append(@, Attempt)]
  /\ UNCHANGED results /\ Looked

\* A studentized run stores the outer fit before it knows its inner ones, and
\* its transform may still throw then.
OuterFit ==
  /\ Attempting /\ call.mode \in {"DoubleBootstrap", "Studentized"}
  /\ call' = [call EXCEPT !.step = "inner"]
  /\ results' = IF call.mode = "Studentized"
                  THEN [results EXCEPT !.sets[call.row] = Attempt, !.stats[call.row] = Attempt]
                  ELSE results
  /\ Looked

InnerFit(ok) ==
  /\ call.step = "inner" /\ call.inner < Inner
  /\ call' = [call EXCEPT !.inner = @ + 1, !.valid = IF ok THEN @ + 1 ELSE @]
  /\ UNCHANGED results /\ Looked

InnerEnough == call.valid >= (IF call.mode = "Studentized" THEN 2 ELSE 1)

InnerDone ==
  /\ call.step = "inner" /\ call.inner = Inner /\ InnerEnough
  /\ results' = LET r == Recorded(results, call.row, Attempt)
                IN  IF call.mode = "Studentized"
                      THEN [r EXCEPT !.studentized[call.row] = Attempt] ELSE r
  /\ call' = NextRow
  /\ Looked

\* Too few inner fits, or the transform of the outer statistics throws.
InnerLost ==
  /\ call.step = "inner"
  /\ \/ call.inner = Inner /\ ~InnerEnough
     \/ call.inner = 0 /\ call.mode = "Studentized"
  /\ Lose /\ Looked

Complete ==
  /\ call.step = "attempt" /\ call.row > call.rows /\ call.mode \in Looping
  /\ results' = [results EXCEPT !.type = call.mode]
  /\ call' = NoCall /\ whole' = runs
  /\ UNCHANGED runs

RawFitsDone ==
  /\ call.step = "attempt" /\ call.row > call.rows /\ call.mode = "Pivotal"
  /\ call' = [call EXCEPT !.step = "filter", !.row = 1]
  /\ UNCHANGED results /\ Looked

Replicate ==
  \/ AttemptFails \/ RegularFit \/ PivotalFit \/ OuterFit
  \/ \E ok \in BOOLEAN : InnerFit(ok)
  \/ InnerDone \/ InnerLost \/ Complete \/ RawFitsDone
-----------------------------------------------------------------------------

\* A raw fit is taken if it is finite and the caller's filter says so.
FilterFit(ok) ==
  /\ call.step = "filter" /\ call.row <= Len(call.fits)
  /\ call' = [call EXCEPT !.row = @ + 1,
                !.accepted = IF ok THEN Append(@, call.fits[call.row]) ELSE @]
  /\ UNCHANGED results /\ Looked

\* The filter throws, no fit is left, or the links or the parent's covariance throw.
TransformThrows ==
  /\ call.step = "filter"
  /\ call' = NoCall
  /\ UNCHANGED results /\ Looked

Policies == {"Drop", "UseRaw", "UseParent"}

LinksMade(policy) ==
  /\ call.step = "filter" /\ call.row > Len(call.fits) /\ call.accepted # <<>>
  /\ call' = [call EXCEPT !.step = "draw", !.row = 1, !.policy = policy]
  /\ UNCHANGED results /\ Looked

\* What the policy puts in the place of a draw that could not be made, if anything.
Fallback(fit) ==
  CASE call.policy = "Drop"      -> <<>>
    [] call.policy = "UseRaw"    -> <<fit>>
    [] call.policy = "UseParent" -> <<Parent>>

\* A draw that throws, passes the limit or is refused counts as invalid.
PivotalDraw(made) ==
  /\ call.step = "draw" /\ call.row <= Len(call.accepted)
  /\ LET fit == call.accepted[call.row]
     IN  call' = [call EXCEPT !.row = @ + 1, !.invalid = IF made THEN @ ELSE @ + 1,
                    !.draws = @ \o (IF made THEN <<fit>> ELSE Fallback(fit))]
  /\ UNCHANGED results /\ Looked

LostFits == call.rows - Len(call.fits)

\* Mutant: the studentized values of an earlier run are left.
StoredBesideStudentized(r) ==
  [r EXCEPT !.raw = call.accepted, !.sets = call.draws, !.failed = LostFits,
            !.valid = Rows(Len(call.draws), TRUE)]

\* The ensemble as it is stored before any statistic is computed.
Stored(r) ==
  [r EXCEPT !.raw = call.accepted, !.sets = call.draws, !.failed = LostFits,
            !.valid = Rows(Len(call.draws), TRUE), !.studentized = <<>>,
            !.diagnostics = [run |-> runs, requested |-> call.rows, failed |-> LostFits,
               rejected |-> Len(call.fits) - Len(call.accepted),
               accepted |-> Len(call.accepted), invalid |-> call.invalid,
               retained |-> Len(call.draws)]]

Drawn == call.step = "draw" /\ call.row > Len(call.accepted) /\ call' = NoCall /\ UNCHANGED runs

\* Without a statistic function the rows of the statistics are empty.
TransformEnds ==
  /\ Drawn
  /\ results' = [Stored(results) EXCEPT !.parent = runs, !.rawStats = call.accepted,
                                        !.stats = call.draws, !.type = "Pivotal"]
  /\ whole' = runs

\* The statistic of the parent, of a raw fit or of a draw throws.
StatisticThrows ==
  /\ Drawn
  /\ results' \in {Stored(results), [Stored(results) EXCEPT !.parent = runs],
                   [Stored(results) EXCEPT !.parent = runs, !.rawStats = call.accepted]}
  /\ whole' = 0

Transform ==
  \/ \E ok \in BOOLEAN : FilterFit(ok) \/ PivotalDraw(ok)
  \/ \E policy \in Policies : LinksMade(policy)
  \/ TransformThrows \/ TransformEnds \/ StatisticThrows

\* get_confidence_intervals() and its raw kind read; only BCa keeps a count, of
\* the leave-one-out fits that failed, also when all of them did and it throws.
GetIntervals ==
  /\ call.step = "idle"
  /\ \/ /\ results.type \in Looping
        /\ \E lost \in 0..Observations : results' = [results EXCEPT !.jackknife = lost]
     \/ UNCHANGED results
  /\ UNCHANGED call /\ Looked

Next == AnyEntry \/ Replicate \/ Transform \/ GetIntervals

Spec == Init /\ [][Next]_vars
-----------------------------------------------------------------------------

\* The replicates a looping run is done with.
Finished == IF call.mode \in Looping THEN 1..(call.row - 1) ELSE {}

\* A replicate is taken whole or marked whole: its parameters, its statistics
\* and its studentized values are of one attempt, or all are NaN, counted and
\* flagged, whatever the attempts before left in them.
RowsAreWhole ==
  /\ \A i \in Finished :
       IF results.valid[i]
         THEN /\ results.sets[i] = results.stats[i] /\ results.sets[i].run = runs
              /\ call.mode = "Studentized" => results.studentized[i] = results.sets[i]
         ELSE /\ results.sets[i] = NaN /\ results.stats[i] = NaN
              /\ call.mode = "Studentized" => results.studentized[i] = NaN
  /\ call.mode \in Looping =>
       results.failed = Cardinality({i \in Finished : ~results.valid[i]})

Elements(s) == {s[i] : i \in 1..Len(s)}

\* While the results are those of a completed run, all of them are: no ensemble,
\* statistic, raw fit or diagnostic of an earlier run shows beside them, and no
\* later call that threw on its way in changed any.  The pivotal counts add up.
CompletedRunIsWhole ==
  whole # 0 =>
    LET r == results d == r.diagnostics
    IN  /\ r.parent = whole /\ r.type # "None"
        /\ \A t \in Elements(r.sets) \cup Elements(r.raw) : t = NaN \/ t.run = whole
        /\ r.sets = r.stats
        /\ (r.studentized # <<>>) <=> (r.type = "Studentized")
        /\ r.type # "Pivotal" => r.raw = <<>> /\ r.rawStats = <<>> /\ d = NoDiagnostics
        /\ r.type = "Pivotal" =>
             /\ d.run = whole /\ r.rawStats = r.raw
             /\ d.requested = d.failed + d.rejected + d.accepted
             /\ d.accepted = Len(r.raw) /\ d.failed = r.failed
             /\ d.retained = Len(r.sets) /\ d.retained \in {d.accepted, d.accepted - d.invalid}

\* A request for Bootstrap-t intervals that is let through reads a studentized
\* value for every replicate it lists, of the same attempt, after any calls that
\* threw half-way.
BootstrapTReadsItsRun ==
  call.step = "idle" /\ results.type \notin {"None", "Pivotal"} /\ results.studentized # <<>>
    => results.studentized = results.sets /\ results.studentized = results.stats
=============================================================================
