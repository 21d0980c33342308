-------------------------- MODULE BootstrapProofs ---------------------------
(***************************************************************************)
(* Invariants of Bootstrap for any numbers of replicates, retries, inner   *)
(* replicates and runs.                                                    *)
(***************************************************************************)
EXTENDS Bootstrap, FiniteSetTheorems, SequenceTheorems, TLAPS

Tags  == [run : Nat, row : Nat, try : Nat]
Types == Looping \cup {"None", "Pivotal"}
Counts == [run : Nat, requested : Int, failed : Int, rejected : Int, accepted : Int,
           invalid : Int, retained : Int]

Results == [sets : Seq(Tags), stats : Seq(Tags), valid : Seq(BOOLEAN), failed : Int,
            parent : Nat, studentized : Seq(Tags), raw : Seq(Tags), rawStats : Seq(Tags),
            diagnostics : Counts, type : Types, jackknife : Nat]

Calls == [mode : Types, rows : Nat, row : Nat, try : Nat,
          step : {"idle", "attempt", "inner", "filter", "draw"}, inner : Nat, valid : Nat,
          fits : Seq(Tags), accepted : Seq(Tags), policy : Policies, draws : Seq(Tags),
          invalid : Nat]

TypeOK == results \in Results /\ call \in Calls /\ runs \in Nat /\ whole \in Nat

\* Where a call is, and what its locals are of.
Place ==
  /\ call.step = "idle" => call = NoCall
  /\ call.step = "inner" => call.mode \in Looping /\ call.row <= call.rows
  /\ call.step \in {"filter", "draw"} => call.mode = "Pivotal"
  /\ call.step = "attempt" => call.mode # "None" /\ call.row \in 1..(call.rows + 1)
  /\ call.mode \in Looping => call.step \in {"attempt", "inner"} /\ whole = 0
  /\ call.step # "idle" => runs # 0 /\ call.row # 0

\* The arrays of a looping run are its own from its first replicate on.
LoopShape ==
  call.mode \in Looping =>
    /\ Len(results.sets) = call.rows /\ Len(results.stats) = call.rows
    /\ Len(results.valid) = call.rows /\ results.parent = runs
    /\ results.raw = <<>> /\ results.rawStats = <<>> /\ results.diagnostics = NoDiagnostics
    /\ call.rows # 0
    /\ IF call.mode = "Studentized" THEN Len(results.studentized) = call.rows
                                    ELSE results.studentized = <<>>

OfRun(s) == \A i \in 1..Len(s) : s[i].run = runs

\* What a pivotal run collects.
PivotalShape ==
  /\ OfRun(call.fits) /\ OfRun(call.accepted) /\ OfRun(call.draws)
  /\ call.mode = "Pivotal" /\ call.step # "draw" => call.draws = <<>> /\ call.invalid = 0
  /\ call.step = "draw" =>
       /\ call.row \in 1..(Len(call.accepted) + 1)
       /\ Len(call.draws) =
            IF call.policy = "Drop" THEN call.row - 1 - call.invalid ELSE call.row - 1

\* Between runs the studentized values are absent or those of the active rows.
Studentized ==
  call.mode \notin Looping /\ results.studentized # <<>> =>
    results.studentized = results.sets /\ results.studentized = results.stats

Inv == /\ TypeOK /\ Place /\ LoopShape /\ PivotalShape /\ Studentized
       /\ RowsAreWhole /\ CompletedRunIsWhole
-----------------------------------------------------------------------------

LEMMA ConstantTags ==
  /\ Blank \in Tags /\ NaN \in Tags /\ Blank # NaN
  /\ NoDiagnostics \in Counts /\ NoResults \in Results /\ NoCall \in Calls
BY DEF Blank, NaN, Tags, NoDiagnostics, Counts, NoResults, Results, NoCall, Calls, Types,
       Looping, Policies

LEMMA NoCallFields ==
  /\ NoCall.fits = <<>> /\ NoCall.accepted = <<>> /\ NoCall.draws = <<>>
  /\ NoCall.invalid = 0 /\ NoCall.mode = "None" /\ NoCall.step = "idle"
BY DEF NoCall

LEMMA RowsTyped ==
  ASSUME NEW n \in Nat, NEW S, NEW v \in S
  PROVE  Rows(n, v) \in Seq(S) /\ Len(Rows(n, v)) = n /\ \A i \in 1..n : Rows(n, v)[i] = v
BY DEF Rows

LEMMA AttemptTyped ==
  ASSUME TypeOK
  PROVE  Attempt \in Tags /\ Attempt.run = runs /\ Parent \in Tags /\ Parent.run = runs
BY DEF TypeOK, Attempt, Parent, Draw, Tags, Calls

LEMMA RecordedFacts ==
  ASSUME NEW r \in Results, NEW i \in 1..Len(r.sets), NEW d \in Tags,
         Len(r.stats) = Len(r.sets), Len(r.valid) = Len(r.sets)
  PROVE  /\ Recorded(r, i, d) \in Results
         /\ Recorded(r, i, d).sets = [r.sets EXCEPT ![i] = d]
         /\ Recorded(r, i, d).stats = [r.stats EXCEPT ![i] = d]
         /\ Recorded(r, i, d).valid = [r.valid EXCEPT ![i] = TRUE]
         /\ Recorded(r, i, d).failed = r.failed
         /\ Recorded(r, i, d).parent = r.parent
         /\ Recorded(r, i, d).studentized = r.studentized
         /\ Recorded(r, i, d).raw = r.raw
         /\ Recorded(r, i, d).rawStats = r.rawStats
         /\ Recorded(r, i, d).diagnostics = r.diagnostics
<1> DEFINE sets == [r.sets EXCEPT ![i] = d]
           stats == [r.stats EXCEPT ![i] = d]
           valid == [r.valid EXCEPT ![i] = TRUE]
<1>1. sets \in Seq(Tags) /\ stats \in Seq(Tags) /\ valid \in Seq(BOOLEAN)
  BY DEF Results
<1>2. Recorded(r, i, d) = [r EXCEPT !.sets = sets, !.stats = stats, !.valid = valid]
  BY DEF Recorded, Results
<1> HIDE DEF sets, stats, valid
<1>3. Recorded(r, i, d) \in Results
  BY <1>1, <1>2 DEF Results
<1>4. /\ Recorded(r, i, d).sets = sets /\ Recorded(r, i, d).stats = stats
      /\ Recorded(r, i, d).valid = valid
      /\ Recorded(r, i, d).failed = r.failed /\ Recorded(r, i, d).parent = r.parent
      /\ Recorded(r, i, d).studentized = r.studentized /\ Recorded(r, i, d).raw = r.raw
      /\ Recorded(r, i, d).rawStats = r.rawStats
      /\ Recorded(r, i, d).diagnostics = r.diagnostics
  BY <1>2 DEF Results
<1> QED BY <1>3, <1>4 DEF sets, stats, valid

LEMMA MarkFailedFacts ==
  ASSUME NEW r \in Results, NEW i \in 1..Len(r.sets),
         Len(r.stats) = Len(r.sets), Len(r.valid) = Len(r.sets),
         call.mode = "Studentized" => Len(r.studentized) = Len(r.sets)
  PROVE  /\ MarkFailed(r, i) \in Results
         /\ MarkFailed(r, i).sets = [r.sets EXCEPT ![i] = NaN]
         /\ MarkFailed(r, i).stats = [r.stats EXCEPT ![i] = NaN]
         /\ MarkFailed(r, i).valid = [r.valid EXCEPT ![i] = FALSE]
         /\ MarkFailed(r, i).failed = r.failed + 1
         /\ MarkFailed(r, i).parent = r.parent
         /\ MarkFailed(r, i).studentized =
              IF call.mode = "Studentized" THEN [r.studentized EXCEPT ![i] = NaN]
                                           ELSE r.studentized
         /\ MarkFailed(r, i).raw = r.raw
         /\ MarkFailed(r, i).rawStats = r.rawStats
         /\ MarkFailed(r, i).diagnostics = r.diagnostics
<1> DEFINE sets == [r.sets EXCEPT ![i] = NaN]
           stats == [r.stats EXCEPT ![i] = NaN]
           valid == [r.valid EXCEPT ![i] = FALSE]
           studentized == IF call.mode = "Studentized" THEN [r.studentized EXCEPT ![i] = NaN]
                                                       ELSE r.studentized
           failed == r.failed + 1
<1>1. /\ sets \in Seq(Tags) /\ stats \in Seq(Tags) /\ valid \in Seq(BOOLEAN)
      /\ studentized \in Seq(Tags) /\ failed \in Int
  <2>1. /\ r.sets \in Seq(Tags) /\ r.stats \in Seq(Tags) /\ r.valid \in Seq(BOOLEAN)
        /\ r.studentized \in Seq(Tags) /\ r.failed \in Int /\ NaN \in Tags
    BY ConstantTags DEF Results
  <2>2. sets \in Seq(Tags) /\ stats \in Seq(Tags)
    BY <2>1
  <2>3. studentized \in Seq(Tags)
    <3>1. CASE call.mode = "Studentized"
      BY <2>1, <3>1
    <3>2. CASE call.mode # "Studentized"
      BY <2>1, <3>2
    <3> QED BY <3>1, <3>2
  <2>4. valid \in Seq(BOOLEAN) /\ failed \in Int
    BY <2>1
  <2> QED BY <2>1, <2>2, <2>3, <2>4
<1>2. MarkFailed(r, i) = [r EXCEPT !.sets = sets, !.stats = stats, !.valid = valid,
                                   !.failed = failed, !.studentized = studentized]
  BY DEF MarkFailed, Results
<1> HIDE DEF sets, stats, valid, studentized, failed
<1>3. MarkFailed(r, i) \in Results
  BY <1>1, <1>2 DEF Results
<1>4. /\ MarkFailed(r, i).sets = sets /\ MarkFailed(r, i).stats = stats
      /\ MarkFailed(r, i).valid = valid /\ MarkFailed(r, i).failed = failed
      /\ MarkFailed(r, i).parent = r.parent /\ MarkFailed(r, i).studentized = studentized
      /\ MarkFailed(r, i).raw = r.raw /\ MarkFailed(r, i).rawStats = r.rawStats
      /\ MarkFailed(r, i).diagnostics = r.diagnostics
  BY <1>2 DEF Results
<1> QED BY <1>3, <1>4 DEF sets, stats, valid, studentized, failed

\* What a looping run finds when its loop begins.
LEMMA EmptiedFacts ==
  ASSUME NEW r \in Results, NEW n \in Nat \ {0}, runs' \in Nat
  PROVE  /\ Emptied(r, n) \in Results
         /\ Len(Emptied(r, n).sets) = n /\ Len(Emptied(r, n).stats) = n
         /\ Len(Emptied(r, n).valid) = n /\ Emptied(r, n).failed = 0
         /\ Emptied(r, n).parent = runs'
         /\ Emptied(r, n).raw = r.raw /\ Emptied(r, n).rawStats = r.rawStats
         /\ Emptied(r, n).diagnostics = r.diagnostics
<1> DEFINE rows == Rows(n, Blank)
           flags == Rows(n, FALSE)
           zero == 0
           owner == runs'
<1>1. /\ rows \in Seq(Tags) /\ Len(rows) = n
      /\ flags \in Seq(BOOLEAN) /\ Len(flags) = n /\ zero \in Int /\ owner \in Nat
  <2>1. rows \in Seq(Tags) /\ Len(rows) = n
    BY RowsTyped, ConstantTags
  <2>2. flags \in Seq(BOOLEAN) /\ Len(flags) = n
    BY RowsTyped
  <2>3. zero \in Int
    OBVIOUS
  <2>4. owner \in Nat
    OBVIOUS
  <2> HIDE DEF rows, flags, zero, owner
  <2> QED BY <2>1, <2>2, <2>3, <2>4
<1> HIDE DEF rows, flags, zero, owner
<1>2. Emptied(r, n) = [r EXCEPT !.sets = rows, !.stats = rows, !.valid = flags,
                                !.failed = zero, !.parent = owner]
  BY DEF Emptied, rows, flags, zero, owner
<1>3. Emptied(r, n) \in Results
  BY <1>1, <1>2 DEF Results
<1>4. /\ Emptied(r, n).sets = rows /\ Emptied(r, n).stats = rows /\ Emptied(r, n).valid = flags
      /\ Emptied(r, n).failed = zero /\ Emptied(r, n).parent = owner
      /\ Emptied(r, n).raw = r.raw /\ Emptied(r, n).rawStats = r.rawStats
      /\ Emptied(r, n).diagnostics = r.diagnostics
  BY <1>2 DEF Results
<1> QED BY <1>1, <1>3, <1>4 DEF zero, owner

LEMMA PivotalResetFacts ==
  ASSUME NEW r \in Results
  PROVE  /\ PivotalReset(r) \in Results
         /\ PivotalReset(r).raw = <<>> /\ PivotalReset(r).rawStats = <<>>
         /\ PivotalReset(r).diagnostics = NoDiagnostics
         /\ PivotalReset(r).sets = r.sets /\ PivotalReset(r).stats = r.stats
         /\ PivotalReset(r).valid = r.valid /\ PivotalReset(r).failed = r.failed
         /\ PivotalReset(r).parent = r.parent
         /\ PivotalReset(r).studentized = r.studentized
<1> DEFINE none == <<>>
<1>1. none \in Seq(Tags) /\ NoDiagnostics \in Counts
  BY ConstantTags
<1> HIDE DEF none
<1>2. PivotalReset(r) = [r EXCEPT !.raw = none, !.rawStats = none, !.diagnostics = NoDiagnostics]
  BY DEF PivotalReset, none
<1>3. PivotalReset(r) \in Results
  BY <1>1, <1>2 DEF Results
<1>4. /\ PivotalReset(r).raw = none /\ PivotalReset(r).rawStats = none
      /\ PivotalReset(r).diagnostics = NoDiagnostics
      /\ PivotalReset(r).sets = r.sets /\ PivotalReset(r).stats = r.stats
      /\ PivotalReset(r).valid = r.valid /\ PivotalReset(r).failed = r.failed
      /\ PivotalReset(r).parent = r.parent
      /\ PivotalReset(r).studentized = r.studentized
  BY <1>2 DEF Results
<1> QED BY <1>3, <1>4 DEF none

LEMMA InitializedFacts ==
  ASSUME NEW r \in Results, NEW n \in Nat \ {0}, runs' \in Nat
  PROVE  /\ Initialized(r, n) \in Results
         /\ Len(Initialized(r, n).sets) = n /\ Len(Initialized(r, n).stats) = n
         /\ Len(Initialized(r, n).valid) = n /\ Initialized(r, n).failed = 0
         /\ Initialized(r, n).parent = runs' /\ Initialized(r, n).studentized = <<>>
         /\ Initialized(r, n).raw = <<>> /\ Initialized(r, n).rawStats = <<>>
         /\ Initialized(r, n).diagnostics = NoDiagnostics
<1> DEFINE e == Emptied(r, n)
           f == [e EXCEPT !.studentized = <<>>, !.type = "None"]
<1>1. /\ e \in Results /\ Len(e.sets) = n /\ Len(e.stats) = n /\ Len(e.valid) = n
      /\ e.failed = 0 /\ e.parent = runs'
  BY EmptiedFacts
<1> HIDE DEF e
<1>n. "None" \in Types
  BY DEF Types
<1>2. /\ f \in Results /\ f.sets = e.sets /\ f.stats = e.stats /\ f.valid = e.valid
      /\ f.failed = e.failed /\ f.parent = e.parent /\ f.studentized = <<>>
  <2> DEFINE none == <<>>
  <2>1. none \in Seq(Tags)
    OBVIOUS
  <2> HIDE DEF none
  <2>2. f = [e EXCEPT !.studentized = none, !.type = "None"]
    BY DEF none
  <2> HIDE DEF f
  <2>3. f \in Results
    BY <1>1, <1>n, <2>1, <2>2 DEF Results
  <2>4. /\ f.sets = e.sets /\ f.stats = e.stats /\ f.valid = e.valid
        /\ f.failed = e.failed /\ f.parent = e.parent /\ f.studentized = none
    BY <1>1, <2>2 DEF Results
  <2> QED BY <2>3, <2>4 DEF none
<1> HIDE DEF f
<1>3. Initialized(r, n) = PivotalReset(f)
  BY DEF Initialized, e, f
<1> QED BY <1>1, <1>2, <1>3, PivotalResetFacts

\* The ensemble a pivotal run stores.
LEMMA StoredFacts ==
  ASSUME TypeOK, NEW r \in Results
  PROVE  /\ Stored(r) \in Results
         /\ Stored(r).raw = call.accepted /\ Stored(r).sets = call.draws
         /\ Stored(r).studentized = <<>> /\ Stored(r).failed = LostFits
         /\ Stored(r).parent = r.parent
         /\ Stored(r).diagnostics.run = runs
         /\ Stored(r).diagnostics.requested = call.rows
         /\ Stored(r).diagnostics.failed = LostFits
         /\ Stored(r).diagnostics.rejected = Len(call.fits) - Len(call.accepted)
         /\ Stored(r).diagnostics.accepted = Len(call.accepted)
         /\ Stored(r).diagnostics.invalid = call.invalid
         /\ Stored(r).diagnostics.retained = Len(call.draws)
<1> DEFINE flags == Rows(Len(call.draws), TRUE)
           d == [run |-> runs, requested |-> call.rows, failed |-> LostFits,
                 rejected |-> Len(call.fits) - Len(call.accepted),
                 accepted |-> Len(call.accepted), invalid |-> call.invalid,
                 retained |-> Len(call.draws)]
<1>1. /\ call.accepted \in Seq(Tags) /\ call.draws \in Seq(Tags) /\ call.fits \in Seq(Tags)
      /\ call.rows \in Nat /\ call.invalid \in Nat /\ runs \in Nat
  BY DEF TypeOK, Calls
<1>2. Len(call.accepted) \in Nat /\ Len(call.draws) \in Nat /\ Len(call.fits) \in Nat
  BY <1>1
<1>3. flags \in Seq(BOOLEAN)
  BY <1>2, RowsTyped
<1>4. LostFits \in Int
  BY <1>1, <1>2 DEF LostFits
<1>5. d \in Counts
  BY <1>1, <1>2, <1>4 DEF Counts
<1> DEFINE none == <<>>
<1>n. none \in Seq(Tags)
  OBVIOUS
<1> HIDE DEF flags, d, none
<1>6. Stored(r) = [r EXCEPT !.raw = call.accepted, !.sets = call.draws, !.failed = LostFits,
                            !.valid = flags, !.studentized = none, !.diagnostics = d]
  BY DEF Stored, flags, d, none
<1>7. Stored(r) \in Results
  BY <1>1, <1>n, <1>3, <1>4, <1>5, <1>6 DEF Results
<1>8. /\ Stored(r).raw = call.accepted /\ Stored(r).sets = call.draws
      /\ Stored(r).studentized = none /\ Stored(r).failed = LostFits
      /\ Stored(r).parent = r.parent /\ Stored(r).diagnostics = d
  BY <1>6 DEF Results
<1> QED BY <1>7, <1>8 DEF d, none
-----------------------------------------------------------------------------

LEMMA InitInv == Init => Inv
<1> SUFFICES ASSUME Init PROVE Inv
  OBVIOUS
<1>1. TypeOK
  BY ConstantTags DEF Init, TypeOK
<1>2. Place /\ LoopShape
  BY DEF Init, Place, LoopShape, NoCall, Looping
<1>3. PivotalShape
  BY DEF Init, PivotalShape, OfRun, NoCall
<1>4. Studentized /\ RowsAreWhole /\ CompletedRunIsWhole
  BY DEF Init, Studentized, RowsAreWhole, CompletedRunIsWhole, Finished, NoCall, NoResults,
         Looping
<1> QED BY <1>1, <1>2, <1>3, <1>4 DEF Inv
-----------------------------------------------------------------------------

LEMMA LoopFacts ==
  ASSUME NEW m \in Types, NEW n \in Nat
  PROVE  /\ Loop(m, n) \in Calls
         /\ Loop(m, n).mode = m /\ Loop(m, n).rows = n /\ Loop(m, n).row = 1
         /\ Loop(m, n).step = "attempt" /\ Loop(m, n).fits = <<>>
         /\ Loop(m, n).accepted = <<>> /\ Loop(m, n).draws = <<>> /\ Loop(m, n).invalid = 0
<1>1. 1 \in Nat /\ "attempt" \in {"idle", "attempt", "inner", "filter", "draw"}
  OBVIOUS
<1>2. Loop(m, n) \in Calls
  BY <1>1, ConstantTags DEF Loop, Calls
<1>3. /\ Loop(m, n).mode = m /\ Loop(m, n).rows = n /\ Loop(m, n).row = 1
      /\ Loop(m, n).step = "attempt" /\ Loop(m, n).fits = NoCall.fits
      /\ Loop(m, n).accepted = NoCall.accepted /\ Loop(m, n).draws = NoCall.draws
      /\ Loop(m, n).invalid = NoCall.invalid
  BY ConstantTags DEF Loop, Calls
<1> QED BY <1>2, <1>3, NoCallFields

\* A call that leaves the results to a later step.
LEMMA Untouched ==
  ASSUME Inv, UNCHANGED <<results, whole>>, call.mode \notin Looping, call'.mode \notin Looping,
         call' \in Calls, runs' \in Nat, Place', PivotalShape'
  PROVE  Inv'
<1>1. TypeOK'
  BY DEF Inv, TypeOK
<1>2. LoopShape' /\ Studentized'
  BY DEF Inv, LoopShape, Studentized
<1>3. RowsAreWhole'
  BY DEF RowsAreWhole, Finished
<1>4. CompletedRunIsWhole'
  BY DEF Inv, CompletedRunIsWhole, Elements
<1> QED BY <1>1, <1>2, <1>3, <1>4 DEF Inv

LEMMA LoopBegins ==
  ASSUME Inv, Enter, NEW m \in Looping, NEW n \in Nat \ {0},
         call' = Loop(m, n), whole' = 0, results' \in Results,
         Len(results'.sets) = n, Len(results'.stats) = n, Len(results'.valid) = n,
         results'.failed = 0, results'.parent = runs', results'.raw = <<>>,
         results'.rawStats = <<>>, results'.diagnostics = NoDiagnostics,
         IF m = "Studentized" THEN Len(results'.studentized) = n
                              ELSE results'.studentized = <<>>
  PROVE  Inv'
<1>1. /\ call' \in Calls /\ call'.mode = m /\ call'.rows = n /\ call'.row = 1
      /\ call'.step = "attempt" /\ call'.fits = <<>>
      /\ call'.accepted = <<>> /\ call'.draws = <<>> /\ call'.invalid = 0
  BY LoopFacts DEF Types
<1>2. runs' = runs + 1 /\ runs \in Nat
  BY DEF Inv, TypeOK, Enter
<1>3. TypeOK'
  BY <1>1, <1>2 DEF TypeOK
<1>4. Place'
  BY <1>1, <1>2 DEF Place, Looping
<1>5. LoopShape'
  BY <1>1 DEF LoopShape
<1>6. PivotalShape'
  BY <1>1 DEF PivotalShape, OfRun
<1>7. RowsAreWhole'
  <2>1. Finished' = {}
    BY <1>1 DEF Finished
  <2>2. {i \in Finished' : ~results'.valid[i]} = {}
    BY <2>1
  <2>3. Cardinality({}) = 0
    BY FS_EmptySet
  <2> QED BY <2>1, <2>2, <2>3 DEF RowsAreWhole
<1>8. Studentized' /\ CompletedRunIsWhole'
  BY <1>1 DEF Studentized, CompletedRunIsWhole
<1> QED BY <1>3, <1>4, <1>5, <1>6, <1>7, <1>8 DEF Inv

LEMMA EntryStep == Inv /\ AnyEntry => Inv'
<1> SUFFICES ASSUME Inv, AnyEntry PROVE Inv'
  OBVIOUS
<1>1. Enter
  BY DEF AnyEntry, Run, RunStudentized, RunPivotal, TransformFits, EntryThrows,
         StudentizedEntryThrows
<1>2. /\ results \in Results /\ call = NoCall /\ call.mode = "None" /\ call.step = "idle"
      /\ runs \in Nat /\ runs' = runs + 1 /\ runs' \in Nat
  BY <1>1 DEF Inv, TypeOK, Place, Enter, NoCall
<1>3. ReplicateCounts \subseteq Nat \ {0}
  BY BootstrapAssumption
<1>4. ASSUME NEW n \in ReplicateCounts, NEW m \in Looping, Run(m, n) PROVE Inv'
  <2>1. n \in Nat \ {0} /\ m # "Studentized"
    BY <1>3, <1>4 DEF Run
  <2>2. results' = Initialized(results, n) /\ call' = Loop(m, n) /\ whole' = 0
    BY <1>4 DEF Run
  <2>3. /\ results' \in Results
        /\ Len(results'.sets) = n /\ Len(results'.stats) = n
        /\ Len(results'.valid) = n /\ results'.failed = 0
        /\ results'.parent = runs' /\ results'.studentized = <<>>
        /\ results'.raw = <<>> /\ results'.rawStats = <<>>
        /\ results'.diagnostics = NoDiagnostics
    BY <1>2, <2>1, <2>2, InitializedFacts
  <2> QED BY <1>1, <2>1, <2>2, <2>3, LoopBegins
<1>5. ASSUME NEW n \in ReplicateCounts, RunStudentized(n) PROVE Inv'
  <2> DEFINE r == PivotalReset(results)
             e == Emptied(r, n)
             rows == Rows(n, Blank)
  <2>1. n \in Nat \ {0}
    BY <1>3
  <2>2. /\ r \in Results /\ r.raw = <<>> /\ r.rawStats = <<>>
        /\ r.diagnostics = NoDiagnostics
    BY <1>2, PivotalResetFacts
  <2> HIDE DEF r
  <2>3. /\ e \in Results /\ Len(e.sets) = n /\ Len(e.stats) = n /\ Len(e.valid) = n
        /\ e.failed = 0 /\ e.parent = runs' /\ e.raw = <<>> /\ e.rawStats = <<>>
        /\ e.diagnostics = NoDiagnostics
    BY <1>2, <2>1, <2>2, EmptiedFacts
  <2>4. rows \in Seq(Tags) /\ Len(rows) = n
    BY <2>1, RowsTyped, ConstantTags
  <2>5. results' = [e EXCEPT !.studentized = rows] /\ call' = Loop("Studentized", n) /\ whole' = 0
    BY <1>5 DEF RunStudentized, r
  <2> HIDE DEF e, rows
  <2>6. /\ results' \in Results /\ results'.studentized = rows
        /\ results'.sets = e.sets /\ results'.stats = e.stats /\ results'.valid = e.valid
        /\ results'.failed = e.failed /\ results'.parent = e.parent /\ results'.raw = e.raw
        /\ results'.rawStats = e.rawStats /\ results'.diagnostics = e.diagnostics
    BY <2>3, <2>4, <2>5 DEF Results
  <2>7. "Studentized" \in Looping
    BY DEF Looping
  <2> QED BY <1>1, <2>1, <2>3, <2>4, <2>5, <2>6, <2>7, LoopBegins
<1>6. ASSUME NEW n \in ReplicateCounts, RunPivotal(n) PROVE Inv'
  <2>1. /\ call' \in Calls /\ call'.mode = "Pivotal" /\ call'.rows = n /\ call'.row = 1
        /\ call'.step = "attempt" /\ call'.fits = <<>>
        /\ call'.accepted = <<>> /\ call'.draws = <<>> /\ call'.invalid = 0
    BY <1>3, <1>6, LoopFacts DEF RunPivotal, Types
  <2>2. Place' /\ PivotalShape'
    BY <1>2, <1>3, <2>1 DEF Place, PivotalShape, OfRun, Looping
  <2> QED BY <1>2, <1>6, <2>1, <2>2, Untouched DEF RunPivotal, Looping
<1>7. ASSUME NEW n \in ReplicateCounts, TransformFits(n) PROVE Inv'
  <2> DEFINE fits == [i \in 1..n |-> [run |-> runs', row |-> i, try |-> 0]]
  <2>1. n \in Nat \ {0}
    BY <1>3
  <2>2. fits \in Seq(Tags) /\ Len(fits) = n /\ \A i \in 1..n : fits[i].run = runs'
    BY <1>2, <2>1 DEF Tags
  <2>3. call' = [NoCall EXCEPT !.mode = "Pivotal", !.rows = n, !.row = 1, !.step = "filter",
                               !.fits = fits]
    BY <1>7 DEF TransformFits
  <2> HIDE DEF fits
  <2>4. /\ call' \in Calls /\ call'.mode = "Pivotal" /\ call'.row = 1 /\ call'.step = "filter"
        /\ call'.fits = fits /\ call'.accepted = <<>> /\ call'.draws = <<>>
        /\ call'.invalid = 0
    <3>1. "Pivotal" \in Types
      BY DEF Types
    <3>2. call' \in Calls
      BY <2>1, <2>2, <2>3, <3>1, ConstantTags DEF Calls
    <3>3. /\ call'.mode = "Pivotal" /\ call'.row = 1 /\ call'.step = "filter"
          /\ call'.fits = fits /\ call'.accepted = NoCall.accepted
          /\ call'.draws = NoCall.draws /\ call'.invalid = NoCall.invalid
      BY <2>3, ConstantTags DEF Calls
    <3> QED BY <3>2, <3>3, NoCallFields
  <2>5. Place' /\ PivotalShape'
    BY <1>2, <2>2, <2>4 DEF Place, PivotalShape, OfRun, Looping
  <2> QED BY <1>2, <1>7, <2>4, <2>5, Untouched DEF TransformFits, Looping
<1>8. CASE EntryThrows
  <2>1. call' = NoCall /\ UNCHANGED <<results, whole>>
    BY <1>2, <1>8 DEF EntryThrows
  <2>2. Place' /\ PivotalShape'
    BY <2>1 DEF Place, PivotalShape, OfRun, NoCall, Looping
  <2> QED BY <1>2, <2>1, <2>2, ConstantTags, Untouched DEF NoCall, Looping
<1>9. CASE StudentizedEntryThrows
  <2> DEFINE r == PivotalReset(results)
  <2>1. /\ r \in Results /\ r.sets = results.sets /\ r.stats = results.stats
        /\ r.studentized = results.studentized
    BY <1>2, PivotalResetFacts
  <2>2. PICK p \in {results.parent, runs'} : results' = [r EXCEPT !.parent = p]
    BY <1>9 DEF StudentizedEntryThrows
  <2>3. p \in Nat
    BY <1>2, <2>2 DEF Results
  <2> HIDE DEF r
  <2>4. /\ results' \in Results /\ results'.sets = results.sets
        /\ results'.stats = results.stats /\ results'.studentized = results.studentized
    BY <2>1, <2>2, <2>3 DEF Results
  <2>5. call' = NoCall /\ whole' = 0
    BY <1>2, <1>9 DEF StudentizedEntryThrows
  <2>6. TypeOK'
    BY <1>2, <2>4, <2>5, ConstantTags DEF TypeOK
  <2>7. Place' /\ LoopShape' /\ PivotalShape' /\ RowsAreWhole'
    BY <2>5 DEF Place, LoopShape, PivotalShape, OfRun, RowsAreWhole, Finished, NoCall, Looping
  <2>8. Studentized' /\ CompletedRunIsWhole'
    BY <1>2, <2>4, <2>5 DEF Inv, Studentized, CompletedRunIsWhole, Looping
  <2> QED BY <2>6, <2>7, <2>8 DEF Inv
<1> QED BY <1>4, <1>5, <1>6, <1>7, <1>8, <1>9 DEF AnyEntry

\* The call as a replicate is left behind it.
LEMMA NextRowFacts ==
  ASSUME TypeOK
  PROVE  /\ NextRow \in Calls
         /\ NextRow.mode = call.mode /\ NextRow.rows = call.rows /\ NextRow.row = call.row + 1
         /\ NextRow.step = "attempt" /\ NextRow.fits = call.fits
         /\ NextRow.accepted = call.accepted /\ NextRow.draws = call.draws
         /\ NextRow.invalid = call.invalid /\ NextRow.policy = call.policy
<1> DEFINE row == call.row + 1
           zero == 0
<1>1. call \in Calls /\ row \in Nat /\ zero \in Nat
  BY DEF TypeOK, Calls
<1>2. "attempt" \in {"idle", "attempt", "inner", "filter", "draw"}
  OBVIOUS
<1> HIDE DEF row, zero
<1>3. NextRow = [call EXCEPT !.row = row, !.try = zero, !.step = "attempt", !.inner = zero,
                             !.valid = zero]
  BY <1>1 DEF NextRow, row, zero, Calls
<1>4. NextRow \in Calls
  BY <1>1, <1>2, <1>3 DEF Calls
<1>5. /\ NextRow.mode = call.mode /\ NextRow.rows = call.rows /\ NextRow.row = row
      /\ NextRow.step = "attempt" /\ NextRow.fits = call.fits
      /\ NextRow.accepted = call.accepted /\ NextRow.draws = call.draws
      /\ NextRow.invalid = call.invalid /\ NextRow.policy = call.policy
  BY <1>1, <1>3 DEF Calls
<1> QED BY <1>4, <1>5 DEF row

\* A replicate is done, with d in all of its rows, or NaN.
LEMMA RowDone ==
  ASSUME Inv, call.mode \in Looping, call.row <= call.rows, NEW d \in Tags, NEW ok \in BOOLEAN,
         IF ok THEN d.run = runs ELSE d = NaN,
         results' \in Results,
         results'.sets = [results.sets EXCEPT ![call.row] = d],
         results'.stats = [results.stats EXCEPT ![call.row] = d],
         results'.valid = [results.valid EXCEPT ![call.row] = ok],
         results'.failed = IF ok THEN results.failed ELSE results.failed + 1,
         results'.studentized = IF call.mode = "Studentized"
                                  THEN [results.studentized EXCEPT ![call.row] = d]
                                  ELSE results.studentized,
         results'.parent = results.parent, results'.raw = results.raw,
         results'.rawStats = results.rawStats, results'.diagnostics = results.diagnostics,
         call' = NextRow, UNCHANGED <<runs, whole>>
  PROVE  Inv'
<1>1. /\ call' \in Calls /\ call'.mode = call.mode /\ call'.rows = call.rows
      /\ call'.row = call.row + 1 /\ call'.step = "attempt" /\ call'.fits = call.fits
      /\ call'.accepted = call.accepted /\ call'.draws = call.draws
      /\ call'.invalid = call.invalid
  BY NextRowFacts DEF Inv
<1>2. /\ call.row \in 1..call.rows /\ call.rows \in Nat /\ call.row \in Nat
      /\ call.step \in {"attempt", "inner"} /\ runs # 0 /\ whole = 0
  BY DEF Inv, TypeOK, Calls, Place
<1>3. /\ results.sets \in Seq(Tags) /\ results.stats \in Seq(Tags)
      /\ results.valid \in Seq(BOOLEAN) /\ results.studentized \in Seq(Tags)
      /\ results.failed \in Int
  BY DEF Inv, TypeOK, Results
<1>4. /\ Len(results.sets) = call.rows /\ Len(results.stats) = call.rows
      /\ Len(results.valid) = call.rows
      /\ call.mode = "Studentized" => Len(results.studentized) = call.rows
  BY DEF Inv, LoopShape
<1>5. TypeOK'
  BY <1>1 DEF Inv, TypeOK
<1>6. Place'
  BY <1>1, <1>2 DEF Place, Looping
<1>7. LoopShape'
  BY <1>1, <1>3, <1>4 DEF Inv, LoopShape
<1>8. PivotalShape'
  BY <1>1 DEF Inv, PivotalShape, OfRun, Looping
<1>9. RowsAreWhole'
  <2>1. Finished = 1..(call.row - 1) /\ Finished' = 1..call.row
    BY <1>1, <1>2 DEF Finished
  <2>2. \A i \in Finished : results'.valid[i] = results.valid[i]
    BY <1>2, <1>3, <1>4, <2>1
  <2>s. \A i \in Finished : results'.sets[i] = results.sets[i]
    BY <1>2, <1>3, <1>4, <2>1
  <2>t. \A i \in Finished : results'.stats[i] = results.stats[i]
    BY <1>2, <1>3, <1>4, <2>1
  <2>z. ASSUME call.mode = "Studentized"
        PROVE  \A i \in Finished : results'.studentized[i] = results.studentized[i]
    BY <1>2, <1>3, <1>4, <2>1, <2>z
  <2>3. /\ results'.sets[call.row] = d /\ results'.stats[call.row] = d
        /\ results'.valid[call.row] = ok
        /\ call.mode = "Studentized" => results'.studentized[call.row] = d
    BY <1>2, <1>3, <1>4
  <2>4. \A i \in Finished' : i \in Finished \/ i = call.row
    BY <1>2, <2>1
  <2>5. \A i \in Finished' :
          IF results'.valid[i]
            THEN /\ results'.sets[i] = results'.stats[i] /\ results'.sets[i].run = runs
                 /\ call.mode = "Studentized" => results'.studentized[i] = results'.sets[i]
            ELSE /\ results'.sets[i] = NaN /\ results'.stats[i] = NaN
                 /\ call.mode = "Studentized" => results'.studentized[i] = NaN
    <3> SUFFICES ASSUME NEW i \in Finished'
                 PROVE  IF results'.valid[i]
            THEN /\ results'.sets[i] = results'.stats[i] /\ results'.sets[i].run = runs
                 /\ call.mode = "Studentized" => results'.studentized[i] = results'.sets[i]
            ELSE /\ results'.sets[i] = NaN /\ results'.stats[i] = NaN
                 /\ call.mode = "Studentized" => results'.studentized[i] = NaN
      OBVIOUS
    <3>1. CASE i \in Finished
      <4>1. IF results.valid[i]
              THEN /\ results.sets[i] = results.stats[i] /\ results.sets[i].run = runs
                   /\ call.mode = "Studentized" => results.studentized[i] = results.sets[i]
              ELSE /\ results.sets[i] = NaN /\ results.stats[i] = NaN
                   /\ call.mode = "Studentized" => results.studentized[i] = NaN
        BY <3>1 DEF Inv, RowsAreWhole
      <4>2. /\ results'.sets[i] = results.sets[i] /\ results'.stats[i] = results.stats[i]
            /\ results'.valid[i] = results.valid[i]
            /\ call.mode = "Studentized" => results'.studentized[i] = results.studentized[i]
        BY <2>2, <2>s, <2>t, <2>z, <3>1
      <4> QED BY <4>1, <4>2
    <3>2. CASE i = call.row
      BY <2>3, <3>2
    <3> QED BY <2>4, <3>1, <3>2
  <2> DEFINE bad == {i \in Finished : ~results.valid[i]}
             bads == {i \in Finished' : ~results'.valid[i]}
  <2>6. IsFiniteSet(bad) /\ call.row \notin bad
    <3>1. IsFiniteSet(Finished)
      BY <1>2, <2>1, FS_Interval
    <3> QED BY <1>2, <2>1, <3>1, FS_Subset
  <2>7. results.failed = Cardinality(bad)
    BY DEF Inv, RowsAreWhole
  <2>8. results'.failed = Cardinality(bads)
    <3>1. CASE ok
      <4>1. bads = bad
        <5>1. \A i : i \in Finished' <=> i \in Finished \/ i = call.row
          BY <1>2, <2>1
        <5>2. \A i \in Finished : results'.valid[i] = results.valid[i]
          BY <2>2
        <5>3. results'.valid[call.row]
          BY <2>3, <3>1
        <5> QED BY <5>1, <5>2, <5>3
      <4> QED BY <2>7, <3>1, <4>1
    <3>2. CASE ~ok
      <4>1. bads = bad \cup {call.row}
        <5>1. \A i : i \in Finished' <=> i \in Finished \/ i = call.row
          BY <1>2, <2>1
        <5>2. \A i \in Finished : results'.valid[i] = results.valid[i]
          BY <2>2
        <5>3. ~results'.valid[call.row]
          BY <2>3, <3>2
        <5> QED BY <5>1, <5>2, <5>3
      <4>2. Cardinality(bad \cup {call.row}) = Cardinality(bad) + 1
        BY <2>6, FS_AddElement
      <4> QED BY <2>7, <3>2, <4>1, <4>2
    <3> QED BY <3>1, <3>2
  <2> QED BY <1>1, <2>5, <2>8 DEF RowsAreWhole
<1>10. Studentized' /\ CompletedRunIsWhole'
  BY <1>1, <1>2 DEF Studentized, CompletedRunIsWhole
<1> QED BY <1>5, <1>6, <1>7, <1>8, <1>9, <1>10 DEF Inv

\* An attempt goes on at the same replicate: only its own row may be written.
LEMMA RowOpen ==
  ASSUME Inv, call.mode \in Looping, call.row <= call.rows,
         call' \in Calls, call'.step \in {"attempt", "inner"},
         call'.mode = call.mode, call'.rows = call.rows, call'.row = call.row,
         call'.fits = call.fits, call'.accepted = call.accepted, call'.draws = call.draws,
         call'.invalid = call.invalid,
         results' \in Results,
         Len(results'.sets) = Len(results.sets), Len(results'.stats) = Len(results.stats),
         \A i \in Finished : results'.sets[i] = results.sets[i],
         \A i \in Finished : results'.stats[i] = results.stats[i],
         results'.valid = results.valid, results'.failed = results.failed,
         results'.studentized = results.studentized, results'.parent = results.parent,
         results'.raw = results.raw, results'.rawStats = results.rawStats,
         results'.diagnostics = results.diagnostics,
         UNCHANGED <<runs, whole>>
  PROVE  Inv'
<1>1. /\ call.row \in 1..call.rows /\ call.rows \in Nat /\ call.row \in Nat
      /\ call.step \in {"attempt", "inner"} /\ runs # 0 /\ whole = 0
  BY DEF Inv, TypeOK, Calls, Place
<1>2. TypeOK'
  BY DEF Inv, TypeOK
<1>3. Place'
  BY <1>1 DEF Place, Looping
<1>4. LoopShape'
  BY DEF Inv, LoopShape
<1>5. PivotalShape'
  BY DEF Inv, PivotalShape, OfRun, Looping
<1>6. RowsAreWhole'
  <2>1. Finished' = Finished
    BY DEF Finished
  <2> SUFFICES /\ \A i \in Finished :
                    IF results.valid[i]
                      THEN /\ results'.sets[i] = results'.stats[i] /\ results'.sets[i].run = runs
                           /\ call.mode = "Studentized" =>
                                results.studentized[i] = results'.sets[i]
                      ELSE /\ results'.sets[i] = NaN /\ results'.stats[i] = NaN
                           /\ call.mode = "Studentized" => results.studentized[i] = NaN
               /\ results.failed = Cardinality({i \in Finished : ~results.valid[i]})
    BY <2>1 DEF RowsAreWhole
  <2>2. results.failed = Cardinality({i \in Finished : ~results.valid[i]})
    BY DEF Inv, RowsAreWhole
  <2>3. ASSUME NEW i \in Finished
        PROVE  IF results.valid[i]
                 THEN /\ results'.sets[i] = results'.stats[i] /\ results'.sets[i].run = runs
                      /\ call.mode = "Studentized" => results.studentized[i] = results'.sets[i]
                 ELSE /\ results'.sets[i] = NaN /\ results'.stats[i] = NaN
                      /\ call.mode = "Studentized" => results.studentized[i] = NaN
    <3>1. IF results.valid[i]
            THEN /\ results.sets[i] = results.stats[i] /\ results.sets[i].run = runs
                 /\ call.mode = "Studentized" => results.studentized[i] = results.sets[i]
            ELSE /\ results.sets[i] = NaN /\ results.stats[i] = NaN
                 /\ call.mode = "Studentized" => results.studentized[i] = NaN
      BY DEF Inv, RowsAreWhole
    <3>2. results'.sets[i] = results.sets[i] /\ results'.stats[i] = results.stats[i]
      OBVIOUS
    <3> QED BY <3>1, <3>2
  <2> QED BY <2>2, <2>3
<1>7. Studentized' /\ CompletedRunIsWhole'
  BY <1>1 DEF Studentized, CompletedRunIsWhole
<1> QED BY <1>2, <1>3, <1>4, <1>5, <1>6, <1>7 DEF Inv

\* An attempt that is lost is made again, or its replicate is given up.
LEMMA LoseStep ==
  ASSUME Inv, Lose, UNCHANGED <<runs, whole>>, call.step \in {"attempt", "inner"},
         call.row <= call.rows
  PROVE  Inv'
<1>1. /\ call \in Calls /\ results \in Results /\ runs \in Nat /\ runs # 0
      /\ call.row \in 1..call.rows /\ call.row \in Nat /\ call.rows \in Nat
      /\ call.mode \in Looping \cup {"Pivotal"}
  BY DEF Inv, TypeOK, Calls, Place, Types
<1>2. CASE call.try + 1 < MaxRetries
  <2> DEFINE try == call.try + 1
             zero == 0
  <2>1. try \in Nat /\ zero \in Nat
    BY <1>1 DEF Calls
  <2>2. "attempt" \in {"idle", "attempt", "inner", "filter", "draw"}
    OBVIOUS
  <2>3. /\ call' = [call EXCEPT !.try = try, !.step = "attempt", !.inner = zero, !.valid = zero]
        /\ UNCHANGED results
    BY <1>1, <1>2 DEF Lose, Calls
  <2> HIDE DEF try, zero
  <2>4. call' \in Calls
    BY <1>1, <2>1, <2>2, <2>3 DEF Calls
  <2>5. /\ call'.mode = call.mode /\ call'.rows = call.rows /\ call'.row = call.row
        /\ call'.step = "attempt" /\ call'.fits = call.fits /\ call'.accepted = call.accepted
        /\ call'.draws = call.draws /\ call'.invalid = call.invalid
    BY <1>1, <2>3 DEF Calls
  <2>6. CASE call.mode \in Looping
    BY <1>1, <2>3, <2>4, <2>5, <2>6, RowOpen
  <2>7. CASE call.mode = "Pivotal"
    <3>1. Place' /\ PivotalShape'
      BY <1>1, <2>5, <2>7 DEF Inv, Place, PivotalShape, OfRun, Looping
    <3> QED BY <1>1, <2>3, <2>4, <2>5, <2>7, <3>1, Untouched DEF Looping
  <2> QED BY <1>1, <2>6, <2>7
<1>3. CASE ~(call.try + 1 < MaxRetries)
  <2>1. call' = NextRow
    BY <1>3 DEF Lose
  <2>2. results' = IF call.mode = "Pivotal" THEN results ELSE MarkFailed(results, call.row)
    BY <1>3 DEF Lose
  <2>3. /\ call' \in Calls /\ call'.mode = call.mode /\ call'.rows = call.rows
        /\ call'.row = call.row + 1 /\ call'.step = "attempt" /\ call'.fits = call.fits
        /\ call'.accepted = call.accepted /\ call'.draws = call.draws
        /\ call'.invalid = call.invalid
    BY <2>1, NextRowFacts DEF Inv
  <2>4. CASE call.mode \in Looping
    <3>1. results' = MarkFailed(results, call.row)
      BY <2>2, <2>4 DEF Looping
    <3>2. /\ Len(results.sets) = call.rows /\ Len(results.stats) = Len(results.sets)
          /\ Len(results.valid) = Len(results.sets)
          /\ call.mode = "Studentized" => Len(results.studentized) = Len(results.sets)
      BY <2>4 DEF Inv, LoopShape
    <3>3. call.row \in 1..Len(results.sets)
      BY <1>1, <3>2
    <3>4. /\ results' \in Results
          /\ results'.sets = [results.sets EXCEPT ![call.row] = NaN]
          /\ results'.stats = [results.stats EXCEPT ![call.row] = NaN]
          /\ results'.valid = [results.valid EXCEPT ![call.row] = FALSE]
          /\ results'.failed = results.failed + 1
          /\ results'.parent = results.parent
          /\ results'.studentized =
               IF call.mode = "Studentized" THEN [results.studentized EXCEPT ![call.row] = NaN]
                                            ELSE results.studentized
          /\ results'.raw = results.raw /\ results'.rawStats = results.rawStats
          /\ results'.diagnostics = results.diagnostics
      BY <1>1, <3>1, <3>2, <3>3, MarkFailedFacts
    <3>5. NaN \in Tags /\ FALSE \in BOOLEAN
      BY ConstantTags
    <3> QED BY <2>1, <2>4, <3>4, <3>5, RowDone
  <2>5. CASE call.mode = "Pivotal"
    <3>1. Place' /\ PivotalShape'
      BY <1>1, <2>3, <2>5 DEF Inv, Place, PivotalShape, OfRun, Looping
    <3> QED BY <1>1, <2>2, <2>3, <2>5, <3>1, Untouched DEF Looping
  <2> QED BY <1>1, <2>4, <2>5
<1> QED BY <1>2, <1>3

\* The rows of a completed loop are those of its run.
LEMMA CompleteStep == Inv /\ Complete => Inv'
<1> SUFFICES ASSUME Inv, Complete PROVE Inv'
  OBVIOUS
<1>1. /\ call \in Calls /\ results \in Results /\ runs \in Nat /\ call.mode \in Looping
      /\ call.row > call.rows /\ call.step = "attempt" /\ call' = NoCall /\ whole' = runs
      /\ runs' = runs /\ results' = [results EXCEPT !.type = call.mode]
      /\ call.row \in Nat /\ call.rows \in Nat
  BY DEF Inv, TypeOK, Complete, Calls
<1>2. /\ results.sets \in Seq(Tags) /\ results.stats \in Seq(Tags)
      /\ results.studentized \in Seq(Tags)
  BY <1>1 DEF Results
<1>3. call.mode \in Types /\ call.row = call.rows + 1 /\ runs # 0
  BY <1>1 DEF Inv, Place, Types
<1>4. results' \in Results
  BY <1>1, <1>3 DEF Results
<1>5. /\ results'.sets = results.sets /\ results'.stats = results.stats
      /\ results'.parent = results.parent /\ results'.studentized = results.studentized
      /\ results'.raw = results.raw /\ results'.rawStats = results.rawStats
      /\ results'.diagnostics = results.diagnostics /\ results'.type = call.mode
  BY <1>1 DEF Results
<1>6. /\ Len(results.sets) = call.rows /\ Len(results.stats) = call.rows
      /\ results.parent = runs /\ call.rows # 0
      /\ results.raw = <<>> /\ results.rawStats = <<>> /\ results.diagnostics = NoDiagnostics
      /\ IF call.mode = "Studentized" THEN Len(results.studentized) = call.rows
                                      ELSE results.studentized = <<>>
  BY <1>1 DEF Inv, LoopShape
<1>7. ASSUME NEW i \in 1..call.rows
      PROVE  /\ results.sets[i] = results.stats[i]
             /\ results.sets[i] = NaN \/ results.sets[i].run = runs
             /\ call.mode = "Studentized" => results.studentized[i] = results.sets[i]
  <2>1. i \in Finished
    BY <1>1, <1>3 DEF Finished
  <2> QED BY <2>1 DEF Inv, RowsAreWhole
<1>8. results.sets = results.stats
  BY <1>2, <1>6, <1>7
<1>9. call.mode = "Studentized" => results.studentized = results.sets
  BY <1>2, <1>6, <1>7
<1>10. TypeOK'
  BY <1>1, <1>4, ConstantTags DEF TypeOK
<1>11. Place' /\ LoopShape' /\ PivotalShape' /\ RowsAreWhole'
  BY <1>1 DEF Place, LoopShape, PivotalShape, OfRun, RowsAreWhole, Finished, NoCall, Looping
<1>12. Studentized'
  BY <1>5, <1>6, <1>8, <1>9 DEF Studentized
<1>13. CompletedRunIsWhole'
  <2>1. \A t \in Elements(results.sets) \cup Elements(results.raw) : t = NaN \/ t.run = runs
    BY <1>6, <1>7 DEF Elements
  <2>2. (results.studentized # <<>>) <=> (call.mode = "Studentized")
    BY <1>2, <1>6
  <2>3. call.mode # "None" /\ call.mode # "Pivotal"
    BY <1>1 DEF Looping
  <2>4. \A t \in Elements(results'.sets) \cup Elements(results'.raw) : t = NaN \/ t.run = runs
    BY <1>5, <2>1
  <2> QED BY <1>1, <1>5, <1>6, <1>8, <2>2, <2>3, <2>4 DEF CompletedRunIsWhole
<1> QED BY <1>10, <1>11, <1>12, <1>13 DEF Inv

LEMMA ReplicateStep == Inv /\ Replicate => Inv'
<1> SUFFICES ASSUME Inv, Replicate PROVE Inv'
  OBVIOUS
<1>1. call \in Calls /\ results \in Results /\ runs \in Nat /\ whole \in Nat
  BY DEF Inv, TypeOK
<1>2. /\ call.row \in Nat /\ call.rows \in Nat /\ call.valid \in Nat /\ call.inner \in Nat
      /\ results.sets \in Seq(Tags) /\ results.stats \in Seq(Tags)
      /\ results.valid \in Seq(BOOLEAN) /\ results.studentized \in Seq(Tags)
  BY <1>1 DEF Calls, Results
<1>3. Attempt \in Tags /\ Attempt.run = runs
  BY AttemptTyped DEF Inv
<1>4. ASSUME call.mode \in Looping, call.row <= call.rows
      PROVE  /\ Len(results.stats) = Len(results.sets) /\ Len(results.valid) = Len(results.sets)
             /\ call.row \in 1..Len(results.sets)
             /\ call.mode = "Studentized" => Len(results.studentized) = Len(results.sets)
  BY <1>2, <1>4 DEF Inv, Place, LoopShape
<1>5. ASSUME call.mode \in Looping, call.row <= call.rows
      PROVE  /\ Recorded(results, call.row, Attempt) \in Results
             /\ Recorded(results, call.row, Attempt).sets
                  = [results.sets EXCEPT ![call.row] = Attempt]
             /\ Recorded(results, call.row, Attempt).stats
                  = [results.stats EXCEPT ![call.row] = Attempt]
             /\ Recorded(results, call.row, Attempt).valid
                  = [results.valid EXCEPT ![call.row] = TRUE]
             /\ Recorded(results, call.row, Attempt).failed = results.failed
             /\ Recorded(results, call.row, Attempt).parent = results.parent
             /\ Recorded(results, call.row, Attempt).studentized = results.studentized
             /\ Recorded(results, call.row, Attempt).raw = results.raw
             /\ Recorded(results, call.row, Attempt).rawStats = results.rawStats
             /\ Recorded(results, call.row, Attempt).diagnostics = results.diagnostics
  BY <1>1, <1>3, <1>4, <1>5, RecordedFacts
<1>6. CASE AttemptFails
  BY <1>6, LoseStep DEF AttemptFails, Attempting, Looked
<1>7. CASE RegularFit
  <2>1. /\ call.mode \in Looping /\ call.mode # "Studentized" /\ call.row <= call.rows
        /\ results' = Recorded(results, call.row, Attempt) /\ call' = NextRow
        /\ UNCHANGED <<runs, whole>>
    BY <1>7 DEF RegularFit, Attempting, Looked, Looping
  <2> QED BY <1>3, <1>5, <2>1, RowDone
<1>8. CASE PivotalFit
  <2>1. /\ call.mode = "Pivotal" /\ call.step = "attempt" /\ call.row <= call.rows
        /\ call' = [NextRow EXCEPT !.fits = Append(@, Attempt)]
        /\ UNCHANGED <<results, runs, whole>>
    BY <1>8 DEF PivotalFit, Attempting, Looked
  <2>2. /\ NextRow \in Calls /\ NextRow.mode = call.mode /\ NextRow.rows = call.rows
        /\ NextRow.row = call.row + 1 /\ NextRow.step = "attempt" /\ NextRow.fits = call.fits
        /\ NextRow.accepted = call.accepted /\ NextRow.draws = call.draws
        /\ NextRow.invalid = call.invalid
    BY NextRowFacts DEF Inv
  <2> DEFINE fits == Append(call.fits, Attempt)
  <2>3. fits \in Seq(Tags) /\ call.fits \in Seq(Tags)
    BY <1>1, <1>3 DEF Calls
  <2>4. OfRun(fits)
    <3>1. OfRun(call.fits)
      BY DEF Inv, PivotalShape
    <3>2. /\ Len(fits) = Len(call.fits) + 1 /\ fits[Len(call.fits) + 1] = Attempt
          /\ \A i \in 1..Len(call.fits) : fits[i] = call.fits[i]
      BY <1>3, <2>3
    <3> HIDE DEF fits
    <3> QED BY <1>3, <2>3, <3>1, <3>2 DEF OfRun
  <2>5. call' = [NextRow EXCEPT !.fits = fits]
    BY <2>1, <2>2 DEF Calls
  <2> HIDE DEF fits
  <2>6. call' \in Calls
    BY <2>2, <2>3, <2>5 DEF Calls
  <2>7. /\ call'.mode = call.mode /\ call'.rows = call.rows /\ call'.row = call.row + 1
        /\ call'.step = "attempt" /\ call'.fits = fits /\ call'.accepted = call.accepted
        /\ call'.draws = call.draws /\ call'.invalid = call.invalid
    BY <2>2, <2>5 DEF Calls
  <2>8. Place'
    BY <1>2, <2>1, <2>7 DEF Inv, Place, Looping
  <2>9. PivotalShape'
    BY <2>1, <2>4, <2>7 DEF Inv, PivotalShape, OfRun
  <2> QED BY <1>1, <2>1, <2>6, <2>7, <2>8, <2>9, Untouched DEF Looping
<1>9. CASE OuterFit
  <2>1. /\ call.mode \in Looping /\ call.row <= call.rows /\ call.step = "attempt"
        /\ call' = [call EXCEPT !.step = "inner"] /\ UNCHANGED <<runs, whole>>
    BY <1>9 DEF OuterFit, Attempting, Looked, Looping
  <2>2. /\ call' \in Calls /\ call'.step = "inner"
        /\ call'.mode = call.mode /\ call'.rows = call.rows /\ call'.row = call.row
        /\ call'.fits = call.fits /\ call'.accepted = call.accepted
        /\ call'.draws = call.draws /\ call'.invalid = call.invalid
    BY <1>1, <2>1 DEF Calls
  <2>3. CASE call.mode # "Studentized"
    <3>1. results' = results
      BY <1>9, <2>3 DEF OuterFit
    <3> QED BY <1>1, <2>1, <2>2, <3>1, RowOpen
  <2>4. CASE call.mode = "Studentized"
    <3> DEFINE sets == [results.sets EXCEPT ![call.row] = Attempt]
               stats == [results.stats EXCEPT ![call.row] = Attempt]
    <3>1. /\ sets \in Seq(Tags) /\ Len(sets) = Len(results.sets)
          /\ stats \in Seq(Tags) /\ Len(stats) = Len(results.stats)
      BY <1>2, <1>3, <1>4, <2>1
    <3>2. Finished = 1..(call.row - 1)
      BY <2>1 DEF Finished
    <3>3. \A i \in Finished : sets[i] = results.sets[i]
      BY <1>2, <1>3, <1>4, <2>1, <3>2
    <3>4. \A i \in Finished : stats[i] = results.stats[i]
      BY <1>2, <1>3, <1>4, <2>1, <3>2
    <3>5. results' = [results EXCEPT !.sets = sets, !.stats = stats]
      BY <1>1, <1>9, <2>4 DEF OuterFit, Results
    <3> HIDE DEF sets, stats
    <3>6. results' \in Results
      BY <1>1, <3>1, <3>5 DEF Results
    <3>7. /\ results'.sets = sets /\ results'.stats = stats /\ results'.valid = results.valid
          /\ results'.failed = results.failed /\ results'.studentized = results.studentized
          /\ results'.parent = results.parent /\ results'.raw = results.raw
          /\ results'.rawStats = results.rawStats
          /\ results'.diagnostics = results.diagnostics
      BY <1>1, <3>5 DEF Results
    <3> QED BY <2>1, <2>2, <3>1, <3>3, <3>4, <3>6, <3>7, RowOpen
  <2> QED BY <2>3, <2>4
<1>10. ASSUME NEW ok \in BOOLEAN, InnerFit(ok) PROVE Inv'
  <2> DEFINE inner == call.inner + 1
             valid == IF ok THEN call.valid + 1 ELSE call.valid
  <2>1. inner \in Nat /\ valid \in Nat
    BY <1>2
  <2>2. /\ call.step = "inner" /\ call.mode \in Looping /\ call.row <= call.rows
        /\ call' = [call EXCEPT !.inner = inner, !.valid = valid]
        /\ UNCHANGED <<results, runs, whole>>
    BY <1>1, <1>10 DEF InnerFit, Looked, Inv, Place, Calls
  <2> HIDE DEF inner, valid
  <2>3. call' \in Calls
    BY <1>1, <2>1, <2>2 DEF Calls
  <2>4. /\ call'.step = "inner"
        /\ call'.mode = call.mode /\ call'.rows = call.rows /\ call'.row = call.row
        /\ call'.fits = call.fits /\ call'.accepted = call.accepted
        /\ call'.draws = call.draws /\ call'.invalid = call.invalid
    BY <1>1, <2>2 DEF Calls
  <2> QED BY <1>1, <2>2, <2>3, <2>4, RowOpen
<1>11. CASE InnerDone
  <2> DEFINE r == Recorded(results, call.row, Attempt)
  <2>1. /\ call.step = "inner" /\ call.mode \in Looping /\ call.row <= call.rows
        /\ call' = NextRow /\ UNCHANGED <<runs, whole>>
    BY <1>11 DEF InnerDone, Looked, Inv, Place
  <2>2. results' = IF call.mode = "Studentized" THEN [r EXCEPT !.studentized[call.row] = Attempt]
                                                ELSE r
    BY <1>11 DEF InnerDone
  <2>3. /\ r \in Results
        /\ r.sets = [results.sets EXCEPT ![call.row] = Attempt]
        /\ r.stats = [results.stats EXCEPT ![call.row] = Attempt]
        /\ r.valid = [results.valid EXCEPT ![call.row] = TRUE]
        /\ r.failed = results.failed /\ r.parent = results.parent
        /\ r.studentized = results.studentized /\ r.raw = results.raw
        /\ r.rawStats = results.rawStats /\ r.diagnostics = results.diagnostics
    BY <1>5, <2>1
  <2> HIDE DEF r
  <2>4. CASE call.mode # "Studentized"
    BY <1>3, <2>1, <2>2, <2>3, <2>4, RowDone
  <2>5. CASE call.mode = "Studentized"
    <3> DEFINE studentized == [results.studentized EXCEPT ![call.row] = Attempt]
    <3>1. studentized \in Seq(Tags)
      BY <1>2, <1>3, <1>4, <2>1, <2>5
    <3>2. results' = [r EXCEPT !.studentized = studentized]
      BY <2>2, <2>3, <2>5 DEF Results
    <3> HIDE DEF studentized
    <3>3. results' \in Results
      BY <2>3, <3>1, <3>2 DEF Results
    <3>4. /\ results'.sets = r.sets /\ results'.stats = r.stats /\ results'.valid = r.valid
          /\ results'.failed = r.failed /\ results'.studentized = studentized
          /\ results'.parent = r.parent /\ results'.raw = r.raw
          /\ results'.rawStats = r.rawStats /\ results'.diagnostics = r.diagnostics
      BY <2>3, <3>2 DEF Results
    <3> QED BY <1>3, <2>1, <2>3, <2>5, <3>3, <3>4, RowDone DEF studentized
  <2> QED BY <2>4, <2>5
<1>12. CASE InnerLost
  BY <1>12, LoseStep DEF InnerLost, Looked, Inv, Place
<1>13. CASE Complete
  BY <1>13, CompleteStep
<1>14. CASE RawFitsDone
  <2>1. /\ call.mode = "Pivotal" /\ call.step = "attempt"
        /\ call' = [call EXCEPT !.step = "filter", !.row = 1]
        /\ UNCHANGED <<results, runs, whole>>
    BY <1>14 DEF RawFitsDone, Looked
  <2>2. 1 \in Nat /\ "filter" \in {"idle", "attempt", "inner", "filter", "draw"}
    OBVIOUS
  <2>3. call' \in Calls
    BY <1>1, <2>1, <2>2 DEF Calls
  <2>4. /\ call'.mode = call.mode /\ call'.row = 1 /\ call'.step = "filter"
        /\ call'.fits = call.fits /\ call'.accepted = call.accepted
        /\ call'.draws = call.draws /\ call'.invalid = call.invalid
    BY <1>1, <2>1 DEF Calls
  <2>5. Place' /\ PivotalShape'
    BY <2>1, <2>4 DEF Inv, Place, PivotalShape, OfRun, Looping
  <2> QED BY <1>1, <2>1, <2>3, <2>4, <2>5, Untouched DEF Looping
<1> QED
  BY <1>6, <1>7, <1>8, <1>9, <1>10, <1>11, <1>12, <1>13, <1>14 DEF Replicate
-----------------------------------------------------------------------------

\* A pivotal run stores its ensemble and is over.
LEMMA DrawnFacts ==
  ASSUME Inv, Drawn
  PROVE  /\ call \in Calls /\ results \in Results /\ runs \in Nat /\ call' = NoCall
         /\ runs' = runs /\ call.mode = "Pivotal" /\ call.accepted \in Seq(Tags)
         /\ call.draws \in Seq(Tags) /\ call.fits \in Seq(Tags) /\ call.invalid \in Nat
         /\ call.rows \in Nat
         /\ OfRun(call.accepted) /\ OfRun(call.draws)
         /\ Len(call.draws) \in {Len(call.accepted), Len(call.accepted) - call.invalid}
         /\ Place' /\ LoopShape' /\ PivotalShape' /\ RowsAreWhole'
<1>1. /\ call \in Calls /\ results \in Results /\ runs \in Nat /\ call' = NoCall
      /\ runs' = runs /\ call.step = "draw" /\ call.row > Len(call.accepted)
  BY DEF Inv, TypeOK, Drawn
<1>2. /\ call.accepted \in Seq(Tags) /\ call.draws \in Seq(Tags) /\ call.fits \in Seq(Tags)
      /\ call.invalid \in Nat /\ call.rows \in Nat /\ call.row \in Nat
  BY <1>1 DEF Calls
<1>3. /\ OfRun(call.accepted) /\ OfRun(call.draws) /\ call.row \in 1..(Len(call.accepted) + 1)
      /\ Len(call.draws) =
           IF call.policy = "Drop" THEN call.row - 1 - call.invalid ELSE call.row - 1
  BY <1>1 DEF Inv, PivotalShape
<1>4. Len(call.draws) \in {Len(call.accepted), Len(call.accepted) - call.invalid}
  <2>1. call.row - 1 = Len(call.accepted)
    BY <1>1, <1>2, <1>3
  <2> QED BY <1>3, <2>1
<1>5. Place' /\ LoopShape' /\ PivotalShape' /\ RowsAreWhole'
  BY <1>1 DEF Place, LoopShape, PivotalShape, OfRun, RowsAreWhole, Finished, NoCall, Looping
<1>6. call.mode = "Pivotal"
  BY <1>1 DEF Inv, Place
<1> QED BY <1>1, <1>2, <1>3, <1>4, <1>5, <1>6

LEMMA TransformEndsStep == Inv /\ TransformEnds => Inv'
<1> SUFFICES ASSUME Inv, TransformEnds PROVE Inv'
  OBVIOUS
<1> DEFINE r == Stored(results)
<1>1. /\ call \in Calls /\ results \in Results /\ runs \in Nat /\ call' = NoCall
      /\ runs' = runs /\ call.accepted \in Seq(Tags)
      /\ call.draws \in Seq(Tags) /\ call.fits \in Seq(Tags) /\ call.invalid \in Nat
      /\ call.rows \in Nat
      /\ OfRun(call.accepted) /\ OfRun(call.draws)
      /\ Len(call.draws) \in {Len(call.accepted), Len(call.accepted) - call.invalid}
      /\ Place' /\ LoopShape' /\ PivotalShape' /\ RowsAreWhole'
  BY DrawnFacts DEF TransformEnds
<1>2. /\ r \in Results /\ r.raw = call.accepted /\ r.sets = call.draws
      /\ r.studentized = <<>> /\ r.failed = LostFits
      /\ r.diagnostics.run = runs /\ r.diagnostics.requested = call.rows
      /\ r.diagnostics.failed = LostFits
      /\ r.diagnostics.rejected = Len(call.fits) - Len(call.accepted)
      /\ r.diagnostics.accepted = Len(call.accepted)
      /\ r.diagnostics.invalid = call.invalid
      /\ r.diagnostics.retained = Len(call.draws)
  BY <1>1, StoredFacts DEF Inv
<1>3. /\ results' = [r EXCEPT !.parent = runs, !.rawStats = call.accepted,
                              !.stats = call.draws, !.type = "Pivotal"]
      /\ whole' = runs
  BY DEF TransformEnds
<1>4. "Pivotal" \in Types
  BY DEF Types
<1> HIDE DEF r
<1>5. results' \in Results
  BY <1>1, <1>2, <1>3, <1>4 DEF Results
<1>6. /\ results'.parent = runs /\ results'.rawStats = call.accepted
      /\ results'.stats = call.draws /\ results'.type = "Pivotal" /\ results'.raw = r.raw
      /\ results'.sets = r.sets /\ results'.studentized = r.studentized
      /\ results'.failed = r.failed /\ results'.diagnostics = r.diagnostics
  BY <1>2, <1>3 DEF Results
<1>7. TypeOK'
  BY <1>1, <1>3, <1>5, ConstantTags DEF TypeOK
<1>8. Studentized'
  BY <1>2, <1>6 DEF Studentized
<1>9. CompletedRunIsWhole'
  <2>1. \A t \in Elements(results'.sets) \cup Elements(results'.raw) : t.run = runs
    BY <1>1, <1>2, <1>6 DEF Elements, OfRun
  <2>2. r.diagnostics.requested
          = r.diagnostics.failed + r.diagnostics.rejected + r.diagnostics.accepted
    <3>1. Len(call.fits) \in Nat /\ Len(call.accepted) \in Nat
      BY <1>1
    <3>2. call.rows = LostFits + (Len(call.fits) - Len(call.accepted)) + Len(call.accepted)
      <4>2. LostFits = call.rows - Len(call.fits)
        BY DEF LostFits
      <4>3. ASSUME NEW f \in Nat, NEW a \in Nat, NEW l, l = call.rows - f
            PROVE  call.rows = l + (f - a) + a
        BY <1>1, <4>3
      <4> QED BY <3>1, <4>2, <4>3
    <3> QED BY <1>2, <3>2
  <2>3. results'.studentized = <<>> /\ results'.type # "Studentized"
    BY <1>2, <1>6
  <2>4. r.diagnostics.retained \in {r.diagnostics.accepted,
                                    r.diagnostics.accepted - r.diagnostics.invalid}
    BY <1>1, <1>2
  <2> QED BY <1>2, <1>3, <1>6, <2>1, <2>2, <2>3, <2>4 DEF CompletedRunIsWhole
<1> QED BY <1>1, <1>7, <1>8, <1>9 DEF Inv

LEMMA StatisticThrowsStep == Inv /\ StatisticThrows => Inv'
<1> SUFFICES ASSUME Inv, StatisticThrows PROVE Inv'
  OBVIOUS
<1> DEFINE r == Stored(results)
<1>1. /\ call \in Calls /\ results \in Results /\ runs \in Nat /\ call' = NoCall
      /\ runs' = runs /\ call.accepted \in Seq(Tags)
      /\ Place' /\ LoopShape' /\ PivotalShape' /\ RowsAreWhole'
  BY DrawnFacts DEF StatisticThrows
<1>2. r \in Results /\ r.studentized = <<>>
  BY <1>1, StoredFacts DEF Inv
<1>3. /\ \/ results' = r
         \/ results' = [r EXCEPT !.parent = runs]
         \/ results' = [r EXCEPT !.parent = runs, !.rawStats = call.accepted]
      /\ whole' = 0
  BY DEF StatisticThrows
<1> HIDE DEF r
<1>4. results' \in Results /\ results'.studentized = r.studentized
  BY <1>1, <1>2, <1>3 DEF Results
<1>5. TypeOK'
  BY <1>1, <1>3, <1>4, ConstantTags DEF TypeOK
<1>6. Studentized' /\ CompletedRunIsWhole'
  BY <1>2, <1>3, <1>4 DEF Studentized, CompletedRunIsWhole
<1> QED BY <1>1, <1>5, <1>6 DEF Inv

LEMMA Joined ==
  ASSUME NEW s \in Seq(Tags), NEW t \in Seq(Tags), OfRun(s), OfRun(t)
  PROVE  s \o t \in Seq(Tags) /\ Len(s \o t) = Len(s) + Len(t) /\ OfRun(s \o t)
<1>1. s \o t \in Seq(Tags) /\ Len(s \o t) = Len(s) + Len(t)
  OBVIOUS
<1>2. ASSUME NEW i \in 1..Len(s \o t) PROVE (s \o t)[i].run = runs
  <2>1. CASE i <= Len(s)
    <3>1. (s \o t)[i] = s[i] /\ i \in 1..Len(s)
      BY <2>1
    <3> QED BY <3>1 DEF OfRun
  <2>2. CASE ~(i <= Len(s))
    <3>1. (s \o t)[i] = t[i - Len(s)] /\ i - Len(s) \in 1..Len(t)
      BY <2>2
    <3> QED BY <3>1 DEF OfRun
  <2> QED BY <2>1, <2>2
<1> QED BY <1>1, <1>2 DEF OfRun

LEMMA PivotalDrawStep == ASSUME Inv, NEW made \in BOOLEAN, PivotalDraw(made) PROVE Inv'
<1> DEFINE fit == call.accepted[call.row]
           new == IF made THEN <<fit>> ELSE Fallback(fit)
           draws == call.draws \o new
           invalid == IF made THEN call.invalid ELSE call.invalid + 1
           row == call.row + 1
<1>1. /\ call \in Calls /\ results \in Results /\ runs \in Nat
      /\ call.step = "draw" /\ call.row <= Len(call.accepted)
      /\ UNCHANGED <<results, runs, whole>> /\ call.mode = "Pivotal"
  BY DEF Inv, TypeOK, PivotalDraw, Looked, Place
<1>2. /\ call.accepted \in Seq(Tags) /\ call.draws \in Seq(Tags) /\ call.invalid \in Nat
      /\ call.row \in Nat /\ call.policy \in Policies
  BY <1>1 DEF Calls
<1>3. /\ OfRun(call.accepted) /\ OfRun(call.draws) /\ call.row \in 1..(Len(call.accepted) + 1)
      /\ Len(call.draws) =
           IF call.policy = "Drop" THEN call.row - 1 - call.invalid ELSE call.row - 1
  BY <1>1 DEF Inv, PivotalShape
<1>4. fit \in Tags /\ fit.run = runs /\ Parent \in Tags /\ Parent.run = runs
  BY <1>1, <1>2, <1>3, AttemptTyped DEF Inv, OfRun
<1>5. call' = [call EXCEPT !.row = row, !.invalid = invalid, !.draws = draws]
  BY <1>1, <1>2 DEF PivotalDraw, Calls
<1> HIDE DEF fit
<1>6. /\ new \in Seq(Tags) /\ OfRun(new)
      /\ Len(new) = IF made \/ call.policy # "Drop" THEN 1 ELSE 0
  <2>1. CASE made
    BY <1>4, <2>1 DEF OfRun
  <2>2. CASE ~made /\ call.policy = "Drop"
    <3>1. new = <<>>
      BY <2>2 DEF Fallback
    <3> HIDE DEF new
    <3> QED BY <2>2, <3>1 DEF OfRun
  <2>3. CASE ~made /\ call.policy = "UseRaw"
    <3>1. new = <<fit>>
      BY <2>3 DEF Fallback
    <3> HIDE DEF new
    <3> QED BY <1>4, <2>3, <3>1 DEF OfRun
  <2>4. CASE ~made /\ call.policy = "UseParent"
    <3>1. new = <<Parent>>
      BY <2>4 DEF Fallback
    <3> HIDE DEF new
    <3> QED BY <1>4, <2>4, <3>1 DEF OfRun
  <2> QED BY <1>2, <2>1, <2>2, <2>3, <2>4 DEF Policies
<1> HIDE DEF new
<1>7. draws \in Seq(Tags) /\ Len(draws) = Len(call.draws) + Len(new) /\ OfRun(draws)
  BY <1>2, <1>3, <1>6, Joined
<1>8. Len(call.draws) \in Nat /\ Len(new) \in Nat
  BY <1>2, <1>6
<1>9. invalid \in Nat /\ row \in Nat
  BY <1>2
<1>10. /\ row \in 1..(Len(call.accepted) + 1)
       /\ Len(draws) = IF call.policy = "Drop" THEN row - 1 - invalid ELSE row - 1
  <2>1. Len(call.accepted) \in Nat /\ row \in 1..(Len(call.accepted) + 1)
    BY <1>1, <1>2
  <2> HIDE DEF draws
  <2>2. CASE call.policy = "Drop"
    <3>1. Len(call.draws) = call.row - 1 - call.invalid
      BY <1>3, <2>2
    <3>2. Len(new) = (IF made THEN 1 ELSE 0)
      BY <1>6, <2>2
    <3>3. Len(draws) = row - 1 - invalid
      BY <1>2, <1>7, <1>8, <3>1, <3>2
    <3> QED BY <2>1, <2>2, <3>3
  <2>3. CASE call.policy # "Drop"
    <3>1. Len(call.draws) = call.row - 1 /\ Len(new) = 1
      BY <1>3, <1>6, <2>3
    <3>2. Len(draws) = row - 1
      BY <1>2, <1>7, <1>8, <3>1
    <3> QED BY <2>1, <2>3, <3>2
  <2> QED BY <2>2, <2>3
<1> HIDE DEF draws, invalid, row
<1>11. call' \in Calls
  BY <1>1, <1>5, <1>7, <1>9 DEF Calls
<1>12. /\ call'.mode = "Pivotal" /\ call'.step = "draw" /\ call'.row = row
       /\ call'.accepted = call.accepted /\ call'.fits = call.fits /\ call'.draws = draws
       /\ call'.invalid = invalid /\ call'.policy = call.policy
  BY <1>1, <1>5 DEF Calls
<1>13. Place'
  BY <1>1, <1>10, <1>12 DEF Inv, Place, Looping
<1>14. PivotalShape'
  BY <1>1, <1>7, <1>10, <1>12 DEF Inv, PivotalShape, OfRun
<1> QED BY <1>1, <1>11, <1>12, <1>13, <1>14, Untouched DEF Looping

LEMMA FilterFitStep == ASSUME Inv, NEW ok \in BOOLEAN, FilterFit(ok) PROVE Inv'
<1> DEFINE fit == call.fits[call.row]
           accepted == IF ok THEN Append(call.accepted, fit) ELSE call.accepted
           row == call.row + 1
<1>1. /\ call \in Calls /\ results \in Results /\ runs \in Nat
      /\ call.step = "filter" /\ call.row <= Len(call.fits)
      /\ UNCHANGED <<results, runs, whole>> /\ call.mode = "Pivotal" /\ call.row # 0
  BY DEF Inv, TypeOK, FilterFit, Looked, Place
<1>2. /\ call.accepted \in Seq(Tags) /\ call.fits \in Seq(Tags) /\ call.row \in Nat
      /\ OfRun(call.accepted) /\ OfRun(call.fits)
  BY <1>1 DEF Calls, Inv, PivotalShape
<1>3. fit \in Tags /\ fit.run = runs
  BY <1>1, <1>2 DEF OfRun
<1>4. call' = [call EXCEPT !.row = row, !.accepted = accepted]
  BY <1>1, <1>2 DEF FilterFit, Calls
<1> HIDE DEF fit
<1>5. accepted \in Seq(Tags) /\ OfRun(accepted)
  <2>1. CASE ok
    <3> DEFINE a == Append(call.accepted, fit)
    <3>1. /\ a \in Seq(Tags) /\ Len(a) = Len(call.accepted) + 1
          /\ a[Len(call.accepted) + 1] = fit
          /\ \A i \in 1..Len(call.accepted) : a[i] = call.accepted[i]
      BY <1>2, <1>3
    <3>2. accepted = a
      BY <2>1
    <3> HIDE DEF a, accepted
    <3> QED BY <1>2, <1>3, <3>1, <3>2 DEF OfRun
  <2>2. CASE ~ok
    <3>1. accepted = call.accepted
      BY <2>2
    <3> QED BY <1>2, <3>1
  <2> QED BY <2>1, <2>2
<1>6. row \in Nat /\ row # 0
  BY <1>2
<1> HIDE DEF accepted, row
<1>7. call' \in Calls
  BY <1>1, <1>4, <1>5, <1>6 DEF Calls
<1>8. /\ call'.mode = "Pivotal" /\ call'.step = "filter" /\ call'.row = row
      /\ call'.accepted = accepted /\ call'.fits = call.fits /\ call'.draws = call.draws
      /\ call'.invalid = call.invalid
  BY <1>1, <1>4 DEF Calls
<1>9. Place' /\ PivotalShape'
  BY <1>1, <1>5, <1>6, <1>8 DEF Inv, Place, PivotalShape, OfRun, Looping
<1> QED BY <1>1, <1>7, <1>8, <1>9, Untouched DEF Looping

LEMMA TransformStep == Inv /\ Transform => Inv'
<1> SUFFICES ASSUME Inv, Transform PROVE Inv'
  OBVIOUS
<1>1. call \in Calls /\ results \in Results /\ runs \in Nat
  BY DEF Inv, TypeOK
<1>2. CASE TransformThrows
  <2>1. /\ call.mode = "Pivotal" /\ call' = NoCall /\ UNCHANGED <<results, runs, whole>>
    BY <1>2 DEF TransformThrows, Looked, Inv, Place
  <2>2. Place' /\ PivotalShape'
    BY <2>1 DEF Place, PivotalShape, OfRun, NoCall, Looping
  <2> QED BY <1>1, <2>1, <2>2, ConstantTags, NoCallFields, Untouched DEF Looping
<1>3. ASSUME NEW policy \in Policies, LinksMade(policy) PROVE Inv'
  <2>1. /\ call.mode = "Pivotal" /\ call.step = "filter"
        /\ call' = [call EXCEPT !.step = "draw", !.row = 1, !.policy = policy]
        /\ UNCHANGED <<results, runs, whole>>
    BY <1>3 DEF LinksMade, Looked, Inv, Place
  <2>2. 1 \in Nat /\ "draw" \in {"idle", "attempt", "inner", "filter", "draw"}
    OBVIOUS
  <2>3. call' \in Calls
    BY <1>1, <2>1, <2>2 DEF Calls
  <2>4. /\ call'.mode = "Pivotal" /\ call'.step = "draw" /\ call'.row = 1
        /\ call'.fits = call.fits /\ call'.accepted = call.accepted
        /\ call'.draws = call.draws /\ call'.invalid = call.invalid
    BY <1>1, <2>1 DEF Calls
  <2>5. /\ call.draws = <<>> /\ call.invalid = 0 /\ Len(call.accepted) \in Nat
        /\ OfRun(call.fits) /\ OfRun(call.accepted) /\ OfRun(call.draws)
    BY <1>1, <2>1 DEF Inv, PivotalShape, Calls
  <2>6. Place'
    BY <2>1, <2>4 DEF Inv, Place, Looping
  <2>7. PivotalShape'
    <3>1. 1 \in 1..(Len(call.accepted) + 1)
      BY <2>5
    <3>2. Len(call.draws) = 0
      BY <2>5
    <3> QED BY <2>1, <2>4, <2>5, <3>1, <3>2 DEF PivotalShape, OfRun
  <2> QED BY <1>1, <2>1, <2>3, <2>4, <2>6, <2>7, Untouched DEF Looping
<1> QED
  BY <1>2, <1>3, FilterFitStep, PivotalDrawStep, TransformEndsStep, StatisticThrowsStep
  DEF Transform

LEMMA Stutter == Inv /\ UNCHANGED vars => Inv'
BY DEF vars, Inv, TypeOK, Place, LoopShape, PivotalShape, OfRun, Studentized, RowsAreWhole,
       Finished, CompletedRunIsWhole, Elements

LEMMA IntervalsStep == Inv /\ GetIntervals => Inv'
<1> SUFFICES ASSUME Inv, GetIntervals PROVE Inv'
  OBVIOUS
<1>1. /\ results \in Results /\ UNCHANGED <<call, runs, whole>>
  BY DEF Inv, TypeOK, GetIntervals, Looked
<1>2. CASE UNCHANGED results
  BY <1>1, <1>2, Stutter DEF vars
<1>3. ASSUME NEW lost \in 0..Observations, results' = [results EXCEPT !.jackknife = lost]
      PROVE  Inv'
  <2>1. lost \in Nat
    BY BootstrapAssumption
  <2>2. results' \in Results
    BY <1>1, <1>3, <2>1 DEF Results
  <2>3. /\ results'.sets = results.sets /\ results'.stats = results.stats
        /\ results'.valid = results.valid /\ results'.failed = results.failed
        /\ results'.parent = results.parent /\ results'.studentized = results.studentized
        /\ results'.raw = results.raw /\ results'.rawStats = results.rawStats
        /\ results'.diagnostics = results.diagnostics /\ results'.type = results.type
    BY <1>1, <1>3 DEF Results
  <2>4. TypeOK' /\ Place' /\ PivotalShape'
    BY <1>1, <2>2 DEF Inv, TypeOK, Place, PivotalShape, OfRun
  <2>5. LoopShape' /\ Studentized'
    BY <1>1, <2>3 DEF Inv, LoopShape, Studentized
  <2>6. RowsAreWhole'
    BY <1>1, <2>3 DEF Inv, RowsAreWhole, Finished
  <2>7. CompletedRunIsWhole'
    BY <1>1, <2>3 DEF Inv, CompletedRunIsWhole, Elements
  <2> QED BY <2>4, <2>5, <2>6, <2>7 DEF Inv
<1> QED BY <1>2, <1>3 DEF GetIntervals
-----------------------------------------------------------------------------

LEMMA Inductive == Inv /\ [Next]_vars => Inv'
BY EntryStep, ReplicateStep, TransformStep, IntervalsStep, Stutter DEF Next, vars

\* The invariant of a behaviour of any length: types, shapes and the properties.
THEOREM Invariant == Spec => []Inv
BY InitInv, Inductive, PTL DEF Spec

\* Every member keeps its type: bootstrap.hpp's fields and the locals of a run.
THEOREM Typed == Spec => []TypeOK
<1>1. Inv => TypeOK
  BY DEF Inv
<1> QED BY <1>1, Invariant, PTL

\* run(), run_double_bootstrap() and run_with_studentized_bootstrap() leave a
\* replicate whole or marked whole, and count the marked ones.
THEOREM RowsWhole == Spec => []RowsAreWhole
<1>1. Inv => RowsAreWhole
  BY DEF Inv
<1> QED BY <1>1, Invariant, PTL

\* Nothing of an earlier run shows beside the results of a completed one.
THEOREM CompletedWhole == Spec => []CompletedRunIsWhole
<1>1. Inv => CompletedRunIsWhole
  BY DEF Inv
<1> QED BY <1>1, Invariant, PTL

\* compute_bootstrap_t_ci() reads the studentized values of the rows it lists.
THEOREM BootstrapT == Spec => []BootstrapTReadsItsRun
<1>1. Inv => BootstrapTReadsItsRun
  <2>1. Inv /\ call.step = "idle" => call.mode \notin Looping
    BY NoCallFields DEF Inv, Place, Looping
  <2> QED BY <2>1 DEF Inv, Studentized, BootstrapTReadsItsRun
<1> QED BY <1>1, Invariant, PTL
=============================================================================
