----------------------- MODULE CompositeAnalysisProofs ----------------------
(***************************************************************************)
(* Theorems about CompositeAnalysis and the Bulletin 17C analysis and      *)
(* moment estimator below it, for any points, lengths, passes and retries. *)
(*                                                                         *)
(* The properties speak of what a host sees between its calls.  The        *)
(* invariant says what holds inside of one: how far an estimate has come   *)
(* (FitInv), whose call a step belongs to (CallerInv), what a run has      *)
(* fitted and shown at each of its places (PlaceInv, ShownInv), and the    *)
(* counts of its replicates (CountInv).                                    *)
(***************************************************************************)
EXTENDS CompositeAnalysis, TLAPS

\* The places of a run(), of its quantification, and of an estimate().
Quantifying == {"quantify", "mvn", "link", "linked", "bootstrap", "replicate", "factor"}
RunOnly     == {"prepare", "decide"} \cup Quantifying
Estimating  == {"pass", "weigh"}
Pcs         == {"idle", "frequency", "update", "undefined"} \cup RunOnly \cup Estimating

Vectors  == Points \cup {None, Elsewhere}
Messages == {"None", "Covariance", "Rejected", "NotExact", "TooFew", "Pivot"}

Gmms ==
  [is_estimated : BOOLEAN, converged : BOOLEAN, sticky : BOOLEAN, fallbacks : Nat,
   status : {"None", "NoGmm", "Success", "Stopped", "Failure"}, best : Points \cup {None},
   passes : Nat, history : Nat, s : Vectors, w : Vectors \cup {Identity}, knobs : Knobs]

Ensembles == [map : Vectors, size : Nat, asked : Nat]
Reports   == [intervals : Vectors, erl : Vectors,
              mode_curve : Vectors \cup {Unfinished("host"), Unfinished("run")}]
Diags     == [total : Nat, failed : Nat, retries : Nat, mahalanobis : Nat, transform : Nat,
              retained : Nat \cup {Unset}]

Analyses ==
  [uncertainty_method : UncertaintyMethods, output_length : Nat,
   is_estimated : BOOLEAN, ensemble : Ensembles, bayesian_estimated : BOOLEAN,
   analysis_results : Reports, bootstrap_results : Diags, message : Messages,
   distribution_cache : SUBSET Vectors, linked : BOOLEAN, driven : Nat, returned : BOOLEAN]

Calls == [replicate : Nat, attempt : Nat, diag : Diags]

TypeOK ==
  /\ gmm \in Gmms /\ pc \in Pcs /\ caller \in {"host", "run"}
  /\ analysis \in Analyses /\ call \in Calls
  /\ composite \in [is_estimated : BOOLEAN, has_results : BOOLEAN]

\* An estimate in progress has undone what the last one said of itself, has a best
\* point when it weighs, and has recorded every pass but the running one.
FitInv ==
  /\ gmm.fallbacks <= 1 /\ (~gmm.sticky => gmm.fallbacks = 0)
  /\ gmm.is_estimated => gmm.best # None
  /\ gmm.converged => /\ gmm.is_estimated /\ gmm.history = gmm.passes
                      /\ {gmm.s, gmm.w} \subseteq {gmm.best, Elsewhere}
  /\ pc \in Estimating =>
       /\ ~gmm.is_estimated /\ ~gmm.converged
       /\ gmm.knobs.strategy = "Iterative" => gmm.history = gmm.passes - 1
  /\ pc = "weigh" => gmm.best # None

\* Whose call a step belongs to: the host's own estimates are counted as drives, a run
\* is not driven and has not returned.
CallerInv ==
  /\ pc = "idle" => caller = "host"
  /\ pc \in RunOnly => caller = "run"
  /\ pc \in Estimating /\ caller = "host" => analysis.driven >= 1
  /\ caller = "run" => analysis.driven = 0 /\ ~analysis.returned

\* A run shows nothing before it has drawn; what it has fitted and which method it
\* follows are known from its place.
PlaceInv ==
  /\ caller = "run" /\ pc \notin {"frequency", "update"} =>
       /\ analysis.ensemble = NoEnsemble /\ analysis.analysis_results = NoResults
       /\ analysis.bootstrap_results = NoDiagnostics /\ analysis.message = "None"
       /\ analysis.distribution_cache = {}
  /\ caller = "run" /\ pc \in {"prepare", "decide"} \cup Estimating => ~analysis.is_estimated
  /\ pc \in Quantifying => analysis.is_estimated
  /\ pc \in Quantifying \ {"quantify"} => gmm.best # None
  /\ pc \in {"mvn", "link", "linked"} => ~IsBootstrap(analysis.uncertainty_method)
  /\ pc \in {"bootstrap", "replicate", "factor"} => IsBootstrap(analysis.uncertainty_method)
  /\ analysis.linked => pc = "linked"

\* What a mode curve may be of, when the fit is at the point.
Curves(point) == {point, Unfinished("host"), Unfinished("run")}

\* The message and the ensemble exclude each other.
Exclusive == (analysis.message = "None") = (analysis.ensemble # NoEnsemble)

ShownInv ==
  /\ analysis.driven = 0 =>
       /\ analysis.ensemble # NoEnsemble =>
            /\ analysis.is_estimated /\ analysis.bayesian_estimated
            /\ analysis.ensemble.map = gmm.best
            /\ analysis.message = "None"
       /\ analysis.analysis_results # NoResults =>
            /\ analysis.ensemble # NoEnsemble
            /\ analysis.analysis_results.intervals = gmm.best
            /\ analysis.analysis_results.mode_curve \in Curves(gmm.best)
            /\ analysis.returned \/ caller = "run" =>
                 analysis.analysis_results.mode_curve # Unfinished("run")
            /\ analysis.analysis_results.erl \in {None, gmm.best}
       /\ \A point \in analysis.distribution_cache :
            analysis.ensemble # NoEnsemble /\ point = gmm.best
       /\ analysis.returned /\ analysis.is_estimated => Exclusive
  /\ caller = "run" /\ pc \in {"frequency", "update"} => analysis.is_estimated /\ Exclusive
  /\ analysis.bootstrap_results # NoDiagnostics => IsBootstrap(analysis.uncertainty_method)

\* The counts of a bootstrap, published or in progress.
Counted(diag) ==
  /\ diag.failed <= diag.total
  /\ diag.failed * (MaxRetries - 1) <= diag.retries
  /\ diag.mahalanobis <= diag.retries + diag.failed
  /\ diag.retained # Unset => diag.retained + diag.transform = diag.total

CountInv ==
  /\ Counted(analysis.bootstrap_results)
  /\ pc \in {"replicate", "factor"} =>
       /\ Counted(call.diag) /\ call.diag.retained = Unset /\ call.diag.transform = 0
       /\ call.diag.total = analysis.output_length
  /\ pc = "replicate" =>
       /\ call.diag.failed < call.replicate /\ call.replicate <= call.diag.total + 1
       /\ call.attempt \in 1..MaxRetries
       /\ call.diag.failed * (MaxRetries - 1) + call.attempt - 1 <= call.diag.retries
  /\ /\ analysis.ensemble # NoEnsemble /\ analysis.driven = 0
     /\ IsBootstrap(analysis.uncertainty_method)
     => /\ analysis.ensemble.size = analysis.ensemble.asked
        /\ analysis.bootstrap_results.total = analysis.ensemble.asked
        /\ analysis.bootstrap_results.transform = 0

IndInv == TypeOK /\ FitInv /\ CallerInv /\ PlaceInv /\ ShownInv /\ CountInv

-----------------------------------------------------------------------------
(* What the operators on the estimator give. *)

LEMMA KnobsTyped == DefaultKnobs \in Knobs
BY GmmAssumption DEF DefaultKnobs, Knobs

LEMMA NewGmmTyped ==
  ASSUME NEW g \in {NewGmm, NoGmm}
  PROVE  /\ g \in Gmms /\ g.best = None
         /\ ~g.is_estimated /\ ~g.converged /\ ~g.sticky /\ g.fallbacks = 0
<1>1. NewGmm \in Gmms
  BY KnobsTyped DEF NewGmm, Gmms, Vectors
<1>2. CASE g = NewGmm
  BY <1>1, <1>2 DEF NewGmm
<1>3. CASE g = NoGmm
  <2>1. g \in Gmms
    BY <1>1, <1>3 DEF NoGmm, Gmms
  <2> QED BY <1>3, <2>1 DEF NoGmm, NewGmm
<1> QED BY <1>2, <1>3

\* A step that may store new matrices S and W, computed at the best point or elsewhere.
SameFit ==
  \E x \in {gmm.s, gmm.best, Elsewhere}, y \in {gmm.w, gmm.best, Elsewhere} :
    gmm' = [gmm EXCEPT !.s = x, !.w = y]

LEMMA SameFitKeeps ==
  ASSUME TypeOK, FitInv, SameFit, pc' \notin Estimating
  PROVE  FitInv' /\ gmm' \in Gmms /\ gmm'.best = gmm.best
<1>1. PICK x \in {gmm.s, gmm.best, Elsewhere}, y \in {gmm.w, gmm.best, Elsewhere} :
        gmm' = [gmm EXCEPT !.s = x, !.w = y]
  BY DEF SameFit
<1>2. gmm \in Gmms /\ x \in Vectors /\ y \in Vectors \cup {Identity}
  BY DEF TypeOK, Gmms, Vectors
<1>3. /\ gmm' \in Gmms /\ gmm'.s = x /\ gmm'.w = y
      /\ gmm'.best = gmm.best /\ gmm'.is_estimated = gmm.is_estimated
      /\ gmm'.converged = gmm.converged /\ gmm'.fallbacks = gmm.fallbacks
      /\ gmm'.sticky = gmm.sticky /\ gmm'.history = gmm.history /\ gmm'.passes = gmm.passes
  BY <1>1, <1>2 DEF Gmms
<1>4. gmm.converged => {x, y} \subseteq {gmm.best, Elsewhere}
  BY <1>1 DEF FitInv
<1>5. pc' # "weigh"
  BY DEF Estimating
<1> QED BY <1>3, <1>4, <1>5 DEF FitInv

LEMMA CovarianceKeeps ==
  ASSUME TypeOK, NEW x \in {gmm.best, Elsewhere}, gmm' \in CovarianceAt(gmm, x)
  PROVE  SameFit
<1>1. gmm = [gmm EXCEPT !.s = gmm.s, !.w = gmm.w]
  BY DEF TypeOK, Gmms
<1>2. [gmm EXCEPT !.s = x] = [gmm EXCEPT !.s = x, !.w = gmm.w]
  BY DEF TypeOK, Gmms
<1> QED BY <1>1, <1>2 DEF CovarianceAt, SameFit

LEMMA CovarianceTwice ==
  ASSUME TypeOK, NEW g \in CovarianceAt(gmm, gmm.best), gmm' \in CovarianceAt(g, Elsewhere)
  PROVE  SameFit
<1>1. PICK a \in {gmm.s, gmm.best}, b \in {gmm.w, gmm.best} :
        g = [gmm EXCEPT !.s = a, !.w = b]
  BY DEF CovarianceAt, TypeOK, Gmms
<1>2. gmm' \in {g, [g EXCEPT !.s = Elsewhere], [g EXCEPT !.s = Elsewhere, !.w = Elsewhere]}
  BY DEF CovarianceAt
<1>3. /\ [g EXCEPT !.s = Elsewhere] = [gmm EXCEPT !.s = Elsewhere, !.w = b]
      /\ [g EXCEPT !.s = Elsewhere, !.w = Elsewhere] = [gmm EXCEPT !.s = Elsewhere, !.w = Elsewhere]
  BY <1>1 DEF TypeOK, Gmms
<1> QED BY <1>1, <1>2, <1>3 DEF SameFit

LEMMA UnchangedKeeps ==
  ASSUME TypeOK, gmm' = gmm
  PROVE  SameFit
<1>1. gmm' = [gmm EXCEPT !.s = gmm.s, !.w = gmm.w]
  BY DEF TypeOK, Gmms
<1> QED BY <1>1 DEF SameFit

LEMMA RestartedFacts ==
  ASSUME NEW g \in Gmms, NEW knobs \in Knobs
  PROVE  \E r \in Gmms :
           /\ r = Restarted(g, knobs) /\ ~r.is_estimated /\ ~r.converged /\ ~r.sticky
           /\ r.fallbacks = 0 /\ r.passes = 1 /\ r.history = 0
<1> DEFINE r == Restarted(g, knobs)
<1>1. /\ r \in Gmms /\ ~r.is_estimated /\ ~r.converged /\ ~r.sticky
      /\ r.fallbacks = 0 /\ r.passes = 1 /\ r.history = 0
  BY DEF Restarted, Gmms, Vectors
<1> QED BY <1>1

LEMMA CapturedFacts ==
  ASSUME NEW g \in Gmms, NEW m, NEW r \in Minimised(m)
  PROVE  /\ Captured(g, r) \in Gmms
         /\ Passed(r) => Captured(g, r).best # None
         /\ \A f \in {"is_estimated", "converged", "sticky", "fallbacks", "passes",
                      "history", "s", "w", "knobs"} : Captured(g, r)[f] = g[f]
<1>1. /\ r.status \in {"Success", "Stopped", "Failure"}
      /\ r.point \in Points \cup {None}
  BY DEF Minimised
<1> QED BY <1>1 DEF Captured, Passed, Gmms

\* The fallback is for the rest of the estimation: at most one.
FallsOnce(g) == g.fallbacks <= 1 /\ (~g.sticky => g.fallbacks = 0)

LEMMA FallenFacts ==
  ASSUME NEW g \in Gmms, FallsOnce(g), ~g.sticky
  PROVE  /\ Fallen(g) \in Gmms /\ FallsOnce(Fallen(g))
         /\ \A f \in {"is_estimated", "converged", "passes", "history", "s", "w", "knobs"} :
              Fallen(g)[f] = g[f]
<1>1. g.fallbacks = 0
  BY DEF FallsOnce
<1>2. Fallen(g) = [g EXCEPT !.sticky = TRUE, !.fallbacks = 1]
  BY <1>1 DEF Fallen, Gmms
<1>3. Fallen(g) \in Gmms
  <2> DEFINE h == [g EXCEPT !.fallbacks = 1]
  <2>1. h \in Gmms
    BY DEF Gmms
  <2>2. Fallen(g) = [h EXCEPT !.sticky = TRUE]
    BY <1>2 DEF Gmms
  <2> HIDE DEF h
  <2> QED BY <2>1, <2>2 DEF Gmms
<1>4. /\ Fallen(g).sticky /\ Fallen(g).fallbacks = 1
      /\ \A f \in {"is_estimated", "converged", "passes", "history", "s", "w", "knobs"} :
           Fallen(g)[f] = g[f]
  BY <1>2 DEF Gmms
<1> QED BY <1>3, <1>4 DEF FallsOnce

LEMMA OutcomeFacts ==
  ASSUME NEW g \in Gmms, FallsOnce(g), NEW o \in PassOutcomes(g)
  PROVE  /\ o.gmm \in Gmms /\ FallsOnce(o.gmm)
         /\ o.ok => o.gmm.best # None
         /\ \A f \in {"is_estimated", "converged", "passes", "history", "s", "w", "knobs"} :
              o.gmm[f] = g[f]
<1> DEFINE primary == IF g.sticky THEN "NelderMead" ELSE g.knobs.method
<1>1. CASE \E r \in Minimised(primary) : o = [gmm |-> Captured(g, r), ok |-> Passed(r)]
  <2>1. PICK r \in Minimised(primary) : o = [gmm |-> Captured(g, r), ok |-> Passed(r)]
    BY <1>1
  <2> HIDE DEF primary
  <2>2. o.gmm = Captured(g, r) /\ o.ok = Passed(r)
    BY <2>1
  <2>3. /\ Captured(g, r) \in Gmms /\ (Passed(r) => Captured(g, r).best # None)
        /\ \A f \in {"is_estimated", "converged", "sticky", "fallbacks", "passes",
                     "history", "s", "w", "knobs"} : Captured(g, r)[f] = g[f]
    BY CapturedFacts
  <2> QED BY <2>2, <2>3 DEF FallsOnce
<1>2. CASE \E r \in Minimised(primary), n \in Minimised("NelderMead") :
             /\ primary = "BFGS"
             /\ o = [gmm |-> Captured(Fallen(Captured(g, r)), n), ok |-> Passed(n)]
  <2>1. PICK r \in Minimised(primary), n \in Minimised("NelderMead") :
             /\ primary = "BFGS"
             /\ o = [gmm |-> Captured(Fallen(Captured(g, r)), n), ok |-> Passed(n)]
    BY <1>2
  <2>2. ~g.sticky
    BY <2>1
  <2> HIDE DEF primary
  <2> DEFINE c == Captured(g, r)
             e == Fallen(c)
  <2>3. /\ c \in Gmms /\ FallsOnce(c) /\ ~c.sticky
        /\ \A f \in {"is_estimated", "converged", "passes", "history", "s", "w", "knobs"} :
             c[f] = g[f]
    <3>1. /\ c \in Gmms
          /\ \A f \in {"is_estimated", "converged", "sticky", "fallbacks", "passes",
                     "history", "s", "w", "knobs"} : c[f] = g[f]
      BY CapturedFacts
    <3> HIDE DEF c
    <3> QED BY <2>2, <3>1 DEF FallsOnce
  <2>4. o.gmm = Captured(e, n) /\ o.ok = Passed(n)
    BY <2>1
  <2> HIDE DEF c
  <2>5. /\ e \in Gmms /\ FallsOnce(e)
        /\ \A f \in {"is_estimated", "converged", "passes", "history", "s", "w", "knobs"} :
             e[f] = c[f]
    BY <2>3, FallenFacts
  <2> HIDE DEF e
  <2>6. /\ Captured(e, n) \in Gmms /\ (Passed(n) => Captured(e, n).best # None)
        /\ \A f \in {"is_estimated", "converged", "sticky", "fallbacks", "passes",
                     "history", "s", "w", "knobs"} : Captured(e, n)[f] = e[f]
    BY <2>5, CapturedFacts
  <2> QED BY <2>3, <2>4, <2>5, <2>6 DEF FallsOnce
<1> QED BY <1>1, <1>2 DEF PassOutcomes

LEMMA EndedFacts ==
  ASSUME NEW g \in Gmms, EndEstimate(g)
  PROVE  /\ gmm' \in Gmms /\ gmm'.is_estimated = (g.best # None)
         /\ \A f \in {"converged", "sticky", "fallbacks", "passes", "history", "s", "w", "best"} :
              gmm'[f] = g[f]
         /\ pc' = IF caller = "run" THEN "decide" ELSE "idle"
BY KnobsTyped DEF EndEstimate, Return, Gmms

LEMMA WeighedFacts ==
  ASSUME NEW g \in Gmms
  PROVE  /\ Weighed(g) \in Gmms /\ Weighed(g).s = g.best /\ Weighed(g).w = g.best
         /\ \A f \in {"is_estimated", "converged", "sticky", "fallbacks", "passes", "history",
                      "best", "knobs"} : Weighed(g)[f] = g[f]
BY DEF Weighed, Gmms, Vectors

-----------------------------------------------------------------------------
(* The steps of an estimate. *)

\* Where a step of an estimate leads.
Onward ==
  \/ pc' \in Estimating /\ caller' = caller
  \/ pc' = "decide" /\ caller = "run" /\ caller' = caller
  \/ pc' = "idle" /\ caller' = "host"

LEMMA EndIsOnward ==
  ASSUME TypeOK, NEW g \in Gmms, EndEstimate(g), FallsOnce(g), UNCHANGED caller,
         g.converged => /\ g.best # None /\ g.history = g.passes
                        /\ {g.s, g.w} \subseteq {g.best, Elsewhere}
  PROVE  gmm' \in Gmms /\ FitInv' /\ Onward
<1>1. /\ gmm' \in Gmms /\ gmm'.is_estimated = (g.best # None)
      /\ \A f \in {"converged", "sticky", "fallbacks", "passes", "history", "s", "w", "best"} :
           gmm'[f] = g[f]
      /\ pc' = IF caller = "run" THEN "decide" ELSE "idle"
  BY EndedFacts
<1>2. Onward
  BY <1>1 DEF Onward, TypeOK
<1>3. pc' \notin Estimating /\ pc' # "weigh"
  BY <1>1 DEF Estimating
<1> QED BY <1>1, <1>2, <1>3 DEF FitInv, FallsOnce

LEMMA PassFit ==
  ASSUME IndInv, Pass
  PROVE  gmm' \in Gmms /\ FitInv' /\ Onward
<1>1. /\ pc = "pass" /\ caller' = caller /\ gmm \in Gmms /\ FallsOnce(gmm)
      /\ ~gmm.converged /\ ~gmm.is_estimated
      /\ gmm.knobs.strategy = "Iterative" => gmm.history = gmm.passes - 1
  BY DEF Pass, IndInv, TypeOK, FitInv, FallsOnce, Estimating
<1>2. PICK o \in PassOutcomes(gmm) :
        LET last == \/ ~o.ok \/ gmm.knobs.strategy = "OneStep"
                    \/ gmm.knobs.strategy = "TwoStep" /\ gmm.passes = 2
        IN  IF last THEN EndEstimate(o.gmm) ELSE gmm' = o.gmm /\ pc' = "weigh"
  BY DEF Pass
<1>3. /\ o.gmm \in Gmms /\ FallsOnce(o.gmm)
      /\ o.ok => o.gmm.best # None
      /\ o.gmm.is_estimated = gmm.is_estimated /\ o.gmm.converged = gmm.converged
      /\ o.gmm.passes = gmm.passes /\ o.gmm.history = gmm.history /\ o.gmm.knobs = gmm.knobs
  BY <1>1, OutcomeFacts
<1>4. CASE EndEstimate(o.gmm)
  BY <1>1, <1>3, <1>4, EndIsOnward DEF IndInv
<1>5. CASE o.ok /\ gmm' = o.gmm /\ pc' = "weigh"
  BY <1>1, <1>3, <1>5 DEF FitInv, FallsOnce, Onward, Estimating
<1> QED BY <1>2, <1>4, <1>5

LEMMA WeighFit ==
  ASSUME IndInv, WeighTwoStep \/ WeighConverged \/ WeighIterative
  PROVE  gmm' \in Gmms /\ FitInv' /\ Onward
<1>1. /\ pc = "weigh" /\ caller' = caller /\ gmm \in Gmms /\ FallsOnce(gmm)
      /\ ~gmm.converged /\ ~gmm.is_estimated /\ gmm.best # None
      /\ gmm.knobs.strategy = "Iterative" => gmm.history = gmm.passes - 1
  BY DEF WeighTwoStep, WeighConverged, WeighIterative, IndInv, TypeOK, FitInv, FallsOnce, Estimating
<1> DEFINE g == Weighed(gmm)
<1>2. /\ g \in Gmms /\ g.s = gmm.best /\ g.w = gmm.best /\ g.best = gmm.best
      /\ g.is_estimated = gmm.is_estimated /\ g.converged = gmm.converged
      /\ g.sticky = gmm.sticky /\ g.fallbacks = gmm.fallbacks /\ g.passes = gmm.passes
      /\ g.history = gmm.history /\ g.knobs = gmm.knobs
  BY <1>1, WeighedFacts
<1>3. gmm.passes \in Nat /\ gmm.history \in Nat /\ gmm.knobs.max \in Nat
  BY <1>1, GmmAssumption DEF Gmms, Knobs
<1>4. CASE WeighTwoStep
  <2>1. gmm' = [g EXCEPT !.passes = 2] /\ pc' = "pass" /\ gmm.knobs.strategy = "TwoStep"
    BY <1>4 DEF WeighTwoStep
  <2> HIDE DEF g
  <2>2. /\ gmm' \in Gmms /\ gmm'.is_estimated = g.is_estimated
        /\ gmm'.converged = g.converged /\ gmm'.sticky = g.sticky
        /\ gmm'.fallbacks = g.fallbacks /\ gmm'.knobs = g.knobs
    BY <1>2, <2>1 DEF Gmms
  <2> QED BY <1>1, <1>2, <2>1, <2>2 DEF FitInv, FallsOnce, Onward, Estimating
<1>5. CASE WeighConverged
  <2> DEFINE h == [g EXCEPT !.history = @ + 1, !.converged = TRUE]
  <2>1. EndEstimate(h) /\ gmm.knobs.strategy = "Iterative"
    BY <1>5 DEF WeighConverged
  <2> HIDE DEF g
  <2>2. h = [[g EXCEPT !.history = gmm.history + 1] EXCEPT !.converged = TRUE]
    BY <1>2 DEF Gmms
  <2>3. /\ h \in Gmms /\ h.history = gmm.history + 1 /\ h.sticky = g.sticky /\ h.best = g.best
        /\ h.fallbacks = g.fallbacks /\ h.passes = g.passes /\ h.s = g.s /\ h.w = g.w
    <3> DEFINE k == [g EXCEPT !.history = gmm.history + 1]
    <3>1. /\ k \in Gmms /\ k.history = gmm.history + 1 /\ k.sticky = g.sticky /\ k.best = g.best
          /\ k.fallbacks = g.fallbacks /\ k.passes = g.passes /\ k.s = g.s /\ k.w = g.w
      BY <1>2, <1>3 DEF Gmms
    <3> HIDE DEF k, h
    <3> QED BY <2>2, <3>1 DEF k, Gmms
  <2> HIDE DEF h
  <2>4. FallsOnce(h)
    BY <1>1, <1>2, <2>3 DEF FallsOnce
  <2> QED BY <1>1, <1>2, <1>3, <2>1, <2>3, <2>4, EndIsOnward DEF IndInv
<1>6. CASE WeighIterative
  <2> DEFINE h == [g EXCEPT !.history = @ + 1, !.passes = NextPass(gmm)]
  <2>1. /\ gmm.knobs.strategy = "Iterative"
        /\ \/ gmm.passes < gmm.knobs.max /\ gmm' = h /\ pc' = "pass"
           \/ ~(gmm.passes < gmm.knobs.max) /\ EndEstimate(h)
    BY <1>6 DEF WeighIterative
  <2> HIDE DEF g
  <2>2. NextPass(gmm) \in Nat /\ (gmm.passes < gmm.knobs.max => NextPass(gmm) = gmm.passes + 1)
    BY <1>3 DEF NextPass
  <2>3. /\ h \in Gmms /\ h.history = gmm.history + 1 /\ h.passes = NextPass(gmm)
        /\ h.sticky = g.sticky /\ h.best = g.best /\ h.fallbacks = g.fallbacks
        /\ h.converged = g.converged /\ h.is_estimated = g.is_estimated /\ h.knobs = g.knobs
    <3> DEFINE m == gmm.history + 1
               n == NextPass(gmm)
    <3>1. h = [g EXCEPT !.history = m, !.passes = n] /\ m \in Nat /\ n \in Nat
      BY <1>2, <1>3, <2>2 DEF Gmms
    <3> HIDE DEF h, m, n
    <3>2. /\ h \in Gmms /\ h.history = m /\ h.passes = n
          /\ h.sticky = g.sticky /\ h.best = g.best /\ h.fallbacks = g.fallbacks
          /\ h.converged = g.converged /\ h.is_estimated = g.is_estimated /\ h.knobs = g.knobs
      BY <1>2, <3>1 DEF Gmms
    <3> QED BY <3>2 DEF m, n
  <2> HIDE DEF h
  <2>4. FallsOnce(h)
    BY <1>1, <1>2, <2>3 DEF FallsOnce
  <2>5. CASE gmm.passes < gmm.knobs.max /\ gmm' = h /\ pc' = "pass"
    BY <1>1, <1>2, <1>3, <2>2, <2>3, <2>4, <2>5 DEF FitInv, FallsOnce, Onward, Estimating
  <2>6. CASE EndEstimate(h)
    BY <1>1, <1>2, <2>3, <2>4, <2>6, EndIsOnward DEF IndInv
  <2> QED BY <2>1, <2>5, <2>6
<1> QED BY <1>4, <1>5, <1>6

LEMMA WeighThrowsFit ==
  ASSUME IndInv, WeighThrows
  PROVE  gmm' \in Gmms /\ FitInv' /\ Onward
<1>1. /\ pc = "weigh" /\ pc' = "idle" /\ caller' = "host" /\ gmm \in Gmms
      /\ FallsOnce(gmm) /\ ~gmm.converged /\ ~gmm.is_estimated
  BY DEF WeighThrows, Unwind, IndInv, TypeOK, FitInv, FallsOnce, Estimating
<1>2. PICK g \in {gmm, [gmm EXCEPT !.s = gmm.best], Weighed(gmm)} :
        gmm' = [g EXCEPT !.knobs = DefaultKnobs]
  BY DEF WeighThrows
<1>3. /\ g \in Gmms /\ g.converged = gmm.converged /\ g.is_estimated = gmm.is_estimated
      /\ g.sticky = gmm.sticky /\ g.fallbacks = gmm.fallbacks
  BY <1>1, <1>2, WeighedFacts DEF Gmms, Vectors
<1>4. /\ gmm' \in Gmms /\ gmm'.converged = g.converged /\ gmm'.is_estimated = g.is_estimated
      /\ gmm'.sticky = g.sticky /\ gmm'.fallbacks = g.fallbacks
  BY <1>2, <1>3, KnobsTyped DEF Gmms
<1> QED BY <1>1, <1>3, <1>4 DEF FitInv, FallsOnce, Onward, Estimating

\* What an analysis shows is not disturbed by a step that leaves it and its fit alone,
\* or in which it is empty or driven.
Undisturbed ==
  \/ gmm'.best = gmm.best
  \/ analysis.driven # 0
  \/ /\ analysis.ensemble = NoEnsemble /\ analysis.analysis_results = NoResults
     /\ analysis.distribution_cache = {}

LEMMA ShownKept ==
  ASSUME IndInv, UNCHANGED analysis, Undisturbed,
         caller' = "run" => caller = "run",
         caller' = "run" /\ pc' \in {"frequency", "update"} => pc \in {"frequency", "update"}
  PROVE  ShownInv'
BY DEF IndInv, ShownInv, Undisturbed, Exclusive

LEMMA CountKept ==
  ASSUME IndInv, UNCHANGED analysis, pc' \notin {"replicate", "factor"}
  PROVE  CountInv'
BY DEF IndInv, CountInv, Counted

LEMMA EstimationInv ==
  ASSUME IndInv, Estimation \/ WeighThrows, UNCHANGED <<analysis, call, composite>>
  PROVE  IndInv'
<1>1. gmm' \in Gmms /\ FitInv' /\ Onward /\ pc \in Estimating
  <2>1. pc \in Estimating
    BY DEF Estimation, Pass, WeighTwoStep, WeighConverged, WeighIterative, WeighThrows, Estimating
  <2> QED BY <2>1, PassFit, WeighFit, WeighThrowsFit DEF Estimation
<1>2. TypeOK'
  BY <1>1 DEF IndInv, TypeOK, Onward, Pcs, Estimating, RunOnly, Quantifying
<1>3. CallerInv' /\ PlaceInv'
  BY <1>1 DEF IndInv, TypeOK, CallerInv, PlaceInv, Onward, Estimating, RunOnly, Quantifying
<1>4. Undisturbed
  BY <1>1 DEF IndInv, TypeOK, CallerInv, PlaceInv, Undisturbed, Estimating
<1>5. ShownInv' /\ CountInv'
  BY <1>1, <1>4, ShownKept, CountKept DEF Onward, Estimating
<1> QED BY <1>1, <1>2, <1>3, <1>5 DEF IndInv

-----------------------------------------------------------------------------
(* Beginnings: nothing is shown. *)

LEMMA NothingTyped ==
  NoEnsemble \in Ensembles /\ NoResults \in Reports /\ NoDiagnostics \in Diags /\ NoCall \in Calls
BY DEF NoEnsemble, NoResults, NoDiagnostics, NoCall, Ensembles, Reports, Diags, Calls, Vectors, Unset

LEMMA NothingCounted ==
  Counted(NoDiagnostics) /\ NoDiagnostics.transform = 0
BY EnsembleAssumption DEF Counted, NoDiagnostics, Unset

LEMMA ClearedFacts ==
  ASSUME NEW a \in Analyses
  PROVE  /\ Cleared(a) \in Analyses
         /\ ~Cleared(a).is_estimated /\ Cleared(a).ensemble = NoEnsemble
         /\ Cleared(a).analysis_results = NoResults /\ Cleared(a).message = "None"
         /\ Cleared(a).bootstrap_results = NoDiagnostics
         /\ Cleared(a).distribution_cache = {} /\ Cleared(a).linked = a.linked
         /\ Cleared(a).driven = 0 /\ ~Cleared(a).returned
BY NothingTyped DEF Cleared, Analyses, Messages

LEMMA Initially == CompositeInit => IndInv
<1> SUFFICES ASSUME CompositeInit PROVE IndInv
  OBVIOUS
<1>1. /\ analysis \in Analyses /\ ~analysis.is_estimated /\ analysis.ensemble = NoEnsemble
      /\ analysis.analysis_results = NoResults /\ analysis.message = "None"
      /\ analysis.bootstrap_results = NoDiagnostics /\ analysis.distribution_cache = {}
      /\ ~analysis.linked /\ analysis.driven = 0 /\ ~analysis.returned
  <2>1. PICK m \in UncertaintyMethods, n \in Lengths :
          analysis = [uncertainty_method |-> m, output_length |-> n, is_estimated |-> FALSE,
            ensemble |-> NoEnsemble, bayesian_estimated |-> FALSE,
            analysis_results |-> NoResults, bootstrap_results |-> NoDiagnostics,
            message |-> "None", distribution_cache |-> {}, linked |-> FALSE,
            driven |-> 0, returned |-> FALSE]
    BY DEF CompositeInit, Init
  <2>2. n \in Nat
    BY EnsembleAssumption
  <2> QED BY <2>1, <2>2, NothingTyped DEF Analyses, Messages
<1>2. gmm = NoGmm /\ pc = "idle" /\ caller = "host" /\ call = NoCall /\ composite = NoComposite
  BY DEF CompositeInit, Init
<1>3. TypeOK
  BY <1>1, <1>2, NewGmmTyped, NothingTyped DEF TypeOK, Pcs, NoComposite
<1>4. FitInv /\ CallerInv /\ PlaceInv
  BY <1>1, <1>2, NewGmmTyped DEF FitInv, CallerInv, PlaceInv, Estimating, RunOnly, Quantifying
<1>5. ShownInv /\ CountInv
  BY <1>1, <1>2, NothingCounted DEF ShownInv, CountInv
<1> QED BY <1>3, <1>4, <1>5 DEF IndInv

LEMMA ClearInv ==
  ASSUME IndInv, NEW a \in Analyses, ~a.linked, Clear(a), UNCHANGED <<call, composite>>,
         \/ pc' = "idle" /\ caller' = "host"
         \/ pc' = "prepare" /\ caller' = "run"
  PROVE  IndInv'
<1>1. /\ analysis' \in Analyses /\ ~analysis'.is_estimated /\ analysis'.ensemble = NoEnsemble
      /\ analysis'.analysis_results = NoResults /\ analysis'.message = "None"
      /\ analysis'.bootstrap_results = NoDiagnostics /\ analysis'.distribution_cache = {}
      /\ ~analysis'.linked /\ analysis'.driven = 0 /\ ~analysis'.returned
  BY ClearedFacts DEF Clear
<1>2. gmm' = NoGmm
  BY DEF Clear
<1>3. TypeOK'
  BY <1>1, <1>2, NewGmmTyped DEF IndInv, TypeOK, Pcs, RunOnly
<1>4. FitInv' /\ CallerInv' /\ PlaceInv'
  BY <1>1, <1>2, NewGmmTyped DEF FitInv, CallerInv, PlaceInv, Estimating, RunOnly, Quantifying
<1>5. ShownInv' /\ CountInv'
  BY <1>1, NothingCounted DEF ShownInv, CountInv
<1> QED BY <1>3, <1>4, <1>5 DEF IndInv

\* Every action that clears is the host's, from outside of any call.
LEMMA ClearingInv ==
  ASSUME IndInv, pc = "idle", Run \/ SetUncertaintyMethod \/ ClearAnalysis, UNCHANGED composite
  PROVE  IndInv'
<1>1. analysis \in Analyses /\ ~analysis.linked /\ caller = "host"
  BY DEF IndInv, TypeOK, PlaceInv, CallerInv
<1>2. CASE Run
  BY <1>1, <1>2, ClearInv DEF Run
<1>3. CASE ClearAnalysis
  BY <1>1, <1>3, ClearInv DEF ClearAnalysis
<1>4. CASE SetUncertaintyMethod
  <2>1. PICK m \in UncertaintyMethods : Clear([analysis EXCEPT !.uncertainty_method = m])
    BY <1>4 DEF SetUncertaintyMethod
  <2> DEFINE a == [analysis EXCEPT !.uncertainty_method = m]
  <2>2. a \in Analyses /\ ~a.linked
    BY <1>1 DEF Analyses
  <2> HIDE DEF a
  <2>3. Clear(a)
    BY <2>1 DEF a
  <2> QED BY <1>1, <1>4, <2>2, <2>3, ClearInv DEF SetUncertaintyMethod
<1> QED BY <1>2, <1>3, <1>4

-----------------------------------------------------------------------------
(* Steps that leave the analysis as it is. *)

LEMMA QuietInv ==
  ASSUME IndInv, SameFit, UNCHANGED <<analysis, composite>>, call' \in Calls,
         pc' \in Pcs \ (Estimating \cup {"replicate", "factor"}), caller' \in {"host", "run"},
         CallerInv', PlaceInv',
         caller' = "run" => caller = "run",
         caller' = "run" /\ pc' \in {"frequency", "update"} => pc \in {"frequency", "update"}
  PROVE  IndInv'
<1>1. FitInv' /\ gmm' \in Gmms /\ gmm'.best = gmm.best
  BY SameFitKeeps DEF IndInv
<1>2. TypeOK'
  BY <1>1 DEF IndInv, TypeOK
<1>3. ShownInv' /\ CountInv'
  BY <1>1, ShownKept, CountKept DEF Undisturbed
<1> QED BY <1>1, <1>2, <1>3 DEF IndInv

LEMMA UnwindInv ==
  ASSUME IndInv, SameFit, Unwind, UNCHANGED <<analysis, composite>>, call' \in Calls, ~analysis.linked
  PROVE  IndInv'
<1>1. pc' = "idle" /\ caller' = "host"
  BY DEF Unwind
<1>2. CallerInv' /\ PlaceInv'
  BY <1>1 DEF IndInv, CallerInv, PlaceInv, RunOnly, Quantifying, Estimating
<1> QED BY <1>1, <1>2, QuietInv DEF Pcs, Estimating

LEMMA PrepareInv ==
  ASSUME IndInv, Prepare, UNCHANGED composite
  PROVE  IndInv'
<1>1. /\ pc = "prepare" /\ pc' = "pass" /\ caller' = caller /\ UNCHANGED <<analysis, call>>
      /\ gmm' = Restarted(NewGmm, DefaultKnobs)
  BY DEF Prepare, StartEstimate
<1>2. /\ gmm' \in Gmms /\ ~gmm'.is_estimated /\ ~gmm'.converged /\ ~gmm'.sticky
      /\ gmm'.fallbacks = 0 /\ gmm'.passes = 1 /\ gmm'.history = 0
  <2>1. NewGmm \in Gmms /\ DefaultKnobs \in Knobs
    BY NewGmmTyped, KnobsTyped
  <2> QED BY <1>1, <2>1, RestartedFacts
<1>3. TypeOK' /\ FitInv'
  BY <1>1, <1>2 DEF IndInv, TypeOK, FitInv, Pcs, Estimating
<1>4. CallerInv' /\ PlaceInv' /\ Undisturbed
  BY <1>1 DEF IndInv, CallerInv, PlaceInv, Undisturbed, RunOnly, Quantifying, Estimating
<1>5. ShownInv' /\ CountInv'
  BY <1>1, <1>4, ShownKept, CountKept
<1> QED BY <1>3, <1>4, <1>5 DEF IndInv

LEMMA QuietStepsInv ==
  ASSUME IndInv, UNCHANGED composite,
         \/ PrepareThrows \/ Quantify \/ QuantifyThrows \/ MultivariateNormalThrows
         \/ BootstrapThrows
         \/ pc = "idle" /\ (Reprocess \/ CohnIntervals)
  PROVE  IndInv'
<1>0. TypeOK /\ call \in Calls /\ NoCall \in Calls
  BY NothingTyped DEF IndInv, TypeOK
<1>1. CASE PrepareThrows \/ QuantifyThrows
  <2>1. SameFit
    BY <1>0, <1>1, UnchangedKeeps DEF PrepareThrows, QuantifyThrows
  <2>2. Unwind /\ UNCHANGED <<analysis, call>> /\ ~analysis.linked
    BY <1>1 DEF PrepareThrows, QuantifyThrows, IndInv, PlaceInv
  <2> QED BY <1>0, <2>1, <2>2, UnwindInv
<1>2. CASE MultivariateNormalThrows \/ BootstrapThrows
  <2>1. SameFit
    BY <1>0, <1>2, CovarianceKeeps DEF MultivariateNormalThrows, BootstrapThrows
  <2>2. Unwind /\ UNCHANGED analysis /\ call' \in Calls /\ ~analysis.linked
    BY <1>0, <1>2 DEF MultivariateNormalThrows, BootstrapThrows, IndInv, PlaceInv
  <2> QED BY <2>1, <2>2, UnwindInv
<1>3. CASE Quantify
  <2>1. SameFit
    BY <1>0, <1>3, UnchangedKeeps DEF Quantify
  <2>2. /\ pc = "quantify" /\ gmm.best # None /\ UNCHANGED <<gmm, caller, analysis, call>>
        /\ \/ pc' \in {"mvn", "link"} /\ ~IsBootstrap(analysis.uncertainty_method)
           \/ pc' = "bootstrap" /\ IsBootstrap(analysis.uncertainty_method)
    BY <1>3 DEF Quantify, IndInv, TypeOK, Analyses, UncertaintyMethods, IsBootstrap
  <2>3. CallerInv' /\ PlaceInv'
    BY <2>2 DEF IndInv, CallerInv, PlaceInv, RunOnly, Quantifying, Estimating
  <2>4. pc' \in Pcs \ (Estimating \cup {"replicate", "factor"})
    BY <2>2 DEF Pcs, RunOnly, Quantifying, Estimating
  <2> QED BY <1>0, <2>1, <2>2, <2>3, <2>4, QuietInv DEF TypeOK
<1>4. CASE pc = "idle" /\ Reprocess
  <2>1. SameFit
    BY <1>0, <1>4, UnchangedKeeps DEF Reprocess
  <2>2. pc' \in {"frequency", "update"} /\ UNCHANGED <<caller, analysis, call>> /\ caller = "host"
    BY <1>4 DEF Reprocess, IndInv, CallerInv
  <2>3. CallerInv' /\ PlaceInv'
    BY <1>4, <2>2 DEF IndInv, CallerInv, PlaceInv, RunOnly, Quantifying, Estimating
  <2>4. pc' \in Pcs \ (Estimating \cup {"replicate", "factor"})
    BY <2>2 DEF Pcs, Estimating
  <2> QED BY <1>0, <2>1, <2>2, <2>3, <2>4, QuietInv
<1>5. CASE pc = "idle" /\ CohnIntervals
  <2>1. SameFit
    BY <1>0, <1>5, CovarianceTwice DEF CohnIntervals
  <2>2. UNCHANGED <<pc, caller, analysis, call>> /\ caller = "host"
    BY <1>5 DEF CohnIntervals, IndInv, CallerInv
  <2>3. CallerInv' /\ PlaceInv'
    BY <1>5, <2>2 DEF IndInv, CallerInv, PlaceInv, RunOnly, Quantifying, Estimating
  <2> QED BY <1>0, <1>5, <2>1, <2>2, <2>3, QuietInv DEF Pcs, Estimating
<1> QED BY <1>1, <1>2, <1>3, <1>4, <1>5

-----------------------------------------------------------------------------
(* The quantification. *)

LEMMA DecideInv ==
  ASSUME IndInv, Decide, UNCHANGED composite
  PROVE  IndInv'
<1>1. /\ pc = "decide" /\ UNCHANGED <<gmm, call>> /\ caller = "run" /\ analysis \in Analyses
      /\ ~analysis.is_estimated /\ ~analysis.linked
  BY DEF Decide, IndInv, TypeOK, CallerInv, PlaceInv, RunOnly
<1>2. CASE Unwind /\ analysis' = Returned(analysis)
  <2>1. /\ analysis' \in Analyses
        /\ \A f \in {"uncertainty_method", "output_length", "is_estimated", "ensemble",
                     "bayesian_estimated", "analysis_results", "bootstrap_results", "message",
                     "distribution_cache", "linked", "driven"} : analysis'[f] = analysis[f]
    BY <1>1, <1>2 DEF Returned, Analyses
  <2>2. TypeOK' /\ FitInv'
    BY <1>1, <1>2, <2>1 DEF IndInv, TypeOK, FitInv, Unwind, Pcs, Estimating
  <2>3. CallerInv' /\ PlaceInv'
    BY <1>1, <1>2, <2>1 DEF Unwind, CallerInv, PlaceInv, RunOnly, Quantifying, Estimating
  <2>4. ShownInv' /\ CountInv'
    BY <1>1, <1>2, <2>1 DEF IndInv, Unwind, ShownInv, CountInv, Counted
  <2> QED BY <2>2, <2>3, <2>4 DEF IndInv
<1>3. CASE analysis' = [analysis EXCEPT !.is_estimated = TRUE] /\ pc' = "quantify" /\ UNCHANGED caller
  <2>1. /\ analysis' \in Analyses /\ analysis'.is_estimated
        /\ \A f \in {"uncertainty_method", "output_length", "ensemble", "bayesian_estimated",
                     "analysis_results", "bootstrap_results", "message", "distribution_cache",
                     "linked", "driven", "returned"} : analysis'[f] = analysis[f]
    BY <1>1, <1>3 DEF Analyses
  <2>2. TypeOK' /\ FitInv'
    BY <1>1, <1>3, <2>1 DEF IndInv, TypeOK, FitInv, Pcs, RunOnly, Quantifying, Estimating
  <2>3. CallerInv' /\ PlaceInv'
    BY <1>1, <1>3, <2>1 DEF IndInv, CallerInv, PlaceInv, RunOnly, Quantifying, Estimating
  <2>4. ShownInv' /\ CountInv'
    BY <1>1, <1>3, <2>1 DEF IndInv, CallerInv, PlaceInv, ShownInv, CountInv, Counted
  <2> QED BY <2>2, <2>3, <2>4 DEF IndInv
<1> QED BY <1>2, <1>3 DEF Decide

\* A method ends without an ensemble and with the reason.
LEMMA AbortInv ==
  ASSUME IndInv, SameFit, pc \in Quantifying, Quantified, UNCHANGED composite, call' \in Calls,
         NEW message \in Messages \ {"None"}, Abort(message)
  PROVE  IndInv'
<1>1. /\ caller = "run" /\ caller' = caller /\ pc' = "frequency" /\ analysis \in Analyses
      /\ analysis.ensemble = NoEnsemble /\ analysis.is_estimated
      /\ analysis.analysis_results = NoResults /\ analysis.bootstrap_results = NoDiagnostics
      /\ analysis.distribution_cache = {} /\ analysis.driven = 0 /\ ~analysis.returned
  BY DEF IndInv, TypeOK, CallerInv, PlaceInv, Quantified, RunOnly, Quantifying
<1>2. FitInv' /\ gmm' \in Gmms /\ gmm'.best = gmm.best
  BY <1>1, SameFitKeeps DEF IndInv, Estimating
<1>3. /\ analysis' \in Analyses /\ analysis'.message = message /\ ~analysis'.linked
      /\ \A f \in {"uncertainty_method", "output_length", "is_estimated", "ensemble",
                   "bayesian_estimated", "analysis_results", "bootstrap_results",
                   "distribution_cache", "driven", "returned"} : analysis'[f] = analysis[f]
  BY <1>1 DEF Abort, Analyses
<1>4. TypeOK'
  BY <1>1, <1>2, <1>3 DEF IndInv, TypeOK, Pcs
<1>5. CallerInv' /\ PlaceInv'
  BY <1>1, <1>3 DEF CallerInv, PlaceInv, RunOnly, Quantifying, Estimating
<1>6. ShownInv' /\ CountInv'
  BY <1>1, <1>3, NothingCounted DEF ShownInv, CountInv, Exclusive
<1> QED BY <1>2, <1>4, <1>5, <1>6 DEF IndInv

\* The guards behind the switch: the message, or the whole ensemble.
LEMMA DeliveredFacts ==
  ASSUME NEW a \in Analyses, NEW slots \in Nat, NEW valid \in Nat, TypeOK
  PROVE  /\ Delivered(a, slots, valid) \in Analyses
         /\ \A f \in {"uncertainty_method", "output_length", "is_estimated", "analysis_results",
                      "bootstrap_results", "distribution_cache", "linked", "driven",
                      "returned"} : Delivered(a, slots, valid)[f] = a[f]
         /\ \/ /\ Delivered(a, slots, valid).message # "None"
               /\ Delivered(a, slots, valid).ensemble = a.ensemble
            \/ /\ Delivered(a, slots, valid).message = a.message
               /\ Delivered(a, slots, valid).bayesian_estimated
               /\ Delivered(a, slots, valid).ensemble =
                    [map |-> gmm.best, size |-> valid, asked |-> a.output_length]
               /\ IsBootstrap(a.uncertainty_method) =>
                    slots = a.output_length /\ valid = a.output_length
<1> DEFINE ensemble == [map |-> gmm.best, size |-> valid, asked |-> a.output_length]
           fields == {"uncertainty_method", "output_length", "is_estimated", "analysis_results",
                      "bootstrap_results", "distribution_cache", "linked", "driven", "returned"}
<1>1. ensemble \in Ensembles
  BY DEF TypeOK, Gmms, Vectors, Ensembles, Analyses
<1>2. /\ Published(a, valid) \in Analyses /\ Published(a, valid).message = a.message
      /\ Published(a, valid).bayesian_estimated /\ Published(a, valid).ensemble = ensemble
      /\ \A f \in fields : Published(a, valid)[f] = a[f]
  <2>1. Published(a, valid) = [a EXCEPT !.ensemble = ensemble, !.bayesian_estimated = TRUE]
    BY DEF Published
  <2> HIDE DEF ensemble
  <2> QED BY <1>1, <2>1 DEF Analyses
<1>3. ASSUME NEW m \in {"NotExact", "TooFew"}
      PROVE  /\ [a EXCEPT !.message = m] \in Analyses /\ [a EXCEPT !.message = m].message = m
             /\ [a EXCEPT !.message = m].ensemble = a.ensemble
             /\ \A f \in fields : [a EXCEPT !.message = m][f] = a[f]
  BY DEF Analyses, Messages
<1>4. CASE IsBootstrap(a.uncertainty_method) /\ {slots, valid} # {a.output_length}
  <2>1. Delivered(a, slots, valid) = [a EXCEPT !.message = "NotExact"]
    BY <1>4 DEF Delivered
  <2> QED BY <1>3, <2>1
<1>5. CASE /\ ~(IsBootstrap(a.uncertainty_method) /\ {slots, valid} # {a.output_length})
           /\ valid < 2
  <2>1. Delivered(a, slots, valid) = [a EXCEPT !.message = "TooFew"]
    BY <1>5 DEF Delivered
  <2> QED BY <1>3, <2>1
<1>6. CASE /\ ~(IsBootstrap(a.uncertainty_method) /\ {slots, valid} # {a.output_length})
           /\ ~(valid < 2)
  <2>1. Delivered(a, slots, valid) = Published(a, valid)
    BY <1>6 DEF Delivered
  <2> QED BY <1>2, <1>6, <2>1
<1> QED BY <1>4, <1>5, <1>6

\* A method ends with sets to publish, and with diagnostics that count them.
LEMMA DeliverInv ==
  ASSUME IndInv, SameFit, pc \in Quantifying \ {"quantify"}, Quantified, UNCHANGED composite,
         call' \in Calls, NEW slots \in Nat, NEW valid \in Nat, NEW a \in Analyses,
         \A f \in {"uncertainty_method", "output_length", "is_estimated", "ensemble", "message",
                   "analysis_results", "distribution_cache", "driven", "returned"} :
           a[f] = analysis[f],
         ~a.linked, Counted(a.bootstrap_results),
         a.bootstrap_results # NoDiagnostics => IsBootstrap(a.uncertainty_method),
         IsBootstrap(a.uncertainty_method) /\ slots = a.output_length /\ valid = a.output_length =>
           a.bootstrap_results.total = a.output_length /\ a.bootstrap_results.transform = 0,
         analysis' = Delivered(a, slots, valid)
  PROVE  IndInv'
<1>1. /\ caller = "run" /\ caller' = caller /\ pc' = "frequency" /\ gmm.best # None
      /\ a.ensemble = NoEnsemble /\ a.is_estimated /\ a.message = "None"
      /\ a.analysis_results = NoResults
      /\ a.distribution_cache = {} /\ a.driven = 0 /\ ~a.returned
  BY DEF IndInv, CallerInv, PlaceInv, Quantified, RunOnly, Quantifying
<1>2. FitInv' /\ gmm' \in Gmms /\ gmm'.best = gmm.best
  BY <1>1, SameFitKeeps DEF IndInv, Estimating
<1>3. /\ analysis' \in Analyses
      /\ analysis'.uncertainty_method = a.uncertainty_method
      /\ analysis'.output_length = a.output_length
      /\ analysis'.is_estimated /\ analysis'.analysis_results = NoResults
      /\ analysis'.bootstrap_results = a.bootstrap_results
      /\ analysis'.distribution_cache = {} /\ ~analysis'.linked
      /\ analysis'.driven = 0 /\ ~analysis'.returned
      /\ \/ analysis'.message # "None" /\ analysis'.ensemble = NoEnsemble
         \/ /\ analysis'.message = "None" /\ analysis'.bayesian_estimated
            /\ analysis'.ensemble = [map |-> gmm.best, size |-> valid, asked |-> a.output_length]
            /\ IsBootstrap(a.uncertainty_method) =>
                 slots = a.output_length /\ valid = a.output_length
  <2>1. TypeOK
    BY DEF IndInv
  <2> QED BY <1>1, <2>1, DeliveredFacts
<1>4. TypeOK'
  BY <1>1, <1>2, <1>3 DEF IndInv, TypeOK, Pcs
<1>5. CallerInv' /\ PlaceInv'
  BY <1>1, <1>3 DEF CallerInv, PlaceInv, RunOnly, Quantifying, Estimating
<1>6. CASE analysis'.message # "None" /\ analysis'.ensemble = NoEnsemble
  <2>1. ShownInv' /\ CountInv'
    BY <1>1, <1>3, <1>6 DEF ShownInv, CountInv, Exclusive, Counted
  <2> QED BY <1>2, <1>4, <1>5, <2>1 DEF IndInv
<1>7. CASE /\ analysis'.message = "None" /\ analysis'.bayesian_estimated
           /\ analysis'.ensemble = [map |-> gmm.best, size |-> valid, asked |-> a.output_length]
           /\ IsBootstrap(a.uncertainty_method) =>
                slots = a.output_length /\ valid = a.output_length
  <2>1. /\ analysis'.ensemble # NoEnsemble /\ analysis'.ensemble.map = gmm.best
        /\ analysis'.ensemble.size = valid /\ analysis'.ensemble.asked = a.output_length
    BY <1>1, <1>7 DEF NoEnsemble
  <2>2. ShownInv'
    BY <1>1, <1>2, <1>3, <1>7, <2>1 DEF ShownInv, Exclusive
  <2>3. CountInv'
    BY <1>1, <1>3, <1>7, <2>1 DEF CountInv, Counted
  <2> QED BY <1>2, <1>4, <1>5, <2>2, <2>3 DEF IndInv
<1> QED BY <1>3, <1>6, <1>7

\* A method that draws from a normal distribution ends.
LEMMA MultivariateNormalInv ==
  ASSUME IndInv, MultivariateNormal, UNCHANGED composite
  PROVE  IndInv'
<1>1. /\ pc = "mvn" /\ Quantified /\ UNCHANGED call /\ call' \in Calls
      /\ pc \in Quantifying \ {"quantify"} /\ analysis \in Analyses
      /\ ~analysis.linked /\ ~IsBootstrap(analysis.uncertainty_method)
      /\ Counted(analysis.bootstrap_results)
      /\ analysis.bootstrap_results # NoDiagnostics => IsBootstrap(analysis.uncertainty_method)
  BY DEF MultivariateNormal, IndInv, TypeOK, PlaceInv, ShownInv, CountInv, Quantifying
<1>2. SameFit
  BY CovarianceKeeps DEF MultivariateNormal, IndInv
<1>3. CASE Abort("Covariance") \/ Abort("Rejected")
  BY <1>1, <1>2, <1>3, AbortInv DEF Messages
<1>4. CASE \E k \in 0..analysis.output_length :
             LET n == analysis.output_length - k IN analysis' = Delivered(analysis, n, n)
  <2>1. PICK k \in 0..analysis.output_length :
          analysis' = Delivered(analysis, analysis.output_length - k, analysis.output_length - k)
    BY <1>4
  <2>2. analysis.output_length - k \in Nat
    BY <1>1 DEF Analyses
  <2> QED BY <1>1, <1>2, <2>1, <2>2, DeliverInv
<1> QED BY <1>3, <1>4 DEF MultivariateNormal

\* The temporary links come and go.
LEMMA LinkInv ==
  ASSUME IndInv, SameFit, pc \in {"link", "linked"}, UNCHANGED <<call, composite>>,
         NEW linked \in BOOLEAN, analysis' = [analysis EXCEPT !.linked = linked],
         \/ linked /\ pc' = "linked" /\ caller' = caller
         \/ ~linked /\ pc' = "mvn" /\ caller' = caller
         \/ ~linked /\ Unwind
  PROVE  IndInv'
<1>1. /\ caller = "run" /\ gmm.best # None /\ analysis \in Analyses /\ analysis.is_estimated
      /\ ~IsBootstrap(analysis.uncertainty_method)
  BY DEF IndInv, TypeOK, CallerInv, PlaceInv, RunOnly, Quantifying
<1>2. pc' \in {"linked", "mvn", "idle"}
  BY DEF Unwind
<1>3. FitInv' /\ gmm' \in Gmms /\ gmm'.best = gmm.best
  BY <1>2, SameFitKeeps DEF IndInv, Estimating
<1>4. /\ analysis' \in Analyses /\ analysis'.linked = linked
      /\ \A f \in {"uncertainty_method", "output_length", "is_estimated", "ensemble", "message",
                   "bayesian_estimated", "analysis_results", "bootstrap_results",
                   "distribution_cache", "driven", "returned"} : analysis'[f] = analysis[f]
  BY <1>1 DEF Analyses
<1>5. TypeOK'
  BY <1>1, <1>2, <1>3, <1>4 DEF IndInv, TypeOK, Pcs, RunOnly, Quantifying, Unwind
<1>6. CallerInv' /\ PlaceInv'
  <2>1. CASE pc' = "idle" /\ caller' = "host" /\ ~linked
    BY <1>4, <2>1 DEF CallerInv, PlaceInv, RunOnly, Quantifying, Estimating
  <2>2. CASE pc' \in {"linked", "mvn"} /\ caller' = caller /\ (linked => pc' = "linked")
    BY <1>1, <1>3, <1>4, <2>2 DEF IndInv, CallerInv, PlaceInv, RunOnly, Quantifying, Estimating
  <2> QED BY <2>1, <2>2 DEF Unwind
<1>7. ShownInv'
  BY <1>1, <1>2, <1>3, <1>4 DEF IndInv, PlaceInv, ShownInv, Exclusive, Estimating
<1>8. CountInv'
  BY <1>2, <1>4 DEF IndInv, CountInv, Counted
<1> QED BY <1>3, <1>5, <1>6, <1>7, <1>8 DEF IndInv

LEMMA LinkStepsInv ==
  ASSUME IndInv, InstallLinks \/ LinkedThrows, UNCHANGED composite
  PROVE  IndInv'
<1>1. SameFit
  BY CovarianceKeeps DEF InstallLinks, LinkedThrows, IndInv
<1>2. CASE InstallLinks
  BY <1>1, <1>2, LinkInv DEF InstallLinks
<1>3. CASE LinkedThrows
  BY <1>1, <1>3, LinkInv DEF LinkedThrows
<1> QED BY <1>2, <1>3

LEMMA DrawLinkedInv ==
  ASSUME IndInv, DrawLinked, UNCHANGED composite
  PROVE  IndInv'
<1> DEFINE restored == [analysis EXCEPT !.linked = FALSE]
<1>1. /\ pc = "linked" /\ UNCHANGED <<gmm, caller, call>> /\ call' \in Calls
      /\ pc \in Quantifying \ {"quantify"} /\ analysis \in Analyses
      /\ ~IsBootstrap(analysis.uncertainty_method) /\ Counted(analysis.bootstrap_results)
      /\ analysis.bootstrap_results # NoDiagnostics => IsBootstrap(analysis.uncertainty_method)
  BY DEF DrawLinked, IndInv, TypeOK, PlaceInv, ShownInv, CountInv, Quantifying
<1>2. SameFit
  BY <1>1, UnchangedKeeps DEF IndInv
<1>3. CASE analysis' = restored /\ pc' = "mvn"
  BY <1>1, <1>2, <1>3, LinkInv
<1>4. CASE /\ pc' = "frequency"
           /\ \E k \in 0..analysis.output_length :
                LET n == analysis.output_length - k IN analysis' = Delivered(restored, n, n)
  <2>1. PICK k \in 0..analysis.output_length :
          analysis' = Delivered(restored, analysis.output_length - k, analysis.output_length - k)
    BY <1>4
  <2>2. analysis.output_length - k \in Nat
    BY <1>1 DEF Analyses
  <2>3. /\ restored \in Analyses /\ ~restored.linked
        /\ \A f \in {"uncertainty_method", "output_length", "is_estimated", "ensemble", "message",
                     "analysis_results", "bootstrap_results", "distribution_cache", "driven",
                     "returned"} : restored[f] = analysis[f]
    BY <1>1 DEF Analyses
  <2>4. Quantified
    BY <1>1, <1>4 DEF Quantified
  <2> HIDE DEF restored
  <2> QED BY <1>1, <1>2, <2>1, <2>2, <2>3, <2>4, DeliverInv
<1> QED BY <1>3, <1>4 DEF DrawLinked

-----------------------------------------------------------------------------
(* The two bootstraps. *)

LEMMA StartBootstrapInv ==
  ASSUME IndInv, StartBootstrap, UNCHANGED composite
  PROVE  IndInv'
<1>1. /\ pc = "bootstrap" /\ UNCHANGED caller /\ caller = "run" /\ gmm.best # None
      /\ analysis \in Analyses /\ analysis.is_estimated
      /\ IsBootstrap(analysis.uncertainty_method) /\ ~analysis.linked
  BY DEF StartBootstrap, IndInv, TypeOK, CallerInv, PlaceInv, RunOnly, Quantifying
<1>2. SameFit
  BY CovarianceKeeps DEF StartBootstrap, IndInv
<1>3. CASE /\ pc' = "replicate" /\ UNCHANGED analysis
           /\ call' = [NoCall EXCEPT !.diag.total = analysis.output_length]
  <2>1. FitInv' /\ gmm' \in Gmms /\ gmm'.best = gmm.best
    BY <1>2, <1>3, SameFitKeeps DEF IndInv, Estimating
  <2> DEFINE diag == [total |-> analysis.output_length, failed |-> 0, retries |-> 0,
                      mahalanobis |-> 0, transform |-> 0, retained |-> Unset]
  <2>2. call' = [replicate |-> 1, attempt |-> 1, diag |-> diag]
    BY <1>3 DEF NoCall, NoDiagnostics
  <2>3. /\ diag \in Diags /\ Counted(diag) /\ diag.failed = 0 /\ diag.retries = 0
        /\ diag.total = analysis.output_length /\ analysis.output_length \in Nat
        /\ diag.retained = Unset /\ diag.transform = 0
    BY <1>1, EnsembleAssumption DEF Diags, Counted, Unset, Analyses
  <2> HIDE DEF diag
  <2>4. call' \in Calls /\ call'.replicate = 1 /\ call'.attempt = 1 /\ call'.diag = diag
    BY <2>2, <2>3 DEF Calls
  <2>5. TypeOK'
    BY <1>1, <1>3, <2>1, <2>4 DEF IndInv, TypeOK, Pcs, RunOnly, Quantifying
  <2>6. CallerInv' /\ PlaceInv'
    BY <1>1, <1>3, <2>1 DEF IndInv, CallerInv, PlaceInv, RunOnly, Quantifying, Estimating
  <2>7. ShownInv'
    BY <1>1, <1>3, <2>1, ShownKept DEF Undisturbed
  <2>8. CountInv'
    <3>1. Counted(analysis.bootstrap_results)'
      BY <1>3 DEF IndInv, CountInv, Counted
    <3>2. /\ Counted(call.diag)' /\ call'.diag.failed < call'.replicate
          /\ call'.replicate <= call'.diag.total + 1 /\ call'.attempt \in 1..MaxRetries
          /\ call'.diag.failed * (MaxRetries - 1) + call'.attempt - 1 <= call'.diag.retries
      BY <2>3, <2>4, EnsembleAssumption DEF Counted
    <3> QED BY <1>3, <2>3, <2>4, <3>1, <3>2 DEF IndInv, CountInv
  <2> QED BY <2>1, <2>5, <2>6, <2>7, <2>8 DEF IndInv
<1>4. CASE Abort("Pivot") /\ pc' = "frequency" /\ UNCHANGED call
  <2>1. Quantified /\ call' \in Calls /\ pc \in Quantifying
    BY <1>1, <1>4 DEF Quantified, IndInv, TypeOK, Quantifying
  <2> QED BY <1>2, <1>4, <2>1, AbortInv DEF Messages
<1> QED BY <1>3, <1>4 DEF StartBootstrap

\* A step of the loop that stays in it, with counts of its own.
LEMMA ReplicateInv ==
  ASSUME IndInv, pc = "replicate", UNCHANGED <<gmm, caller, analysis, composite>>, call' \in Calls,
         \/ /\ pc' = "replicate"
            /\ Counted(call.diag)' /\ call'.diag.retained = Unset /\ call'.diag.transform = 0
            /\ call'.diag.total = analysis.output_length
            /\ call'.diag.failed < call'.replicate /\ call'.replicate <= call'.diag.total + 1
            /\ call'.attempt \in 1..MaxRetries
            /\ call'.diag.failed * (MaxRetries - 1) + call'.attempt - 1 <= call'.diag.retries
         \/ pc' = "undefined"
  PROVE  IndInv'
<1>1. FitInv' /\ gmm' \in Gmms
  <2>1. SameFit
    BY UnchangedKeeps DEF IndInv
  <2> QED BY <2>1, SameFitKeeps DEF IndInv, Estimating
<1>2. TypeOK'
  BY <1>1 DEF IndInv, TypeOK, Pcs, RunOnly, Quantifying
<1>3. caller = "run" /\ CallerInv'
  BY DEF IndInv, CallerInv, RunOnly, Quantifying, Estimating
<1>4. PlaceInv'
  BY <1>3 DEF IndInv, PlaceInv, Quantifying, Estimating
<1>5. ShownInv'
  BY ShownKept DEF Undisturbed
<1>6. CountInv'
  BY DEF IndInv, CountInv, Counted
<1> QED BY <1>1, <1>2, <1>3, <1>4, <1>5, <1>6 DEF IndInv

LEMMA ReplicateFacts ==
  ASSUME IndInv, pc = "replicate"
  PROVE  /\ call \in Calls /\ call.diag \in Diags /\ Counted(call.diag)
         /\ call.diag.retained = Unset /\ call.diag.transform = 0
         /\ call.diag.total = analysis.output_length
         /\ call.diag.failed < call.replicate /\ call.replicate <= call.diag.total + 1
         /\ call.attempt \in 1..MaxRetries
         /\ call.diag.failed * (MaxRetries - 1) + call.attempt - 1 <= call.diag.retries
BY DEF IndInv, TypeOK, CountInv, Calls

LEMMA AcceptInv ==
  ASSUME IndInv, AcceptReplicate, UNCHANGED composite
  PROVE  IndInv'
<1>1. pc = "replicate" /\ call.replicate <= call.diag.total /\ UNCHANGED <<gmm, caller, analysis>>
  BY DEF AcceptReplicate
<1>2. CASE pc' = pc /\ call' = NextReplicate(call)
  <2>1. /\ call \in Calls /\ call.diag \in Diags /\ Counted(call.diag)
        /\ call.diag.retained = Unset /\ call.diag.transform = 0
        /\ call.diag.total = analysis.output_length
        /\ call.diag.failed < call.replicate /\ call.replicate <= call.diag.total + 1
        /\ call.attempt \in 1..MaxRetries
        /\ call.diag.failed * (MaxRetries - 1) + call.attempt - 1 <= call.diag.retries
    BY <1>1, ReplicateFacts
  <2> DEFINE f == call.diag.failed * (MaxRetries - 1)
  <2>2. /\ call' \in Calls /\ call'.replicate = call.replicate + 1 /\ call'.attempt = 1
        /\ call'.diag = call.diag /\ Counted(call.diag)'
    <3> DEFINE n == call.replicate + 1
    <3>1. call' = [call EXCEPT !.replicate = n, !.attempt = 1] /\ n \in Nat
      BY <1>2, <2>1 DEF NextReplicate, Calls
    <3> HIDE DEF n
    <3>2. /\ call' \in Calls /\ call'.replicate = n /\ call'.attempt = 1
          /\ call'.diag = call.diag
      BY <2>1, <3>1 DEF Calls
    <3>3. Counted(call.diag)'
      BY <2>1, <3>2 DEF Counted
    <3> QED BY <3>2, <3>3 DEF n
  <2>3. f \in Int /\ call.diag.failed \in Nat /\ call.diag.retries \in Nat /\ f <= call.diag.retries
        /\ call.replicate \in Nat /\ call.diag.total \in Nat
    BY <2>1, EnsembleAssumption DEF Diags, Counted, Calls
  <2>4. f + 1 - 1 <= call.diag.retries
    <3> HIDE DEF f
    <3> QED BY <2>3
  <2>5. 1 \in 1..MaxRetries
    BY EnsembleAssumption
  <2>6. call.diag.failed < call.replicate + 1 /\ call.replicate + 1 <= call.diag.total + 1
    BY <1>1, <2>1, <2>3
  <2> QED BY <1>1, <1>2, <2>1, <2>2, <2>4, <2>5, <2>6, ReplicateInv
<1>3. CASE pc' = "undefined" /\ UNCHANGED call
  BY <1>1, <1>3, ReplicateInv DEF IndInv, TypeOK
<1> QED BY <1>2, <1>3 DEF AcceptReplicate

\* The counts of a rejected attempt: of one more retry, or of one more replicate lost.
LEMMA RejectCounts ==
  ASSUME NEW far \in {0, 1}, NEW d \in Diags, NEW attempt \in 1..MaxRetries,
         NEW replicate \in Nat, Counted(d), d.failed < replicate, replicate <= d.total,
         d.failed * (MaxRetries - 1) + attempt - 1 <= d.retries, NEW e \in Diags,
         e.total = d.total, e.transform = d.transform, e.retained = Unset,
         e.mahalanobis = d.mahalanobis + far,
         \/ e.retries = d.retries + 1 /\ e.failed = d.failed
         \/ attempt = MaxRetries /\ e.retries = d.retries /\ e.failed = d.failed + 1
  PROVE  /\ Counted(e)
         /\ e.failed = d.failed => e.failed * (MaxRetries - 1) + (attempt + 1) - 1 <= e.retries
         /\ e.failed = d.failed + 1 => e.failed * (MaxRetries - 1) + 1 - 1 <= e.retries
<1> DEFINE f == d.failed * (MaxRetries - 1)
<1>1. /\ MaxRetries \in Nat \ {0} /\ d.failed \in Nat /\ d.retries \in Nat /\ d.total \in Nat
      /\ d.mahalanobis \in Nat /\ f \in Int /\ f + attempt - 1 <= d.retries /\ f <= d.retries
      /\ (d.failed + 1) * (MaxRetries - 1) = f + MaxRetries - 1
      /\ d.mahalanobis <= d.retries + d.failed
  BY EnsembleAssumption DEF Diags, Counted
<1>2. CASE e.retries = d.retries + 1 /\ e.failed = d.failed
  <2>1. e.failed * (MaxRetries - 1) = f
    BY <1>2
  <2> HIDE DEF f
  <2> QED BY <1>1, <1>2, <2>1 DEF Counted
<1>3. CASE attempt = MaxRetries /\ e.retries = d.retries /\ e.failed = d.failed + 1
  <2>1. e.failed * (MaxRetries - 1) = f + MaxRetries - 1
    BY <1>1, <1>3
  <2> HIDE DEF f
  <2> QED BY <1>1, <1>3, <2>1 DEF Counted
<1> QED BY <1>2, <1>3

LEMMA RejectInv ==
  ASSUME IndInv, RejectReplicate, UNCHANGED composite
  PROVE  IndInv'
<1>1. /\ pc = "replicate" /\ call.replicate <= call.diag.total
      /\ UNCHANGED <<gmm, pc, caller, analysis>>
  BY DEF RejectReplicate
<1>2. /\ call \in Calls /\ call.diag \in Diags /\ Counted(call.diag)
      /\ call.diag.retained = Unset /\ call.diag.transform = 0
      /\ call.diag.total = analysis.output_length
      /\ call.diag.failed < call.replicate /\ call.replicate <= call.diag.total + 1
      /\ call.attempt \in 1..MaxRetries
      /\ call.diag.failed * (MaxRetries - 1) + call.attempt - 1 <= call.diag.retries
  BY <1>1, ReplicateFacts
<1>3. PICK far \in {0, 1} :
        LET counted == [call EXCEPT !.diag.mahalanobis = @ + far]
        IN  call' = IF call.attempt < MaxRetries
                      THEN [counted EXCEPT !.diag.retries = @ + 1, !.attempt = @ + 1]
                      ELSE NextReplicate([counted EXCEPT !.diag.failed = @ + 1])
  BY DEF RejectReplicate
<1>4. /\ call.replicate \in Nat /\ call.attempt \in Nat /\ call.diag.failed \in Nat
      /\ call.diag.retries \in Nat /\ call.diag.mahalanobis \in Nat /\ call.diag.total \in Nat
      /\ MaxRetries \in Nat \ {0}
  BY <1>2, EnsembleAssumption DEF Calls, Diags
<1> DEFINE m == call.diag.mahalanobis + far
           r == call.diag.retries + 1
           l == call.diag.failed + 1
           n == call.attempt + 1
           k == call.replicate + 1
<1>5. m \in Nat /\ r \in Nat /\ l \in Nat /\ n \in Nat /\ k \in Nat
  BY <1>4
<1>6. CASE call.attempt < MaxRetries
  <2> DEFINE e == [call.diag EXCEPT !.mahalanobis = m, !.retries = r]
  <2>1. call' = [call EXCEPT !.diag = e, !.attempt = n]
    BY <1>2, <1>3, <1>6 DEF Calls, Diags
  <2> HIDE DEF m, r, n
  <2>2. /\ e \in Diags /\ e.mahalanobis = m /\ e.retries = r /\ e.failed = call.diag.failed
        /\ e.total = call.diag.total /\ e.transform = call.diag.transform
        /\ e.retained = call.diag.retained
    BY <1>2, <1>5 DEF Diags
  <2> HIDE DEF e
  <2>3. call' \in Calls /\ call'.diag = e /\ call'.attempt = n /\ call'.replicate = call.replicate
    BY <1>2, <1>5, <2>1, <2>2 DEF Calls
  <2>4. Counted(e) /\ e.failed * (MaxRetries - 1) + n - 1 <= e.retries
    BY <1>1, <1>2, <1>4, <2>2, RejectCounts DEF m, r, n
  <2>5. Counted(call.diag)'
    BY <2>3, <2>4 DEF Counted
  <2>6. n \in 1..MaxRetries
    BY <1>4, <1>6 DEF n
  <2> QED BY <1>1, <1>2, <2>2, <2>3, <2>4, <2>5, <2>6, ReplicateInv
<1>7. CASE ~(call.attempt < MaxRetries)
  <2> DEFINE e == [call.diag EXCEPT !.mahalanobis = m, !.failed = l]
  <2>1. call' = [call EXCEPT !.diag = e, !.replicate = k, !.attempt = 1]
    BY <1>2, <1>3, <1>7 DEF Calls, Diags, NextReplicate
  <2>2. call.attempt = MaxRetries
    <3>1. call.attempt \in 1..MaxRetries
      BY <1>2
    <3> QED BY <1>4, <1>7, <3>1
  <2> HIDE DEF m, l, k
  <2>3. /\ e \in Diags /\ e.mahalanobis = m /\ e.retries = call.diag.retries /\ e.failed = l
        /\ e.total = call.diag.total /\ e.transform = call.diag.transform
        /\ e.retained = call.diag.retained
    BY <1>2, <1>5 DEF Diags
  <2> HIDE DEF e
  <2>4. call' \in Calls /\ call'.diag = e /\ call'.attempt = 1 /\ call'.replicate = k
    BY <1>2, <1>5, <2>1, <2>3 DEF Calls
  <2>5. Counted(e) /\ e.failed * (MaxRetries - 1) + 1 - 1 <= e.retries
    BY <1>1, <1>2, <1>4, <2>2, <2>3, RejectCounts DEF m, l
  <2>6. Counted(call.diag)'
    BY <2>4, <2>5 DEF Counted
  <2>7. e.failed < k /\ k <= e.total + 1 /\ 1 \in 1..MaxRetries
    BY <1>1, <1>2, <1>4, <2>3 DEF k, l
  <2> QED BY <1>1, <1>2, <2>3, <2>4, <2>5, <2>6, <2>7, ReplicateInv
<1> QED BY <1>6, <1>7

\* Behind the loop the count of the lost replicates is complete.
LEMMA EndReplicatesInv ==
  ASSUME IndInv, EndReplicates, UNCHANGED composite
  PROVE  IndInv'
<1>1. /\ pc = "replicate" /\ UNCHANGED <<gmm, caller>> /\ caller = "run"
      /\ pc \in Quantifying \ {"quantify"} /\ gmm.best # None /\ analysis \in Analyses
      /\ analysis.is_estimated /\ ~analysis.linked /\ IsBootstrap(analysis.uncertainty_method)
  BY DEF EndReplicates, IndInv, TypeOK, CallerInv, PlaceInv, RunOnly, Quantifying
<1>2. /\ call \in Calls /\ call.diag \in Diags /\ Counted(call.diag)
      /\ call.diag.retained = Unset /\ call.diag.transform = 0
      /\ call.diag.total = analysis.output_length
  BY <1>1, ReplicateFacts
<1>3. SameFit
  BY <1>1, UnchangedKeeps DEF IndInv
<1>4. CASE pc' = "factor" /\ UNCHANGED <<analysis, call>>
  <2>1. FitInv' /\ gmm' \in Gmms
    BY <1>3, <1>4, SameFitKeeps DEF IndInv, Estimating
  <2>2. TypeOK'
    BY <1>1, <1>4, <2>1 DEF IndInv, TypeOK, Pcs, RunOnly, Quantifying
  <2>3. CallerInv' /\ PlaceInv'
    BY <1>1, <1>4 DEF IndInv, CallerInv, PlaceInv, RunOnly, Quantifying, Estimating
  <2>4. ShownInv'
    BY <1>1, <1>4, ShownKept DEF Undisturbed
  <2>5. CountInv'
    BY <1>1, <1>2, <1>4 DEF IndInv, CountInv, Counted
  <2> QED BY <2>1, <2>2, <2>3, <2>4, <2>5 DEF IndInv
<1>5. CASE LET n == call.diag.total
           IN  /\ analysis' = Delivered([analysis EXCEPT !.bootstrap_results = call.diag], n, n)
               /\ pc' = "frequency" /\ call' = NoCall
  <2> DEFINE a == [analysis EXCEPT !.bootstrap_results = call.diag]
             n == call.diag.total
  <2>1. analysis' = Delivered(a, n, n) /\ Quantified /\ call' \in Calls /\ n \in Nat
    BY <1>1, <1>2, <1>5, NothingTyped DEF Quantified, Diags
  <2>2. /\ a \in Analyses /\ ~a.linked /\ a.bootstrap_results = call.diag
        /\ \A f \in {"uncertainty_method", "output_length", "is_estimated", "ensemble", "message",
                     "analysis_results", "distribution_cache", "driven", "returned"} :
             a[f] = analysis[f]
    BY <1>1, <1>2 DEF Analyses
  <2> HIDE DEF a
  <2> QED BY <1>1, <1>2, <1>3, <2>1, <2>2, DeliverInv
<1> QED BY <1>4, <1>5 DEF EndReplicates

LEMMA FactorFailsInv ==
  ASSUME IndInv, FactorFails, UNCHANGED composite
  PROVE  IndInv'
<1>1. pc \in Quantifying /\ Quantified /\ Abort("Pivot") /\ call' \in Calls /\ SameFit
  BY NothingTyped, UnchangedKeeps DEF FactorFails, IndInv, Quantifying
<1> QED BY <1>1, AbortInv DEF Messages

\* The slots that a pivotal run lost are those it did not retain.
LEMMA DrawPivotsInv ==
  ASSUME IndInv, DrawPivots, UNCHANGED composite
  PROVE  IndInv'
<1>1. /\ pc = "factor" /\ Quantified /\ UNCHANGED gmm /\ call' \in Calls
      /\ pc \in Quantifying \ {"quantify"} /\ analysis \in Analyses
      /\ ~analysis.linked /\ IsBootstrap(analysis.uncertainty_method)
      /\ call.diag \in Diags /\ Counted(call.diag) /\ call.diag.total = analysis.output_length
  BY NothingTyped DEF DrawPivots, IndInv, TypeOK, Calls, PlaceInv, CountInv, Quantifying
<1>2. SameFit
  BY <1>1, UnchangedKeeps DEF IndInv
<1>3. PICK k \in 0..call.diag.total :
        LET n    == call.diag.total - k
            diag == [call.diag EXCEPT !.transform = k, !.retained = n]
        IN  analysis' = Delivered([analysis EXCEPT !.bootstrap_results = diag], call.diag.total, n)
  BY DEF DrawPivots
<1> DEFINE n    == call.diag.total - k
           diag == [call.diag EXCEPT !.transform = k, !.retained = n]
           a    == [analysis EXCEPT !.bootstrap_results = diag]
<1>4. call.diag.total \in Nat /\ n \in Nat /\ k \in Nat /\ n + k = call.diag.total
  BY <1>1 DEF Diags
<1>5. analysis' = Delivered(a, call.diag.total, n)
  BY <1>3
<1>6. n = analysis.output_length => k = 0
  BY <1>1, <1>4
<1> HIDE DEF n
<1>7. /\ diag \in Diags /\ diag.total = call.diag.total /\ diag.transform = k /\ diag.retained = n
      /\ diag.failed = call.diag.failed /\ diag.retries = call.diag.retries
      /\ diag.mahalanobis = call.diag.mahalanobis
  BY <1>1, <1>4 DEF Diags
<1> HIDE DEF diag
<1>8. Counted(diag)
  BY <1>1, <1>4, <1>7 DEF Counted
<1>9. /\ a \in Analyses /\ ~a.linked /\ a.bootstrap_results = diag
      /\ \A f \in {"uncertainty_method", "output_length", "is_estimated", "ensemble", "message",
                   "analysis_results", "distribution_cache", "driven", "returned"} :
           a[f] = analysis[f]
  BY <1>1, <1>7 DEF Analyses
<1> HIDE DEF a
<1> QED BY <1>1, <1>2, <1>4, <1>5, <1>6, <1>7, <1>8, <1>9, DeliverInv

\* A bootstrap that could not publish its sets leaves its counts.
LEMMA PublishThrowsInv ==
  ASSUME IndInv, PublishThrows, UNCHANGED composite
  PROVE  IndInv'
<1>1. /\ pc \in {"replicate", "factor"} /\ Unwind /\ UNCHANGED gmm /\ call' \in Calls
      /\ caller = "run" /\ analysis \in Analyses /\ ~analysis.linked
      /\ IsBootstrap(analysis.uncertainty_method)
      /\ call.diag \in Diags /\ Counted(call.diag)
      /\ call.diag.retained = Unset /\ call.diag.transform = 0
      /\ analysis.driven = 0 /\ ~analysis.returned /\ analysis.ensemble = NoEnsemble
      /\ analysis.analysis_results = NoResults /\ analysis.distribution_cache = {}
  BY NothingTyped DEF PublishThrows, IndInv, TypeOK, Calls, CallerInv, PlaceInv, CountInv,
                      Quantifying, RunOnly
<1>2. SameFit /\ pc' = "idle" /\ caller' = "host"
  BY <1>1, UnchangedKeeps DEF IndInv, Unwind
<1>3. PICK retained \in {call.diag.total, Unset} :
        analysis' = [analysis EXCEPT !.bootstrap_results = [call.diag EXCEPT !.retained = retained]]
  BY DEF PublishThrows
<1> DEFINE diag == [call.diag EXCEPT !.retained = retained]
<1>4. /\ diag \in Diags /\ diag.total = call.diag.total /\ diag.transform = 0
      /\ diag.retained = retained /\ diag.failed = call.diag.failed
      /\ diag.retries = call.diag.retries /\ diag.mahalanobis = call.diag.mahalanobis
  BY <1>1, <1>3 DEF Diags
<1>5. analysis' = [analysis EXCEPT !.bootstrap_results = diag]
  BY <1>3
<1> HIDE DEF diag
<1>6. Counted(diag)
  <2>1. call.diag.total \in Nat
    BY <1>1 DEF Diags
  <2> QED BY <1>1, <1>3, <1>4, <2>1 DEF Counted
<1>7. /\ analysis' \in Analyses /\ analysis'.bootstrap_results = diag
      /\ \A f \in {"uncertainty_method", "output_length", "is_estimated", "ensemble", "message",
                   "bayesian_estimated", "analysis_results", "distribution_cache", "linked",
                   "driven", "returned"} : analysis'[f] = analysis[f]
  BY <1>1, <1>4, <1>5 DEF Analyses
<1>8. FitInv' /\ gmm' \in Gmms
  BY <1>2, SameFitKeeps DEF IndInv, Estimating
<1>9. TypeOK'
  BY <1>1, <1>2, <1>7, <1>8 DEF IndInv, TypeOK, Pcs
<1>10. CallerInv' /\ PlaceInv'
  BY <1>1, <1>2, <1>7 DEF CallerInv, PlaceInv, RunOnly, Quantifying, Estimating
<1>11. ShownInv'
  BY <1>1, <1>2, <1>7 DEF ShownInv
<1>12. CountInv'
  BY <1>1, <1>2, <1>6, <1>7 DEF CountInv
<1> QED BY <1>8, <1>9, <1>10, <1>11, <1>12 DEF IndInv

-----------------------------------------------------------------------------
(* The results. *)

\* Curves of the published ensemble, for the caller or for the update to come.
LEMMA ReportInv ==
  ASSUME IndInv, SameFit, pc \in {"frequency", "update"}, UNCHANGED <<call, composite>>,
         analysis' \in Analyses,
         \A f \in {"uncertainty_method", "output_length", "is_estimated", "ensemble", "message",
                   "bayesian_estimated", "bootstrap_results", "distribution_cache", "linked",
                   "driven"} : analysis'[f] = analysis[f],
         analysis.driven = 0 /\ analysis'.analysis_results # NoResults =>
           /\ analysis.ensemble # NoEnsemble
           /\ analysis'.analysis_results.intervals = gmm.best
           /\ analysis'.analysis_results.mode_curve \in Curves(gmm.best)
           /\ analysis'.returned \/ caller' = "run" =>
                analysis'.analysis_results.mode_curve # Unfinished("run")
           /\ analysis'.analysis_results.erl \in {None, gmm.best},
         \/ Unwind /\ (analysis'.returned => analysis.returned \/ caller = "run")
         \/ pc' = "update" /\ caller' = caller /\ analysis'.returned = analysis.returned
  PROVE  IndInv'
<1>1. pc' \in {"idle", "update"} /\ caller' \in {caller, "host"} /\ (pc' = "idle" => caller' = "host")
  BY DEF Unwind
<1>2. FitInv' /\ gmm' \in Gmms /\ gmm'.best = gmm.best
  BY <1>1, SameFitKeeps DEF IndInv, Estimating
<1>3. TypeOK'
  BY <1>1, <1>2 DEF IndInv, TypeOK, Pcs
<1>4. CallerInv' /\ PlaceInv'
  <2>1. ~analysis.linked
    BY DEF IndInv, PlaceInv
  <2>2. CASE pc' = "idle" /\ caller' = "host"
    BY <2>1, <2>2 DEF CallerInv, PlaceInv, RunOnly, Quantifying, Estimating
  <2>3. CASE pc' = "update" /\ caller' = caller /\ analysis'.returned = analysis.returned
    BY <2>1, <2>3 DEF IndInv, CallerInv, PlaceInv, RunOnly, Quantifying, Estimating
  <2> QED BY <2>2, <2>3 DEF Unwind
<1>5. analysis.driven = 0 /\ analysis'.returned /\ analysis.is_estimated => Exclusive
  BY <1>1 DEF IndInv, CallerInv, ShownInv
<1>6. caller = "run" => analysis.is_estimated /\ Exclusive
  BY DEF IndInv, ShownInv
<1>7. Exclusive' = Exclusive
  BY DEF Exclusive
<1>8. ShownInv'
  BY <1>1, <1>2, <1>5, <1>6, <1>7 DEF IndInv, ShownInv
<1>9. CountInv'
  BY <1>1 DEF IndInv, CountInv, Counted
<1> QED BY <1>2, <1>3, <1>4, <1>8, <1>9 DEF IndInv

\* What the curves of an undriven analysis are of.
LEMMA ReportFacts ==
  ASSUME IndInv
  PROVE  /\ analysis \in Analyses /\ analysis.ensemble \in Ensembles
         /\ analysis.ensemble.map \in Vectors /\ gmm.best \in Vectors
         /\ analysis.driven = 0 /\ analysis.ensemble # NoEnsemble => analysis.ensemble.map = gmm.best
         /\ analysis.driven = 0 /\ analysis.analysis_results # NoResults =>
              /\ analysis.ensemble # NoEnsemble
              /\ analysis.analysis_results.intervals = gmm.best
              /\ analysis.analysis_results.mode_curve \in Curves(gmm.best)
              /\ analysis.returned \/ caller = "run" =>
                   analysis.analysis_results.mode_curve # Unfinished("run")
              /\ analysis.analysis_results.erl \in {None, gmm.best}
<1>1. analysis \in Analyses /\ gmm \in Gmms
  BY DEF IndInv, TypeOK
<1>2. analysis.ensemble \in Ensembles /\ gmm.best \in Vectors
  BY <1>1 DEF Analyses, Gmms, Vectors
<1> QED BY <1>1, <1>2 DEF IndInv, ShownInv, Ensembles

\* A curve of the fit's point is a finished one.
LEMMA Finished ==
  ASSUME IndInv
  PROVE  gmm.best # Unfinished("run") /\ Unfinished("host") # Unfinished("run")
<1>1. gmm.best \in Points \cup {None, Elsewhere}
  BY ReportFacts DEF Vectors
<1> QED BY <1>1, CurveAssumption DEF Unfinished

\* A change of the results, and the return that may come with it.
LEMMA ResultsFacts ==
  ASSUME NEW a \in Analyses, NEW r \in Reports, NEW b \in BOOLEAN,
         analysis' = [a EXCEPT !.analysis_results = r, !.returned = b]
  PROVE  /\ analysis' \in Analyses /\ analysis'.analysis_results = r /\ analysis'.returned = b
         /\ \A f \in {"uncertainty_method", "output_length", "is_estimated", "ensemble", "message",
                      "bayesian_estimated", "bootstrap_results", "distribution_cache", "linked",
                      "driven"} : analysis'[f] = a[f]
BY DEF Analyses

LEMMA FinishFacts ==
  ASSUME NEW a \in Analyses, Finish(a)
  PROVE  \E b \in BOOLEAN : /\ analysis' = [a EXCEPT !.returned = b] /\ Unwind
                            /\ b => a.returned \/ caller = "run"
<1>1. CASE caller = "run"
  BY <1>1 DEF Finish, Returned
<1>2. CASE caller # "run"
  <2>1. a = [a EXCEPT !.returned = a.returned] /\ a.returned \in BOOLEAN
    BY DEF Analyses
  <2> QED BY <1>2, <2>1 DEF Finish
<1> QED BY <1>1, <1>2

LEMMA CreateFrequencyInv ==
  ASSUME IndInv, CreateFrequency, UNCHANGED composite
  PROVE  IndInv'
<1>1. pc = "frequency" /\ UNCHANGED <<gmm, call, composite>> /\ SameFit
  BY UnchangedKeeps DEF CreateFrequency, IndInv
<1>2. /\ analysis \in Analyses /\ analysis.returned \in BOOLEAN /\ analysis.ensemble.map \in Vectors
      /\ analysis.driven = 0 /\ analysis.ensemble # NoEnsemble => analysis.ensemble.map = gmm.best
  BY ReportFacts DEF Analyses
<1>3. CASE analysis.bayesian_estimated /\ analysis.ensemble # NoEnsemble
  <2> DEFINE r == [intervals |-> analysis.ensemble.map, mode_curve |-> analysis.ensemble.map,
                   erl |-> None]
  <2>1. /\ analysis' = [analysis EXCEPT !.analysis_results = r] /\ pc' = "update"
        /\ UNCHANGED caller
    BY <1>3 DEF CreateFrequency
  <2>2. r \in Reports /\ r.intervals = analysis.ensemble.map /\ r.mode_curve = analysis.ensemble.map
        /\ r.erl = None
    BY <1>2 DEF Reports, Vectors
  <2> HIDE DEF r
  <2>3. analysis' = [analysis EXCEPT !.analysis_results = r, !.returned = analysis.returned]
    BY <1>2, <2>1 DEF Analyses
  <2>4. /\ analysis' \in Analyses /\ analysis'.analysis_results = r
        /\ analysis'.returned = analysis.returned
        /\ \A f \in {"uncertainty_method", "output_length", "is_estimated", "ensemble", "message",
                     "bayesian_estimated", "bootstrap_results", "distribution_cache", "linked",
                     "driven"} : analysis'[f] = analysis[f]
    BY <1>2, <2>2, <2>3, ResultsFacts
  <2> QED BY <1>1, <1>2, <1>3, <2>1, <2>2, <2>4, ReportInv, Finished DEF Curves
<1>4. CASE Finish([analysis EXCEPT !.analysis_results = NoResults])
  <2> DEFINE a == [analysis EXCEPT !.analysis_results = NoResults]
  <2>1. a \in Analyses /\ a.returned = analysis.returned
    BY <1>2, NothingTyped DEF Analyses
  <2>2. PICK b \in BOOLEAN : /\ analysis' = [a EXCEPT !.returned = b] /\ Unwind
                             /\ b => a.returned \/ caller = "run"
    BY <1>4, <2>1, FinishFacts
  <2>3. analysis' = [analysis EXCEPT !.analysis_results = NoResults, !.returned = b]
    BY <2>2
  <2>4. /\ analysis' \in Analyses /\ analysis'.analysis_results = NoResults /\ analysis'.returned = b
        /\ \A f \in {"uncertainty_method", "output_length", "is_estimated", "ensemble", "message",
                     "bayesian_estimated", "bootstrap_results", "distribution_cache", "linked",
                     "driven"} : analysis'[f] = analysis[f]
    BY <1>2, <2>3, NothingTyped, ResultsFacts
  <2> HIDE DEF a
  <2> QED BY <1>1, <2>1, <2>2, <2>4, ReportInv
<1> QED BY <1>3, <1>4 DEF CreateFrequency

LEMMA FrequencyThrowsInv ==
  ASSUME IndInv, FrequencyThrows, UNCHANGED composite
  PROVE  IndInv'
<1>1. /\ pc = "frequency" /\ UNCHANGED <<gmm, call, composite>> /\ SameFit /\ Unwind
      /\ analysis' = [analysis EXCEPT !.analysis_results = NoResults]
  BY UnchangedKeeps DEF FrequencyThrows, IndInv
<1>2. analysis \in Analyses /\ analysis.returned \in BOOLEAN
  BY ReportFacts DEF Analyses
<1>3. analysis' = [analysis EXCEPT !.analysis_results = NoResults, !.returned = analysis.returned]
  BY <1>1, <1>2 DEF Analyses
<1>4. /\ analysis' \in Analyses /\ analysis'.analysis_results = NoResults
      /\ analysis'.returned = analysis.returned
      /\ \A f \in {"uncertainty_method", "output_length", "is_estimated", "ensemble", "message",
                   "bayesian_estimated", "bootstrap_results", "distribution_cache", "linked",
                   "driven"} : analysis'[f] = analysis[f]
  BY <1>2, <1>3, NothingTyped, ResultsFacts
<1> QED BY <1>1, <1>4, ReportInv

LEMMA UpdateInv ==
  ASSUME IndInv, UpdatePointEstimate, UNCHANGED composite
  PROVE  IndInv'
<1>1. pc = "update" /\ UNCHANGED <<call, composite>>
  BY DEF UpdatePointEstimate
<1>2. /\ analysis \in Analyses /\ analysis.analysis_results \in Reports
      /\ analysis.ensemble.map \in Vectors /\ gmm.best \in Vectors
      /\ analysis.driven = 0 /\ analysis.ensemble # NoEnsemble => analysis.ensemble.map = gmm.best
      /\ analysis.driven = 0 /\ analysis.analysis_results # NoResults =>
           /\ analysis.ensemble # NoEnsemble
           /\ analysis.analysis_results.intervals = gmm.best
           /\ analysis.analysis_results.mode_curve \in Curves(gmm.best)
           /\ analysis.returned \/ caller = "run" =>
                analysis.analysis_results.mode_curve # Unfinished("run")
           /\ analysis.analysis_results.erl \in {None, gmm.best}
  BY ReportFacts DEF Analyses
<1>3. CASE /\ HasAll /\ gmm' \in CovarianceAt(gmm, gmm.best)
           /\ Finish([analysis EXCEPT !.analysis_results.mode_curve = analysis.ensemble.map,
                                      !.analysis_results.erl = gmm.best])
  <2> DEFINE r == [analysis.analysis_results EXCEPT !.mode_curve = analysis.ensemble.map,
                                                    !.erl = gmm.best]
             a == [analysis EXCEPT !.analysis_results = r]
  <2>1. /\ r \in Reports /\ r.intervals = analysis.analysis_results.intervals
        /\ r.mode_curve = analysis.ensemble.map /\ r.erl = gmm.best
    BY <1>2 DEF Reports
  <2>2. a = [analysis EXCEPT !.analysis_results.mode_curve = analysis.ensemble.map,
                             !.analysis_results.erl = gmm.best]
    BY <1>2 DEF Analyses, Reports
  <2>3. Finish(a)
    <3> HIDE DEF a
    <3> QED BY <1>3, <2>2
  <2> HIDE DEF r
  <2>4. a \in Analyses /\ a.returned = analysis.returned
    BY <1>2, <2>1 DEF Analyses
  <2>5. PICK b \in BOOLEAN : /\ analysis' = [a EXCEPT !.returned = b] /\ Unwind
                             /\ b => a.returned \/ caller = "run"
    BY <2>3, <2>4, FinishFacts
  <2>6. analysis' = [analysis EXCEPT !.analysis_results = r, !.returned = b]
    BY <2>5
  <2>7. /\ analysis' \in Analyses /\ analysis'.analysis_results = r /\ analysis'.returned = b
        /\ \A f \in {"uncertainty_method", "output_length", "is_estimated", "ensemble", "message",
                     "bayesian_estimated", "bootstrap_results", "distribution_cache", "linked",
                     "driven"} : analysis'[f] = analysis[f]
    BY <1>2, <2>1, <2>6, ResultsFacts
  <2>8. SameFit
    BY <1>3, CovarianceKeeps DEF IndInv
  <2> HIDE DEF a
  <2> QED BY <1>1, <1>2, <1>3, <2>1, <2>4, <2>5, <2>7, <2>8, ReportInv, Finished DEF HasAll, Curves
<1>4. CASE Finish(analysis) /\ UNCHANGED gmm
  <2>1. PICK b \in BOOLEAN : /\ analysis' = [analysis EXCEPT !.returned = b] /\ Unwind
                             /\ b => analysis.returned \/ caller = "run"
    BY <1>2, <1>4, FinishFacts
  <2>2. analysis' = [analysis EXCEPT !.analysis_results = analysis.analysis_results, !.returned = b]
    BY <1>2, <2>1 DEF Analyses
  <2>3. /\ analysis' \in Analyses /\ analysis'.analysis_results = analysis.analysis_results
        /\ analysis'.returned = b
        /\ \A f \in {"uncertainty_method", "output_length", "is_estimated", "ensemble", "message",
                     "bayesian_estimated", "bootstrap_results", "distribution_cache", "linked",
                     "driven"} : analysis'[f] = analysis[f]
    BY <1>2, <2>2, ResultsFacts
  <2>4. SameFit
    BY <1>4, UnchangedKeeps DEF IndInv
  <2>5. caller' = "host"
    BY <2>1 DEF Unwind
  <2> QED BY <1>1, <1>2, <2>1, <2>3, <2>4, <2>5, ReportInv
<1> QED BY <1>3, <1>4 DEF UpdatePointEstimate

LEMMA UpdateThrowsInv ==
  ASSUME IndInv, UpdateThrows, UNCHANGED composite
  PROVE  IndInv'
<1>1. /\ pc = "update" /\ HasAll /\ Unwind /\ UNCHANGED <<call, composite>> /\ SameFit
  BY CovarianceKeeps DEF UpdateThrows, IndInv
<1>2. /\ analysis \in Analyses /\ analysis.analysis_results \in Reports /\ analysis.returned \in BOOLEAN
      /\ analysis.ensemble.map \in Vectors
      /\ analysis.driven = 0 /\ analysis.ensemble # NoEnsemble => analysis.ensemble.map = gmm.best
      /\ analysis.driven = 0 /\ analysis.analysis_results # NoResults =>
           /\ analysis.ensemble # NoEnsemble
           /\ analysis.analysis_results.intervals = gmm.best
           /\ analysis.analysis_results.mode_curve \in Curves(gmm.best)
           /\ analysis.returned \/ caller = "run" =>
                analysis.analysis_results.mode_curve # Unfinished("run")
           /\ analysis.analysis_results.erl \in {None, gmm.best}
  BY ReportFacts DEF Analyses
<1>3. PICK curve \in {analysis.analysis_results.mode_curve, analysis.ensemble.map,
                       Unfinished(caller)} :
        analysis' = [analysis EXCEPT !.analysis_results.mode_curve = curve]
  BY DEF UpdateThrows
<1> DEFINE r == [analysis.analysis_results EXCEPT !.mode_curve = curve]
<1>4. /\ r \in Reports /\ r.intervals = analysis.analysis_results.intervals
      /\ r.mode_curve = curve /\ r.erl = analysis.analysis_results.erl
  <2>1. caller \in {"host", "run"}
    BY DEF IndInv, TypeOK
  <2>2. curve \in Vectors \cup {Unfinished("host"), Unfinished("run")}
    BY <1>2, <1>3, <2>1 DEF Reports
  <2> QED BY <1>2, <2>2 DEF Reports
<1>5. analysis' = [analysis EXCEPT !.analysis_results = r, !.returned = analysis.returned]
  BY <1>2, <1>3 DEF Analyses, Reports
<1> HIDE DEF r
<1>6. /\ analysis' \in Analyses /\ analysis'.analysis_results = r
      /\ analysis'.returned = analysis.returned
      /\ \A f \in {"uncertainty_method", "output_length", "is_estimated", "ensemble", "message",
                   "bayesian_estimated", "bootstrap_results", "distribution_cache", "linked",
                   "driven"} : analysis'[f] = analysis[f]
  BY <1>2, <1>4, <1>5, ResultsFacts
<1>7. caller' = "host" /\ caller \in {"host", "run"} /\ (caller = "run" => ~analysis.returned)
  BY <1>1 DEF Unwind, IndInv, TypeOK, CallerInv
<1>8. analysis.driven = 0 /\ r # NoResults =>
        /\ curve \in Curves(gmm.best)
        /\ analysis'.returned \/ caller' = "run" => curve # Unfinished("run")
  BY <1>1, <1>2, <1>3, <1>6, <1>7, Finished DEF HasAll, Curves
<1> QED BY <1>1, <1>2, <1>4, <1>6, <1>8, ReportInv DEF HasAll

-----------------------------------------------------------------------------
(* The host's calls, and the composite's. *)

\* A call that leaves the fit and the sets alone, and hands out what they are of.
LEMMA HostInv ==
  ASSUME IndInv, pc = "idle", UNCHANGED <<gmm, caller, call>>, pc' \in {"idle", "undefined"},
         composite' \in [is_estimated : BOOLEAN, has_results : BOOLEAN], analysis' \in Analyses,
         \A f \in {"uncertainty_method", "is_estimated", "ensemble", "message",
                   "bayesian_estimated", "bootstrap_results", "linked", "driven", "returned"} :
           analysis'[f] = analysis[f],
         analysis'.analysis_results \in {NoResults, analysis.analysis_results},
         \A point \in analysis'.distribution_cache :
           \/ point \in analysis.distribution_cache
           \/ analysis.is_estimated /\ analysis.ensemble # NoEnsemble
              /\ point = analysis.ensemble.map
  PROVE  IndInv'
<1>1. caller = "host" /\ caller' = "host" /\ ~analysis.linked
  BY DEF IndInv, CallerInv, PlaceInv
<1>2. FitInv' /\ gmm' \in Gmms
  <2>1. SameFit
    BY UnchangedKeeps DEF IndInv
  <2> QED BY <2>1, SameFitKeeps DEF IndInv, Estimating
<1>3. TypeOK'
  BY <1>1, <1>2 DEF IndInv, TypeOK, Pcs
<1>4. CallerInv' /\ PlaceInv'
  BY <1>1 DEF CallerInv, PlaceInv, RunOnly, Quantifying, Estimating
<1>5. Exclusive' = Exclusive
  BY DEF Exclusive
<1>6. ShownInv'
  BY <1>1, <1>5 DEF IndInv, ShownInv
<1>7. CountInv'
  BY DEF IndInv, CountInv, Counted
<1> QED BY <1>2, <1>3, <1>4, <1>6, <1>7 DEF IndInv

LEMMA HandedFacts ==
  ASSUME IndInv, analysis' = Handed(analysis)
  PROVE  /\ analysis' \in Analyses
         /\ \A f \in {"uncertainty_method", "output_length", "is_estimated", "ensemble", "message",
                      "bayesian_estimated", "bootstrap_results", "analysis_results", "linked",
                      "driven", "returned"} : analysis'[f] = analysis[f]
         /\ analysis'.distribution_cache = analysis.distribution_cache \cup {analysis.ensemble.map}
<1>1. analysis \in Analyses /\ analysis.ensemble.map \in Vectors
  BY ReportFacts
<1> DEFINE c == analysis.distribution_cache \cup {analysis.ensemble.map}
<1>2. analysis' = [analysis EXCEPT !.distribution_cache = c] /\ c \in SUBSET Vectors
  BY <1>1 DEF Handed, Analyses
<1> HIDE DEF c
<1>3. /\ analysis' \in Analyses /\ analysis'.distribution_cache = c
      /\ \A f \in {"uncertainty_method", "output_length", "is_estimated", "ensemble", "message",
                   "bayesian_estimated", "bootstrap_results", "analysis_results", "linked",
                   "driven", "returned"} : analysis'[f] = analysis[f]
  BY <1>1, <1>2 DEF Analyses
<1> QED BY <1>3 DEF c

LEMMA HostCallsInv ==
  ASSUME IndInv, pc = "idle", SetOutputLength \/ ClearFrequency \/ GetDistribution,
         UNCHANGED composite
  PROVE  IndInv'
<1>1. /\ analysis \in Analyses /\ UNCHANGED <<gmm, pc, caller, call>>
      /\ composite' \in [is_estimated : BOOLEAN, has_results : BOOLEAN]
  BY DEF IndInv, TypeOK, SetOutputLength, ClearFrequency, GetDistribution
<1>2. CASE SetOutputLength
  <2>1. PICK n \in Lengths : analysis' = [analysis EXCEPT !.output_length = n]
    BY <1>2 DEF SetOutputLength
  <2>2. n \in Nat
    BY EnsembleAssumption
  <2>3. /\ analysis' \in Analyses
        /\ \A f \in {"uncertainty_method", "is_estimated", "ensemble", "message",
                     "bayesian_estimated", "bootstrap_results", "linked", "driven", "returned",
                     "analysis_results", "distribution_cache"} : analysis'[f] = analysis[f]
    BY <1>1, <2>1, <2>2 DEF Analyses
  <2> QED BY <1>1, <2>3, HostInv
<1>3. CASE ClearFrequency
  <2>1. /\ analysis' \in Analyses /\ analysis'.analysis_results = NoResults
        /\ \A f \in {"uncertainty_method", "is_estimated", "ensemble", "message",
                     "bayesian_estimated", "bootstrap_results", "linked", "driven", "returned",
                     "distribution_cache"} : analysis'[f] = analysis[f]
    BY <1>1, <1>3, NothingTyped DEF ClearFrequency, Analyses
  <2> QED BY <1>1, <2>1, HostInv
<1>4. CASE GetDistribution
  <2>1. /\ analysis.is_estimated /\ analysis.ensemble # NoEnsemble /\ analysis' = Handed(analysis)
    BY <1>4 DEF GetDistribution, HasFit
  <2> QED BY <1>1, <2>1, HandedFacts, HostInv
<1> QED BY <1>2, <1>3, <1>4

\* The host changes the fit behind the analysis: nothing is promised any more.
LEMMA DriveInv ==
  ASSUME IndInv, pc = "idle", UNCHANGED <<caller, call, composite>>,
         gmm' \in Gmms, FitInv', pc' \in {"idle", "pass"},
         analysis' \in Analyses, analysis'.driven >= 1,
         analysis'.uncertainty_method = analysis.uncertainty_method,
         analysis'.bootstrap_results = analysis.bootstrap_results,
         analysis'.linked = analysis.linked
  PROVE  IndInv'
<1>1. caller = "host" /\ caller' = "host" /\ ~analysis.linked
  BY DEF IndInv, CallerInv, PlaceInv
<1>2. analysis'.driven # 0
  BY DEF Analyses
<1>3. TypeOK'
  BY <1>1 DEF IndInv, TypeOK, Pcs, Estimating
<1>4. CallerInv' /\ PlaceInv'
  BY <1>1 DEF CallerInv, PlaceInv, RunOnly, Quantifying, Estimating
<1>5. ShownInv'
  BY <1>1, <1>2 DEF IndInv, ShownInv
<1>6. CountInv'
  BY <1>2 DEF IndInv, CountInv, Counted
<1> QED BY <1>3, <1>4, <1>5, <1>6 DEF IndInv

LEMMA DrivenFacts ==
  ASSUME NEW a \in Analyses
  PROVE  /\ Driven(a) \in Analyses /\ Driven(a).driven >= 1
         /\ Driven(a).uncertainty_method = a.uncertainty_method
         /\ Driven(a).bootstrap_results = a.bootstrap_results /\ Driven(a).linked = a.linked
         /\ Driven(a).bayesian_estimated = a.bayesian_estimated
<1> DEFINE n == a.driven + 1
<1>1. Driven(a) = [a EXCEPT !.driven = n] /\ n \in Nat /\ n >= 1
  BY DEF Driven, Analyses
<1> HIDE DEF n
<1> QED BY <1>1 DEF Analyses

LEMMA DriveGmmInv ==
  ASSUME IndInv, pc = "idle", DriveGmm, UNCHANGED composite
  PROVE  IndInv'
<1>1. /\ analysis \in Analyses /\ gmm \in Gmms /\ analysis' = Driven(analysis)
      /\ UNCHANGED <<caller, call>>
  BY DEF DriveGmm, IndInv, TypeOK
<1>2. /\ analysis' \in Analyses /\ analysis'.driven >= 1
      /\ analysis'.uncertainty_method = analysis.uncertainty_method
      /\ analysis'.bootstrap_results = analysis.bootstrap_results
      /\ analysis'.linked = analysis.linked
  BY <1>1, DrivenFacts
<1>3. CASE \E knobs \in Knobs : StartEstimate(gmm, knobs)
  <2>1. PICK knobs \in Knobs : gmm' = Restarted(gmm, knobs) /\ pc' = "pass"
    BY <1>3 DEF StartEstimate
  <2>2. /\ gmm' \in Gmms /\ ~gmm'.is_estimated /\ ~gmm'.converged /\ ~gmm'.sticky
        /\ gmm'.fallbacks = 0 /\ gmm'.passes = 1 /\ gmm'.history = 0
    BY <1>1, <2>1, RestartedFacts
  <2>3. FitInv'
    BY <2>1, <2>2 DEF FitInv, Estimating
  <2> QED BY <1>1, <1>2, <2>1, <2>2, <2>3, DriveInv
<1>4. CASE gmm' = NewGmm /\ UNCHANGED pc
  <2>1. gmm' \in Gmms /\ FitInv'
    BY <1>4, NewGmmTyped DEF FitInv, Estimating
  <2> QED BY <1>1, <1>2, <1>4, <2>1, DriveInv
<1> QED BY <1>3, <1>4 DEF DriveGmm

LEMMA DriveBayesianInv ==
  ASSUME IndInv, pc = "idle", DriveBayesian, UNCHANGED composite
  PROVE  IndInv'
<1>1. /\ analysis \in Analyses /\ analysis.bayesian_estimated \in BOOLEAN
      /\ UNCHANGED <<gmm, pc, caller, call>>
  BY DEF DriveBayesian, IndInv, TypeOK, Analyses
<1>2. PICK e \in Ensembles, b \in BOOLEAN :
        analysis' = [Driven(analysis) EXCEPT !.ensemble = e, !.bayesian_estimated = b]
  <2>1. CASE analysis' = [Driven(analysis) EXCEPT !.ensemble = NoEnsemble,
                                                  !.bayesian_estimated = FALSE]
    BY <2>1, NothingTyped
  <2>2. CASE \E n \in Lengths, estimated \in {analysis.bayesian_estimated, TRUE} :
               analysis' = [Driven(analysis) EXCEPT
                              !.ensemble = [map |-> Elsewhere, size |-> n, asked |-> n],
                              !.bayesian_estimated = estimated]
    <3>1. PICK n \in Lengths, estimated \in {analysis.bayesian_estimated, TRUE} :
            analysis' = [Driven(analysis) EXCEPT
                           !.ensemble = [map |-> Elsewhere, size |-> n, asked |-> n],
                           !.bayesian_estimated = estimated]
      BY <2>2
    <3>2. [map |-> Elsewhere, size |-> n, asked |-> n] \in Ensembles /\ estimated \in BOOLEAN
      BY <1>1, EnsembleAssumption DEF Ensembles, Vectors
    <3> QED BY <3>1, <3>2
  <2> QED BY <2>1, <2>2 DEF DriveBayesian
<1>3. /\ Driven(analysis) \in Analyses /\ Driven(analysis).driven >= 1
      /\ Driven(analysis).uncertainty_method = analysis.uncertainty_method
      /\ Driven(analysis).bootstrap_results = analysis.bootstrap_results
      /\ Driven(analysis).linked = analysis.linked
  BY <1>1, DrivenFacts
<1>4. /\ analysis' \in Analyses /\ analysis'.driven = Driven(analysis).driven
      /\ analysis'.uncertainty_method = Driven(analysis).uncertainty_method
      /\ analysis'.bootstrap_results = Driven(analysis).bootstrap_results
      /\ analysis'.linked = Driven(analysis).linked
  BY <1>2, <1>3 DEF Analyses
<1>5. gmm' \in Gmms /\ FitInv'
  BY <1>1 DEF IndInv, TypeOK, FitInv, Estimating
<1> QED BY <1>1, <1>3, <1>4, <1>5, DriveInv

\* The composite keeps clones of what it reads of its child.
LEMMA CompositeInv ==
  ASSUME IndInv, CompositeRun \/ CompositeThrows \/ CompositeReprocess \/ CompositeClear
  PROVE  IndInv'
<1> DEFINE Composites == [is_estimated : BOOLEAN, has_results : BOOLEAN]
<1>1. /\ pc = "idle" /\ UNCHANGED <<gmm, caller, call>> /\ pc' \in {"idle", "undefined"}
      /\ analysis \in Analyses /\ composite \in Composites
  BY DEF CompositeRun, CompositeThrows, CompositeReprocess, CompositeClear, CreateComposite,
         analysisVars, IndInv, TypeOK
<1>2. composite' \in Composites
  <2>1. /\ NoComposite \in Composites
        /\ [is_estimated |-> TRUE, has_results |-> FALSE] \in Composites
    BY DEF NoComposite
  <2>2. ASSUME NEW c \in Composites, CreateComposite(c)
        PROVE  composite' \in Composites
    BY <2>2 DEF CreateComposite
  <2> QED BY <1>1, <2>1, <2>2
          DEF CompositeRun, CompositeThrows, CompositeReprocess, CompositeClear
<1>3. \/ UNCHANGED analysis
      \/ analysis' = Handed(analysis) /\ analysis.is_estimated /\ analysis.ensemble # NoEnsemble
  BY DEF CompositeRun, CompositeThrows, CompositeReprocess, CompositeClear, CreateComposite,
         ChildHasPoint, HasFit, analysisVars
<1> HIDE DEF Composites
<1>4. CASE UNCHANGED analysis
  BY <1>1, <1>2, <1>4, HostInv DEF Composites
<1>5. CASE analysis' = Handed(analysis) /\ analysis.is_estimated /\ analysis.ensemble # NoEnsemble
  BY <1>1, <1>2, <1>5, HandedFacts, HostInv DEF Composites
<1> QED BY <1>3, <1>4, <1>5

-----------------------------------------------------------------------------
(* The theorems. *)

LEMMA NextInv == IndInv /\ [Next]_vars => IndInv'
<1> SUFFICES ASSUME IndInv, [Next]_vars PROVE IndInv'
  OBVIOUS
<1>1. CASE UNCHANGED vars
  BY <1>1 DEF vars, analysisVars, IndInv, TypeOK, FitInv, CallerInv, PlaceInv, ShownInv, CountInv,
              Exclusive, Counted
<1>2. CASE Host /\ UNCHANGED composite
  BY <1>2, ClearingInv, QuietStepsInv, HostCallsInv, DriveGmmInv, DriveBayesianInv DEF Host
<1>3. CASE (Estimation \/ WeighThrows) /\ UNCHANGED <<analysis, call, composite>>
  BY <1>3, EstimationInv
<1>4. CASE (Prepare \/ PrepareThrows \/ Decide) /\ UNCHANGED composite
  BY <1>4, PrepareInv, QuietStepsInv, DecideInv
<1>5. CASE Quantification /\ UNCHANGED composite
  BY <1>5, QuietStepsInv, MultivariateNormalInv, LinkStepsInv, DrawLinkedInv, StartBootstrapInv,
     AcceptInv, RejectInv, EndReplicatesInv, FactorFailsInv, DrawPivotsInv,
     PublishThrowsInv DEF Quantification
<1>6. CASE Reporting /\ UNCHANGED composite
  BY <1>6, CreateFrequencyInv, FrequencyThrowsInv, UpdateInv, UpdateThrowsInv DEF Reporting
<1>7. CASE CompositeRun \/ CompositeThrows \/ CompositeReprocess \/ CompositeClear
  BY <1>7, CompositeInv
<1> QED BY <1>1, <1>2, <1>3, <1>4, <1>5, <1>6, <1>7 DEF Next, AnalysisNext

\* What holds at every step of every call (bulletin17c_analysis.hpp, run(), and
\* generalized_method_of_moments.hpp, estimate()).
THEOREM Invariant == Spec => []IndInv
BY Initially, NextInv, PTL DEF Spec

\* Every state is one of the types above.
THEOREM Typed == Spec => []TypeOK
<1>1. IndInv => TypeOK
  BY DEF IndInv
<1> QED BY <1>1, Invariant, PTL

\* An estimator that claims a fit has one, and one that claims it converged was weighed
\* at it after each of its passes (generalized_method_of_moments.hpp, estimate()).
THEOREM WholeFit == Spec => []FitIsWhole
<1>1. IndInv => FitIsWhole
  BY DEF IndInv, FitInv, FitIsWhole
<1> QED BY <1>1, Invariant, PTL

\* Sets, curves and clones are of the one fit the estimator holds
\* (bulletin17c_analysis.hpp, create_frequency_analysis_results() and
\* update_point_estimate_results()).
THEOREM OneFitShown == Spec => []ShownOfOneFit
<1>1. IndInv => ShownOfOneFit
  BY DEF IndInv, PlaceInv, ShownInv, ShownOfOneFit, Curves
<1> QED BY <1>1, Invariant, PTL

\* A run that returned published an ensemble or a reason
\* (bulletin17c_analysis.hpp, run_uncertainty_quantification()).
THEOREM EnsembleOrReason == Spec => []MessageExplains
<1>1. IndInv => MessageExplains
  BY DEF IndInv, ShownInv, Exclusive, MessageExplains
<1> QED BY <1>1, Invariant, PTL

\* The diagnostics of a bootstrap add up (bulletin17c_analysis.hpp, the loops of
\* bootstrap() and bias_corrected_bootstrap()).
THEOREM CountsAddUp == Spec => []ReplicatesAccounted
<1>1. IndInv => ReplicatesAccounted
  BY DEF IndInv, CountInv, Counted, ReplicatesAccounted
<1> QED BY <1>1, Invariant, PTL

\* A composite of an untouched child reads past the child's ensemble only behind one of
\* the two normal methods, and becomes estimated with results
\* (composite_analysis.hpp, run() and create_frequency_analysis_results()).
THEOREM ChildIsRead == Spec => CompositeReadsChild
<1> DEFINE Reads ==
      /\ pc = "idle" /\ pc' = "undefined" /\ ChildUntouched =>
           ~IsBootstrap(analysis.uncertainty_method)
      /\ ~composite.is_estimated /\ composite'.is_estimated /\ analysis.driven = 0 =>
           composite'.has_results
<1>1. IndInv /\ [Next]_vars => [Reads]_vars
  <2> SUFFICES ASSUME IndInv, Next PROVE Reads
    OBVIOUS
  <2>1. pc = "idle" /\ pc' = "undefined" => Overrun
    <3>1. ASSUME AnalysisNext, pc = "idle" PROVE pc' # "undefined"
      BY <3>1 DEF AnalysisNext, Host, Run, SetUncertaintyMethod, SetOutputLength, ClearAnalysis,
         ClearFrequency, Reprocess, GetDistribution, CohnIntervals, DriveGmm, DriveBayesian,
         StartEstimate, Estimation, Pass, WeighTwoStep, WeighConverged, WeighIterative,
         WeighThrows, Prepare, PrepareThrows, Decide, Quantification, Quantify, QuantifyThrows,
         MultivariateNormal, MultivariateNormalThrows, InstallLinks, DrawLinked, LinkedThrows,
         StartBootstrap, BootstrapThrows, AcceptReplicate, RejectReplicate, EndReplicates,
         FactorFails, DrawPivots, PublishThrows, Reporting, CreateFrequency, FrequencyThrows,
         UpdatePointEstimate, UpdateThrows
    <3>2. CASE AnalysisNext
      BY <3>1, <3>2
    <3>3. CASE CompositeRun \/ CompositeThrows \/ CompositeReprocess \/ CompositeClear
      BY <3>3 DEF CompositeRun, CompositeThrows, CompositeReprocess, CompositeClear,
                  CreateComposite, analysisVars
    <3> QED BY <3>2, <3>3 DEF Next
  <2>2. ASSUME Overrun, ChildUntouched PROVE ~IsBootstrap(analysis.uncertainty_method)
    <3>1. /\ analysis.ensemble # NoEnsemble /\ analysis.driven = 0
          /\ analysis.output_length = analysis.ensemble.asked
          /\ analysis.output_length > analysis.ensemble.size
      BY <2>2 DEF Overrun, ChildUntouched, ChildHasPoint, HasFit
    <3>2. analysis.ensemble.size \in Nat /\ analysis.output_length \in Nat
      BY ReportFacts DEF Ensembles, Analyses
    <3>3. IsBootstrap(analysis.uncertainty_method) => analysis.ensemble.size = analysis.ensemble.asked
      BY <3>1 DEF IndInv, CountInv
    <3> QED BY <3>1, <3>2, <3>3
  <2>3. ASSUME ~composite.is_estimated, composite'.is_estimated, analysis.driven = 0
        PROVE  composite'.has_results
    <3>1. CASE CompositeRun
      <4>1. ChildHasPoint
        BY <2>3, <3>1 DEF CompositeRun, ChildIsFit, ChildHasPoint, HasFit, IndInv, ShownInv
      <4> QED BY <3>1, <4>1 DEF CompositeRun, CreateComposite
    <3>2. CASE CompositeReprocess
      <4>1. composite \in [is_estimated : BOOLEAN, has_results : BOOLEAN]
        BY DEF IndInv, TypeOK
      <4>2. composite'.is_estimated = composite.is_estimated
        BY <3>2, <4>1 DEF CompositeReprocess, CreateComposite
      <4> QED BY <2>3, <4>2
    <3>3. CASE CompositeThrows \/ CompositeClear
      <4>1. composite \in [is_estimated : BOOLEAN, has_results : BOOLEAN]
        BY DEF IndInv, TypeOK
      <4>2. ~composite'.is_estimated
        BY <2>3, <3>3, <4>1 DEF CompositeThrows, CompositeClear, NoComposite
      <4> QED BY <2>3, <4>2
    <3>4. CASE UNCHANGED composite
      BY <2>3, <3>4
    <3> QED BY <3>1, <3>2, <3>3, <3>4 DEF Next
  <2> QED BY <2>1, <2>2, <2>3
<1>2. Spec => [][Reads]_vars
  <2> HIDE DEF Reads
  <2> QED BY <1>1, Invariant, PTL DEF Spec
<1> QED BY <1>2 DEF CompositeReadsChild

=============================================================================
