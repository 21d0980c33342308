# corehydro: specifications, model checking and proofs

corehydro is a C++17 header library for flood-frequency statistics (a port of the
C# libraries Numerics and RMC-BestFit) with R and Python front ends. Most of it is
closed-form or iterative floating-point code, for which the repository keeps numeric
oracle fixtures. This directory is about the rest: the code that has *protocol* —
objects whose methods may be called in any order, loops that a host exception leaves
half done, arrays that must describe the same thing, callbacks that cross a language
boundary — which fixtures hardly reach.

Paths below are relative to `src/core/include/corehydro/`.

Contents: [1 Inventory](#1-inventory) · [2 Plan](#2-plan) ·
[3 Modules and the code](#3-modules-and-the-code) · [4 Runs](#4-runs) ·
[5 Disagreements found](#5-disagreements-found) · [6 Proofs](#6-proofs) ·
[7 What is not modelled](#7-what-is-not-modelled)

## 1 Inventory

The library is single-threaded (the parallel machinery of the C# originals was
dropped). What interleaves is a *host* — R or Python code, or another part of the
library — with objects that keep state between calls, and, inside one call, the
library's loops with host callbacks that may throw anywhere.

| Component | State it keeps | Operations | Interacts with | Hard behaviour | What makes it correct |
|---|---|---|---|---|---|
| **MCMC sampler base** `numerics/sampling/mcmc/base/mcmc_sampler.hpp` | settings, seed store, recorded chains, output, counters, `map_`, population matrix, `chain_states_` | input setters (each resets), plain fields, `seed_population/chain`, `clear_seed`, `sample()` | subclasses (`chain_iteration`), priors, optimiser (MAP start), likelihood closure | any order of calls; resumed and restarted `sample()`; a likelihood that throws out of any loop | vectors keep one entry per chain; output budget dealt out exactly; means, counts and histories account for each other; `map()` dominates the output |
| **RWMH** `mcmc/rwmh.hpp` | Cholesky factor | `chain_iteration` | base | counted, then evaluated, then maybe thrown | rates are rates |
| **ARWMH** `mcmc/arwmh.hpp` | running covariance per chain | `initialize_custom_settings`, `chain_iteration` | base | two counters reset by different operations | learned covariance used only when defined |
| **DEMCzs** `mcmc/demczs.hpp` | (base's) population and histories | parallel and snooker update | base | unchecked indexing across chains | what a proposal reads exists |
| **DEMCz** `mcmc/demcz.hpp` | as DEMCzs | parallel update with a guard | base | guard throws in the loop | as DEMCzs |
| **HMC, NUTS** `mcmc/hmc.hpp`, `nuts.hpp` | step size, mass matrix, dual-averaging state per chain | adaptation, trajectories | base, gradient | warm-up counters across restarted calls | adaptation ends with warm-up |
| **Gibbs, SNIS** `mcmc/gibbs.hpp`, `snis.hpp` | (base's) | `chain_iteration`; own `sample()` | base | SNIS initialises before it validates | failed call leaves the last result |
| **MCMC results, diagnostics** `mcmc/support/` | a finished result | statistics of chains | base | chains of unequal length | common length |
| **Indexed heap** `numerics/math/optimization/dynamic/indexed_min_heap.hpp` | weights, nodes, positions, count | `add`, `remove_min`, `decrease_key`, `clear` | Dijkstra, Network | stale positions, hole during sift | it is a priority queue with exact capacity |
| **Dijkstra** `dynamic/dijkstra.hpp` | distance, next, edge and state vectors; result table | `solve_nearest`, `solve`, `get_path` | heap, Network | ties, float absorption, merged tables | cheapest costs; every route arrives |
| **Network** `dynamic/network.hpp` | adjacency, destination flags (all const) | `solve`, `get_path` with removed edges | Dijkstra, heap; the caller keeps the table | detour beside a recorded, maybe stale, table | a path avoids the removed edges; a detour is cheapest |
| **Callback guard, generator handle** `numerics/support/callback_guard.hpp`, `rng_handle.hpp` | shared abort latch, call counter; borrow flag | guarded call, rethrow; borrow, expire | drive sites, host | nested runs, several guards, swallowed exceptions, outliving handles | host silent after throw; its exception, never a sentinel's result |
| **Callback drive sites** `numerics/support/callback/*.hpp`, `optimizer_runner.hpp` | one run's frame | `run_mcmc`, `run_gmm`, `run_optimizer`, `run_bootstrap`, ... | guards, algorithms | the order of `catch`, rethrow, post-processing | as the guard |
| **Bayesian analysis** `estimation/bayesian_analysis.hpp` | sampler, results, information criteria, `is_estimated_` | knob setters, `estimate`, injected results, `clear_results` | MCMC, models | an `estimate` that throws half way | criteria belong to the results shown with them |
| **Maximum likelihood** `estimation/maximum_*.hpp` | method, optimiser, switches, last fit | setters, `estimate`, criteria | optimisers, which a caller reaches too | failed or abandoned fit after a good one | everything shown is of the last fit and its optimiser |
| **Method of moments** `estimation/generalized_method_of_moments.hpp` | knobs, best point, S and W, sticky fallback, flags, pass count and history | setters, `estimate` (three strategies), `get_covariance`, `clear_results` | optimisers; the analysis that owns it | a pass that fails in mid-strategy, matrices rewritten by a covariance | what it says of its fit is of that fit |
| **Optimisers, root finders** `numerics/math/optimization/` | incumbent, counters, budget, status | `minimize`/`maximize` | objective; global ones run local ones over their own `evaluate` | budget spent inside a nested loop, exceptions swallowed half-way | budget respected, incumbent the best, status tells what happened |
| **Bootstrap** `numerics/sampling/bootstrap/bootstrap.hpp` | ensemble, statistics, flags, counts, kind of the last run | four kinds of run, the pivotal transform, intervals | caller's fit, statistic, filter and transform | attempts that throw half-way; members kept from the run before | a row is of one attempt; a result is of one run |
| **Stratified, quasi-random sampling** `numerics/sampling/` | stream position | draws | everything | none | numeric oracle fixtures |
| **Distributions, copulas, special functions** | parameters, validity flag | set parameters, pdf/cdf/quantile | everything | numeric | oracle fixtures |
| **Data frames, time series, paired data** `models/data_frame/`, `numerics/data/` | ordered collections, order flags | insert, remove, sort | models | order flag after each edit | flag true implies order |
| **Univariate frequency analysis** `analyses/univariate/univariate_analysis.hpp` | frequency and chronology results, chronology parent, handed-out distributions, `is_estimated_` | `run`, `clear_results`, three reprocessing methods, `get_distribution` | the Bayesian analysis and the model it owns; the host reaches both by reference | a `run` that throws between two of its parts; reprocessing with other knobs | everything shown is of one fit; estimated means backed by one |
| **Bulletin 17C analysis** `analyses/univariate/bulletin17c_analysis.hpp` | GMM estimator, borrowed Bayesian results, curves, diagnostics, message, handed-out distributions, temporary links | `run`, setters, two reprocessing methods, Cohn intervals | GMM; a Bayesian analysis used as a store; the host reaches both | four ways to draw an ensemble, each with ways to give up; retries of replicates | one fit throughout; an ensemble or the reason why not |
| **Composite analysis** `analyses/univariate/composite_analysis.hpp` | its curves and flag | `run`, reprocess, clear | children the host goes on using | a child that changed, or whose ensemble is short | it reads what its child has |
| **Other hydrologic models and analyses** `models/`, `analyses/` | cached fits | run, reprocess | all of the above | stale cache | as the univariate analysis |
| **Python, R bindings** | handles of the objects above | argument conversion | host | exception translation | callback guard |

How they interact in the part that is modelled:

```
  host (R / Python)                                    host
    | setters, sample()                                  | callback throws
    v                                                    v
  MCMCSampler <--- chain_iteration --- ARWMH, DEMCzs   guard -> latch -> drive site
    ^                                                    ^
    '------- log-likelihood = a guarded callback --------'

  run(), reprocessing --> UnivariateAnalysis --> BayesianAnalysis --> sample() of an MCMCSampler

  run(), reprocessing --> CompositeAnalysis --> Bulletin17CAnalysis --> GeneralizedMethodOfMoments
                                 host ------------^----------------------^

  caller --> Network.get_path(table, removed edges) --> recorded path | detour search --.
                ^ table                                                                 |
  caller --> solve_nearest / solve (merged) --> search --> IndexedMinHeap <-------------'
                                                          (implements MinQueue)

  caller --> MaximumLikelihood --> DifferentialEvolution | Brent --> objective (may throw)
                                        |
                                    Optimizer (budget, incumbent, status)
                                        |
  caller --> MultiStart | MLSL --> BFGS | NelderMead | Powell --> evaluate() of the outer one

  caller --> Bootstrap: regular | double | studentized | pivotal --> caller's callbacks
```

The likelihood that `MCMCSampler` lets throw anywhere is, in a run started from R or
Python, a guard that does *not* throw but returns a sentinel; a C++ user's closure, or
ported code reacting to the sentinel, does throw. Both worlds are covered: the sampler
with a closure that throws, the guard with an algorithm that may do anything.

The hazards of the code, each at its line and with the properties that would catch it,
are the `hazards` of `PROJECT.json`.

## 2 Plan

Done, in this order (the most stateful core first, then the exact data structures,
then the language boundary, then the solvers and the analyses over them):

1. `MCMCSampler` — the base class with Metropolis steps; `MCMCSamplerProofs`.
2. `ARWMH`, `DEMCzs` — extensions of it, one per subclass with state or indexing of its own;
   their theorems are in `MCMCSamplerProofs` too.
3. `MinQueue` (abstract), `IndexedMinHeap` (detailed).
4. `Dijkstra`, composed with `MinQueue` rather than the heap, which the refinement
   justifies; `Network`, a caller that keeps tables and asks for detours; `ShortestPathProofs` for
   the heap with its refinement, the search, the merge and the queries.
5. `CallbackRuns` with `CallbackRunsProofs`.
6. `BayesianAnalysis`, over a sampler that completes or throws, and `UnivariateAnalysis`, which
   composes it with its owner; `UnivariateAnalysisProofs`.
7. `Optimizer` (what all optimisers inherit), `LocalSearch` and `GlobalSearch` (a search inside a search); `GlobalSearchProofs`.
8. `DifferentialEvolution`, `MaximumLikelihood` over it; `MaximumLikelihoodProofs`.
9. `Bootstrap` with `BootstrapProofs`.
10. `GeneralizedMethodOfMoments`, `Bulletin17CAnalysis` over it, `CompositeAnalysis` over that: one composition, checked whole;
    `CompositeAnalysisProofs`.

Next, in this order: `DEMCz` and `SNIS` as variants beside `DEMCzs` (a guard that throws; initialise before
validate); `MixtureAnalysis` over `BayesianAnalysis`
(`estimate(false)` with a sampler it seeded); HMC/NUTS adaptation counters; order flags of the data collections.

Theorems still worth proving: every safety, action and refinement property of a run has one. What is left is the part of the
liveness properties `SampleReturns` and `MinimizeReturns` that is not fairness (a measure that decreases; `SiftsMoveOn` and
`SearchesMoveOn` are that part of the other two), and that `UnivariateAnalysis` stays within `BayesianAnalysis` alone.

## 3 Modules and the code

Every definition's lines are in the `map` of `PROJECT.json`. Definitions keep the code's
names (`sample_count`, `markov_chains`, `remove_min` as `RemoveMin`, ...). Definitions
marked `Mutant:` are not part of the specifications; each is the definition that
follows it with a plausible bug, and a property that must notice.

### MCMCSampler (extended by ARWMH, DEMCzs)

One sampler object and its host. The *inputs* are the record `settings` (inputs whose setter
resets) and three plain fields; the *outputs* are what `reset()` clears; `chain_states`
is neither — no reset clears it, which is what makes resumed calls delicate. The running
call is a frame (`pc`, loop counters, locals):

| Code | Actions |
|---|---|
| `set_*` → `reset()` (101-145, 415-431) | `SetInput` |
| plain fields (176-183) | `AssignField` |
| seed store (186-229) | `SeedPopulation`, `SeedChain`, `ClearSeed` |
| `sample()`: validate, resume or initialise (306-316) | `Sample` (a call with invalid settings throws before it writes) |
| `initialize_chains` (442-565) | `InitializeUserDefined`; `MaximizeFails` / `MaximizeSucceeds`, `MvnDraw`, `MvnFails`; `StartRandomize`, `RandomDraw`, `DrawThrows` |
| `initialize_custom_settings` | `InitializeCustomSettings`, `CustomSettingsThrow` |
| `sample_chain` × `chain_iteration` (567-574; `rwmh.hpp` 80-115) | `ChainIteration` (one thinning step), `LikelihoodThrows` |
| "Record output" (324-357) | `Record`, one chain at a time |
| end of `sample()` | `Finish` |

Data: a parameter set is its fitness (`NegInf` is -∞), a recorded chain its length and last
state, an output list its length and best state, the population matrix its length, an entry
of `mean_log_likelihood_` the number of terms added into it. Random draws are nondeterminism:
any new fitness may be proposed, and accepted or not, as `log u <= ratio` allows.

`pc = "undefined"` is the state after undefined behaviour (`back()` of an empty vector).

### ARWMH, DEMCzs

Each conjoins its own reads and writes with the base's actions. `ARWMH` adds `sigma_n`, the
number of states in each chain's running covariance, beside the base's `sample_count`, and
`CovarianceThrows` for a covariance over fewer than two states. `DEMCzs` replaces
`ChainIteration` by `ParallelUpdate` and `SnookerUpdate`, which state what they read; reading
what is not there leads to `"undefined"`.

### MinQueue, IndexedMinHeap

`MinQueue` is a set of nodes with one weight each; `QRemoveMin` takes any lightest one.
`IndexedMinHeap` has the three arrays and the count, and one action per *iteration* of a sift
loop: while a loop runs an entry is "in hand" and the slot it left is a hole with stale
contents. The refinement mapping reads the queue off the held slots plus the entry in hand, so
that every loop iteration is a stutter and each operation takes effect where it starts.

### Dijkstra, Network, NetworkMC

`Take` is one `remove_min` and the settling of the node, `Relax` one incoming edge, in edge-list
order; `NextDestination`, `Exhausted` and `MergeDone` are the loop of `solve_merged_core` (`solve`);
`Return` hands the table out. `rows` is `next`, `edge_indexes` and `dist` in one; `table` is the
`best_*` vectors. Costs are natural numbers with float addition: above `Precision` a sum is rounded
down to a multiple of two, so that a weight can be absorbed, as in single precision.
`try_get_path` is `Hops`.

`Network` adds the caller that keeps a table (`kept`, with the weights and destinations it was solved for) and
asks for paths. `GetPath` is the overload with a table — empty path, recorded path, or detour — and `GetDetour`
the one without. `TakeForward` and `RelaxForward` are `find_detour_path`, over the same queue;
`RouteTo` is the walk back from the goal. `Forget` only ends the caller's interest in an answer.

### CallbackRuns

A stack of runs, innermost at `depth`; `via` says whether a run's algorithm executes or which of
its callbacks the host is in. The algorithm between guard and drive site is arbitrary ported
code: any guard in any order, `AlgorithmThrows`, `AlgorithmReturns`. The three drive-site
shapes are the `Methods`: `sample` (one guarded stage: `callback/mcmc.hpp`, bootstrap, math, most
optimisers), `fit` (`callback/gmm.hpp`: an unguarded probe, then two guarded stages, the second of
which swallows), `nelder_mead` (`optimizer_runner.hpp`: an unguarded evaluation of the optimum after
the rethrow). A host function may start an inner run and catch (`HostCatches`) or pass on
(`HostPropagates`) what it throws. `threw`, `first` and `poisoned` record what happened and are read
by no action's guard that models the code.

### BayesianAnalysis, UnivariateAnalysis

`BayesianAnalysis` has the estimator's state and one action per operation; `estimate()` is cut where
the likelihood may throw: `EstimateBody` up to the cleared results, `BuildResults` (sampling and
`MCMCResults`), then `ComputeDic`, `ComputeWaic`, `ComputeLoo`, with `SamplingThrows` and `CriteriaThrow`
beside them. An injection (`Inject`) enters the same criteria steps, or skips them. It is a component
without a specification of its own: `UnivariateAnalysis` composes it with the analysis that owns it
(`caller` says whose call `estimate` is).

| Code (`univariate_analysis.hpp`) | Actions |
|---|---|
| `clear_results` (132-139) | `ClearAnalysis`, also the start of `run` |
| `run` (150-177) | `Run`, `PrepareData` / `PrepareThrows`, the estimator's steps, `PostProcess`, `CreateFrequency`, `UpdatePointEstimate`, `CreateChronology` (each with its `...Throws`), `MirrorFit` |
| reprocessing methods called by the host | `Reprocess`, then the same actions |
| `get_distribution`, `get_point_estimate_distribution` | `GetDistribution` |
| `bayesian_analysis()` | `Drive`: the host estimates, injects or clears behind the analysis; `SetKnobs`, `Rebuild`, `Recompute` |

Data: a fit is a number and the length of its output, and a criterion, curve, interval or parameter
vector is the number of the fit it was computed from, so that "of one fit" is equality. The sampler
is the output length it was built with; that a completed `sample()` delivers exactly that many states
is `OutputComplete` of `MCMCSampler`. `driven` (the host changed the fit behind the analysis) and
`unchecked` (results were injected and their criteria not computed) are history: no guard reads them, and
the properties use them to name the cases in which nothing is promised. `update_point_estimate_results` first assigns zeros to the
mode curve and then computes it point by point, each of which may throw (line 300): such a curve is `Unfinished`, with the
call it was left by (`host` or `run`) as history. `Bulletin17CAnalysis` has the same (line 2286).

### Optimizer, LocalSearch, GlobalSearch

`Optimizer` has no variables: it is the state of `support/optimizer.hpp` as a record, and `evaluate()`,
`validate()` and `update_status()` as operators on it, so that two optimisers can be two records. A point
is its fitness (`NaN`, finite, or infinite, with the comparisons floats have) and the evaluation that made it.

`GlobalSearch` is `minimize()` of MultiStart or MLSL (`outer`), `LocalSearch` the search it builds (`local`):
each evaluation of the local one is an evaluation of the outer one, counted twice against two budgets, and may be
ended by either. The hard part is which exceptions reach whom: a spent outer budget throws through the local
search if failures are reported, a finite difference (`numerical_derivative.hpp`) swallows it in a probe but not at its base
point, a local search swallows its own budget, and a genuine failure unwinds both.

| Code | Actions |
|---|---|
| `get_local_optimizer`, `validate()` of what it built | `StartLocal` |
| evaluations of BFGS, Nelder-Mead, Powell; `gradient`, `hessian` | `Begin`, `Search`, `Base`, `Probe`, `Differentiated` |
| how a local search ends | `Converges`, `LineSearchFails`, `GivesUp`, `ObjectiveThrows` |
| `multi_start.hpp` | `StartMultiStart`, `StartReturned`, `PolishMultiStart`, `LoopEnds`, `PolishReturned` |
| `mlsl.hpp` | `InitialPoint`, `InitialReturned`, `SamplePoint`, `Reduce`, `PointSkipped`, `StartPoint`, `PointReturned`, `GoOn`, `StopRule` |

### DifferentialEvolution, MaximumLikelihood

`DifferentialEvolution` is `optimize()` of that class (`Populate`, `Generation`, `Trial`, `Converged`); `Stop` and
`Fails` are what the base class's `maximize()` makes of its ends. `MaximumLikelihood` is the estimator: `method`
and `built` are separate because `set_optimizer_method` assigns the first before it can throw; the caller may set the
optimiser's budget and switches between estimates. `estimate()` is cut where something may throw: `Estimate`, the
search, then `Accept` / `Reject` / `Caught` / `Escapes` (an exception that is not a `std::exception` passes through),
`Hessian` / `NoHessian`.

### Bootstrap

`results` are the members that outlive a run, `call` the locals of the one in progress. A run is its entry
(`Run`, `RunStudentized`, `RunPivotal`, `TransformFits`, `EntryThrows`, `StudentizedEntryThrows`), its attempts
(`RegularFit`, `PivotalFit`, `OuterFit`, `InnerFit`, `InnerDone`, `InnerLost`, `AttemptFails`), and, for a pivotal one, the transform
(`FilterFit`, `LinksMade`, `PivotalDraw`, `TransformEnds`, with `TransformThrows` and `StatisticThrows`). A value is the attempt
(run, replicate, try) it was computed in, so that "of one resample" is equality. `whole` is history: the run that completed last, 0
once another one wrote over its results.

### GeneralizedMethodOfMoments, Bulletin17CAnalysis, CompositeAnalysis

Three layers of one specification. `GeneralizedMethodOfMoments` is the estimator as a record `gmm`: `StartEstimate` resets what
`estimate()` resets, `Pass` is one `minimize_with_fallback()` (all ways the primary and the fallback may end are
`PassOutcomes`), the `Weigh...` actions what a strategy does between two passes, where S, W and the objective may throw.
A parameter vector is a point, and S and W are the points they were computed at; `Elsewhere` is any vector that is not a fit.

`Bulletin17CAnalysis` owns it:

| Code (`bulletin17c_analysis.hpp`) | Actions |
|---|---|
| `run` (342-366) | `Run`, `Prepare` / `PrepareThrows`, the estimator's steps, `Decide` |
| `run_uncertainty_quantification` (649-750) | `Quantify` / `QuantifyThrows`; `Delivered` has the guards behind the switch |
| multivariate normal, plain (769-860) and linked (1412-1559) | `MultivariateNormal`, `InstallLinks`, `DrawLinked`, each with its throws |
| bootstraps (894-1071, 1182-1395) | `StartBootstrap`, `AcceptReplicate` / `RejectReplicate` per attempt, `EndReplicates`, `FactorFails`, `DrawPivots`, `BootstrapThrows` |
| `create_frequency_analysis_results`, `update_point_estimate_results` (2229-2325) | `CreateFrequency`, `UpdatePointEstimate`, each with its throws; `Reprocess` when the host calls them |
| `gmm()`, `bayesian_analysis()` | `DriveGmm`, `DriveBayesian`, `SetOutputLength` |

The ensemble is its size, the length it was asked for and the point it was drawn around; a draw is accepted or not. `driven` counts
what the host did to a fit behind the analysis, `returned` whether the last `run()` returned instead of throwing: history,
as before. `CompositeAnalysis` is a caller of the analysis with a flag and results of its own; reading past the child's
ensemble leads to `pc = "undefined"`, as does a replicate that reads an empty point.

## 4 Runs

| Run | Specification | Shows | Bounds |
|---|---|---|---|
| `mcmc_seeded` | `SeededSpec` | any order of setters, fields, resumed, restarted and failed `sample()` calls with MAP and random starts, user-defined seeds and invalid settings: no index out of range and no `back()` of an empty chain, every `sample()` returns or throws | 0 to 2 chains, thinning 0 and 1, 3 calls between resets, 1 seeded state per chain, 1 fitness level |
| `arwmh` | `ARWMHSpec` | the same calls of adaptive chains: the learned covariance holds the chain's history and is defined when used, except after re-creation under a running count; output complete, dominated by `map()`, chains in lockstep, chains started from the best draws | 1 or 2 chains, adapts after 2 proposals, 2 calls |
| `demczs` | `DEMCzsSpec` | every proposal reads what exists: the population holds every recorded state, the snooker gate opens over equal histories, not empty unless a call failed early; means, counts and histories account for each other, thinned or not | 3 chains, thinning 1 and 3, 3 calls |
| `heap` | `FairHeapSpec` | arrays agree, every operation ends, implements `MinQueue` | 4 nodes, 2 weights |
| `network` | `NetSpec` | cheapest costs and detours against reference definitions, routes lead to their ends at their costs, paths avoid removed edges, every solve and query returns | every network of 4 nodes and at most 3 edges |
| `callbacks` | `Spec` | host silent after its exception, its first exception reported, no result from sentinels, handles valid exactly in their callback | 4 runs nested up to 3 deep, 2 completed calls per run, 2 host exceptions |
| `analysis` | `Spec` | criteria, frequency report, chronology, handed-out distributions and model parameters of one fit, but for a mode curve that an exception left unfinished; estimated means backed; `run` reads within its output | 2 fits, 2 output lengths, nonstationary |
| `global_search` | `FairSpec` | how far a budget can be passed, the incumbent beats every local minimum, every ending explained, `minimize()` returns | budgets 1, 4, 8 over a least budget of 2, 2 probes, 3 iterations, 2 finite values |
| `estimator` | `Spec` | best point never lost, budget exact, what is shown as an estimate is whole and of the last one; after a failed one at most the point of an earlier success is readable, and no count or Hessian | populations of 2, budgets below, within and at several generations, 2 estimates |
| `bootstrap` | `Spec` | rows of one attempt, results of one run, Bootstrap-t intervals read one run | 1 or 2 replicates, 2 tries, 2 inner fits, 3 runs |
| `bulletin17c` | `Spec` | a converged fit is weighed at its point; ensemble, curves, record length, handed-out distributions and diagnostics of one fit, but for an unfinished mode curve; an ensemble or a message; diagnostics that add up; a composite reads past an untouched child only after a normal draw | 2 points, 3 passes, lengths 1 and 3, 2 tries, 1 change by the host |
| `composite_overrun` | `Spec` | **violated**: an ensemble that lost draws is safe downstream | as `bulletin17c` |

The largest are `analysis` (17.2 million states), `bootstrap` (7.5 million), `bulletin17c` (7.2 million), `demczs` and `arwmh` (2.5 million each);
`mcmc_seeded` has 1.1 million.

Why the bounds are enough:

- *Sampler.* The code's minimums (100 iterations, 100 outputs, 3 chains for DE samplers,
  `100*D`, `5 *`) are CONSTANTS and small here; the code compares with them and nothing else.
  Two chains show every relation between an earlier and a later chain; two iterations separate
  the first from the last; output length 3 over 2 chains is a ragged tail; `MaxCalls = 2` is a
  first and a resumed or restarted call *between two resets* (a setter starts again, so traces are
  longer); the seeded run has three, so that a call which fails in its start stands between a completed one
  and one that resumes. Fitness has -∞ and one level in `arwmh`: acceptance, ranking and domination compare two values at
  a time. The seeded run and the DE run have one level, since none of their properties depends on acceptance. `MapDominatesOutput`
  is therefore checked by `arwmh`, which has no user-defined starts; the theorem covers those.
- *Heap.* Four nodes give an inner node with two children and one with a left child only; two weights give ties.
- *Network.* A list of edges is grouped by end node, the order in which the solver groups it, without
  self-loops (they never shorten a route). Destinations are among nodes 0 and 1, so nodes 2 and 3 are
  interchangeable and one topology of each such pair is kept. Three edges make a cycle, a
  diamond's half and a tie; weight 0 makes free cycles, and 1 + 1 at `Precision = 1` is where rounding begins. The
  destination lists are none, one, two and the same one twice. One removed edge blocks a recorded path or not; a query
  brings the weights of the solve or those in reverse.
- *Callbacks.* Depth 3 has a run with one above and one below; two exceptions tell the first from another.
- *Analysis.* Two fits tell an old one from a new one, two lengths an output that is too short from one that
  is long enough. A nonstationary model takes every branch of a stationary one but the guard of the chronology.
- *Searches.* Budget 1 is refused, 4 leaves a second local search less than it accepts, 8 lets a run reach its stopping rule. Two
  finite values, an infinite one and NaN give every outcome of a comparison; two probes are one that spends the
  budget and one after it.
- *Estimator, bootstrap.* Budgets 1, 3, 5 and 7 end a population of two in each phase; two tries are a lost one and a last one,
  three runs an interrupted one between two others.

- *Bulletin 17C.* Two points tell a fit from the one before (they are symmetric). Three passes are a first one, one that may
  converge, and a last one; a bound of 0 to 3 passes is below, at and above each strategy's own. Length 1 is below the two sets an
  ensemble needs; of 3 draws one may be lost within the rejection limit. Two tries are a lost one and a last one. The host changes a
  fit once, and only while there are no diagnostics, which such a change leaves alone.

Deadlock is checked everywhere but in `callbacks`, `analysis`, `demczs` and `bulletin17c`: the bounded hosts of the first two really
stop, and an analysis or a composite stops where a call reads past the output, a DEMCzs sampler where it reads past a
history.

Assumptions beyond the code. `SeededSpec` restricts the host to the documented precondition of
`UserDefined` (every chain has a seed or a recorded state when `sample()` is called); without it
`back()` of an empty vector is reached at once. `IndexSafe`, checked and proved of `SeededSpec`, says that with it that never happens; its part
`WithinVectors` is proved of every host. The variables `outrun` (ARWMH) and `unrecorded` (DEMCzs) remember that the host
left the conditions under which the comments of these files hold; their properties except exactly those
behaviours, and no action reads them. The model of an analysis has observations (without any, the criteria are NaN). The
caller of an estimator or a bootstrap does not change its settings from inside a callback.

Fairness. `WF(Driver \/ Proposal)` for `sample()`, `WF(Loop)` for the sift loops, `WF(SolverStep \/ PathStep)` for a
solve or query, `WF(Steps)` for `minimize()`: a thread that is inside of the call keeps running, nothing more. No fairness is assumed of
the host, of acceptance, or of the order of setters, and `callbacks` has none: a host function may
never return. The other runs check safety only.

## 5 Disagreements found

- `composite_overrun`: the comment of `bulletin17c_analysis.hpp:765` on the ensemble of the multivariate normal method says that it can
  be shorter than the output length and that this "is safe downstream". Inside of the analysis it is. A composite counts its realisations
  by the child's `output_length` (`composite_analysis.hpp:305`) and asks for each of them (lines 329 and 354), and
  `get_distribution` indexes the output without a check (`bulletin17c_analysis.hpp:373`): it reads past the end. The run finds it with
  three draws of which one is lost; the repository's own test of that method has an ensemble of 996 of 1000.

Without a run, since the models contain the states but a property would restate the code:

- The comment of `optimizer.hpp` on `update_status` (line 32) says that reaching the maximum number of iterations or evaluations
  never makes `minimize()` throw, whatever `report_failure` is. A global optimiser of which less budget is left than a local search
  accepts builds one all the same; its `validate()` throws, outside of any `try` block (`multi_start.hpp:258`), which reaches the
  caller as an invalid argument (`EndingExplained` says so: a Failure is the objective's or that of a spent budget).
- The comment of `estimate()` (`generalized_method_of_moments.hpp:1122`) says that a failed run can never return a stale
  solution. S, W and the covariance kept by `post_process` (which is not modelled) stay from before: a second estimation starts with the W of the first one.
- `gmm()` is "null until" a successful run (`bulletin17c_analysis.hpp:300`), but stays after a run whose solver failed.
- The linked method falls back to plain draws in silence (line 671), while the message is documented as empty when "no issue occurred" (line 311).
- Nelder-Mead ends with Success whatever its point; with one that is not finite, a replicate reads an empty vector (line 942), and
  `run()` marks the analysis as estimated before it throws.

Comments that hold only under conditions, which the properties state and which were found by checking them without:

- `mean_log_likelihood_[i - 1]` is indexed by the iteration of the current call and cleared by
  `reset()` only. A resumed second `sample()` (resuming is the default) adds into the entries of the first
  (`mcmc_sampler.hpp:331`): they are then sums over calls, not the average of the comment at line 264.
- `sample_count_` is not taken back when a call throws, so repeated calls that fail in their
  first iteration open the snooker gate over empty histories (`demczs.hpp:214`); the comment at line 54 derives
  `n >= 1` from that gate (`unrecorded`).
- A restarted call re-creates the running covariance and keeps `sample_count_`, so that
  proposals that should be in the identity phase scale an empty covariance (`arwmh.hpp:125`) and throw (`outrun`).
- `clear_results()`, with which every `run()` starts, destroys the distributions handed out before
  (`univariate_analysis.hpp:136`).
- A local search of MLSL can leave it with status `None`: an exception of the outer budget reaches `minimize()` past every
  assignment of a status other than the budget's own (`EndingExplained` says when).
- A bootstrap whose statistic throws in the transform holds the ensemble of that run beside the statistics and
  the kind of the one before (`bootstrap.hpp:606`); a studentized run that throws on its way in has
  already dropped the pivotal results. `CompletedRunIsWhole` is about all other states.
- `set_optimizer_method(Brent)` on a model of several parameters throws after it assigned `method_`; the same call again then does
  nothing, and `estimate()` runs the optimiser of before (`maximum_likelihood.hpp:131`).

- `estimate()` resets every result but `best_parameter_set_` (`maximum_likelihood.hpp:173-180`), whose accessor (line 160), unlike
  `maximum_log_likelihood()` beside it, does not ask whether the estimator is estimated: after a failed estimate the point of an earlier
  success is still readable. `EstimateIsOfLastRun` says that it is that and nothing else.
- A mode curve left unfinished by an exception is shown until the next call that rewrites or clears it, after a `run()` that threw in an analysis that is not
  estimated and after a reprocessing call of the host's in one that is (`OneFit`, `ShownOfOneFit`).
- A method of moments whose pass fails in the middle of a strategy keeps the finite best point of an earlier pass, or of the failed search, and is
  estimated with it (`generalized_method_of_moments.hpp:1648`). Nothing in the repository says of which pass it must be, so no property asks; `FitIsWhole`
  allows it, and says that such a fit is not called converged.

## 6 Proofs

Every theorem holds for all values of the constants under the `ASSUME`s of the module (constants are
finite-range naturals, sets non-empty where the code needs a value; networks have edges between
existing nodes; a solve and a query bring one weight per edge, none negative). A theorem that needs more says so in an
`ASSUME` of its own: two such conditions exist, both of the sampler and both explained below.

The runs check the modules on small instances; the theorems are about the same definitions, and every property of a
passing run that is not a liveness property is the conclusion of one.

**MCMCSamplerProofs.** *The base class.* `Typed`: the inductive invariant is `TypeOK /\ WithinVectors /\ FrameOK`.
`WithinVectors` alone is not inductive: that `chain_states` has one entry per chain in a resumed call
needs that `simulations >= 1` implies it *between* calls too (only a reset changes the number of chains,
and it clears `simulations`); that each path of initialisation delivers `number_of_chains`
states needs the counts of draws in the frame (`FrameOK`) and that settings were valid at entry
and cannot change inside a call. `Indexed` is of `SeededSpec`, the host that keeps to the precondition of `UserDefined`: `SeedsReady`
carries what the host made sure of from the call to the start of its chains, so that the undefined `back()` is never taken.
`MapDominates` adds nothing to it but the loop's entry, which
clears the output. `Balanced` needs `ServedFirst`: during a recording round exactly the chains
before `j` are one ahead, *until the budget runs out*. `InLockstep` (`ASSUME SeedChains = {}`: the host seeds no
chain) needs the same for the recorded chains (`RecordedFirst`), and covers calls that a likelihood
ended: it can only throw in the proposal loop, where no round of recording is half done.
`BestDrawsStart` (`StartOK`): the chains are dealt the head of the ranked draws; a single chain with a single draw is given that draw.

*Sums over the chains.* `OutputCompletes` and `WorkIsDone` count over all chains at once. The library's `SumFunction` is a
fold over a set in an unspecified order; that it is a sum at all (`SumPick`: any element may be added last, `SumUpdate`:
one changed value changes the sum by the difference) is proved by a counterexample of least cardinality, since the induction theorems
are out of reach. `OutputOK` says how much of the budget the finished rounds and the begun one have dealt (`Served`), so that
the last round finds it spent. `WorkInv` says, of each chain, how far its counts are ahead of its history (`Ahead`: the
proposals of the running iteration), and of the means that there is one for each record of a round (`MeanOK`). `WorkIsDone` is stated for
`SeedChains = {}`: a chain the host seeded has a history nobody counted.

*ARWMH.* `AdaptiveIsASampler` shows every step to be a step of the base class or a stutter of it, so that its theorems carry over.
`AdaptiveHistory` is `CovarianceOK`: `sigma_n` counts the chain's rounds in this call at least, and all of them since the covariances were
created, unless the comments' conditions were left (`outrun`).

*DEMCzs.* A chain proposes through a gate, so its steps are not those of the base class; `EvolutionInv` is the base invariant with
`ChainsOK` (lockstep, the accounting, and a population that holds its initial draws and every recorded state) and `GateOK` (a chain
without history has made only the proposals of its first state, so the gate, which waits for more, is shut for it — unless a call threw before it
recorded anything, `unrecorded`). `ProposalsDefined` and
`EvolutionAccounted` hold under `OwnPopulation`: at least three chains, the code's own minimum (`mcmc_sampler.hpp` lets a subclass raise
it), and a population that the sampler's draws started — no seeds stored by the host, the documented use of this sampler.

**ShortestPathProofs.** *The heap*, of `HeapSpec`: `HeapTypeOK /\ PositionsAgree /\ Ordered`, where `Ordered` generalises the heap order
to a running loop: the held slots are ordered *across the hole* (the parent of the hole is no
heavier than its children) and the entry in hand fits one side of it. `Agreeing`,
`OrderedBetween`, `Exact` (count never exceeds the number of distinct live nodes, by an injection
argument on the slots) and `Implements`: the refinement of `MinQueue`, where the root of an ordered
heap is shown lightest from the per-edge order, and sift iterations to be stutters.

*The search*, of Dijkstra's `Spec`: `IndInv` is `TypeOK /\ HeapHoldsOpen /\ Ascending /\ LoopOK`. `Ascending` is the classic argument:
settled costs, the taken cost and the costs in the heap come in this order. With
absorbed sums it also needs that costs are *on the grid* (small, or even): only then is a rounded sum
not below its first term (`PlusGrows`). `HeapIsOpen` is `HeapHoldsOpen` (which no run lists: `CostsAreCheapest` notices the same
bugs), `Settled` the action property that a settled row never changes.

*What a solve returns.* `SearchInv` says of each row where its cost comes from, and that no relaxed edge offers less. When the heap is empty that is
`Solved`: a row without an edge is of a destination, a row with one costs the edge and the row it leads to, no edge
offers less, and the table is `Grounded`: no set of rows leads only to itself. The last part is what a weight of zero and an absorbed
one make non-trivial, and what makes a *merge* delicate: `merge` takes each row from whichever table is cheaper, so a route may
change tables on its way. `MergeSolved` shows that it never closes a cycle: of the rows in one, a cheapest leads to a cheapest, at that cost in its own table too. A row is
replaced only by a *strictly* cheaper one, so a cheapest row of the earlier table leads to one of the earlier table, and the cheapest rows would
form a cycle within one table, which is grounded. `TableInv`
carries `Solved` through the loop over the destinations. `RoutesAreRoutes` follows hop by hop, `NodeCount` hops being enough in a
grounded table. `CheapestCosts` compares with the reference `Lengthened` (cheapest routes of at most `k` edges): a solved table is a
lower bound for every `k` since no edge offers less, and is met at `k = NodeCount` since its own routes are that short. The references and `Hops`
are recursive functions; that they exist is shown once (`Unfolding`), and facts about all their values by a least counterexample (`Upwards`).

*The queries*, of `NetSpec`: `NetInv` adds what the caller keeps (`KeptOK`: a table whose routes lead along edges to its
destinations, *whatever the weights of the query*), what the forward search knows (`ForwardInv`: the mirror of `SearchInv` without the removed edges)
and what an answer is (`AnswerInv`: no route recorded, the recorded one, nothing to do, no way, or a cheapest detour). `NoneCheaper` is the
core: a path to a goal leaves the settled nodes through a node in the heap, which costs no less than the goal just taken. `WayBack` shows
the walk from the goal to be a path at that cost. `ThereIsNoDetour` is the other end: a path to a goal would have kept the heap non-empty. From these,
`PathsAvoidRemoved` and `DetoursAreCheapest`; `NetSolves` shows that queries do not disturb the solver's own properties.

*What the loops use up.* `SiftsMoveOn`: a hole moves one way and within the heap. `SearchesMoveOn`: a step of a search settles
one more node or relaxes one edge less of the last, because nothing reopens a settled node (`RelaxFacts`, and its mirror for queries), and
a merge advances by a destination. With the fairness of section 4 that is why `OperationsEnd` and `NetReturns` hold.

**CallbackRunsProofs.** Per run (`FrameOK`): the latch is set exactly when a callback threw and holds what
the caller is owed; sentinels come only after it; a run with a set latch is in its algorithm. Per
stack (`StackOK`): runs that are not innermost are in the host, and have distinct numbers, so that no two
share a borrow. With the last report and the borrows this is inductive and implies `Silent`,
`Owed`, `Unpoisoned` and `Borrowed`, for any depth and number of runs.

**UnivariateAnalysisProofs.** `TypeOK /\ Ownership /\ CriteriaInv /\ ReportInv /\ LengthInv`. The properties speak
of a host between calls; the invariant has to say what holds *inside* one. `Ownership`: whose call a step
belongs to, and that inside `run()` the analysis is neither estimated nor driven. `CriteriaInv`: which
criteria are those of the results after each step of `estimate()`. `ReportInv`: until `run()` has a fit,
nothing is shown, and a curve left unfinished inside of a `run()` is one of a `run()` that threw. `LengthInv`: a fit made inside `run()` is as long as the knob, because `clear_results()`
and `estimate()` both rebuild the sampler and knobs cannot change inside a call. `Typed`, `CriteriaOfOneFit`,
`EstimatedIsBacked`, `ShownOfOneFit` and `RunInRange` follow, for any number of fits, handles and lengths.

**MaximumLikelihoodProofs.** `TypeOK /\ ShownInv /\ BudgetInv /\ BestInv`: what is shown at each stage of an estimate, that population,
incumbent and count are in step, and that the incumbent `Leads`: it is a member and no member is better when all are numbers. The
incumbent is a member (`BestSurvives`) because members and incumbent are replaced under the same comparison — which
needs that a point which replaces the incumbent also replaces *its* member: the incumbent bounds every member that is a number.
`BudgetExact` needs that between two evaluations the budget is never spent, `EstimateIsOfLastRun` that from the start of an
estimate to `Accept` no estimate is shown; the point that stays readable is of a lower-numbered run, since only `Accept` writes it and an estimate takes a number.

**GlobalSearchProofs.** `TypeOK /\ PlaceInv /\ SyncInv /\ BudgetInv /\ BestInv /\ EndInv`. How far a budget is passed depends on
where the run is, so `BudgetInv` says it for each place; that it stays true inside a local search needs `SyncInv`: the local budget is
what was left of the outer one, so that the two run out together (or the outer one first, where it throws), and an ending local search
leaves its evaluations counted in both. `BestInv` keeps the outer incumbent at least as good as the local one *inside* a search, because
both compare the same values, which is why a minimum reported through an exception cannot be better. `EndInv` is `EndingExplained`
with the places in which nothing has ended yet; `PlaceInv` the frame of the nested calls.

**BootstrapProofs.** The properties are inductive together with `Place` (which locals belong to which place), `LoopShape`,
`PivotalShape` and `Studentized`. `RowsAreWhole` needs, for the row in progress, which of its fields the current attempt may
have written; `CompletedRunIsWhole` needs the counts of the transform (every raw fit is accepted, rejected or lost, every
accepted one drawn or invalid) while it runs, and that entries that throw write nothing but what `whole = 0`
disowns. `BootstrapTReadsItsRun` follows a studentized array through runs of other kinds, which must all reset it.

**CompositeAnalysisProofs.** One induction over the composition of estimator, analysis and composite: `TypeOK /\ FitInv /\ CallerInv /\
PlaceInv /\ ShownInv /\ CountInv`. `FitInv` is the estimator's own: what an estimate has taken back before its first pass, that every pass
but the running one is in its history, that a fallback happens once and only after it was allowed. `CallerInv` tells the estimates a `run()` makes
from those of a host that reached the estimator by its reference, which is what separates a stale ensemble from a disowned one
(`driven`). `PlaceInv` says what is known at each place of a run: nothing is shown before the draw, the method chosen is the one followed, and a
link is installed only between its two ends, also when the draw throws. `ShownInv` is `ShownOfOneFit` with the places inside of a call, in which the
message and the ensemble do not yet exclude each other; that an unfinished curve is told from every fit is the `CurveAssumption` of
`Bulletin17CAnalysis`, which TLC evaluates. `CountInv` is `ReplicatesAccounted` for a bootstrap half way: every lost replicate has spent
all of its tries (`failed * (MaxRetries - 1) <= retries`), and the current one those before its attempt. `WholeFit`, `OneFitShown`,
`EnsembleOrReason` and `CountsAddUp` follow; `ChildIsRead`, an action property, is read off the one step that overruns and the counts of a bootstrap ensemble.

Listed without a run property: `Typed` (types of each module), `Balanced`, `HeapIsOpen`, `OrderedBetween`, `Exact` and `Settled`, which
strengthen or explain the properties beside them, `AdaptiveIsASampler`, `SiftsMoveOn` and `SearchesMoveOn`.

Only model-checked: the liveness properties `SampleReturns`, `OperationsEnd`, `NetReturns` and `MinimizeReturns`, which rest on fairness and so on
ENABLED, beyond the prover.

## 7 What is not modelled

- Floating-point numerics, except that a cost sum may absorb a weight. NaN likelihoods have no place in the
  fitness order; negative, infinite and NaN edge weights are outside the model; node and edge
  numbers stored as floats round from 2^24 on, which the integers of the model do not.
- Random generators: draws are nondeterministic, seeds and reproducibility are not modelled.
- Argument validation that throws before any state changes (out-of-range nodes, weight counts), parsing of
  options, flattening of results, a guard without a function.
- Incoming lists prebuilt by the caller of Dijkstra.
- A host that changes the parameters of an analysis's model, its probability ordinates or the fields of the
  sampler inside the estimator, through the references it can get; a caller that runs an estimator's optimiser behind it, or changes
  `replicates` or a callback of a bootstrap between a run and its intervals.
- Over- and under-identified problems of the method of moments, its Powell and global optimisers beyond how they may end, the covariance and J
  statistic `post_process` keeps; a composite of several children, its weights and type.
- The particle swarm, shuffled complex, annealing, gradient descent, Adam and augmented Lagrange searches, and the root finders.
- The components of section 1 that section 2 lists as next, and those without a protocol of their own:
  distributions, special functions, models' likelihoods, bindings.

The modules cover a few per cent of the library's lines. Most of the rest is arithmetic without states — distributions,
copulas, likelihoods, decompositions, diagnostics — where a model would either repeat a formula or say nothing, and which the
repository checks against numeric oracles.
