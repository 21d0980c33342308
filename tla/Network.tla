------------------------------ MODULE Network ------------------------------
(***************************************************************************)
(* A network compiled for repeated solves                                  *)
(* (numerics/math/optimization/dynamic/network.hpp): a caller solves it,   *)
(* keeps the table, and asks for the path from a node with some edges      *)
(* removed.  The path recorded in the table is followed unless a removed   *)
(* edge is on it; then a forward search over the other edges finds a       *)
(* detour.                                                                 *)
(*                                                                         *)
(* Every method is const and every search a local, so a caller has one     *)
(* table at a time here.  A query may bring other weights than the table   *)
(* was solved with, and the table may be of other destinations than the    *)
(* network's own.                                                          *)
(***************************************************************************)
EXTENDS Dijkstra

CONSTANTS Goals,           \* destination_indices_
          Starts,          \* the nodes a path is asked for
          MaxRemoved,      \* edges removed by a query, at most
          Reweighted(_)    \* the weights a query brings, after a solve with some weights

ASSUME NetworkAssumption == Goals \subseteq Nodes /\ Starts \subseteq Nodes /\ MaxRemoved \in Nat
\* One weight for each edge (network.hpp:144), and none that is negative.
ASSUME ReweightedAssumption ==
  \A es \in Topologies : \A w \in [1..Len(es) -> EdgeWeights] :
    Reweighted(w) \subseteq [1..Len(es) -> EdgeWeights]

VARIABLES kept,    \* the table the caller holds, its weights and its destinations
          query,   \* the arguments of get_path
          path     \* what it returned

netVars == <<vars, kept, query, path>>

NoKept  == [rows |-> NoTable, weight |-> <<>>, ends |-> {}]
NoQuery == [start |-> -1, removed |-> {}, table |-> FALSE]

\* No path; an empty path is one as well, and only the overload without a table
\* tells the two apart.
NoPath == [found |-> FALSE, edges |-> <<>>]
Path(es) == [found |-> TRUE, edges |-> es]

NetInit == Init /\ kept = NoKept /\ query = NoQuery /\ path = NoPath

Holding == kept # NoKept

SolverStep ==
  \/ /\ NextDestination \/ MergeDone \/ Exhausted
        \/ (\E n \in Nodes : Take(n)) \/ (\E e \in 1..Len(edges) : Relax(e))
     /\ UNCHANGED <<kept, query, path>>
  \/ /\ Return
     /\ kept' = [rows |-> table, weight |-> weight, ends |-> ToSet(destinations)]
     /\ UNCHANGED <<query, path>>

-----------------------------------------------------------------------------
(* Queries. *)

\* Dijkstra's get_path: the edges hop by hop.
Recorded(start) ==
  LET hop   == Hops(kept.rows, start)
      edge(k) == kept.rows[hop[k]].edge
      count == Cardinality({k \in 0..(NodeCount - 1) : edge(k) # -1})
  IN  [k \in 1..count |-> edge(k - 1)]

\* Mutant: only the first edge of the recorded path is looked up.
BlockedFirst(es, removed) == es # <<>> /\ es[1] \in removed

Blocked(es, removed) == ToSet(es) \cap removed # {}

Answer(p) == path' = p /\ pc' = "answered" /\ UNCHANGED <<queue, taken, rows, state, rest>>

\* find_detour_path, up to its loop.
StartDetour(start) ==
  IF start \in Goals THEN Answer(Path(<<>>))
  ELSE /\ rows' = Started({start})
       /\ state' = [n \in Nodes |-> IF n = start THEN 2 ELSE 0]
       /\ queue' = [n \in {start} |-> 0]
       /\ taken' = Q!NoneTaken /\ rest' = {}
       /\ pc' = "detour"
       /\ UNCHANGED path

\* get_path with the table that is kept and the weights w.
GetPath(start, removed, w) ==
  /\ pc = "idle" /\ Holding
  /\ query' = [start |-> start, removed |-> removed, table |-> TRUE]
  /\ weight' = w
  /\ IF kept.rows[start].cost = Unreached THEN Answer(Path(<<>>))
     ELSE IF ~Blocked(Recorded(start), removed) THEN Answer(Path(Recorded(start)))
     ELSE StartDetour(start)
  /\ UNCHANGED <<edges, solving, destinations, at, table, kept>>

\* get_path without a table, over the network's own weights.
GetDetour(start, removed) ==
  /\ pc = "idle" /\ Holding
  /\ query' = [start |-> start, removed |-> removed, table |-> FALSE]
  /\ weight' = kept.weight
  /\ StartDetour(start)
  /\ UNCHANGED <<edges, solving, destinations, at, table, kept>>

\* The edges out of node n that are not removed.
Open(n) == {e \in 1..Len(edges) : edges[e].from = n} \ query.removed

\* The route back from node n, by the edge each node was reached with.
RouteTo(n) ==
  LET back == Hops(rows, n)
      count == Cardinality({k \in 0..(NodeCount - 1) : rows[back[k]].edge # -1})
  IN  [k \in 1..count |-> rows[back[count - k]].edge]

\* Settles the nearest node; the first goal settled ends the search.
TakeForward(n) ==
  /\ pc = "detour" /\ rest = {}
  /\ Q!QRemoveMin(n)
  /\ IF state[n] = 1 THEN UNCHANGED <<state, rest, path, pc>>
     ELSE /\ state' = [state EXCEPT ![n] = 1]
          /\ IF n \in Goals
               THEN path' = Path(RouteTo(n)) /\ pc' = "answered" /\ UNCHANGED rest
               ELSE rest' = Open(n) /\ UNCHANGED <<path, pc>>
  /\ UNCHANGED <<network, at, rows, table, kept, query>>

\* Mutant: the first route to a node is kept.
ReachesFirst(cost, to) == rows[to].cost = Unreached

Reaches(cost, to) == Less(cost, rows[to].cost)

RelaxForward(e) ==
  /\ pc = "detour"
  /\ e \in rest /\ \A f \in rest : e <= f
  /\ LET to   == edges[e].to
         cost == Plus(taken.weight, weight[e])
     IN  IF Reaches(cost, to)
           THEN /\ rows' = [rows EXCEPT ![to] =
                              [next |-> edges[e].from, edge |-> e, cost |-> cost]]
                /\ Requeue(to, cost)
           ELSE UNCHANGED <<queue, taken, rows, state>>
  /\ rest' = rest \ {e}
  /\ UNCHANGED <<network, at, table, pc, kept, query, path>>

\* get_path with a table makes an empty path of no detour.
NoDetour ==
  /\ pc = "detour" /\ rest = {} /\ DOMAIN queue = {}
  /\ Answer(IF query.table THEN Path(<<>>) ELSE NoPath)
  /\ UNCHANGED <<network, at, table, kept, query>>

\* The caller takes the path and drops the table.
Forget ==
  /\ pc = "answered"
  /\ kept' = NoKept /\ query' = NoQuery /\ path' = NoPath
  /\ weight' = <<>> /\ NoSearch /\ pc' = "idle"
  /\ UNCHANGED <<edges, solving, destinations, at, table>>

NetCall ==
  \/ ~Holding /\ Call /\ UNCHANGED <<kept, query, path>>
  \/ \E start \in Starts, removed \in UNION {kSubset(k, 1..Len(edges)) : k \in 0..MaxRemoved} :
       \/ \E w \in Reweighted(kept.weight) : GetPath(start, removed, w)
       \/ GetDetour(start, removed)

PathStep ==
  \/ \E n \in Nodes : TakeForward(n)
  \/ \E e \in 1..Len(edges) : RelaxForward(e)
  \/ NoDetour \/ Forget

NetNext == NetCall \/ SolverStep \/ PathStep

\* A solve or a query that is entered keeps running.
NetSpec == NetInit /\ [][NetNext]_netVars /\ WF_netVars(SolverStep \/ PathStep)
-----------------------------------------------------------------------------

\* The end of a route of edges es from node n; -1 if it is not one.
EndOf(n, es) ==
  LET end[k \in 0..Len(es)] ==
        IF k = 0 THEN n
        ELSE IF edges[es[k]].from = end[k - 1] THEN edges[es[k]].to ELSE -1
  IN  end[Len(es)]

CostOf(es) ==
  LET cost[k \in 0..Len(es)] == IF k = 0 THEN 0 ELSE Plus(cost[k - 1], weight[es[k]])
  IN  cost[Len(es)]

\* Routes without a removed edge that visit no node twice.
Routes(n) ==
  {es \in UNION {[1..k -> (1..Len(edges)) \ query.removed] : k \in 0..Min({NodeCount - 1, Len(edges)})} :
     EndOf(n, es) \in Goals}

\* A path that is not empty is a route from its start that avoids every removed
\* edge, to a goal of the network or, unblocked, to a destination the table is of:
\* the table is followed whatever it was solved for (network.hpp:170).
PathAvoidsRemoved ==
  pc = "answered" /\ path.edges # <<>> =>
    /\ ToSet(path.edges) \cap query.removed = {}
    /\ EndOf(query.start, path.edges) \in Goals \cup (IF query.table THEN kept.ends ELSE {})

\* A detour is a cheapest route to a goal without the removed edges, for the weights
\* of the query, and there is none only if there is no such route.
DetourIsCheapest ==
  pc = "answered" /\ (query.table => Blocked(Recorded(query.start), query.removed)
                                       /\ kept.rows[query.start].cost # Unreached) =>
    LET routes == Routes(query.start)
    IN  IF path.found /\ (path.edges # <<>> \/ query.start \in Goals)
          THEN /\ path.edges \in routes
               /\ \A es \in routes : CostOf(path.edges) <= CostOf(es)
          ELSE routes = {}

\* Every solve and every query returns.
NetReturns == pc # "idle" ~> pc = "idle"
=============================================================================
