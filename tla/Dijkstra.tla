----------------------------- MODULE Dijkstra ------------------------------
(***************************************************************************)
(* The shortest-path solver                                                *)
(* (numerics/math/optimization/dynamic/dijkstra.hpp): the search that runs *)
(* to exhaustion over incoming edges, the nearest-destination and the      *)
(* merged multi-destination solve around it, and the table they return,    *)
(* from which a caller follows a route hop by hop.                         *)
(*                                                                         *)
(* The heap is the queue it implements (MinQueue); one action is one       *)
(* removal or one relaxed edge.  The vectors next, edge_indexes and dist   *)
(* are one table of rows.  Costs are floats: a sum may lose its last bit.  *)
(***************************************************************************)
EXTENDS Integers, Sequences, SequencesExt, FiniteSetsExt

CONSTANTS NodeCount,         \* nodes are 0..NodeCount-1
          Topologies,        \* sequences of edges, [from, to] records
          EdgeWeights,       \* the weights of edges
          DestinationLists,  \* the destinations a solve is asked for
          Precision          \* sums above it are multiples of two

Nodes == 0..(NodeCount - 1)

\* Negative weights are accepted and outside what the solver is for.
ASSUME NodeAssumption == NodeCount \in Nat \ {0}
ASSUME EdgeAssumption ==
  /\ EdgeWeights \subseteq Nat
  /\ \A es \in Topologies : es \in Seq([from : Nodes, to : Nodes])
ASSUME DestinationAssumption == DestinationLists \subseteq Seq(Nodes)
ASSUME PrecisionAssumption == Precision \in Nat

VARIABLES edges, weight,      \* the network and the weight of each of its edges
          destinations, at,   \* the argument of the solve, and the loop over it
          queue, taken,       \* the heap and what it returned last
          rows, state,        \* next, edge_indexes and dist; state
          rest,               \* the edges of the taken node left to relax
          table,              \* best_next, best_edge and best_dist
          solving,            \* which solve runs
          pc

network == <<edges, weight, solving, destinations>>
search  == <<queue, taken, rows, state, rest>>
vars    == <<network, search, at, table, pc>>

Q == INSTANCE MinQueue WITH Weights <- Nat

Unreached == -1
Cost      == Nat \cup {Unreached}

\* The order of costs; Unreached is infinity.
Less(c, d) == c # Unreached /\ (d = Unreached \/ c < d)

\* Float addition: monotone, and a small weight may be absorbed.
Plus(c, w) == IF c + w <= Precision THEN c + w ELSE 2 * ((c + w) \div 2)

NoRow       == [next |-> -1, edge |-> -1, cost |-> Unreached]
NoTable     == [n \in Nodes |-> NoRow]
AtEnd(n)    == [next |-> n, edge |-> -1, cost |-> 0]
Started(ds) == [n \in Nodes |-> IF n \in ds THEN AtEnd(n) ELSE NoRow]

\* The edges into node n, which are relaxed in the order of the edge list.
Incoming(n) == {e \in 1..Len(edges) : edges[e].to = n}

NoSearch ==
  /\ queue' = Q!Empty /\ taken' = Q!NoneTaken
  /\ rows' = NoTable /\ state' = [n \in Nodes |-> 0]
  /\ rest' = {}

\* All vectors are assigned anew and the heap holds the destinations ds.
StartSearch(ds) ==
  /\ rows' = Started(ds)
  /\ state' = [n \in Nodes |-> IF n \in ds THEN 2 ELSE 0]
  /\ queue' = [n \in ds |-> 0]
  /\ taken' = Q!NoneTaken
  /\ rest' = {}
  /\ pc' = "search"

Init ==
  /\ edges \in Topologies
  /\ weight = <<>>
  /\ destinations = <<>> /\ at = 1
  /\ queue = Q!Empty /\ taken = Q!NoneTaken
  /\ rows = NoTable /\ state = [n \in Nodes |-> 0]
  /\ rest = {}
  /\ table = NoTable
  /\ solving = "none"
  /\ pc = "idle"

-----------------------------------------------------------------------------
(* The solves. *)

SolveNearest(ds, w) ==
  /\ pc = "idle"
  /\ ds # <<>>
  /\ weight' = w /\ solving' = "nearest"
  /\ destinations' = ds
  /\ StartSearch(ToSet(ds))
  /\ UNCHANGED <<edges, at, table>>

SolveMerged(ds, w) ==
  /\ pc = "idle"
  /\ weight' = w /\ solving' = "merged"
  /\ destinations' = ds
  /\ table' = NoTable
  /\ pc' = "merge"
  /\ UNCHANGED <<edges, at, search>>

\* One destination after the other, each with a search of its own.
NextDestination ==
  /\ pc = "merge"
  /\ at <= Len(destinations)
  /\ StartSearch({destinations[at]})
  /\ UNCHANGED <<network, at, table>>

MergeDone ==
  /\ pc = "merge"
  /\ at > Len(destinations)
  /\ pc' = "done"
  /\ UNCHANGED <<network, search, at, table>>

\* Mutant: the queue entry keeps the weight it was added with.
RequeueStale(from, cost) ==
  IF state[from] # 2
    THEN Q!QAdd(from, cost) /\ state' = [state EXCEPT ![from] = 2]
    ELSE UNCHANGED <<queue, taken, state>>

\* run_to_exhaustion takes the nearest node of the heap, and settles it.
Take(n) ==
  /\ pc = "search" /\ rest = {}
  /\ Q!QRemoveMin(n)
  /\ IF state[n] = 1
       THEN UNCHANGED <<state, rest>>
       ELSE state' = [state EXCEPT ![n] = 1] /\ rest' = Incoming(n)
  /\ UNCHANGED <<network, at, rows, table, pc>>

Requeue(from, cost) ==
  IF state[from] # 2 THEN Q!QAdd(from, cost) /\ state' = [state EXCEPT ![from] = 2]
                     ELSE Q!QDecreaseKey(from, cost) /\ UNCHANGED state

\* Mutant: a route as long as the known one replaces it.
ImprovesOrTies(cost, from) == ~Less(rows[from].cost, cost)

Improves(cost, from) == Less(cost, rows[from].cost)

\* Relaxes edge e, the next one of the taken node, whose cost is the one it was
\* taken with.
Relax(e) ==
  /\ pc = "search"
  /\ e \in rest /\ \A f \in rest : e <= f
  /\ LET from == edges[e].from
         cost == Plus(taken.weight, weight[e])
     IN  IF Improves(cost, from)
           THEN /\ rows' = [rows EXCEPT ![from] =
                              [next |-> edges[e].to, edge |-> e, cost |-> cost]]
                /\ Requeue(from, cost)
           ELSE UNCHANGED <<queue, taken, rows, state>>
  /\ rest' = rest \ {e}
  /\ UNCHANGED <<network, at, table, pc>>

\* Mutant: a row that has an edge only gets the lower cost.
MergedCosts(best, found) ==
  [n \in Nodes |-> IF ~Less(found[n].cost, best[n].cost) THEN best[n]
                   ELSE IF best[n].edge = -1 THEN found[n]
                   ELSE [best[n] EXCEPT !.cost = found[n].cost]]

\* The rows of a later destination replace those they are shorter than.
Merged(best, found) ==
  [n \in Nodes |-> IF Less(found[n].cost, best[n].cost) THEN found[n] ELSE best[n]]

Exhausted ==
  /\ pc = "search" /\ rest = {}
  /\ DOMAIN queue = {}
  /\ IF solving = "merged"
       THEN /\ table' = Merged(table, rows)
            /\ at' = at + 1
            /\ pc' = "merge"
       ELSE /\ table' = rows
            /\ pc' = "done"
            /\ UNCHANGED at
  /\ UNCHANGED <<network, search>>

\* The table goes to the caller and the locals are gone.
Return ==
  /\ pc = "done"
  /\ weight' = <<>> /\ solving' = "none" /\ destinations' = <<>> /\ at' = 1 /\ table' = NoTable
  /\ NoSearch
  /\ pc' = "idle"
  /\ UNCHANGED edges

Call ==
  \E ds \in DestinationLists, w \in [1..Len(edges) -> EdgeWeights] :
    SolveNearest(ds, w) \/ SolveMerged(ds, w)

Solver ==
  \/ NextDestination
  \/ MergeDone
  \/ \E n \in Nodes : Take(n)
  \/ \E e \in 1..Len(edges) : Relax(e)
  \/ Exhausted
  \/ Return

Next == Call \/ Solver

Spec == Init /\ [][Next]_vars
-----------------------------------------------------------------------------

\* Every variable has its type, and no node is taken that is not one.
TypeOK ==
  /\ edges \in Topologies
  /\ pc = "idle" \/ weight \in [1..Len(edges) -> EdgeWeights]
  /\ destinations \in Seq(Nodes) /\ at \in 1..(Len(destinations) + 1)
  /\ DOMAIN queue \subseteq Nodes /\ \A n \in DOMAIN queue : queue[n] \in Nat
  /\ taken.node \in Nodes \cup {-1} /\ taken.weight \in Nat
  /\ \A t \in {rows, table} :
       t \in [Nodes -> [next : Nodes \cup {-1}, edge : (1..Len(edges)) \cup {-1}, cost : Cost]]
  /\ state \in [Nodes -> 0..2]
  /\ rest \subseteq {e \in 1..Len(edges) : edges[e].to = taken.node}
  /\ solving \in {"none", "nearest", "merged"}
  /\ pc \in {"idle", "merge", "search", "done"}

\* The heap holds the open nodes, once, at their distances: the solver's own
\* state array, not the heap, decides between add and decrease_key
\* (dijkstra.hpp:210-215), and a node count is all the room there is.
HeapHoldsOpen ==
  pc = "search" => /\ DOMAIN queue = {n \in Nodes : state[n] = 2}
               /\ \A n \in DOMAIN queue : queue[n] = rows[n].cost

\* A settled node is never reopened and its row never changes in the same search,
\* so no route runs through a row that becomes another (dijkstra.hpp:197-217).
SettledForGood ==
  [][pc = "search" => \A n \in Nodes :
       state[n] = 1 => state'[n] = 1 /\ rows'[n] = rows[n]]_vars

\* try_get_path: the node after k hops from n.
Hops(t, n) ==
  LET hop[k \in 0..NodeCount] ==
        IF k = 0 THEN n
        ELSE IF t[hop[k - 1]].edge = -1 THEN hop[k - 1] ELSE t[hop[k - 1]].next
  IN  hop

\* Every row that has an edge costs that edge and the row the edge leads to, also
\* in a merged table, where the two may come from different searches
\* (dijkstra.hpp:276-283), and "the result table does not converge to a destination"
\* (dijkstra.hpp:165) and "the result table walk ended away from a destination"
\* (dijkstra.hpp:176) are never said of a table the solver returned.
RoutesLead ==
  pc = "done" => \A n \in Nodes : table[n].cost # Unreached =>
    LET row == table[n]
        end == Hops(table, n)[NodeCount]
    IN  /\ row.edge # -1 =>
             /\ edges[row.edge] = [from |-> n, to |-> row.next]
             /\ table[row.next].cost # Unreached
             /\ row.cost = Plus(table[row.next].cost, weight[row.edge])
        /\ table[end].edge = -1 /\ table[end].cost = 0 /\ end \in ToSet(destinations)

Cheapest(costs) == IF costs = {} THEN Unreached ELSE Min(costs)

\* The reference: the cheapest cost over routes of at most k edges.
Reference ==
  LET best[k \in 0..NodeCount] ==
        [n \in Nodes |->
           IF k = 0 THEN IF n \in ToSet(destinations) THEN 0 ELSE Unreached
           ELSE Cheapest(({best[k - 1][n]} \cup
                  {IF best[k - 1][edges[e].to] = Unreached THEN Unreached
                   ELSE Plus(best[k - 1][edges[e].to], weight[e]) :
                      e \in {f \in 1..Len(edges) : edges[f].from = n}}) \ {Unreached})]
  IN  best[NodeCount]

\* The costs are those of cheapest routes to a nearest destination, whichever of
\* the two solves computed them (dijkstra.hpp:241-285).
CostsAreCheapest ==
  pc = "done" => \A n \in Nodes : table[n].cost = Reference[n]
=============================================================================
