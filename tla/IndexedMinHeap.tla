-------------------------- MODULE IndexedMinHeap ---------------------------
(***************************************************************************)
(* The fixed-capacity heap of the shortest-path solver                     *)
(* (numerics/math/optimization/dynamic/indexed_min_heap.hpp): three arrays *)
(* over slots and node identifiers that must describe the same set of      *)
(* entries, and that clear() and remove_min() leave partly stale.          *)
(*                                                                         *)
(* One action is one iteration of a sift loop.  While a loop runs, the     *)
(* entry (node, key) is in hand and slot is a hole: what the arrays        *)
(* hold there is stale.  The weights are floats in the code; only their    *)
(* order matters here.                                                     *)
(***************************************************************************)
EXTENDS Integers, FiniteSets

CONSTANTS Capacity,   \* the number of node identifiers, 0..Capacity-1
          Weights     \* the weights entries are given

ASSUME CapacityAssumption == Capacity \in Nat \ {0}
ASSUME WeightsAssumption == Weights \subseteq Int /\ 0 \in Weights

VARIABLES weights, nodes, position, count,   \* weights_, nodes_, position_, count_
          loop,                              \* idle, or the sift loop that runs
          slot, node, key,                   \* its locals
          popped                             \* what remove_min last returned

arrays   == <<weights, nodes, position>>
hand     == <<slot, node, key>>
heapVars == <<arrays, count, loop, hand, popped>>

Ids   == 0..(Capacity - 1)
Slots == 0..(Capacity - 1)
Live  == 0..(count - 1)

Parent(k) == (k - 1) \div 2
Left(k)   == 2 * k + 1

HeapInit ==
  /\ weights = [k \in Slots |-> 0]
  /\ nodes = [k \in Slots |-> 0]
  /\ position = [n \in Ids |-> -1]
  /\ count = 0
  /\ loop = "idle"
  /\ slot = 0 /\ node = 0 /\ key = 0
  /\ popped = [node |-> -1, weight |-> 0]

\* Start a sift loop at slot s with the entry (n, w) in hand.
Sift(which, s, n, w) == loop' = which /\ slot' = s /\ node' = n /\ key' = w

\* The loop ends: the entry goes into the hole.
Place ==
  /\ weights' = [weights EXCEPT ![slot] = key]
  /\ nodes' = [nodes EXCEPT ![slot] = node]
  /\ position' = [position EXCEPT ![node] = slot]
  /\ Sift("idle", 0, 0, 0)

\* Mutant: the hole stays where it is.
MoveFromStays(k) ==
  /\ weights' = [weights EXCEPT ![slot] = weights[k]]
  /\ nodes' = [nodes EXCEPT ![slot] = nodes[k]]
  /\ position' = [position EXCEPT ![nodes[k]] = slot]
  /\ UNCHANGED <<loop, hand>>

\* Slot k's entry moves into the hole and leaves its own slot as the hole.
MoveFrom(k) ==
  /\ weights' = [weights EXCEPT ![slot] = weights[k]]
  /\ nodes' = [nodes EXCEPT ![slot] = nodes[k]]
  /\ position' = [position EXCEPT ![nodes[k]] = slot]
  /\ slot' = k
  /\ UNCHANGED <<loop, node, key>>

-----------------------------------------------------------------------------
(* Operations.                                                              *)

IsFull == count >= Capacity
IsLive(n) == \E k \in Live : nodes[k] = n

Insert(n, w) == count' = count + 1 /\ Sift("up", count, n, w)

\* Called for nodes without a live entry: the caller's state array sees to it.
Add(n, w) ==
  /\ loop = "idle"
  /\ ~IsLive(n)
  /\ ~IsFull
  /\ Insert(n, w)
  /\ UNCHANGED <<arrays, popped>>

RemoveMin ==
  /\ loop = "idle"
  /\ count > 0
  /\ popped' = [node |-> nodes[0], weight |-> weights[0]]
  /\ position' = [position EXCEPT ![nodes[0]] = -1]
  /\ count' = count - 1
  /\ IF count' > 0 THEN Sift("down", 0, nodes[count'], weights[count'])
                   ELSE UNCHANGED <<loop, hand>>
  /\ UNCHANGED <<weights, nodes>>

\* A node without a position is added; a weight that is not lower changes nothing.
DecreaseKey(n, w) ==
  /\ loop = "idle"
  /\ IF position[n] < 0
       THEN ~IsFull /\ Insert(n, w)
       ELSE /\ w < weights[position[n]]
            /\ Sift("up", position[n], n, w)
            /\ UNCHANGED count
  /\ UNCHANGED <<arrays, popped>>

\* Mutant: the positions of the cleared entries survive.
ClearCountOnly ==
  /\ loop = "idle"
  /\ count' = 0
  /\ UNCHANGED <<arrays, loop, hand, popped>>

\* Only the positions of live entries are reset.
Clear ==
  /\ loop = "idle"
  /\ position' = [n \in Ids |-> IF \E k \in Live : nodes[k] = n THEN -1 ELSE position[n]]
  /\ count' = 0
  /\ UNCHANGED <<weights, nodes, loop, hand, popped>>

\* One iteration of sift_up, or its end.
SiftUp ==
  /\ loop = "up"
  /\ IF slot > 0 /\ key < weights[Parent(slot)] THEN MoveFrom(Parent(slot)) ELSE Place
  /\ UNCHANGED <<count, popped>>

\* The lighter child of the hole, the left one when they weigh the same.
\* Mutant: always the left one.
LeftChild == Left(slot)

SmallestChild ==
  IF Left(slot) + 1 < count /\ weights[Left(slot) + 1] < weights[Left(slot)]
    THEN Left(slot) + 1 ELSE Left(slot)

\* One iteration of sift_down, or its end.
SiftDown ==
  /\ loop = "down"
  /\ IF Left(slot) < count /\ weights[SmallestChild] < key
       THEN MoveFrom(SmallestChild) ELSE Place
  /\ UNCHANGED <<count, popped>>

Operation ==
  \/ \E n \in Ids, w \in Weights : Add(n, w) \/ DecreaseKey(n, w)
  \/ RemoveMin
  \/ Clear

Loop == SiftUp \/ SiftDown

HeapNext == Operation \/ Loop

HeapSpec == HeapInit /\ [][HeapNext]_heapVars

\* A loop that is entered keeps running.
FairHeapSpec == HeapSpec /\ WF_heapVars(Loop)
-----------------------------------------------------------------------------

\* Every variable has its type, and no slot is read outside the arrays.
HeapTypeOK ==
  /\ weights \in [Slots -> Weights]
  /\ nodes \in [Slots -> Ids]
  /\ position \in [Ids -> Slots \cup {-1}]
  /\ count \in 0..Capacity
  /\ loop \in {"idle", "up", "down"}
  /\ slot \in Slots /\ node \in Ids /\ key \in Weights
  /\ loop # "idle" => slot \in Live
  /\ popped.node \in Ids \cup {-1} /\ popped.weight \in Weights

\* The slots whose entry is in the arrays, not in hand.
Held == IF loop = "idle" THEN Live ELSE Live \ {slot}

\* position_ is the inverse of nodes_ on the live entries and -1 for every other
\* node, whatever stale entries removals and clears left behind: otherwise
\* decrease_key overwrites the entry of another node (indexed_min_heap.hpp:21-25,
\* 45-53).
PositionsAgree ==
  /\ \A k \in Held : position[nodes[k]] = k
  /\ loop # "idle" => \A k \in Held : nodes[k] # node
  /\ \A n \in Ids :
       position[n] >= 0 => \/ position[n] \in Held /\ nodes[position[n]] = n
                           \/ loop # "idle" /\ n = node

\* Between operations no entry is lighter than its parent.
HeapOrdered ==
  loop = "idle" => \A k \in Live \ {0} : weights[Parent(k)] <= weights[k]

\* "The shortest-path state machine keeps at most one live entry per node, so
\* node count is an exact capacity" (indexed_min_heap.hpp:10-11): a node
\* without an entry can always be added.
CapacityIsExact ==
  loop = "idle" /\ (\E n \in Ids : ~IsLive(n)) => ~IsFull

\* Every operation ends: its loop moves the hole towards an end of the heap.
OperationsEnd == loop # "idle" ~> loop = "idle"

-----------------------------------------------------------------------------
(* The abstract queue: the held entries and the one in hand.               *)

LiveNodes == {nodes[k] : k \in Held} \cup (IF loop = "idle" THEN {} ELSE {node})

contents ==
  [n \in LiveNodes |->
     IF loop # "idle" /\ n = node THEN key
     ELSE weights[CHOOSE k \in Held : nodes[k] = n]]

Queue == INSTANCE MinQueue WITH Nodes <- Ids, queue <- contents, taken <- popped

\* Every operation of the heap is that operation of a MinQueue: what remove_min
\* returns is a lightest live node, and the sift loops change no entry.
ImplementsMinQueue == Queue!QSpec
=============================================================================
