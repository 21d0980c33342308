------------------------ MODULE ShortestPathProofs -------------------------
(***************************************************************************)
(* Theorems about the shortest-path solver: the heap IndexedMinHeap, for   *)
(* every capacity and set of weights; the search Dijkstra, which uses the  *)
(* queue that heap implements, and the merge of its tables, for every      *)
(* network, weights and precision; and the queries of Network, for every   *)
(* table that was kept and every set of removed edges.                     *)
(*                                                                         *)
(* The order of the heap is not inductive while an entry is in hand: what  *)
(* the sift loops preserve is the order of the other entries, that of the  *)
(* hole's parent and the hole's children, and one side of the order of the *)
(* entry in hand (Ordered).                                                *)
(*                                                                         *)
(* That a settled row stays is not inductive alone: it rests on the costs  *)
(* leaving the heap in ascending order, and that on a float sum being no   *)
(* less than the cost it was added to (Ascending).                         *)
(*                                                                         *)
(* A table is Solved when each row accounts for its cost, no edge offers   *)
(* less and no set of rows leads only to itself.  A search leaves a solved *)
(* table (SearchInv), and a merge of two is solved (MergeSolved); routes   *)
(* that lead and cheapest costs are what that means (DoneLeads,            *)
(* DoneCheapest).  A query searches forwards without the removed edges     *)
(* (ForwardInv) and answers in one of five ways (AnswerInv).               *)
(***************************************************************************)
EXTENDS Network, IndexedMinHeap, SequenceTheorems, FiniteSetTheorems, TLAPS

-----------------------------------------------------------------------------
(* The heap.                                                               *)

Ordered ==
  /\ \A k \in Held : k > 0 /\ Parent(k) \in Held => weights[Parent(k)] <= weights[k]
  /\ loop # "idle" /\ slot > 0 =>
       \A k \in Held : k > 0 /\ Parent(k) = slot => weights[Parent(slot)] <= weights[k]
  /\ loop = "up" => \A k \in Held : k > 0 /\ Parent(k) = slot => key <= weights[k]
  /\ loop = "down" /\ slot > 0 => weights[Parent(slot)] <= key

HeapIndInv == HeapTypeOK /\ PositionsAgree /\ Ordered

-----------------------------------------------------------------------------
(* The shape of the heap. *)

LEMMA ParentFacts ==
  ASSUME NEW k \in Nat, k > 0
  PROVE  /\ Parent(k) \in Nat /\ Parent(k) < k
         /\ k = Left(Parent(k)) \/ k = Left(Parent(k)) + 1
BY DEF Parent, Left

LEMMA LeftFacts ==
  ASSUME NEW k \in Nat
  PROVE  /\ Left(k) \in Nat /\ Left(k) > k
         /\ Parent(Left(k)) = k /\ Parent(Left(k) + 1) = k
BY DEF Parent, Left

\* A non-empty set of naturals has a least member.
LEMMA LeastMember ==
  ASSUME NEW T \in SUBSET Nat, T # {}
  PROVE  \E k \in T : \A j \in T : k <= j
<1> DEFINE F == {S \in FiniteSubsetsOf(Nat) : \E k \in T : S = 0..k}
           R == StrictSubsetOrdering(Nat)
<1>1. F # {}
  <2>1. PICK k \in T : TRUE
    OBVIOUS
  <2>2. 0..k \in FiniteSubsetsOf(Nat)
    BY FS_Interval DEF FiniteSubsetsOf
  <2> QED BY <2>2
<1>2. PICK S \in F : \A U \in F : ~ (<<U, S>> \in R)
  <2>1. F \subseteq FiniteSubsetsOf(Nat)
    OBVIOUS
  <2>2. IsWellFoundedOn(R, FiniteSubsetsOf(Nat))
    BY FS_StrictSubsetOrderingWellFounded
  <2> HIDE DEF F, R
  <2> QED BY <1>1, <2>1, <2>2, WFMin
<1>3. PICK k \in T : S = 0..k
  OBVIOUS
<1>4. ASSUME NEW j \in T, ~(k <= j) PROVE FALSE
  <2>1. 0..j \in F
    BY FS_Interval DEF FiniteSubsetsOf
  <2>2. 0..j \subseteq S /\ 0..j # S /\ j < k
    BY <1>3, <1>4
  <2>3. <<0..j, S>> \in R
    BY <2>1, <2>2 DEF StrictSubsetOrdering, FiniteSubsetsOf
  <2> QED BY <1>2, <2>1, <2>3
<1> QED BY <1>4

LEMMA LiveFacts ==
  ASSUME HeapTypeOK
  PROVE  /\ count \in Nat /\ Live \subseteq Nat /\ Live \subseteq Slots
         /\ \A k \in Live : k > 0 =>
              /\ Parent(k) \in Live /\ Parent(k) < k
              /\ k = Left(Parent(k)) \/ k = Left(Parent(k)) + 1
<1>1. count \in Nat /\ Live \subseteq Nat /\ Live \subseteq Slots
  BY CapacityAssumption DEF HeapTypeOK, Live, Slots
<1>2. ASSUME NEW k \in Live, k > 0
      PROVE  /\ Parent(k) \in Live /\ Parent(k) < k
             /\ k = Left(Parent(k)) \/ k = Left(Parent(k)) + 1
  BY <1>1, <1>2, ParentFacts DEF Live
<1> QED BY <1>1, <1>2

LEMMA HeapInitInv == HeapInit => HeapIndInv
BY CapacityAssumption, WeightsAssumption
   DEF HeapInit, HeapIndInv, HeapTypeOK, PositionsAgree, Ordered, Held, Live, Slots, Ids

-----------------------------------------------------------------------------
(* The ends of the sift loops. *)

\* The entry in hand may be put into the hole.
Fits ==
  /\ slot > 0 => weights[Parent(slot)] <= key
  /\ \A k \in Held : k > 0 /\ Parent(k) = slot => key <= weights[k]

LEMMA PlaceInv ==
  ASSUME HeapIndInv, loop # "idle", Fits, Place, UNCHANGED <<count, popped>>
  PROVE  HeapIndInv'
<1> USE CapacityAssumption, WeightsAssumption
<1>1. slot \in Live /\ Held = Live \ {slot} /\ Held' = Live /\ Live \subseteq Slots
  BY DEF HeapIndInv, HeapTypeOK, Place, Sift, Held, Live, Slots
<1>2. /\ weights' = [weights EXCEPT ![slot] = key]
      /\ nodes' = [nodes EXCEPT ![slot] = node]
      /\ position' = [position EXCEPT ![node] = slot]
      /\ loop' = "idle" /\ slot' = 0 /\ node' = 0 /\ key' = 0
      /\ count' = count /\ popped' = popped
  BY DEF Place, Sift
<1>3. HeapTypeOK'
  <2>1. 0 \in Slots /\ 0 \in Ids
    BY DEF Slots, Ids
  <2>2. weights' \in [Slots -> Weights] /\ nodes' \in [Slots -> Ids]
    BY <1>2 DEF HeapIndInv, HeapTypeOK
  <2>3. position' \in [Ids -> Slots \cup {-1}]
    BY <1>2 DEF HeapIndInv, HeapTypeOK
  <2> QED BY <1>2, <2>1, <2>2, <2>3 DEF HeapIndInv, HeapTypeOK
<1>4. PositionsAgree'
  BY <1>1, <1>2 DEF HeapIndInv, HeapTypeOK, PositionsAgree
<1>5. Ordered'
  <2> SUFFICES ASSUME NEW k \in Live, k > 0, Parent(k) \in Live
               PROVE  weights'[Parent(k)] <= weights'[k]
    BY <1>1, <1>2 DEF Ordered
  <2>1. k \in Nat /\ Parent(k) # k
    BY ParentFacts DEF Live
  <2>2. CASE k = slot
    BY <1>1, <1>2, <2>1, <2>2 DEF Fits, HeapIndInv, HeapTypeOK
  <2>3. CASE Parent(k) = slot
    BY <1>1, <1>2, <2>1, <2>3 DEF Fits, HeapIndInv, HeapTypeOK
  <2>4. CASE k # slot /\ Parent(k) # slot
    BY <1>1, <1>2, <2>4 DEF HeapIndInv, HeapTypeOK, Ordered
  <2> QED BY <2>2, <2>3, <2>4
<1> QED BY <1>3, <1>4, <1>5 DEF HeapIndInv

\* Moving an entry into the hole keeps the positions in step with the nodes.
LEMMA MovePositions ==
  ASSUME HeapTypeOK, PositionsAgree, loop # "idle", NEW c \in Held, MoveFrom(c), count' = count
  PROVE  PositionsAgree'
<1>1. /\ slot \in Slots /\ c \in Slots /\ c # slot /\ slot \in Live /\ c \in Live
      /\ Held = Live \ {slot} /\ Held' = Live \ {c} /\ Live \subseteq Slots
  BY LiveFacts DEF HeapTypeOK, MoveFrom, Held, Live
<1>2. /\ nodes' = [nodes EXCEPT ![slot] = nodes[c]]
      /\ position' = [position EXCEPT ![nodes[c]] = slot]
      /\ loop' = loop /\ slot' = c /\ node' = node
  BY DEF MoveFrom
<1>3. /\ nodes \in [Slots -> Ids] /\ nodes[c] \in Ids
      /\ position \in [Ids -> Slots \cup {-1}] /\ node \in Ids
  BY <1>1 DEF HeapTypeOK
<1>4. nodes[c] # node /\ position[nodes[c]] = c
  BY DEF PositionsAgree
<1>5. \A k \in Live : k # slot => position[nodes[k]] = k /\ nodes[k] # node
  BY <1>1 DEF PositionsAgree
<1>6. \A k \in Held' : position'[nodes'[k]] = k /\ nodes'[k] # node'
  BY <1>1, <1>2, <1>3, <1>4, <1>5
<1>7. ASSUME NEW n \in Ids, position'[n] >= 0
      PROVE  \/ position'[n] \in Held' /\ nodes'[position'[n]] = n
             \/ loop' # "idle" /\ n = node'
  <2>1. CASE n = nodes[c]
    BY <1>1, <1>2, <1>3, <2>1
  <2>2. CASE n # nodes[c]
    <3>1. position'[n] = position[n]
      BY <1>2, <1>3, <2>2
    <3>2. \/ position[n] \in Held /\ nodes[position[n]] = n
          \/ n = node
      BY <1>7, <3>1 DEF PositionsAgree
    <3> QED BY <1>1, <1>2, <1>3, <1>4, <2>2, <3>1, <3>2
  <2> QED BY <2>1, <2>2
<1> QED BY <1>6, <1>7 DEF PositionsAgree

LEMMA MoveUpInv ==
  ASSUME HeapIndInv, loop = "up", slot > 0, key < weights[Parent(slot)],
         MoveFrom(Parent(slot)), UNCHANGED <<count, popped>>
  PROVE  HeapIndInv'
<1> USE CapacityAssumption, WeightsAssumption
<1> DEFINE p == Parent(slot)
<1>1. /\ slot \in Live /\ p \in Live /\ p # slot /\ p < slot
      /\ Held = Live \ {slot} /\ Held' = Live \ {p} /\ Live \subseteq Slots
  BY ParentFacts DEF HeapIndInv, HeapTypeOK, MoveFrom, Held, Live, Slots
<1>2. /\ weights' = [weights EXCEPT ![slot] = weights[p]]
      /\ nodes' = [nodes EXCEPT ![slot] = nodes[p]]
      /\ position' = [position EXCEPT ![nodes[p]] = slot]
      /\ loop' = "up" /\ slot' = p /\ node' = node /\ key' = key
      /\ count' = count /\ popped' = popped
  BY DEF MoveFrom
<1> HIDE DEF p
<1>3. HeapTypeOK'
  BY <1>1, <1>2 DEF HeapIndInv, HeapTypeOK, Slots, Ids, Live
<1>4. PositionsAgree'
  BY <1>1, MovePositions DEF HeapIndInv, p
<1>5. Ordered'
  <2>1. ASSUME NEW k \in Live, k # p, k > 0, Parent(k) # p
        PROVE  weights'[Parent(k)] <= weights'[k]
    <3>1. k # slot /\ k \in Nat /\ Parent(k) # k /\ Parent(k) \in Live
      BY <2>1, LiveFacts DEF HeapIndInv, p
    <3>2. CASE Parent(k) = slot
      BY <1>1, <1>2, <2>1, <3>1, <3>2 DEF HeapIndInv, HeapTypeOK, Ordered, p
    <3>3. CASE Parent(k) # slot
      BY <1>1, <1>2, <2>1, <3>1, <3>3 DEF HeapIndInv, HeapTypeOK, Ordered
    <3> QED BY <3>2, <3>3
  <2>2. ASSUME NEW k \in Live, k # p, k > 0, Parent(k) = p
        PROVE  weights[p] <= weights'[k] /\ weights'[k] \in Weights
    <3>1. CASE k = slot
      <4>1. weights'[slot] = weights[p] /\ weights[p] \in Weights
        BY <1>1, <1>2 DEF HeapIndInv, HeapTypeOK
      <4>2. weights[p] \in Int
        BY <4>1
      <4> QED BY <3>1, <4>1, <4>2
    <3>2. CASE k # slot
      <4>1. weights[p] <= weights[k] /\ weights'[k] = weights[k] /\ weights[k] \in Weights
        BY <1>1, <1>2, <2>2, <3>2 DEF HeapIndInv, HeapTypeOK, Ordered
      <4> QED BY <4>1
    <3> QED BY <3>1, <3>2
  <2>3. p > 0 => weights'[Parent(p)] <= weights[p] /\ weights'[Parent(p)] \in Weights
    <3> SUFFICES ASSUME p > 0
                 PROVE  weights'[Parent(p)] <= weights[p] /\ weights'[Parent(p)] \in Weights
      OBVIOUS
    <3>1. Parent(p) \in Live /\ Parent(p) # slot /\ Parent(p) # p
      BY <1>1, LiveFacts DEF HeapIndInv
    <3> QED BY <1>1, <1>2, <3>1 DEF HeapIndInv, HeapTypeOK, Ordered
  <2>4. key < weights[p] /\ key \in Int /\ weights[p] \in Int
    BY <1>1 DEF p, HeapIndInv, HeapTypeOK
  <2> QED BY <1>1, <1>2, <2>1, <2>2, <2>3, <2>4 DEF Ordered
<1> QED BY <1>3, <1>4, <1>5 DEF HeapIndInv

LEMMA MoveDownInv ==
  ASSUME HeapIndInv, loop = "down", NEW c, c = SmallestChild, Left(slot) < count,
         weights[c] < key, MoveFrom(c), UNCHANGED <<count, popped>>
  PROVE  HeapIndInv'
<1> USE CapacityAssumption, WeightsAssumption
<1>1. /\ slot \in Live /\ c \in Live /\ c \in Held /\ c > slot /\ Parent(c) = slot
      /\ \A k \in Held : k > 0 /\ Parent(k) = slot => weights[c] <= weights[k]
      /\ Held = Live \ {slot} /\ Held' = Live \ {c} /\ Live \subseteq Slots
  <2>1. slot \in Nat /\ slot \in Live /\ Live \subseteq Slots /\ Live \subseteq Nat /\ count \in Nat
    BY DEF HeapIndInv, HeapTypeOK, Live, Slots
  <2>2. Left(slot) \in Live /\ (Left(slot) + 1 < count => Left(slot) + 1 \in Live)
    BY <2>1, LeftFacts DEF Live
  <2>3. c \in Live /\ c > slot /\ Parent(c) = slot
    BY <2>1, <2>2, LeftFacts DEF SmallestChild
  <2>4. ASSUME NEW k \in Held, k > 0, Parent(k) = slot
        PROVE  weights[c] <= weights[k]
    <3>1. k \in Live /\ k \in Nat /\ k < count /\ (k = Left(slot) \/ k = Left(slot) + 1)
      <4>1. k \in Live
        BY <2>4 DEF Held
      <4> QED BY <2>4, <4>1, LiveFacts DEF HeapIndInv, Live
    <3>2. \A m \in Live : weights[m] \in Int
      BY <2>1 DEF HeapIndInv, HeapTypeOK
    <3>3. Left(slot) \in Nat
      BY <2>1, LeftFacts
    <3>4. CASE Left(slot) + 1 < count /\ weights[Left(slot) + 1] < weights[Left(slot)]
      <4>1. c = Left(slot) + 1
        BY <3>4 DEF SmallestChild
      <4>2. c \in Live /\ Left(slot) \in Live
        BY <2>2, <3>4, <4>1
      <4> HIDE DEF SmallestChild
      <4> QED BY <3>1, <3>2, <3>4, <4>1, <4>2
    <3>5. CASE ~ (Left(slot) + 1 < count /\ weights[Left(slot) + 1] < weights[Left(slot)])
      <4>1. c = Left(slot)
        BY <3>5 DEF SmallestChild
      <4> QED BY <2>2, <3>1, <3>2, <3>3, <3>5, <4>1
    <3> QED BY <3>4, <3>5
  <2> QED BY <2>1, <2>3, <2>4 DEF MoveFrom, Held, Live
<1>2. /\ weights' = [weights EXCEPT ![slot] = weights[c]]
      /\ nodes' = [nodes EXCEPT ![slot] = nodes[c]]
      /\ position' = [position EXCEPT ![nodes[c]] = slot]
      /\ loop' = "down" /\ slot' = c /\ node' = node /\ key' = key
      /\ count' = count /\ popped' = popped
  BY DEF MoveFrom
<1>3. HeapTypeOK'
  BY <1>1, <1>2 DEF HeapIndInv, HeapTypeOK, Slots, Ids, Live
<1>4. PositionsAgree'
  BY <1>1, MovePositions DEF HeapIndInv
<1>5. Ordered'
  <2>1. ASSUME NEW k \in Live, k # c, k > 0, Parent(k) # c
        PROVE  weights'[Parent(k)] <= weights'[k]
    <3>1. k \in Nat /\ Parent(k) # k /\ Parent(k) \in Live
      BY <2>1, LiveFacts DEF HeapIndInv
    <3>2. CASE Parent(k) = slot
      BY <1>1, <1>2, <2>1, <3>1, <3>2 DEF HeapIndInv, HeapTypeOK
    <3>3. CASE k = slot
      BY <1>1, <1>2, <2>1, <3>1, <3>3 DEF HeapIndInv, HeapTypeOK, Ordered
    <3>4. CASE Parent(k) # slot /\ k # slot
      BY <1>1, <1>2, <2>1, <3>1, <3>4 DEF HeapIndInv, HeapTypeOK, Ordered
    <3> QED BY <3>2, <3>3, <3>4
  <2>2. ASSUME NEW k \in Live, k # c, k > 0, Parent(k) = c
        PROVE  weights'[Parent(c)] <= weights'[k]
    <3>1. k # slot /\ c # slot
      BY <1>1, <2>2, ParentFacts DEF Live
    <3> QED BY <1>1, <1>2, <2>2, <3>1 DEF HeapIndInv, HeapTypeOK, Ordered
  <2>3. weights'[Parent(c)] <= key
    <3>1. weights'[slot] = weights[c] /\ weights[c] \in Int /\ key \in Int
      BY <1>1, <1>2 DEF HeapIndInv, HeapTypeOK
    <3> QED BY <1>1, <3>1
  <2> QED BY <1>1, <1>2, <2>1, <2>2, <2>3 DEF Ordered
<1> QED BY <1>3, <1>4, <1>5 DEF HeapIndInv

-----------------------------------------------------------------------------
(* The operations. *)

LEMMA InsertInv ==
  ASSUME HeapIndInv, loop = "idle", NEW n \in Ids, NEW w \in Weights, ~IsLive(n), ~IsFull,
         Insert(n, w), UNCHANGED <<arrays, popped>>
  PROVE  HeapIndInv'
<1> USE CapacityAssumption, WeightsAssumption
<1>1. /\ count \in Slots /\ count \in Nat /\ count + 1 \in 0..Capacity
      /\ Held = Live /\ Live \subseteq Slots /\ Live \subseteq Nat
      /\ Held' = Live /\ Live' = Live \cup {count}
  BY LiveFacts DEF HeapIndInv, HeapTypeOK, IsFull, Insert, Sift, Held, Live, Slots
<1>2. /\ count' = count + 1 /\ loop' = "up" /\ slot' = count /\ node' = n /\ key' = w
      /\ weights' = weights /\ nodes' = nodes /\ position' = position /\ popped' = popped
  BY DEF Insert, Sift, arrays
<1>3. HeapTypeOK'
  BY <1>1, <1>2 DEF HeapIndInv, HeapTypeOK, Slots, Ids
<1>4. PositionsAgree'
  BY <1>1, <1>2 DEF HeapIndInv, PositionsAgree, IsLive
<1>5. Ordered'
  <2>1. \A k \in Live : k > 0 => Parent(k) # count
    BY <1>1, LiveFacts DEF HeapIndInv, Live
  <2> QED BY <1>1, <1>2, <2>1 DEF HeapIndInv, Ordered
<1> QED BY <1>3, <1>4, <1>5 DEF HeapIndInv

LEMMA LowerInv ==
  ASSUME HeapIndInv, loop = "idle", NEW n \in Ids, NEW w \in Weights,
         position[n] >= 0, w < weights[position[n]],
         Sift("up", position[n], n, w), UNCHANGED <<arrays, count, popped>>
  PROVE  HeapIndInv'
<1> USE CapacityAssumption, WeightsAssumption
<1> DEFINE s == position[n]
<1>1. /\ s \in Live /\ s \in Slots /\ nodes[s] = n
      /\ Held = Live /\ Live \subseteq Slots
      /\ Held' = Live \ {s} /\ Live' = Live
  BY LiveFacts DEF HeapIndInv, HeapTypeOK, PositionsAgree, Sift, Held, Live
<1>2. /\ count' = count /\ loop' = "up" /\ slot' = s /\ node' = n /\ key' = w
      /\ weights' = weights /\ nodes' = nodes /\ position' = position /\ popped' = popped
  BY DEF Sift, arrays
<1> HIDE DEF s
<1>3. HeapTypeOK'
  BY <1>1, <1>2 DEF HeapIndInv, HeapTypeOK, Slots, Ids
<1>4. PositionsAgree'
  BY <1>1, <1>2 DEF HeapIndInv, PositionsAgree
<1>5. Ordered'
  <2>1. \A k \in Live : weights[k] \in Int
    BY <1>1 DEF HeapIndInv, HeapTypeOK
  <2>2. w \in Int /\ w < weights[s]
    BY DEF s
  <2>3. \A k \in Live : k > 0 /\ Parent(k) = s => w <= weights[k]
    BY <1>1, <2>1, <2>2 DEF HeapIndInv, Ordered
  <2>4. s > 0 => Parent(s) \in Live /\ weights[Parent(s)] <= weights[s]
    BY <1>1, LiveFacts DEF HeapIndInv, Ordered
  <2>5. s > 0 => \A k \in Live : k > 0 /\ Parent(k) = s => weights[Parent(s)] <= weights[k]
    BY <1>1, <2>1, <2>4 DEF HeapIndInv, Ordered
  <2> QED BY <1>1, <1>2, <2>3, <2>5 DEF HeapIndInv, Ordered
<1> QED BY <1>3, <1>4, <1>5 DEF HeapIndInv

LEMMA RemoveMinInv ==
  ASSUME HeapIndInv, RemoveMin
  PROVE  HeapIndInv'
<1> USE CapacityAssumption, WeightsAssumption
<1> DEFINE last == count - 1
<1>1. /\ loop = "idle" /\ count \in Nat /\ count > 0 /\ last \in Nat /\ count' = last
      /\ 0 \in Live /\ last \in Live /\ Live \subseteq Slots /\ Held = Live
      /\ Live' = Live \ {last}
  BY LiveFacts DEF RemoveMin, HeapIndInv, HeapTypeOK, Held, Live
<1>2. /\ weights' = weights /\ nodes' = nodes
      /\ position' = [position EXCEPT ![nodes[0]] = -1]
      /\ popped' = [node |-> nodes[0], weight |-> weights[0]]
  BY DEF RemoveMin
<1>3. /\ weights \in [Slots -> Weights] /\ nodes \in [Slots -> Ids]
      /\ position \in [Ids -> Slots \cup {-1}]
  BY DEF HeapIndInv, HeapTypeOK
<1>4. CASE last > 0
  <2>1. loop' = "down" /\ slot' = 0 /\ node' = nodes[last] /\ key' = weights[last]
    BY <1>1, <1>4 DEF RemoveMin, Sift
  <2>2. 0 \in Live' /\ 0 # last /\ Held' = Live \ {0, last}
    BY <1>1, <1>4, <2>1 DEF Held
  <2> HIDE DEF last
  <2>3. HeapTypeOK'
    <3>1. position' \in [Ids -> Slots \cup {-1}]
      BY <1>2, <1>3
    <3>2. last \in 0..Capacity
      BY <1>1 DEF HeapIndInv, HeapTypeOK, last
    <3> QED BY <1>1, <1>2, <1>3, <2>1, <2>2, <3>1, <3>2 DEF HeapTypeOK
  <2>4. PositionsAgree'
    BY <1>1, <1>2, <1>3, <2>1, <2>2 DEF HeapIndInv, PositionsAgree
  <2>5. Ordered'
    BY <1>1, <1>2, <2>1, <2>2 DEF HeapIndInv, Ordered
  <2> QED BY <2>3, <2>4, <2>5 DEF HeapIndInv
<1>5. CASE last = 0
  <2>1. loop' = "idle" /\ slot' = slot /\ node' = node /\ key' = key
    BY <1>1, <1>5 DEF RemoveMin, hand
  <2>2. Live = {0} /\ Live' = {} /\ Held' = {}
    BY <1>1, <1>5, <2>1 DEF Live, Held
  <2>3. HeapTypeOK'
    BY <1>1, <1>2, <1>3, <1>5, <2>1 DEF HeapIndInv, HeapTypeOK
  <2>4. PositionsAgree'
    BY <1>1, <1>2, <1>3, <2>1, <2>2 DEF HeapIndInv, PositionsAgree
  <2>5. Ordered'
    BY <2>1, <2>2 DEF Ordered
  <2> QED BY <2>3, <2>4, <2>5 DEF HeapIndInv
<1> QED BY <1>1, <1>4, <1>5

LEMMA ClearInv ==
  ASSUME HeapIndInv, Clear
  PROVE  HeapIndInv'
<1> USE CapacityAssumption, WeightsAssumption
<1>1. /\ loop = "idle" /\ loop' = "idle" /\ count' = 0 /\ Held = Live /\ Live' = {} /\ Held' = {}
      /\ UNCHANGED <<weights, nodes, hand, popped>>
      /\ position' = [n \in Ids |-> IF \E k \in Live : nodes[k] = n THEN -1 ELSE position[n]]
  BY DEF Clear, Live, Held
<1>2. HeapTypeOK'
  BY <1>1 DEF HeapIndInv, HeapTypeOK, hand
<1>3. PositionsAgree'
  <2>1. \A n \in Ids : ~ position'[n] >= 0
    BY <1>1 DEF HeapIndInv, HeapTypeOK, PositionsAgree
  <2> QED BY <1>1, <2>1 DEF PositionsAgree
<1>4. Ordered'
  BY <1>1 DEF Ordered
<1> QED BY <1>2, <1>3, <1>4 DEF HeapIndInv

LEMMA SiftUpInv ==
  ASSUME HeapIndInv, SiftUp
  PROVE  HeapIndInv'
<1>1. CASE slot > 0 /\ key < weights[Parent(slot)]
  BY <1>1, MoveUpInv DEF SiftUp
<1>2. CASE ~ (slot > 0 /\ key < weights[Parent(slot)])
  <2>1. slot > 0 => weights[Parent(slot)] <= key
    <3>1. slot \in Live /\ (slot > 0 => Parent(slot) \in Slots)
      BY LiveFacts DEF SiftUp, HeapIndInv, HeapTypeOK
    <3>2. key \in Int /\ (slot > 0 => weights[Parent(slot)] \in Int)
      BY <3>1, WeightsAssumption DEF HeapIndInv, HeapTypeOK
    <3> QED BY <1>2, <3>2
  <2>2. Fits
    BY <2>1 DEF SiftUp, Fits, HeapIndInv, Ordered
  <2> QED BY <1>2, <2>2, PlaceInv DEF SiftUp
<1> QED BY <1>1, <1>2

LEMMA SiftDownInv ==
  ASSUME HeapIndInv, SiftDown
  PROVE  HeapIndInv'
<1>1. CASE Left(slot) < count /\ weights[SmallestChild] < key
  BY <1>1, MoveDownInv DEF SiftDown
<1>2. CASE ~ (Left(slot) < count /\ weights[SmallestChild] < key)
  <2>1. ASSUME NEW k \in Held, k > 0, Parent(k) = slot
        PROVE  key <= weights[k]
    <3>1. k \in Live /\ k \in Nat /\ k < count /\ (k = Left(slot) \/ k = Left(slot) + 1)
      <4>1. k \in Live
        BY <2>1 DEF Held
      <4> QED BY <2>1, <4>1, LiveFacts DEF HeapIndInv, Live
    <3>2. slot \in Nat /\ Left(slot) \in Nat /\ Live \subseteq Slots /\ count \in Nat
      BY LiveFacts, LeftFacts DEF SiftDown, HeapIndInv, HeapTypeOK
    <3>3. \A m \in Live : weights[m] \in Int
      BY <3>2, WeightsAssumption DEF HeapIndInv, HeapTypeOK
    <3>4. /\ Left(slot) < count /\ Left(slot) \in Live
          /\ Left(slot) + 1 < count => Left(slot) + 1 \in Live
      BY <3>1, <3>2 DEF Live
    <3>5. key \in Int /\ ~ weights[SmallestChild] < key
      BY <1>2, <3>4, WeightsAssumption DEF HeapIndInv, HeapTypeOK
    <3>6. CASE Left(slot) + 1 < count /\ weights[Left(slot) + 1] < weights[Left(slot)]
      <4>1. SmallestChild = Left(slot) + 1
        BY <3>6 DEF SmallestChild
      <4> QED BY <3>1, <3>3, <3>4, <3>5, <3>6, <4>1
    <3>7. CASE ~ (Left(slot) + 1 < count /\ weights[Left(slot) + 1] < weights[Left(slot)])
      <4>1. SmallestChild = Left(slot)
        BY <3>7 DEF SmallestChild
      <4> QED BY <3>1, <3>2, <3>3, <3>4, <3>5, <3>7, <4>1
    <3> QED BY <3>6, <3>7
  <2>2. Fits
    BY <2>1 DEF SiftDown, Fits, HeapIndInv, Ordered
  <2> QED BY <1>2, <2>2, PlaceInv DEF SiftDown
<1> QED BY <1>1, <1>2

LEMMA HeapNextInv ==
  ASSUME HeapIndInv, [HeapNext]_heapVars
  PROVE  HeapIndInv'
<1>1. ASSUME NEW n \in Ids, NEW w \in Weights, Add(n, w) PROVE HeapIndInv'
  BY <1>1, InsertInv DEF Add
<1>2. ASSUME NEW n \in Ids, NEW w \in Weights, DecreaseKey(n, w) PROVE HeapIndInv'
  <2>1. loop = "idle" /\ UNCHANGED <<arrays, popped>>
    BY <1>2 DEF DecreaseKey
  <2>2. CASE position[n] < 0
    <3>1. ~IsFull /\ Insert(n, w)
      BY <1>2, <2>2 DEF DecreaseKey
    <3>2. ~IsLive(n)
      BY <2>1, <2>2, LiveFacts DEF HeapIndInv, PositionsAgree, IsLive, Held
    <3> QED BY <2>1, <3>1, <3>2, InsertInv
  <2>3. CASE ~ position[n] < 0
    <3>1. position[n] >= 0
      BY <2>3, CapacityAssumption DEF HeapIndInv, HeapTypeOK, Slots
    <3>2. w < weights[position[n]] /\ Sift("up", position[n], n, w) /\ UNCHANGED <<arrays, count, popped>>
      BY <1>2, <2>3 DEF DecreaseKey
    <3> QED BY <2>1, <3>1, <3>2, LowerInv
  <2> QED BY <2>2, <2>3
<1>3. CASE RemoveMin
  BY <1>3, RemoveMinInv
<1>4. CASE Clear
  BY <1>4, ClearInv
<1>5. CASE SiftUp
  BY <1>5, SiftUpInv
<1>6. CASE SiftDown
  BY <1>6, SiftDownInv
<1>7. CASE UNCHANGED heapVars
  BY <1>7 DEF heapVars, arrays, hand, HeapIndInv, HeapTypeOK, PositionsAgree, Ordered, Held, Live
<1> QED BY <1>1, <1>2, <1>3, <1>4, <1>5, <1>6, <1>7 DEF HeapNext, Operation, Loop

THEOREM HeapInductive == HeapSpec => []HeapIndInv
<1>1. HeapInit => HeapIndInv
  BY HeapInitInv
<1>2. HeapIndInv /\ [HeapNext]_heapVars => HeapIndInv'
  BY HeapNextInv
<1> QED BY <1>1, <1>2, PTL DEF HeapSpec

\* The arrays hold indices inside their bounds (indexed_min_heap.hpp:93-96).
THEOREM HeapTyped == HeapSpec => []HeapTypeOK
BY HeapInductive, PTL DEF HeapIndInv

\* The three arrays describe the same entries, also while an entry is in hand
\* and after any removals and clears (indexed_min_heap.hpp:21-25, 45-53).
THEOREM Agreeing == HeapSpec => []PositionsAgree
BY HeapInductive, PTL DEF HeapIndInv

\* Between operations no entry is lighter than its parent
\* (indexed_min_heap.hpp:56-91).
THEOREM OrderedBetween == HeapSpec => []HeapOrdered
<1>1. HeapIndInv => HeapOrdered
  BY LiveFacts DEF HeapIndInv, Ordered, HeapOrdered, Held
<1> QED BY <1>1, HeapInductive, PTL

LEMMA EveryNodeIsLive ==
  ASSUME HeapIndInv, loop = "idle", NEW n \in Ids, IsFull
  PROVE  IsLive(n)
<1> USE CapacityAssumption
<1> SUFFICES ASSUME ~IsLive(n) PROVE FALSE
  OBVIOUS
<1>1. count = Capacity /\ Live = Slots /\ Held = Live
  BY DEF HeapIndInv, HeapTypeOK, IsFull, Live, Slots, Held
<1>2. nodes \in [Slots -> Ids \ {n}]
  BY <1>1 DEF HeapIndInv, HeapTypeOK, IsLive
<1>3. IsFiniteSet(Slots) /\ Cardinality(Slots) = Capacity /\ Slots = Ids
  BY FS_Interval DEF Slots, Ids
<1>4. IsFiniteSet(Ids \ {n}) /\ Cardinality(Ids \ {n}) < Cardinality(Slots)
  <2>1. n \in Ids /\ IsFiniteSet(Ids) /\ Cardinality(Ids) = Capacity
    BY <1>3
  <2>2. IsFiniteSet(Ids \ {n}) /\ Cardinality(Ids \ {n}) = Capacity - 1
    BY <2>1, FS_RemoveElement
  <2> QED BY <1>3, <2>2
<1>5. PICK x \in Slots, y \in Slots : x # y /\ nodes[x] = nodes[y]
  BY <1>2, <1>3, <1>4, FS_PigeonHole
<1> QED BY <1>1, <1>5 DEF HeapIndInv, PositionsAgree

\* Node count is an exact capacity: a node without an entry can always be added
\* (indexed_min_heap.hpp:10-11, 28-29).
THEOREM Exact == HeapSpec => []CapacityIsExact
<1>1. HeapIndInv => CapacityIsExact
  BY EveryNodeIsLive DEF CapacityIsExact
<1> QED BY <1>1, HeapInductive, PTL

-----------------------------------------------------------------------------
(* The heap implements the abstract queue. *)

\* The root is an entry of least weight: otherwise the first lighter slot would
\* have a lighter parent.
LEMMA RootIsLeast ==
  ASSUME HeapIndInv, loop = "idle", NEW k \in Live
  PROVE  weights[0] <= weights[k]
<1> DEFINE T == {m \in Live : ~ weights[0] <= weights[m]}
<1> SUFFICES ASSUME T # {} PROVE FALSE
  OBVIOUS
<1>1. count \in Nat /\ Live \subseteq Nat /\ Live \subseteq Slots
  BY LiveFacts DEF HeapIndInv
<1>2. 0 \in Live /\ \A m \in Live : weights[m] \in Int
  <2>1. 0 \in Live
    BY <1>1 DEF Live
  <2>2. \A m \in Live : weights[m] \in Int
    BY <1>1, WeightsAssumption DEF HeapIndInv, HeapTypeOK
  <2> QED BY <2>1, <2>2
<1>3. PICK m \in T : \A j \in T : m <= j
  BY <1>1, LeastMember
<1>4. m \in Live /\ m \in Nat /\ m > 0 /\ ~ weights[0] <= weights[m]
  BY <1>1, <1>2, <1>3
<1>5. Parent(m) \in Live /\ Parent(m) < m
  BY <1>4, LiveFacts DEF HeapIndInv
<1>6. weights[Parent(m)] <= weights[m]
  BY <1>4, <1>5 DEF HeapIndInv, Ordered, Held
<1>7. ~ weights[0] <= weights[Parent(m)]
  <2>1. weights[0] \in Int /\ weights[m] \in Int /\ weights[Parent(m)] \in Int
    BY <1>2, <1>4, <1>5
  <2> QED BY <1>4, <1>6, <2>1
<1>8. m <= Parent(m)
  BY <1>3, <1>5, <1>7
<1>9. Parent(m) \in Nat
  BY <1>1, <1>5
<1> QED BY <1>4, <1>5, <1>8, <1>9

\* What the mapped queue holds, without the CHOOSE of its definition.
QueueHolds ==
  /\ contents = [n \in LiveNodes |-> contents[n]]
  /\ \A k \in Held : contents[nodes[k]] = weights[k]
  /\ loop # "idle" => contents[node] = key

LEMMA QueueIs == HeapIndInv => QueueHolds
<1> SUFFICES ASSUME HeapIndInv PROVE QueueHolds
  OBVIOUS
<1>1. contents = [n \in LiveNodes |-> contents[n]]
  BY DEF contents
<1>2. ASSUME NEW k \in Held PROVE contents[nodes[k]] = weights[k]
  <2>1. nodes[k] \in LiveNodes /\ ~ (loop # "idle" /\ nodes[k] = node)
    BY DEF LiveNodes, HeapIndInv, PositionsAgree
  <2>2. \A m \in Held : nodes[m] = nodes[k] => m = k
    BY DEF HeapIndInv, PositionsAgree
  <2>3. (CHOOSE m \in Held : nodes[m] = nodes[k]) = k
    BY <2>2
  <2> QED BY <2>1, <2>3 DEF contents
<1>3. loop # "idle" => contents[node] = key
  BY DEF contents, LiveNodes
<1> QED BY <1>1, <1>2, <1>3 DEF QueueHolds

LEMMA QueueIsNext == HeapIndInv' => QueueHolds'
BY QueueIs, PTL

\* A sift loop moves entries between slots and the hand, and changes none.
LEMMA MoveKeepsQueue ==
  ASSUME HeapIndInv, HeapIndInv', loop # "idle", NEW c \in Held, MoveFrom(c), UNCHANGED <<count, popped>>
  PROVE  UNCHANGED <<contents, popped>>
<1>1. /\ slot \in Live /\ c \in Live /\ c # slot /\ Live \subseteq Slots
      /\ Held = Live \ {slot} /\ Held' = Live \ {c}
  BY LiveFacts DEF HeapIndInv, HeapTypeOK, MoveFrom, Held, Live
<1>2. /\ loop' = loop /\ node' = node /\ key' = key
      /\ weights' = [weights EXCEPT ![slot] = weights[c]]
      /\ nodes' = [nodes EXCEPT ![slot] = nodes[c]]
  BY DEF MoveFrom
<1>3. /\ nodes'[slot] = nodes[c] /\ weights'[slot] = weights[c]
      /\ \A k \in Live : k # slot => nodes'[k] = nodes[k] /\ weights'[k] = weights[k]
  BY <1>1, <1>2 DEF HeapIndInv, HeapTypeOK
<1>4. LiveNodes' = LiveNodes
  BY <1>1, <1>2, <1>3 DEF LiveNodes
<1>5. ASSUME NEW n \in LiveNodes PROVE contents'[n] = contents[n]
  <2>1. CASE n = node
    BY <1>2, <2>1, QueueIs, QueueIsNext DEF QueueHolds
  <2>2. CASE n # node
    <3>1. PICK k \in Held : n = nodes[k]
      BY <2>2 DEF LiveNodes
    <3>2. CASE k = c
      BY <1>1, <1>3, <3>1, <3>2, QueueIs, QueueIsNext DEF QueueHolds
    <3>3. CASE k # c
      BY <1>1, <1>3, <3>1, <3>3, QueueIs, QueueIsNext DEF QueueHolds
    <3> QED BY <3>2, <3>3
  <2> QED BY <2>1, <2>2
<1>6. contents' = contents
  BY <1>4, <1>5, QueueIs, QueueIsNext DEF QueueHolds
<1> QED BY <1>6

LEMMA PlaceKeepsQueue ==
  ASSUME HeapIndInv, HeapIndInv', loop # "idle", Place, UNCHANGED <<count, popped>>
  PROVE  UNCHANGED <<contents, popped>>
<1>1. /\ slot \in Live /\ Live \subseteq Slots /\ loop' = "idle"
      /\ Held = Live \ {slot} /\ Held' = Live
  BY LiveFacts DEF HeapIndInv, HeapTypeOK, Place, Sift, Held, Live
<1>2. /\ nodes'[slot] = node /\ weights'[slot] = key
      /\ \A k \in Live : k # slot => nodes'[k] = nodes[k] /\ weights'[k] = weights[k]
  BY <1>1 DEF HeapIndInv, HeapTypeOK, Place
<1>3. LiveNodes' = LiveNodes
  BY <1>1, <1>2 DEF LiveNodes
<1>4. ASSUME NEW n \in LiveNodes PROVE contents'[n] = contents[n]
  <2>1. CASE n = node
    BY <1>1, <1>2, <2>1, QueueIs, QueueIsNext DEF QueueHolds
  <2>2. CASE n # node
    <3>1. PICK k \in Held : n = nodes[k]
      BY <2>2 DEF LiveNodes
    <3> QED BY <1>1, <1>2, <3>1, QueueIs, QueueIsNext DEF QueueHolds
  <2> QED BY <2>1, <2>2
<1>5. contents' = contents
  BY <1>3, <1>4, QueueIs, QueueIsNext DEF QueueHolds
<1> QED BY <1>5

LEMMA InsertIsQAdd ==
  ASSUME HeapIndInv, HeapIndInv', loop = "idle", NEW n \in Ids, NEW w \in Weights, ~IsLive(n),
         Insert(n, w), UNCHANGED <<arrays, popped>>
  PROVE  Queue!QAdd(n, w)
<1>1. /\ count \in Nat /\ Held = Live /\ Held' = Live
      /\ loop' = "up" /\ node' = n /\ key' = w /\ nodes' = nodes /\ weights' = weights
  BY LiveFacts DEF HeapIndInv, HeapTypeOK, Insert, Sift, arrays, Held, Live
<1>2. n \notin LiveNodes /\ LiveNodes' = LiveNodes \cup {n}
  BY <1>1 DEF LiveNodes, IsLive
<1>3. DOMAIN contents = LiveNodes
  BY QueueIs DEF QueueHolds
<1>4. ASSUME NEW m \in LiveNodes' PROVE contents'[m] = IF m = n THEN w ELSE contents[m]
  <2>1. CASE m = n
    BY <1>1, <2>1, QueueIsNext DEF QueueHolds
  <2>2. CASE m # n
    <3>1. PICK k \in Held : m = nodes[k]
      BY <1>1, <1>2, <2>2 DEF LiveNodes
    <3> QED BY <1>1, <2>2, <3>1, QueueIs, QueueIsNext DEF QueueHolds
  <2> QED BY <2>1, <2>2
<1>5. contents' = Queue!Put(contents, n, w)
  BY <1>2, <1>3, <1>4, QueueIsNext DEF Queue!Put, QueueHolds
<1> QED BY <1>2, <1>3, <1>5 DEF Queue!QAdd

LEMMA LowerIsQDecreaseKey ==
  ASSUME HeapIndInv, HeapIndInv', loop = "idle", NEW n \in Ids, NEW w \in Weights,
         position[n] >= 0, w < weights[position[n]],
         Sift("up", position[n], n, w), UNCHANGED <<arrays, count, popped>>
  PROVE  Queue!QDecreaseKey(n, w)
<1> DEFINE s == position[n]
<1>1. /\ Held = Live /\ Held' = Live \ {s} /\ s \in Live /\ nodes[s] = n
      /\ loop' = "up" /\ node' = n /\ key' = w /\ nodes' = nodes /\ weights' = weights
  BY DEF HeapIndInv, PositionsAgree, Sift, arrays, Held, Live
<1>2. \A k \in Live : nodes[k] = n => k = s
  BY <1>1 DEF HeapIndInv, PositionsAgree
<1>3. n \in LiveNodes /\ LiveNodes' = LiveNodes \cup {n} /\ DOMAIN contents = LiveNodes
  <2>1. n \in LiveNodes /\ DOMAIN contents = LiveNodes
    BY <1>1, QueueIs DEF LiveNodes, QueueHolds
  <2>2. LiveNodes' = {nodes[k] : k \in Live \ {s}} \cup {n}
    BY <1>1 DEF LiveNodes
  <2>3. LiveNodes = {nodes[k] : k \in Live}
    BY <1>1 DEF LiveNodes
  <2> QED BY <1>1, <2>1, <2>2, <2>3
<1>4. ASSUME NEW m \in LiveNodes' PROVE contents'[m] = IF m = n THEN w ELSE contents[m]
  <2>1. CASE m = n
    BY <1>1, <2>1, QueueIsNext DEF QueueHolds
  <2>2. CASE m # n
    <3>1. PICK k \in Held' : m = nodes[k]
      BY <1>1, <2>2 DEF LiveNodes
    <3> QED BY <1>1, <2>2, <3>1, QueueIs, QueueIsNext DEF QueueHolds
  <2> QED BY <2>1, <2>2
<1>5. contents' = Queue!Put(contents, n, w)
  BY <1>3, <1>4, QueueIsNext DEF Queue!Put, QueueHolds
<1>6. ~ w >= contents[n]
  <2>1. contents[n] = weights[s]
    BY <1>1, QueueIs DEF QueueHolds
  <2>2. w \in Int /\ weights[s] \in Int
    BY <1>1, LiveFacts, WeightsAssumption DEF HeapIndInv, HeapTypeOK
  <2> QED BY <2>1, <2>2
<1>7. popped' = popped
  OBVIOUS
<1> HIDE DEF s
<1> QED BY <1>5, <1>6, <1>7 DEF Queue!QDecreaseKey

LEMMA RemoveMinIsQRemoveMin ==
  ASSUME HeapIndInv, HeapIndInv', RemoveMin
  PROVE  nodes[0] \in Ids /\ Queue!QRemoveMin(nodes[0])
<1> DEFINE last == count - 1
<1>1. /\ loop = "idle" /\ count \in Nat /\ count > 0 /\ last \in Nat /\ count' = last
      /\ 0 \in Live /\ last \in Live /\ Live \subseteq Slots /\ Held = Live
      /\ Live' = Live \ {last}
      /\ nodes' = nodes /\ weights' = weights
  BY LiveFacts DEF RemoveMin, HeapIndInv, HeapTypeOK, Held, Live
<1>2. /\ LiveNodes = {nodes[k] : k \in Live} /\ DOMAIN contents = LiveNodes
      /\ \A k \in Live : nodes[k] = nodes[0] => k = 0
  BY <1>1, QueueIs DEF LiveNodes, QueueHolds, HeapIndInv, PositionsAgree
<1>3. nodes[0] \in Queue!Lightest(contents) /\ contents[nodes[0]] = weights[0]
  <2>1. \A k \in Live : contents[nodes[k]] = weights[k] /\ weights[0] <= weights[k]
    BY <1>1, RootIsLeast, QueueIs DEF QueueHolds
  <2> QED BY <1>1, <1>2, <2>1 DEF Queue!Lightest
<1>4. /\ LiveNodes' = LiveNodes \ {nodes[0]}
      /\ \A m \in LiveNodes' : contents'[m] = contents[m]
  <2>1. CASE last > 0
    <3>1. loop' = "down" /\ slot' = 0 /\ node' = nodes[last] /\ key' = weights[last]
      BY <1>1, <2>1 DEF RemoveMin, Sift
    <3>2. Held' = Live \ {0, last} /\ 0 # last
      BY <1>1, <2>1, <3>1 DEF Held
    <3>3. LiveNodes' = {nodes[k] : k \in Live \ {0, last}} \cup {nodes[last]}
      BY <1>1, <3>1, <3>2 DEF LiveNodes
    <3> HIDE DEF last
    <3>4. LiveNodes' = LiveNodes \ {nodes[0]}
      BY <1>1, <1>2, <3>2, <3>3
    <3>5. ASSUME NEW k \in Live, k # 0 PROVE contents'[nodes[k]] = contents[nodes[k]]
      BY <1>1, <3>1, <3>2, <3>5, QueueIs, QueueIsNext DEF QueueHolds
    <3> QED BY <1>2, <3>4, <3>5
  <2>2. CASE last = 0
    <3>1. loop' = "idle" /\ Live = {0} /\ Held' = {}
      BY <1>1, <2>2 DEF RemoveMin, hand, Live, Held
    <3> QED BY <1>2, <3>1 DEF LiveNodes
  <2> QED BY <1>1, <2>1, <2>2
<1>5. contents' = Queue!Restrict(contents, DOMAIN contents \ {nodes[0]})
  BY <1>2, <1>4, QueueIsNext DEF Queue!Restrict, QueueHolds
<1>6. popped' = [node |-> nodes[0], weight |-> contents[nodes[0]]]
  BY <1>3 DEF RemoveMin
<1>7. nodes[0] \in Ids
  BY <1>1 DEF HeapIndInv, HeapTypeOK
<1> QED BY <1>3, <1>5, <1>6, <1>7 DEF Queue!QRemoveMin

LEMMA ClearIsQClear ==
  ASSUME HeapIndInv, HeapIndInv', Clear
  PROVE  Queue!QClear
<1>1. LiveNodes' = {} /\ popped' = popped
  BY DEF Clear, LiveNodes, Held, Live
<1>2. contents' = [n \in {} |-> 0]
  BY <1>1, QueueIsNext DEF QueueHolds
<1> QED BY <1>1, <1>2 DEF Queue!QClear, Queue!Empty

LEMMA InitIsQInit ==
  ASSUME HeapInit
  PROVE  Queue!QInit
<1>1. LiveNodes = {} /\ popped = [node |-> -1, weight |-> 0]
  BY DEF HeapInit, LiveNodes, Held, Live
<1>2. contents = [n \in {} |-> 0]
  BY <1>1, HeapInitInv, QueueIs DEF QueueHolds
<1> QED BY <1>1, <1>2 DEF Queue!QInit, Queue!Empty, Queue!NoneTaken

LEMMA LoopKeepsQueue ==
  ASSUME HeapIndInv, HeapIndInv', Loop
  PROVE  UNCHANGED <<contents, popped>>
<1>1. CASE SiftUp
  <2>1. slot > 0 => Parent(slot) \in Held
    BY <1>1, LiveFacts DEF SiftUp, HeapIndInv, HeapTypeOK, Held
  <2> QED BY <1>1, <2>1, MoveKeepsQueue, PlaceKeepsQueue DEF SiftUp
<1>2. CASE SiftDown
  <2>1. Left(slot) < count => SmallestChild \in Held
    <3>1. slot \in Nat /\ slot \in Live /\ count \in Nat
      BY <1>2, LiveFacts DEF SiftDown, HeapIndInv, HeapTypeOK
    <3>2. Left(slot) \in Nat /\ Left(slot) > slot
      BY <3>1, LeftFacts
    <3>3. Left(slot) < count => SmallestChild \in Live /\ SmallestChild # slot
      BY <3>1, <3>2 DEF SmallestChild, Live
    <3> QED BY <1>2, <3>3 DEF SiftDown, Held
  <2> QED BY <1>2, <2>1, MoveKeepsQueue, PlaceKeepsQueue DEF SiftDown
<1> QED BY <1>1, <1>2 DEF Loop

LEMMA StepIsQStep ==
  ASSUME HeapIndInv, [HeapNext]_heapVars
  PROVE  [Queue!QNext]_<<contents, popped>>
<1>0. HeapIndInv'
  BY HeapNextInv
<1>1. ASSUME NEW n \in Ids, NEW w \in Weights, Add(n, w)
      PROVE  Queue!QNext
  BY <1>0, <1>1, InsertIsQAdd DEF Add, Queue!QNext
<1>2. ASSUME NEW n \in Ids, NEW w \in Weights, DecreaseKey(n, w)
      PROVE  Queue!QNext
  <2>1. loop = "idle" /\ UNCHANGED <<arrays, popped>>
    BY <1>2 DEF DecreaseKey
  <2>2. CASE position[n] < 0
    <3>1. Insert(n, w)
      BY <1>2, <2>2 DEF DecreaseKey
    <3>2. ~IsLive(n)
      BY <2>1, <2>2, LiveFacts DEF HeapIndInv, PositionsAgree, IsLive, Held
    <3> QED BY <1>0, <2>1, <3>1, <3>2, InsertIsQAdd DEF Queue!QNext
  <2>3. CASE ~ position[n] < 0
    <3>1. position[n] >= 0
      BY <2>3, CapacityAssumption DEF HeapIndInv, HeapTypeOK, Slots
    <3>2. w < weights[position[n]] /\ Sift("up", position[n], n, w) /\ UNCHANGED <<arrays, count, popped>>
      BY <1>2, <2>3 DEF DecreaseKey
    <3> QED BY <1>0, <2>1, <3>1, <3>2, LowerIsQDecreaseKey DEF Queue!QNext
  <2> QED BY <2>2, <2>3
<1>3. CASE RemoveMin
  BY <1>0, <1>3, RemoveMinIsQRemoveMin DEF Queue!QNext
<1>4. CASE Clear
  BY <1>0, <1>4, ClearIsQClear DEF Queue!QNext
<1>5. CASE Loop
  BY <1>0, <1>5, LoopKeepsQueue
<1>6. CASE UNCHANGED heapVars
  BY <1>6 DEF heapVars, arrays, hand, contents, LiveNodes, Held, Live
<1> QED BY <1>1, <1>2, <1>3, <1>4, <1>5, <1>6 DEF HeapNext, Operation

\* Every behaviour of the heap is one of the abstract queue: remove_min returns
\* an entry of least weight and the sift loops lose, add and change none
\* (indexed_min_heap.hpp:21-91).
THEOREM Implements == HeapSpec => ImplementsMinQueue
<1>1. HeapInit => Queue!QInit
  BY InitIsQInit
<1>2. HeapIndInv /\ [HeapNext]_heapVars => [Queue!QNext]_<<contents, popped>>
  BY StepIsQStep
<1> QED BY <1>1, <1>2, HeapInductive, PTL DEF HeapSpec, ImplementsMinQueue, Queue!QSpec

-----------------------------------------------------------------------------
(* The search.                                                             *)

\* The costs the solver can compute: what Plus makes of them is not smaller.
OnGrid(c) == c \in Nat /\ (c <= Precision \/ \E h \in Nat : c = 2 * h)

\* Settled costs, the taken cost and the costs in the heap come in this order.
Ascending ==
  pc = "search" =>
    /\ OnGrid(taken.weight)
    /\ \A n \in Nodes : state[n] = 1 => rows[n].cost \in Nat /\ rows[n].cost <= taken.weight
    /\ \A n \in DOMAIN queue : OnGrid(queue[n]) /\ taken.weight <= queue[n]

\* The loop over the destinations starts at the first, and searches for one.
LoopOK ==
  /\ pc = "idle" => at = 1
  /\ pc = "search" /\ solving = "merged" => at <= Len(destinations)

IndInv == TypeOK /\ HeapHoldsOpen /\ Ascending /\ LoopOK

Rows == [next : Nodes \cup {-1}, edge : (1..Len(edges)) \cup {-1}, cost : Cost]

-----------------------------------------------------------------------------

LEMMA PlusGrows ==
  ASSUME NEW c, OnGrid(c), NEW w \in Nat
  PROVE  OnGrid(Plus(c, w)) /\ c <= Plus(c, w)
<1> USE PrecisionAssumption
<1>1. CASE c + w <= Precision
  BY <1>1 DEF OnGrid, Plus
<1>2. CASE ~ c + w <= Precision
  <2>1. (c + w) \div 2 \in Nat /\ 2 * ((c + w) \div 2) >= c + w - 1 /\ Plus(c, w) = 2 * ((c + w) \div 2)
    BY <1>2 DEF OnGrid, Plus
  <2>2. CASE c <= Precision
    BY <1>2, <2>1, <2>2 DEF OnGrid
  <2>3. CASE \E h \in Nat : c = 2 * h
    BY <2>1, <2>3 DEF OnGrid
  <2> QED BY <2>2, <2>3 DEF OnGrid
<1> QED BY <1>1, <1>2

LEMMA EdgesTyped ==
  ASSUME TypeOK, NEW e \in 1..Len(edges)
  PROVE  edges[e].from \in Nodes /\ edges[e].to \in Nodes
<1>1. edges \in Seq([from : Nodes, to : Nodes])
  BY EdgeAssumption DEF TypeOK
<1>2. edges[e] \in [from : Nodes, to : Nodes]
  BY <1>1, ElementOfSeq
<1> QED BY <1>2

LEMMA InitInv == Init => IndInv
<1> SUFFICES ASSUME Init PROVE IndInv
  OBVIOUS
<1> USE DEF Init, Q!Empty, Q!NoneTaken
<1>1. DOMAIN queue = {}
  OBVIOUS
<1>2. NoTable \in [Nodes -> Rows]
  BY DEF NoTable, NoRow, Rows, Cost, Unreached
<1>3. TypeOK
  BY <1>1, <1>2 DEF TypeOK, Rows
<1> QED BY <1>3 DEF IndInv, HeapHoldsOpen, Ascending, LoopOK

LEMMA StartSearchInv ==
  ASSUME TypeOK, NEW ds \in SUBSET Nodes, StartSearch(ds),
         UNCHANGED edges, weight' \in [1..Len(edges) -> EdgeWeights],
         destinations' \in Seq(Nodes), at' \in 1..(Len(destinations') + 1),
         table' \in [Nodes -> Rows], solving' \in {"none", "nearest", "merged"},
         solving' = "merged" => at' <= Len(destinations')
  PROVE  IndInv'
<1>1. /\ rows' = Started(ds) /\ rest' = {} /\ pc' = "search"
      /\ state' = [n \in Nodes |-> IF n \in ds THEN 2 ELSE 0]
      /\ queue' = [n \in ds |-> 0] /\ DOMAIN queue' = ds
      /\ taken' = [node |-> -1, weight |-> 0]
  BY DEF StartSearch, Q!NoneTaken
<1>2. rows' \in [Nodes -> Rows]
  BY <1>1, NodeAssumption DEF Started, AtEnd, NoRow, Rows, Cost, Unreached, Nodes
<1>3. TypeOK'
  BY <1>1, <1>2 DEF TypeOK, Rows
<1>4. HeapHoldsOpen'
  BY <1>1 DEF HeapHoldsOpen, Started, AtEnd
<1>5. Ascending'
  BY <1>1, PrecisionAssumption DEF Ascending, OnGrid
<1> QED BY <1>1, <1>3, <1>4, <1>5 DEF IndInv, LoopOK

LEMMA TakeInv ==
  ASSUME IndInv, NEW n \in Nodes, Take(n)
  PROVE  IndInv'
<1>1. /\ pc = "search" /\ rest = {} /\ n \in DOMAIN queue
      /\ \A m \in DOMAIN queue : queue[n] <= queue[m]
      /\ taken' = [node |-> n, weight |-> queue[n]]
      /\ queue' = [m \in DOMAIN queue \ {n} |-> queue[m]]
      /\ UNCHANGED <<network, at, rows, table, pc>>
  BY DEF Take, Q!QRemoveMin, Q!Lightest, Q!Restrict
<1>2. /\ \A m \in DOMAIN queue : queue[m] \in Nat /\ OnGrid(queue[m])
      /\ state[n] = 2 /\ rows[n].cost = queue[n]
  BY <1>1 DEF IndInv, TypeOK, HeapHoldsOpen, Ascending
<1>3. state' = [state EXCEPT ![n] = 1] /\ rest' = Incoming(n)
  BY <1>2 DEF Take
<1>4. TypeOK'
  BY <1>1, <1>2, <1>3 DEF IndInv, TypeOK, network, Incoming
<1>5. HeapHoldsOpen'
  BY <1>1, <1>2, <1>3 DEF IndInv, HeapHoldsOpen, TypeOK
<1>6. Ascending'
  <2>1. ASSUME NEW m \in Nodes, state'[m] = 1
        PROVE  rows[m].cost \in Nat /\ rows[m].cost <= queue[n]
    <3>1. CASE m = n
      BY <1>1, <1>2, <3>1
    <3>2. CASE m # n
      <4>1. state[m] = 1
        BY <1>3, <2>1, <3>2 DEF IndInv, TypeOK
      <4>2. /\ rows[m].cost \in Nat /\ rows[m].cost <= taken.weight
            /\ taken.weight <= queue[n] /\ taken.weight \in Nat
        BY <1>1, <4>1 DEF IndInv, Ascending, OnGrid
      <4> QED BY <1>1, <1>2, <4>2
    <3> QED BY <3>1, <3>2
  <2> QED BY <1>1, <1>2, <2>1 DEF Ascending, network
<1>7. LoopOK'
  BY <1>1 DEF IndInv, LoopOK, network
<1> QED BY <1>4, <1>5, <1>6, <1>7 DEF IndInv

LEMMA RelaxFacts ==
  ASSUME IndInv, NEW e \in 1..Len(edges), Relax(e)
  PROVE  LET from == edges[e].from
             cost == Plus(taken.weight, weight[e])
         IN  /\ from \in Nodes /\ cost \in Nat /\ OnGrid(cost) /\ taken.weight <= cost
             /\ taken.weight \in Nat
             /\ Improves(cost, from) => state[from] # 1
<1> DEFINE from == edges[e].from
           cost == Plus(taken.weight, weight[e])
<1>1. pc = "search" /\ from \in Nodes /\ weight[e] \in Nat
  BY EdgesTyped, EdgeAssumption DEF Relax, IndInv, TypeOK
<1>2. OnGrid(taken.weight) /\ taken.weight \in Nat
  BY <1>1 DEF IndInv, Ascending, OnGrid
<1>3. OnGrid(cost) /\ taken.weight <= cost /\ cost \in Nat
  BY <1>1, <1>2, PlusGrows DEF OnGrid
<1> HIDE DEF from, cost
<1>4. state[from] = 1 => ~Improves(cost, from)
  BY <1>1, <1>2, <1>3 DEF IndInv, Ascending, Improves, Less, Unreached
<1> QED BY <1>1, <1>2, <1>3, <1>4 DEF from, cost

LEMMA RelaxInv ==
  ASSUME IndInv, NEW e \in 1..Len(edges), Relax(e)
  PROVE  IndInv'
<1> DEFINE from == edges[e].from
           cost == Plus(taken.weight, weight[e])
           row  == [next |-> edges[e].to, edge |-> e, cost |-> cost]
<1>1. /\ from \in Nodes /\ cost \in Nat /\ OnGrid(cost) /\ taken.weight <= cost
      /\ Improves(cost, from) => state[from] # 1
  BY RelaxFacts
<1>2. /\ pc = "search" /\ rest' = rest \ {e} /\ UNCHANGED <<network, at, table, pc>>
      /\ edges[e].to \in Nodes
  BY EdgesTyped DEF Relax, IndInv
<1>3. CASE ~Improves(cost, from)
  <2>1. UNCHANGED <<queue, taken, rows, state>>
    BY <1>3 DEF Relax
  <2> QED BY <1>2, <2>1 DEF IndInv, TypeOK, HeapHoldsOpen, Ascending, LoopOK, network
<1>4. CASE Improves(cost, from)
  <2>1. rows' = [rows EXCEPT ![from] = row] /\ Requeue(from, cost)
    BY <1>4 DEF Relax
  <2>2. /\ queue' = [m \in DOMAIN queue \cup {from} |-> IF m = from THEN cost ELSE queue[m]]
        /\ taken' = taken
        /\ state' = [state EXCEPT ![from] = 2]
    <3>1. CASE state[from] # 2
      BY <2>1, <3>1 DEF Requeue, Q!QAdd, Q!Put
    <3>2. CASE state[from] = 2
      <4>1. from \in DOMAIN queue /\ queue[from] = rows[from].cost /\ queue[from] \in Nat
        BY <1>1, <1>2, <3>2 DEF IndInv, HeapHoldsOpen, TypeOK
      <4>2. ~ cost >= queue[from]
        BY <1>1, <1>4, <4>1 DEF Improves, Less, Unreached
      <4>3. /\ queue' = Q!Put(queue, from, cost) /\ taken' = taken /\ state' = state
        BY <2>1, <3>2, <4>1, <4>2 DEF Requeue, Q!QDecreaseKey
      <4> QED BY <1>1, <3>2, <4>3 DEF Q!Put, IndInv, TypeOK
    <3> QED BY <3>1, <3>2
  <2>3. row \in Rows /\ row.cost = cost
    BY <1>1, <1>2 DEF Rows, Cost
  <2> HIDE DEF row, cost, from
  <2>4. TypeOK'
    <3>1. rows' \in [Nodes -> Rows]
      BY <1>1, <2>1, <2>3 DEF IndInv, TypeOK, Rows
    <3>2. state' \in [Nodes -> 0..2]
      BY <1>1, <2>2 DEF IndInv, TypeOK
    <3>3. DOMAIN queue' \subseteq Nodes /\ \A n \in DOMAIN queue' : queue'[n] \in Nat
      BY <1>1, <2>2 DEF IndInv, TypeOK
    <3> QED BY <1>2, <2>2, <3>1, <3>2, <3>3 DEF IndInv, TypeOK, Rows, network
  <2>5. HeapHoldsOpen'
    BY <1>1, <1>2, <2>1, <2>2, <2>3 DEF IndInv, HeapHoldsOpen, TypeOK
  <2>6. Ascending'
    BY <1>1, <1>2, <1>4, <2>1, <2>2 DEF IndInv, Ascending, TypeOK
  <2>7. LoopOK'
    BY <1>2 DEF IndInv, LoopOK, network
  <2> QED BY <2>4, <2>5, <2>6, <2>7 DEF IndInv
<1> QED BY <1>3, <1>4

LEMMA ExhaustedInv ==
  ASSUME IndInv, Exhausted
  PROVE  IndInv'
<1>1. /\ pc = "search" /\ UNCHANGED <<network, search>> /\ pc' \in {"merge", "done"}
  BY DEF Exhausted
<1>2. table' \in [Nodes -> Rows]
  <2>1. rows \in [Nodes -> Rows] /\ table \in [Nodes -> Rows]
    BY DEF IndInv, TypeOK, Rows
  <2>2. Merged(table, rows) \in [Nodes -> Rows]
    BY <2>1 DEF Merged
  <2> QED BY <2>1, <2>2 DEF Exhausted
<1>3. at' \in 1..(Len(destinations) + 1)
  <2>1. at \in 1..(Len(destinations) + 1) /\ Len(destinations) \in Nat
    BY DEF IndInv, TypeOK
  <2>2. CASE solving = "merged"
    BY <1>1, <2>1, <2>2 DEF Exhausted, IndInv, LoopOK
  <2>3. CASE solving # "merged"
    BY <2>1, <2>3 DEF Exhausted
  <2> QED BY <2>2, <2>3
<1>4. TypeOK'
  BY <1>1, <1>2, <1>3 DEF IndInv, TypeOK, network, search, Rows
<1> QED BY <1>1, <1>4 DEF IndInv, HeapHoldsOpen, Ascending, LoopOK

LEMMA CallInv ==
  ASSUME IndInv, NEW ds \in DestinationLists, NEW w \in [1..Len(edges) -> EdgeWeights],
         SolveNearest(ds, w) \/ SolveMerged(ds, w)
  PROVE  IndInv'
<1>1. /\ ds \in Seq(Nodes) /\ ToSet(ds) \in SUBSET Nodes /\ Len(ds) \in Nat
      /\ pc = "idle" /\ at = 1
  BY DestinationAssumption, ElementOfSeq DEF ToSet, SolveNearest, SolveMerged, IndInv, LoopOK
<1>2. table \in [Nodes -> Rows]
  BY DEF IndInv, TypeOK, Rows
<1>3. CASE SolveNearest(ds, w)
  <2>1. /\ UNCHANGED <<edges, at, table>> /\ destinations' = ds /\ weight' = w
        /\ solving' = "nearest" /\ StartSearch(ToSet(ds))
    BY <1>3 DEF SolveNearest
  <2>2. Rows' = Rows
    BY <2>1 DEF Rows
  <2> QED BY <1>1, <1>2, <2>1, <2>2, StartSearchInv DEF IndInv
<1>4. CASE SolveMerged(ds, w)
  <2>1. NoTable \in [Nodes -> Rows]
    BY DEF NoTable, NoRow, Rows, Cost, Unreached
  <2>2. /\ UNCHANGED <<edges, at, search>> /\ destinations' = ds /\ weight' = w
        /\ solving' = "merged" /\ table' = NoTable /\ pc' = "merge"
    BY <1>4 DEF SolveMerged
  <2>3. TypeOK'
    BY <1>1, <2>1, <2>2 DEF IndInv, TypeOK, search, Rows
  <2> QED BY <2>2, <2>3 DEF IndInv, HeapHoldsOpen, Ascending, LoopOK
<1> QED BY <1>3, <1>4

LEMMA NextDestinationInv ==
  ASSUME IndInv, NextDestination
  PROVE  IndInv'
<1>1. /\ UNCHANGED <<edges, weight, solving, destinations, at, table>>
      /\ pc = "merge" /\ at <= Len(destinations) /\ StartSearch({destinations[at]})
  BY DEF NextDestination, network
<1>2. at \in 1..Len(destinations) /\ destinations[at] \in Nodes
  BY <1>1, ElementOfSeq DEF IndInv, TypeOK
<1>3. /\ weight \in [1..Len(edges) -> EdgeWeights] /\ table \in [Nodes -> Rows]
      /\ solving \in {"none", "nearest", "merged"} /\ destinations \in Seq(Nodes)
      /\ at \in 1..(Len(destinations) + 1) /\ TypeOK
  BY <1>1 DEF IndInv, TypeOK, Rows
<1>4. Rows' = Rows
  BY <1>1 DEF Rows
<1> QED BY <1>1, <1>2, <1>3, <1>4, StartSearchInv

LEMMA ReturnInv ==
  ASSUME IndInv, Return
  PROVE  IndInv'
<1>1. NoTable \in [Nodes -> Rows]
  BY DEF NoTable, NoRow, Rows, Cost, Unreached
<1>2. DOMAIN queue' = {}
  BY DEF Return, NoSearch, Q!Empty
<1>3. TypeOK'
  BY <1>1, <1>2 DEF Return, NoSearch, Q!Empty, Q!NoneTaken, IndInv, TypeOK, Rows
<1> QED BY <1>3 DEF Return, IndInv, HeapHoldsOpen, Ascending, LoopOK

LEMMA NextInv == IndInv /\ [Next]_vars => IndInv'
<1> SUFFICES ASSUME IndInv, [Next]_vars PROVE IndInv'
  OBVIOUS
<1>1. CASE Call
  BY <1>1, CallInv DEF Call
<1>2. CASE NextDestination
  BY <1>2, NextDestinationInv
<1>3. CASE MergeDone
  BY <1>3 DEF MergeDone, IndInv, TypeOK, HeapHoldsOpen, Ascending, LoopOK, network, search
<1>4. CASE \E n \in Nodes : Take(n)
  BY <1>4, TakeInv
<1>5. CASE \E e \in 1..Len(edges) : Relax(e)
  BY <1>5, RelaxInv
<1>6. CASE Exhausted
  BY <1>6, ExhaustedInv
<1>7. CASE Return
  BY <1>7, ReturnInv
<1>8. CASE UNCHANGED vars
  BY <1>8 DEF vars, network, search, IndInv, TypeOK, HeapHoldsOpen, Ascending, LoopOK
<1> QED BY <1>1, <1>2, <1>3, <1>4, <1>5, <1>6, <1>7, <1>8 DEF Next, Solver

-----------------------------------------------------------------------------

\* The strengthening is an invariant of every solve (dijkstra.hpp:184-285).
THEOREM Inductive == Spec => []IndInv
  BY InitInv, NextInv, PTL DEF Spec

\* Every variable has its type: no node is taken, and no row written, outside of
\* the vectors of size node_count (dijkstra.hpp:186-217).
THEOREM Typed == Spec => []TypeOK
<1>1. IndInv => TypeOK
  BY DEF IndInv
<1> QED BY <1>1, Inductive, PTL

\* The state array and the heap agree on which nodes are open, at the distances
\* of the table (dijkstra.hpp:210-215).
THEOREM HeapIsOpen == Spec => []HeapHoldsOpen
<1>1. IndInv => HeapHoldsOpen
  BY DEF IndInv
<1> QED BY <1>1, Inductive, PTL

\* One step leaves a settled node, and its row, as they are.
LEMMA SettledStays ==
  ASSUME IndInv, [Next]_vars, pc = "search", NEW n \in Nodes, state[n] = 1
  PROVE  state'[n] = 1 /\ rows'[n] = rows[n]
<1> USE DEF IndInv, TypeOK
<1>1. CASE Call
  BY <1>1 DEF Call, SolveNearest, SolveMerged
<1>2. CASE NextDestination \/ MergeDone \/ Return
  BY <1>2 DEF NextDestination, MergeDone, Return
<1>3. ASSUME NEW m \in Nodes, Take(m) PROVE state'[n] = 1 /\ rows'[n] = rows[n]
  BY <1>3 DEF Take
<1>4. ASSUME NEW e \in 1..Len(edges), Relax(e) PROVE state'[n] = 1 /\ rows'[n] = rows[n]
  <2> DEFINE from == edges[e].from
             cost == Plus(taken.weight, weight[e])
  <2>1. from \in Nodes /\ (Improves(cost, from) => state[from] # 1)
    BY <1>4, RelaxFacts
  <2>2. CASE ~Improves(cost, from)
    BY <1>4, <2>2 DEF Relax
  <2>3. CASE Improves(cost, from)
    <3>1. n # from
      BY <2>1, <2>3
    <3>2. \E row : rows' = [rows EXCEPT ![from] = row]
      BY <1>4, <2>3 DEF Relax
    <3>3. state' = state \/ state' = [state EXCEPT ![from] = 2]
      BY <1>4, <2>3 DEF Relax, Requeue
    <3> HIDE DEF from
    <3> QED BY <3>1, <3>2, <3>3
  <2> QED BY <2>2, <2>3
<1>5. CASE Exhausted \/ UNCHANGED vars
  BY <1>5 DEF Exhausted, search, vars
<1> QED BY <1>1, <1>2, <1>3, <1>4, <1>5 DEF Next, Solver

\* No route ever runs through a row that becomes another: a settled node stays
\* settled, with its row, until the next search (dijkstra.hpp:193-217).
THEOREM Settled == Spec => SettledForGood
<1>1. IndInv /\ [Next]_vars =>
        [pc = "search" => \A n \in Nodes :
           state[n] = 1 => state'[n] = 1 /\ rows'[n] = rows[n]]_vars
  BY SettledStays
<1> QED BY <1>1, Inductive, PTL DEF Spec, SettledForGood

-----------------------------------------------------------------------------
(* Routes: what a table leads to, hop by hop.                              *)

\* Induction up to N, of the members of a set.
LEMMA Upwards ==
  ASSUME NEW N \in Nat, NEW T \in SUBSET (0..N), 0 \in T,
         \A k \in 1..N : k - 1 \in T => k \in T
  PROVE  T = 0..N
<1> DEFINE U == (0..N) \ T
<1> SUFFICES ASSUME U # {} PROVE FALSE
  OBVIOUS
<1>1. PICK k \in U : \A j \in U : k <= j
  <2>1. U \in SUBSET Nat
    OBVIOUS
  <2> HIDE DEF U
  <2> QED BY <2>1, LeastMember
<1>2. k \in 1..N /\ k - 1 \in 0..N
  BY <1>1
<1>3. k - 1 \in T
  BY <1>1, <1>2
<1> QED BY <1>1, <1>2, <1>3

\* A value and a function for each step define a sequence of values: if they do for n
\* steps, they do for n + 1.
Unfolded(N, V, v, G) ==
  {h \in [0..N -> V] : h[0] = v /\ \A k \in 1..N : h[k] = G[k][h[k - 1]]}

LEMMA Unfolding ==
  ASSUME NEW N \in Nat, NEW V, NEW v \in V, NEW G \in [1..N -> [V -> V]]
  PROVE  Unfolded(N, V, v, G) # {}
<1> DEFINE Upto(n) == \E h \in [0..N -> V] :
                        h[0] = v /\ \A k \in 1..N : k <= n => h[k] = G[k][h[k - 1]]
           T == {n \in 0..N : Upto(n)}
<1>1. 0 \in T
  <2> DEFINE h == [k \in 0..N |-> v]
  <2>1. h \in [0..N -> V] /\ h[0] = v /\ \A k \in 1..N : ~(k <= 0)
    OBVIOUS
  <2> HIDE DEF h
  <2> QED BY <2>1
<1>2. ASSUME NEW n \in 1..N, n - 1 \in T PROVE n \in T
  <2>1. PICK h \in [0..N -> V] :
          h[0] = v /\ \A k \in 1..N : k <= n - 1 => h[k] = G[k][h[k - 1]]
    BY <1>2
  <2> DEFINE g == [h EXCEPT ![n] = G[n][h[n - 1]]]
  <2>2. n \in 0..N /\ n - 1 \in 0..N /\ n # 0 /\ n \in 1..N
    OBVIOUS
  <2>3. g \in [0..N -> V] /\ g[n] = G[n][h[n - 1]] /\ \A k \in 0..N : k # n => g[k] = h[k]
    BY <2>2
  <2> HIDE DEF g
  <2>4. g[0] = v
    BY <2>1, <2>2, <2>3
  <2>5. ASSUME NEW k \in 1..N, k <= n PROVE g[k] = G[k][g[k - 1]]
    <3>1. k - 1 \in 0..N /\ k - 1 # n /\ g[k - 1] = h[k - 1]
      BY <2>3, <2>5
    <3>2. CASE k = n
      BY <2>3, <3>1, <3>2
    <3>3. CASE k # n
      <4>1. k <= n - 1 /\ k \in 0..N
        BY <2>5, <3>3
      <4> QED BY <2>1, <2>3, <3>1, <3>3, <4>1
    <3> QED BY <3>2, <3>3
  <2> QED BY <2>2, <2>3, <2>4, <2>5
<1>3. T = 0..N
  <2> HIDE DEF T
  <2>1. T \in SUBSET (0..N)
    BY DEF T
  <2> QED BY <1>1, <1>2, <2>1, Upwards
<1> HIDE DEF Upto
<1>4. Upto(N)
  <2>1. N \in T
    BY <1>3
  <2> QED BY <2>1
<1> QED BY <1>4 DEF Upto, Unfolded

\* The nodes a table has a route from, and a table whose routes stay among them.
Reached(t)  == {n \in Nodes : t[n].cost # Unreached}
Trusting(t) == \A n \in Reached(t) : t[n].edge # -1 => t[n].next \in Reached(t)

\* No route turns: no set of rows with edges leads only to itself.
Grounded(t) ==
  \A S \in SUBSET Reached(t) :
    (\A n \in S : t[n].edge # -1 /\ t[n].next \in S) => S = {}

LEMMA HopsFacts ==
  ASSUME NEW t, Trusting(t), NEW n \in Reached(t)
  PROVE  /\ Hops(t, n) \in [0..NodeCount -> Reached(t)] /\ Hops(t, n)[0] = n
         /\ \A k \in 1..NodeCount :
              Hops(t, n)[k] = IF t[Hops(t, n)[k - 1]].edge = -1
                                THEN Hops(t, n)[k - 1] ELSE t[Hops(t, n)[k - 1]].next
<1> DEFINE R == Reached(t)
           Step(m) == IF t[m].edge = -1 THEN m ELSE t[m].next
           P(h) == h = [k \in 0..NodeCount |-> IF k = 0 THEN n ELSE Step(h[k - 1])]
           G == [k \in 1..NodeCount |-> [m \in R |-> Step(m)]]
<1>1. NodeCount \in Nat
  BY NodeAssumption
<1>2. \A m \in R : Step(m) \in R
  BY DEF Trusting
<1>3. G \in [1..NodeCount -> [R -> R]]
  BY <1>2
<1>4. \A k \in 1..NodeCount, m \in R : G[k][m] = Step(m)
  OBVIOUS
<1> HIDE DEF G, R
<1>5. PICK h \in [0..NodeCount -> R] : h[0] = n /\ \A k \in 1..NodeCount : h[k] = G[k][h[k - 1]]
  <2>1. n \in R
    BY DEF R
  <2>2. Unfolded(NodeCount, R, n, G) # {}
    BY <1>1, <1>3, <2>1, Unfolding
  <2> QED BY <2>2 DEF Unfolded
<1> HIDE DEF Step
<1>6. P(h)
  <2>1. ASSUME NEW k \in 0..NodeCount PROVE h[k] = IF k = 0 THEN n ELSE Step(h[k - 1])
    <3>1. CASE k = 0
      BY <1>5, <3>1
    <3>2. CASE k # 0
      <4>1. k \in 1..NodeCount /\ k - 1 \in 0..NodeCount
        BY <1>1, <3>2
      <4>2. h[k] = G[k][h[k - 1]] /\ h[k - 1] \in R
        BY <1>5, <4>1
      <4>3. h[k] = Step(h[k - 1])
        BY <1>4, <4>1, <4>2
      <4> QED BY <3>2, <4>3
    <3> QED BY <3>1, <3>2
  <2> QED BY <2>1
<1>7. Hops(t, n) = CHOOSE f : P(f)
  BY DEF Hops, Step
<1> HIDE DEF P
<1>8. P(Hops(t, n))
  BY <1>6, <1>7
<1> DEFINE f == Hops(t, n)
<1> HIDE DEF f
<1>9. f = [k \in 0..NodeCount |-> IF k = 0 THEN n ELSE Step(f[k - 1])]
  BY <1>8 DEF P, f
<1>10. \A k \in 0..NodeCount : f[k] = IF k = 0 THEN n ELSE Step(f[k - 1])
  BY <1>9, Zenon
<1>11. f[0] = n /\ \A k \in 1..NodeCount : f[k] = Step(f[k - 1])
  <2>1. 0 \in 0..NodeCount /\ \A k \in 1..NodeCount : k \in 0..NodeCount /\ k # 0
    BY <1>1
  <2> QED BY <1>10, <2>1
<1>12. \A k \in 0..NodeCount : f[k] \in R
  <2> DEFINE T == {k \in 0..NodeCount : f[k] \in R}
  <2>1. 0 \in T
    BY <1>1, <1>11 DEF R
  <2>2. ASSUME NEW k \in 1..NodeCount, k - 1 \in T PROVE k \in T
    BY <1>2, <1>11, <2>2
  <2>3. T = 0..NodeCount
    <3>1. T \in SUBSET (0..NodeCount)
      OBVIOUS
    <3> HIDE DEF T
    <3> QED BY <1>1, <2>1, <2>2, <3>1, Upwards
  <2> QED BY <2>3
<1>13. f \in [0..NodeCount -> R]
  <2>1. f = [k \in 0..NodeCount |-> f[k]]
    BY <1>9, <1>10, Zenon
  <2> QED BY <1>12, <2>1
<1>14. /\ f \in [0..NodeCount -> Reached(t)] /\ f[0] = n
       /\ \A k \in 1..NodeCount : f[k] = IF t[f[k - 1]].edge = -1 THEN f[k - 1] ELSE t[f[k - 1]].next
  BY <1>11, <1>13 DEF Step, R
<1> QED BY <1>14 DEF f

\* Hops along edges reach a node once.
LEMMA HopsDiffer ==
  ASSUME NEW t, Trusting(t), Grounded(t), NEW n \in Reached(t),
         NEW i \in 0..NodeCount, NEW j \in 0..NodeCount, i < j,
         \A k \in i..(j - 1) : t[Hops(t, n)[k]].edge # -1
  PROVE  Hops(t, n)[i] # Hops(t, n)[j]
<1> SUFFICES ASSUME Hops(t, n)[i] = Hops(t, n)[j] PROVE FALSE
  OBVIOUS
<1> DEFINE f == Hops(t, n)
           S == {f[k] : k \in i..(j - 1)}
<1>1. /\ f \in [0..NodeCount -> Reached(t)]
      /\ \A k \in 1..NodeCount : f[k] = IF t[f[k - 1]].edge = -1 THEN f[k - 1] ELSE t[f[k - 1]].next
  BY HopsFacts
<1>2. NodeCount \in Nat /\ \A k \in i..(j - 1) : k \in 0..NodeCount /\ k + 1 \in 1..NodeCount
  BY NodeAssumption
<1>3. \A k \in i..(j - 1) : t[f[k]].edge # -1
  OBVIOUS
<1>4. f[i] = f[j]
  OBVIOUS
<1> HIDE DEF f
<1>5. S \in SUBSET Reached(t)
  BY <1>1, <1>2
<1>6. ASSUME NEW k \in i..(j - 1) PROVE t[f[k]].next \in S
  <2>1. t[f[k]].next = f[k + 1]
    <3>1. (k + 1) - 1 = k /\ k + 1 \in 1..NodeCount
      BY <1>2
    <3>2. f[k + 1] = IF t[f[(k + 1) - 1]].edge = -1 THEN f[(k + 1) - 1] ELSE t[f[(k + 1) - 1]].next
      BY <1>1, <3>1
    <3> QED BY <1>3, <3>1, <3>2
  <2>2. CASE k + 1 = j
    BY <1>4, <2>1, <2>2
  <2>3. CASE k + 1 # j
    <3>1. k + 1 \in i..(j - 1)
      BY <2>3
    <3> QED BY <2>1, <3>1
  <2> QED BY <2>2, <2>3
<1>7. S = {}
  <2>1. \A m \in S : t[m].edge # -1 /\ t[m].next \in S
    BY <1>3, <1>6
  <2> HIDE DEF S
  <2> QED BY <1>5, <2>1 DEF Grounded
<1>8. i \in i..(j - 1)
  OBVIOUS
<1> QED BY <1>7, <1>8

\* A route has fewer hops than there are nodes, and ends in a row without an edge.
LEMMA HopsCount ==
  ASSUME NEW t, Trusting(t), Grounded(t), NEW n \in Reached(t)
  PROVE  \E c \in 0..(NodeCount - 1) :
           /\ {k \in 0..(NodeCount - 1) : t[Hops(t, n)[k]].edge # -1} = 0..(c - 1)
           /\ t[Hops(t, n)[c]].edge = -1 /\ Hops(t, n)[NodeCount] = Hops(t, n)[c]
<1> DEFINE f == Hops(t, n)
           T == {k \in 0..NodeCount : k = NodeCount \/ t[f[k]].edge = -1}
<1>1. /\ f \in [0..NodeCount -> Reached(t)]
      /\ \A k \in 1..NodeCount : f[k] = IF t[f[k - 1]].edge = -1 THEN f[k - 1] ELSE t[f[k - 1]].next
  BY HopsFacts
<1>2. NodeCount \in Nat \ {0}
  BY NodeAssumption
<1>3. PICK c \in T : \A k \in T : c <= k
  <2>1. T \in SUBSET Nat /\ NodeCount \in T
    BY <1>2
  <2> HIDE DEF T
  <2> QED BY <2>1, LeastMember
<1>4. c \in 0..NodeCount /\ \A k \in 0..(c - 1) : t[f[k]].edge # -1
  <2>1. c \in 0..NodeCount
    OBVIOUS
  <2>2. ASSUME NEW k \in 0..(c - 1), t[f[k]].edge = -1 PROVE FALSE
    <3>1. k \in T /\ k < c
      BY <1>2, <2>1, <2>2
    <3> HIDE DEF T
    <3> QED BY <1>3, <2>1, <3>1
  <2> QED BY <2>1, <2>2
<1>5. ASSUME NEW i \in 0..c, NEW j \in 0..c, i < j PROVE f[i] # f[j]
  <2>1. i \in 0..NodeCount /\ j \in 0..NodeCount /\ \A k \in i..(j - 1) : k \in 0..(c - 1)
    BY <1>2, <1>4, <1>5
  <2> QED BY <1>4, <1>5, <2>1, HopsDiffer
<1> HIDE DEF T
<1>6. c < NodeCount
  <2> SUFFICES ASSUME c = NodeCount PROVE FALSE
    BY <1>2, <1>4
  <2> HIDE DEF f
  <2>1. f \in [0..NodeCount -> Nodes]
    BY <1>1 DEF Reached
  <2>2. /\ IsFiniteSet(0..NodeCount) /\ Cardinality(0..NodeCount) = NodeCount + 1
        /\ IsFiniteSet(Nodes) /\ Cardinality(Nodes) = NodeCount
    BY <1>2, FS_Interval DEF Nodes
  <2>3. PICK i \in 0..NodeCount, j \in 0..NodeCount : i # j /\ f[i] = f[j]
    <3>1. Cardinality(Nodes) < Cardinality(0..NodeCount)
      BY <1>2, <2>2
    <3> QED BY <2>1, <2>2, <3>1, FS_PigeonHole
  <2>4. i < j \/ j < i
    BY <1>2, <2>3
  <2> QED BY <1>5, <2>3, <2>4
<1>7. t[f[c]].edge = -1 /\ c \in 0..(NodeCount - 1)
  BY <1>2, <1>3, <1>4, <1>6 DEF T
<1> DEFINE U == {k \in 0..NodeCount : k <= c \/ f[k] = f[c]}
<1>8. U = 0..NodeCount
  <2>1. 0 \in U
    BY <1>2, <1>4
  <2>2. ASSUME NEW k \in 1..NodeCount, k - 1 \in U PROVE k \in U
    <3>1. CASE k <= c
      BY <1>4, <3>1
    <3>2. CASE ~(k <= c)
      <4>1. k - 1 = c \/ f[k - 1] = f[c]
        BY <1>4, <2>2, <3>2
      <4>2. f[k] = f[c]
        <5> HIDE DEF f
        <5> QED BY <1>1, <1>7, <4>1
      <4> QED BY <4>2
    <3> QED BY <3>1, <3>2
  <2>3. U \in SUBSET (0..NodeCount)
    OBVIOUS
  <2> HIDE DEF U
  <2> QED BY <1>2, <2>1, <2>2, <2>3, Upwards
<1>9. f[NodeCount] = f[c]
  <2>1. NodeCount \in U
    BY <1>2, <1>8
  <2> QED BY <1>4, <1>6, <2>1
<1> HIDE DEF U
<1>10. {k \in 0..(NodeCount - 1) : t[f[k]].edge # -1} = 0..(c - 1)
  <2>1. ASSUME NEW k \in 0..(NodeCount - 1), ~(k \in 0..(c - 1)) PROVE t[f[k]].edge = -1
    <3>1. k \in U /\ (k = c \/ ~(k <= c))
      BY <1>2, <1>4, <1>8, <2>1
    <3>2. f[k] = f[c]
      <4> HIDE DEF f
      <4> QED BY <3>1 DEF U
    <3> QED BY <1>7, <3>2
  <2>2. \A k \in 0..(c - 1) : k \in 0..(NodeCount - 1)
    BY <1>2, <1>7
  <2> HIDE DEF f
  <2> QED BY <1>4, <2>1, <2>2
<1> QED BY <1>7, <1>9, <1>10

-----------------------------------------------------------------------------
(* Solved tables.                                                          *)

\* The table of a search for the nodes D that ran to its end, or of several merged: a
\* row without an edge is of a destination, a row with one costs the edge and the row it
\* leads to, and no edge leads to anything cheaper.
Solved(t, D) ==
  /\ t \in [Nodes -> Rows]
  /\ \A n \in Reached(t) : OnGrid(t[n].cost) /\ (t[n].edge = -1 => n \in D)
  /\ \A n \in D : n \in Nodes /\ t[n].cost = 0
  /\ \A n \in Reached(t) : t[n].edge # -1 =>
       /\ edges[t[n].edge] = [from |-> n, to |-> t[n].next]
       /\ t[n].next \in Reached(t)
       /\ t[n].cost = Plus(t[t[n].next].cost, weight[t[n].edge])
  /\ \A e \in 1..Len(edges) : edges[e].to \in Reached(t) =>
       /\ edges[e].from \in Reached(t)
       /\ t[edges[e].from].cost <= Plus(t[edges[e].to].cost, weight[e])
  /\ Grounded(t)

\* The weights and edges of a solve.
Weighted ==
  /\ weight \in [1..Len(edges) -> Nat]
  /\ \A e \in 1..Len(edges) : edges[e].from \in Nodes /\ edges[e].to \in Nodes

LEMMA PlusMonotone ==
  ASSUME NEW c \in Nat, NEW d \in Nat, c <= d, NEW w \in Nat
  PROVE  Plus(c, w) \in Nat /\ Plus(d, w) \in Nat /\ Plus(c, w) <= Plus(d, w)
<1> USE PrecisionAssumption
<1>1. /\ (c + w) \div 2 \in Nat /\ 2 * ((c + w) \div 2) >= c + w - 1 /\ 2 * ((c + w) \div 2) <= c + w
      /\ (d + w) \div 2 \in Nat /\ 2 * ((d + w) \div 2) >= d + w - 1 /\ 2 * ((d + w) \div 2) <= d + w
      /\ (c + w) \div 2 <= (d + w) \div 2
  OBVIOUS
<1>2. CASE c + w <= Precision /\ d + w <= Precision
  BY <1>2 DEF Plus
<1>3. CASE c + w <= Precision /\ ~(d + w <= Precision)
  BY <1>1, <1>3 DEF Plus
<1>4. CASE ~(c + w <= Precision)
  <2>1. ~(d + w <= Precision)
    BY <1>4
  <2> QED BY <1>1, <1>4, <2>1 DEF Plus
<1> QED BY <1>2, <1>3, <1>4

LEMMA PlusTyped ==
  ASSUME NEW c \in Nat, NEW w \in Nat
  PROVE  Plus(c, w) \in Nat
BY PlusMonotone

LEMMA ReachedCosts ==
  ASSUME NEW t \in [Nodes -> Rows], NEW n \in Reached(t)
  PROVE  n \in Nodes /\ t[n] \in Rows /\ t[n].cost \in Nat
BY DEF Reached, Rows, Cost

LEMMA SolvedTrusting ==
  ASSUME NEW t, NEW D, Solved(t, D)
  PROVE  Trusting(t) /\ Grounded(t)
BY DEF Solved, Trusting

\* A solved table leads every node that has a route to a destination.
LEMMA SolvedLeads ==
  ASSUME NEW t, NEW D, Solved(t, D), NEW n \in Reached(t)
  PROVE  LET end == Hops(t, n)[NodeCount]
         IN  end \in D /\ t[end].edge = -1 /\ t[end].cost = 0
<1>1. Trusting(t) /\ Grounded(t)
  BY SolvedTrusting
<1>2. PICK c \in 0..(NodeCount - 1) :
        t[Hops(t, n)[c]].edge = -1 /\ Hops(t, n)[NodeCount] = Hops(t, n)[c]
  BY <1>1, HopsCount
<1>3. Hops(t, n)[NodeCount] \in Reached(t)
  <2>1. NodeCount \in 0..NodeCount
    BY NodeAssumption
  <2> QED BY <1>1, <2>1, HopsFacts
<1> QED BY <1>2, <1>3 DEF Solved

\* What the merge of two tables takes from which.
LEMMA MergedFacts ==
  ASSUME NEW t \in [Nodes -> Rows], NEW u \in [Nodes -> Rows], NEW n \in Nodes
  PROVE  /\ Merged(t, u) \in [Nodes -> Rows]
         /\ Less(u[n].cost, t[n].cost) => Merged(t, u)[n] = u[n] /\ n \in Reached(u)
         /\ ~Less(u[n].cost, t[n].cost) => Merged(t, u)[n] = t[n]
         /\ n \in Reached(Merged(t, u)) <=> n \in Reached(t) \cup Reached(u)
         /\ \A x \in {t, u} : n \in Reached(x) => Merged(t, u)[n].cost <= x[n].cost
<1>1. Merged(t, u) \in [Nodes -> Rows]
  BY DEF Merged
<1>2. Merged(t, u)[n] = IF Less(u[n].cost, t[n].cost) THEN u[n] ELSE t[n]
  BY DEF Merged
<1>3. t[n].cost \in Cost /\ u[n].cost \in Cost
  BY DEF Rows
<1> QED BY <1>1, <1>2, <1>3 DEF Reached, Less, Cost, Unreached

LEMMA MergeGrounded ==
  ASSUME Weighted, NEW t, NEW D, Solved(t, D), NEW u, NEW E, Solved(u, E),
         NEW m, m = Merged(t, u),
         \A n \in Reached(m) : m[n].edge # -1 =>
           /\ m[n].next \in Reached(m) /\ OnGrid(m[m[n].next].cost)
           /\ m[n].edge \in 1..Len(edges)
           /\ m[n].cost = Plus(m[m[n].next].cost, weight[m[n].edge])
  PROVE  Grounded(m)
<1> SUFFICES ASSUME NEW S \in SUBSET Reached(m),
                    \A n \in S : m[n].edge # -1 /\ m[n].next \in S,
                    S # {}
             PROVE  FALSE
  BY DEF Grounded
<1>1. t \in [Nodes -> Rows] /\ u \in [Nodes -> Rows] /\ m \in [Nodes -> Rows] /\ Reached(m) \subseteq Nodes
  <2>1. t \in [Nodes -> Rows] /\ u \in [Nodes -> Rows]
    BY DEF Solved
  <2> QED BY <2>1 DEF Merged, Reached
<1>2. \A n \in S : n \in Nodes /\ m[n].cost \in Nat
  BY <1>1, ReachedCosts
<1> DEFINE C == {m[n].cost : n \in S}
<1>3. PICK c \in C : \A d \in C : c <= d
  <2>1. C \in SUBSET Nat /\ C # {}
    BY <1>2
  <2> HIDE DEF C
  <2> QED BY <2>1, LeastMember
<1> DEFINE L == {n \in S : m[n].cost = c}
<1>4. L # {} /\ c \in Nat /\ \A n \in S : c <= m[n].cost
  BY <1>2, <1>3
\* A cheapest row leads to a cheapest row, whichever table it is of.
<1>5. ASSUME NEW n \in L
      PROVE  /\ m[n].next \in L
             /\ \A x \in {t, u} : m[n] = x[n] => x[m[n].next].cost = c
  <2> DEFINE k == m[n].next
             w == weight[m[n].edge]
  <2>1. n \in S /\ m[n].cost = c /\ m[n].edge # -1 /\ k \in S
    OBVIOUS
  <2>2. /\ k \in Reached(m) /\ OnGrid(m[k].cost) /\ w \in Nat
        /\ m[n].cost = Plus(m[k].cost, w)
    BY <2>1 DEF Weighted
  <2>3. m[k].cost <= c /\ c <= m[k].cost /\ m[k].cost \in Nat /\ k \in Nodes
    <3>1. m[k].cost <= Plus(m[k].cost, w)
      BY <2>2, PlusGrows
    <3> QED BY <1>2, <1>4, <2>1, <2>2, <3>1
  <2>4. k \in L
    BY <1>4, <2>1, <2>3
  <2>5. ASSUME NEW x \in {t, u}, m[n] = x[n] PROVE x[k].cost = c
    <3>1. n \in Reached(x) /\ x[n].next = k /\ x[n].edge = m[n].edge
      BY <1>2, <2>1, <2>5 DEF Reached
    <3>2. x[k].cost \in Nat /\ OnGrid(x[k].cost) /\ k \in Reached(x) /\ x[n].cost = Plus(x[k].cost, w)
      <4>1. PICK F : Solved(x, F)
        OBVIOUS
      <4>2. k \in Reached(x) /\ x[n].cost = Plus(x[k].cost, w)
        BY <2>1, <3>1, <4>1 DEF Solved
      <4>3. OnGrid(x[k].cost)
        BY <4>1, <4>2 DEF Solved
      <4> QED BY <4>2, <4>3 DEF OnGrid
    <3>3. x[k].cost <= c
      BY <2>1, <2>2, <2>5, <3>2, PlusGrows
    <3>4. m[k].cost <= x[k].cost
      BY <1>1, <2>3, <3>2, MergedFacts
    <3> QED BY <1>4, <2>3, <3>2, <3>3, <3>4
  <2> QED BY <2>4, <2>5
<1> HIDE DEF C
<1> DEFINE O == {n \in L : ~Less(u[n].cost, t[n].cost)}
<1>6. O = {}
  <2>1. ASSUME NEW n \in O PROVE n \in Reached(t) /\ t[n].edge # -1 /\ t[n].next \in O
    <3>1. n \in Nodes /\ n \in L /\ m[n] = t[n] /\ n \in Reached(m)
      BY <1>1, <1>2, MergedFacts
    <3>2. n \in Reached(t) /\ t[n].edge # -1
      BY <3>1 DEF Reached
    <3>3. t[n].next \in L /\ t[t[n].next].cost = c
      BY <1>5, <3>1
    <3> DEFINE k == t[n].next
    <3>4. k \in Nodes /\ m[k].cost = c
      BY <1>2, <3>3
    <3>5. ~Less(u[k].cost, t[k].cost)
      <4> SUFFICES ASSUME Less(u[k].cost, t[k].cost) PROVE FALSE
        OBVIOUS
      <4>1. m[k] = u[k]
        BY <1>1, <3>4, MergedFacts
      <4> QED BY <1>4, <3>3, <3>4, <4>1 DEF Less, Unreached
    <3> QED BY <3>2, <3>3, <3>5
  <2>2. O \in SUBSET Reached(t)
    BY <2>1
  <2> HIDE DEF O
  <2> QED BY <2>1, <2>2 DEF Solved, Grounded
<1>7. ASSUME NEW n \in L PROVE n \in Reached(u) /\ u[n].edge # -1 /\ u[n].next \in L
  <2>1. Less(u[n].cost, t[n].cost)
    BY <1>6
  <2>2. m[n] = u[n] /\ n \in Reached(u)
    BY <1>1, <1>2, <2>1, MergedFacts
  <2> QED BY <1>5, <2>2
<1>8. L = {}
  <2>1. L \in SUBSET Reached(u)
    BY <1>7
  <2> HIDE DEF L
  <2> QED BY <1>7, <2>1 DEF Solved, Grounded
<1> QED BY <1>4, <1>8

\* The merge of two solved tables is one for the destinations of both, although a row and
\* the row it leads to may come from different searches: neither could cost less.
LEMMA MergeSolved ==
  ASSUME Weighted, NEW t, NEW D, Solved(t, D), NEW u, NEW E, Solved(u, E)
  PROVE  Solved(Merged(t, u), D \cup E)
<1> DEFINE m == Merged(t, u)
<1>1. t \in [Nodes -> Rows] /\ u \in [Nodes -> Rows]
  BY DEF Solved
<1>2. m \in [Nodes -> Rows]
  BY <1>1 DEF Merged
<1>3. \A n \in Nodes :
        /\ Less(u[n].cost, t[n].cost) => m[n] = u[n] /\ n \in Reached(u)
        /\ ~Less(u[n].cost, t[n].cost) => m[n] = t[n]
        /\ n \in Reached(m) <=> n \in Reached(t) \cup Reached(u)
        /\ \A x \in {t, u} : n \in Reached(x) => m[n].cost <= x[n].cost
  BY <1>1, MergedFacts
<1> HIDE DEF m
<1>4. ASSUME NEW n \in Reached(m)
      PROVE  \E x \in {t, u}, F \in {D, E} : n \in Reached(x) /\ m[n] = x[n] /\ Solved(x, F)
  <2>1. n \in Nodes /\ m[n].cost # Unreached
    BY DEF Reached
  <2>2. CASE Less(u[n].cost, t[n].cost)
    BY <1>3, <2>1, <2>2
  <2>3. CASE ~Less(u[n].cost, t[n].cost)
    <3>1. m[n] = t[n]
      BY <1>3, <2>1, <2>3
    <3> QED BY <2>1, <3>1 DEF Reached
  <2> QED BY <2>2, <2>3
<1>5. ASSUME NEW n \in Reached(m)
      PROVE  OnGrid(m[n].cost) /\ m[n].cost \in Nat /\ (m[n].edge = -1 => n \in D \cup E)
  BY <1>4 DEF Solved, OnGrid
<1>6. ASSUME NEW n \in D \cup E PROVE n \in Nodes /\ m[n].cost = 0
  <2>1. PICK x \in {t, u} : n \in Nodes /\ x[n].cost = 0
    BY DEF Solved
  <2>2. n \in Reached(x)
    BY <2>1 DEF Reached, Unreached
  <2>3. m[n].cost <= 0 /\ n \in Reached(m)
    BY <1>3, <2>1, <2>2
  <2> QED BY <1>5, <2>1, <2>3
<1>7. ASSUME NEW e \in 1..Len(edges), edges[e].to \in Reached(m)
      PROVE  /\ edges[e].from \in Reached(m)
             /\ m[edges[e].from].cost <= Plus(m[edges[e].to].cost, weight[e])
  <2> DEFINE a == edges[e].from
             b == edges[e].to
  <2>1. PICK x \in {t, u}, F \in {D, E} : b \in Reached(x) /\ m[b] = x[b] /\ Solved(x, F)
    BY <1>4, <1>7
  <2>2. a \in Nodes /\ b \in Nodes /\ weight[e] \in Nat
    BY DEF Weighted
  <2>3. a \in Reached(x) /\ x[a].cost <= Plus(x[b].cost, weight[e]) /\ OnGrid(x[b].cost)
    BY <2>1 DEF Solved
  <2>4. a \in Reached(m) /\ m[a].cost <= x[a].cost
    BY <1>3, <2>2, <2>3
  <2>5. m[a].cost \in Nat /\ x[a].cost \in Nat /\ x[b].cost \in Nat
    <3>1. x \in [Nodes -> Rows]
      BY <1>1
    <3> QED BY <1>5, <2>1, <2>3, <2>4, <3>1, ReachedCosts
  <2>6. Plus(x[b].cost, weight[e]) \in Nat
    BY <2>2, <2>5, PlusTyped
  <2> QED BY <2>1, <2>3, <2>4, <2>5, <2>6
<1>8. ASSUME NEW n \in Reached(m), m[n].edge # -1
      PROVE  /\ m[n].edge \in 1..Len(edges)
             /\ edges[m[n].edge] = [from |-> n, to |-> m[n].next]
             /\ m[n].next \in Reached(m)
             /\ m[n].cost = Plus(m[m[n].next].cost, weight[m[n].edge])
  <2> DEFINE k == m[n].next
             e == m[n].edge
  <2>1. PICK x \in {t, u}, F \in {D, E} : n \in Reached(x) /\ m[n] = x[n] /\ Solved(x, F)
    BY <1>4
  <2>2. /\ edges[e] = [from |-> n, to |-> k] /\ k \in Reached(x)
        /\ m[n].cost = Plus(x[k].cost, weight[e])
    BY <1>8, <2>1 DEF Solved
  <2>3. e \in 1..Len(edges) /\ k \in Nodes /\ n \in Nodes
    BY <1>2, <1>8, <2>2 DEF Reached, Rows
  <2>4. weight[e] \in Nat
    BY <2>3 DEF Weighted
  <2>5. k \in Reached(m) /\ m[k].cost <= x[k].cost
    BY <1>3, <2>2, <2>3
  <2>6. m[k].cost \in Nat /\ x[k].cost \in Nat /\ m[n].cost \in Nat
    <3>1. x \in [Nodes -> Rows]
      BY <1>1
    <3> QED BY <1>5, <2>2, <2>5, <3>1, ReachedCosts
  <2>7. /\ Plus(m[k].cost, weight[e]) <= m[n].cost /\ Plus(m[k].cost, weight[e]) \in Nat
    <3> HIDE DEF k, e
    <3>1. Plus(m[k].cost, weight[e]) <= Plus(x[k].cost, weight[e])
      BY <2>4, <2>5, <2>6, PlusMonotone
    <3> QED BY <2>2, <2>4, <2>6, <3>1, PlusTyped
  <2>8. m[n].cost <= Plus(m[k].cost, weight[e])
    <3>1. edges[e].to = k /\ edges[e].from = n
      BY <2>2
    <3> QED BY <1>7, <2>3, <2>5, <3>1
  <2> QED BY <2>2, <2>3, <2>5, <2>6, <2>7, <2>8
<1>9. Grounded(m)
  BY <1>5, <1>8, MergeGrounded DEF m
<1>10. Solved(m, D \cup E)
  BY <1>2, <1>5, <1>6, <1>7, <1>8, <1>9 DEF Solved
<1> QED BY <1>10 DEF m

LEMMA NothingSolved == Solved(NoTable, {})
<1>1. NoTable \in [Nodes -> Rows]
  BY DEF NoTable, NoRow, Rows, Cost, Unreached
<1>2. Reached(NoTable) = {}
  BY DEF Reached, NoTable, NoRow
<1>3. Grounded(NoTable)
  BY <1>2 DEF Grounded
<1>4. ASSUME NEW e \in 1..Len(edges) PROVE edges[e].to \notin Reached(NoTable)
  BY <1>2
<1> QED BY <1>1, <1>2, <1>3, <1>4 DEF Solved

-----------------------------------------------------------------------------
(* What a search has found.                                                *)

\* The destinations of the search that runs, and of those that are merged.
Sources == IF solving = "merged" THEN {destinations[at]} ELSE ToSet(destinations)
Sought  == {destinations[k] : k \in 1..(at - 1)}

\* Every row that is reached is of a source, or costs the edge to a settled row; no
\* edge to a settled node that has been relaxed leads to anything cheaper.
SearchInv ==
  pc = "search" =>
    /\ \A n \in Nodes : (n \in Reached(rows) <=> state[n] # 0)
                        /\ (n \in Reached(rows) => OnGrid(rows[n].cost))
    /\ \A n \in Sources : n \in Nodes /\ rows[n].cost = 0
    /\ \A n \in Reached(rows) : rows[n].edge = -1 => n \in Sources
    /\ \A n \in Reached(rows) : rows[n].edge # -1 =>
         /\ edges[rows[n].edge] = [from |-> n, to |-> rows[n].next]
         /\ rows[n].next \in Nodes /\ state[rows[n].next] = 1
         /\ rows[n].cost = Plus(rows[rows[n].next].cost, weight[rows[n].edge])
    /\ rest # {} => /\ taken.node \in Nodes /\ state[taken.node] = 1
                    /\ rows[taken.node].cost = taken.weight
    /\ \A e \in 1..Len(edges) : state[edges[e].to] = 1 /\ e \notin rest =>
         /\ edges[e].from \in Reached(rows)
         /\ rows[edges[e].from].cost <= Plus(rows[edges[e].to].cost, weight[e])
    /\ Grounded(rows)

\* The table is of the destinations searched for so far.
TableInv ==
  /\ pc = "merge" => solving = "merged"
  /\ pc = "search" => solving \in {"nearest", "merged"}
  /\ pc = "merge" \/ (pc = "search" /\ solving = "merged") => Solved(table, Sought)
  /\ pc = "done" => Solved(table, ToSet(destinations))

SolveInv == IndInv /\ SearchInv /\ TableInv

LEMMA WeightedWhen ==
  ASSUME TypeOK, pc # "idle"
  PROVE  Weighted
BY EdgesTyped, EdgeAssumption DEF TypeOK, Weighted

LEMMA TableKept ==
  ASSUME TableInv, UNCHANGED <<edges, weight, table, destinations, at, solving>>,
         pc' \in {"merge", "search"} => pc \in {"merge", "search"},
         pc' = "search" => solving \in {"nearest", "merged"},
         pc' = "merge" => solving = "merged",
         pc' = "done" => pc = "done"
  PROVE  TableInv'
BY DEF TableInv, Sought, Solved, Reached, Grounded, Rows

\* A search starts with its destinations, at no cost.
LEMMA StartSearchFound ==
  ASSUME TypeOK, NEW ds \in SUBSET Nodes, StartSearch(ds), Sources' = ds, UNCHANGED edges
  PROVE  SearchInv'
<1>1. /\ rows' = Started(ds) /\ rest' = {} /\ pc' = "search"
      /\ state' = [n \in Nodes |-> IF n \in ds THEN 2 ELSE 0]
  BY DEF StartSearch
<1>2. \A n \in Nodes : rows'[n] = IF n \in ds THEN AtEnd(n) ELSE NoRow
  BY <1>1 DEF Started
<1>3. \A n \in Nodes : n \in ds => rows'[n].cost = 0 /\ rows'[n].edge = -1
  <2>1. ASSUME NEW n \in Nodes, n \in ds PROVE rows'[n].cost = 0 /\ rows'[n].edge = -1
    <3>1. rows'[n] = [next |-> n, edge |-> -1, cost |-> 0]
      BY <1>2, <2>1 DEF AtEnd
    <3> QED BY <3>1
  <2> QED BY <2>1
<1>4. Reached(rows)' = ds
  <2>1. \A n \in Nodes : rows'[n].cost # Unreached <=> n \in ds
    <3>1. ASSUME NEW n \in Nodes, n \notin ds PROVE rows'[n] = [next |-> -1, edge |-> -1, cost |-> -1]
      BY <1>2, <3>1 DEF NoRow, Unreached
    <3> QED BY <1>3, <3>1 DEF Unreached
  <2> QED BY <2>1 DEF Reached
<1>5. OnGrid(0)
  BY PrecisionAssumption DEF OnGrid
<1>6. Grounded(rows)'
  BY <1>3, <1>4 DEF Grounded
<1>7. \A n \in Nodes : state'[n] # 1 /\ (n \in ds <=> state'[n] # 0)
  BY <1>1
<1>8. \A e \in 1..Len(edges') : ~(state'[edges'[e].to] = 1)
  BY <1>7, EdgesTyped
<1> QED BY <1>1, <1>3, <1>4, <1>5, <1>6, <1>7, <1>8 DEF SearchInv

LEMMA TakeFound ==
  ASSUME SolveInv, NEW n \in Nodes, Take(n)
  PROVE  SearchInv'
<1>1. /\ pc = "search" /\ rest = {} /\ n \in DOMAIN queue
      /\ taken' = [node |-> n, weight |-> queue[n]]
      /\ UNCHANGED <<network, at, rows, table, pc>>
  BY DEF Take, Q!QRemoveMin, Q!Lightest, Q!Restrict
<1>2. state[n] = 2 /\ rows[n].cost = queue[n] /\ state \in [Nodes -> 0..2]
  BY <1>1 DEF SolveInv, IndInv, TypeOK, HeapHoldsOpen
<1>3. state' = [state EXCEPT ![n] = 1] /\ rest' = Incoming(n)
  BY <1>2 DEF Take
<1>4. UNCHANGED <<edges, weight, solving, destinations>>
  BY <1>1 DEF network
<1>5. \A m \in Nodes : /\ state'[m] = IF m = n THEN 1 ELSE state[m]
                       /\ state'[m] # 0 <=> state[m] # 0
  BY <1>2, <1>3
<1>6. \A e \in 1..Len(edges) : edges[e].to \in Nodes
  BY EdgesTyped DEF SolveInv, IndInv
<1>7. \A e \in 1..Len(edges) : state'[edges[e].to] = 1 /\ e \notin rest' => state[edges[e].to] = 1
  BY <1>3, <1>5, <1>6 DEF Incoming
<1> QED BY <1>1, <1>2, <1>4, <1>5, <1>7 DEF SolveInv, SearchInv, Sources, Reached, Grounded

LEMMA RelaxFound ==
  ASSUME SolveInv, NEW e \in 1..Len(edges), Relax(e)
  PROVE  SearchInv'
<1> DEFINE from == edges[e].from
           to   == edges[e].to
           cost == Plus(taken.weight, weight[e])
           row  == [next |-> to, edge |-> e, cost |-> cost]
<1>1. /\ from \in Nodes /\ to \in Nodes /\ cost \in Nat /\ OnGrid(cost)
      /\ Improves(cost, from) => state[from] # 1
  BY RelaxFacts, EdgesTyped DEF SolveInv, IndInv
<1>2. /\ pc = "search" /\ e \in rest /\ rest' = rest \ {e} /\ pc' = "search"
      /\ UNCHANGED <<edges, weight, solving, destinations, at>>
  BY DEF Relax, network
<1>3. /\ to = taken.node /\ state[to] = 1 /\ rows[to].cost = taken.weight /\ to \in Reached(rows)
      /\ rows[to].cost \in Nat
  <2>1. to = taken.node
    BY <1>2 DEF SolveInv, IndInv, TypeOK
  <2>2. state[to] = 1 /\ rows[to].cost = taken.weight
    BY <1>2, <2>1 DEF SolveInv, SearchInv
  <2>3. taken.weight \in Nat
    BY DEF SolveInv, IndInv, TypeOK
  <2> QED BY <1>1, <2>1, <2>2, <2>3 DEF Reached, Unreached
<1>4. rows \in [Nodes -> Rows] /\ state \in [Nodes -> 0..2]
  BY DEF SolveInv, IndInv, TypeOK, Rows
<1>5. CASE ~Improves(cost, from)
  <2>1. UNCHANGED <<taken, rows, state>>
    BY <1>5 DEF Relax
  <2>2. from \in Reached(rows) /\ rows[from].cost <= Plus(rows[to].cost, weight[e])
    <3>1. rows[from].cost \in Cost
      BY <1>1, <1>4 DEF Rows
    <3> QED BY <1>1, <1>3, <1>5, <3>1 DEF Improves, Less, Reached, Cost, Unreached
  <2> HIDE DEF from, to, cost, row
  <2>3. \A f \in 1..Len(edges) : f \notin rest' => f \notin rest \/ f = e
    BY <1>2
  <2> QED BY <1>2, <2>1, <2>2, <2>3 DEF from, to, SolveInv, SearchInv, Sources, Reached, Grounded
<1>6. CASE Improves(cost, from)
  <2>1. rows' = [rows EXCEPT ![from] = row] /\ Requeue(from, cost)
    BY <1>6 DEF Relax
  <2>2. taken' = taken /\ state' = [state EXCEPT ![from] = 2]
    <3>1. CASE state[from] # 2
      BY <2>1, <3>1 DEF Requeue, Q!QAdd
    <3>2. CASE state[from] = 2
      <4>1. from \in DOMAIN queue /\ queue[from] = rows[from].cost /\ queue[from] \in Nat
        BY <1>1, <1>2, <3>2 DEF SolveInv, IndInv, HeapHoldsOpen, TypeOK
      <4>2. ~ cost >= queue[from]
        BY <1>1, <1>6, <4>1 DEF Improves, Less, Unreached
      <4>3. taken' = taken /\ state' = state
        BY <2>1, <3>2, <4>1, <4>2 DEF Requeue, Q!QDecreaseKey
      <4> QED BY <1>1, <1>4, <3>2, <4>3
    <3> QED BY <3>1, <3>2
  <2>3. /\ state[from] # 1 /\ from # to
        /\ row.next = to /\ row.edge = e /\ row.cost = cost
    BY <1>1, <1>3, <1>6
  <2> HIDE DEF row
  <2>4. \A n \in Nodes : /\ rows'[n] = IF n = from THEN row ELSE rows[n]
                         /\ state'[n] = IF n = from THEN 2 ELSE state[n]
    BY <1>1, <1>4, <2>1, <2>2
  <2>5. Reached(rows)' = Reached(rows) \cup {from}
    BY <1>1, <2>3, <2>4 DEF Reached, Unreached
  <2>6. \A n \in Nodes : state'[n] = 1 <=> state[n] = 1
    BY <1>1, <2>3, <2>4
  <2>7. \A n \in Nodes : state[n] = 1 => rows'[n] = rows[n]
    BY <2>3, <2>4
  <2> HIDE DEF cost
  <2>8. /\ \A n \in Nodes : (n \in Reached(rows)' <=> state'[n] # 0)
                            /\ (n \in Reached(rows)' => OnGrid(rows'[n].cost))
    BY <1>1, <1>2, <2>3, <2>4, <2>5 DEF SolveInv, SearchInv
  <2>9. \A n \in Sources : n # from
    <3>1. rows[from].cost # 0
      BY <1>1, <1>6 DEF Improves, Less, Unreached
    <3> QED BY <1>2, <3>1 DEF SolveInv, SearchInv
  <2>10. \A n \in Sources' : n \in Nodes /\ rows'[n].cost = 0
    BY <1>2, <2>4, <2>9 DEF SolveInv, SearchInv, Sources
  <2>11. \A n \in Reached(rows)' : rows'[n].edge = -1 => n \in Sources'
    <3>1. e # -1
      OBVIOUS
    <3>2. Sources' = Sources
      BY <1>2 DEF Sources
    <3>3. \A n \in Reached(rows) : n \in Nodes
      BY DEF Reached
    <3> HIDE DEF from
    <3> QED BY <1>1, <1>2, <2>3, <2>4, <2>5, <3>1, <3>2, <3>3 DEF SolveInv, SearchInv
  <2>12. ASSUME NEW n \in Reached(rows)', rows'[n].edge # -1
         PROVE  /\ edges[rows'[n].edge] = [from |-> n, to |-> rows'[n].next]
                /\ rows'[n].next \in Nodes /\ state'[rows'[n].next] = 1
                /\ rows'[n].cost = Plus(rows'[rows'[n].next].cost, weight[rows'[n].edge])
    <3>1. CASE n = from
      <4>1. rows'[n] = row /\ rows'[to] = rows[to] /\ state'[to] = 1
        BY <1>1, <1>3, <2>4, <2>6, <2>7, <3>1
      <4>2. edges[e] = [from |-> from, to |-> to]
        <5>1. edges[e] \in [from : Nodes, to : Nodes]
          BY EdgeAssumption, ElementOfSeq DEF SolveInv, IndInv, TypeOK
        <5> QED BY <5>1
      <4> QED BY <1>1, <1>3, <2>3, <3>1, <4>1, <4>2 DEF cost
    <3>2. CASE n # from
      <4>1. n \in Reached(rows) /\ n \in Nodes /\ rows'[n] = rows[n]
        BY <2>4, <2>5, <3>2 DEF Reached
      <4> QED BY <1>2, <2>6, <2>7, <4>1, <1>6, <2>12 DEF SolveInv, SearchInv
    <3> QED BY <3>1, <3>2
  <2>13. /\ taken'.node \in Nodes /\ state'[taken'.node] = 1
         /\ rows'[taken'.node].cost = taken'.weight
    BY <1>1, <1>3, <2>2, <2>6, <2>7
  <2>14. ASSUME NEW f \in 1..Len(edges), state'[edges[f].to] = 1, f \notin rest'
         PROVE  /\ edges[f].from \in Reached(rows)'
                /\ rows'[edges[f].from].cost <= Plus(rows'[edges[f].to].cost, weight[f])
    <3>1. /\ edges[f].to \in Nodes /\ edges[f].from \in Nodes
      BY EdgesTyped DEF SolveInv, IndInv
    <3>2. state[edges[f].to] = 1 /\ rows'[edges[f].to] = rows[edges[f].to]
      BY <2>6, <2>7, <2>14, <3>1
    <3>3. CASE f = e
      BY <1>1, <1>3, <2>3, <2>4, <2>5, <3>2, <3>3 DEF cost
    <3>4. CASE f # e
      <4>1. f \notin rest
        BY <1>2, <2>14, <3>4
      <4>2. /\ edges[f].from \in Reached(rows)
            /\ rows[edges[f].from].cost <= Plus(rows[edges[f].to].cost, weight[f])
        BY <1>2, <3>2, <4>1 DEF SolveInv, SearchInv
      <4>3. CASE edges[f].from # from
        BY <2>4, <2>5, <3>1, <3>2, <4>2, <4>3
      <4>4. CASE edges[f].from = from
        <5>1. cost < rows[from].cost /\ rows'[from].cost = cost
          BY <1>1, <1>6, <2>3, <2>4, <4>2, <4>4 DEF Improves, Less, Reached
        <5>2. rows[from].cost \in Nat /\ rows[edges[f].to].cost \in Nat /\ weight[f] \in Nat
          <6>1. edges[f].to \in Reached(rows)
            BY <1>2, <3>1, <3>2 DEF SolveInv, SearchInv
          <6>2. Weighted
            BY <1>2, WeightedWhen DEF SolveInv, IndInv
          <6> QED BY <1>4, <4>2, <4>4, <6>1, <6>2, ReachedCosts DEF Weighted
        <5>3. Plus(rows[edges[f].to].cost, weight[f]) \in Nat
          BY <5>2, PlusTyped
        <5> HIDE DEF from
        <5>4. /\ edges[f].from \in Reached(rows)' /\ rows'[edges[f].from].cost = cost
              /\ cost <= Plus(rows[edges[f].to].cost, weight[f])
          BY <1>1, <2>5, <4>2, <4>4, <5>1, <5>2, <5>3
        <5> QED BY <3>2, <5>4
      <4> QED BY <4>3, <4>4
    <3> QED BY <3>3, <3>4
  <2>15. ASSUME NEW S \in SUBSET Reached(rows)',
                \A n \in S : rows'[n].edge # -1 /\ rows'[n].next \in S
         PROVE  S = {}
    <3> DEFINE L == S \ {from}
    <3>1. ASSUME NEW n \in S PROVE rows'[n].next # from
      <4>1. n \in Reached(rows)' /\ rows'[n].edge # -1
        BY <2>15
      <4>2. state'[rows'[n].next] = 1
        BY <2>12, <4>1
      <4>3. state'[from] = 2
        BY <1>1, <2>4
      <4> QED BY <4>2, <4>3
    <3>2. \A n \in L : n \in Reached(rows) /\ rows'[n] = rows[n]
      BY <2>4, <2>5 DEF Reached
    <3>3. \A n \in L : rows[n].edge # -1 /\ rows[n].next \in L
      BY <2>15, <3>1, <3>2
    <3>4. L = {}
      <4>1. L \in SUBSET Reached(rows)
        BY <3>2
      <4> HIDE DEF L
      <4> QED BY <1>2, <3>3, <4>1 DEF SolveInv, SearchInv, Grounded
    <3>5. from \notin S
      BY <2>15, <3>1, <3>4
    <3> QED BY <3>4, <3>5
  <2>16. Grounded(rows)'
    BY <2>15 DEF Grounded
  <2> QED BY <1>2, <2>8, <2>10, <2>11, <2>12, <2>13, <2>14, <2>16 DEF SearchInv
<1> QED BY <1>5, <1>6

\* A search that ran to its end solved its sources.
LEMMA SearchSolves ==
  ASSUME SolveInv, pc = "search", rest = {}, DOMAIN queue = {}
  PROVE  Solved(rows, Sources)
<1>1. rows \in [Nodes -> Rows] /\ state \in [Nodes -> 0..2]
  BY DEF SolveInv, IndInv, TypeOK, Rows
<1>2. \A n \in Nodes : state[n] # 2
  BY DEF SolveInv, IndInv, HeapHoldsOpen
<1>3. \A n \in Nodes : n \in Reached(rows) <=> state[n] = 1
  BY <1>1, <1>2 DEF SolveInv, SearchInv
<1>4. \A e \in 1..Len(edges) : edges[e].to \in Nodes
  BY EdgesTyped DEF SolveInv, IndInv
<1>5. \A n \in Reached(rows) : n \in Nodes
  BY DEF Reached
<1> QED BY <1>1, <1>3, <1>4, <1>5 DEF Solved, SolveInv, SearchInv

LEMMA MergedSources ==
  ASSUME at \in 1..Len(destinations), destinations \in Seq(Nodes), at' = at + 1,
         destinations' = destinations
  PROVE  Sought' = Sought \cup {destinations[at]}
<1>1. 1..(at' - 1) = (1..(at - 1)) \cup {at}
  BY LenProperties
<1> QED BY <1>1 DEF Sought

LEMMA ExhaustedFound ==
  ASSUME SolveInv, Exhausted
  PROVE  TableInv'
<1>1. /\ pc = "search" /\ rest = {} /\ DOMAIN queue = {}
      /\ UNCHANGED <<edges, weight, solving, destinations, rows>>
  BY DEF Exhausted, network, search
<1>2. Solved(rows, Sources)
  BY <1>1, SearchSolves
<1>3. Weighted
  BY <1>1, WeightedWhen DEF SolveInv, IndInv
<1>4. CASE solving = "merged"
  <2>1. table' = Merged(table, rows) /\ at' = at + 1 /\ pc' = "merge"
    BY <1>4 DEF Exhausted
  <2>2. Solved(table, Sought)
    BY <1>1, <1>4 DEF SolveInv, TableInv
  <2>3. Sources = {destinations[at]}
    BY <1>4 DEF Sources
  <2>4. Sought' = Sought \cup {destinations[at]}
    <3>1. at \in 1..Len(destinations) /\ destinations \in Seq(Nodes)
      BY <1>1, <1>4, LenProperties DEF SolveInv, IndInv, TypeOK, LoopOK
    <3> QED BY <1>1, <2>1, <3>1, MergedSources
  <2>5. Solved(Merged(table, rows), Sought \cup {destinations[at]})
    BY <1>2, <1>3, <2>2, <2>3, MergeSolved
  <2> DEFINE m == Merged(table, rows)
             F == Sought \cup {destinations[at]}
  <2> HIDE DEF m, F
  <2>6. table' = m /\ Sought' = F /\ Solved(m, F)
    BY <2>1, <2>4, <2>5 DEF m, F
  <2>7. Solved(table, Sought)'
    BY <1>1, <2>6 DEF Solved, Rows, Reached, Grounded
  <2> QED BY <1>1, <1>4, <2>1, <2>7 DEF TableInv
<1>5. CASE solving # "merged"
  <2>1. table' = rows /\ pc' = "done" /\ Sources = ToSet(destinations)
    BY <1>5 DEF Exhausted, Sources
  <2>2. Solved(table, ToSet(destinations))'
    BY <1>1, <1>2, <2>1 DEF Solved, Rows, Reached, Grounded
  <2> QED BY <2>1, <2>2 DEF TableInv
<1> QED BY <1>4, <1>5

\* When the loop over the destinations ends, all of them have been searched for.
LEMMA MergeDoneFound ==
  ASSUME SolveInv, MergeDone
  PROVE  TableInv'
<1>1. /\ pc = "merge" /\ at > Len(destinations) /\ pc' = "done"
      /\ UNCHANGED <<edges, weight, solving, destinations, table>>
  BY DEF MergeDone, network
<1>2. destinations \in Seq(Nodes) /\ at \in 1..(Len(destinations) + 1)
  BY DEF SolveInv, IndInv, TypeOK
<1>3. 1..(at - 1) = 1..Len(destinations)
  BY <1>1, <1>2, LenProperties
<1>4. ToSet(destinations) = {destinations[k] : k \in 1..Len(destinations)}
  BY <1>2 DEF ToSet
<1>5. Sought = ToSet(destinations)
  BY <1>3, <1>4 DEF Sought
<1>6. Solved(table, ToSet(destinations))
  BY <1>1, <1>5 DEF SolveInv, TableInv
<1>7. Solved(table, ToSet(destinations))'
  BY <1>1, <1>6 DEF Solved, Rows, Reached, Grounded
<1> QED BY <1>1, <1>7 DEF TableInv

LEMMA CallFound ==
  ASSUME SolveInv, NEW ds \in DestinationLists, NEW w \in [1..Len(edges) -> EdgeWeights],
         SolveNearest(ds, w) \/ SolveMerged(ds, w)
  PROVE  SearchInv' /\ TableInv'
<1>1. ToSet(ds) \in SUBSET Nodes /\ TypeOK /\ pc = "idle" /\ at = 1
  BY DestinationAssumption, ElementOfSeq
    DEF ToSet, SolveNearest, SolveMerged, SolveInv, IndInv, LoopOK
<1>2. CASE SolveNearest(ds, w)
  <2>1. /\ UNCHANGED edges /\ destinations' = ds /\ solving' = "nearest"
        /\ StartSearch(ToSet(ds)) /\ pc' = "search"
    BY <1>2 DEF SolveNearest, StartSearch
  <2>2. Sources' = ToSet(ds)
    BY <2>1 DEF Sources
  <2> QED BY <1>1, <2>1, <2>2, StartSearchFound DEF TableInv
<1>3. CASE SolveMerged(ds, w)
  <2>1. /\ UNCHANGED <<edges, at>> /\ destinations' = ds
        /\ solving' = "merged" /\ table' = NoTable /\ pc' = "merge"
    BY <1>3 DEF SolveMerged
  <2>2. Sought' = {}
    BY <1>1, <2>1 DEF Sought
  <2>3. Solved(NoTable, {})'
    <3>1. UNCHANGED edges
      BY <2>1
    <3>2. NoTable \in [Nodes -> Rows']
      BY DEF NoTable, NoRow, Rows, Cost, Unreached
    <3>3. Reached(NoTable) = {}
      BY DEF Reached, NoTable, NoRow
    <3>4. Grounded(NoTable)
      BY <3>3 DEF Grounded
    <3> QED BY <3>2, <3>3, <3>4 DEF Solved
  <2>4. Solved(table, Sought)'
    BY <2>1, <2>2, <2>3
  <2> QED BY <2>1, <2>4 DEF SearchInv, TableInv
<1> QED BY <1>2, <1>3

LEMMA NextDestinationFound ==
  ASSUME SolveInv, NextDestination
  PROVE  SearchInv' /\ TableInv'
<1>1. /\ UNCHANGED <<edges, weight, solving, destinations, at, table>> /\ pc' = "search"
      /\ pc = "merge" /\ at <= Len(destinations) /\ StartSearch({destinations[at]})
  BY DEF NextDestination, network, StartSearch
<1>2. {destinations[at]} \in SUBSET Nodes /\ TypeOK
  BY <1>1, ElementOfSeq DEF SolveInv, IndInv, TypeOK
<1>3. solving = "merged"
  BY <1>1 DEF SolveInv, TableInv
<1>4. Sources' = {destinations[at]}
  BY <1>1, <1>3 DEF Sources
<1>5. SearchInv'
  BY <1>1, <1>2, <1>4, StartSearchFound
<1>6. TableInv'
  BY <1>1, <1>3, TableKept DEF SolveInv
<1> QED BY <1>5, <1>6

LEMMA InitSolve == Init => SolveInv
BY InitInv DEF Init, SolveInv, SearchInv, TableInv

LEMMA NextSolve == SolveInv /\ [Next]_vars => SolveInv'
<1> SUFFICES ASSUME SolveInv, [Next]_vars PROVE SolveInv'
  OBVIOUS
<1>1. IndInv'
  BY NextInv DEF SolveInv
<1>2. CASE Call
  BY <1>1, <1>2, CallFound DEF Call, SolveInv
<1>3. CASE NextDestination
  BY <1>1, <1>3, NextDestinationFound DEF SolveInv
<1>4. CASE MergeDone
  <2>1. SearchInv'
    BY <1>4 DEF MergeDone, SearchInv
  <2> QED BY <1>1, <1>4, <2>1, MergeDoneFound DEF SolveInv
<1>5. ASSUME NEW n \in Nodes, Take(n) PROVE SolveInv'
  <2>1. TableInv'
    BY <1>5, TableKept DEF SolveInv, Take, network, TableInv
  <2> QED BY <1>1, <1>5, <2>1, TakeFound DEF SolveInv
<1>6. ASSUME NEW e \in 1..Len(edges), Relax(e) PROVE SolveInv'
  <2>1. TableInv'
    BY <1>6, TableKept DEF SolveInv, Relax, network, TableInv
  <2> QED BY <1>1, <1>6, <2>1, RelaxFound DEF SolveInv
<1>7. CASE Exhausted
  <2>1. SearchInv'
    BY <1>7 DEF Exhausted, SearchInv
  <2> QED BY <1>1, <1>7, <2>1, ExhaustedFound DEF SolveInv
<1>8. CASE Return
  BY <1>1, <1>8 DEF Return, SolveInv, SearchInv, TableInv
<1>9. CASE UNCHANGED vars
  <2>1. UNCHANGED <<edges, weight, solving, destinations, rows, state, rest, taken, at, table, pc>>
    BY <1>9 DEF vars, network, search
  <2>2. TableInv'
    BY <2>1, TableKept DEF SolveInv, TableInv
  <2>3. SearchInv'
    BY <2>1 DEF SolveInv, SearchInv, Sources, Reached, Grounded
  <2> QED BY <1>1, <2>2, <2>3 DEF SolveInv
<1> QED BY <1>2, <1>3, <1>4, <1>5, <1>6, <1>7, <1>8, <1>9 DEF Next, Solver

\* The table of a solve that is done leads where it says.
LEMMA DoneLeads == SolveInv => RoutesLead
<1> SUFFICES ASSUME SolveInv, pc = "done", NEW n \in Nodes, table[n].cost # Unreached
             PROVE  LET row == table[n]
                        end == Hops(table, n)[NodeCount]
                    IN  /\ row.edge # -1 =>
                             /\ edges[row.edge] = [from |-> n, to |-> row.next]
                             /\ table[row.next].cost # Unreached
                             /\ row.cost = Plus(table[row.next].cost, weight[row.edge])
                        /\ table[end].edge = -1 /\ table[end].cost = 0
                        /\ end \in ToSet(destinations)
  BY DEF RoutesLead
<1>1. Solved(table, ToSet(destinations)) /\ n \in Reached(table)
  BY DEF SolveInv, TableInv, Reached
<1>2. LET end == Hops(table, n)[NodeCount]
      IN  end \in ToSet(destinations) /\ table[end].edge = -1 /\ table[end].cost = 0
  BY <1>1, SolvedLeads
<1>3. table[n].edge # -1 =>
        /\ edges[table[n].edge] = [from |-> n, to |-> table[n].next]
        /\ table[n].next \in Reached(table)
        /\ table[n].cost = Plus(table[table[n].next].cost, weight[table[n].edge])
  BY <1>1 DEF Solved
<1> QED BY <1>2, <1>3 DEF Reached

\* What the search, and the table it leaves, have found is an invariant of every solve
\* (dijkstra.hpp:184-285).
THEOREM Finding == Spec => []SolveInv
  BY InitSolve, NextSolve, PTL DEF Spec

\* The routes of every table that is returned run along the network's edges, cost what
\* their rows say and end at a destination, whichever searches the rows came from
\* (dijkstra.hpp:155-180, 241-285).
THEOREM RoutesAreRoutes == Spec => []RoutesLead
  BY DoneLeads, Finding, PTL

-----------------------------------------------------------------------------
(* Cheapest routes: what the reference computes.                           *)

\* What one more edge, out of node n, can make of the costs b, and the costs it makes.
Options(b, n) ==
  ({b[n]} \cup {IF b[edges[e].to] = Unreached THEN Unreached ELSE Plus(b[edges[e].to], weight[e]) :
                  e \in {f \in 1..Len(edges) : edges[f].from = n}}) \ {Unreached}

OneMore(b) == [n \in Nodes |-> Cheapest(Options(b, n))]

Direct(D) == [n \in Nodes |-> IF n \in D THEN 0 ELSE Unreached]

\* The costs over routes of at most k edges, as Reference computes them.
Lengthened ==
  {f \in [0..NodeCount -> [Nodes -> Cost]] :
     /\ f[0] = Direct(ToSet(destinations))
     /\ \A k \in 1..NodeCount : f[k] = OneMore(f[k - 1])
     /\ f[NodeCount] = Reference}

LEMMA CheapestOf ==
  ASSUME NEW C \in SUBSET Nat
  PROVE  /\ Cheapest(C) \in Cost
         /\ C = {} => Cheapest(C) = Unreached
         /\ C # {} => Cheapest(C) \in C /\ \A d \in C : Cheapest(C) <= d
<1>1. CASE C = {}
  BY <1>1 DEF Cheapest, Cost
<1>2. CASE C # {}
  <2>1. \E x \in C : \A y \in C : x <= y
    BY <1>2, LeastMember
  <2>2. Min(C) \in C /\ \A d \in C : Min(C) <= d
    BY <2>1 DEF Min
  <2> QED BY <1>2, <2>2 DEF Cheapest, Cost
<1> QED BY <1>1, <1>2

LEMMA OptionsFacts ==
  ASSUME Weighted, NEW b \in [Nodes -> Cost], NEW n \in Nodes
  PROVE  /\ Options(b, n) \in SUBSET Nat
         /\ b[n] # Unreached => b[n] \in Options(b, n)
         /\ \A e \in 1..Len(edges) : edges[e].from = n /\ b[edges[e].to] # Unreached =>
              Plus(b[edges[e].to], weight[e]) \in Options(b, n)
         /\ \A c \in Options(b, n) :
              \/ c = b[n] /\ b[n] # Unreached
              \/ \E e \in 1..Len(edges) :
                   /\ edges[e].from = n /\ b[edges[e].to] # Unreached
                   /\ c = Plus(b[edges[e].to], weight[e])
<1>1. \A m \in Nodes : b[m] \in Cost /\ (b[m] # Unreached => b[m] \in Nat)
  BY DEF Cost
<1>2. ASSUME NEW e \in 1..Len(edges), b[edges[e].to] # Unreached
      PROVE  /\ Plus(b[edges[e].to], weight[e]) \in Nat
             /\ Plus(b[edges[e].to], weight[e]) # Unreached
  <2>1. b[edges[e].to] \in Nat /\ weight[e] \in Nat
    BY <1>1, <1>2 DEF Weighted
  <2>2. Plus(b[edges[e].to], weight[e]) \in Nat
    BY <2>1, PlusTyped
  <2> QED BY <2>2 DEF Unreached
<1>3. \A c \in Options(b, n) :
        \/ c = b[n] /\ b[n] # Unreached
        \/ \E e \in 1..Len(edges) :
             /\ edges[e].from = n /\ b[edges[e].to] # Unreached
             /\ c = Plus(b[edges[e].to], weight[e])
  BY DEF Options
<1>4. Options(b, n) \in SUBSET Nat
  BY <1>1, <1>2, <1>3
<1>5. b[n] # Unreached => b[n] \in Options(b, n)
  BY DEF Options
<1>6. ASSUME NEW e \in 1..Len(edges), edges[e].from = n, b[edges[e].to] # Unreached
      PROVE  Plus(b[edges[e].to], weight[e]) \in Options(b, n)
  BY <1>2, <1>6 DEF Options
<1> QED BY <1>3, <1>4, <1>5, <1>6

LEMMA LengthenedExists ==
  ASSUME Weighted
  PROVE  Lengthened # {}
<1> DEFINE D == ToSet(destinations)
           V == [Nodes -> Cost]
           P(h) == h = [k \in 0..NodeCount |-> [n \in Nodes |->
                          IF k = 0 THEN IF n \in D THEN 0 ELSE Unreached
                          ELSE Cheapest(Options(h[k - 1], n))]]
           G == [k \in 1..NodeCount |-> [b \in V |-> OneMore(b)]]
<1>1. NodeCount \in Nat
  BY NodeAssumption
<1>2. \A b \in V : OneMore(b) \in V
  <2>1. ASSUME NEW b \in [Nodes -> Cost], NEW n \in Nodes PROVE Cheapest(Options(b, n)) \in Cost
    BY OptionsFacts, CheapestOf
  <2> QED BY <2>1 DEF OneMore
<1>3. Direct(D) \in V
  BY DEF Direct, Cost
<1>4. G \in [1..NodeCount -> [V -> V]] /\ \A k \in 1..NodeCount, b \in V : G[k][b] = OneMore(b)
  BY <1>2
<1> HIDE DEF G, V
<1>5. PICK h \in [0..NodeCount -> V] : h[0] = Direct(D) /\ \A k \in 1..NodeCount : h[k] = G[k][h[k - 1]]
  <2>1. Unfolded(NodeCount, V, Direct(D), G) # {}
    BY <1>1, <1>3, <1>4, Unfolding
  <2> QED BY <2>1 DEF Unfolded
<1>6. \A k \in 1..NodeCount : h[k] = OneMore(h[k - 1])
  BY <1>1, <1>4, <1>5
<1>7. P(h)
  <2>1. ASSUME NEW k \in 0..NodeCount
        PROVE  h[k] = [n \in Nodes |-> IF k = 0 THEN IF n \in D THEN 0 ELSE Unreached
                                       ELSE Cheapest(Options(h[k - 1], n))]
    <3>1. CASE k = 0
      BY <1>5, <3>1 DEF Direct
    <3>2. CASE k # 0
      <4>1. k \in 1..NodeCount
        BY <1>1, <3>2
      <4> QED BY <1>6, <3>2, <4>1 DEF OneMore
    <3> QED BY <3>1, <3>2
  <2> QED BY <2>1
<1> DEFINE f == CHOOSE g : P(g)
<1>8. Reference = f[NodeCount]
  BY DEF Reference, Options
<1> HIDE DEF P
<1>9. P(f)
  BY <1>7
<1> HIDE DEF f
<1>10. f = [k \in 0..NodeCount |-> [n \in Nodes |->
              IF k = 0 THEN IF n \in D THEN 0 ELSE Unreached
              ELSE Cheapest(Options(f[k - 1], n))]]
  BY <1>9 DEF P
<1> HIDE DEF D
<1>11. \A k \in 0..NodeCount : f[k] = [n \in Nodes |->
              IF k = 0 THEN IF n \in D THEN 0 ELSE Unreached
              ELSE Cheapest(Options(f[k - 1], n))]
  BY <1>10, Zenon
<1>12. f[0] = Direct(D) /\ \A k \in 1..NodeCount : f[k] = OneMore(f[k - 1])
  <2>1. 0 \in 0..NodeCount /\ \A k \in 1..NodeCount : k \in 0..NodeCount /\ k # 0
    BY <1>1
  <2> QED BY <1>11, <2>1 DEF Direct, OneMore
<1>13. \A k \in 0..NodeCount : f[k] \in V
  <2> DEFINE T == {k \in 0..NodeCount : f[k] \in V}
  <2>1. 0 \in T
    BY <1>1, <1>3, <1>12
  <2>2. ASSUME NEW k \in 1..NodeCount, k - 1 \in T PROVE k \in T
    BY <1>2, <1>12, <2>2
  <2>3. T = 0..NodeCount
    <3>1. T \in SUBSET (0..NodeCount)
      OBVIOUS
    <3> HIDE DEF T
    <3> QED BY <1>1, <2>1, <2>2, <3>1, Upwards
  <2> QED BY <2>3
<1>14. f \in [0..NodeCount -> V]
  <2>1. f = [k \in 0..NodeCount |-> f[k]]
    BY <1>10, <1>11, Zenon
  <2> QED BY <1>13, <2>1
<1>15. f \in Lengthened
  BY <1>8, <1>12, <1>14 DEF Lengthened, V, D
<1> QED BY <1>15

\* A table that is solved has the costs of the reference.
LEMMA SolvedCosts ==
  ASSUME Weighted, NEW t, Solved(t, ToSet(destinations)), NEW n \in Nodes
  PROVE  t[n].cost = Reference[n]
<1> DEFINE D == ToSet(destinations)
<1>1. PICK f \in Lengthened : TRUE
  BY LengthenedExists
<1>2. /\ f \in [0..NodeCount -> [Nodes -> Cost]]
      /\ f[0] = Direct(D) /\ f[NodeCount] = Reference
      /\ \A k \in 1..NodeCount : f[k] = OneMore(f[k - 1])
  BY DEF Lengthened
<1>3. NodeCount \in Nat /\ t \in [Nodes -> Rows] /\ Solved(t, D)
  BY NodeAssumption DEF Solved
<1>4. ASSUME NEW k \in 1..NodeCount, NEW m \in Nodes
      PROVE  /\ f[k - 1] \in [Nodes -> Cost] /\ f[k][m] = Cheapest(Options(f[k - 1], m))
             /\ k \in 0..NodeCount /\ k - 1 \in 0..NodeCount
  <2>1. k - 1 \in 0..NodeCount /\ k \in 0..NodeCount
    BY <1>3
  <2> QED BY <1>2, <2>1 DEF OneMore
<1> HIDE DEF D
\* No route is cheaper than the table.
<1> DEFINE A == {k \in 0..NodeCount : \A m \in Nodes :
                   f[k][m] # Unreached => m \in Reached(t) /\ t[m].cost <= f[k][m]}
<1>5. A = 0..NodeCount
  <2>1. 0 \in A
    <3>1. ASSUME NEW m \in Nodes, f[0][m] # Unreached
          PROVE  m \in Reached(t) /\ t[m].cost <= f[0][m]
      <4>1. m \in D /\ f[0][m] = 0
        BY <1>2, <3>1 DEF Direct
      <4>2. t[m].cost = 0
        BY <1>3, <4>1 DEF Solved
      <4> QED BY <4>1, <4>2 DEF Reached, Unreached
    <3> QED BY <1>3, <3>1
  <2>2. ASSUME NEW k \in 1..NodeCount, k - 1 \in A PROVE k \in A
    <3>1. ASSUME NEW m \in Nodes, f[k][m] # Unreached
          PROVE  m \in Reached(t) /\ t[m].cost <= f[k][m]
      <4> DEFINE b == f[k - 1]
                 c == f[k][m]
      <4>1. b \in [Nodes -> Cost] /\ c = Cheapest(Options(b, m))
        BY <1>4
      <4>2. \A x \in Nodes : b[x] # Unreached => x \in Reached(t) /\ t[x].cost <= b[x]
        BY <2>2
      <4>3. c # Unreached
        BY <3>1
      <4> HIDE DEF b, c
      <4>4. c \in Options(b, m)
        BY <4>1, <4>3, OptionsFacts, CheapestOf
      <4>5. ASSUME c = b[m], b[m] # Unreached PROVE m \in Reached(t) /\ t[m].cost <= c
        BY <4>2, <4>5
      <4>6. ASSUME NEW e \in 1..Len(edges), edges[e].from = m, b[edges[e].to] # Unreached,
                   c = Plus(b[edges[e].to], weight[e])
            PROVE  m \in Reached(t) /\ t[m].cost <= c
        <5> DEFINE x == edges[e].to
        <5>1. x \in Nodes /\ weight[e] \in Nat
          BY DEF Weighted
        <5>2. x \in Reached(t) /\ t[x].cost <= b[x] /\ b[x] \in Nat
          BY <4>1, <4>2, <4>6, <5>1 DEF Cost
        <5>3. t[x].cost \in Nat
          BY <1>3, <5>2, ReachedCosts
        <5>4. m \in Reached(t) /\ t[m].cost <= Plus(t[x].cost, weight[e])
          BY <1>3, <4>6, <5>2 DEF Solved
        <5>5. /\ Plus(t[x].cost, weight[e]) <= Plus(b[x], weight[e])
              /\ Plus(t[x].cost, weight[e]) \in Nat /\ Plus(b[x], weight[e]) \in Nat
          BY <5>1, <5>2, <5>3, PlusMonotone
        <5>6. t[m].cost \in Nat
          BY <1>3, <5>4, ReachedCosts
        <5> HIDE DEF x
        <5>7. t[m].cost <= Plus(b[x], weight[e])
          BY <5>4, <5>5, <5>6
        <5> QED BY <4>6, <5>4, <5>7 DEF x
      <4>7. m \in Reached(t) /\ t[m].cost <= c
        BY <4>1, <4>4, <4>5, <4>6, OptionsFacts
      <4> QED BY <4>7 DEF c
    <3> QED BY <1>4, <3>1
  <2>3. A \in SUBSET (0..NodeCount)
    OBVIOUS
  <2> HIDE DEF A
  <2> QED BY <1>3, <2>1, <2>2, <2>3, Upwards
\* The route of the table is one of the routes.
<1>6. ASSUME n \in Reached(t) PROVE f[NodeCount][n] # Unreached /\ f[NodeCount][n] <= t[n].cost
  <2> DEFINE h == Hops(t, n)
             Met(b, m) == b[m] # Unreached /\ b[m] <= t[m].cost
             B == {k \in 0..NodeCount : Met(f[k], h[NodeCount - k])}
  <2>1. /\ h \in [0..NodeCount -> Reached(t)] /\ h[0] = n
        /\ \A k \in 1..NodeCount : h[k] = IF t[h[k - 1]].edge = -1 THEN h[k - 1] ELSE t[h[k - 1]].next
    BY <1>3, <1>6, HopsFacts, SolvedTrusting
  <2>2. h[NodeCount] \in D /\ t[h[NodeCount]].cost = 0
    BY <1>3, <1>6, SolvedLeads
  <2> HIDE DEF h
  <2>3. 0 \in B
    <3>1. h[NodeCount] \in Nodes
      BY <1>3, <2>2 DEF Solved
    <3>2. f[0][h[NodeCount]] = 0
      BY <1>2, <2>2, <3>1 DEF Direct
    <3>3. NodeCount - 0 = NodeCount /\ 0 \in 0..NodeCount
      BY <1>3
    <3> QED BY <2>2, <3>2, <3>3 DEF Unreached
  <2>4. ASSUME NEW k \in 1..NodeCount, k - 1 \in B PROVE k \in B
    <3> DEFINE b == f[k - 1]
               m == h[NodeCount - k]
               y == h[NodeCount - (k - 1)]
    <3>1. NodeCount - k \in 0..NodeCount /\ NodeCount - (k - 1) \in 1..NodeCount
          /\ (NodeCount - (k - 1)) - 1 = NodeCount - k
      BY <1>3
    <3>2. /\ m \in Reached(t) /\ m \in Nodes /\ t[m].cost \in Nat
          /\ y = IF t[m].edge = -1 THEN m ELSE t[m].next
      <4>1. m \in Reached(t)
        BY <2>1, <3>1
      <4>2. m \in Nodes /\ t[m].cost \in Nat
        BY <1>3, <4>1, ReachedCosts
      <4>3. y = IF t[m].edge = -1 THEN m ELSE t[m].next
        BY <2>1, <3>1
      <4> QED BY <4>1, <4>2, <4>3
    <3>3. Met(b, y)
      BY <2>4
    <3>4. b \in [Nodes -> Cost] /\ f[k][m] = Cheapest(Options(b, m))
      BY <1>4, <3>2
    <3> HIDE DEF b, m, y
    <3>5. \E c \in Options(b, m) : c <= t[m].cost
      <4>1. CASE t[m].edge = -1
        BY <3>2, <3>3, <3>4, <4>1, OptionsFacts
      <4>2. CASE t[m].edge # -1
        <5> DEFINE e == t[m].edge
        <5>1. /\ edges[e] = [from |-> m, to |-> y] /\ y \in Reached(t)
              /\ t[m].cost = Plus(t[y].cost, weight[e])
          BY <1>3, <3>2, <4>2 DEF Solved
        <5>2. e \in 1..Len(edges) /\ weight[e] \in Nat
          <6>1. t[m] \in Rows
            BY <1>3, <3>2
          <6>2. t[m].edge \in 1..Len(edges)
            BY <4>2, <6>1 DEF Rows
          <6> QED BY <6>2 DEF Weighted
        <5>3. y \in Nodes /\ t[y].cost \in Nat
          BY <1>3, <5>1, ReachedCosts
        <5>4. b[y] \in Nat /\ b[y] <= t[y].cost /\ b[y] # Unreached
          BY <3>3, <3>4, <5>3 DEF Cost
        <5> HIDE DEF e
        <5>5. Plus(b[y], weight[e]) \in Options(b, m)
          <6>1. edges[e].from = m /\ edges[e].to = y
            BY <5>1
          <6> QED BY <3>2, <3>4, <5>2, <5>4, <6>1, OptionsFacts
        <5>6. Plus(b[y], weight[e]) <= Plus(t[y].cost, weight[e])
          BY <5>2, <5>3, <5>4, PlusMonotone
        <5> QED BY <5>1, <5>5, <5>6
      <4> QED BY <4>1, <4>2
    <3>6. Options(b, m) \in SUBSET Nat
      BY <3>2, <3>4, OptionsFacts
    <3>7. /\ f[k][m] \in Options(b, m) /\ \A c \in Options(b, m) : f[k][m] <= c
      BY <3>4, <3>5, <3>6, CheapestOf
    <3>8. f[k][m] \in Nat /\ f[k][m] <= t[m].cost
      <4> DEFINE z == f[k][m]
      <4> HIDE DEF z
      <4>1. z \in Nat /\ z <= t[m].cost
        BY <3>2, <3>5, <3>6, <3>7 DEF z
      <4> QED BY <4>1 DEF z
    <3>9. f[k][m] # Unreached
      BY <3>8 DEF Unreached
    <3>10. k \in 0..NodeCount
      BY <1>3
    <3> QED BY <3>8, <3>9, <3>10 DEF m
  <2>5. B = 0..NodeCount
    <3>1. B \in SUBSET (0..NodeCount)
      OBVIOUS
    <3> HIDE DEF B
    <3> QED BY <1>3, <2>3, <2>4, <3>1, Upwards
  <2>6. NodeCount \in B /\ NodeCount - NodeCount = 0
    BY <1>3, <2>5
  <2> QED BY <2>1, <2>6
<1>7. f[NodeCount][n] # Unreached => n \in Reached(t) /\ t[n].cost <= f[NodeCount][n]
  <2>1. NodeCount \in A
    BY <1>3, <1>5
  <2> QED BY <2>1
<1>8. f[NodeCount][n] \in Cost /\ t[n].cost \in Cost
  <2>1. NodeCount \in 0..NodeCount
    BY <1>3
  <2>2. f[NodeCount] \in [Nodes -> Cost]
    BY <1>2, <2>1
  <2> QED BY <1>3, <2>2 DEF Rows
<1> HIDE DEF A
<1>9. f[NodeCount][n] = t[n].cost
  <2>1. n \in Reached(t) <=> t[n].cost # Unreached
    BY DEF Reached
  <2> QED BY <1>6, <1>7, <1>8, <2>1 DEF Cost, Unreached
<1> QED BY <1>2, <1>9

\* The table of a solve that is done has the costs of the reference.
LEMMA DoneCheapest == SolveInv => CostsAreCheapest
<1> SUFFICES ASSUME SolveInv, pc = "done", NEW n \in Nodes
             PROVE  table[n].cost = Reference[n]
  BY DEF CostsAreCheapest
<1>1. Solved(table, ToSet(destinations)) /\ Weighted
  BY WeightedWhen DEF SolveInv, TableInv, IndInv
<1> QED BY <1>1, SolvedCosts

\* The costs of every table that is returned are those of cheapest routes, merged or
\* not, whatever the sums lose, if no weight is negative (dijkstra.hpp:184-285).
THEOREM CheapestCosts == Spec => []CostsAreCheapest
  BY DoneCheapest, Finding, PTL

-----------------------------------------------------------------------------
(* Paths: sequences of edges.                                              *)

\* The nodes a path of edges es visits on its way from node n to one of D.
Via(es, n, D) ==
  {v \in [0..Len(es) -> Nodes] :
     /\ v[0] = n /\ v[Len(es)] \in D
     /\ \A k \in 1..Len(es) : edges[es[k]].from = v[k - 1] /\ edges[es[k]].to = v[k]}

\* What has been spent after each edge of a path.
Spent(es) ==
  {c \in [0..Len(es) -> Nat] :
     /\ c[0] = 0
     /\ \A k \in 1..Len(es) : c[k] = Plus(c[k - 1], weight[es[k]])}

\* Two functions that agree on 0..N where one step determines the next are equal.
LEMMA SameSteps ==
  ASSUME NEW N \in Nat, NEW f, NEW g, f[0] = g[0],
         \A k \in 1..N : f[k - 1] = g[k - 1] => f[k] = g[k]
  PROVE  f[N] = g[N]
<1> DEFINE T == {k \in 0..N : f[k] = g[k]}
<1>1. 0 \in T
  OBVIOUS
<1>2. ASSUME NEW k \in 1..N, k - 1 \in T PROVE k \in T
  BY <1>2
<1>3. T \in SUBSET (0..N)
  OBVIOUS
<1> HIDE DEF T
<1>4. T = 0..N
  BY <1>1, <1>2, <1>3, Upwards
<1> QED BY <1>4 DEF T

LEMMA EndOfRoute ==
  ASSUME NEW es, Len(es) \in Nat, NEW n, NEW D, NEW v \in Via(es, n, D)
  PROVE  EndOf(n, es) = v[Len(es)] /\ EndOf(n, es) \in D
<1> DEFINE N == Len(es)
           P(f) == f = [k \in 0..Len(es) |->
                          IF k = 0 THEN n
                          ELSE IF edges[es[k]].from = f[k - 1] THEN edges[es[k]].to ELSE -1]
<1>1. /\ v \in [0..N -> Nodes] /\ v[0] = n /\ v[N] \in D
      /\ \A k \in 1..N : edges[es[k]].from = v[k - 1] /\ edges[es[k]].to = v[k]
  BY DEF Via
<1>2. P(v)
  <2>1. ASSUME NEW k \in 0..N
        PROVE  v[k] = IF k = 0 THEN n
                      ELSE IF edges[es[k]].from = v[k - 1] THEN edges[es[k]].to ELSE -1
    <3>1. CASE k = 0
      BY <1>1, <3>1
    <3>2. CASE k # 0
      <4>1. k \in 1..N
        BY <3>2
      <4> QED BY <1>1, <3>2, <4>1
    <3> QED BY <3>1, <3>2
  <2> QED BY <1>1, <2>1
<1> DEFINE f == CHOOSE g : P(g)
<1>3. EndOf(n, es) = f[Len(es)]
  BY DEF EndOf
<1> HIDE DEF P
<1>4. P(f)
  BY <1>2
<1> HIDE DEF f
<1>5. f = [k \in 0..Len(es) |-> IF k = 0 THEN n
             ELSE IF edges[es[k]].from = f[k - 1] THEN edges[es[k]].to ELSE -1]
  BY <1>4 DEF P
<1>6. \A k \in 0..Len(es) : f[k] = IF k = 0 THEN n
             ELSE IF edges[es[k]].from = f[k - 1] THEN edges[es[k]].to ELSE -1
  BY <1>5, Zenon
<1>7. f[0] = n /\ \A k \in 1..N : f[k] = IF edges[es[k]].from = f[k - 1] THEN edges[es[k]].to ELSE -1
  BY <1>6
<1>8. f[N] = v[N]
  <2>1. f[0] = v[0] /\ \A k \in 1..N : f[k - 1] = v[k - 1] => f[k] = v[k]
    BY <1>1, <1>7
  <2>2. N \in Nat
    OBVIOUS
  <2> HIDE DEF N
  <2> QED BY <2>1, <2>2, SameSteps
<1> QED BY <1>1, <1>3, <1>8

\* What EndOf computes when it ends in a node.
LEMMA RouteOfEnd ==
  ASSUME Weighted, NEW es \in Seq(1..Len(edges)), NEW n \in Nodes, NEW D \in SUBSET Nodes,
         EndOf(n, es) \in D
  PROVE  Via(es, n, D) # {}
<1> DEFINE N == Len(es)
           V == Nodes \cup {-1}
           Step(k, x) == IF edges[es[k]].from = x THEN edges[es[k]].to ELSE -1
           P(f) == f = [k \in 0..Len(es) |-> IF k = 0 THEN n ELSE Step(k, f[k - 1])]
           G == [k \in 1..N |-> [x \in V |-> Step(k, x)]]
<1>1. N \in Nat /\ \A k \in 1..N : es[k] \in 1..Len(edges)
  BY LenProperties, ElementOfSeq
<1>2. \A k \in 1..N : edges[es[k]].from \in Nodes /\ edges[es[k]].to \in Nodes
  BY <1>1 DEF Weighted
<1>3. \A k \in 1..N, x \in V : Step(k, x) \in V
  BY <1>2
<1>4. G \in [1..N -> [V -> V]] /\ \A k \in 1..N, x \in V : G[k][x] = Step(k, x)
  BY <1>3
<1>5. n \in V
  OBVIOUS
<1> HIDE DEF G, V, Step
<1>6. PICK h \in [0..N -> V] : h[0] = n /\ \A k \in 1..N : h[k] = G[k][h[k - 1]]
  <2>1. Unfolded(N, V, n, G) # {}
    BY <1>1, <1>4, <1>5, Unfolding
  <2> QED BY <2>1 DEF Unfolded
<1>7. \A k \in 1..N : h[k] = Step(k, h[k - 1])
  <2> TAKE k \in 1..N
  <2>1. k - 1 \in 0..N
    BY <1>1
  <2> QED BY <1>4, <1>6, <2>1
<1>8. P(h)
  <2>1. ASSUME NEW k \in 0..N PROVE h[k] = IF k = 0 THEN n ELSE Step(k, h[k - 1])
    <3>1. CASE k = 0
      BY <1>6, <3>1
    <3>2. CASE k # 0
      <4>1. k \in 1..N
        BY <1>1, <3>2
      <4> QED BY <1>7, <3>2, <4>1
    <3> QED BY <3>1, <3>2
  <2> QED BY <2>1
<1> DEFINE f == CHOOSE g : P(g)
<1>9. EndOf(n, es) = f[Len(es)]
  BY DEF EndOf, Step
<1> HIDE DEF P
<1>10. P(f)
  BY <1>8
<1> HIDE DEF f
<1>11. f = [k \in 0..Len(es) |-> IF k = 0 THEN n ELSE Step(k, f[k - 1])]
  BY <1>10 DEF P
<1>12. \A k \in 0..Len(es) : f[k] = IF k = 0 THEN n ELSE Step(k, f[k - 1])
  BY <1>11, Zenon
<1>13. f[0] = n /\ \A k \in 1..N : f[k] = Step(k, f[k - 1])
  BY <1>1, <1>12
<1>14. f[N] = h[N]
  <2>1. f[0] = h[0] /\ \A k \in 1..N : f[k - 1] = h[k - 1] => f[k] = h[k]
    BY <1>6, <1>7, <1>13
  <2> HIDE DEF N
  <2> QED BY <1>1, <2>1, SameSteps
<1>15. h[N] \in D
  BY <1>9, <1>14
\* What is not a node stays what it is, so no node on the way is none.
<1>16. \A k \in 0..N : h[N - k] \in Nodes
  <2> DEFINE T == {k \in 0..N : h[N - k] \in Nodes}
  <2>1. 0 \in T
    BY <1>1, <1>15
  <2>2. ASSUME NEW k \in 1..N, k - 1 \in T PROVE k \in T
    <3>1. N - (k - 1) \in 1..N /\ (N - (k - 1)) - 1 = N - k /\ N - k \in 0..N
      BY <1>1
    <3>2. h[N - (k - 1)] = Step(N - (k - 1), h[N - k]) /\ h[N - (k - 1)] \in Nodes
      BY <1>7, <2>2, <3>1
    <3>3. edges[es[N - (k - 1)]].from = h[N - k]
      <4>1. -1 \notin Nodes
        BY DEF Nodes
      <4> QED BY <3>2, <4>1 DEF Step
    <3>4. h[N - k] \in Nodes
      BY <1>2, <3>1, <3>3
    <3> QED BY <1>1, <3>4
  <2>3. T \in SUBSET (0..N)
    OBVIOUS
  <2> HIDE DEF T
  <2>4. T = 0..N
    BY <1>1, <2>1, <2>2, <2>3, Upwards
  <2> QED BY <2>4 DEF T
<1>17. \A k \in 0..N : h[k] \in Nodes
  <2> TAKE k \in 0..N
  <2>1. N - k \in 0..N /\ N - (N - k) = k
    BY <1>1
  <2> QED BY <1>16, <2>1
<1>18. \A k \in 1..N : edges[es[k]].from = h[k - 1] /\ edges[es[k]].to = h[k]
  <2> TAKE k \in 1..N
  <2>1. h[k] \in Nodes /\ -1 \notin Nodes
    BY <1>17, <1>1 DEF Nodes
  <2> QED BY <1>7, <2>1 DEF Step
<1>19. h \in [0..N -> Nodes]
  BY <1>6, <1>17
<1>20. h \in Via(es, n, D)
  BY <1>6, <1>15, <1>18, <1>19 DEF Via
<1> QED BY <1>20

LEMMA SpentExists ==
  ASSUME Weighted, NEW es \in Seq(1..Len(edges))
  PROVE  Spent(es) # {}
<1> DEFINE N == Len(es)
           G == [k \in 1..N |-> [x \in Nat |-> Plus(x, weight[es[k]])]]
<1>1. N \in Nat /\ \A k \in 1..N : es[k] \in 1..Len(edges) /\ weight[es[k]] \in Nat
  BY LenProperties, ElementOfSeq DEF Weighted
<1>2. G \in [1..N -> [Nat -> Nat]]
  BY <1>1, PlusTyped
<1>3. \A k \in 1..N, x \in Nat : G[k][x] = Plus(x, weight[es[k]])
  OBVIOUS
<1> HIDE DEF G
<1>4. PICK h \in [0..N -> Nat] : h[0] = 0 /\ \A k \in 1..N : h[k] = G[k][h[k - 1]]
  <2>1. Unfolded(N, Nat, 0, G) # {}
    BY <1>1, <1>2, Unfolding
  <2> QED BY <2>1 DEF Unfolded
<1>5. \A k \in 1..N : h[k] = Plus(h[k - 1], weight[es[k]])
  <2> TAKE k \in 1..N
  <2>1. k - 1 \in 0..N /\ h[k - 1] \in Nat
    BY <1>1
  <2> QED BY <1>3, <1>4, <2>1
<1>6. h \in Spent(es)
  BY <1>4, <1>5 DEF Spent
<1> QED BY <1>6

LEMMA CostOfRoute ==
  ASSUME NEW es, Len(es) \in Nat, NEW c \in Spent(es)
  PROVE  CostOf(es) = c[Len(es)]
<1> DEFINE N == Len(es)
           P(f) == f = [k \in 0..Len(es) |-> IF k = 0 THEN 0 ELSE Plus(f[k - 1], weight[es[k]])]
<1>1. /\ c \in [0..N -> Nat] /\ c[0] = 0
      /\ \A k \in 1..N : c[k] = Plus(c[k - 1], weight[es[k]])
  BY DEF Spent
<1>2. P(c)
  <2>1. ASSUME NEW k \in 0..N PROVE c[k] = IF k = 0 THEN 0 ELSE Plus(c[k - 1], weight[es[k]])
    <3>1. CASE k = 0
      BY <1>1, <3>1
    <3>2. CASE k # 0
      <4>1. k \in 1..N
        BY <3>2
      <4> QED BY <1>1, <3>2, <4>1
    <3> QED BY <3>1, <3>2
  <2> QED BY <1>1, <2>1
<1> DEFINE f == CHOOSE g : P(g)
<1>3. CostOf(es) = f[Len(es)]
  BY DEF CostOf
<1> HIDE DEF P
<1>4. P(f)
  BY <1>2
<1> HIDE DEF f
<1>5. f = [k \in 0..Len(es) |-> IF k = 0 THEN 0 ELSE Plus(f[k - 1], weight[es[k]])]
  BY <1>4 DEF P
<1>6. \A k \in 0..Len(es) : f[k] = IF k = 0 THEN 0 ELSE Plus(f[k - 1], weight[es[k]])
  BY <1>5, Zenon
<1>7. f[0] = 0 /\ \A k \in 1..N : f[k] = Plus(f[k - 1], weight[es[k]])
  BY <1>6
<1>8. f[N] = c[N]
  <2>1. f[0] = c[0] /\ \A k \in 1..N : f[k - 1] = c[k - 1] => f[k] = c[k]
    BY <1>1, <1>7
  <2>2. N \in Nat
    OBVIOUS
  <2> HIDE DEF N
  <2> QED BY <2>1, <2>2, SameSteps
<1> QED BY <1>3, <1>8

\* No edge of a path makes it cheaper.
LEMMA SpentGrows ==
  ASSUME Weighted, NEW es \in Seq(1..Len(edges)), NEW c \in Spent(es), NEW i \in 0..Len(es)
  PROVE  c[i] <= c[Len(es)]
<1> DEFINE N == Len(es)
           T == {k \in 0..N : OnGrid(c[k]) /\ (i <= k => c[i] <= c[k])}
<1>1. N \in Nat /\ \A k \in 1..N : es[k] \in 1..Len(edges) /\ weight[es[k]] \in Nat
  BY LenProperties, ElementOfSeq DEF Weighted
<1>2. /\ c \in [0..N -> Nat] /\ c[0] = 0
      /\ \A k \in 1..N : c[k] = Plus(c[k - 1], weight[es[k]])
  BY DEF Spent
<1>3. 0 \in T
  <2>1. OnGrid(0)
    BY PrecisionAssumption DEF OnGrid
  <2>2. i <= 0 => i = 0
    BY <1>1
  <2> QED BY <1>1, <1>2, <2>1, <2>2
<1>4. ASSUME NEW k \in 1..N, k - 1 \in T PROVE k \in T
  <2>1. k \in 0..N /\ k - 1 \in 0..N /\ i \in 0..N /\ c[i] \in Nat /\ c[k] \in Nat /\ c[k - 1] \in Nat
    <3>1. k \in 0..N /\ k - 1 \in 0..N /\ i \in 0..N
      BY <1>1
    <3> HIDE DEF N
    <3> QED BY <1>2, <3>1
  <2>2. OnGrid(c[k]) /\ c[k - 1] <= c[k]
    BY <1>1, <1>2, <1>4, PlusGrows
  <2>3. i <= k => c[i] <= c[k]
    <3>1. CASE i = k
      BY <2>1, <3>1
    <3>2. CASE i # k
      BY <1>4, <2>1, <2>2, <3>2
    <3> QED BY <3>1, <3>2
  <2> QED BY <2>1, <2>2, <2>3
<1>5. T \in SUBSET (0..N)
  OBVIOUS
<1>6. T = 0..N
  <2> HIDE DEF T
  <2> QED BY <1>1, <1>3, <1>4, <1>5, Upwards
<1>7. N \in T
  BY <1>1, <1>6
<1> QED BY <1>7

\* A table whose routes run along the edges and end in D, whatever they cost.
Leading(t, D) ==
  /\ t \in [Nodes -> Rows]
  /\ Trusting(t) /\ Grounded(t)
  /\ \A n \in Reached(t) : t[n].edge = -1 => n \in D
  /\ \A n \in Reached(t) : t[n].edge # -1 => edges[t[n].edge] = [from |-> n, to |-> t[n].next]

LEMMA SolvedIsLeading ==
  ASSUME NEW t, NEW D, Solved(t, D)
  PROVE  Leading(t, D)
BY SolvedTrusting DEF Solved, Leading

\* get_path, of the table t.
Followed(t, start) ==
  LET hop  == Hops(t, start)
      edge(k) == t[hop[k]].edge
      hops == Cardinality({k \in 0..(NodeCount - 1) : edge(k) # -1})
  IN  [k \in 1..hops |-> edge(k - 1)]

LEMMA CountTo ==
  ASSUME NEW c \in Nat
  PROVE  Cardinality(0..(c - 1)) = c
<1>1. Cardinality(0..(c - 1)) = IF 0 > c - 1 THEN 0 ELSE (c - 1) - 0 + 1
  BY FS_Interval
<1> QED BY <1>1

\* The hops of a table and how many of them there are.
LEMMA HopsAlong ==
  ASSUME NEW t \in [Nodes -> Rows], Trusting(t), Grounded(t), NEW n \in Reached(t)
  PROVE  \E c \in 0..(NodeCount - 1) :
           /\ Cardinality({k \in 0..(NodeCount - 1) : t[Hops(t, n)[k]].edge # -1}) = c
           /\ t[Hops(t, n)[c]].edge = -1 /\ Hops(t, n)[0] = n
           /\ Hops(t, n)[c] \in Reached(t)
           /\ \A k \in 1..c : /\ Hops(t, n)[k] = t[Hops(t, n)[k - 1]].next
                              /\ Hops(t, n)[k] \in Reached(t) /\ Hops(t, n)[k - 1] \in Reached(t)
                              /\ t[Hops(t, n)[k - 1]].edge \in 1..Len(edges)
           /\ \A i \in 0..c, j \in 0..c : i # j => Hops(t, n)[i] # Hops(t, n)[j]
<1> DEFINE f == Hops(t, n)
<1>1. PICK c \in 0..(NodeCount - 1) :
        /\ {k \in 0..(NodeCount - 1) : t[Hops(t, n)[k]].edge # -1} = 0..(c - 1)
        /\ t[Hops(t, n)[c]].edge = -1
  BY HopsCount
<1>2. NodeCount \in Nat /\ c \in Nat /\ c \in 0..NodeCount
  BY NodeAssumption
<1>3. /\ f \in [0..NodeCount -> Reached(t)] /\ f[0] = n
      /\ \A k \in 1..NodeCount : f[k] = IF t[f[k - 1]].edge = -1 THEN f[k - 1] ELSE t[f[k - 1]].next
  BY HopsFacts
<1>4. Cardinality({k \in 0..(NodeCount - 1) : t[Hops(t, n)[k]].edge # -1}) = c
  BY <1>1, <1>2, CountTo
<1>5. \A k \in 0..(c - 1) : t[f[k]].edge # -1
  <2> TAKE k \in 0..(c - 1)
  <2>1. k \in {j \in 0..(NodeCount - 1) : t[Hops(t, n)[j]].edge # -1}
    BY <1>1
  <2> QED BY <2>1
<1>6. ASSUME NEW i \in 0..c, NEW j \in 0..c, i < j PROVE f[i] # f[j]
  <2>1. i \in 0..NodeCount /\ j \in 0..NodeCount /\ \A k \in i..(j - 1) : k \in 0..(c - 1)
    BY <1>2, <1>6
  <2>2. \A k \in i..(j - 1) : t[Hops(t, n)[k]].edge # -1
    BY <1>5, <2>1
  <2> QED BY <1>6, <2>1, <2>2, HopsDiffer
<1>7. t[f[c]].edge = -1
  BY <1>1
<1> HIDE DEF f
<1>8. ASSUME NEW k \in 1..c
      PROVE  /\ f[k] = t[f[k - 1]].next /\ f[k] \in Reached(t) /\ f[k - 1] \in Reached(t)
             /\ t[f[k - 1]].edge \in 1..Len(edges)
  <2>1. k \in 1..NodeCount /\ k - 1 \in 0..NodeCount /\ k \in 0..NodeCount /\ k - 1 \in 0..(c - 1)
    BY <1>2
  <2>2. f[k] \in Reached(t) /\ f[k - 1] \in Reached(t) /\ t[f[k - 1]].edge # -1
    BY <1>3, <1>5, <2>1
  <2>3. t[f[k - 1]] \in Rows
    BY <2>2, ReachedCosts
  <2>4. t[f[k - 1]].edge \in 1..Len(edges)
    BY <2>2, <2>3 DEF Rows
  <2>5. f[k] = t[f[k - 1]].next
    BY <1>3, <2>1, <2>2
  <2> QED BY <2>2, <2>4, <2>5
<1>9. ASSUME NEW i \in 0..c, NEW j \in 0..c, i # j PROVE f[i] # f[j]
  <2>1. i < j \/ j < i
    BY <1>2, <1>9
  <2>2. CASE i < j
    BY <1>6, <2>2
  <2>3. CASE j < i
    <3>1. f[j] # f[i]
      BY <1>6, <2>3
    <3> QED BY <3>1
  <2> QED BY <2>1, <2>2, <2>3
<1>10. f[c] \in Reached(t)
  BY <1>2, <1>3
<1>11. /\ Cardinality({k \in 0..(NodeCount - 1) : t[f[k]].edge # -1}) = c
       /\ t[f[c]].edge = -1 /\ f[0] = n /\ f[c] \in Reached(t)
       /\ \A k \in 1..c : /\ f[k] = t[f[k - 1]].next
                          /\ f[k] \in Reached(t) /\ f[k - 1] \in Reached(t)
                          /\ t[f[k - 1]].edge \in 1..Len(edges)
       /\ \A i \in 0..c, j \in 0..c : i # j => f[i] # f[j]
  <2>1. Cardinality({k \in 0..(NodeCount - 1) : t[f[k]].edge # -1}) = c
    BY <1>4 DEF f
  <2> QED BY <1>3, <1>7, <1>8, <1>9, <1>10, <2>1
<1> QED BY <1>11 DEF f

\* What the table records is a path to one of its destinations.
LEMMA FollowedArrives ==
  ASSUME NEW t, NEW D, Leading(t, D), NEW n \in Reached(t)
  PROVE  /\ Followed(t, n) \in Seq(1..Len(edges))
         /\ Via(Followed(t, n), n, D) # {}
<1> DEFINE f == Hops(t, n)
           es == Followed(t, n)
<1>1. t \in [Nodes -> Rows] /\ Trusting(t) /\ Grounded(t)
  BY DEF Leading
<1>2. PICK c \in 0..(NodeCount - 1) :
        /\ Cardinality({k \in 0..(NodeCount - 1) : t[f[k]].edge # -1}) = c
        /\ t[f[c]].edge = -1 /\ f[0] = n /\ f[c] \in Reached(t)
        /\ \A k \in 1..c : /\ f[k] = t[f[k - 1]].next
                           /\ f[k] \in Reached(t) /\ f[k - 1] \in Reached(t)
                           /\ t[f[k - 1]].edge \in 1..Len(edges)
  BY <1>1, HopsAlong
<1>3. c \in Nat
  BY NodeAssumption
<1>4. es = [k \in 1..c |-> t[f[k - 1]].edge]
  BY <1>2 DEF Followed
<1> HIDE DEF f, es
<1>5. es \in Seq(1..Len(edges)) /\ Len(es) = c /\ \A k \in 1..c : es[k] = t[f[k - 1]].edge
  <2>1. es \in [1..c -> 1..Len(edges)] /\ \A k \in 1..c : es[k] = t[f[k - 1]].edge
    BY <1>2, <1>4
  <2>2. es \in Seq(1..Len(edges)) /\ Len(es) = c
    BY <1>3, <2>1, IsASeq, LenProperties
  <2> QED BY <2>1, <2>2
<1> DEFINE v == [k \in 0..c |-> f[k]]
<1>6. v \in [0..c -> Nodes]
  <2>1. \A k \in 0..c : f[k] \in Nodes
    <3>1. \A k \in 0..c : k = 0 \/ k \in 1..c
      BY <1>3
    <3> QED BY <1>2, <3>1 DEF Reached
  <2> QED BY <2>1
<1>7. v[0] = n /\ v[c] \in D
  <2>1. f[c] \in D
    BY <1>2 DEF Leading
  <2> QED BY <1>2, <1>3, <2>1
<1>8. ASSUME NEW k \in 1..c PROVE edges[es[k]].from = v[k - 1] /\ edges[es[k]].to = v[k]
  <2>1. k \in 0..c /\ k - 1 \in 0..c
    BY <1>3
  <2>2. edges[t[f[k - 1]].edge] = [from |-> f[k - 1], to |-> t[f[k - 1]].next]
    <3>1. t[f[k - 1]].edge # -1 /\ f[k - 1] \in Reached(t)
      BY <1>2
    <3> QED BY <3>1 DEF Leading
  <2> QED BY <1>2, <1>5, <2>1, <2>2
<1>9. v \in Via(es, n, D)
  <2> HIDE DEF v
  <2> QED BY <1>5, <1>6, <1>7, <1>8 DEF Via
<1> QED BY <1>5, <1>9 DEF es

-----------------------------------------------------------------------------
(* Detours: the search forward from a start.                               *)

\* What a query leaves as the solver returned it, and its arguments.
QueryOK ==
  /\ edges \in Topologies /\ weight \in [1..Len(edges) -> EdgeWeights]
  /\ query.start \in Nodes
  /\ destinations \in Seq(Nodes) /\ at = 1
  /\ table \in [Nodes -> Rows]
  /\ solving \in {"none", "nearest", "merged"}

\* The heap holds the open nodes, and costs leave it in ascending order.
ForwardHeap ==
  /\ rows \in [Nodes -> Rows] /\ state \in [Nodes -> 0..2]
  /\ DOMAIN queue = {n \in Nodes : state[n] = 2}
  /\ \A n \in DOMAIN queue : queue[n] = rows[n].cost /\ OnGrid(queue[n]) /\ taken.weight <= queue[n]
  /\ OnGrid(taken.weight)
  /\ \A n \in Nodes : state[n] = 1 => rows[n].cost \in Nat /\ rows[n].cost <= taken.weight
  /\ rest \subseteq Open(taken.node)

\* Every row that is reached is the start's, or costs the edge from a settled row; no
\* open edge from a settled node leads to anything cheaper, and no goal is settled.
ForwardFound ==
  /\ \A n \in Nodes : (n \in Reached(rows) <=> state[n] # 0)
                      /\ (n \in Reached(rows) => OnGrid(rows[n].cost))
  /\ query.start \notin Goals /\ rows[query.start].cost = 0
  /\ \A n \in Reached(rows) : rows[n].edge = -1 => n = query.start
  /\ \A n \in Reached(rows) : rows[n].edge # -1 =>
       /\ edges[rows[n].edge] = [from |-> rows[n].next, to |-> n]
       /\ rows[n].edge \notin query.removed
       /\ rows[n].next \in Nodes /\ state[rows[n].next] = 1
       /\ rows[n].cost = Plus(rows[rows[n].next].cost, weight[rows[n].edge])
  /\ rest # {} => /\ taken.node \in Nodes /\ state[taken.node] = 1
                  /\ rows[taken.node].cost = taken.weight
  /\ \A n \in Goals : state[n] # 1
  /\ \A e \in 1..Len(edges) : state[edges[e].from] = 1 /\ e \notin rest /\ e \notin query.removed =>
       /\ edges[e].to \in Reached(rows)
       /\ rows[edges[e].to].cost <= Plus(rows[edges[e].from].cost, weight[e])
  /\ Grounded(rows)

ForwardInv == QueryOK /\ ForwardHeap /\ ForwardFound

\* The paths to a goal without a removed edge.
Detours ==
  {es \in Seq((1..Len(edges)) \ query.removed) : Via(es, query.start, Goals) # {}}

LEMMA QueryWeighted ==
  ASSUME QueryOK
  PROVE  /\ Weighted
         /\ \A e \in 1..Len(edges) : edges[e] \in [from : Nodes, to : Nodes] /\ weight[e] \in Nat
<1>1. edges \in Seq([from : Nodes, to : Nodes])
  BY EdgeAssumption DEF QueryOK
<1>2. \A e \in 1..Len(edges) : edges[e] \in [from : Nodes, to : Nodes]
  BY <1>1, ElementOfSeq
<1>3. weight \in [1..Len(edges) -> Nat]
  BY EdgeAssumption DEF QueryOK
<1> QED BY <1>2, <1>3 DEF Weighted

\* What add or decrease_key makes of the queue, whichever the state array chooses.
LEMMA RequeueEffect ==
  ASSUME NEW to \in Nodes, NEW cost \in Nat, state \in [Nodes -> 0..2],
         DOMAIN queue = {n \in Nodes : state[n] = 2},
         \A n \in DOMAIN queue : queue[n] = rows[n].cost /\ queue[n] \in Nat,
         Less(cost, rows[to].cost), Requeue(to, cost)
  PROVE  /\ queue' = [m \in DOMAIN queue \cup {to} |-> IF m = to THEN cost ELSE queue[m]]
         /\ taken' = taken
         /\ state' = [state EXCEPT ![to] = 2]
<1>1. CASE state[to] # 2
  BY <1>1 DEF Requeue, Q!QAdd, Q!Put
<1>2. CASE state[to] = 2
  <2>1. to \in DOMAIN queue /\ queue[to] = rows[to].cost /\ queue[to] \in Nat
    BY <1>2
  <2>2. ~ cost >= queue[to]
    BY <2>1 DEF Less, Unreached
  <2>3. queue' = Q!Put(queue, to, cost) /\ taken' = taken /\ state' = state
    BY <1>2, <2>1, <2>2 DEF Requeue, Q!QDecreaseKey
  <2> QED BY <1>2, <2>3 DEF Q!Put
<1> QED BY <1>1, <1>2

LEMMA ForwardStarts ==
  ASSUME edges \in Topologies, NEW start \in Nodes, start \notin Goals, StartDetour(start),
         UNCHANGED edges, query'.start = start
  PROVE  pc' = "detour" /\ UNCHANGED path /\ ForwardHeap' /\ ForwardFound'
<1>1. /\ rows' = Started({start}) /\ rest' = {} /\ pc' = "detour" /\ UNCHANGED path
      /\ state' = [n \in Nodes |-> IF n = start THEN 2 ELSE 0]
      /\ queue' = [n \in {start} |-> 0] /\ taken' = [node |-> -1, weight |-> 0]
  BY DEF StartDetour, Q!NoneTaken
<1>2. \A n \in Nodes : rows'[n] = IF n = start THEN AtEnd(n) ELSE NoRow
  BY <1>1 DEF Started
<1>3. rows'[start].cost = 0 /\ rows'[start].edge = -1
  <2>1. rows'[start] = [next |-> start, edge |-> -1, cost |-> 0]
    BY <1>2 DEF AtEnd
  <2> QED BY <2>1
<1>4. Reached(rows)' = {start}
  <2>1. ASSUME NEW n \in Nodes, n # start PROVE rows'[n].cost = Unreached
    BY <1>2, <2>1 DEF NoRow
  <2>2. 0 # Unreached
    BY DEF Unreached
  <2> QED BY <1>3, <2>1, <2>2 DEF Reached
<1>5. OnGrid(0)
  BY PrecisionAssumption DEF OnGrid
<1>6. Grounded(rows)'
  BY <1>3, <1>4 DEF Grounded
<1>7. /\ \A n \in Nodes : state'[n] # 1 /\ (n = start <=> state'[n] # 0)
                          /\ (n = start <=> state'[n] = 2)
      /\ state' \in [Nodes -> 0..2]
  BY <1>1
<1>8. edges \in Seq([from : Nodes, to : Nodes])
  BY EdgeAssumption
<1>9. \A e \in 1..Len(edges) : edges[e].from \in Nodes
  <2>1. \A e \in 1..Len(edges) : edges[e] \in [from : Nodes, to : Nodes]
    BY <1>8, ElementOfSeq
  <2> QED BY <2>1
<1>10. rows' \in [Nodes -> Rows']
  BY <1>1, NodeAssumption DEF Started, AtEnd, NoRow, Rows, Cost, Unreached, Nodes
<1>11. ForwardHeap'
  BY <1>1, <1>3, <1>5, <1>7, <1>10 DEF ForwardHeap
<1>12. \A n \in Goals : state'[n] # 1
  BY <1>7, NetworkAssumption
<1>13. \A e \in 1..Len(edges') : state'[edges'[e].from] # 1
  BY <1>7, <1>9
<1>14. ForwardFound'
  BY <1>1, <1>3, <1>4, <1>5, <1>6, <1>7, <1>12, <1>13 DEF ForwardFound
<1> QED BY <1>1, <1>11, <1>14

LEMMA TakeForwardFacts ==
  ASSUME ForwardInv, NEW n \in Nodes, TakeForward(n)
  PROVE  /\ pc = "detour" /\ rest = {} /\ n \in DOMAIN queue /\ state[n] = 2
         /\ \A m \in DOMAIN queue : queue[n] <= queue[m]
         /\ rows[n].cost = queue[n] /\ queue[n] \in Nat
         /\ taken' = [node |-> n, weight |-> queue[n]]
         /\ queue' = [m \in DOMAIN queue \ {n} |-> queue[m]]
         /\ state' = [state EXCEPT ![n] = 1]
         /\ n \in Goals => path' = Path(RouteTo(n)) /\ pc' = "answered"
         /\ n \notin Goals => rest' = Open(n) /\ UNCHANGED <<path, pc>>
         /\ UNCHANGED <<edges, weight, solving, destinations, at, rows, table, kept, query>>
<1>1. /\ pc = "detour" /\ rest = {} /\ n \in DOMAIN queue
      /\ \A m \in DOMAIN queue : queue[n] <= queue[m]
      /\ taken' = [node |-> n, weight |-> queue[n]]
      /\ queue' = [m \in DOMAIN queue \ {n} |-> queue[m]]
      /\ UNCHANGED <<network, at, rows, table, kept, query>>
  BY DEF TakeForward, Q!QRemoveMin, Q!Lightest, Q!Restrict
<1>2. state[n] = 2 /\ rows[n].cost = queue[n] /\ queue[n] \in Nat
  BY <1>1 DEF ForwardInv, ForwardHeap, OnGrid
<1>3. /\ state' = [state EXCEPT ![n] = 1]
      /\ n \in Goals => path' = Path(RouteTo(n)) /\ pc' = "answered"
      /\ n \notin Goals => rest' = Open(n) /\ UNCHANGED <<path, pc>>
  BY <1>2 DEF TakeForward
<1>4. UNCHANGED <<edges, weight, solving, destinations>>
  BY <1>1 DEF network
<1> QED BY <1>1, <1>2, <1>3, <1>4

LEMMA TakeForwardFound ==
  ASSUME ForwardInv, NEW n \in Nodes, TakeForward(n), n \notin Goals
  PROVE  ForwardHeap' /\ ForwardFound'
<1>1. /\ rest = {} /\ n \in DOMAIN queue /\ state[n] = 2
      /\ \A m \in DOMAIN queue : queue[n] <= queue[m]
      /\ rows[n].cost = queue[n] /\ queue[n] \in Nat
      /\ taken' = [node |-> n, weight |-> queue[n]]
      /\ queue' = [m \in DOMAIN queue \ {n} |-> queue[m]]
      /\ state' = [state EXCEPT ![n] = 1] /\ rest' = Open(n)
      /\ UNCHANGED <<edges, weight, rows, query>>
  BY TakeForwardFacts
<1>2. \A m \in Nodes : /\ state'[m] = IF m = n THEN 1 ELSE state[m]
                       /\ state'[m] # 0 <=> state[m] # 0
  BY <1>1 DEF ForwardInv, ForwardHeap
<1>3. \A e \in 1..Len(edges) : edges[e].from \in Nodes /\ edges[e].to \in Nodes
  BY QueryWeighted DEF ForwardInv, Weighted
<1>4. \A e \in 1..Len(edges) :
        state'[edges[e].from] = 1 /\ e \notin rest' /\ e \notin query.removed => state[edges[e].from] = 1
  BY <1>1, <1>2, <1>3 DEF Open
<1>5. ForwardHeap'
  <2>1. ASSUME NEW m \in Nodes, state'[m] = 1
        PROVE  rows[m].cost \in Nat /\ rows[m].cost <= queue[n]
    <3>1. CASE m = n
      BY <1>1, <3>1
    <3>2. CASE m # n
      <4>1. state[m] = 1
        BY <1>2, <2>1, <3>2
      <4>2. /\ rows[m].cost \in Nat /\ rows[m].cost <= taken.weight
            /\ taken.weight <= queue[n] /\ taken.weight \in Nat
        BY <1>1, <4>1 DEF ForwardInv, ForwardHeap, OnGrid
      <4> QED BY <1>1, <4>2
    <3> QED BY <3>1, <3>2
  <2>2. Rows' = Rows /\ Open(n)' = Open(n)
    BY <1>1 DEF Rows, Open
  <2>3. state' \in [Nodes -> 0..2]
    BY <1>1 DEF ForwardInv, ForwardHeap
  <2>4. DOMAIN queue' = {m \in Nodes : state'[m] = 2}
    BY <1>1, <1>2 DEF ForwardInv, ForwardHeap
  <2>5. \A m \in DOMAIN queue' : m \in DOMAIN queue /\ queue'[m] = queue[m]
    BY <1>1
  <2> QED BY <1>1, <2>1, <2>2, <2>3, <2>4, <2>5 DEF ForwardInv, ForwardHeap
<1>6. \A m \in Goals : state'[m] # 1
  BY <1>2, NetworkAssumption DEF ForwardInv, ForwardFound
<1>7. /\ taken'.node \in Nodes /\ state'[taken'.node] = 1 /\ rows'[taken'.node].cost = taken'.weight
  BY <1>1, <1>2
<1>8. \A m \in Reached(rows) : m \in Nodes /\ (rows[m].edge # -1 => state'[rows[m].next] = 1)
  BY <1>2 DEF ForwardInv, ForwardFound, Reached
<1>9. ForwardFound'
  BY <1>1, <1>2, <1>4, <1>6, <1>7, <1>8 DEF ForwardInv, ForwardFound, Reached, Grounded
<1> QED BY <1>5, <1>9

LEMMA RelaxForwardFound ==
  ASSUME ForwardInv, NEW e \in 1..Len(edges), RelaxForward(e)
  PROVE  ForwardHeap' /\ ForwardFound'
<1> DEFINE from == edges[e].from
           to   == edges[e].to
           cost == Plus(taken.weight, weight[e])
           row  == [next |-> from, edge |-> e, cost |-> cost]
<1>1. /\ e \in rest /\ rest' = rest \ {e}
      /\ UNCHANGED <<edges, weight, query>>
  BY DEF RelaxForward, network
<1>2. from \in Nodes /\ to \in Nodes /\ weight[e] \in Nat /\ edges[e] = [from |-> from, to |-> to]
  <2>1. edges[e] \in [from : Nodes, to : Nodes] /\ weight[e] \in Nat
    BY QueryWeighted DEF ForwardInv
  <2> QED BY <2>1
<1>3. from = taken.node /\ e \notin query.removed
  BY <1>1 DEF ForwardInv, ForwardHeap, Open
<1>4. /\ state[from] = 1 /\ rows[from].cost = taken.weight /\ from \in Reached(rows)
      /\ rows[from].cost \in Nat /\ OnGrid(taken.weight)
  <2>1. state[from] = 1 /\ rows[from].cost = taken.weight
    BY <1>1, <1>3 DEF ForwardInv, ForwardFound
  <2>2. OnGrid(taken.weight) /\ taken.weight \in Nat
    BY DEF ForwardInv, ForwardHeap, OnGrid
  <2> QED BY <1>2, <2>1, <2>2 DEF Reached, Unreached
<1>5. cost \in Nat /\ OnGrid(cost) /\ taken.weight <= cost
  BY <1>2, <1>4, PlusGrows DEF OnGrid
<1>6. /\ rows \in [Nodes -> Rows] /\ state \in [Nodes -> 0..2]
      /\ DOMAIN queue = {n \in Nodes : state[n] = 2}
      /\ \A n \in DOMAIN queue : /\ queue[n] = rows[n].cost /\ queue[n] \in Nat
                                 /\ OnGrid(queue[n]) /\ taken.weight <= queue[n]
      /\ \A n \in Nodes : state[n] = 1 => rows[n].cost \in Nat /\ rows[n].cost <= taken.weight
  BY DEF ForwardInv, ForwardHeap, OnGrid
<1>7. Rows' = Rows /\ \A n : Open(n)' = Open(n)
  BY <1>1 DEF Rows, Open
<1>8. CASE ~Reaches(cost, to)
  <2>1. UNCHANGED <<queue, taken, rows, state>>
    BY <1>8 DEF RelaxForward
  <2>2. to \in Reached(rows) /\ rows[to].cost <= Plus(rows[from].cost, weight[e])
    <3>1. rows[to].cost \in Cost
      BY <1>2, <1>6 DEF Rows
    <3> QED BY <1>2, <1>4, <1>5, <1>8, <3>1 DEF Reaches, Less, Reached, Cost, Unreached
  <2> HIDE DEF from, to, cost, row
  <2>3. \A f \in 1..Len(edges) : f \notin rest' => f \notin rest \/ f = e
    BY <1>1
  <2>4. ForwardHeap'
    <3>1. rest' \subseteq Open(taken.node)
      BY <1>1 DEF ForwardInv, ForwardHeap
    <3> QED BY <1>7, <2>1, <3>1 DEF ForwardInv, ForwardHeap
  <2>5. ForwardFound'
    BY <1>1, <2>1, <2>2, <2>3 DEF from, to, ForwardInv, ForwardFound, Reached, Grounded
  <2> QED BY <2>4, <2>5
<1>9. CASE Reaches(cost, to)
  <2>1. rows' = [rows EXCEPT ![to] = row] /\ Requeue(to, cost)
    BY <1>9 DEF RelaxForward
  <2>2. Less(cost, rows[to].cost)
    BY <1>9 DEF Reaches
  <2>3. /\ queue' = [m \in DOMAIN queue \cup {to} |-> IF m = to THEN cost ELSE queue[m]]
        /\ taken' = taken
        /\ state' = [state EXCEPT ![to] = 2]
    <3> HIDE DEF to, cost
    <3> QED BY <1>2, <1>5, <1>6, <2>1, <2>2, RequeueEffect
  <2>4. /\ state[to] # 1 /\ from # to
        /\ row.next = from /\ row.edge = e /\ row.cost = cost /\ row \in Rows
    <3>1. state[to] # 1
      <4> SUFFICES ASSUME state[to] = 1 PROVE FALSE
        OBVIOUS
      <4>1. rows[to].cost \in Nat /\ rows[to].cost <= taken.weight
        BY <1>2, <1>6
      <4> HIDE DEF cost
      <4> QED BY <1>4, <1>5, <2>2, <4>1 DEF Less, Unreached, OnGrid
    <3>2. row \in Rows
      BY <1>2, <1>5 DEF Rows, Cost
    <3> QED BY <1>4, <3>1, <3>2
  <2> HIDE DEF row, cost
  <2>5. \A n \in Nodes : /\ rows'[n] = IF n = to THEN row ELSE rows[n]
                         /\ state'[n] = IF n = to THEN 2 ELSE state[n]
    BY <1>2, <1>6, <2>1, <2>3
  <2>6. Reached(rows)' = Reached(rows) \cup {to}
    BY <1>2, <1>5, <2>4, <2>5 DEF Reached, Unreached
  <2>7. \A n \in Nodes : state'[n] = 1 <=> state[n] = 1
    BY <1>2, <2>4, <2>5
  <2>8. \A n \in Nodes : state[n] = 1 => rows'[n] = rows[n]
    BY <2>4, <2>5
  <2>9. ForwardHeap'
    <3> HIDE DEF from, to
    <3>1. rows' \in [Nodes -> Rows] /\ state' \in [Nodes -> 0..2]
      BY <1>2, <1>6, <2>1, <2>3, <2>4
    <3>2. DOMAIN queue' = {n \in Nodes : state'[n] = 2}
      BY <1>2, <1>6, <2>3, <2>5
    <3>3. ASSUME NEW n \in DOMAIN queue'
          PROVE  queue'[n] = rows'[n].cost /\ OnGrid(queue'[n]) /\ taken.weight <= queue'[n]
      <4>1. CASE n = to
        BY <1>2, <1>5, <2>3, <2>4, <2>5, <4>1
      <4>2. CASE n # to
        <5>1. n \in DOMAIN queue /\ queue'[n] = queue[n] /\ n \in Nodes
          BY <1>6, <2>3, <4>2
        <5> QED BY <1>6, <2>5, <4>2, <5>1
      <4> QED BY <4>1, <4>2
    <3>4. rest' \subseteq Open(taken.node)
      BY <1>1 DEF ForwardInv, ForwardHeap
    <3>5. \A n \in Nodes : state'[n] = 1 => rows'[n].cost \in Nat /\ rows'[n].cost <= taken.weight
      BY <1>6, <2>7, <2>8
    <3> QED BY <1>4, <1>7, <2>3, <3>1, <3>2, <3>3, <3>4, <3>5 DEF ForwardHeap
  <2>10. \A n \in Nodes : (n \in Reached(rows)' <=> state'[n] # 0)
                          /\ (n \in Reached(rows)' => OnGrid(rows'[n].cost))
    BY <1>2, <1>5, <2>4, <2>5, <2>6 DEF ForwardInv, ForwardFound
  <2>11. query.start \notin Goals /\ rows'[query.start].cost = 0
    <3>1. rows[to].cost # 0
      BY <1>5, <2>2 DEF Less, Unreached
    <3>2. query.start # to /\ query.start \in Nodes
      BY <3>1 DEF ForwardInv, ForwardFound, QueryOK
    <3> QED BY <2>5, <3>2 DEF ForwardInv, ForwardFound
  <2>12. \A n \in Reached(rows)' : rows'[n].edge = -1 => n = query.start
    <3>1. e # -1
      OBVIOUS
    <3>2. \A n \in Reached(rows) : n \in Nodes
      BY DEF Reached
    <3> HIDE DEF to
    <3> QED BY <1>2, <2>4, <2>5, <2>6, <3>1, <3>2 DEF ForwardInv, ForwardFound
  <2>13. ASSUME NEW n \in Reached(rows)', rows'[n].edge # -1
         PROVE  /\ edges[rows'[n].edge] = [from |-> rows'[n].next, to |-> n]
                /\ rows'[n].edge \notin query.removed
                /\ rows'[n].next \in Nodes /\ state'[rows'[n].next] = 1
                /\ rows'[n].cost = Plus(rows'[rows'[n].next].cost, weight[rows'[n].edge])
    <3>1. CASE n = to
      <4>1. rows'[n] = row /\ rows'[from] = rows[from] /\ state'[from] = 1
        BY <1>2, <1>4, <2>5, <2>7, <2>8, <3>1
      <4> QED BY <1>2, <1>3, <1>4, <2>4, <3>1, <4>1 DEF cost
    <3>2. CASE n # to
      <4>1. n \in Reached(rows) /\ n \in Nodes /\ rows'[n] = rows[n]
        BY <2>5, <2>6, <3>2 DEF Reached
      <4> HIDE DEF to, from
      <4> QED BY <2>7, <2>8, <2>13, <4>1 DEF ForwardInv, ForwardFound
    <3> QED BY <3>1, <3>2
  <2>14. /\ taken'.node \in Nodes /\ state'[taken'.node] = 1
         /\ rows'[taken'.node].cost = taken'.weight
    BY <1>2, <1>3, <1>4, <2>3, <2>7, <2>8
  <2>15. ASSUME NEW f \in 1..Len(edges), state'[edges[f].from] = 1, f \notin rest',
                f \notin query.removed
         PROVE  /\ edges[f].to \in Reached(rows)'
                /\ rows'[edges[f].to].cost <= Plus(rows'[edges[f].from].cost, weight[f])
    <3>1. /\ edges[f].to \in Nodes /\ edges[f].from \in Nodes /\ weight[f] \in Nat
      BY QueryWeighted DEF ForwardInv, Weighted
    <3>2. state[edges[f].from] = 1 /\ rows'[edges[f].from] = rows[edges[f].from]
      BY <2>7, <2>8, <2>15, <3>1
    <3>3. CASE f = e
      BY <1>2, <1>4, <1>5, <2>4, <2>5, <2>6, <3>2, <3>3 DEF cost
    <3>4. CASE f # e
      <4>1. f \notin rest
        BY <1>1, <2>15, <3>4
      <4>2. /\ edges[f].to \in Reached(rows)
            /\ rows[edges[f].to].cost <= Plus(rows[edges[f].from].cost, weight[f])
        BY <2>15, <3>2, <4>1 DEF ForwardInv, ForwardFound
      <4>3. CASE edges[f].to # to
        BY <2>5, <2>6, <3>1, <3>2, <4>2, <4>3
      <4>4. CASE edges[f].to = to
        <5>1. cost < rows[to].cost /\ rows'[to].cost = cost
          BY <1>2, <2>2, <2>4, <2>5, <4>2, <4>4 DEF Less, Reached
        <5>2. rows[to].cost \in Nat /\ rows[edges[f].from].cost \in Nat
          BY <1>6, <3>1, <3>2, <4>2, <4>4, ReachedCosts
        <5>3. Plus(rows[edges[f].from].cost, weight[f]) \in Nat
          BY <3>1, <5>2, PlusTyped
        <5> HIDE DEF to
        <5>4. /\ edges[f].to \in Reached(rows)' /\ rows'[edges[f].to].cost = cost
              /\ cost <= Plus(rows[edges[f].from].cost, weight[f])
          BY <1>5, <2>6, <4>2, <4>4, <5>1, <5>2, <5>3
        <5> QED BY <3>2, <5>4
      <4> QED BY <4>3, <4>4
    <3> QED BY <3>3, <3>4
  <2>16. ASSUME NEW S \in SUBSET Reached(rows)',
                \A n \in S : rows'[n].edge # -1 /\ rows'[n].next \in S
         PROVE  S = {}
    <3> DEFINE L == S \ {to}
    <3>1. ASSUME NEW n \in S PROVE rows'[n].next # to
      <4>1. n \in Reached(rows)' /\ rows'[n].edge # -1
        BY <2>16
      <4>2. state'[rows'[n].next] = 1
        BY <2>13, <4>1
      <4>3. state'[to] = 2
        BY <1>2, <2>5
      <4> QED BY <4>2, <4>3
    <3>2. \A n \in L : n \in Reached(rows) /\ rows'[n] = rows[n]
      BY <2>5, <2>6 DEF Reached
    <3>3. \A n \in L : rows[n].edge # -1 /\ rows[n].next \in L
      BY <2>16, <3>1, <3>2
    <3>4. L = {}
      <4>1. L \in SUBSET Reached(rows)
        BY <3>2
      <4> HIDE DEF L
      <4> QED BY <3>3, <4>1 DEF ForwardInv, ForwardFound, Grounded
    <3>5. to \notin S
      BY <2>16, <3>1, <3>4
    <3> QED BY <3>4, <3>5
  <2>17. Grounded(rows)'
    BY <2>16 DEF Grounded
  <2>18. \A n \in Goals : state'[n] # 1
    BY <2>7, NetworkAssumption DEF ForwardInv, ForwardFound
  <2>19. ForwardFound'
    BY <1>1, <2>10, <2>11, <2>12, <2>13, <2>14, <2>15, <2>17, <2>18 DEF ForwardFound
  <2> QED BY <2>9, <2>19
<1> QED BY <1>8, <1>9

\* The way back from a node that was reached is a path to it at the cost of its row.
LEMMA WayBack ==
  ASSUME ForwardInv, NEW n \in Reached(rows)
  PROVE  /\ RouteTo(n) \in Seq((1..Len(edges)) \ query.removed)
         /\ Len(RouteTo(n)) <= NodeCount - 1 /\ Len(RouteTo(n)) <= Len(edges)
         /\ Via(RouteTo(n), query.start, {n}) # {}
         /\ rows[n].cost \in {c[Len(RouteTo(n))] : c \in Spent(RouteTo(n))}
<1> DEFINE f == Hops(rows, n)
           es == RouteTo(n)
<1>1. /\ rows \in [Nodes -> Rows] /\ Grounded(rows) /\ Trusting(rows) /\ n \in Nodes
  <2>1. ASSUME NEW m \in Reached(rows), rows[m].edge # -1 PROVE rows[m].next \in Reached(rows)
    <3>1. rows[m].next \in Nodes /\ state[rows[m].next] = 1
      BY <2>1 DEF ForwardInv, ForwardFound
    <3>2. state[rows[m].next] # 0
      BY <3>1
    <3> QED BY <3>1, <3>2 DEF ForwardInv, ForwardFound
  <2> QED BY <2>1 DEF ForwardInv, ForwardHeap, ForwardFound, Trusting, Reached
<1>2. PICK c \in 0..(NodeCount - 1) :
        /\ Cardinality({k \in 0..(NodeCount - 1) : rows[f[k]].edge # -1}) = c
        /\ rows[f[c]].edge = -1 /\ f[0] = n /\ f[c] \in Reached(rows)
        /\ \A k \in 1..c : /\ f[k] = rows[f[k - 1]].next
                           /\ f[k] \in Reached(rows) /\ f[k - 1] \in Reached(rows)
                           /\ rows[f[k - 1]].edge \in 1..Len(edges)
        /\ \A i \in 0..c, j \in 0..c : i # j => f[i] # f[j]
  BY <1>1, HopsAlong
<1>3. c \in Nat /\ Len(edges) \in Nat
  <2>1. edges \in Seq([from : Nodes, to : Nodes])
    BY EdgeAssumption DEF ForwardInv, QueryOK
  <2> QED BY <2>1, NodeAssumption, LenProperties
<1>4. es = [k \in 1..c |-> rows[f[c - k]].edge]
  BY <1>2 DEF RouteTo
<1> HIDE DEF f, es
\* The edge of hop k, from the last.
<1>5. ASSUME NEW k \in 1..c
      PROVE  /\ f[c - k] \in Reached(rows) /\ f[c - k] \in Nodes /\ f[c - (k - 1)] \in Nodes
             /\ rows[f[c - k]].edge \in (1..Len(edges)) \ query.removed
             /\ edges[rows[f[c - k]].edge] = [from |-> f[c - (k - 1)], to |-> f[c - k]]
             /\ rows[f[c - k]].cost = Plus(rows[f[c - (k - 1)]].cost, weight[rows[f[c - k]].edge])
  <2>1. c - (k - 1) \in 1..c /\ (c - (k - 1)) - 1 = c - k
    BY <1>3
  <2>2. /\ f[c - (k - 1)] = rows[f[c - k]].next /\ f[c - k] \in Reached(rows)
        /\ f[c - (k - 1)] \in Reached(rows) /\ rows[f[c - k]].edge \in 1..Len(edges)
    BY <1>2, <2>1
  <2>3. rows[f[c - k]].edge # -1
    BY <2>2
  <2> QED BY <2>2, <2>3 DEF ForwardInv, ForwardFound, Reached
<1>6. /\ es \in [1..c -> (1..Len(edges)) \ query.removed]
      /\ \A k \in 1..c : es[k] = rows[f[c - k]].edge
  BY <1>4, <1>5
<1>7. es \in Seq((1..Len(edges)) \ query.removed) /\ Len(es) = c
  BY <1>3, <1>6, IsASeq, LenProperties
<1> DEFINE v == [k \in 0..c |-> f[c - k]]
<1>8. v \in Via(es, query.start, {n})
  <2>1. \A k \in 0..c : f[c - k] \in Nodes
    <3>1. \A k \in 0..c : k = 0 \/ k \in 1..c
      BY <1>3
    <3>2. f[c - 0] \in Nodes
      BY <1>2, <1>3 DEF Reached
    <3> QED BY <1>5, <3>1, <3>2
  <2>2. v[0] = query.start /\ v[c] = n
    <3>1. f[c] = query.start
      BY <1>2 DEF ForwardInv, ForwardFound
    <3> QED BY <1>2, <1>3, <3>1
  <2>3. ASSUME NEW k \in 1..c PROVE edges[es[k]].from = v[k - 1] /\ edges[es[k]].to = v[k]
    <3>1. k \in 0..c /\ k - 1 \in 0..c /\ v[k] = f[c - k] /\ v[k - 1] = f[c - (k - 1)]
      BY <1>3
    <3> HIDE DEF v
    <3>2. edges[es[k]] = [from |-> f[c - (k - 1)], to |-> f[c - k]]
      BY <1>5, <1>6
    <3> QED BY <3>1, <3>2
  <2>4. v \in [0..c -> Nodes]
    BY <2>1
  <2> HIDE DEF v
  <2> QED BY <1>7, <2>2, <2>3, <2>4 DEF Via
\* No edge is there twice: no node is.
<1>9. c <= Len(edges)
  <2> SUFFICES ASSUME ~(c <= Len(edges)) PROVE FALSE
    OBVIOUS
  <2>1. /\ IsFiniteSet(1..c) /\ Cardinality(1..c) = c
        /\ IsFiniteSet(1..Len(edges)) /\ Cardinality(1..Len(edges)) = Len(edges)
    <3>1. ASSUME NEW m \in Nat PROVE IsFiniteSet(1..m) /\ Cardinality(1..m) = m
      <4>1. m \in Int /\ 1 \in Int
        OBVIOUS
      <4>2. IsFiniteSet(1..m)
        BY <4>1, FS_Interval
      <4>3. Cardinality(1..m) = IF 1 > m THEN 0 ELSE m - 1 + 1
        BY <4>1, FS_Interval
      <4> QED BY <4>2, <4>3
    <3> QED BY <1>3, <3>1
  <2>2. es \in [1..c -> 1..Len(edges)]
    BY <1>6
  <2>3. PICK i \in 1..c, j \in 1..c : i # j /\ es[i] = es[j]
    <3>1. Cardinality(1..Len(edges)) < Cardinality(1..c)
      BY <1>3, <2>1
    <3> QED BY <2>1, <2>2, <3>1, FS_PigeonHole
  <2>4. f[c - i] = f[c - j]
    <3>1. ASSUME NEW k \in 1..c PROVE edges[es[k]].to = f[c - k]
      <4>1. edges[es[k]] = [from |-> f[c - (k - 1)], to |-> f[c - k]]
        BY <1>5, <1>6
      <4> QED BY <4>1
    <3> QED BY <2>3, <3>1
  <2>5. c - i \in 0..c /\ c - j \in 0..c /\ c - i # c - j
    BY <1>3, <2>3
  <2> QED BY <1>2, <2>4, <2>5
<1> DEFINE z == [k \in 0..c |-> rows[f[c - k]].cost]
<1>10. z \in Spent(es)
  <2>1. \A k \in 0..c : rows[f[c - k]].cost \in Nat
    <3>1. \A k \in 0..c : k = 0 \/ k \in 1..c
      BY <1>3
    <3>2. f[c - 0] \in Reached(rows)
      BY <1>2, <1>3
    <3>3. \A k \in 0..c : f[c - k] \in Reached(rows)
      BY <1>5, <3>1, <3>2
    <3> QED BY <1>1, <3>3, ReachedCosts
  <2>2. z[0] = 0
    <3>1. rows[f[c]].cost = 0
      BY <1>2 DEF ForwardInv, ForwardFound
    <3> QED BY <1>3, <3>1
  <2>3. ASSUME NEW k \in 1..c PROVE z[k] = Plus(z[k - 1], weight[es[k]])
    <3>1. /\ k \in 0..c /\ k - 1 \in 0..c
          /\ z[k] = rows[f[c - k]].cost /\ z[k - 1] = rows[f[c - (k - 1)]].cost
      BY <1>3
    <3> QED BY <1>5, <1>6, <3>1
  <2>4. z \in [0..c -> Nat]
    BY <2>1
  <2> HIDE DEF z
  <2> QED BY <1>7, <2>2, <2>3, <2>4 DEF Spent
<1>11. z[c] = rows[n].cost
  <2>1. c \in 0..c /\ c - c = 0
    BY <1>3
  <2> QED BY <1>2, <2>1
<1> HIDE DEF z, v
<1>12. /\ es \in Seq((1..Len(edges)) \ query.removed) /\ Len(es) <= NodeCount - 1 /\ Len(es) <= Len(edges)
       /\ Via(es, query.start, {n}) # {}
       /\ rows[n].cost \in {d[Len(es)] : d \in Spent(es)}
  BY <1>7, <1>8, <1>9, <1>10, <1>11
<1> QED BY <1>12 DEF es

\* A path to a goal leaves the settled nodes by one in the heap, which costs no more.
LEMMA NoneCheaper ==
  ASSUME ForwardInv, rest = {}, NEW es \in Detours, NEW z \in Spent(es)
  PROVE  \E m \in DOMAIN queue : queue[m] <= z[Len(es)]
<1> DEFINE N == Len(es)
<1>1. PICK v \in Via(es, query.start, Goals) : TRUE
  BY DEF Detours
<1>2. /\ v \in [0..N -> Nodes] /\ v[0] = query.start /\ v[N] \in Goals
      /\ \A k \in 1..N : edges[es[k]].from = v[k - 1] /\ edges[es[k]].to = v[k]
  BY DEF Via
<1>3. /\ es \in Seq(1..Len(edges)) /\ N \in Nat
      /\ \A k \in 1..N : es[k] \in 1..Len(edges) /\ es[k] \notin query.removed
  <2>1. es \in Seq((1..Len(edges)) \ query.removed)
    BY DEF Detours
  <2>2. \A k \in 1..N : es[k] \in (1..Len(edges)) \ query.removed
    BY <2>1, ElementOfSeq
  <2>3. es \in Seq(1..Len(edges))
    BY <2>1, <2>2, LenProperties, IsASeq
  <2> QED BY <2>2, <2>3, LenProperties
<1>4. /\ z \in [0..N -> Nat] /\ z[0] = 0
      /\ \A k \in 1..N : z[k] = Plus(z[k - 1], weight[es[k]])
  BY DEF Spent
<1>5. Weighted /\ \A e \in 1..Len(edges) : weight[e] \in Nat
  BY QueryWeighted DEF ForwardInv
<1> DEFINE U == {k \in 0..N : state[v[k]] # 1}
<1>6. PICK k \in U : \A j \in U : k <= j
  <2>1. N \in U
    BY <1>2, <1>3 DEF ForwardInv, ForwardFound
  <2>2. U \in SUBSET Nat /\ U # {}
    BY <1>3, <2>1
  <2> HIDE DEF U
  <2> QED BY <2>2, LeastMember
<1>7. k \in 0..N /\ state[v[k]] # 1 /\ \A j \in 0..N : j < k => state[v[j]] = 1
  <2>1. k \in 0..N /\ state[v[k]] # 1
    OBVIOUS
  <2>2. ASSUME NEW j \in 0..N, j < k PROVE state[v[j]] = 1
    <3> SUFFICES ASSUME state[v[j]] # 1 PROVE FALSE
      OBVIOUS
    <3>1. j \in U
      OBVIOUS
    <3> HIDE DEF U
    <3> QED BY <1>3, <1>6, <2>1, <2>2, <3>1
  <2> QED BY <2>1, <2>2
<1> HIDE DEF U, N
<1> DEFINE T == {j \in 0..N : j <= k => v[j] \in Reached(rows) /\ rows[v[j]].cost <= z[j]}
<1>8. T = 0..N
  <2>1. 0 \in T
    <3>1. query.start \in Reached(rows) /\ rows[query.start].cost = 0
      BY DEF ForwardInv, ForwardFound, QueryOK, Reached, Unreached
    <3> QED BY <1>2, <1>3, <1>4, <3>1
  <2>2. ASSUME NEW j \in 1..N, j - 1 \in T PROVE j \in T
    <3> SUFFICES ASSUME j <= k PROVE v[j] \in Reached(rows) /\ rows[v[j]].cost <= z[j]
      BY <1>3
    <3>1. j - 1 \in 0..N /\ j - 1 < k /\ j - 1 <= k /\ j \in 0..N
      BY <1>3, <1>7
    <3>2. state[v[j - 1]] = 1 /\ v[j - 1] \in Reached(rows) /\ rows[v[j - 1]].cost <= z[j - 1]
      BY <1>7, <2>2, <3>1
    <3> DEFINE e == es[j]
    <3>3. /\ e \in 1..Len(edges) /\ e \notin query.removed /\ weight[e] \in Nat
          /\ edges[e].from = v[j - 1] /\ edges[e].to = v[j]
      BY <1>2, <1>3, <1>5
    <3>4. v[j] \in Reached(rows) /\ rows[v[j]].cost <= Plus(rows[v[j - 1]].cost, weight[e])
      <4> HIDE DEF e
      <4> QED BY <3>2, <3>3 DEF ForwardInv, ForwardFound
    <3>5. rows[v[j - 1]].cost \in Nat /\ rows[v[j]].cost \in Nat
      BY <3>2, <3>4, ReachedCosts DEF ForwardInv, ForwardHeap
    <3>6. z[j - 1] \in Nat /\ z[j] = Plus(z[j - 1], weight[e])
      BY <1>4, <3>1
    <3> HIDE DEF e
    <3>7. /\ Plus(rows[v[j - 1]].cost, weight[e]) <= Plus(z[j - 1], weight[e])
          /\ Plus(rows[v[j - 1]].cost, weight[e]) \in Nat /\ Plus(z[j - 1], weight[e]) \in Nat
      BY <3>2, <3>3, <3>5, <3>6, PlusMonotone
    <3>8. rows[v[j]].cost <= Plus(z[j - 1], weight[e])
      BY <3>4, <3>5, <3>7
    <3> QED BY <3>4, <3>6, <3>8
  <2>3. T \in SUBSET (0..N)
    OBVIOUS
  <2> HIDE DEF T
  <2> QED BY <1>3, <2>1, <2>2, <2>3, Upwards
<1>9. v[k] \in Reached(rows) /\ v[k] \in Nodes /\ rows[v[k]].cost <= z[k]
  <2>1. k \in T /\ k <= k
    BY <1>3, <1>7, <1>8
  <2> QED BY <1>2, <1>7, <2>1
<1>10. v[k] \in DOMAIN queue /\ queue[v[k]] = rows[v[k]].cost /\ rows[v[k]].cost \in Nat
  <2>1. state[v[k]] \in 0..2 /\ state[v[k]] # 0
    BY <1>9 DEF ForwardInv, ForwardHeap, ForwardFound
  <2>2. state[v[k]] = 2
    BY <1>7, <2>1
  <2>3. rows[v[k]].cost \in Nat
    BY <1>9, ReachedCosts DEF ForwardInv, ForwardHeap
  <2> QED BY <1>9, <2>2, <2>3 DEF ForwardInv, ForwardHeap
<1>11. z[k] <= z[N] /\ z[k] \in Nat /\ z[N] \in Nat
  <2>1. z[k] <= z[N]
    BY <1>3, <1>5, <1>7, SpentGrows DEF N
  <2> QED BY <1>3, <1>4, <1>7, <2>1
<1>12. queue[v[k]] <= z[N]
  BY <1>9, <1>10, <1>11
<1> QED BY <1>10, <1>12 DEF N

-----------------------------------------------------------------------------
(* Queries of a table.                                                     *)

\* What a query may have been answered: there is no route; the recorded one; the start
\* is a goal; no detour; a cheapest detour.
NotReached == query.table /\ kept.rows[query.start].cost = Unreached /\ path = Path(<<>>)

AsRecorded ==
  /\ query.table /\ kept.rows[query.start].cost # Unreached
  /\ path = Path(Followed(kept.rows, query.start))
  /\ ~Blocked(Followed(kept.rows, query.start), query.removed)

AtGoal == query.start \in Goals /\ path = Path(<<>>)

NoWay == query.start \notin Goals /\ path.edges = <<>> /\ Detours = {}

Cheap ==
  /\ query.start \notin Goals
  /\ path.found /\ path.edges \in Detours
  /\ Len(path.edges) <= NodeCount - 1 /\ Len(path.edges) <= Len(edges)
  /\ \E c \in Spent(path.edges) : \A es \in Detours : \A z \in Spent(es) :
       c[Len(path.edges)] <= z[Len(es)]

AnswerInv == NotReached \/ AsRecorded \/ AtGoal \/ NoWay \/ Cheap

\* The table that is kept leads somewhere, for weights that are the network's.
KeptOK ==
  Holding => Leading(kept.rows, kept.ends) /\ kept.weight \in [1..Len(edges) -> EdgeWeights]

NetInv ==
  /\ pc \in {"idle", "merge", "search", "done"} => SolveInv
  /\ KeptOK
  /\ pc \in {"detour", "answered"} => QueryOK /\ Holding
  /\ pc = "detour" => ForwardHeap /\ ForwardFound
  /\ pc = "answered" => AnswerInv

LEMMA RecordedIsFollowed ==
  ASSUME NEW start
  PROVE  Recorded(start) = Followed(kept.rows, start)
BY DEF Recorded, Followed

LEMMA ThereIsNoDetour ==
  ASSUME ForwardInv, rest = {}, DOMAIN queue = {}
  PROVE  Detours = {}
<1> SUFFICES ASSUME NEW es \in Detours PROVE FALSE
  OBVIOUS
<1>1. es \in Seq(1..Len(edges))
  <2>1. es \in Seq((1..Len(edges)) \ query.removed)
    BY DEF Detours
  <2>2. \A k \in 1..Len(es) : es[k] \in 1..Len(edges)
    BY <2>1, ElementOfSeq
  <2> QED BY <2>1, <2>2, LenProperties, IsASeq
<1>2. PICK z \in Spent(es) : TRUE
  BY <1>1, SpentExists, QueryWeighted DEF ForwardInv
<1> QED BY NoneCheaper

\* The first goal that is settled is a nearest one.
LEMMA GoalSettled ==
  ASSUME ForwardInv, NEW n \in Nodes, TakeForward(n), n \in Goals
  PROVE  Cheap'
<1>1. /\ rest = {} /\ n \in DOMAIN queue /\ state[n] = 2
      /\ \A m \in DOMAIN queue : queue[n] <= queue[m]
      /\ rows[n].cost = queue[n] /\ queue[n] \in Nat
      /\ path' = Path(RouteTo(n)) /\ UNCHANGED <<edges, weight, query>>
  BY TakeForwardFacts
<1> DEFINE es == RouteTo(n)
<1>2. n \in Reached(rows)
  BY <1>1 DEF ForwardInv, ForwardFound
<1>3. /\ es \in Seq((1..Len(edges)) \ query.removed)
      /\ Len(es) <= NodeCount - 1 /\ Len(es) <= Len(edges)
      /\ Via(es, query.start, {n}) # {}
      /\ rows[n].cost \in {c[Len(es)] : c \in Spent(es)}
  BY <1>2, WayBack
<1>4. path'.found /\ path'.edges = es
  BY <1>1 DEF Path
<1> HIDE DEF es
<1>5. es \in Detours
  <2>1. Via(es, query.start, {n}) \subseteq Via(es, query.start, Goals)
    BY DEF Via
  <2> QED BY <1>3, <2>1 DEF Detours
<1>6. PICK c \in Spent(es) : c[Len(es)] = rows[n].cost
  BY <1>3
<1>7. ASSUME NEW fs \in Detours, NEW z \in Spent(fs) PROVE c[Len(es)] <= z[Len(fs)]
  <2>1. PICK m \in DOMAIN queue : queue[m] <= z[Len(fs)]
    BY <1>1, NoneCheaper
  <2>2. queue[m] \in Nat /\ queue[n] <= queue[m]
    BY <1>1 DEF ForwardInv, ForwardHeap, OnGrid
  <2>3. z[Len(fs)] \in Nat
    <3>1. Len(fs) \in Nat
      BY LenProperties DEF Detours
    <3>2. Len(fs) \in 0..Len(fs)
      BY <3>1
    <3> QED BY <3>2 DEF Spent
  <2> QED BY <1>1, <1>6, <2>1, <2>2, <2>3
<1>8. Detours' = Detours /\ \A fs : Spent(fs)' = Spent(fs)
  BY <1>1 DEF Detours, Via, Spent
<1>9. query.start \notin Goals
  BY DEF ForwardInv, ForwardFound
<1> QED BY <1>1, <1>3, <1>4, <1>5, <1>6, <1>7, <1>8, <1>9 DEF Cheap

LEMMA KeptStays ==
  ASSUME KeptOK, UNCHANGED <<edges, kept>>
  PROVE  KeptOK'
BY DEF KeptOK, Holding, Leading, Rows

LEMMA IdleFacts ==
  ASSUME NetInv, pc = "idle"
  PROVE  /\ edges \in Topologies /\ destinations \in Seq(Nodes) /\ at = 1
         /\ table \in [Nodes -> Rows] /\ solving \in {"none", "nearest", "merged"}
BY DEF NetInv, SolveInv, IndInv, TypeOK, LoopOK, Rows

LEMMA QueryAsked ==
  ASSUME NetInv, pc = "idle", UNCHANGED <<edges, destinations, at, table, solving>>,
         weight' \in [1..Len(edges) -> EdgeWeights], query'.start \in Nodes
  PROVE  QueryOK'
BY IdleFacts DEF QueryOK, Rows

LEMMA GetPathOK ==
  ASSUME NetInv, NEW start \in Starts, NEW removed, NEW w \in Reweighted(kept.weight),
         GetPath(start, removed, w)
  PROVE  NetInv'
<1>1. /\ pc = "idle" /\ Holding /\ weight' = w
      /\ query' = [start |-> start, removed |-> removed, table |-> TRUE]
      /\ UNCHANGED <<edges, solving, destinations, at, table, kept>>
  BY DEF GetPath
<1>2. query'.start = start /\ query'.removed = removed /\ query'.table = TRUE /\ start \in Nodes
  BY <1>1, NetworkAssumption
<1>3. kept.weight \in [1..Len(edges) -> EdgeWeights] /\ edges \in Topologies
  BY <1>1, IdleFacts DEF NetInv, KeptOK
<1>4. weight' \in [1..Len(edges) -> EdgeWeights]
  BY <1>1, <1>3, ReweightedAssumption
<1>5. QueryOK'
  BY <1>1, <1>2, <1>4, QueryAsked
<1>6. KeptOK' /\ Holding'
  BY <1>1, KeptStays DEF NetInv, Holding
<1>7. CASE kept.rows[start].cost = Unreached
  <2>1. path' = Path(<<>>) /\ pc' = "answered"
    BY <1>7 DEF GetPath, Answer
  <2>2. NotReached'
    BY <1>1, <1>2, <1>7, <2>1 DEF NotReached
  <2> QED BY <1>5, <1>6, <2>1, <2>2 DEF NetInv, AnswerInv
<1>8. CASE kept.rows[start].cost # Unreached /\ ~Blocked(Recorded(start), removed)
  <2>1. path' = Path(Recorded(start)) /\ pc' = "answered"
    BY <1>8 DEF GetPath, Answer
  <2>2. Recorded(start) = Followed(kept.rows, start)
    BY RecordedIsFollowed
  <2>3. AsRecorded'
    BY <1>1, <1>2, <1>8, <2>1, <2>2 DEF AsRecorded
  <2> QED BY <1>5, <1>6, <2>1, <2>3 DEF NetInv, AnswerInv
<1>9. CASE kept.rows[start].cost # Unreached /\ Blocked(Recorded(start), removed)
  <2>1. StartDetour(start)
    BY <1>9 DEF GetPath
  <2>2. CASE start \in Goals
    <3>1. path' = Path(<<>>) /\ pc' = "answered"
      BY <2>1, <2>2 DEF StartDetour, Answer
    <3> QED BY <1>2, <1>5, <1>6, <2>2, <3>1 DEF NetInv, AnswerInv, AtGoal
  <2>3. CASE start \notin Goals
    <3>1. pc' = "detour" /\ ForwardHeap' /\ ForwardFound'
      BY <1>1, <1>2, <1>3, <2>1, <2>3, ForwardStarts
    <3> QED BY <1>5, <1>6, <3>1 DEF NetInv
  <2> QED BY <2>2, <2>3
<1> QED BY <1>7, <1>8, <1>9

LEMMA GetDetourOK ==
  ASSUME NetInv, NEW start \in Starts, NEW removed, GetDetour(start, removed)
  PROVE  NetInv'
<1>1. /\ pc = "idle" /\ Holding /\ weight' = kept.weight /\ StartDetour(start)
      /\ query' = [start |-> start, removed |-> removed, table |-> FALSE]
      /\ UNCHANGED <<edges, solving, destinations, at, table, kept>>
  BY DEF GetDetour
<1>2. query'.start = start /\ start \in Nodes
  BY <1>1, NetworkAssumption
<1>3. kept.weight \in [1..Len(edges) -> EdgeWeights] /\ edges \in Topologies
  BY <1>1, IdleFacts DEF NetInv, KeptOK
<1>4. QueryOK'
  BY <1>1, <1>2, <1>3, QueryAsked
<1>5. KeptOK' /\ Holding'
  BY <1>1, KeptStays DEF NetInv, Holding
<1>6. CASE start \in Goals
  <2>1. path' = Path(<<>>) /\ pc' = "answered"
    BY <1>1, <1>6 DEF StartDetour, Answer
  <2> QED BY <1>2, <1>4, <1>5, <1>6, <2>1 DEF NetInv, AnswerInv, AtGoal
<1>7. CASE start \notin Goals
  <2>1. pc' = "detour" /\ ForwardHeap' /\ ForwardFound'
    BY <1>1, <1>2, <1>3, <1>7, ForwardStarts
  <2> QED BY <1>4, <1>5, <2>1 DEF NetInv
<1> QED BY <1>6, <1>7

LEMMA SolverStepOK ==
  ASSUME NetInv, SolverStep
  PROVE  NetInv'
<1>1. pc \in {"merge", "search", "done"} /\ Next
  BY DEF SolverStep, Next, Solver, NextDestination, MergeDone, Exhausted, Take, Relax, Return
<1>2. SolveInv /\ SolveInv'
  BY <1>1, NextSolve DEF NetInv
<1>3. pc' \in {"idle", "merge", "search", "done"} /\ UNCHANGED edges
  <2>1. pc' \in {"idle", "merge", "search", "done"}
    BY <1>2 DEF SolveInv, IndInv, TypeOK
  <2>2. UNCHANGED edges
    BY DEF SolverStep, NextDestination, MergeDone, Exhausted, Take, Relax, Return, network
  <2> QED BY <2>1, <2>2
<1>4. KeptOK'
  <2>1. CASE UNCHANGED kept
    BY <1>3, <2>1, KeptStays DEF NetInv
  <2>2. CASE Return /\ kept' = [rows |-> table, weight |-> weight, ends |-> ToSet(destinations)]
    <3>1. pc = "done"
      BY <2>2 DEF Return
    <3>2. Solved(table, ToSet(destinations)) /\ weight \in [1..Len(edges) -> EdgeWeights]
      BY <1>2, <3>1 DEF SolveInv, TableInv, IndInv, TypeOK
    <3>3. Leading(table, ToSet(destinations))
      BY <3>2, SolvedIsLeading
    <3>4. kept'.rows = table /\ kept'.ends = ToSet(destinations) /\ kept'.weight = weight
      BY <2>2
    <3>5. Leading(table, ToSet(destinations))' <=> Leading(table', ToSet(destinations'))
      BY <1>3 DEF Leading, Rows
    <3>6. Leading(kept.rows, kept.ends)'
      BY <1>3, <3>3, <3>4 DEF Leading, Rows
    <3> QED BY <1>3, <3>2, <3>4, <3>6 DEF KeptOK
  <2> QED BY <2>1, <2>2 DEF SolverStep
<1> QED BY <1>2, <1>3, <1>4 DEF NetInv

LEMMA ForgetOK ==
  ASSUME NetInv, Forget
  PROVE  NetInv'
<1>1. /\ pc = "answered" /\ pc' = "idle" /\ kept' = NoKept /\ weight' = <<>> /\ NoSearch
      /\ UNCHANGED <<edges, solving, destinations, at, table>>
  BY DEF Forget
<1>2. QueryOK
  BY <1>1 DEF NetInv
<1>3. NoTable \in [Nodes -> Rows]
  BY DEF NoTable, NoRow, Rows, Cost, Unreached
<1>4. DOMAIN queue' = {}
  BY <1>1 DEF NoSearch, Q!Empty
<1>5. at \in 1..(Len(destinations) + 1)
  BY <1>2, LenProperties DEF QueryOK
<1>6. TypeOK'
  BY <1>1, <1>2, <1>3, <1>4, <1>5 DEF NoSearch, Q!Empty, Q!NoneTaken, QueryOK, TypeOK, Rows
<1>7. IndInv'
  BY <1>1, <1>2, <1>6 DEF IndInv, HeapHoldsOpen, Ascending, LoopOK, QueryOK
<1>8. SolveInv'
  BY <1>1, <1>7 DEF SolveInv, SearchInv, TableInv
<1>9. KeptOK'
  BY <1>1 DEF KeptOK, Holding
<1> QED BY <1>1, <1>8, <1>9 DEF NetInv

LEMMA TakeForwardOK ==
  ASSUME NetInv, NEW n \in Nodes, TakeForward(n)
  PROVE  NetInv'
<1>1. pc = "detour"
  BY DEF TakeForward
<1>2. ForwardInv
  BY <1>1 DEF NetInv, ForwardInv
<1>3. /\ n \in Goals => pc' = "answered"
      /\ n \notin Goals => pc' = "detour"
      /\ UNCHANGED <<edges, weight, solving, destinations, at, table, kept, query>>
  BY <1>1, <1>2, TakeForwardFacts
<1>4. QueryOK' /\ Holding' /\ KeptOK'
  BY <1>1, <1>3, KeptStays DEF NetInv, QueryOK, Rows, Holding
<1>5. CASE n \in Goals
  BY <1>2, <1>3, <1>4, <1>5, GoalSettled DEF NetInv, AnswerInv
<1>6. CASE n \notin Goals
  BY <1>2, <1>3, <1>4, <1>6, TakeForwardFound DEF NetInv
<1> QED BY <1>5, <1>6

LEMMA RelaxForwardOK ==
  ASSUME NetInv, NEW e \in 1..Len(edges), RelaxForward(e)
  PROVE  NetInv'
<1>1. /\ pc = "detour" /\ pc' = "detour"
      /\ UNCHANGED <<edges, weight, solving, destinations, at, table, kept, query>>
  BY DEF RelaxForward, network
<1>2. ForwardInv
  BY <1>1 DEF NetInv, ForwardInv
<1>3. QueryOK' /\ Holding' /\ KeptOK'
  BY <1>1, KeptStays DEF NetInv, QueryOK, Rows, Holding
<1> QED BY <1>1, <1>2, <1>3, RelaxForwardFound DEF NetInv

LEMMA NoDetourOK ==
  ASSUME NetInv, NoDetour
  PROVE  NetInv'
<1>1. /\ pc = "detour" /\ rest = {} /\ DOMAIN queue = {} /\ pc' = "answered"
      /\ path' = IF query.table THEN Path(<<>>) ELSE NoPath
      /\ UNCHANGED <<edges, weight, solving, destinations, at, table, kept, query>>
  BY DEF NoDetour, Answer, network
<1>2. ForwardInv
  BY <1>1 DEF NetInv, ForwardInv
<1>3. QueryOK' /\ Holding' /\ KeptOK'
  BY <1>1, KeptStays DEF NetInv, QueryOK, Rows, Holding
<1>4. Detours = {} /\ query.start \notin Goals
  BY <1>1, <1>2, ThereIsNoDetour DEF ForwardInv, ForwardFound
<1>5. Detours' = Detours
  BY <1>1 DEF Detours, Via
<1>6. path'.edges = <<>>
  BY <1>1 DEF Path, NoPath
<1>7. NoWay'
  BY <1>1, <1>4, <1>5, <1>6 DEF NoWay
<1> QED BY <1>1, <1>3, <1>7 DEF NetInv, AnswerInv

LEMMA NetInitOK == NetInit => NetInv
<1> SUFFICES ASSUME NetInit PROVE NetInv
  OBVIOUS
<1>1. Init /\ kept = NoKept /\ pc = "idle"
  BY DEF NetInit, Init
<1> QED BY <1>1, InitSolve DEF NetInv, KeptOK, Holding

LEMMA NetNextOK == NetInv /\ [NetNext]_netVars => NetInv'
<1> SUFFICES ASSUME NetInv, [NetNext]_netVars PROVE NetInv'
  OBVIOUS
<1>1. CASE ~Holding /\ Call /\ UNCHANGED <<kept, query, path>>
  <2>1. pc = "idle" /\ UNCHANGED edges
    BY <1>1 DEF Call, SolveNearest, SolveMerged
  <2>2. SolveInv'
    BY <1>1, <2>1, NextSolve DEF NetInv, Next
  <2>3. pc' \in {"idle", "merge", "search", "done"}
    BY <2>2 DEF SolveInv, IndInv, TypeOK
  <2>4. KeptOK'
    BY <1>1, <2>1, KeptStays DEF NetInv
  <2> QED BY <2>2, <2>3, <2>4 DEF NetInv
<1>2. ASSUME NEW start \in Starts, NEW removed,
             \/ \E w \in Reweighted(kept.weight) : GetPath(start, removed, w)
             \/ GetDetour(start, removed)
      PROVE  NetInv'
  BY <1>2, GetPathOK, GetDetourOK
<1>3. CASE NetCall
  BY <1>1, <1>2, <1>3 DEF NetCall
<1>4. CASE SolverStep
  BY <1>4, SolverStepOK
<1>5. CASE PathStep
  BY <1>5, TakeForwardOK, RelaxForwardOK, NoDetourOK, ForgetOK DEF PathStep
<1>6. CASE UNCHANGED netVars
  <2>1. UNCHANGED <<edges, weight, destinations, at, queue, taken, rows, state, rest, table,
                    solving, pc, kept, query, path>>
    BY <1>6 DEF netVars, vars, network, search
  <2>2. pc \in {"idle", "merge", "search", "done"} => SolveInv'
    <3>1. UNCHANGED vars
      BY <1>6 DEF netVars
    <3> QED BY <3>1, NextSolve DEF NetInv
  <2>3. KeptOK'
    BY <2>1, KeptStays DEF NetInv
  <2>4. QueryOK' = QueryOK /\ Holding' = Holding
    BY <2>1 DEF QueryOK, Rows, Holding
  <2>5. pc = "detour" => ForwardHeap' /\ ForwardFound'
    BY <2>1 DEF NetInv, ForwardHeap, ForwardFound, Rows, Open, Reached, Grounded
  <2>6. Detours' = Detours /\ \A es : Spent(es)' = Spent(es)
    BY <2>1 DEF Detours, Via, Spent
  <2>7. pc = "answered" => AnswerInv'
    BY <2>1, <2>6 DEF NetInv, AnswerInv, NotReached, AsRecorded, AtGoal, NoWay, Cheap
  <2> QED BY <2>1, <2>2, <2>3, <2>4, <2>5, <2>7 DEF NetInv
<1> QED BY <1>3, <1>4, <1>5, <1>6 DEF NetNext

\* What every solve and every query of a network has found so far is an invariant
\* (dijkstra.hpp:184-285, network.hpp:155-236).
THEOREM Querying == NetSpec => []NetInv
  BY NetInitOK, NetNextOK, PTL DEF NetSpec

\* A network's solves return tables whose routes lead and whose costs are cheapest
\* ones, whatever was asked of an earlier table (network.hpp:77-99).
THEOREM NetSolves == NetSpec => [](RoutesLead /\ CostsAreCheapest)
<1>1. NetInv => RoutesLead /\ CostsAreCheapest
  <2>1. CASE pc = "done"
    BY <2>1, DoneLeads, DoneCheapest DEF NetInv
  <2>2. CASE pc # "done"
    BY <2>2 DEF RoutesLead, CostsAreCheapest
  <2> QED BY <2>1, <2>2
<1> QED BY <1>1, Querying, PTL

\* A path that is answered avoids the removed edges and arrives, although the table it
\* may be read from knows of neither the edges nor the weights (network.hpp:155-174).
THEOREM PathsAvoidRemoved == NetSpec => []PathAvoidsRemoved
<1>1. NetInv => PathAvoidsRemoved
  <2> SUFFICES ASSUME NetInv, pc = "answered", path.edges # <<>>
               PROVE  /\ ToSet(path.edges) \cap query.removed = {}
                      /\ EndOf(query.start, path.edges)
                           \in Goals \cup (IF query.table THEN kept.ends ELSE {})
    BY DEF PathAvoidsRemoved
  <2>1. QueryOK /\ Holding /\ AnswerInv /\ Leading(kept.rows, kept.ends)
    BY DEF NetInv, KeptOK
  <2>2. Path(<<>>).edges = <<>>
    BY DEF Path
  <2>3. AsRecorded \/ Cheap
    BY <2>1, <2>2 DEF AnswerInv, NotReached, AtGoal, NoWay
  <2> DEFINE es == path.edges
  <2>4. CASE AsRecorded
    <3>1. /\ query.table /\ es = Followed(kept.rows, query.start)
          /\ ~Blocked(es, query.removed)
      BY <2>4 DEF AsRecorded, Path
    <3>2. query.start \in Reached(kept.rows)
      BY <2>1, <2>4 DEF AsRecorded, QueryOK, Reached
    <3>3. es \in Seq(1..Len(edges)) /\ Via(es, query.start, kept.ends) # {}
      BY <2>1, <3>1, <3>2, FollowedArrives
    <3> HIDE DEF es
    <3>4. EndOf(query.start, es) \in kept.ends
      <4>1. PICK v : v \in Via(es, query.start, kept.ends)
        BY <3>3
      <4>2. Len(es) \in Nat
        BY <3>3, LenProperties
      <4> QED BY <4>1, <4>2, EndOfRoute
    <3>5. ToSet(es) \cap query.removed = {}
      BY <3>1 DEF Blocked
    <3> QED BY <3>1, <3>4, <3>5 DEF es
  <2>5. CASE Cheap
    <3>1. es \in Seq((1..Len(edges)) \ query.removed) /\ Via(es, query.start, Goals) # {}
      BY <2>5 DEF Cheap, Detours
    <3> HIDE DEF es
    <3>2. EndOf(query.start, es) \in Goals
      <4>1. PICK v : v \in Via(es, query.start, Goals)
        BY <3>1
      <4>2. Len(es) \in Nat
        BY <3>1, LenProperties
      <4> QED BY <4>1, <4>2, EndOfRoute
    <3>3. ToSet(es) \cap query.removed = {}
      <4>1. \A k \in 1..Len(es) : es[k] \notin query.removed
        BY <3>1, ElementOfSeq
      <4>2. ToSet(es) = {es[k] : k \in 1..Len(es)}
        BY <3>1 DEF ToSet
      <4> QED BY <4>1, <4>2
    <3> QED BY <3>2, <3>3 DEF es
  <2> QED BY <2>3, <2>4, <2>5
<1> QED BY <1>1, Querying, PTL

\* The paths DetourIsCheapest compares with are detours.
LEMMA RoutesAreDetours ==
  ASSUME QueryOK, NEW es \in Routes(query.start)
  PROVE  es \in Detours
<1>1. PICK k \in 0..Min({NodeCount - 1, Len(edges)}) : es \in [1..k -> (1..Len(edges)) \ query.removed]
  BY DEF Routes
<1>2. k \in Nat /\ EndOf(query.start, es) \in Goals
  <2>1. Min({NodeCount - 1, Len(edges)}) \in Nat
    <3>1. edges \in Seq([from : Nodes, to : Nodes])
      BY EdgeAssumption DEF QueryOK
    <3>2. NodeCount - 1 \in Nat /\ Len(edges) \in Nat
      BY <3>1, NodeAssumption, LenProperties
    <3>3. \E x \in {NodeCount - 1, Len(edges)} : \A y \in {NodeCount - 1, Len(edges)} : x <= y
      BY <3>2
    <3>4. Min({NodeCount - 1, Len(edges)}) \in {NodeCount - 1, Len(edges)}
      BY <3>3 DEF Min
    <3> QED BY <3>2, <3>4
  <2>2. EndOf(query.start, es) \in Goals
    BY DEF Routes
  <2> QED BY <2>1, <2>2
<1>3. es \in Seq((1..Len(edges)) \ query.removed) /\ es \in Seq(1..Len(edges))
  <2>1. es \in [1..k -> 1..Len(edges)]
    BY <1>1
  <2> QED BY <1>1, <1>2, <2>1, IsASeq
<1>4. Via(es, query.start, Goals) # {}
  BY <1>2, <1>3, RouteOfEnd, QueryWeighted, NetworkAssumption DEF QueryOK
<1> QED BY <1>3, <1>4 DEF Detours

\* A detour is a cheapest route to a goal without the removed edges, and there is none
\* only if there is no route: the search may stop at the first goal it settles, and look
\* for no other (network.hpp:176-236).
THEOREM DetoursAreCheapest == NetSpec => []DetourIsCheapest
<1>1. NetInv => DetourIsCheapest
  <2> SUFFICES ASSUME NetInv, pc = "answered",
                      query.table => /\ Blocked(Recorded(query.start), query.removed)
                                     /\ kept.rows[query.start].cost # Unreached
               PROVE  IF path.found /\ (path.edges # <<>> \/ query.start \in Goals)
                        THEN /\ path.edges \in Routes(query.start)
                             /\ \A es \in Routes(query.start) : CostOf(path.edges) <= CostOf(es)
                        ELSE Routes(query.start) = {}
    BY DEF DetourIsCheapest
  <2>1. QueryOK /\ AnswerInv /\ Weighted
    BY QueryWeighted DEF NetInv
  <2>2. AtGoal \/ NoWay \/ Cheap
    BY <2>1, RecordedIsFollowed DEF AnswerInv, NotReached, AsRecorded
  <2>3. Path(<<>>).edges = <<>> /\ Path(<<>>).found
    BY DEF Path
  <2>4. edges \in Seq([from : Nodes, to : Nodes]) /\ Len(edges) \in Nat /\ NodeCount - 1 \in Nat
    <3>1. edges \in Seq([from : Nodes, to : Nodes])
      BY <2>1, EdgeAssumption DEF QueryOK
    <3> QED BY <3>1, NodeAssumption, LenProperties
  <2>5. ASSUME NEW k \in Nat, k <= NodeCount - 1, k <= Len(edges)
        PROVE  k \in 0..Min({NodeCount - 1, Len(edges)})
    <3>1. \E x \in {NodeCount - 1, Len(edges)} : \A y \in {NodeCount - 1, Len(edges)} : x <= y
      BY <2>4
    <3>2. Min({NodeCount - 1, Len(edges)}) \in {NodeCount - 1, Len(edges)}
      BY <3>1 DEF Min
    <3> QED BY <2>4, <2>5, <3>2
  \* What any path costs is what is spent at its end.
  <2>6. ASSUME NEW es \in Routes(query.start)
        PROVE  /\ es \in Detours
               /\ \E z \in Spent(es) : CostOf(es) = z[Len(es)] /\ z[Len(es)] \in Nat
    <3>1. es \in Detours
      BY <2>1, RoutesAreDetours
    <3>2. es \in Seq(1..Len(edges)) /\ Len(es) \in Nat
      <4>1. es \in Seq((1..Len(edges)) \ query.removed)
        BY <3>1 DEF Detours
      <4>2. \A k \in 1..Len(es) : es[k] \in 1..Len(edges)
        BY <4>1, ElementOfSeq
      <4> QED BY <4>1, <4>2, LenProperties, IsASeq
    <3>3. PICK z \in Spent(es) : TRUE
      BY <2>1, <3>2, SpentExists
    <3>4. CostOf(es) = z[Len(es)]
      BY <3>2, CostOfRoute
    <3>5. z[Len(es)] \in Nat
      <4>1. Len(es) \in 0..Len(es)
        BY <3>2
      <4> QED BY <4>1 DEF Spent
    <3> QED BY <3>1, <3>4, <3>5
  \* A path that arrives and is short enough is one of the routes.
  <2>7. ASSUME NEW es \in Seq((1..Len(edges)) \ query.removed), NEW v \in Via(es, query.start, Goals),
               Len(es) <= NodeCount - 1, Len(es) <= Len(edges)
        PROVE  es \in Routes(query.start)
    <3>1. Len(es) \in Nat /\ es \in [1..Len(es) -> (1..Len(edges)) \ query.removed]
      BY LenProperties
    <3>2. EndOf(query.start, es) \in Goals
      BY <3>1, EndOfRoute
    <3>3. Len(es) \in 0..Min({NodeCount - 1, Len(edges)})
      BY <2>5, <2>7, <3>1
    <3> QED BY <3>1, <3>2, <3>3 DEF Routes
  <2>8. CASE AtGoal
    <3>1. path.found /\ path.edges = <<>> /\ query.start \in Goals
      BY <2>3, <2>8 DEF AtGoal
    <3> DEFINE es == <<>>
               v == [k \in {0} |-> query.start]
               c == [k \in {0} |-> 0]
    <3>2. es \in Seq((1..Len(edges)) \ query.removed) /\ Len(es) = 0 /\ 0..Len(es) = {0} /\ 1..Len(es) = {}
      OBVIOUS
    <3> HIDE DEF es
    <3>3. v \in Via(es, query.start, Goals)
      BY <2>1, <3>1, <3>2 DEF Via, QueryOK
    <3>4. c \in Spent(es)
      BY <3>2 DEF Spent
    <3>5. CostOf(es) = 0
      <4>1. CostOf(es) = c[Len(es)]
        <5> HIDE DEF c
        <5> QED BY <3>2, <3>4, CostOfRoute
      <4> QED BY <3>2, <4>1
    <3>6. es \in Routes(query.start)
      <4>1. Len(es) <= NodeCount - 1 /\ Len(es) <= Len(edges)
        BY <2>4, <3>2
      <4>2. es \in Seq((1..Len(edges)) \ query.removed)
        BY <3>2
      <4> HIDE DEF v
      <4> QED BY <2>7, <3>3, <4>1, <4>2
    <3>7. \A fs \in Routes(query.start) : 0 <= CostOf(fs)
      BY <2>6
    <3> QED BY <3>1, <3>5, <3>6, <3>7 DEF es
  <2>9. CASE NoWay
    <3>1. path.edges = <<>> /\ query.start \notin Goals
      BY <2>9 DEF NoWay
    <3>2. Routes(query.start) = {}
      BY <2>6, <2>9 DEF NoWay
    <3> QED BY <3>1, <3>2
  <2>10. CASE Cheap
    <3> DEFINE es == path.edges
    <3>1. /\ query.start \notin Goals /\ path.found
          /\ es \in Seq((1..Len(edges)) \ query.removed) /\ Via(es, query.start, Goals) # {}
          /\ Len(es) <= NodeCount - 1 /\ Len(es) <= Len(edges) /\ Len(es) \in Nat
      BY <2>10, LenProperties DEF Cheap, Detours
    <3>2. PICK c \in Spent(es) : \A fs \in Detours : \A z \in Spent(fs) : c[Len(es)] <= z[Len(fs)]
      BY <2>10 DEF Cheap
    <3> HIDE DEF es
    <3>3. PICK v : v \in Via(es, query.start, Goals)
      BY <3>1
    <3>4. es # <<>>
      <4> SUFFICES ASSUME es = <<>> PROVE FALSE
        OBVIOUS
      <4>1. Len(es) = 0
        OBVIOUS
      <4> QED BY <3>1, <3>3, <4>1 DEF Via
    <3>5. es \in Routes(query.start)
      BY <2>7, <3>1, <3>3
    <3>6. CostOf(es) = c[Len(es)]
      BY <3>1, CostOfRoute
    <3>7. ASSUME NEW fs \in Routes(query.start) PROVE CostOf(es) <= CostOf(fs)
      <4>1. PICK z \in Spent(fs) : CostOf(fs) = z[Len(fs)]
        BY <2>6
      <4>2. fs \in Detours
        BY <2>6
      <4> QED BY <3>2, <3>6, <4>1, <4>2
    <3> QED BY <3>1, <3>4, <3>5, <3>7 DEF es
  <2> QED BY <2>2, <2>8, <2>9, <2>10
<1> QED BY <1>1, Querying, PTL

-----------------------------------------------------------------------------
(* What a loop uses up.  That it ends is this and fairness.                *)

\* An iteration of sift_up moves the hole towards the root, one of sift_down away from
\* it and not past the last entry (indexed_min_heap.hpp:56-91).
HoleMovesOn ==
  [][loop # "idle" /\ loop' # "idle" =>
       /\ loop' = loop
       /\ loop = "up" => slot' < slot
       /\ loop = "down" => slot < slot' /\ slot' < count]_heapVars

\* A sift loop visits no slot twice and stays within the heap, whatever it holds
\* (indexed_min_heap.hpp:56-91): what is missing to OperationsEnd is fairness.
THEOREM SiftsMoveOn == HeapSpec => HoleMovesOn
<1> DEFINE Moves ==
      loop # "idle" /\ loop' # "idle" =>
        /\ loop' = loop
        /\ loop = "up" => slot' < slot
        /\ loop = "down" => slot < slot' /\ slot' < count
<1>1. HeapIndInv /\ [HeapNext]_heapVars => [Moves]_heapVars
  <2> SUFFICES ASSUME HeapIndInv, HeapNext PROVE Moves
    OBVIOUS
  <2>0. slot \in Nat /\ count \in Nat
    BY CapacityAssumption DEF HeapIndInv, HeapTypeOK, Slots
  <2>1. CASE Operation
    BY <2>1 DEF Operation, Add, DecreaseKey, RemoveMin, Clear
  <2>2. CASE SiftUp
    <3>1. slot > 0 => Parent(slot) < slot
      BY <2>0, ParentFacts
    <3> QED BY <2>2, <3>1 DEF SiftUp, MoveFrom, Place, Sift
  <2>3. CASE SiftDown
    <3>1. SmallestChild \in {Left(slot), Left(slot) + 1} /\ slot < Left(slot) /\ Left(slot) \in Nat
      BY <2>0, LeftFacts DEF SmallestChild
    <3>2. Left(slot) < count => SmallestChild < count
      BY <2>0, <3>1 DEF SmallestChild
    <3> QED BY <2>0, <2>3, <3>1, <3>2 DEF SiftDown, MoveFrom, Place, Sift
  <2> QED BY <2>1, <2>2, <2>3 DEF HeapNext, Loop
<1> QED BY <1>1, HeapInductive, PTL DEF HeapSpec, HoleMovesOn

\* The nodes that are settled.
Finished == {n \in Nodes : state[n] = 1}

\* A step of a search settles one more node for good, or relaxes one more edge of the
\* last; a search that ends a round of a merge is followed by the next destination's
\* (dijkstra.hpp:188-221, 263-283, network.hpp:184-232).
Advances ==
  pc \in {"search", "detour"} /\ pc' = pc =>
    \/ \E n \in Nodes \ Finished : Finished' = Finished \cup {n}
    \/ Finished' = Finished /\ \E e \in rest : rest' = rest \ {e}

Continues == pc = "search" /\ pc' = "merge" => at <= Len(destinations) /\ at' = at + 1

SearchMovesOn == [][Advances /\ Continues]_netVars

LEMMA RelaxKeepsFinished ==
  ASSUME NEW to \in Nodes, NEW cost, state \in [Nodes -> 0..2], state[to] # 1,
         Requeue(to, cost)
  PROVE  Finished' = Finished
<1>1. state' = state \/ state' = [state EXCEPT ![to] = 2]
  BY DEF Requeue
<1>2. \A n \in Nodes : state'[n] = 1 <=> state[n] = 1
  BY <1>1
<1> QED BY <1>2 DEF Finished

LEMMA SearchStep ==
  ASSUME IndInv, pc = "search", Next
  PROVE  /\ pc' = pc => \/ \E n \in Nodes \ Finished : Finished' = Finished \cup {n}
                        \/ Finished' = Finished /\ \E e \in rest : rest' = rest \ {e}
         /\ pc' = "merge" => at <= Len(destinations) /\ at' = at + 1
<1> USE DEF IndInv, TypeOK
<1>1. CASE Call \/ NextDestination \/ MergeDone \/ Return
  BY <1>1 DEF Call, SolveNearest, SolveMerged, NextDestination, MergeDone, Return
<1>2. ASSUME NEW n \in Nodes, Take(n)
      PROVE  pc' = pc /\ n \notin Finished /\ Finished' = Finished \cup {n}
  <2>1. state[n] = 2
    BY <1>2 DEF Take, Q!QRemoveMin, Q!Lightest, HeapHoldsOpen
  <2>2. state' = [state EXCEPT ![n] = 1] /\ pc' = pc
    BY <1>2, <2>1 DEF Take
  <2> QED BY <2>1, <2>2 DEF Finished
<1>3. ASSUME NEW e \in 1..Len(edges), Relax(e)
      PROVE  pc' = pc /\ Finished' = Finished /\ e \in rest /\ rest' = rest \ {e}
  <2> DEFINE from == edges[e].from
             cost == Plus(taken.weight, weight[e])
  <2>1. e \in rest /\ rest' = rest \ {e} /\ pc' = pc
    BY <1>3 DEF Relax
  <2>2. from \in Nodes /\ (Improves(cost, from) => state[from] # 1)
    BY <1>3, RelaxFacts
  <2>3. CASE Improves(cost, from)
    <3>1. Requeue(from, cost)
      BY <1>3, <2>3 DEF Relax
    <3>2. state \in [Nodes -> 0..2]
      OBVIOUS
    <3> HIDE DEF from, cost, IndInv
    <3> QED BY <2>1, <2>2, <2>3, <3>1, <3>2, RelaxKeepsFinished
  <2>4. CASE ~Improves(cost, from)
    BY <1>3, <2>1, <2>4 DEF Relax, Finished
  <2> QED BY <2>3, <2>4
<1>4. CASE Exhausted
  BY <1>4 DEF Exhausted, LoopOK
<1>5. ASSUME \E n \in Nodes : Take(n)
      PROVE  pc' = pc /\ \E n \in Nodes \ Finished : Finished' = Finished \cup {n}
  BY <1>2, <1>5
<1>6. ASSUME \E e \in 1..Len(edges) : Relax(e)
      PROVE  pc' = pc /\ Finished' = Finished /\ \E e \in rest : rest' = rest \ {e}
  BY <1>3, <1>6
<1> HIDE DEF IndInv
<1> QED BY <1>1, <1>4, <1>5, <1>6 DEF Next, Solver

LEMMA DetourStep ==
  ASSUME ForwardInv, pc = "detour", PathStep, pc' = pc
  PROVE  \/ \E n \in Nodes \ Finished : Finished' = Finished \cup {n}
         \/ Finished' = Finished /\ \E e \in rest : rest' = rest \ {e}
<1>0. state \in [Nodes -> 0..2] /\ rest \subseteq 1..Len(edges)
  BY DEF ForwardInv, ForwardHeap, Open
<1>1. ASSUME NEW n \in Nodes, TakeForward(n)
      PROVE  n \notin Finished /\ Finished' = Finished \cup {n}
  <2>1. state[n] = 2 /\ state' = [state EXCEPT ![n] = 1]
    BY <1>1, TakeForwardFacts
  <2> QED BY <1>0, <2>1 DEF Finished
<1>2. ASSUME NEW e \in 1..Len(edges), RelaxForward(e)
      PROVE  Finished' = Finished /\ e \in rest /\ rest' = rest \ {e}
  <2> DEFINE to   == edges[e].to
             cost == Plus(taken.weight, weight[e])
  <2>1. e \in rest /\ rest' = rest \ {e}
    BY <1>2 DEF RelaxForward
  <2>2. to \in Nodes /\ weight[e] \in Nat
    BY QueryWeighted DEF ForwardInv
  <2>3. OnGrid(taken.weight) /\ taken.weight \in Nat
    BY DEF ForwardInv, ForwardHeap, OnGrid
  <2>4. taken.weight <= cost /\ cost \in Nat
    BY <2>2, <2>3, PlusGrows DEF OnGrid
  <2>5. state[to] = 1 => rows[to].cost \in Nat /\ rows[to].cost <= taken.weight
    BY <2>2 DEF ForwardInv, ForwardHeap
  <2>6. CASE Reaches(cost, to)
    <3>1. Requeue(to, cost)
      BY <1>2, <2>6 DEF RelaxForward
    <3>2. state[to] # 1
      BY <2>3, <2>4, <2>5, <2>6 DEF Reaches, Less, Unreached
    <3> HIDE DEF to, cost
    <3> QED BY <1>0, <2>1, <2>2, <3>1, <3>2, RelaxKeepsFinished
  <2>7. CASE ~Reaches(cost, to)
    BY <1>2, <2>1, <2>7 DEF RelaxForward, Finished
  <2> QED BY <2>6, <2>7
<1>3. CASE NoDetour \/ Forget
  BY <1>3 DEF NoDetour, Answer, Forget
<1> QED BY <1>1, <1>2, <1>3 DEF PathStep

\* Every search, of a solve or of a query, and every merge uses something up at each
\* step, also where ties and absorbed weights leave costs as they are
\* (dijkstra.hpp:188-221, 263-283, network.hpp:184-232): what is missing to NetReturns is
\* fairness.
THEOREM SearchesMoveOn == NetSpec => SearchMovesOn
<1>1. NetInv /\ [NetNext]_netVars => [Advances /\ Continues]_netVars
  <2> SUFFICES ASSUME NetInv, NetNext PROVE Advances /\ Continues
    OBVIOUS
  <2>1. CASE pc \notin {"search", "detour"}
    BY <2>1 DEF Advances, Continues
  <2>2. CASE pc = "search"
    <3>1. IndInv
      BY <2>2 DEF NetInv, SolveInv
    <3>2. Next \/ pc' \notin {"search", "merge"}
      BY <2>2 DEF NetNext, NetCall, GetPath, GetDetour, PathStep, TakeForward, RelaxForward,
                  NoDetour, Forget, SolverStep, Next, Solver
    <3>3. CASE Next
      <4>1. Advances /\ Continues
        BY <2>2, <3>1, <3>3, SearchStep DEF Advances, Continues
      <4> QED BY <4>1
    <3>4. CASE pc' \notin {"search", "merge"}
      BY <2>2, <3>4 DEF Advances, Continues
    <3> QED BY <3>2, <3>3, <3>4
  <2>3. CASE pc = "detour"
    <3>1. ForwardInv
      BY <2>3 DEF NetInv, ForwardInv
    <3>2. PathStep
      BY <2>3 DEF NetNext, NetCall, Call, SolveNearest, SolveMerged, GetPath, GetDetour,
                  SolverStep, NextDestination, MergeDone, Exhausted, Take, Relax, Return
    <3>3. CASE pc' = pc
      <4>1. \/ \E n \in Nodes \ Finished : Finished' = Finished \cup {n}
            \/ Finished' = Finished /\ \E e \in rest : rest' = rest \ {e}
        BY <2>3, <3>1, <3>2, <3>3, DetourStep
      <4> QED BY <2>3, <4>1 DEF Advances, Continues
    <3>4. CASE pc' # pc
      BY <2>3, <3>4 DEF Advances, Continues
    <3> QED BY <3>3, <3>4
  <2> QED BY <2>1, <2>2, <2>3
<1> QED BY <1>1, Querying, PTL DEF NetSpec, SearchMovesOn
=============================================================================
