----------------------------- MODULE MinQueue ------------------------------
(***************************************************************************)
(* What IndexedMinHeap promises the shortest-path solver: a set of nodes,  *)
(* each with one weight, from which a node of least weight is taken.       *)
(***************************************************************************)
EXTENDS Integers, Functions

CONSTANTS Nodes, Weights

VARIABLES queue,   \* the weight of each live node
          taken    \* what the last remove_min returned

Empty     == [n \in {} |-> 0]
NoneTaken == [node |-> -1, weight |-> 0]

\* queue with node n at weight w.
Put(q, n, w) == [m \in DOMAIN q \cup {n} |-> IF m = n THEN w ELSE q[m]]

\* The nodes no other live node is lighter than.
Lightest(q) == {n \in DOMAIN q : \A m \in DOMAIN q : q[n] <= q[m]}

QInit == queue = Empty /\ taken = NoneTaken

QAdd(n, w) ==
  /\ n \notin DOMAIN queue
  /\ queue' = Put(queue, n, w)
  /\ UNCHANGED taken

QRemoveMin(n) ==
  /\ n \in Lightest(queue)
  /\ taken' = [node |-> n, weight |-> queue[n]]
  /\ queue' = Restrict(queue, DOMAIN queue \ {n})

\* Lowers the weight of a live node, never raises it, and adds a node that is not live.
QDecreaseKey(n, w) ==
  /\ queue' = IF n \in DOMAIN queue /\ w >= queue[n] THEN queue ELSE Put(queue, n, w)
  /\ UNCHANGED taken

QClear == queue' = Empty /\ UNCHANGED taken

QNext ==
  \/ \E n \in Nodes, w \in Weights : QAdd(n, w) \/ QDecreaseKey(n, w)
  \/ \E n \in Nodes : QRemoveMin(n)
  \/ QClear

QSpec == QInit /\ [][QNext]_<<queue, taken>>
=============================================================================
