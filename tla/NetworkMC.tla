----------------------------- MODULE NetworkMC -----------------------------
(***************************************************************************)
(* Networks of four nodes for TLC.  A list of edges is ordered by end      *)
(* node, the order the solver groups it in, and has no self-loop: one      *)
(* never shortens a route.  The goal is node 0 and a solve may also be for *)
(* node 1, so swapping 2 and 3 gives the same solve, and one list of each  *)
(* such pair is enough; a path is asked for from both.                     *)
(***************************************************************************)
EXTENDS Network

CONSTANT MaxEdges

Edges == {e \in [from : Nodes, to : Nodes] : e.from # e.to}

Grouped(es) == \A k \in 1..(Len(es) - 1) : es[k].to <= es[k + 1].to

Touching(es, n) == {k \in 1..Len(es) : n \in {es[k].from, es[k].to}}

MCTopologies ==
  {es \in UNION {[1..m -> Edges] : m \in 1..MaxEdges} :
     Grouped(es) /\ Cardinality(Touching(es, 2)) >= Cardinality(Touching(es, 3))}

MCDestinationLists == {<<>>, <<0>>, <<0, 1>>, <<0, 0>>}

\* The weights of the solve, or those in the other order.
MCReweighted(w) == {w, Reverse(w)}
=============================================================================
