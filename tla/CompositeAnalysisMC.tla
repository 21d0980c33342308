------------------------ MODULE CompositeAnalysisMC -------------------------
(***************************************************************************)
(* The instance of CompositeAnalysis for the model checker: no property    *)
(* and no definition tells one point of an optimiser from another.         *)
(***************************************************************************)
EXTENDS CompositeAnalysis, TLC

Symmetry == Permutations(Points)
=============================================================================
