-------------------------- MODULE MCNodeControl --------------------------
(* Model values for NodeControl. *)
EXTENDS NodeControl, TLC

Interchangeable == Permutations(Callers) \cup Permutations(GraphIds)
=============================================================================
