-------------------------- MODULE MCGraphEngine --------------------------
(* Model values for GraphEngine: two clients that share a key; the first has
   another key of its own. *)
EXTENDS GraphEngine, TLC

CONSTANTS c1, c2, k1, k2

OneShared == (c1 :> {k1, k2}) @@ (c2 :> {k1})
=============================================================================
