----------------------------- MODULE MCMetrics -----------------------------
(* Model values for Metrics and Slo.  They share no variable: in each behavior
   one of them runs, and the other rests. *)
EXTENDS Metrics, Slo

CONSTANTS k1, k2, k3, n1, n2

VARIABLE part  \* the one that runs

\* Of three counters two have the same name and different labels.
TwoShareAName == [k \in Counters |-> IF k = k1 THEN n1 ELSE n2]

MCInit == Init /\ SloInit /\ part \in {"metrics", "slo"}

MCNext ==
    /\ UNCHANGED part
    /\ \/ part = "metrics" /\ Next /\ UNCHANGED sloVars
       \/ part = "slo" /\ SloNext /\ UNCHANGED vars

MCSpec ==
    /\ MCInit /\ [][MCNext]_<<vars, sloVars, part>>
    /\ \A t \in Threads : SF_vars(Proceed(t))
=============================================================================
