-------------------------------- MODULE Slo --------------------------------
(***************************************************************************)
(* SloTracker (kineplex-core/src/metrics.rs): the share of requests that   *)
(* succeeded, since the tracker was made, and the 95th percentile of the   *)
(* latencies of the last ones.  The tracker is used by one thread.         *)
(* Ratios are compared by multiplying, where the code divides.             *)
(***************************************************************************)
EXTENDS Naturals, Sequences, FiniteSets

CONSTANTS
    Latencies,
    MaxLatencies, \* latency_samples is kept to this length: 1000
    RankOf, OutOf, \* the percentile, 95 of 100
    SliTarget,    \* config.sli_target, so many of OutOf
    MaxRequests   \* bound: the requests of one tracker

ASSUME LatenciesAssumption == Latencies \subseteq Nat /\ MaxLatencies \in Nat \ {0}
ASSUME PercentileAssumption == RankOf \in Nat /\ OutOf \in Nat \ {0} /\ RankOf < OutOf
ASSUME SliTargetAssumption == SliTarget \in 0 .. OutOf

VARIABLES
    total_requests,
    successful_requests,
    latency_samples,
    requests     \* history: the latencies of all requests

sloVars == <<total_requests, successful_requests, latency_samples, requests>>

SloTypeOK ==
    /\ total_requests \in Nat
    /\ successful_requests \in 0 .. total_requests
    /\ latency_samples \in Seq(Latencies)
    /\ requests \in Seq(Latencies)

SloInit ==
    /\ total_requests = 0
    /\ successful_requests = 0
    /\ latency_samples = <<>>
    /\ requests = <<>>

-----------------------------------------------------------------------------

\* Mutant: the newest sample goes.
DroppingNewest(s) == IF Len(s) > MaxLatencies THEN SubSeq(s, 1, MaxLatencies) ELSE s

Dropping(s) == IF Len(s) > MaxLatencies THEN Tail(s) ELSE s

RecordRequest(success, latency) ==
    /\ total_requests < MaxRequests
    /\ total_requests' = total_requests + 1
    /\ successful_requests' = successful_requests + (IF success THEN 1 ELSE 0)
    /\ latency_samples' = Dropping(Append(latency_samples, latency))
    /\ requests' = Append(requests, latency)

\* How many of the samples are at most x.
Rank(s, x) == Cardinality({i \in DOMAIN s : s[i] <= x})

\* The index, from 0, into the sorted samples.
Index(s) == (RankOf * Len(s)) \div OutOf

\* The sample at that index: the least one that more than Index(s) samples do not
\* exceed.
P95Latency(s) ==
    IF s = <<>> THEN 0
    ELSE CHOOSE x \in Latencies :
            /\ Rank(s, x) > Index(s)
            /\ \A y \in Latencies : y < x => Rank(s, y) <= Index(s)

\* current_sli >= sli_target; without requests the SLI is 1.
IsSloMet == total_requests * SliTarget <= successful_requests * OutOf

SloNext == \E success \in BOOLEAN, latency \in Latencies : RecordRequest(success, latency)

SloSpec == SloInit /\ [][SloNext]_sloVars

-----------------------------------------------------------------------------
(* Properties *)

RecentRequests ==
    LET n == IF Len(requests) < MaxLatencies THEN Len(requests) ELSE MaxLatencies
    IN SubSeq(requests, Len(requests) - n + 1, Len(requests))

\* Of the last requests, as many as are kept, at least 95 in 100 took no longer than
\* the p95 that the tracker answers, and it is the latency of one of them, however
\* many requests came before.
P95CoversRecent ==
    requests # <<>> =>
        /\ OutOf * Rank(RecentRequests, P95Latency(latency_samples)) >= RankOf * Len(RecentRequests)
        /\ \E i \in DOMAIN RecentRequests : RecentRequests[i] = P95Latency(latency_samples)
=============================================================================
