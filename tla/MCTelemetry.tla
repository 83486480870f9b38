---------------------------- MODULE MCTelemetry ----------------------------
(* Model values for Telemetry: two CPUs, one of which handles a packet more,
   a process that takes snapshots and one that resets the counters. *)
EXTENDS Telemetry

CONSTANTS r1, r2

TwoPacketsAndOne == <<2, 1>>
=============================================================================
