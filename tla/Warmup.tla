------------------------------- MODULE Warmup -------------------------------
(***************************************************************************)
(* GeometricWarmup (kineplex-core/src/geometry.rs): synthetic spikes are   *)
(* sent through a metric system, one at a time, until the variances that   *)
(* it reports have settled or the spikes are used up.                      *)
(*                                                                         *)
(* Each spike is awaited: it may fail, and the future of the whole warm-up *)
(* may be dropped while it waits.  What the loop does between two awaits   *)
(* is one step.  Variances are integers; the test for convergence is exact.*)
(***************************************************************************)
EXTENDS Integers, Sequences, SequencesExt

CONSTANTS
    NumSpikes,   \* num_warmup_spikes
    Window,      \* the variances that check_convergence looks at: 10
    Keep,        \* the length that metric_history is kept to: 20
    Threshold,   \* convergence_threshold
    Variances    \* what metric_variance may answer

ASSUME NumSpikesAssumption == NumSpikes \in Nat
ASSUME WindowAssumption == Window \in Nat \ {0} /\ Keep \in Nat /\ Window <= Keep
ASSUME VariancesAssumption == Variances \subseteq Int /\ Threshold \in Int

VARIABLES
    warming,     \* warmup waits for process_spike
    spikes,      \* the spikes it has had an answer for
    metric_history,
    late,        \* more than max_warmup_time_ms have passed since it began
    is_warmed_up,
    outcome,     \* how the last warmup ended
    seen         \* history: all variances of this warm-up, or of the last one

warmupVars == <<warming, spikes, metric_history, late, is_warmed_up, outcome, seen>>

WarmupTypeOK ==
    /\ warming \in BOOLEAN
    /\ spikes \in 0 .. NumSpikes
    /\ metric_history \in Seq(Variances)
    /\ late \in BOOLEAN
    /\ is_warmed_up \in BOOLEAN
    /\ outcome \in {"None", "Converged", "SpikesUsed", "Timeout", "SpikeFailed", "Dropped"}
    /\ seen \in Seq(Variances)

WarmupInit ==
    /\ warming = FALSE
    /\ spikes = 0
    /\ metric_history = <<>>
    /\ late = FALSE
    /\ is_warmed_up = FALSE
    /\ outcome = "None"
    /\ seen = <<>>

-----------------------------------------------------------------------------

\* The variance of s, times the square of its length, against the threshold.
Settled(s) ==
    LET Sum(t) == FoldLeft(LAMBDA x, y : x + y, 0, t)
        squares == [i \in DOMAIN s |-> s[i] * s[i]]
    IN Len(s) * Sum(squares) - Sum(s) * Sum(s) < Threshold * Len(s) * Len(s)

Recent(s, n) == SubSeq(s, Len(s) - n + 1, Len(s))

CheckConvergence(s) == Len(s) >= Window /\ Settled(Recent(s, Window))

\* metric_history after a push, kept to its length.
Pushed(s, variance) ==
    IF Len(s) + 1 > Keep THEN Tail(Append(s, variance)) ELSE Append(s, variance)

\* Mutant: the time is looked at after the flag is set.
EndOperational(result) ==
    /\ warming' = FALSE
    /\ outcome' = result
    /\ is_warmed_up' = (is_warmed_up \/ result \in {"Converged", "SpikesUsed", "Timeout"})

\* warmup returns, and what it has of the last history stays.
End(result) ==
    /\ warming' = FALSE
    /\ outcome' = result
    /\ is_warmed_up' = (is_warmed_up \/ result \in {"Converged", "SpikesUsed"})

\* Mutant: the history of the last warm-up stays.
BeginAgain ==
    /\ ~warming
    /\ spikes' = 0
    /\ late' = FALSE
    /\ seen' = <<>>
    /\ IF NumSpikes = 0 THEN End("SpikesUsed")
       ELSE warming' = TRUE /\ outcome' = "None" /\ UNCHANGED is_warmed_up
    /\ UNCHANGED metric_history

Begin ==
    /\ ~warming
    /\ spikes' = 0
    /\ metric_history' = <<>>
    /\ late' = FALSE
    /\ seen' = <<>>
    /\ IF NumSpikes = 0 THEN End("SpikesUsed")
       ELSE warming' = TRUE /\ outcome' = "None" /\ UNCHANGED is_warmed_up

\* The timeout is looked at when no spike is left, and not before.
SpikeProcessed(variance) ==
    /\ warming
    /\ spikes' = spikes + 1
    /\ metric_history' = Pushed(metric_history, variance)
    /\ seen' = Append(seen, variance)
    /\ \/ CheckConvergence(metric_history') /\ End("Converged")
       \/ /\ ~CheckConvergence(metric_history')
          /\ \/ spikes + 1 < NumSpikes /\ UNCHANGED <<warming, is_warmed_up, outcome>>
             \/ spikes + 1 = NumSpikes /\ late /\ End("Timeout")
             \/ spikes + 1 = NumSpikes /\ ~late /\ End("SpikesUsed")
    /\ UNCHANGED late

\* process_spike fails, or the future is dropped while it runs.
SpikeFails(result) ==
    /\ warming
    /\ End(result)
    /\ UNCHANGED <<spikes, metric_history, late, seen>>

TimePasses ==
    /\ warming
    /\ late' = TRUE
    /\ UNCHANGED <<warming, spikes, metric_history, is_warmed_up, outcome, seen>>

WarmupNext ==
    \/ Begin
    \/ \E variance \in Variances : SpikeProcessed(variance)
    \/ \E result \in {"SpikeFailed", "Dropped"} : SpikeFails(result)
    \/ TimePasses

WarmupSpec == WarmupInit /\ [][WarmupNext]_warmupVars

-----------------------------------------------------------------------------
(* Properties *)

\* A warm-up ends early exactly when a full window of its own variances has settled
\* for the first time: neither what an earlier warm-up left behind nor the trimming
\* of the history makes a difference.
EarlyEndIsEarned ==
    \A i \in 1 .. Len(seen) :
        CheckConvergence(SubSeq(seen, 1, i)) <=> outcome = "Converged" /\ i = Len(seen)

\* Only a warm-up that answers Ok makes the system operational: not one that is
\* late, fails or is dropped half-way.
OperationalIsEarned ==
    [][is_warmed_up' # is_warmed_up => outcome' \in {"Converged", "SpikesUsed"}]_warmupVars
=============================================================================
