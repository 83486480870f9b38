------------------------------ MODULE Metrics ------------------------------
(***************************************************************************)
(* MetricsCollector (kineplex-core/src/metrics.rs): counters, gauges and a *)
(* log of samples, each behind a RwLock of its own.  Threads record and    *)
(* export at the same time.                                                *)
(*                                                                         *)
(* inc_counter and set_gauge write the log while they still hold the guard *)
(* of the value, and export reads the gauges while it still holds the      *)
(* counters, so these guards are part of the state; the log's own guard    *)
(* lives for one statement, which is one step.                             *)
(***************************************************************************)
EXTENDS Naturals, Sequences

CONSTANTS
    Threads,
    Counters,    \* counters: a name with its labels
    Names,       \* names of counters
    NameOf,      \* NameOf[k]: the name of counter k without its labels
    Gauges,      \* gauges and histograms: a name with its labels
    Values,      \* what gauges and histograms record
    None,
    MaxCalls     \* bound on the calls

ASSUME NameOfAssumption == NameOf \in [Counters -> Names]
ASSUME NoneAssumption == None \notin Values
ASSUME BoundAssumption == MaxCalls \in Nat

Locks == {"counters", "gauges"}

Samples ==
    [kind : {"counter"}, name : Names, value : Nat]
    \cup [kind : {"gauge", "histogram"}, name : Gauges, value : Values]

Calls ==
    [kind : {"inc_counter"}, key : Counters]
    \cup [kind : {"set_gauge", "observe_histogram"}, key : Gauges, value : Values]
    \cup [kind : {"export_prometheus", "get_metrics", "clear"}]

VARIABLES
    counters,  \* counters: a counter that was never incremented reads 0
    gauges,    \* gauges: None before the first set_gauge
    metrics,   \* the log of samples
    pc,        \* what each thread does next
    call,      \* its current call
    sample,    \* the sample its call is about to log
    held,      \* the guards it holds; export_prometheus only reads
    output,    \* what its export has printed of the counters
    calls      \* bound: the calls made so far

values == <<counters, gauges, metrics>>
locals == <<pc, call, sample, held, output>>
vars == <<values, locals, calls>>

TypeOK ==
    /\ counters \in [Counters -> Nat]
    /\ gauges \in [Gauges -> Values \cup {None}]
    /\ metrics \in Seq(Samples)
    /\ pc \in [Threads -> {"idle", "begin", "push", "gauges"}]
    /\ call \in [Threads -> Calls \cup {None}]
    /\ sample \in [Threads -> Samples \cup {None}]
    /\ held \in [Threads -> SUBSET Locks]
    /\ output \in [Threads -> [Counters -> Nat] \cup {None}]
    /\ calls \in 0 .. MaxCalls

Init ==
    /\ counters = [k \in Counters |-> 0]
    /\ gauges = [g \in Gauges |-> None]
    /\ metrics = <<>>
    /\ pc = [t \in Threads |-> "idle"]
    /\ call = [t \in Threads |-> None]
    /\ sample = [t \in Threads |-> None]
    /\ held = [t \in Threads |-> {}]
    /\ output = [t \in Threads |-> None]
    /\ calls = 0

-----------------------------------------------------------------------------
(* Guards. *)

\* No thread holds the lock for writing.
Readable(lock) ==
    \A t \in Threads : lock \in held[t] => call[t].kind = "export_prometheus"

\* No thread holds the lock at all.
Writable(lock) == \A t \in Threads : lock \notin held[t]

-----------------------------------------------------------------------------
(* Calls. *)

At(t, kind) == pc[t] = "begin" /\ call[t].kind = kind

Call(t, c) ==
    /\ pc[t] = "idle"
    /\ calls < MaxCalls
    /\ calls' = calls + 1
    /\ pc' = [pc EXCEPT ![t] = "begin"]
    /\ call' = [call EXCEPT ![t] = c]
    /\ UNCHANGED <<values, sample, held, output>>

\* The end of a call drops its guards.
Return(t) ==
    /\ pc' = [pc EXCEPT ![t] = "idle"]
    /\ call' = [call EXCEPT ![t] = None]
    /\ sample' = [sample EXCEPT ![t] = None]
    /\ held' = [held EXCEPT ![t] = {}]
    /\ output' = [output EXCEPT ![t] = None]
    /\ UNCHANGED calls

\* Keep the guard of the value and go on to log the sample.
Log(t, s, lock) ==
    /\ sample' = [sample EXCEPT ![t] = s]
    /\ held' = [held EXCEPT ![t] = {lock}]
    /\ pc' = [pc EXCEPT ![t] = "push"]
    /\ UNCHANGED <<call, output, calls>>

\* For the mutants that drop the guard before the sample is logged.
LogUnlocked(t, s, lock) ==
    /\ sample' = [sample EXCEPT ![t] = s]
    /\ pc' = [pc EXCEPT ![t] = "push"]
    /\ UNCHANGED <<call, held, output, calls>>

\* Mutant: the guard is dropped before the sample is logged, and others slip in.
IncCounterUnlocked(t) ==
    /\ At(t, "inc_counter")
    /\ Writable("counters")
    /\ LET k == call[t].key IN
         /\ counters' = [counters EXCEPT ![k] = @ + 1]
         /\ LogUnlocked(t, [kind |-> "counter", name |-> NameOf[k], value |-> counters[k] + 1],
                        "counters")
    /\ UNCHANGED <<gauges, metrics>>

\* The sample of a counter has its name and drops its labels.
IncCounter(t) ==
    /\ At(t, "inc_counter")
    /\ Writable("counters")
    /\ LET k == call[t].key IN
         /\ counters' = [counters EXCEPT ![k] = @ + 1]
         /\ Log(t, [kind |-> "counter", name |-> NameOf[k], value |-> counters[k] + 1],
                "counters")
    /\ UNCHANGED <<gauges, metrics>>

\* Mutant: the guard is a temporary of the statement that inserts.
SetGaugeUnlocked(t) ==
    /\ At(t, "set_gauge")
    /\ Writable("gauges")
    /\ gauges' = [gauges EXCEPT ![call[t].key] = call[t].value]
    /\ LogUnlocked(t, [kind |-> "gauge", name |-> call[t].key, value |-> call[t].value],
                   "gauges")
    /\ UNCHANGED <<counters, metrics>>

SetGauge(t) ==
    /\ At(t, "set_gauge")
    /\ Writable("gauges")
    /\ gauges' = [gauges EXCEPT ![call[t].key] = call[t].value]
    /\ Log(t, [kind |-> "gauge", name |-> call[t].key, value |-> call[t].value], "gauges")
    /\ UNCHANGED <<counters, metrics>>

\* Mutant: logging a sample takes the counters too.
PushCounting(t) ==
    /\ pc[t] = "push"
    /\ \A u \in Threads \ {t} : "counters" \notin held[u]
    /\ metrics' = Append(metrics, sample[t])
    /\ Return(t)
    /\ UNCHANGED <<counters, gauges>>

Push(t) ==
    /\ pc[t] = "push"
    /\ metrics' = Append(metrics, sample[t])
    /\ Return(t)
    /\ UNCHANGED <<counters, gauges>>

\* Mutant: what was observed is logged as it came, not as a metric.
ObserveHistogramRaw(t) ==
    /\ At(t, "observe_histogram")
    /\ metrics' = Append(metrics, call[t])
    /\ Return(t)
    /\ UNCHANGED <<counters, gauges>>

ObserveHistogram(t) ==
    /\ At(t, "observe_histogram")
    /\ metrics' = Append(metrics, [kind |-> "histogram", name |-> call[t].key,
                                   value |-> call[t].value])
    /\ Return(t)
    /\ UNCHANGED <<counters, gauges>>

\* Mutant: the counters are printed under a guard that is dropped again.
ExportCountersOnly(t) ==
    /\ At(t, "export_prometheus")
    /\ Readable("counters")
    /\ output' = [output EXCEPT ![t] = counters]
    /\ pc' = [pc EXCEPT ![t] = "gauges"]
    /\ UNCHANGED <<values, call, sample, held, calls>>

ExportCounters(t) ==
    /\ At(t, "export_prometheus")
    /\ Readable("counters")
    /\ output' = [output EXCEPT ![t] = counters]
    /\ held' = [held EXCEPT ![t] = {"counters"}]
    /\ pc' = [pc EXCEPT ![t] = "gauges"]
    /\ UNCHANGED <<values, call, sample, calls>>

ExportGauges(t) ==
    /\ pc[t] = "gauges"
    /\ Readable("gauges")
    /\ Return(t)
    /\ UNCHANGED values

GetMetrics(t) ==
    /\ At(t, "get_metrics")
    /\ Return(t)
    /\ UNCHANGED values

\* Counters and gauges keep their values.
Clear(t) ==
    /\ At(t, "clear")
    /\ metrics' = <<>>
    /\ Return(t)
    /\ UNCHANGED <<counters, gauges>>

Proceed(t) ==
    \/ IncCounter(t)
    \/ SetGauge(t)
    \/ Push(t)
    \/ ObserveHistogram(t)
    \/ ExportCounters(t)
    \/ ExportGauges(t)
    \/ GetMetrics(t)
    \/ Clear(t)

Next == \E t \in Threads : Proceed(t) \/ \E c \in Calls : Call(t, c)

Spec == Init /\ [][Next]_vars

\* A thread inside a call goes on, and parking_lot serves a waiting thread in the end.
FairSpec == Spec /\ \A t \in Threads : SF_vars(Proceed(t))

-----------------------------------------------------------------------------
(* Properties *)

\* The counters whose samples can be told from those of the others: labels are
\* not logged.
Alone == {k \in Counters : \A j \in Counters : NameOf[j] = NameOf[k] => j = k}

IsSampleOf(i, kind, name) == metrics[i].kind = kind /\ metrics[i].name = name

\* The samples of a counter grow along the log: no thread can slip in between
\* another's increment and its sample (metrics.rs:83-88).
SamplesInOrder ==
    \A k \in Alone : \A i, j \in DOMAIN metrics :
        i < j /\ IsSampleOf(i, "counter", NameOf[k]) /\ IsSampleOf(j, "counter", NameOf[k])
        => metrics[i].value < metrics[j].value

\* Whoever may read the counters or the gauges finds each of them equal to its last
\* sample in the log.
LastSampleIsCurrent ==
    \A i \in DOMAIN metrics :
        LET latest == \A j \in DOMAIN metrics :
                          j > i => ~IsSampleOf(j, metrics[i].kind, metrics[i].name)
        IN  /\ \A k \in Alone :
                 Readable("counters") /\ latest /\ IsSampleOf(i, "counter", NameOf[k])
                 => metrics[i].value = counters[k]
            /\ \A g \in Gauges :
                 Readable("gauges") /\ latest /\ IsSampleOf(i, "gauge", g)
                 => metrics[i].value = gauges[g]

\* An export is one moment: the counters it has printed are still those of the
\* collector when it comes to the gauges.
ExportIsOneMoment ==
    \A t \in Threads : pc[t] = "gauges" => output[t] = counters

\* No two calls wait for each other: every call returns.
CallsReturn == \A t \in Threads : pc[t] # "idle" ~> pc[t] = "idle"
=============================================================================
