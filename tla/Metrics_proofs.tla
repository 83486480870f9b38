--------------------------- MODULE Metrics_proofs ---------------------------
(***************************************************************************)
(* Theorems about Metrics, for any threads, counters and gauges.  The      *)
(* invariant says what the sample of a pending call is, that guards        *)
(* exclude each other, and, counter by counter, that the last sample is    *)
(* current unless a call on that very counter is about to log the next.    *)
(* Calls that wait for each other do so in one direction only.             *)
(* And about Slo, for any latencies, percentile and number of samples.     *)
(***************************************************************************)
EXTENDS Metrics, Slo, FiniteSetTheorems, SequenceTheorems, WellFoundedInduction, TLAPS

PendingCounter(t) ==
    /\ held[t] = {"counters"}
    /\ call[t] \in Calls /\ call[t].kind = "inc_counter"
    /\ sample[t] = [kind |-> "counter", name |-> NameOf[call[t].key],
                    value |-> counters[call[t].key]]

PendingGauge(t) ==
    /\ held[t] = {"gauges"}
    /\ call[t] \in Calls /\ call[t].kind = "set_gauge"
    /\ sample[t] = [kind |-> "gauge", name |-> call[t].key, value |-> gauges[call[t].key]]
    /\ gauges[call[t].key] \in Values

Locals ==
    \A t \in Threads :
        /\ pc[t] \in {"idle", "begin"} => held[t] = {}
        /\ pc[t] = "begin" => call[t] \in Calls
        /\ pc[t] = "push" => PendingCounter(t) \/ PendingGauge(t)
        /\ pc[t] = "gauges" => held[t] = {"counters"} /\ call[t].kind = "export_prometheus"

\* A guard that is about to log a sample excludes every other guard of its lock.
Exclusion ==
    \A t, u \in Threads : t # u /\ pc[t] = "push" => held[t] \cap held[u] = {}

Pending(t, kind, key) == pc[t] = "push" /\ sample[t].kind = kind /\ call[t].key = key

CountersBoundSamples ==
    \A i \in DOMAIN metrics, k \in Alone : IsSampleOf(i, "counter", NameOf[k]) =>
        /\ metrics[i].value <= counters[k]
        /\ (\E t \in Threads : Pending(t, "counter", k)) => metrics[i].value < counters[k]

Latest(i) ==
    \A j \in DOMAIN metrics : j > i => ~IsSampleOf(j, metrics[i].kind, metrics[i].name)

LastCounters ==
    \A i \in DOMAIN metrics, k \in Alone :
        /\ IsSampleOf(i, "counter", NameOf[k])
        /\ Latest(i)
        /\ \A t \in Threads : ~Pending(t, "counter", k)
        => metrics[i].value = counters[k]

LastGauges ==
    \A i \in DOMAIN metrics, g \in Gauges :
        /\ IsSampleOf(i, "gauge", g)
        /\ Latest(i)
        /\ \A t \in Threads : ~Pending(t, "gauge", g)
        => metrics[i].value = gauges[g]

Inv ==
    /\ TypeOK
    /\ Locals
    /\ Exclusion
    /\ ExportIsOneMoment
    /\ CountersBoundSamples
    /\ SamplesInOrder
    /\ LastCounters
    /\ LastGauges

-----------------------------------------------------------------------------

LEMMA InitInv == Init => Inv
BY BoundAssumption
   DEF Init, Inv, TypeOK, Locals, Exclusion, ExportIsOneMoment, CountersBoundSamples,
       SamplesInOrder, LastCounters, LastGauges

LEMMA CallTypes ==
    ASSUME NEW c \in Calls
    PROVE  /\ c.kind = "inc_counter" => c.key \in Counters
           /\ c.kind \in {"set_gauge", "observe_histogram"} => c.key \in Gauges /\ c.value \in Values
BY DEF Calls

LEMMA SampleTypes ==
    /\ \A k \in Counters, n \in Nat :
         [kind |-> "counter", name |-> NameOf[k], value |-> n] \in Samples
    /\ \A g \in Gauges, v \in Values :
         /\ [kind |-> "gauge", name |-> g, value |-> v] \in Samples
         /\ [kind |-> "histogram", name |-> g, value |-> v] \in Samples
    /\ \A s \in Samples : s.kind = "counter" => s.value \in Nat
BY NameOfAssumption DEF Samples

LEMMA PendingCounterFacts ==
    ASSUME TypeOK, NEW t, PendingCounter(t)
    PROVE  /\ call[t].key \in Counters /\ call[t].kind = "inc_counter"
           /\ "counters" \in held[t]
           /\ sample[t] \in Samples /\ sample[t].kind = "counter"
           /\ sample[t].name = NameOf[call[t].key]
           /\ sample[t].value = counters[call[t].key]
<1>1. call[t].key \in Counters
  BY CallTypes DEF PendingCounter
<1>2. sample[t] \in Samples
  BY <1>1, SampleTypes DEF PendingCounter, TypeOK
<1> QED
  BY <1>1, <1>2 DEF PendingCounter

LEMMA PendingGaugeFacts ==
    ASSUME NEW t, PendingGauge(t)
    PROVE  /\ call[t].key \in Gauges /\ call[t].kind = "set_gauge"
           /\ "gauges" \in held[t]
           /\ sample[t] \in Samples /\ sample[t].kind = "gauge"
           /\ sample[t].name = call[t].key
           /\ sample[t].value = gauges[call[t].key]
<1>1. call[t].key \in Gauges
  BY CallTypes DEF PendingGauge
<1>2. sample[t] \in Samples
  BY <1>1, SampleTypes DEF PendingGauge
<1> QED
  BY <1>1, <1>2 DEF PendingGauge

LEMMA AppendFacts ==
    ASSUME NEW S, NEW seq \in Seq(S), NEW x \in S
    PROVE  /\ Append(seq, x) \in Seq(S)
           /\ Len(seq) \in Nat /\ DOMAIN seq = 1 .. Len(seq)
           /\ DOMAIN Append(seq, x) = 1 .. Len(seq) + 1
           /\ \A i \in DOMAIN seq : i \in DOMAIN Append(seq, x) /\ Append(seq, x)[i] = seq[i]
           /\ Append(seq, x)[Len(seq) + 1] = x
OBVIOUS

LEMMA TypeStep == Inv /\ [Next]_vars => TypeOK'
<1> SUFFICES ASSUME Inv, [Next]_vars PROVE TypeOK'
  OBVIOUS
<1> USE DEF TypeOK, values, locals
<1>0. TypeOK /\ Locals
  BY DEF Inv
<1>1. ASSUME NEW t \in Threads, NEW c \in Calls, Call(t, c) PROVE TypeOK'
  BY <1>0, <1>1, BoundAssumption DEF Call
<1>2. ASSUME NEW t \in Threads, IncCounter(t) PROVE TypeOK'
  <2>1. call[t].key \in Counters
    BY <1>0, <1>2, CallTypes DEF IncCounter, At, Locals
  <2>2. counters[call[t].key] + 1 \in Nat
    BY <1>0, <2>1
  <2> QED
    BY <1>0, <1>2, <2>1, <2>2, SampleTypes DEF IncCounter, Log, Locks
<1>3. ASSUME NEW t \in Threads, SetGauge(t) PROVE TypeOK'
  <2>1. call[t].key \in Gauges /\ call[t].value \in Values
    BY <1>0, <1>3, CallTypes DEF SetGauge, At, Locals
  <2> QED
    BY <1>0, <1>3, <2>1, SampleTypes DEF SetGauge, Log, Locks
<1>4. ASSUME NEW t \in Threads, Push(t) PROVE TypeOK'
  <2>1. sample[t] \in Samples
    BY <1>0, <1>4, PendingCounterFacts, PendingGaugeFacts DEF Push, Locals
  <2> QED
    BY <1>0, <1>4, <2>1, AppendFacts DEF Push, Return
<1>5. ASSUME NEW t \in Threads, ObserveHistogram(t) PROVE TypeOK'
  <2>1. call[t].key \in Gauges /\ call[t].value \in Values
    BY <1>0, <1>5, CallTypes DEF ObserveHistogram, At, Locals
  <2>2. [kind |-> "histogram", name |-> call[t].key, value |-> call[t].value] \in Samples
    BY <2>1, SampleTypes
  <2> QED
    BY <1>0, <1>5, <2>2, AppendFacts DEF ObserveHistogram, Return
<1>6. ASSUME NEW t \in Threads, ExportCounters(t) PROVE TypeOK'
  BY <1>0, <1>6 DEF ExportCounters, Locks
<1>7. ASSUME NEW t \in Threads, ExportGauges(t) PROVE TypeOK'
  BY <1>0, <1>7 DEF ExportGauges, Return
<1>8. ASSUME NEW t \in Threads, GetMetrics(t) PROVE TypeOK'
  BY <1>0, <1>8 DEF GetMetrics, Return
<1>9. ASSUME NEW t \in Threads, Clear(t) PROVE TypeOK'
  BY <1>0, <1>9 DEF Clear, Return
<1>10. CASE UNCHANGED vars
  BY <1>0, <1>10 DEF vars
<1> QED
  BY <1>1, <1>2, <1>3, <1>4, <1>5, <1>6, <1>7, <1>8, <1>9, <1>10 DEF Next, Proceed
\* What logging does to the pending calls and to the guards.
LEMMA GuardsStep ==
    Inv /\ TypeOK' /\ [Next]_vars => Locals' /\ Exclusion' /\ ExportIsOneMoment'
<1> SUFFICES ASSUME Inv, TypeOK', [Next]_vars
             PROVE  Locals' /\ Exclusion' /\ ExportIsOneMoment'
  OBVIOUS
<1> DEFINE Goal == Locals' /\ Exclusion' /\ ExportIsOneMoment'
<1> USE DEF values, locals
<1>0. TypeOK /\ Locals /\ Exclusion /\ ExportIsOneMoment
  BY DEF Inv
<1>a. ASSUME NEW t \in Threads, Return(t), UNCHANGED <<counters, gauges>> PROVE Goal
  <2>1. /\ pc'[t] = "idle" /\ held'[t] = {}
        /\ \A u \in Threads \ {t} :
             UNCHANGED <<pc[u], call[u], sample[u], held[u], output[u]>>
    BY <1>0, <1>a DEF Return, TypeOK
  <2>2. Locals'
    BY <1>0, <1>a, <2>1 DEF Locals, PendingCounter, PendingGauge
  <2>3. Exclusion' /\ ExportIsOneMoment'
    BY <1>0, <1>a, <2>1 DEF Exclusion, ExportIsOneMoment
  <2> QED
    BY <2>2, <2>3
<1>1. ASSUME NEW t \in Threads, NEW c \in Calls, Call(t, c) PROVE Goal
  <2>1. /\ pc'[t] = "begin" /\ call'[t] = c /\ held'[t] = {} /\ held' = held
        /\ \A u \in Threads \ {t} : UNCHANGED <<pc[u], call[u], sample[u], output[u]>>
    BY <1>0, <1>1 DEF Call, TypeOK, Locals
  <2>2. UNCHANGED <<counters, gauges>>
    BY <1>1 DEF Call
  <2>3. Locals'
    BY <1>0, <2>1, <2>2 DEF Locals, PendingCounter, PendingGauge
  <2> QED
    BY <1>0, <2>1, <2>2, <2>3 DEF Exclusion, ExportIsOneMoment
<1>2. ASSUME NEW t \in Threads, IncCounter(t) PROVE Goal
  <2>1. call[t].key \in Counters /\ call[t] \in Calls /\ call[t].kind = "inc_counter"
    BY <1>0, <1>2, CallTypes DEF IncCounter, At, Locals
  <2>2. /\ pc'[t] = "push" /\ held'[t] = {"counters"} /\ call' = call
        /\ counters'[call[t].key] = counters[call[t].key] + 1
        /\ sample'[t] = [kind |-> "counter", name |-> NameOf[call[t].key],
                         value |-> counters[call[t].key] + 1]
        /\ \A u \in Threads \ {t} : UNCHANGED <<pc[u], sample[u], held[u], output[u]>>
        /\ gauges' = gauges
    BY <1>0, <1>2, <2>1 DEF IncCounter, Log, TypeOK
  <2>3. \A u \in Threads : "counters" \notin held[u]
    BY <1>2 DEF IncCounter, Writable
  <2>4. PendingCounter(t)'
    BY <2>1, <2>2 DEF PendingCounter
  <2>5. ASSUME NEW u \in Threads \ {t}, pc[u] = "push" PROVE PendingGauge(u)'
    BY <1>0, <2>2, <2>3, <2>5 DEF Locals, PendingCounter, PendingGauge
  <2>6. ASSUME NEW u \in Threads PROVE pc[u] # "gauges"
    BY <1>0, <2>3 DEF Locals
  <2>7. Locals'
    BY <1>0, <2>2, <2>4, <2>5, <2>6 DEF Locals
  <2>8. Exclusion'
    <3> SUFFICES ASSUME NEW u \in Threads, NEW w \in Threads, u # w, pc'[u] = "push"
                 PROVE  held'[u] \cap held'[w] = {}
      BY DEF Exclusion
    <3> QED
      BY <1>0, <2>2, <2>3 DEF Exclusion
  <2>9. ExportIsOneMoment'
    BY <2>2, <2>6 DEF ExportIsOneMoment
  <2> QED
    BY <2>7, <2>8, <2>9
<1>3. ASSUME NEW t \in Threads, SetGauge(t) PROVE Goal
  <2>1. /\ call[t].key \in Gauges /\ call[t].value \in Values
        /\ call[t] \in Calls /\ call[t].kind = "set_gauge"
    BY <1>0, <1>3, CallTypes DEF SetGauge, At, Locals
  <2>2. /\ pc'[t] = "push" /\ held'[t] = {"gauges"} /\ call' = call
        /\ gauges'[call[t].key] = call[t].value
        /\ sample'[t] = [kind |-> "gauge", name |-> call[t].key, value |-> call[t].value]
        /\ \A u \in Threads \ {t} : UNCHANGED <<pc[u], sample[u], held[u], output[u]>>
        /\ counters' = counters
    BY <1>0, <1>3, <2>1 DEF SetGauge, Log, TypeOK
  <2>3. \A u \in Threads : "gauges" \notin held[u]
    BY <1>3 DEF SetGauge, Writable
  <2>4. PendingGauge(t)'
    BY <2>1, <2>2 DEF PendingGauge
  <2>5. ASSUME NEW u \in Threads \ {t}, pc[u] = "push" PROVE PendingCounter(u)'
    BY <1>0, <2>2, <2>3, <2>5 DEF Locals, PendingCounter, PendingGauge
  <2>6. pc[t] = "begin"
    BY <1>3 DEF SetGauge, At
  <2>7. Locals'
    BY <1>0, <2>2, <2>4, <2>5 DEF Locals
  <2>8. Exclusion'
    <3> SUFFICES ASSUME NEW u \in Threads, NEW w \in Threads, u # w, pc'[u] = "push"
                 PROVE  held'[u] \cap held'[w] = {}
      BY DEF Exclusion
    <3> QED
      BY <1>0, <2>2, <2>3 DEF Exclusion
  <2>9. ExportIsOneMoment'
    BY <1>0, <2>2, <2>6 DEF ExportIsOneMoment
  <2> QED
    BY <2>7, <2>8, <2>9
<1>4. ASSUME NEW t \in Threads, Push(t) PROVE Goal
  BY <1>a, <1>4 DEF Push
<1>5. ASSUME NEW t \in Threads, ObserveHistogram(t) PROVE Goal
  BY <1>a, <1>5 DEF ObserveHistogram
<1>6. ASSUME NEW t \in Threads, ExportCounters(t) PROVE Goal
  <2>1. /\ pc'[t] = "gauges" /\ held'[t] = {"counters"} /\ output'[t] = counters
        /\ call[t].kind = "export_prometheus"
        /\ \A u \in Threads \ {t} : UNCHANGED <<pc[u], held[u], output[u]>>
        /\ UNCHANGED <<counters, gauges, call, sample>>
    BY <1>0, <1>6 DEF ExportCounters, At, TypeOK
  <2>2. Locals' /\ ExportIsOneMoment'
    BY <1>0, <2>1 DEF Locals, PendingCounter, PendingGauge, ExportIsOneMoment
  <2>3. ASSUME NEW u \in Threads, pc[u] = "push" PROVE held[u] = {"gauges"}
    <3>1. ~PendingCounter(u)
      BY <1>6 DEF ExportCounters, Readable, PendingCounter
    <3> QED
      BY <1>0, <2>3, <3>1 DEF Locals, PendingGauge
  <2>4. Exclusion'
    <3> SUFFICES ASSUME NEW u \in Threads, NEW w \in Threads, u # w, pc'[u] = "push"
                 PROVE  held'[u] \cap held'[w] = {}
      BY DEF Exclusion
    <3>1. u # t /\ held'[u] = {"gauges"}
      BY <2>1, <2>3
    <3> QED
      BY <1>0, <2>1, <3>1 DEF Exclusion
  <2> QED
    BY <2>2, <2>4
<1>7. ASSUME NEW t \in Threads, ExportGauges(t) PROVE Goal
  BY <1>a, <1>7 DEF ExportGauges
<1>8. ASSUME NEW t \in Threads, GetMetrics(t) PROVE Goal
  BY <1>a, <1>8 DEF GetMetrics
<1>9. ASSUME NEW t \in Threads, Clear(t) PROVE Goal
  BY <1>a, <1>9 DEF Clear
<1>10. CASE UNCHANGED vars
  BY <1>0, <1>10
     DEF vars, Locals, PendingCounter, PendingGauge, Exclusion, ExportIsOneMoment
<1> QED
  BY <1>1, <1>2, <1>3, <1>4, <1>5, <1>6, <1>7, <1>8, <1>9, <1>10 DEF Next, Proceed
LogInv == CountersBoundSamples /\ SamplesInOrder /\ LastCounters /\ LastGauges

\* A step that leaves the values, the log and the pending calls alone.
LEMMA LogAside ==
    ASSUME LogInv, UNCHANGED values,
           \A t \in Threads : pc'[t] = "push" <=> pc[t] = "push",
           \A t \in Threads : pc[t] = "push" => UNCHANGED <<sample[t], call[t]>>
    PROVE  LogInv'
<1>1. \A t \in Threads : \A kind, key : Pending(t, kind, key)' <=> Pending(t, kind, key)
  BY DEF Pending
<1> QED
  BY <1>1 DEF LogInv, values, CountersBoundSamples, SamplesInOrder, LastCounters, LastGauges,
              Latest, IsSampleOf

LEMMA LogIncrement ==
    ASSUME Inv, NEW t \in Threads, IncCounter(t) PROVE LogInv'
<1>0. TypeOK /\ Locals /\ LogInv
  BY DEF Inv, LogInv
<1> DEFINE k0 == call[t].key
<1>1. k0 \in Counters
  BY <1>0, CallTypes DEF IncCounter, At, Locals
<1>2. /\ counters' = [counters EXCEPT ![k0] = counters[k0] + 1]
      /\ pc[t] # "push" /\ pc'[t] = "push" /\ call' = call
      /\ sample'[t].kind = "counter"
      /\ \A u \in Threads \ {t} : UNCHANGED <<pc[u], sample[u]>>
      /\ UNCHANGED <<gauges, metrics>>
  BY <1>0 DEF IncCounter, At, Log, TypeOK
<1>3. \A u \in Threads : \A kind, key :
         Pending(u, kind, key)' <=> Pending(u, kind, key) \/ (u = t /\ kind = "counter" /\ key = k0)
  BY <1>2 DEF Pending
<1>4. \A i \in DOMAIN metrics, k \in Alone :
         IsSampleOf(i, "counter", NameOf[k]) => metrics[i].value \in Nat
  BY <1>0, SampleTypes DEF TypeOK, IsSampleOf
<1>5. CountersBoundSamples'
  <2> SUFFICES ASSUME NEW i \in DOMAIN metrics, NEW k \in Alone,
                      IsSampleOf(i, "counter", NameOf[k])
               PROVE  /\ metrics[i].value <= counters'[k]
                      /\ (\E u \in Threads : Pending(u, "counter", k)')
                         => metrics[i].value < counters'[k]
    BY <1>2 DEF CountersBoundSamples, IsSampleOf
  <2>1. k \in Counters /\ counters[k] \in Nat /\ metrics[i].value \in Nat
        /\ metrics[i].value <= counters[k]
        /\ ((\E u \in Threads : Pending(u, "counter", k)) => metrics[i].value < counters[k])
    BY <1>0, <1>4 DEF Alone, TypeOK, LogInv, CountersBoundSamples
  <2>2. CASE k = k0
    <3>1. counters'[k] = counters[k] + 1
      BY <1>0, <1>2, <2>1, <2>2 DEF TypeOK
    <3> QED
      BY <2>1, <3>1
  <2>3. CASE k # k0
    <3>1. counters'[k] = counters[k]
      BY <1>0, <1>2, <2>1, <2>3 DEF TypeOK
    <3> QED
      BY <1>3, <2>1, <2>3, <3>1
  <2> QED
    BY <2>2, <2>3
<1>6. SamplesInOrder'
  BY <1>0, <1>2 DEF LogInv, SamplesInOrder, IsSampleOf
<1>7. LastCounters'
  <2> SUFFICES ASSUME NEW i \in DOMAIN metrics, NEW k \in Alone,
                      IsSampleOf(i, "counter", NameOf[k]), Latest(i),
                      \A u \in Threads : ~Pending(u, "counter", k)'
               PROVE  metrics[i].value = counters'[k]
    BY <1>2 DEF LastCounters, IsSampleOf, Latest
  <2>1. k # k0 /\ \A u \in Threads : ~Pending(u, "counter", k)
    BY <1>3
  <2>2. counters'[k] = counters[k]
    BY <1>0, <1>2, <2>1 DEF Alone, TypeOK
  <2> QED
    BY <1>0, <2>1, <2>2 DEF LogInv, LastCounters
<1>8. LastGauges'
  BY <1>0, <1>2, <1>3 DEF LogInv, LastGauges, IsSampleOf, Latest
<1> QED
  BY <1>5, <1>6, <1>7, <1>8 DEF LogInv

LEMMA LogSetGauge ==
    ASSUME Inv, NEW t \in Threads, SetGauge(t) PROVE LogInv'
<1>0. TypeOK /\ Locals /\ LogInv
  BY DEF Inv, LogInv
<1> DEFINE g0 == call[t].key
<1>1. g0 \in Gauges
  BY <1>0, CallTypes DEF SetGauge, At, Locals
<1>2. /\ gauges' = [gauges EXCEPT ![g0] = call[t].value]
      /\ pc[t] # "push" /\ pc'[t] = "push" /\ call' = call
      /\ sample'[t].kind = "gauge"
      /\ \A u \in Threads \ {t} : UNCHANGED <<pc[u], sample[u]>>
      /\ UNCHANGED <<counters, metrics>>
  BY <1>0 DEF SetGauge, At, Log, TypeOK
<1>3. \A u \in Threads : \A kind, key :
         Pending(u, kind, key)' <=> Pending(u, kind, key) \/ (u = t /\ kind = "gauge" /\ key = g0)
  BY <1>2 DEF Pending
<1>4. CountersBoundSamples'
  BY <1>0, <1>2, <1>3 DEF LogInv, CountersBoundSamples, IsSampleOf
<1>5. SamplesInOrder'
  BY <1>0, <1>2 DEF LogInv, SamplesInOrder, IsSampleOf
<1>6. LastCounters'
  BY <1>0, <1>2, <1>3 DEF LogInv, LastCounters, IsSampleOf, Latest
<1>7. LastGauges'
  <2> SUFFICES ASSUME NEW i \in DOMAIN metrics, NEW g \in Gauges,
                      IsSampleOf(i, "gauge", g), Latest(i),
                      \A u \in Threads : ~Pending(u, "gauge", g)'
               PROVE  metrics[i].value = gauges'[g]
    BY <1>2 DEF LastGauges, IsSampleOf, Latest
  <2>1. g # g0 /\ \A u \in Threads : ~Pending(u, "gauge", g)
    BY <1>3
  <2>2. gauges'[g] = gauges[g]
    BY <1>0, <1>2, <2>1 DEF TypeOK
  <2> QED
    BY <1>0, <2>1, <2>2 DEF LogInv, LastGauges
<1> QED
  BY <1>4, <1>5, <1>6, <1>7 DEF LogInv

\* Logging a sample of anything: what it must be for the invariant to go on.
LEMMA LogAppend ==
    ASSUME Inv, NEW x \in Samples, metrics' = Append(metrics, x), UNCHANGED <<counters, gauges>>,
           NEW t \in Threads, pc'[t] # "push",
           \A u \in Threads \ {t} : UNCHANGED <<pc[u], sample[u], call[u]>>,
           \A k \in Alone : x.kind = "counter" /\ x.name = NameOf[k] =>
               Pending(t, "counter", k) /\ x.value = counters[k],
           \A k \in Alone : Pending(t, "counter", k) => x.kind = "counter" /\ x.name = NameOf[k],
           \A g \in Gauges : x.kind = "gauge" /\ x.name = g =>
               Pending(t, "gauge", g) /\ x.value = gauges[g],
           \A g \in Gauges : Pending(t, "gauge", g) => x.kind = "gauge" /\ x.name = g,
           \A k \in Alone : \A u \in Threads \ {t} :
               Pending(t, "counter", k) => ~Pending(u, "counter", k)
    PROVE  LogInv'
<1>0. TypeOK /\ LogInv
  BY DEF Inv, LogInv
<1> DEFINE n == Len(metrics)
<1>1. /\ n \in Nat /\ DOMAIN metrics = 1 .. n /\ DOMAIN metrics' = 1 .. n + 1
      /\ \A i \in DOMAIN metrics : i \in DOMAIN metrics' /\ metrics'[i] = metrics[i]
      /\ metrics'[n + 1] = x
  BY <1>0, AppendFacts DEF TypeOK
<1>2. \A u \in Threads : \A kind, key :
         Pending(u, kind, key)' <=> u # t /\ Pending(u, kind, key)
  BY DEF Pending
<1>3. \A i \in DOMAIN metrics' : i \in DOMAIN metrics \/ i = n + 1
  BY <1>1
<1>4. \A i \in DOMAIN metrics : \A kind, name : IsSampleOf(i, kind, name)' <=> IsSampleOf(i, kind, name)
  BY <1>1 DEF IsSampleOf
<1>5. \A i, kind, name :
         i = n + 1 => (IsSampleOf(i, kind, name)' <=> x.kind = kind /\ x.name = name)
  BY <1>1 DEF IsSampleOf
<1>6. \A k \in Alone : counters[k] \in Nat
  BY <1>0 DEF Alone, TypeOK
<1>7. \A i \in DOMAIN metrics : Latest(i)' =>
         Latest(i) /\ ~(x.kind = metrics[i].kind /\ x.name = metrics[i].name)
  <2> SUFFICES ASSUME NEW i \in DOMAIN metrics, Latest(i)'
               PROVE  Latest(i) /\ ~(x.kind = metrics[i].kind /\ x.name = metrics[i].name)
    OBVIOUS
  <2>1. metrics'[i] = metrics[i] /\ n + 1 \in DOMAIN metrics' /\ n + 1 > i
    BY <1>1
  <2>2. ~(x.kind = metrics[i].kind /\ x.name = metrics[i].name)
    BY <1>1, <2>1 DEF Latest, IsSampleOf
  <2>3. ASSUME NEW j \in DOMAIN metrics, j > i
        PROVE  ~IsSampleOf(j, metrics[i].kind, metrics[i].name)
    BY <1>1, <2>1, <2>3 DEF Latest, IsSampleOf
  <2> QED
    BY <2>2, <2>3 DEF Latest
<1>8. CountersBoundSamples'
  <2> SUFFICES ASSUME NEW i \in DOMAIN metrics', NEW k \in Alone,
                      IsSampleOf(i, "counter", NameOf[k])'
               PROVE  /\ metrics'[i].value <= counters[k]
                      /\ (\E u \in Threads : Pending(u, "counter", k)')
                         => metrics'[i].value < counters[k]
    BY DEF CountersBoundSamples
  <2>1. CASE i \in DOMAIN metrics
    BY <1>0, <1>1, <1>2, <1>4, <2>1 DEF LogInv, CountersBoundSamples
  <2>2. CASE i = n + 1
    BY <1>1, <1>2, <1>5, <1>6, <2>2
  <2> QED
    BY <1>3, <2>1, <2>2
<1>9. SamplesInOrder'
  <2> SUFFICES ASSUME NEW k \in Alone, NEW i \in DOMAIN metrics', NEW j \in DOMAIN metrics',
                      i < j, IsSampleOf(i, "counter", NameOf[k])',
                      IsSampleOf(j, "counter", NameOf[k])'
               PROVE  metrics'[i].value < metrics'[j].value
    BY DEF SamplesInOrder
  <2>1. i \in DOMAIN metrics
    BY <1>1
  <2>2. CASE j \in DOMAIN metrics
    BY <1>0, <1>1, <1>4, <2>1, <2>2 DEF LogInv, SamplesInOrder
  <2>3. CASE j = n + 1
    <3>1. Pending(t, "counter", k) /\ metrics'[j].value = counters[k]
      BY <1>1, <1>5, <2>3
    <3>2. metrics[i].value < counters[k]
      BY <1>0, <1>4, <2>1, <3>1 DEF LogInv, CountersBoundSamples
    <3> QED
      BY <1>1, <2>1, <3>1, <3>2
  <2> QED
    BY <1>3, <2>2, <2>3
<1>10. LastCounters'
  <2> SUFFICES ASSUME NEW i \in DOMAIN metrics', NEW k \in Alone,
                      IsSampleOf(i, "counter", NameOf[k])', Latest(i)',
                      \A u \in Threads : ~Pending(u, "counter", k)'
               PROVE  metrics'[i].value = counters[k]
    BY DEF LastCounters
  <2>1. CASE i \in DOMAIN metrics
    <3>1. IsSampleOf(i, "counter", NameOf[k]) /\ Latest(i)
          /\ ~(x.kind = "counter" /\ x.name = NameOf[k])
      BY <1>4, <1>7, <2>1 DEF IsSampleOf
    <3>2. \A u \in Threads : ~Pending(u, "counter", k)
      BY <1>2, <3>1
    <3> QED
      BY <1>0, <1>1, <2>1, <3>1, <3>2 DEF LogInv, LastCounters
  <2>2. CASE i = n + 1
    BY <1>1, <1>5, <2>2
  <2> QED
    BY <1>3, <2>1, <2>2
<1>11. LastGauges'
  <2> SUFFICES ASSUME NEW i \in DOMAIN metrics', NEW g \in Gauges,
                      IsSampleOf(i, "gauge", g)', Latest(i)',
                      \A u \in Threads : ~Pending(u, "gauge", g)'
               PROVE  metrics'[i].value = gauges[g]
    BY DEF LastGauges
  <2>1. CASE i \in DOMAIN metrics
    <3>1. IsSampleOf(i, "gauge", g) /\ Latest(i)
          /\ ~(x.kind = "gauge" /\ x.name = g)
      BY <1>4, <1>7, <2>1 DEF IsSampleOf
    <3>2. \A u \in Threads : ~Pending(u, "gauge", g)
      BY <1>2, <3>1
    <3> QED
      BY <1>0, <1>1, <2>1, <3>1, <3>2 DEF LogInv, LastGauges
  <2>2. CASE i = n + 1
    BY <1>1, <1>5, <2>2
  <2> QED
    BY <1>3, <2>1, <2>2
<1> QED
  BY <1>8, <1>9, <1>10, <1>11 DEF LogInv

LEMMA LogStep == Inv /\ [Next]_vars => LogInv'
<1> SUFFICES ASSUME Inv, [Next]_vars PROVE LogInv'
  OBVIOUS
<1>0. TypeOK /\ Locals /\ Exclusion /\ LogInv
  BY DEF Inv, LogInv
<1>a. ASSUME NEW t \in Threads, Return(t), pc[t] # "push", UNCHANGED values PROVE LogInv'
  <2>1. pc'[t] = "idle"
        /\ \A u \in Threads \ {t} : UNCHANGED <<pc[u], sample[u], call[u]>>
    BY <1>0, <1>a DEF Return, TypeOK
  <2> QED
    BY <1>0, <1>a, <2>1, LogAside
<1>1. ASSUME NEW t \in Threads, NEW c \in Calls, Call(t, c) PROVE LogInv'
  <2>1. /\ pc[t] = "idle" /\ pc'[t] = "begin" /\ UNCHANGED <<values, sample>>
        /\ \A u \in Threads \ {t} : UNCHANGED <<pc[u], call[u]>>
    BY <1>0, <1>1 DEF Call, TypeOK
  <2> QED
    BY <1>0, <2>1, LogAside
<1>2. ASSUME NEW t \in Threads, IncCounter(t) PROVE LogInv'
  BY <1>2, LogIncrement
<1>3. ASSUME NEW t \in Threads, SetGauge(t) PROVE LogInv'
  BY <1>3, LogSetGauge
<1>4. ASSUME NEW t \in Threads, Push(t) PROVE LogInv'
  <2>1. /\ pc[t] = "push" /\ pc'[t] # "push"
        /\ \A u \in Threads \ {t} : UNCHANGED <<pc[u], sample[u], call[u]>>
        /\ metrics' = Append(metrics, sample[t]) /\ UNCHANGED <<counters, gauges>>
    BY <1>0, <1>4 DEF Push, Return, TypeOK
  <2>2. CASE PendingCounter(t)
    <3>2. /\ call[t].key \in Counters
          /\ sample[t] \in Samples /\ sample[t].kind = "counter"
          /\ sample[t].name = NameOf[call[t].key]
          /\ sample[t].value = counters[call[t].key]
      BY <1>0, <2>2, PendingCounterFacts
    <3>3. \A k \in Alone : NameOf[call[t].key] = NameOf[k] => call[t].key = k
      BY <3>2 DEF Alone
    <3>4. \A k \in Alone : \A u \in Threads \ {t} : ~Pending(u, "counter", k)
      <4> SUFFICES ASSUME NEW u \in Threads \ {t}, pc[u] = "push", sample[u].kind = "counter"
                   PROVE  FALSE
        BY DEF Pending
      <4>1. "counters" \in held[u] /\ "counters" \in held[t]
        BY <1>0, <2>2, PendingCounterFacts, PendingGaugeFacts DEF Locals
      <4> QED
        BY <1>0, <2>1, <4>1 DEF Exclusion
    <3> QED
      BY <2>1, <3>2, <3>3, <3>4, LogAppend DEF Pending
  <2>3. CASE PendingGauge(t)
    <3>2. /\ sample[t] \in Samples /\ sample[t].kind = "gauge"
          /\ sample[t].name = call[t].key
          /\ sample[t].value = gauges[call[t].key]
      BY <2>3, PendingGaugeFacts
    <3> QED
      BY <2>1, <3>2, LogAppend DEF Pending
  <2> QED
    BY <1>0, <2>1, <2>2, <2>3 DEF Locals
<1>5. ASSUME NEW t \in Threads, ObserveHistogram(t) PROVE LogInv'
  <2> DEFINE x == [kind |-> "histogram", name |-> call[t].key, value |-> call[t].value]
  <2>1. /\ pc[t] = "begin" /\ pc'[t] # "push"
        /\ \A u \in Threads \ {t} : UNCHANGED <<pc[u], sample[u], call[u]>>
        /\ metrics' = Append(metrics, x) /\ UNCHANGED <<counters, gauges>>
    BY <1>0, <1>5 DEF ObserveHistogram, At, Return, TypeOK
  <2>2. call[t].key \in Gauges /\ call[t].value \in Values
    BY <1>0, <1>5, CallTypes DEF ObserveHistogram, At, Locals
  <2>3. x \in Samples /\ x.kind = "histogram"
    BY <2>2, SampleTypes
  <2> HIDE DEF x
  <2> QED
    BY <2>1, <2>3, LogAppend DEF Pending
<1>6. ASSUME NEW t \in Threads, ExportCounters(t) PROVE LogInv'
  <2>1. /\ pc[t] = "begin" /\ pc'[t] = "gauges" /\ UNCHANGED <<values, sample, call>>
        /\ \A u \in Threads \ {t} : UNCHANGED pc[u]
    BY <1>0, <1>6 DEF ExportCounters, At, TypeOK
  <2> QED
    BY <1>0, <2>1, LogAside
<1>7. ASSUME NEW t \in Threads, ExportGauges(t) PROVE LogInv'
  BY <1>a, <1>7 DEF ExportGauges
<1>8. ASSUME NEW t \in Threads, GetMetrics(t) PROVE LogInv'
  BY <1>a, <1>8 DEF GetMetrics, At
<1>9. ASSUME NEW t \in Threads, Clear(t) PROVE LogInv'
  BY <1>9 DEF Clear, LogInv, CountersBoundSamples, SamplesInOrder, LastCounters, LastGauges
<1>10. CASE UNCHANGED vars
  BY <1>0, <1>10, LogAside DEF vars, locals
<1> QED
  BY <1>1, <1>2, <1>3, <1>4, <1>5, <1>6, <1>7, <1>8, <1>9, <1>10 DEF Next, Proceed

LEMMA InvHolds == Spec => []Inv
<1>1. Inv /\ [Next]_vars => Inv'
  BY TypeStep, GuardsStep, LogStep DEF Inv, LogInv
<1> QED
  BY <1>1, InitInv, PTL DEF Spec

-----------------------------------------------------------------------------
(* Theorems *)

\* The values, the log and the locals of every call stay well-typed.
THEOREM TypeCorrect == Spec => []TypeOK
<1>1. Inv => TypeOK
  BY DEF Inv
<1> QED
  BY <1>1, InvHolds, PTL

\* Along the log the samples of a counter grow, however many threads count.
THEOREM SamplesAreOrdered == Spec => []SamplesInOrder
<1>1. Inv => SamplesInOrder
  BY DEF Inv
<1> QED
  BY <1>1, InvHolds, PTL

\* Who may read a value finds it in the log.
THEOREM LogIsCurrent == Spec => []LastSampleIsCurrent
<1>1. Inv => LastSampleIsCurrent
  <2> SUFFICES ASSUME Inv, NEW i \in DOMAIN metrics, Latest(i)
               PROVE  /\ \A k \in Alone :
                           Readable("counters") /\ IsSampleOf(i, "counter", NameOf[k])
                           => metrics[i].value = counters[k]
                      /\ \A g \in Gauges :
                           Readable("gauges") /\ IsSampleOf(i, "gauge", g)
                           => metrics[i].value = gauges[g]
    BY DEF LastSampleIsCurrent, Latest
  <2>1. ASSUME Readable("counters"), NEW t \in Threads, NEW k
        PROVE  ~Pending(t, "counter", k)
    BY <2>1, PendingCounterFacts, PendingGaugeFacts DEF Inv, Locals, Readable, Pending
  <2>2. ASSUME Readable("gauges"), NEW t \in Threads, NEW g
        PROVE  ~Pending(t, "gauge", g)
    BY <2>2, PendingCounterFacts, PendingGaugeFacts DEF Inv, Locals, Readable, Pending
  <2> QED
    BY <2>1, <2>2 DEF Inv, LastCounters, LastGauges
<1> QED
  BY <1>1, InvHolds, PTL

\* The counters of an export have not moved when its gauges are read.
THEOREM ExportsAreMoments == Spec => []ExportIsOneMoment
<1>1. Inv => ExportIsOneMoment
  BY DEF Inv
<1> QED
  BY <1>1, InvHolds, PTL

-----------------------------------------------------------------------------
(* Calls do not block each other for good: the part of CallsReturn that is *)
(* about states.                                                           *)

\* u holds a guard that t cannot go on without.  export_prometheus only reads, so
\* it waits for writers alone.
Blocks(u, t, lock) ==
    /\ lock \in held[u]
    /\ \/ lock = "counters" /\ At(t, "inc_counter")
       \/ lock = "gauges" /\ At(t, "set_gauge")
       \/ /\ call[u].kind # "export_prometheus"
          /\ \/ lock = "counters" /\ At(t, "export_prometheus")
             \/ lock = "gauges" /\ pc[t] = "gauges"

WaitsFor(t, u) == \E lock \in Locks : Blocks(u, t, lock)

InCall == {t \in Threads : pc[t] # "idle"}

\* The next lock that the call of t asks for, if any, is free.
MayGoOn(t) ==
    /\ At(t, "inc_counter") => Writable("counters")
    /\ At(t, "set_gauge") => Writable("gauges")
    /\ At(t, "export_prometheus") => Readable("counters")
    /\ pc[t] = "gauges" => Readable("gauges")

\* Among any threads inside a call one waits for none of the others, and a thread
\* that waits for nobody finds its lock free: no circle of calls waits for each
\* other, though a chain may (set_gauge holds the gauges, an export waits for them
\* with the counters in its hands, and inc_counter waits for those).
NoCircleOfWaits ==
    /\ \A W \in SUBSET InCall : W # {} => \E t \in W : \A u \in W : ~WaitsFor(t, u)
    /\ \A t \in InCall : MayGoOn(t) \/ \E u \in InCall : WaitsFor(t, u)

\* A thread that waits does not go on, and none waits for itself: no call asks for a
\* lock while it holds a guard of it.
WaitingThreadsStay == [][\A t, u \in Threads : WaitsFor(t, u) => t # u /\ ~Proceed(t)]_vars

\* Only a call that is about to log its sample holds a guard that an export waits for.
LEMMA Holders ==
    ASSUME Inv, NEW t \in Threads, NEW u \in Threads, WaitsFor(t, u)
    PROVE  /\ t # u /\ pc[u] \in {"push", "gauges"} /\ pc[t] \in {"begin", "gauges"}
           /\ pc[t] = "gauges" => pc[u] = "push"
<1>1. TypeOK /\ Locals
  BY DEF Inv
<1>2. /\ pc[t] \in {"idle", "begin", "push", "gauges"} /\ pc[u] \in {"idle", "begin", "push", "gauges"}
      /\ pc[t] \in {"idle", "begin"} => held[t] = {}
      /\ pc[u] \in {"idle", "begin"} => held[u] = {}
      /\ pc[u] = "gauges" => held[u] = {"counters"} /\ call[u].kind = "export_prometheus"
      /\ pc[t] = "gauges" => held[t] = {"counters"}
  BY <1>1 DEF TypeOK, Locals
<1> QED
  BY <1>2 DEF WaitsFor, Blocks, At

LEMMA NoCircle == ASSUME Inv PROVE NoCircleOfWaits
<1>1. TypeOK /\ Locals
  BY DEF Inv
<1>2. ASSUME NEW W \in SUBSET InCall, W # {}
      PROVE  \E t \in W : \A u \in W : ~WaitsFor(t, u)
  <2>0. W \subseteq Threads
    BY DEF InCall
  <2>1. CASE \E t \in W : pc[t] = "push"
    <3>1. PICK t \in W : pc[t] = "push"
      BY <2>1
    <3> QED
      BY <2>0, <3>1, Holders
  <2>2. CASE (\A t \in W : pc[t] # "push") /\ \E t \in W : pc[t] = "gauges"
    <3>1. PICK t \in W : pc[t] = "gauges"
      BY <2>2
    <3> QED
      BY <2>0, <2>2, <3>1, Holders
  <2>3. CASE \A t \in W : pc[t] \notin {"push", "gauges"}
    BY <1>2, <2>0, <2>3, Holders
  <2> QED
    BY <2>1, <2>2, <2>3
<1>3. ASSUME NEW t \in InCall, ~MayGoOn(t) PROVE \E u \in InCall : WaitsFor(t, u)
  <2>1. \A u \in Threads : held[u] # {} => u \in InCall
    BY <1>1 DEF Locals, InCall
  <2>2. CASE At(t, "inc_counter") /\ ~Writable("counters")
    BY <2>1, <2>2 DEF Writable, WaitsFor, Blocks, Locks
  <2>3. CASE At(t, "set_gauge") /\ ~Writable("gauges")
    BY <2>1, <2>3 DEF Writable, WaitsFor, Blocks, Locks
  <2>4. CASE At(t, "export_prometheus") /\ ~Readable("counters")
    BY <2>1, <2>4 DEF Readable, WaitsFor, Blocks, Locks
  <2>5. CASE pc[t] = "gauges" /\ ~Readable("gauges")
    BY <2>1, <2>5 DEF Readable, WaitsFor, Blocks, Locks
  <2> QED
    BY <1>3, <2>2, <2>3, <2>4, <2>5 DEF MayGoOn
<1> QED
  BY <1>2, <1>3 DEF NoCircleOfWaits

\* The guards never form a circle, for any number of threads: the lock order that
\* metrics.rs keeps without saying so (counters before gauges, the log last).
THEOREM CallsDoNotDeadlock == Spec => []NoCircleOfWaits
BY NoCircle, InvHolds, PTL

\* The guards that WaitsFor names are the ones the calls really stop at.
THEOREM WaitersStay == Spec => WaitingThreadsStay
<1>1. Inv /\ [Next]_vars => [\A t, u \in Threads : WaitsFor(t, u) => t # u /\ ~Proceed(t)]_vars
  <2> SUFFICES ASSUME Inv, NEW t \in Threads, NEW u \in Threads, WaitsFor(t, u), Proceed(t)
               PROVE  FALSE
    BY Holders
  <2>1. pc[t] \in {"begin", "gauges"}
    BY Holders
  <2>2. PICK lock \in Locks : Blocks(u, t, lock)
    BY DEF WaitsFor
  <2>3. ~IncCounter(t)
    BY <2>2 DEF Blocks, At, IncCounter, Writable
  <2>4. ~SetGauge(t)
    BY <2>2 DEF Blocks, At, SetGauge, Writable
  <2>5. ~Push(t)
    BY <2>1 DEF Push
  <2>6. ~ExportCounters(t)
    BY <2>2 DEF Blocks, At, ExportCounters, Readable
  <2>7. ~ExportGauges(t)
    BY <2>2 DEF Blocks, At, ExportGauges, Readable
  <2>8. ~ObserveHistogram(t) /\ ~GetMetrics(t) /\ ~Clear(t)
    BY <2>2 DEF Blocks, At, ObserveHistogram, GetMetrics, Clear
  <2> QED
    BY <2>3, <2>4, <2>5, <2>6, <2>7, <2>8 DEF Proceed
<1> QED
  BY <1>1, InvHolds, PTL DEF Spec, WaitingThreadsStay

-----------------------------------------------------------------------------
(* The SLO tracker.  Among the numbers of a set there is a least one, among the
   samples a largest one, so that the answer of p95_latency exists; and the samples
   are the end of the recorded latencies. *)

LEMMA LeastNumber ==
    ASSUME NEW T, T \subseteq Nat, T # {}
    PROVE  \E x \in T : \A y \in T : x <= y
<1> DEFINE R == {p \in Nat \X Nat : p[1] < p[2]}
<1>1. IsWellFoundedOn(R, Nat)
  BY NatLessThanWellFounded DEF OpToRel
<1>2. \A x, y \in Nat : <<x, y>> \in R <=> x < y
  OBVIOUS
<1> HIDE DEF R
<1>3. PICK x \in T : \A y \in T : ~(<<y, x>> \in R)
  BY <1>1, WFMin
<1>4. \A y \in T : ~(y < x)
  BY <1>2, <1>3
<1>5. \A y \in T : x <= y
  BY <1>4
<1> QED
  BY <1>5

\* Among the elements of a sequence at some indices there is a largest.
LEMMA LargestElement ==
    ASSUME NEW s \in Seq(Nat), NEW T, T \subseteq 1 .. Len(s), T # {}
    PROVE  \E i \in T : \A j \in T : s[j] <= s[i]
<1> DEFINE n == Len(s)
           IsMax(i, k) == i \in T /\ \A j \in T : j <= k => s[j] <= s[i]
           Good(k) == (\E j \in T : j <= k) => \E i \in T : IsMax(i, k)
           Bad == {k \in 0 .. n : ~Good(k)}
<1>1. n \in Nat /\ \A i \in T : i \in 1 .. n /\ s[i] \in Nat
  OBVIOUS
<1>2. ASSUME NEW k \in 1 .. n, Good(k - 1) PROVE Good(k)
  <2>1. \A j \in T : j <= k <=> j <= k - 1 \/ j = k
    BY <1>1
  <2>2. CASE k \notin T
    <3>1. \A j \in T : j <= k <=> j <= k - 1
      BY <2>1, <2>2
    <3> QED
      BY <3>1, <1>2
  <2>3. CASE k \in T
    <3>1. CASE \A j \in T : ~(j <= k - 1)
      <4>1. \A j \in T : j <= k => j = k
        BY <2>1, <3>1
      <4>2. s[k] <= s[k]
        BY <1>1, <2>3
      <4>3. IsMax(k, k)
        BY <4>1, <4>2, <2>3
      <4> QED
        BY <4>3, <2>3
    <3>2. CASE \E j \in T : j <= k - 1
      <4>1. PICK i \in T : IsMax(i, k - 1)
        BY <1>2, <3>2
      <4>2. \A j \in T : j <= k - 1 => s[j] <= s[i]
        BY <4>1
      <4>3. s[i] \in Nat /\ s[k] \in Nat
        BY <1>1, <2>3
      <4>4. CASE s[k] <= s[i]
        <5>1. IsMax(i, k)
          BY <2>1, <4>2, <4>4
        <5> QED
          BY <5>1
      <4>5. CASE s[i] <= s[k]
        <5>1. \A j \in T : j <= k => s[j] <= s[k]
          BY <1>1, <2>1, <4>2, <4>3, <4>5
        <5>2. IsMax(k, k)
          BY <5>1, <2>3
        <5> QED
          BY <5>2, <2>3
      <4>6. s[k] <= s[i] \/ s[i] <= s[k]
        BY <4>3
      <4> QED
        BY <4>4, <4>5, <4>6
    <3> QED
      BY <3>1, <3>2
  <2> QED
    BY <2>2, <2>3
<1>3. Good(0)
  BY <1>1
<1> HIDE DEF Good
<1>4. Bad = {}
  <2> SUFFICES ASSUME Bad # {} PROVE FALSE
    OBVIOUS
  <2>1. Bad \subseteq Nat /\ \A k \in Bad : k \in 0 .. n /\ ~Good(k)
    BY <1>1
  <2>2. \A k \in 0 .. n : k \notin Bad => Good(k)
    OBVIOUS
  <2> HIDE DEF Bad
  <2>3. PICK k \in Bad : \A l \in Bad : k <= l
    BY <2>1, LeastNumber
  <2>4. k \in 1 .. n /\ k - 1 \in 0 .. n
    BY <1>1, <1>3, <2>1
  <2>5. k - 1 \notin Bad
    BY <2>3, <2>4
  <2> QED
    BY <1>2, <2>1, <2>2, <2>4, <2>5
<1>5. Good(n)
  <2>1. n \in 0 .. n
    BY <1>1
  <2> QED
    BY <1>4, <2>1
<1>6. PICK i \in T : IsMax(i, n)
  BY <1>1, <1>5 DEF Good
<1> QED
  BY <1>1, <1>6

LEMMA DivisionFacts ==
    ASSUME NEW a \in Nat, NEW b \in Nat \ {0}
    PROVE  a \div b \in Nat /\ b * (a \div b) <= a /\ a < b * ((a \div b) + 1)
OBVIOUS

\* A factor that is smaller makes a smaller product.
LEMMA SmallerProduct ==
    ASSUME NEW a \in Nat, NEW b \in Nat, NEW c \in Nat, NEW d \in Nat
    PROVE  /\ a <= b => c * a <= c * b
           /\ a < b /\ c > 0 => a * c < b * c /\ c * a < c * b
OBVIOUS

\* The index is that of a sample, and more samples than it are enough for the
\* percentile.
LEMMA IndexFacts ==
    ASSUME NEW s, Len(s) \in Nat \ {0}
    PROVE  /\ Index(s) \in 0 .. Len(s) - 1
           /\ \A r \in Nat : r > Index(s) => OutOf * r >= RankOf * Len(s)
<1> DEFINE n == Len(s)
           a == RankOf * n
           q == a \div OutOf
<1>1. /\ n \in Nat /\ n > 0 /\ RankOf \in Nat /\ OutOf \in Nat /\ OutOf # 0 /\ RankOf < OutOf
      /\ a \in Nat
  BY PercentileAssumption
<1>2. q \in Nat /\ OutOf * q <= a /\ a < OutOf * (q + 1)
  BY <1>1, DivisionFacts
<1>3. a < OutOf * n
  BY <1>1, SmallerProduct
<1>4. Index(s) = q
  BY DEF Index
<1> HIDE DEF a, q, n
<1>5. q < n
  <2> SUFFICES ASSUME n <= q PROVE FALSE
    BY <1>1, <1>2
  <2>1. OutOf * n <= OutOf * q
    BY <1>1, <1>2, SmallerProduct
  <2>2. OutOf * n \in Nat /\ OutOf * q \in Nat
    BY <1>1, <1>2
  <2> QED
    BY <2>1, <2>2, <1>1, <1>2, <1>3
<1>6. ASSUME NEW r \in Nat, r > q PROVE OutOf * r >= a
  <2>1. q + 1 \in Nat /\ q + 1 <= r
    BY <1>2, <1>6
  <2>2. OutOf * (q + 1) <= OutOf * r /\ OutOf * (q + 1) \in Nat /\ OutOf * r \in Nat
    BY <2>1, <1>1, SmallerProduct
  <2> QED
    BY <2>2, <1>1, <1>2
<1> QED
  BY <1>1, <1>2, <1>4, <1>5, <1>6 DEF a, n

LEMMA RankFacts ==
    ASSUME NEW s \in Seq(Nat), NEW x \in Nat
    PROVE  /\ Rank(s, x) \in 0 .. Len(s)
           /\ (\A i \in 1 .. Len(s) : s[i] <= x) => Rank(s, x) = Len(s)
           /\ Rank(s, x) > 0 => \E i \in 1 .. Len(s) : s[i] <= x
<1> DEFINE R == {i \in DOMAIN s : s[i] <= x}
<1>1. DOMAIN s = 1 .. Len(s) /\ Len(s) \in Nat
  OBVIOUS
<1>2. IsFiniteSet(1 .. Len(s)) /\ Cardinality(1 .. Len(s)) = Len(s)
  <2>1. /\ IsFiniteSet(1 .. Len(s))
        /\ Cardinality(1 .. Len(s)) = IF 1 > Len(s) THEN 0 ELSE Len(s) - 1 + 1
    BY <1>1, FS_Interval
  <2> QED
    BY <1>1, <2>1
<1>3. R \in SUBSET (1 .. Len(s))
  BY <1>1
<1>4. IsFiniteSet(R) /\ Cardinality(R) <= Len(s) /\ Cardinality(R) \in Nat
  BY <1>2, <1>3, FS_Subset, FS_CardinalityType
<1>5. (\A i \in 1 .. Len(s) : s[i] <= x) => R = 1 .. Len(s)
  BY <1>1
<1>6. Rank(s, x) = Cardinality(R)
  BY DEF Rank
<1>7. R # {} => \E i \in 1 .. Len(s) : s[i] <= x
  BY <1>1
<1> HIDE DEF R
<1>8. Cardinality(R) > 0 => R # {}
  <2>1. R = {} => Cardinality(R) = 0
    BY FS_EmptySet
  <2> QED
    BY <2>1
<1>9. Cardinality(R) \in 0 .. Len(s)
  BY <1>1, <1>4
<1> QED
  BY <1>2, <1>5, <1>6, <1>7, <1>8, <1>9

\* What p95_latency answers: a sample that more than Index samples do not exceed.
LEMMA PercentileFacts ==
    ASSUME NEW s \in Seq(Latencies), s # <<>>
    PROVE  LET x == P95Latency(s)
           IN  x \in Latencies /\ Rank(s, x) > Index(s) /\ \E i \in 1 .. Len(s) : s[i] = x
<1> DEFINE X == {x \in Latencies : Rank(s, x) > Index(s)}
           n == Len(s)
           p == P95Latency(s)
<1>1. /\ s \in Seq(Nat) /\ n \in Nat \ {0} /\ \A i \in 1 .. n : s[i] \in Latencies /\ s[i] \in Nat
      /\ Latencies \subseteq Nat
  <2>1. s \in Seq(Nat)
    BY LatenciesAssumption, SeqMonotonic
  <2>2. n \in Nat \ {0}
    BY EmptySeq, LenProperties
  <2>3. \A i \in 1 .. n : s[i] \in Latencies
    BY ElementOfSeq
  <2> QED
    BY <2>1, <2>2, <2>3, LatenciesAssumption
<1>2. Index(s) \in 0 .. n - 1
  BY <1>1, IndexFacts
<1>3. X # {}
  <2>1. PICK i \in 1 .. n : \A j \in 1 .. n : s[j] <= s[i]
    <3>1. 1 .. Len(s) \subseteq 1 .. Len(s) /\ 1 .. Len(s) # {}
      BY <1>1
    <3> QED
      BY <1>1, <3>1, LargestElement
  <2>2. Rank(s, s[i]) = n
    BY <1>1, <2>1, RankFacts
  <2> QED
    BY <1>1, <1>2, <2>2
<1>4. \E x \in X : \A y \in X : x <= y
  <2>1. X \subseteq Nat
    BY <1>1
  <2> HIDE DEF X
  <2> QED
    BY <1>3, <2>1, LeastNumber
<1>5. \E x \in Latencies : /\ Rank(s, x) > Index(s)
                           /\ \A y \in Latencies : y < x => Rank(s, y) <= Index(s)
  <2>1. PICK x \in X : \A y \in X : x <= y
    BY <1>4
  <2>2. \A y \in Latencies : y < x => ~(Rank(s, y) > Index(s))
    BY <1>1, <2>1
  <2>3. \A y \in Latencies : Rank(s, y) \in Nat /\ Index(s) \in Nat
    BY <1>1, <1>2, RankFacts
  <2> QED
    BY <2>1, <2>2, <2>3
<1>6. /\ p \in Latencies /\ Rank(s, p) > Index(s)
      /\ \A y \in Latencies : y < p => Rank(s, y) <= Index(s)
  BY <1>5 DEF P95Latency
<1> HIDE DEF X, p
<1>7. \E i \in 1 .. n : s[i] = p
  <2> SUFFICES ASSUME \A i \in 1 .. n : s[i] # p PROVE FALSE
    OBVIOUS
  <2> DEFINE T == {i \in 1 .. n : s[i] <= p}
  <2>1. T \subseteq 1 .. n /\ T # {}
    <3>1. Rank(s, p) > 0
      BY <1>1, <1>2, <1>6, RankFacts
    <3> QED
      BY <1>1, <1>6, <3>1, RankFacts
  <2>2. PICK i \in T : \A j \in T : s[j] <= s[i]
    <3> HIDE DEF T
    <3> QED
      BY <1>1, <2>1, LargestElement
  <2>3. s[i] \in Latencies /\ s[i] \in Nat /\ p \in Nat /\ s[i] < p
    BY <1>1, <1>6, <2>2
  <2>4. \A j \in 1 .. n : s[j] <= p <=> s[j] <= s[i]
    BY <1>1, <2>2, <2>3
  <2>5. {j \in DOMAIN s : s[j] <= p} = {j \in DOMAIN s : s[j] <= s[i]}
    BY <1>1, <2>4
  <2>6. Rank(s, p) = Rank(s, s[i])
    BY <2>5 DEF Rank
  <2>7. Rank(s, p) \in Nat /\ Index(s) \in Nat
    BY <1>1, <1>2, <1>6, RankFacts
  <2> QED
    BY <1>6, <2>3, <2>6, <2>7
<1> QED
  BY <1>6, <1>7 DEF p

\* The samples are the end of what was recorded.
SamplesAreRecent ==
    LET m == Len(requests)
        k == Len(latency_samples)
    IN  /\ k = (IF m < MaxLatencies THEN m ELSE MaxLatencies)
        /\ \A j \in 1 .. k : latency_samples[j] = requests[m - k + j]

LEMMA SampleFacts ==
    ASSUME SloTypeOK, SamplesAreRecent
    PROVE  LET m == Len(requests)
               k == Len(latency_samples)
           IN  /\ requests \in Seq(Latencies) /\ latency_samples \in Seq(Latencies)
               /\ m \in Nat /\ k \in Nat /\ k <= m /\ MaxLatencies \in Nat \ {0}
               /\ k = (IF m < MaxLatencies THEN m ELSE MaxLatencies)
               /\ \A j \in 1 .. k : latency_samples[j] = requests[m - k + j]
<1> DEFINE m == Len(requests)
           k == Len(latency_samples)
<1>1. requests \in Seq(Latencies) /\ latency_samples \in Seq(Latencies)
  BY DEF SloTypeOK
<1>2. m \in Nat /\ k \in Nat
  BY <1>1, LenProperties
<1>3. /\ k = (IF m < MaxLatencies THEN m ELSE MaxLatencies)
      /\ \A j \in 1 .. k : latency_samples[j] = requests[m - k + j]
  BY Zenon DEF SamplesAreRecent
<1>4. MaxLatencies \in Nat \ {0}
  BY LatenciesAssumption
<1> HIDE DEF m, k
<1>5. k <= m
  BY <1>2, <1>3, <1>4
<1> QED
  BY <1>1, <1>2, <1>3, <1>4, <1>5 DEF m, k

LEMMA RecentSamples ==
    ASSUME SloTypeOK, SamplesAreRecent PROVE RecentRequests = latency_samples
<1> DEFINE m == Len(requests)
           k == Len(latency_samples)
           r == SubSeq(requests, m - k + 1, m)
<1>1. /\ requests \in Seq(Latencies) /\ latency_samples \in Seq(Latencies)
      /\ m \in Nat /\ k \in Nat /\ k <= m
      /\ k = (IF m < MaxLatencies THEN m ELSE MaxLatencies)
      /\ \A j \in 1 .. k : latency_samples[j] = requests[m - k + j]
  BY SampleFacts
<1>2. RecentRequests = r
  BY <1>1 DEF RecentRequests
<1>3. /\ r \in Seq(Latencies) /\ Len(r) = k
      /\ \A j \in 1 .. k : r[j] = requests[m - k + j]
  <2>1. \A i \in (m - k + 1) .. m : requests[i] \in Latencies
    BY <1>1
  <2>2. /\ r \in Seq(Latencies)
        /\ Len(r) = IF m - k + 1 <= m THEN m - (m - k + 1) + 1 ELSE 0
        /\ \A j \in 1 .. m - (m - k + 1) + 1 : r[j] = requests[m - k + 1 + j - 1]
    BY <1>1, <2>1, SubSeqProperties
  <2>3. /\ m - (m - k + 1) + 1 = k
        /\ k = 0 => ~(m - k + 1 <= m)
        /\ k > 0 => m - k + 1 <= m
        /\ \A j \in 1 .. k : m - k + 1 + j - 1 = m - k + j
    BY <1>1
  <2>4. Len(r) = k
    BY <1>1, <2>2, <2>3
  <2> QED
    BY <2>2, <2>3, <2>4
<1> HIDE DEF r
<1>4. \A j \in 1 .. Len(r) : r[j] = latency_samples[j]
  BY <1>1, <1>3
<1> QED
  BY <1>1, <1>2, <1>3, <1>4, SeqEqual

LEMMA RecordStep ==
    ASSUME SloTypeOK, SamplesAreRecent, NEW success \in BOOLEAN, NEW latency \in Latencies,
           RecordRequest(success, latency)
    PROVE  SloTypeOK' /\ SamplesAreRecent'
<1> DEFINE s == latency_samples
           m == Len(requests)
           k == Len(s)
           a == Append(s, latency)
<1>1. /\ requests \in Seq(Latencies) /\ s \in Seq(Latencies) /\ m \in Nat /\ k \in Nat /\ k <= m
      /\ k = (IF m < MaxLatencies THEN m ELSE MaxLatencies) /\ MaxLatencies \in Nat \ {0}
      /\ \A j \in 1 .. k : s[j] = requests[m - k + j]
  BY SampleFacts
<1>2. /\ requests' = Append(requests, latency) /\ latency_samples' = Dropping(a)
      /\ total_requests' = total_requests + 1
      /\ successful_requests' = successful_requests + (IF success THEN 1 ELSE 0)
  BY DEF RecordRequest
<1>3. /\ requests' \in Seq(Latencies) /\ Len(requests') = m + 1
      /\ requests'[m + 1] = latency /\ \A i \in 1 .. m : requests'[i] = requests[i]
  BY <1>1, <1>2
<1>4. /\ a \in Seq(Latencies) /\ Len(a) = k + 1
      /\ a[k + 1] = latency /\ \A i \in 1 .. k : a[i] = s[i]
  BY <1>1
<1>5. total_requests' \in Nat /\ successful_requests' \in 0 .. total_requests'
  BY <1>2 DEF SloTypeOK
<1> HIDE DEF a, s
<1>6. CASE m < MaxLatencies
  <2>1. latency_samples' = a /\ k = m
    BY <1>1, <1>2, <1>4, <1>6 DEF Dropping
  <2>2. \A j \in 1 .. k + 1 : a[j] = requests'[j]
    <3> TAKE j \in 1 .. k + 1
    <3>1. CASE j = k + 1
      BY <1>3, <1>4, <2>1, <3>1
    <3>2. CASE j # k + 1
      <4>1. j \in 1 .. k /\ m - k + j = j
        BY <1>1, <2>1, <3>2
      <4> QED
        BY <4>1, <1>1, <1>3, <1>4, <2>1
    <3> QED
      BY <3>1, <3>2
  <2>3. Len(requests') - Len(latency_samples') = 0 /\ Len(latency_samples') = k + 1
    BY <1>1, <1>3, <1>4, <2>1
  <2>4. k + 1 = (IF m + 1 < MaxLatencies THEN m + 1 ELSE MaxLatencies)
    BY <1>1, <1>6, <2>1
  <2>5. \A j \in 1 .. k + 1 : (m + 1) - (k + 1) + j = j
    <3> TAKE j \in 1 .. k + 1
    <3>1. m \in Nat /\ k \in Nat /\ k = m
      BY <1>1, <2>1
    <3> HIDE DEF m, k
    <3> QED
      BY <3>1
  <2>6. SamplesAreRecent'
    BY <1>3, <1>4, <2>1, <2>2, <2>4, <2>5 DEF SamplesAreRecent
  <2> QED
    BY <1>3, <1>4, <1>5, <2>1, <2>6 DEF SloTypeOK
<1>7. CASE ~(m < MaxLatencies)
  <2>1. k = MaxLatencies /\ k > 0 /\ latency_samples' = Tail(a)
    BY <1>1, <1>2, <1>4, <1>7 DEF Dropping
  <2>2. /\ Tail(a) \in Seq(Latencies) /\ Len(Tail(a)) = k
        /\ \A j \in 1 .. k : Tail(a)[j] = a[j + 1]
    BY <1>1, <1>4, <2>1
  <2>3. \A j \in 1 .. k : a[j + 1] = requests'[(m + 1) - k + j]
    <3> TAKE j \in 1 .. k
    <3>1. CASE j = k
      <4>1. (m + 1) - k + j = m + 1
        BY <1>1, <3>1
      <4> QED
        BY <4>1, <1>3, <1>4, <3>1
    <3>2. CASE j # k
      <4>1. j + 1 \in 1 .. k /\ m - k + (j + 1) = (m + 1) - k + j /\ m - k + (j + 1) \in 1 .. m
        <5>1. m \in Nat /\ k \in Nat /\ k <= m /\ j \in 1 .. k /\ j # k
          BY <1>1, <3>2
        <5> HIDE DEF m, k
        <5> QED
          BY <5>1
      <4>2. a[j + 1] = s[j + 1] /\ s[j + 1] = requests[m - k + (j + 1)]
        BY <4>1, <1>1, <1>4
      <4> QED
        BY <4>1, <4>2, <1>3
    <3> QED
      BY <3>1, <3>2
  <2>4. k = (IF m + 1 < MaxLatencies THEN m + 1 ELSE MaxLatencies)
    BY <1>1, <1>7, <2>1
  <2>5. SamplesAreRecent'
    BY <1>3, <2>1, <2>2, <2>3, <2>4 DEF SamplesAreRecent
  <2> QED
    BY <1>3, <1>5, <2>1, <2>2, <2>5 DEF SloTypeOK
<1> QED
  BY <1>6, <1>7

LEMMA SloInvHolds == SloSpec => [](SloTypeOK /\ SamplesAreRecent)
<1>1. SloInit => SloTypeOK /\ SamplesAreRecent
  BY LatenciesAssumption DEF SloInit, SloTypeOK, SamplesAreRecent
<1>2. SloTypeOK /\ SamplesAreRecent /\ [SloNext]_sloVars => (SloTypeOK /\ SamplesAreRecent)'
  <2> SUFFICES ASSUME SloTypeOK, SamplesAreRecent, [SloNext]_sloVars
               PROVE  (SloTypeOK /\ SamplesAreRecent)'
    OBVIOUS
  <2>1. CASE SloNext
    BY <2>1, RecordStep DEF SloNext
  <2>2. CASE UNCHANGED sloVars
    BY <2>2 DEF sloVars, SloTypeOK, SamplesAreRecent
  <2> QED
    BY <2>1, <2>2
<1> QED
  BY <1>1, <1>2, PTL DEF SloSpec

\* The tracker counts and keeps what it is told.
THEOREM SloTypeCorrect == SloSpec => []SloTypeOK
BY SloInvHolds, PTL

\* Whatever the percentile and however many samples are kept, the answer of
\* p95_latency is a latency of the last requests that covers their share.
THEOREM RecentLatenciesAreCovered == SloSpec => []P95CoversRecent
<1>1. SloTypeOK /\ SamplesAreRecent => P95CoversRecent
  <2> SUFFICES ASSUME SloTypeOK, SamplesAreRecent, requests # <<>> PROVE P95CoversRecent
    BY DEF P95CoversRecent
  <2> DEFINE s == latency_samples
             x == P95Latency(s)
  <2>1. RecentRequests = s
    BY RecentSamples
  <2>2. s \in Seq(Latencies) /\ Len(s) \in Nat \ {0} /\ s # <<>> /\ DOMAIN s = 1 .. Len(s)
    <3>1. /\ s \in Seq(Latencies) /\ requests \in Seq(Latencies) /\ Len(requests) > 0
          /\ Len(s) = (IF Len(requests) < MaxLatencies THEN Len(requests) ELSE MaxLatencies)
      BY DEF SloTypeOK, SamplesAreRecent
    <3> QED
      BY <3>1, LatenciesAssumption
  <2>3. x \in Latencies /\ Rank(s, x) > Index(s) /\ \E i \in 1 .. Len(s) : s[i] = x
    BY <2>2, PercentileFacts
  <2> HIDE DEF s, x
  <2>4. x \in Nat /\ s \in Seq(Nat)
    BY <2>2, <2>3, LatenciesAssumption, SeqMonotonic
  <2>5. OutOf * Rank(s, x) >= RankOf * Len(s)
    BY <2>2, <2>3, <2>4, IndexFacts, RankFacts
  <2> QED
    BY <2>1, <2>2, <2>3, <2>5 DEF P95CoversRecent, s, x
<1> QED
  BY <1>1, SloInvHolds, PTL
=============================================================================
