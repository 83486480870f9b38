---------------------- MODULE PipelineExecutor_proofs ----------------------
(***************************************************************************)
(* Theorems about PipelineExecutor, for any number of tasks, graphs and    *)
(* stages, and about Wasm and Stages.  The order of the queue plays no     *)
(* part in the safety of the table: only who holds the guard, and what a   *)
(* task has inserted, do.  That nobody waits for ever rests on the queue.  *)
(***************************************************************************)
EXTENDS PipelineExecutor, Wasm, Stages, FiniteSetTheorems, SequenceTheorems, TLAPS

\* A call is about a graph.
Locals == TypeOK /\ \A t \in Tasks : pc[t] \notin {"idle", "dropped"} => graph[t] \in Graphs

\* The guard that survives an await is that of the stage that runs.
HolderRuns == \A t \in Tasks : pc[t] = "running" <=> holder = t

Inv == Locals /\ HolderRuns /\ EntryHasExecution

-----------------------------------------------------------------------------
(* What a queue becomes when somebody joins at the end, the head is served, or  *)
(* somebody leaves at any place.                                                *)

LEMMA JoinFacts ==
    ASSUME NEW S, NEW s \in Seq(S), NEW x \in S
    PROVE  /\ Append(s, x) \in Seq(S)
           /\ DOMAIN s = 1 .. Len(s) /\ Len(s) \in Nat
           /\ DOMAIN Append(s, x) = 1 .. Len(s) + 1
           /\ \A i \in DOMAIN s : Append(s, x)[i] = s[i]
           /\ Append(s, x)[Len(s) + 1] = x
OBVIOUS

LEMMA ServeFacts ==
    ASSUME NEW S, NEW s \in Seq(S), s # <<>>
    PROVE  /\ Tail(s) \in Seq(S) /\ Head(s) \in S
           /\ DOMAIN s = 1 .. Len(s) /\ Len(s) \in Nat \ {0} /\ s[1] = Head(s)
           /\ Len(Tail(s)) = Len(s) - 1 /\ DOMAIN Tail(s) = 1 .. Len(s) - 1
           /\ \A i \in 1 .. Len(s) - 1 : Tail(s)[i] = s[i + 1]
<1>1. Len(s) \in Nat \ {0} /\ DOMAIN s = 1 .. Len(s) /\ s[1] = Head(s)
  BY EmptySeq
<1>2. Tail(s) \in Seq(S) /\ Head(s) \in S /\ Len(Tail(s)) = Len(s) - 1
  BY <1>1
<1> QED
  BY <1>1, <1>2

LEMMA LeaveFacts ==
    ASSUME NEW S, NEW s \in Seq(S), NEW k \in DOMAIN s
    PROVE  /\ RemoveAt(s, k) \in Seq(S)
           /\ DOMAIN s = 1 .. Len(s) /\ Len(s) \in Nat \ {0} /\ k \in 1 .. Len(s)
           /\ DOMAIN RemoveAt(s, k) = 1 .. Len(s) - 1
           /\ \A i \in 1 .. Len(s) - 1 :
                RemoveAt(s, k)[i] = IF i < k THEN s[i] ELSE s[i + 1]
<1> DEFINE n == Len(s)
           a == SubSeq(s, 1, k - 1)
           b == SubSeq(s, k + 1, n)
<1>1. n \in Nat \ {0} /\ DOMAIN s = 1 .. n /\ k \in 1 .. n
  BY LenProperties
<1>2. \A i \in 1 .. n : s[i] \in S
  BY <1>1
<1>3. a \in Seq(S) /\ Len(a) = k - 1 /\ \A i \in 1 .. k - 1 : a[i] = s[i]
  BY <1>1, <1>2, SubSeqProperties
<1>4. b \in Seq(S) /\ Len(b) = n - k /\ \A i \in 1 .. n - k : b[i] = s[k + i]
  BY <1>1, <1>2, SubSeqProperties
<1>5. RemoveAt(s, k) = a \o b
  BY DEF RemoveAt
<1> HIDE DEF a, b, n
<1>6. /\ a \o b \in Seq(S) /\ Len(a \o b) = n - 1
      /\ \A i \in 1 .. n - 1 : (a \o b)[i] = IF i <= k - 1 THEN a[i] ELSE b[i - (k - 1)]
  <2>1. /\ a \o b \in Seq(S) /\ Len(a \o b) = Len(a) + Len(b)
        /\ \A i \in 1 .. Len(a) + Len(b) :
             (a \o b)[i] = IF i <= Len(a) THEN a[i] ELSE b[i - Len(a)]
    BY <1>3, <1>4, ConcatProperties
  <2>2. Len(a) + Len(b) = n - 1
    BY <1>1, <1>3, <1>4
  <2> QED
    BY <2>1, <2>2, <1>3
<1>7. \A i \in 1 .. n - 1 : (a \o b)[i] = IF i < k THEN s[i] ELSE s[i + 1]
  <2> TAKE i \in 1 .. n - 1
  <2>1. CASE i < k
    BY <1>1, <1>3, <1>6, <2>1
  <2>2. CASE ~(i < k)
    <3>1. i - (k - 1) \in 1 .. n - k /\ k + (i - (k - 1)) = i + 1 /\ ~(i <= k - 1)
      BY <1>1, <2>2
    <3> QED
      BY <1>4, <1>6, <2>2, <3>1
  <2> QED
    BY <2>1, <2>2
<1>8. DOMAIN (a \o b) = 1 .. n - 1
  BY <1>6, LenProperties
<1> QED
  BY <1>1, <1>5, <1>6, <1>7, <1>8 DEF n

\* Only the head of a queue is served.
LEMMA QueueType ==
    ASSUME TypeOK, [Next]_vars PROVE queue' \in Seq(Tasks)
<1>1. queue \in Seq(Tasks)
  BY DEF TypeOK
<1>2. ASSUME NEW t \in Tasks, queue' = Append(queue, t) PROVE queue' \in Seq(Tasks)
  BY <1>1, <1>2, JoinFacts
<1>3. ASSUME NEW t \in Tasks, Granted(t), queue' = Tail(queue) PROVE queue' \in Seq(Tasks)
  BY <1>1, <1>3, ServeFacts DEF Granted
<1>4. ASSUME NEW t \in Tasks, Granted(t), queue' = Append(Tail(queue), t)
      PROVE  queue' \in Seq(Tasks)
  BY <1>1, <1>4, ServeFacts, JoinFacts DEF Granted
<1>5. ASSUME NEW t \in Tasks, LeaveQueue(t) PROVE queue' \in Seq(Tasks)
  BY <1>1, <1>5, LeaveFacts DEF LeaveQueue
<1>6. ASSUME NEW t \in Tasks, NEW g, NEW purpose, Call(t, g, purpose) PROVE queue' \in Seq(Tasks)
  BY <1>2, <1>6 DEF Call
<1>7. ASSUME NEW t \in Tasks, Proceed(t) PROVE queue' \in Seq(Tasks)
  BY <1>2, <1>3, <1>4, <1>7
     DEF Proceed, Insert, StageBegin, StageEnd, CleanUp, FinishCancel, FinishLookup, Return
<1>8. CASE UNCHANGED vars
  BY <1>1, <1>8 DEF vars
<1> QED
  BY <1>5, <1>6, <1>7, <1>8 DEF Next, Execute, Cancel, GetExecutionState, DropFuture

LEMMA LocalsStep ==
    ASSUME Locals, [Next]_vars PROVE Locals'
<1>0. queue' \in Seq(Tasks)
  BY QueueType DEF Locals
<1> USE <1>0, MayExecuteAssumption, NumStagesAssumption, NoneAssumption DEF Locals, TypeOK, Waiting, InFlight
<1>1. ASSUME NEW t \in Tasks, NEW g \in MayExecute[t], Execute(t, g) PROVE Locals'
  BY <1>1 DEF Execute, Call
<1>2. ASSUME NEW t \in Tasks, NEW g \in Graphs, Cancel(t, g) PROVE Locals'
  BY <1>2 DEF Cancel, Call
<1>3. ASSUME NEW t \in Tasks, NEW g \in Graphs, GetExecutionState(t, g) PROVE Locals'
  BY <1>3 DEF GetExecutionState, Call
<1>4. ASSUME NEW t \in Tasks, Insert(t) PROVE Locals'
  BY <1>4 DEF Insert
<1>5. ASSUME NEW t \in Tasks, StageBegin(t) PROVE Locals'
  BY <1>5 DEF StageBegin, Granted
<1>6. ASSUME NEW t \in Tasks, StageEnd(t) PROVE Locals'
  <2>1. stage' \in [Tasks -> 0 .. NumStages]
    <3>1. stage[t] < NumStages => stage[t] + 1 \in 0 .. NumStages
      OBVIOUS
    <3> QED
      BY <1>6, <3>1 DEF StageEnd
  <2>2. pc' \in [Tasks -> Waiting \cup {"idle", "running", "dropped"}]
    BY <1>6 DEF StageEnd
  <2> QED
    BY <1>6, <2>1, <2>2 DEF StageEnd
<1>7. ASSUME NEW t \in Tasks, CleanUp(t) PROVE Locals'
  BY <1>7 DEF CleanUp, Return
<1>8. ASSUME NEW t \in Tasks, FinishCancel(t) PROVE Locals'
  BY <1>8 DEF FinishCancel
<1>9. ASSUME NEW t \in Tasks, FinishLookup(t) PROVE Locals'
  BY <1>9 DEF FinishLookup, Return
<1>10. ASSUME NEW t \in Tasks, DropFuture(t) PROVE Locals'
  BY <1>10 DEF DropFuture
<1>11. CASE UNCHANGED vars
  BY <1>11 DEF vars
<1> HIDE <1>0, MayExecuteAssumption, NumStagesAssumption, NoneAssumption DEF Locals, TypeOK, Waiting, InFlight
<1> QED
  BY <1>1, <1>2, <1>3, <1>4, <1>5, <1>6, <1>7, <1>8, <1>9, <1>10, <1>11
     DEF Next, Proceed

\* A guard is granted only while no guard is alive.
LEMMA HolderStep ==
    ASSUME Locals, HolderRuns, [Next]_vars PROVE HolderRuns'
<1> USE NoneAssumption DEF Locals, TypeOK, Waiting, InFlight, HolderRuns
<1>1. ASSUME NEW t \in Tasks, NEW g \in MayExecute[t], Execute(t, g) PROVE HolderRuns'
  BY <1>1 DEF Execute, Call
<1>2. ASSUME NEW t \in Tasks, NEW g \in Graphs, Cancel(t, g) PROVE HolderRuns'
  BY <1>2 DEF Cancel, Call
<1>3. ASSUME NEW t \in Tasks, NEW g \in Graphs, GetExecutionState(t, g) PROVE HolderRuns'
  BY <1>3 DEF GetExecutionState, Call
<1>4. ASSUME NEW t \in Tasks, Insert(t) PROVE HolderRuns'
  BY <1>4 DEF Insert
<1>5. ASSUME NEW t \in Tasks, StageBegin(t) PROVE HolderRuns'
  BY <1>5 DEF StageBegin, Granted
<1>6. ASSUME NEW t \in Tasks, StageEnd(t) PROVE HolderRuns'
  BY <1>6 DEF StageEnd
<1>7. ASSUME NEW t \in Tasks, CleanUp(t) PROVE HolderRuns'
  BY <1>7 DEF CleanUp, Return
<1>8. ASSUME NEW t \in Tasks, FinishCancel(t) PROVE HolderRuns'
  BY <1>8 DEF FinishCancel
<1>9. ASSUME NEW t \in Tasks, FinishLookup(t) PROVE HolderRuns'
  BY <1>9 DEF FinishLookup, Return
<1>10. ASSUME NEW t \in Tasks, DropFuture(t) PROVE HolderRuns'
  BY <1>10 DEF DropFuture
<1>11. CASE UNCHANGED vars
  BY <1>11 DEF vars
<1> HIDE NoneAssumption DEF Locals, TypeOK, Waiting, InFlight, HolderRuns
<1> QED
  BY <1>1, <1>2, <1>3, <1>4, <1>5, <1>6, <1>7, <1>8, <1>9, <1>10, <1>11
     DEF Next, Proceed

\* A task gives up being the reason for an entry only by removing it.
LEMMA EntryStep ==
    ASSUME Locals, EntryHasExecution, [Next]_vars PROVE EntryHasExecution'
<1> USE NoneAssumption DEF Locals, TypeOK, Waiting, InFlight, EntryHasExecution
<1>1. ASSUME NEW t \in Tasks, NEW g \in MayExecute[t], Execute(t, g) PROVE EntryHasExecution'
  BY <1>1 DEF Execute, Call
<1>2. ASSUME NEW t \in Tasks, NEW g \in Graphs, Cancel(t, g) PROVE EntryHasExecution'
  BY <1>2 DEF Cancel, Call
<1>3. ASSUME NEW t \in Tasks, NEW g \in Graphs, GetExecutionState(t, g) PROVE EntryHasExecution'
  BY <1>3 DEF GetExecutionState, Call
<1>4. ASSUME NEW t \in Tasks, Insert(t) PROVE EntryHasExecution'
  BY <1>4 DEF Insert
<1>5. ASSUME NEW t \in Tasks, StageBegin(t) PROVE EntryHasExecution'
  BY <1>5 DEF StageBegin, Granted
<1>6. ASSUME NEW t \in Tasks, StageEnd(t) PROVE EntryHasExecution'
  <2>1. /\ pc[t] = "running" /\ pc'[t] \in {"stage", "remove"}
        /\ \A u \in Tasks \ {t} : pc'[u] = pc[u]
        /\ UNCHANGED <<executions, graph>>
    BY <1>6 DEF StageEnd
  <2>2. ASSUME NEW g \in executions
        PROVE  \E u \in Tasks : graph'[u] = g /\ (InFlight(u)' \/ pc'[u] = "dropped")
    <3>1. PICK u \in Tasks : graph[u] = g /\ (InFlight(u) \/ pc[u] = "dropped")
      OBVIOUS
    <3> QED
      BY <2>1, <3>1
  <2> QED
    BY <2>1, <2>2
<1>7. ASSUME NEW t \in Tasks, CleanUp(t) PROVE EntryHasExecution'
  BY <1>7 DEF CleanUp, Return
<1>8. ASSUME NEW t \in Tasks, FinishCancel(t) PROVE EntryHasExecution'
  BY <1>8 DEF FinishCancel
<1>9. ASSUME NEW t \in Tasks, FinishLookup(t) PROVE EntryHasExecution'
  BY <1>9 DEF FinishLookup, Return
<1>10. ASSUME NEW t \in Tasks, DropFuture(t) PROVE EntryHasExecution'
  BY <1>10 DEF DropFuture
<1>11. CASE UNCHANGED vars
  BY <1>11 DEF vars
<1> HIDE NoneAssumption DEF Locals, TypeOK, Waiting, InFlight, EntryHasExecution
<1> QED
  BY <1>1, <1>2, <1>3, <1>4, <1>5, <1>6, <1>7, <1>8, <1>9, <1>10, <1>11
     DEF Next, Proceed

\* The inductive invariant holds in every reachable state.
THEOREM Invariance == Spec => []Inv
<1>1. Init => Inv
  BY NoneAssumption, NumStagesAssumption DEF Init, Inv, Locals, TypeOK, HolderRuns, EntryHasExecution
<1>2. Inv /\ [Next]_vars => Inv'
  BY LocalsStep, HolderStep, EntryStep DEF Inv
<1> QED
  BY <1>1, <1>2, PTL DEF Spec

\* TypeOK is an invariant.
THEOREM TypeCorrect == Spec => []TypeOK
BY Invariance, PTL DEF Inv, Locals

\* At most one stage runs at any time, whatever executions there are.
THEOREM StagesAreExclusive == Spec => []StagesExclude
<1>1. Inv => StagesExclude
  BY DEF Inv, HolderRuns, StagesExclude
<1> QED
  BY <1>1, Invariance, PTL

\* No entry outlives the executions of its graph, dropped futures excepted.
THEOREM NoEntryIsLeaked == Spec => []EntryHasExecution
BY Invariance, PTL DEF Inv

-----------------------------------------------------------------------------

\* An execution is one its task may make.
OwnExecution == \A t \in Tasks : InFlight(t) \/ pc[t] = "insert" => graph[t] \in MayExecute[t]

LEMMA OwnStep ==
    ASSUME Locals, OwnExecution, [Next]_vars PROVE OwnExecution'
<1> USE MayExecuteAssumption DEF Locals, TypeOK, Waiting, InFlight, OwnExecution
<1>1. ASSUME NEW t \in Tasks, NEW g \in MayExecute[t], Execute(t, g) PROVE OwnExecution'
  BY <1>1 DEF Execute, Call
<1>2. ASSUME NEW t \in Tasks, NEW g \in Graphs, Cancel(t, g) PROVE OwnExecution'
  BY <1>2 DEF Cancel, Call
<1>3. ASSUME NEW t \in Tasks, NEW g \in Graphs, GetExecutionState(t, g) PROVE OwnExecution'
  BY <1>3 DEF GetExecutionState, Call
<1>4. ASSUME NEW t \in Tasks, Insert(t) PROVE OwnExecution'
  BY <1>4 DEF Insert
<1>5. ASSUME NEW t \in Tasks, StageBegin(t) PROVE OwnExecution'
  BY <1>5 DEF StageBegin, Granted
<1>6. ASSUME NEW t \in Tasks, StageEnd(t) PROVE OwnExecution'
  BY <1>6 DEF StageEnd
<1>7. ASSUME NEW t \in Tasks, CleanUp(t) PROVE OwnExecution'
  BY <1>7 DEF CleanUp, Return
<1>8. ASSUME NEW t \in Tasks, FinishCancel(t) PROVE OwnExecution'
  BY <1>8 DEF FinishCancel
<1>9. ASSUME NEW t \in Tasks, FinishLookup(t) PROVE OwnExecution'
  BY <1>9 DEF FinishLookup, Return
<1>10. ASSUME NEW t \in Tasks, DropFuture(t) PROVE OwnExecution'
  BY <1>10 DEF DropFuture
<1>11. CASE UNCHANGED vars
  BY <1>11 DEF vars
<1> HIDE MayExecuteAssumption DEF Locals, TypeOK, Waiting, InFlight, OwnExecution
<1> QED
  BY <1>1, <1>2, <1>3, <1>4, <1>5, <1>6, <1>7, <1>8, <1>9, <1>10, <1>11
     DEF Next, Proceed

\* With a graph of its own, an execution's entry goes only by its own clean-up or
\* by a cancel, which the history records.
LEMMA VisibleStep ==
    ASSUME Locals, OwnExecution, InFlightIsVisible, [Next]_vars
    PROVE  InFlightIsVisible'
<1> USE MayExecuteAssumption DEF Locals, TypeOK, Waiting, InFlight, OwnExecution, OnlyExecutor, InFlightIsVisible
<1>1. ASSUME NEW t \in Tasks, NEW g \in MayExecute[t], Execute(t, g) PROVE InFlightIsVisible'
  BY <1>1 DEF Execute, Call
<1>2. ASSUME NEW t \in Tasks, NEW g \in Graphs, Cancel(t, g) PROVE InFlightIsVisible'
  BY <1>2 DEF Cancel, Call
<1>3. ASSUME NEW t \in Tasks, NEW g \in Graphs, GetExecutionState(t, g) PROVE InFlightIsVisible'
  BY <1>3 DEF GetExecutionState, Call
<1>4. ASSUME NEW t \in Tasks, Insert(t) PROVE InFlightIsVisible'
  BY <1>4 DEF Insert
<1>5. ASSUME NEW t \in Tasks, StageBegin(t) PROVE InFlightIsVisible'
  BY <1>5 DEF StageBegin, Granted
<1>6. ASSUME NEW t \in Tasks, StageEnd(t) PROVE InFlightIsVisible'
  BY <1>6 DEF StageEnd
<1>7. ASSUME NEW t \in Tasks, CleanUp(t) PROVE InFlightIsVisible'
  BY <1>7 DEF CleanUp, Return
<1>8. ASSUME NEW t \in Tasks, FinishCancel(t) PROVE InFlightIsVisible'
  BY <1>8 DEF FinishCancel
<1>9. ASSUME NEW t \in Tasks, FinishLookup(t) PROVE InFlightIsVisible'
  BY <1>9 DEF FinishLookup, Return
<1>10. ASSUME NEW t \in Tasks, DropFuture(t) PROVE InFlightIsVisible'
  BY <1>10 DEF DropFuture
<1>11. CASE UNCHANGED vars
  BY <1>11 DEF vars
<1> HIDE MayExecuteAssumption DEF Locals, TypeOK, Waiting, InFlight, OwnExecution, OnlyExecutor, InFlightIsVisible
<1> QED
  BY <1>1, <1>2, <1>3, <1>4, <1>5, <1>6, <1>7, <1>8, <1>9, <1>10, <1>11
     DEF Next, Proceed

\* An execution in flight of a graph that no other task executes has its entry
\* until a cancel has answered Ok.
THEOREM ExecutionsAreVisible == Spec => []InFlightIsVisible
<1>1. Init => OwnExecution /\ InFlightIsVisible
  BY DEF Init, OwnExecution, InFlightIsVisible, InFlight
<1>2. Inv /\ OwnExecution /\ InFlightIsVisible /\ [Next]_vars
        => (OwnExecution /\ InFlightIsVisible)'
  BY OwnStep, VisibleStep DEF Inv
<1> QED
  BY <1>1, <1>2, Invariance, PTL DEF Spec

-----------------------------------------------------------------------------
(* The lock serves in order of arrival: the part of CallsReturn that is    *)
(* about states and steps.                                                 *)

\* The queue is the waiting tasks, each of them once.
QueueIsWaiters ==
    /\ \A i \in DOMAIN queue : pc[queue[i]] \in Waiting
    /\ \A t \in Tasks : pc[t] \in Waiting => \E i \in DOMAIN queue : queue[i] = t
    /\ \A i, j \in DOMAIN queue : queue[i] = queue[j] => i = j

\* While tasks wait, one of them is at its turn, or a stage runs and will give the
\* guard back: a future dropped inside the queue or with the guard in its hands
\* leaves nothing behind that blocks the others.
SomeTaskCanGo ==
    (\E t \in Tasks : pc[t] \in Waiting) =>
        \E t \in Tasks : pc[t] = "running" \/ (pc[t] \in Waiting /\ Granted(t))

\* A waiting task keeps its place in the queue or moves up, and moves up whenever
\* somebody before it is served or gives up: nobody overtakes it.
WaitersAdvance ==
    [][\A i \in DOMAIN queue :
           LET t == queue[i] IN
             pc'[t] = pc[t] =>
                 \E j \in DOMAIN queue' :
                     /\ queue'[j] = t
                     /\ j <= i
                     /\ (\E k \in 1 .. i - 1 : pc'[queue[k]] # pc[queue[k]]) => j < i]_vars

\* A step does one of four things to the queue: somebody joins, leaves, requeues, or
\* nobody in it is touched.
QueueInv == TypeOK /\ HolderRuns /\ QueueIsWaiters

\* What WaitersAdvance says of one step.
Advance ==
    \A i \in DOMAIN queue :
        pc'[queue[i]] = pc[queue[i]] =>
            \E j \in DOMAIN queue' :
                /\ queue'[j] = queue[i]
                /\ j <= i
                /\ (\E k \in 1 .. i - 1 : pc'[queue[k]] # pc[queue[k]]) => j < i

\* Somebody joins at the end.
LEMMA Joins ==
    ASSUME QueueInv, NEW t \in Tasks, NEW w \in Waiting, pc[t] \notin Waiting,
           pc' = [pc EXCEPT ![t] = w], queue' = Append(queue, t)
    PROVE  QueueIsWaiters' /\ Advance
<1> DEFINE n == Len(queue)
<1>1. /\ queue \in Seq(Tasks) /\ DOMAIN queue = 1 .. n /\ n \in Nat
      /\ DOMAIN queue' = 1 .. n + 1 /\ queue'[n + 1] = t
      /\ \A i \in DOMAIN queue : queue'[i] = queue[i]
  BY JoinFacts DEF QueueInv, TypeOK
<1>2. \A i \in DOMAIN queue : queue[i] \in Tasks /\ queue[i] # t /\ pc'[queue[i]] = pc[queue[i]]
  BY <1>1 DEF QueueInv, QueueIsWaiters, TypeOK
<1>3. pc'[t] = w /\ \A u \in Tasks \ {t} : pc'[u] = pc[u]
  BY DEF QueueInv, TypeOK
<1> HIDE DEF n
<1>4. \A i \in DOMAIN queue' : i \in DOMAIN queue \/ i = n + 1
  BY <1>1
<1>5. QueueIsWaiters'
  <2>1. \A i \in DOMAIN queue' : pc'[queue'[i]] \in Waiting
    BY <1>1, <1>2, <1>3, <1>4 DEF QueueInv, QueueIsWaiters
  <2>2. ASSUME NEW u \in Tasks, pc'[u] \in Waiting PROVE \E i \in DOMAIN queue' : queue'[i] = u
    <3>1. CASE u = t
      <4>1. n + 1 \in DOMAIN queue'
        BY <1>1
      <4> QED
        BY <1>1, <3>1, <4>1
    <3>2. CASE u # t
      <4>1. PICK i \in DOMAIN queue : queue[i] = u
        BY <1>3, <2>2, <3>2 DEF QueueInv, QueueIsWaiters
      <4>2. i \in DOMAIN queue'
        BY <1>1
      <4> QED
        BY <1>1, <4>1, <4>2
    <3> QED
      BY <3>1, <3>2
  <2>3. \A i, j \in DOMAIN queue' : queue'[i] = queue'[j] => i = j
    BY <1>1, <1>2, <1>4 DEF QueueInv, QueueIsWaiters
  <2> QED
    BY <2>1, <2>2, <2>3 DEF QueueIsWaiters
<1>6. Advance
  <2>1. ASSUME NEW i \in DOMAIN queue
        PROVE  \E j \in DOMAIN queue' :
                 /\ queue'[j] = queue[i] /\ j <= i
                 /\ (\E k \in 1 .. i - 1 : pc'[queue[k]] # pc[queue[k]]) => j < i
    <3>1. i \in DOMAIN queue' /\ queue'[i] = queue[i] /\ i <= i
      BY <1>1
    <3>2. \A k \in 1 .. i - 1 : pc'[queue[k]] = pc[queue[k]]
      BY <1>1, <1>2
    <3> QED
      BY <3>1, <3>2
  <2> QED
    BY <2>1 DEF Advance
<1> QED
  BY <1>5, <1>6

\* The one at place k leaves, and those after it move up.
LEMMA Leaves ==
    ASSUME QueueInv, NEW k \in DOMAIN queue, NEW w, w \notin Waiting,
           pc' = [pc EXCEPT ![queue[k]] = w],
           DOMAIN queue' = 1 .. Len(queue) - 1,
           \A i \in 1 .. Len(queue) - 1 : queue'[i] = IF i < k THEN queue[i] ELSE queue[i + 1]
    PROVE  QueueIsWaiters' /\ Advance
<1> DEFINE n == Len(queue)
           t == queue[k]
           old(i) == IF i < k THEN i ELSE i + 1
<1>1. /\ queue \in Seq(Tasks) /\ DOMAIN queue = 1 .. n /\ n \in Nat /\ k \in 1 .. n
      /\ \A i \in 1 .. n : queue[i] \in Tasks
  BY LenProperties DEF QueueInv, TypeOK
<1>2. DOMAIN queue' = 1 .. n - 1
  OBVIOUS
<1>3. \A i \in 1 .. n - 1 : old(i) \in 1 .. n /\ old(i) # k /\ queue'[i] = queue[old(i)]
  BY <1>1
<1>4. \A i, j \in 1 .. n - 1 : old(i) = old(j) => i = j
  OBVIOUS
<1>5. \A i \in 1 .. n : i # k => queue[i] # t /\ pc'[queue[i]] = pc[queue[i]]
  BY <1>1 DEF QueueInv, QueueIsWaiters, TypeOK
<1>6. pc'[t] = w /\ \A u \in Tasks \ {t} : pc'[u] = pc[u]
  BY <1>1 DEF QueueInv, TypeOK
<1>7. \A i \in 1 .. n : i # k => \E j \in 1 .. n - 1 : old(j) = i /\ j <= i /\ (k < i => j < i)
  <2> SUFFICES ASSUME NEW i \in 1 .. n, i # k
               PROVE  \E j \in 1 .. n - 1 : old(j) = i /\ j <= i /\ (k < i => j < i)
    OBVIOUS
  <2>1. CASE i < k
    <3>1. i \in 1 .. n - 1 /\ old(i) = i
      BY <1>1, <2>1
    <3> QED
      BY <1>1, <2>1, <3>1
  <2>2. CASE k < i
    <3>1. i - 1 \in 1 .. n - 1 /\ old(i - 1) = i /\ i - 1 < i
      BY <1>1, <2>2
    <3> QED
      BY <1>1, <3>1
  <2> QED
    BY <1>1, <2>1, <2>2
<1> HIDE DEF n, t, old
<1>8. QueueIsWaiters'
  <2>1. \A i \in DOMAIN queue' : pc'[queue'[i]] \in Waiting
    BY <1>1, <1>2, <1>3, <1>5 DEF QueueInv, QueueIsWaiters
  <2>2. ASSUME NEW u \in Tasks, pc'[u] \in Waiting PROVE \E i \in DOMAIN queue' : queue'[i] = u
    <3>1. u # t /\ pc[u] \in Waiting
      BY <1>6, <2>2
    <3>2. PICK i \in 1 .. n : queue[i] = u
      BY <1>1, <3>1 DEF QueueInv, QueueIsWaiters
    <3>3. i # k
      BY <3>1, <3>2 DEF t
    <3> QED
      BY <1>2, <1>3, <1>7, <3>2, <3>3
  <2>3. \A i, j \in DOMAIN queue' : queue'[i] = queue'[j] => i = j
    <3> TAKE i, j \in DOMAIN queue'
    <3>1. queue'[i] = queue[old(i)] /\ queue'[j] = queue[old(j)]
          /\ old(i) \in 1 .. n /\ old(j) \in 1 .. n
      BY <1>2, <1>3
    <3> QED
      BY <1>1, <1>2, <1>4, <3>1 DEF QueueInv, QueueIsWaiters
  <2> QED
    BY <2>1, <2>2, <2>3 DEF QueueIsWaiters
<1>9. Advance
  <2> SUFFICES ASSUME NEW i \in DOMAIN queue, pc'[queue[i]] = pc[queue[i]]
               PROVE  \E j \in DOMAIN queue' :
                        /\ queue'[j] = queue[i] /\ j <= i
                        /\ (\E l \in 1 .. i - 1 : pc'[queue[l]] # pc[queue[l]]) => j < i
    BY DEF Advance
  <2>1. i \in 1 .. n /\ i # k
    BY <1>1, <1>6 DEF t, QueueInv, QueueIsWaiters
  <2>2. PICK j \in 1 .. n - 1 : old(j) = i /\ j <= i /\ (k < i => j < i)
    BY <1>7, <2>1
  <2>3. \A l \in 1 .. i - 1 : pc'[queue[l]] # pc[queue[l]] => l = k
    BY <1>1, <1>5, <2>1
  <2>4. (\E l \in 1 .. i - 1 : pc'[queue[l]] # pc[queue[l]]) => k < i
    BY <1>1, <2>1, <2>3
  <2> QED
    BY <1>2, <1>3, <2>2, <2>4
<1> QED
  BY <1>8, <1>9

\* The head is served and joins again at the end.
LEMMA Requeues ==
    ASSUME QueueInv, NEW t \in Tasks, Granted(t), NEW w \in Waiting, pc[t] # w,
           pc' = [pc EXCEPT ![t] = w], queue' = Append(Tail(queue), t)
    PROVE  QueueIsWaiters' /\ Advance
<1> DEFINE n == Len(queue)
<1>1. /\ queue \in Seq(Tasks) /\ DOMAIN queue = 1 .. n /\ n \in Nat \ {0} /\ queue[1] = t
      /\ \A i \in 1 .. n : queue[i] \in Tasks
      /\ Tail(queue) \in Seq(Tasks) /\ Len(Tail(queue)) = n - 1
      /\ \A i \in 1 .. n - 1 : Tail(queue)[i] = queue[i + 1]
  BY ServeFacts, LenProperties DEF QueueInv, TypeOK, Granted
<1>2. /\ DOMAIN queue' = 1 .. n /\ queue'[n] = t
      /\ \A i \in 1 .. n - 1 : queue'[i] = queue[i + 1]
  <2>1. /\ DOMAIN queue' = 1 .. (n - 1) + 1 /\ queue'[(n - 1) + 1] = t
        /\ DOMAIN Tail(queue) = 1 .. n - 1
        /\ \A i \in DOMAIN Tail(queue) : queue'[i] = Tail(queue)[i]
    BY <1>1, JoinFacts
  <2>2. (n - 1) + 1 = n
    BY <1>1
  <2> QED
    BY <1>1, <2>1, <2>2
<1>3. pc'[t] = w /\ \A u \in Tasks \ {t} : pc'[u] = pc[u]
  BY DEF QueueInv, TypeOK
<1> HIDE DEF n
<1>4. \A i \in 2 .. n : i - 1 \in 1 .. n - 1 /\ queue'[i - 1] = queue[i] /\ queue[i] # t
                        /\ pc'[queue[i]] = pc[queue[i]]
  <2> SUFFICES ASSUME NEW i \in 2 .. n
               PROVE  /\ i - 1 \in 1 .. n - 1 /\ queue'[i - 1] = queue[i] /\ queue[i] # t
                      /\ pc'[queue[i]] = pc[queue[i]]
    OBVIOUS
  <2>1. i - 1 \in 1 .. n - 1 /\ (i - 1) + 1 = i /\ i \in 1 .. n /\ i # 1 /\ 1 \in 1 .. n
    BY <1>1
  <2>2. queue[i] # t /\ queue[i] \in Tasks
    BY <1>1, <2>1 DEF QueueInv, QueueIsWaiters
  <2> QED
    BY <1>2, <1>3, <2>1, <2>2
<1>5. \A i \in 1 .. n : i = n \/ (i \in 1 .. n - 1 /\ i + 1 \in 2 .. n)
  BY <1>1
<1>6. QueueIsWaiters'
  <2>1. \A i \in DOMAIN queue' : pc'[queue'[i]] \in Waiting
    <3> TAKE i \in DOMAIN queue'
    <3>1. CASE i = n
      BY <1>2, <1>3, <3>1
    <3>2. CASE i \in 1 .. n - 1 /\ i + 1 \in 2 .. n
      <4>1. queue'[i] = queue[i + 1] /\ pc'[queue[i + 1]] = pc[queue[i + 1]] /\ i + 1 \in 1 .. n
        BY <1>1, <1>2, <1>4, <3>2
      <4> QED
        BY <1>1, <4>1 DEF QueueInv, QueueIsWaiters
    <3> QED
      BY <1>2, <1>5, <3>1, <3>2
  <2>2. ASSUME NEW u \in Tasks, pc'[u] \in Waiting PROVE \E i \in DOMAIN queue' : queue'[i] = u
    <3>1. CASE u = t
      <4>1. n \in DOMAIN queue'
        BY <1>1, <1>2
      <4> QED
        BY <1>2, <3>1, <4>1
    <3>2. CASE u # t
      <4>1. PICK i \in 1 .. n : queue[i] = u
        BY <1>1, <1>3, <2>2, <3>2 DEF QueueInv, QueueIsWaiters
      <4>2. i \in 2 .. n
        BY <1>1, <3>2, <4>1
      <4>3. i - 1 \in DOMAIN queue' /\ queue'[i - 1] = u
        BY <1>1, <1>2, <1>4, <4>1, <4>2
      <4> QED
        BY <4>3
    <3> QED
      BY <3>1, <3>2
  <2>3. ASSUME NEW i \in DOMAIN queue', NEW j \in DOMAIN queue', queue'[i] = queue'[j]
        PROVE  i = j
    <3>1. \A l \in 1 .. n : queue'[l] = t => l = n
      <4> TAKE l \in 1 .. n
      <4>1. CASE l \in 1 .. n - 1 /\ l + 1 \in 2 .. n
        BY <1>2, <1>4, <4>1
      <4> QED
        BY <1>5, <4>1
    <3>2. CASE i = n \/ j = n
      BY <1>2, <2>3, <3>1, <3>2
    <3>3. CASE i # n /\ j # n
      <4>1. /\ i \in 1 .. n - 1 /\ j \in 1 .. n - 1 /\ i + 1 \in 1 .. n /\ j + 1 \in 1 .. n
            /\ queue[i + 1] = queue[j + 1]
        BY <1>1, <1>2, <2>3, <3>3
      <4>2. i + 1 = j + 1
        BY <1>1, <4>1 DEF QueueInv, QueueIsWaiters
      <4> QED
        BY <1>1, <4>1, <4>2
    <3> QED
      BY <3>2, <3>3
  <2> QED
    BY <2>1, <2>2, <2>3 DEF QueueIsWaiters
<1>7. Advance
  <2> SUFFICES ASSUME NEW i \in DOMAIN queue, pc'[queue[i]] = pc[queue[i]]
               PROVE  \E j \in DOMAIN queue' : queue'[j] = queue[i] /\ j <= i /\ j < i
    BY DEF Advance
  <2>1. i \in 2 .. n
    BY <1>1, <1>3
  <2>2. i - 1 \in DOMAIN queue' /\ queue'[i - 1] = queue[i] /\ i - 1 <= i /\ i - 1 < i
    BY <1>1, <1>2, <1>4, <2>1
  <2> QED
    BY <2>2
<1> QED
  BY <1>6, <1>7

\* Only tasks that do not wait, before or after, change.
LEMMA Stays ==
    ASSUME QueueInv, UNCHANGED queue,
           \A t \in Tasks : pc'[t] # pc[t] => pc[t] \notin Waiting /\ pc'[t] \notin Waiting
    PROVE  QueueIsWaiters' /\ Advance
<1>1. /\ queue \in Seq(Tasks) /\ DOMAIN queue = 1 .. Len(queue) /\ Len(queue) \in Nat
      /\ \A i \in DOMAIN queue : queue[i] \in Tasks
  BY LenProperties DEF QueueInv, TypeOK
<1>2. \A i \in DOMAIN queue : pc'[queue[i]] = pc[queue[i]]
  BY <1>1 DEF QueueInv, QueueIsWaiters
<1>3. QueueIsWaiters'
  BY <1>1, <1>2 DEF QueueInv, QueueIsWaiters
<1>4. Advance
  <2>1. \A i \in DOMAIN queue : i <= i /\ \A k \in 1 .. i - 1 : k \in DOMAIN queue
    BY <1>1
  <2> QED
    BY <1>2, <2>1 DEF Advance
<1> QED
  BY <1>3, <1>4

LEMMA QueueStep ==
    ASSUME Inv, QueueIsWaiters, [Next]_vars PROVE QueueIsWaiters' /\ Advance
<1> DEFINE Goal == QueueIsWaiters' /\ Advance
<1>0. QueueInv /\ TypeOK /\ HolderRuns
  BY DEF Inv, Locals, QueueInv
<1>a. ASSUME NEW t \in Tasks, Granted(t), NEW w, w \notin Waiting,
             pc' = [pc EXCEPT ![t] = w], queue' = Tail(queue)
      PROVE  Goal
  <2>1. queue \in Seq(Tasks) /\ queue # <<>> /\ Head(queue) = t
    BY <1>0, <1>a DEF TypeOK, Granted
  <2>2. /\ 1 \in DOMAIN queue /\ queue[1] = t /\ DOMAIN queue' = 1 .. Len(queue) - 1
        /\ \A i \in 1 .. Len(queue) - 1 :
             queue'[i] = IF i < 1 THEN queue[i] ELSE queue[i + 1]
    BY <1>a, <2>1, ServeFacts
  <2> QED
    BY <1>0, <1>a, <2>2, Leaves
<1>1. ASSUME NEW t \in Tasks, NEW g, NEW w \in Waiting, Call(t, g, w) PROVE Goal
  BY <1>0, <1>1, Joins DEF Call, Waiting
<1>2. ASSUME NEW t \in Tasks, Insert(t) PROVE Goal
  BY <1>0, <1>2, Requeues DEF Insert, Waiting
<1>3. ASSUME NEW t \in Tasks, StageBegin(t) PROVE Goal
  BY <1>a, <1>3 DEF StageBegin, Waiting
<1>4. ASSUME NEW t \in Tasks, StageEnd(t) PROVE Goal
  <2>1. PICK w \in Waiting : pc' = [pc EXCEPT ![t] = w]
    BY <1>4 DEF StageEnd, Waiting
  <2>2. pc[t] \notin Waiting /\ queue' = Append(queue, t)
    BY <1>4 DEF StageEnd, Waiting
  <2> QED
    BY <1>0, <2>1, <2>2, Joins
<1>5. ASSUME NEW t \in Tasks, CleanUp(t) PROVE Goal
  BY <1>a, <1>5 DEF CleanUp, Return, Waiting
<1>6. ASSUME NEW t \in Tasks, FinishCancel(t) PROVE Goal
  BY <1>a, <1>6 DEF FinishCancel, Waiting
<1>7. ASSUME NEW t \in Tasks, FinishLookup(t) PROVE Goal
  BY <1>a, <1>7 DEF FinishLookup, Return, Waiting
<1>8. ASSUME NEW t \in Tasks, DropFuture(t) PROVE Goal
  <2>1. pc' = [pc EXCEPT ![t] = "dropped"] /\ "dropped" \notin Waiting /\ LeaveQueue(t)
    BY <1>8 DEF DropFuture, Waiting
  <2>2. ASSUME NEW k \in DOMAIN queue, queue[k] = t, queue' = RemoveAt(queue, k) PROVE Goal
    <3>1. queue \in Seq(Tasks)
      BY <1>0 DEF TypeOK
    <3>2. /\ DOMAIN queue' = 1 .. Len(queue) - 1
          /\ \A i \in 1 .. Len(queue) - 1 :
               queue'[i] = IF i < k THEN queue[i] ELSE queue[i + 1]
      BY <2>2, <3>1, LeaveFacts
    <3>3. pc' = [pc EXCEPT ![queue[k]] = "dropped"]
      BY <2>1, <2>2
    <3> QED
      BY <1>0, <2>1, <3>2, <3>3, Leaves
  <2>3. CASE pc[t] \notin Waiting /\ UNCHANGED queue
    <3>1. \A u \in Tasks : pc'[u] # pc[u] => pc[u] \notin Waiting /\ pc'[u] \notin Waiting
      BY <1>0, <2>1, <2>3 DEF TypeOK
    <3> QED
      BY <1>0, <2>3, <3>1, Stays
  <2> QED
    BY <2>1, <2>2, <2>3 DEF LeaveQueue
<1>9. CASE UNCHANGED vars
  BY <1>0, <1>9, Stays DEF vars
<1> QED
  BY <1>1, <1>2, <1>3, <1>4, <1>5, <1>6, <1>7, <1>8, <1>9
     DEF Next, Proceed, Execute, Cancel, GetExecutionState, Waiting

LEMMA QueueHolds == Spec => []QueueIsWaiters
<1>1. Init => QueueIsWaiters
  BY DEF Init, QueueIsWaiters, Waiting
<1>2. Inv /\ QueueIsWaiters /\ [Next]_vars => QueueIsWaiters'
  BY QueueStep
<1> QED
  BY <1>1, <1>2, Invariance, PTL DEF Spec

\* However many tasks call, execute and give up, the lock always has somebody to
\* serve, or a stage to wait for, while tasks wait.
THEOREM LockIsServed == Spec => []SomeTaskCanGo
<1>1. Inv /\ QueueIsWaiters => SomeTaskCanGo
  <2> SUFFICES ASSUME Inv, QueueIsWaiters, NEW t \in Tasks, pc[t] \in Waiting
               PROVE  \E u \in Tasks : pc[u] = "running" \/ (pc[u] \in Waiting /\ Granted(u))
    BY DEF SomeTaskCanGo
  <2>1. CASE holder # None
    BY <2>1 DEF Inv, Locals, TypeOK, HolderRuns
  <2>2. CASE holder = None
    <3>1. queue \in Seq(Tasks) /\ queue # <<>>
      BY DEF Inv, Locals, TypeOK, QueueIsWaiters
    <3>2. 1 \in DOMAIN queue /\ queue[1] = Head(queue) /\ Head(queue) \in Tasks
      BY <3>1, ServeFacts
    <3>3. Granted(Head(queue)) /\ pc[Head(queue)] \in Waiting
      BY <2>2, <3>1, <3>2 DEF Granted, QueueIsWaiters
    <3> QED
      BY <3>2, <3>3
  <2> QED
    BY <2>1, <2>2
<1> QED
  BY <1>1, Invariance, QueueHolds, PTL

\* Nobody is overtaken: with the turns of those before it a task comes to its own.
THEOREM NobodyIsOvertaken == Spec => WaitersAdvance
<1>1. Inv /\ QueueIsWaiters /\ [Next]_vars => [Advance]_vars
  BY QueueStep
<1> QED
  BY <1>1, Invariance, QueueHolds, PTL DEF Spec, WaitersAdvance, Advance

-----------------------------------------------------------------------------
(* Wasm. *)

\* A caller works for a tenant that it serves.
ForServed == \A c \in Callers : for[c] \in Serves[c]

LEMMA WasmTypeInit == WasmInit => WasmTypeOK /\ ForServed
<1> SUFFICES ASSUME WasmInit PROVE WasmTypeOK /\ ForServed
  OBVIOUS
<1>1. \A c \in Callers : Serves[c] \subseteq Tenants /\ \E t \in Serves[c] : TRUE
  BY ServesAssumption
<1>2. \A c \in Callers : (CHOOSE t \in Serves[c] : TRUE) \in Serves[c]
  BY <1>1
<1>3. \A c \in Callers : for[c] \in Serves[c]
  BY <1>2 DEF WasmInit
<1> QED
  BY <1>1, <1>2, <1>3 DEF WasmInit, WasmTypeOK, ForServed

LEMMA WasmTypeStep == WasmTypeOK /\ [WasmNext]_wasmVars => WasmTypeOK'
<1> SUFFICES ASSUME WasmTypeOK, [WasmNext]_wasmVars PROVE WasmTypeOK'
  OBVIOUS
<1> USE DEF WasmTypeOK
<1>1. ASSUME NEW t \in Tenants, NEW q \in 0 .. MaxQuota, RegisterQuota(t, q), UNCHANGED modules
      PROVE  WasmTypeOK'
  BY <1>1 DEF RegisterQuota
<1>2. ASSUME NEW c \in Callers, NEW t \in Tenants, Ask(c, t), UNCHANGED modules
      PROVE  WasmTypeOK'
  BY <1>2 DEF Ask
<1>3. ASSUME NEW c \in Callers, RecordExecutionStart(c), UNCHANGED modules PROVE WasmTypeOK'
  BY <1>3 DEF RecordExecutionStart
<1>4. ASSUME NEW c \in Callers, RecordExecutionEnd(c), UNCHANGED modules PROVE WasmTypeOK'
  BY <1>4 DEF RecordExecutionEnd, CountDown
<1>5. ASSUME NEW c \in Callers, RecordEndAgain(c), UNCHANGED modules PROVE WasmTypeOK'
  BY <1>5 DEF RecordEndAgain, CountDown
<1>6. ASSUME NEW c \in Callers, LoseEnd(c), UNCHANGED modules PROVE WasmTypeOK'
  BY <1>6 DEF LoseEnd
<1>7. ASSUME NEW m \in ModuleIds, NEW b \in Bytes, CompileModule(m, b) PROVE WasmTypeOK'
  BY <1>7 DEF CompileModule, tenantVars
<1>8. CASE UNCHANGED wasmVars
  BY <1>8 DEF wasmVars, tenantVars
<1> QED
  BY <1>1, <1>2, <1>3, <1>4, <1>5, <1>6, <1>7, <1>8 DEF WasmNext

\* WasmTypeOK is an invariant: a counter of executions never falls below 0.
THEOREM WasmTypeCorrect == WasmSpec => []WasmTypeOK
BY WasmTypeInit, WasmTypeStep, PTL DEF WasmSpec

\* What could outdate an answer takes its caller out of fresh.
LEMMA FreshStep ==
    ASSUME WasmTypeOK, FreshAnswersHold, [WasmNext]_wasmVars PROVE FreshAnswersHold'
<1> USE NoQuotaAssumption, MaxQuotaAssumption DEF WasmTypeOK, FreshAnswersHold, CallersFor
<1>1. ASSUME NEW t \in Tenants, NEW q \in 0 .. MaxQuota, RegisterQuota(t, q)
      PROVE  FreshAnswersHold'
  BY <1>1 DEF RegisterQuota
<1>2. ASSUME NEW c \in Callers, NEW t \in Tenants, Ask(c, t) PROVE FreshAnswersHold'
  BY <1>2 DEF Ask, CanExecute
<1>3. ASSUME NEW c \in Callers, RecordExecutionStart(c) PROVE FreshAnswersHold'
  BY <1>3 DEF RecordExecutionStart
<1>4. ASSUME NEW c \in Callers, RecordExecutionEnd(c) PROVE FreshAnswersHold'
  BY <1>4 DEF RecordExecutionEnd, CountDown
<1>5. ASSUME NEW c \in Callers, RecordEndAgain(c) PROVE FreshAnswersHold'
  BY <1>5 DEF RecordEndAgain, CountDown
<1>6. ASSUME NEW c \in Callers, LoseEnd(c) PROVE FreshAnswersHold'
  BY <1>6 DEF LoseEnd
<1>7. ASSUME NEW m \in ModuleIds, NEW b \in Bytes, CompileModule(m, b) PROVE FreshAnswersHold'
  BY <1>7 DEF CompileModule, tenantVars
<1>8. CASE UNCHANGED wasmVars
  BY <1>8 DEF wasmVars, tenantVars
<1> QED
  BY <1>1, <1>2, <1>3, <1>4, <1>5, <1>6, <1>7, <1>8 DEF WasmNext

\* Whoever asks again after each start or registration never exceeds a quota.
THEOREM FreshAnswersAreTrue == WasmSpec => []FreshAnswersHold
<1>1. WasmInit => FreshAnswersHold
  BY DEF WasmInit, FreshAnswersHold
<1> QED
  BY <1>1, FreshStep, WasmTypeCorrect, PTL DEF WasmSpec

LEMMA ServedStep == ASSUME WasmTypeOK, ForServed, [WasmNext]_wasmVars PROVE ForServed'
BY DEF WasmTypeOK, ForServed, WasmNext, RegisterQuota, Ask, RecordExecutionStart,
       RecordExecutionEnd, RecordEndAgain, LoseEnd, CompileModule, tenantVars, wasmVars

\* Executing(t) is a finite set, and what one caller more or less does to its size.
LEMMA ExecutingFacts ==
    ASSUME NEW t
    PROVE  /\ IsFiniteSet(Executing(t))
           /\ Cardinality(Executing(t)) \in Nat
           /\ \A c : c \notin Executing(t) =>
                Cardinality(Executing(t) \cup {c}) = Cardinality(Executing(t)) + 1
           /\ \A c \in Executing(t) :
                /\ Cardinality(Executing(t)) > 0
                /\ Cardinality(Executing(t) \ {c}) = Cardinality(Executing(t)) - 1
<1>1. IsFiniteSet(Executing(t))
  BY CallersAssumption, FS_Subset DEF Executing
<1>2. \A c : IsFiniteSet(Executing(t) \ {c})
  BY <1>1, FS_RemoveElement
<1> QED
  BY <1>1, <1>2, FS_CardinalityType, FS_AddElement, FS_RemoveElement

LEMMA CountedStep ==
    ASSUME WasmTypeOK, ForServed, ExecutionsAreCounted, [WasmNext]_wasmVars
    PROVE  ExecutionsAreCounted'
<1> SUFFICES ASSUME NEW t \in Tenants, \A c \in Careless : t \notin Serves[c]
             PROVE  active'[t] = Cardinality(Executing(t)')
  BY DEF ExecutionsAreCounted, Executing
<1>1. active[t] = Cardinality(Executing(t)) /\ Cardinality(Executing(t)) \in Nat
  BY ExecutingFacts DEF ExecutionsAreCounted
<1>2. ASSUME NEW c \in Callers, NEW s \in Tenants, Ask(c, s)
      PROVE  Executing(t)' = Executing(t) /\ active' = active
  BY <1>2 DEF Ask, Executing, WasmTypeOK
<1>3. ASSUME NEW c \in Callers, RecordExecutionStart(c)
      PROVE  active'[t] = Cardinality(Executing(t)')
  <2>1. CASE for[c] = t
    <3>1. Executing(t)' = Executing(t) \cup {c} /\ c \notin Executing(t)
      BY <1>3, <2>1 DEF RecordExecutionStart, Executing, WasmTypeOK
    <3>2. active'[t] = active[t] + 1
      BY <1>3, <2>1 DEF RecordExecutionStart, WasmTypeOK
    <3> QED
      BY <3>1, <3>2, <1>1, ExecutingFacts
  <2>2. CASE for[c] # t
    <3>1. Executing(t)' = Executing(t) /\ active'[t] = active[t]
      BY <1>3, <2>2 DEF RecordExecutionStart, Executing, WasmTypeOK
    <3> QED
      BY <3>1, <1>1
  <2> QED
    BY <2>1, <2>2
<1>4. ASSUME NEW c \in Callers, RecordExecutionEnd(c)
      PROVE  active'[t] = Cardinality(Executing(t)')
  <2>1. CASE for[c] = t
    <3>1. Executing(t)' = Executing(t) \ {c} /\ c \in Executing(t)
      BY <1>4, <2>1 DEF RecordExecutionEnd, Executing, WasmTypeOK
    <3>2. active[t] > 0
      BY <3>1, <1>1, ExecutingFacts
    <3>3. active'[t] = active[t] - 1
      BY <1>4, <2>1, <3>2 DEF RecordExecutionEnd, CountDown, WasmTypeOK
    <3> QED
      BY <3>1, <3>3, <1>1, ExecutingFacts
  <2>2. CASE for[c] # t
    <3>1. Executing(t)' = Executing(t) /\ active'[t] = active[t]
      BY <1>4, <2>2 DEF RecordExecutionEnd, CountDown, Executing, WasmTypeOK
    <3> QED
      BY <3>1, <1>1
  <2> QED
    BY <2>1, <2>2
<1>5. ASSUME NEW c \in Callers, RecordEndAgain(c)
      PROVE  Executing(t)' = Executing(t) /\ active'[t] = active[t]
  <2>1. for[c] # t
    BY <1>5 DEF RecordEndAgain, ForServed
  <2> QED
    BY <1>5, <2>1 DEF RecordEndAgain, CountDown, Executing, WasmTypeOK
<1>6. ASSUME NEW c \in Callers, LoseEnd(c)
      PROVE  Executing(t)' = Executing(t) /\ active'[t] = active[t]
  <2>1. for[c] # t
    BY <1>6 DEF LoseEnd, ForServed
  <2> QED
    BY <1>6, <2>1 DEF LoseEnd, Executing, WasmTypeOK
<1>7. CASE UNCHANGED <<active, does, for>>
  BY <1>1, <1>7 DEF Executing
<1> QED
  BY <1>1, <1>2, <1>3, <1>4, <1>5, <1>6, <1>7
     DEF WasmNext, RegisterQuota, CompileModule, wasmVars, tenantVars

\* A tenant that careless callers do not serve is charged for what it executes.
THEOREM ExecutionsAreCharged == WasmSpec => []ExecutionsAreCounted
<1>1. WasmInit => ExecutionsAreCounted
  <2> SUFFICES ASSUME WasmInit, NEW t \in Tenants PROVE active[t] = Cardinality(Executing(t))
    BY DEF ExecutionsAreCounted
  <2>1. Executing(t) = {}
    BY DEF WasmInit, Executing
  <2> QED
    BY <2>1, FS_EmptySet DEF WasmInit
<1>2. WasmSpec => []ForServed
  BY WasmTypeInit, ServedStep, WasmTypeCorrect, PTL DEF WasmSpec
<1> QED
  BY <1>1, <1>2, CountedStep, WasmTypeCorrect, PTL DEF WasmSpec

-----------------------------------------------------------------------------
(* The answer of can_execute and the start it allows are two calls, and a  *)
(* registration does not look at what runs: two ways past a quota.  There  *)
(* is no third.                                                            *)

\* Callers of a tenant let one another start before they ask.
OneIsLetIn ==
    \A c, d \in Callers :
        does[c] = "admitted" /\ does[d] = "admitted" /\ for[c] = for[d] => c = d

\* A registration has room for what the tenant runs and for whom it let in.
RegistrationsLeaveRoom ==
    [][\A t \in Tenants :
         quotas'[t] # quotas[t] =>
             /\ active[t] <= quotas'[t]
             /\ \A c \in CallersFor(t) : does[c] = "admitted" => active[t] < quotas'[t]]_wasmVars

\* A tenant that nobody registered may run nothing.
Limit(t) == IF quotas[t] = NoQuota THEN 0 ELSE quotas[t]

\* No tenant is charged for more than its max_concurrent, and one that careless
\* callers do not serve runs no more either.
QuotasAreKept ==
    \A t \in Tenants :
        /\ active[t] <= Limit(t)
        /\ (\A c \in Careless : t \notin Serves[c]) => Cardinality(Executing(t)) <= Limit(t)

\* There is room for whoever is let in, and not only for one whose answer is fresh.
RoomIsLeft ==
    /\ \A t \in Tenants : active[t] <= Limit(t)
    /\ \A c \in Callers : does[c] = "admitted" => active[for[c]] < Limit(for[c])

\* Whoever starts takes the room that was left for it, and nobody else was let in.
LEMMA RoomStep ==
    ASSUME WasmTypeOK, RoomIsLeft, OneIsLetIn, [WasmNext]_wasmVars,
           \A t \in Tenants :
               quotas'[t] # quotas[t] =>
                   /\ active[t] <= quotas'[t]
                   /\ \A c \in CallersFor(t) : does[c] = "admitted" => active[t] < quotas'[t]
    PROVE  RoomIsLeft'
<1> USE NoQuotaAssumption, MaxQuotaAssumption DEF WasmTypeOK, RoomIsLeft, Limit
<1>1. ASSUME NEW t \in Tenants, NEW q \in 0 .. MaxQuota, RegisterQuota(t, q)
      PROVE  RoomIsLeft'
  <2>1. ASSUME NEW u \in Tenants
        PROVE  Limit(u)' = Limit(u) \/ (quotas'[u] # quotas[u] /\ Limit(u)' = quotas'[u])
    BY <1>1 DEF RegisterQuota
  <2> QED
    BY <1>1, <2>1 DEF RegisterQuota, CallersFor
<1>2. ASSUME NEW c \in Callers, NEW t \in Tenants, Ask(c, t) PROVE RoomIsLeft'
  BY <1>2 DEF Ask, CanExecute
<1>3. ASSUME NEW c \in Callers, RecordExecutionStart(c) PROVE RoomIsLeft'
  BY <1>3 DEF RecordExecutionStart, OneIsLetIn
<1>4. ASSUME NEW c \in Callers, RecordExecutionEnd(c) PROVE RoomIsLeft'
  BY <1>4 DEF RecordExecutionEnd, CountDown
<1>5. ASSUME NEW c \in Callers, RecordEndAgain(c) PROVE RoomIsLeft'
  BY <1>5 DEF RecordEndAgain, CountDown
<1>6. ASSUME NEW c \in Callers, LoseEnd(c) PROVE RoomIsLeft'
  BY <1>6 DEF LoseEnd
<1>7. CASE UNCHANGED tenantVars
  BY <1>7 DEF tenantVars
<1> QED
  BY <1>1, <1>2, <1>3, <1>4, <1>5, <1>6, <1>7 DEF WasmNext, CompileModule, wasmVars

\* Where callers of a tenant take turns between asking and starting, and quotas are
\* not registered below what runs, no quota is exceeded: can_execute is enough.
THEOREM TurnsKeepQuotas ==
    WasmSpec /\ []OneIsLetIn /\ RegistrationsLeaveRoom => []QuotasAreKept
<1> DEFINE Room ==
        \A t \in Tenants :
            quotas'[t] # quotas[t] =>
                /\ active[t] <= quotas'[t]
                /\ \A c \in CallersFor(t) : does[c] = "admitted" => active[t] < quotas'[t]
<1>1. WasmInit => RoomIsLeft
  BY NoQuotaAssumption, MaxQuotaAssumption DEF WasmInit, RoomIsLeft, Limit
<1>2. WasmTypeOK /\ RoomIsLeft /\ OneIsLetIn /\ [WasmNext]_wasmVars /\ [Room]_wasmVars
        => RoomIsLeft'
  <2>1. CASE UNCHANGED wasmVars
    BY <2>1 DEF wasmVars, tenantVars, RoomIsLeft, Limit
  <2> QED
    BY <2>1, RoomStep
<1>3. RoomIsLeft /\ ExecutionsAreCounted => QuotasAreKept
  BY DEF RoomIsLeft, ExecutionsAreCounted, QuotasAreKept
<1> QED
  BY <1>1, <1>2, <1>3, WasmTypeCorrect, ExecutionsAreCharged, PTL
     DEF WasmSpec, RegistrationsLeaveRoom

-----------------------------------------------------------------------------
(* Stages. *)

\* A file of n chunks, all of them the same.
Filled(n, chunk) == [i \in 1 .. n |-> chunk]

\* A pipeline alone with its file is the only one that writes it, and the file is
\* what it has written.
WholeInv ==
    /\ \A p \in Pipelines :
         at[p] \in {"receptor", "wasm", "aggregation", "terminal"} => written[p] = 0
    /\ \A p \in alone :
         /\ \A q \in SameFile(p) : at[q] = "writing" => q = p
         /\ at[p] = "writing" => files[DirOf[p]] = Filled(written[p], Data(p))
         /\ at[p] = "Ok" => files[DirOf[p]] = Filled(chunks[p], Data(p))

LEMMA FilledFacts ==
    ASSUME NEW n \in Nat, NEW d
    PROVE  Filled(n, d) \in Seq({d}) /\ Len(Filled(n, d)) = n
BY DEF Filled

LEMMA FilledGrows ==
    ASSUME NEW n \in Nat, NEW d PROVE WriteAt(Filled(n, d), n, d) = Filled(n + 1, d)
BY FilledFacts DEF Filled, WriteAt

LEMMA WriteAtType ==
    ASSUME NEW S, NEW file \in Seq(S), NEW n \in Nat, NEW c \in S, Hole \in S
    PROVE  WriteAt(file, n, c) \in Seq(S)
<1> DEFINE m == IF Len(file) > n THEN Len(file) ELSE n + 1
<1>1. m \in Nat
  OBVIOUS
<1>2. WriteAt(file, n, c) \in [1 .. m -> S]
  BY DEF WriteAt
<1> QED
  BY <1>1, <1>2

LEMMA StagesTypeInit == StagesInit => StagesTypeOK /\ WholeInv
BY DirOfAssumption, MaxChunksAssumption
   DEF StagesInit, StagesTypeOK, WholeInv, Metadata, NoMetadata

\* What the stages write into the metadata.
LEMMA MarkFacts ==
    ASSUME NEW m \in Metadata, NEW s \in {"receptor", "wasm", "aggregation", "terminal"},
           NEW e \in {"wasm", "terminal"}
    PROVE  /\ [m EXCEPT !.stage = s] \in Metadata
           /\ [m EXCEPT !.stage = s, !.executed_by = e] \in Metadata
BY DEF Metadata

LEMMA StagesTypeStep == StagesTypeOK /\ [StagesNext]_stagesVars => StagesTypeOK'
<1> SUFFICES ASSUME StagesTypeOK, [StagesNext]_stagesVars PROVE StagesTypeOK'
  OBVIOUS
<1> USE DirOfAssumption, MaxChunksAssumption DEF StagesTypeOK
<1>1. ASSUME NEW p \in Pipelines, Receptor(p) \/ WasmStage(p) \/ Aggregation(p) \/ Ipc(p)
      PROVE  StagesTypeOK'
  <2>1. PICK next \in {"wasm", "aggregation", "terminal"}, mark \in Metadata : Pass(p, next, mark)
    <3>1. ASSUME Receptor(p) PROVE \E mark \in Metadata : Pass(p, "wasm", mark)
      BY <3>1, MarkFacts DEF Receptor
    <3>2. ASSUME WasmStage(p) PROVE \E mark \in Metadata : Pass(p, "aggregation", mark)
      BY <3>2, MarkFacts DEF WasmStage
    <3>3. ASSUME Aggregation(p) PROVE \E mark \in Metadata : Pass(p, "terminal", mark)
      BY <3>3, MarkFacts DEF Aggregation
    <3>4. ASSUME Ipc(p)
          PROVE  \E next \in {"wasm", "aggregation", "terminal"}, mark \in Metadata : Pass(p, next, mark)
      BY <3>4 DEF Ipc, Metadata, NoMetadata
    <3> QED
      BY <1>1, <3>1, <3>2, <3>3, <3>4
  <2> QED
    BY <2>1 DEF Pass
<1>2. ASSUME NEW p \in Pipelines, Terminal(p) PROVE StagesTypeOK'
  <2>1. metadata' \in [Pipelines -> Metadata]
    <3>1. metadata[p] \in Metadata
      OBVIOUS
    <3>2. [metadata[p] EXCEPT !.stage = "terminal", !.executed_by = "terminal"] \in Metadata
      BY <3>1, MarkFacts
    <3>3. metadata' = [metadata EXCEPT ![p] =
                         [metadata[p] EXCEPT !.stage = "terminal", !.executed_by = "terminal"]]
      BY <1>2 DEF Terminal
    <3> QED
      BY <3>2, <3>3
  <2>2. files' \in [Dirs -> Seq(Chunk)]
    BY <1>2 DEF Terminal, Created
  <2> QED
    BY <1>2, <2>1, <2>2 DEF Terminal
<1>3. ASSUME NEW p \in Pipelines, WriteChunk(p) PROVE StagesTypeOK'
  <2>1. Data(p) \in Chunk /\ Hole \in Chunk
    BY DEF Data, Chunk
  <2>2. WriteAt(files[DirOf[p]], written[p], Data(p)) \in Seq(Chunk)
    BY <2>1, WriteAtType
  <2>3. files' \in [Dirs -> Seq(Chunk)]
    BY <1>3, <2>2 DEF WriteChunk
  <2>4. written' \in [Pipelines -> 0 .. MaxChunks]
    BY <1>3 DEF WriteChunk
  <2> QED
    BY <1>3, <2>3, <2>4 DEF WriteChunk
<1>4. ASSUME NEW p \in Pipelines, Close(p) PROVE StagesTypeOK'
  <2>1. metadata' \in [Pipelines -> Metadata]
    BY <1>4 DEF Close, Metadata
  <2> QED
    BY <1>4, <2>1 DEF Close
<1>5. ASSUME NEW p \in Pipelines, Fail(p) PROVE StagesTypeOK'
  BY <1>5 DEF Fail
<1>6. ASSUME NEW p \in Pipelines, NEW n \in 1 .. MaxChunks, Again(p, n) PROVE StagesTypeOK'
  <2>1. NoMetadata \in Metadata
    BY DEF Metadata, NoMetadata
  <2>2. metadata' \in [Pipelines -> Metadata]
    BY <1>6, <2>1 DEF Again
  <2>3. parity' \in [Pipelines -> {0, 1}]
    <3>1. 1 - parity[p] \in {0, 1}
      <4>1. parity[p] = 0 \/ parity[p] = 1
        OBVIOUS
      <4> QED
        BY <4>1
    <3>2. parity' = [parity EXCEPT ![p] = 1 - parity[p]] /\ parity \in [Pipelines -> {0, 1}]
      BY <1>6 DEF Again
    <3> QED
      BY <3>1, <3>2, Zenon
  <2>4. /\ chunks' \in [Pipelines -> 1 .. MaxChunks]
        /\ written' \in [Pipelines -> 0 .. MaxChunks]
    BY <1>6 DEF Again
  <2> QED
    BY <1>6, <2>2, <2>3, <2>4 DEF Again
<1>7. CASE UNCHANGED stagesVars
  BY <1>7 DEF stagesVars
<1> QED
  BY <1>1, <1>2, <1>3, <1>4, <1>5, <1>6, <1>7 DEF StagesNext

\* StagesTypeOK is an invariant: no pipeline writes more than its chunks.
THEOREM StagesTypeCorrect == StagesSpec => []StagesTypeOK
BY StagesTypeInit, StagesTypeStep, PTL DEF StagesSpec

LEMMA WholeStep == ASSUME StagesTypeOK, WholeInv, [StagesNext]_stagesVars PROVE WholeInv'
<1> USE DirOfAssumption DEF StagesTypeOK, WholeInv, SameFile, Data
<1>1. ASSUME NEW p \in Pipelines, Receptor(p) \/ WasmStage(p) \/ Aggregation(p) \/ Ipc(p)
      PROVE  WholeInv'
  <2>1. UNCHANGED <<parity, chunks, written, files, alone>>
    BY <1>1 DEF Receptor, WasmStage, Aggregation, Ipc, Pass
  <2>2. PICK next \in {"wasm", "aggregation", "terminal"} : at' = [at EXCEPT ![p] = next]
    BY <1>1 DEF Receptor, WasmStage, Aggregation, Ipc, Pass
  <2>3. at[p] \in {"receptor", "wasm", "aggregation", "terminal"}
    BY <1>1 DEF Receptor, WasmStage, Aggregation, Ipc
  <2>4. /\ at'[p] \in {"wasm", "aggregation", "terminal"} /\ written[p] = 0
        /\ \A q \in Pipelines : q # p => at'[q] = at[q]
    BY <2>2, <2>3
  <2> QED
    BY <2>1, <2>4
<1>2. ASSUME NEW p \in Pipelines, Terminal(p) PROVE WholeInv'
  <2>1. Filled(0, Data(p)) = <<>>
    BY DEF Filled
  <2>2. files'[DirOf[p]] = <<>> /\ written[p] = 0
    BY <1>2 DEF Terminal, Created
  <2>3. \A q \in alone' : q # p => q \in alone /\ q \notin SameFile(p)
    BY <1>2 DEF Terminal
  <2>4. \A q \in alone' : q # p => files'[DirOf[q]] = files[DirOf[q]] /\ at'[q] = at[q]
    BY <1>2, <2>3 DEF Terminal
  <2>5. p \in alone' => \A q \in SameFile(p) : at'[q] = "writing" => q = p
    BY <1>2 DEF Terminal
  <2>6. UNCHANGED <<parity, chunks, written>> /\ at'[p] = "writing"
    BY <1>2 DEF Terminal
  <2>7. \A q \in alone' : q # p => \A r \in SameFile(q) : at'[r] = "writing" => r = q
    BY <1>2, <2>3 DEF Terminal
  <2>8. \A q \in Pipelines : at'[q] \in {"receptor", "wasm", "aggregation", "terminal"} => written'[q] = 0
    BY <1>2 DEF Terminal
  <2>9. ASSUME NEW q \in alone', q # p
        PROVE  /\ at'[q] = "writing" => files'[DirOf[q]] = Filled(written'[q], Data(q)')
               /\ at'[q] = "Ok" => files'[DirOf[q]] = Filled(chunks'[q], Data(q)')
    BY <2>9, <2>3, <2>4, <2>6
  <2>10. ASSUME p \in alone'
         PROVE  files'[DirOf[p]] = Filled(written'[p], Data(p)')
    BY <2>1, <2>2, <2>6
  <2> QED
    BY <2>5, <2>6, <2>7, <2>8, <2>9, <2>10
<1>3. ASSUME NEW p \in Pipelines, WriteChunk(p) PROVE WholeInv'
  <2>1. p \in alone => files'[DirOf[p]] = Filled(written'[p], Data(p))
    <3>1. WriteAt(Filled(written[p], Data(p)), written[p], Data(p)) = Filled(written[p] + 1, Data(p))
      BY FilledGrows
    <3> QED
      BY <1>3, <3>1 DEF WriteChunk
  <2>2. \A q \in alone : q # p => files'[DirOf[q]] = files[DirOf[q]]
    BY <1>3 DEF WriteChunk
  <2> QED
    BY <1>3, <2>1, <2>2 DEF WriteChunk
<1>4. ASSUME NEW p \in Pipelines, Close(p) PROVE WholeInv'
  BY <1>4 DEF Close
<1>5. ASSUME NEW p \in Pipelines, Fail(p) PROVE WholeInv'
  BY <1>5 DEF Fail
<1>6. ASSUME NEW p \in Pipelines, NEW n \in 1 .. MaxChunks, Again(p, n) PROVE WholeInv'
  BY <1>6 DEF Again
<1>7. CASE UNCHANGED stagesVars
  BY <1>7 DEF stagesVars
<1> QED
  BY <1>1, <1>2, <1>3, <1>4, <1>5, <1>6, <1>7 DEF StagesNext

\* An answer of Ok stands for a whole file, as long as its writer is alone with it.
THEOREM OutputsAreWhole == StagesSpec => []OutputIsWhole
<1>1. StagesTypeOK /\ WholeInv => OutputIsWhole
  BY DEF StagesTypeOK, WholeInv, OutputIsWhole, Filled
<1> QED
  BY <1>1, StagesTypeInit, StagesTypeCorrect, WholeStep, PTL DEF StagesSpec
=============================================================================
