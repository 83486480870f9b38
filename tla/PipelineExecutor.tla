------------------------- MODULE PipelineExecutor -------------------------
(***************************************************************************)
(* PipelineExecutor (kineplex-node/src/execution.rs): asynchronous tasks   *)
(* that share one table of running executions behind a tokio RwLock.       *)
(*                                                                         *)
(* execute_stage keeps the write guard while it sleeps, so the lock is     *)
(* part of the state: its holder, and the first-in first-out queue that    *)
(* tokio documents.  Every other critical section has no await inside and  *)
(* is one step, taken when the task is at the head of the queue.  Dropping *)
(* a guard and asking for the next one is one step too: a task that slips  *)
(* in between could as well have asked before.  What an entry records      *)
(* (times, node) is never read by the executor and is left out.            *)
(***************************************************************************)
EXTENDS Naturals, Sequences, SequencesExt

CONSTANTS
    Tasks,       \* concurrent callers
    Graphs,      \* graph ids
    MayExecute,  \* MayExecute[t]: the graphs that task t may execute
    Impatient,   \* the tasks whose caller may drop a pending future
    NumStages,   \* length of graph.stages
    None

ASSUME MayExecuteAssumption == MayExecute \in [Tasks -> SUBSET Graphs]
ASSUME ImpatientAssumption == Impatient \subseteq Tasks
ASSUME NumStagesAssumption == NumStages \in Nat \ {0}
ASSUME NoneAssumption == None \notin Tasks /\ None \notin Graphs

VARIABLES
    executions,  \* the graphs with an entry in running_executions
    holder,      \* the task whose write guard is alive across an await
    queue,       \* the tasks that wait for the lock, in order of arrival
    pc,          \* what each task waits for, or does
    graph,       \* the graph of its current call
    stage,       \* the number of the stage it is at
    reply,       \* the answer to its last call
    cancelled    \* history: a cancel of this execution has answered Ok

vars == <<executions, holder, queue, pc, graph, stage, reply, cancelled>>

Waiting == {"insert", "stage", "remove", "cancel", "lookup"}

TypeOK ==
    /\ executions \subseteq Graphs
    /\ holder \in Tasks \cup {None}
    /\ queue \in Seq(Tasks)
    /\ pc \in [Tasks -> Waiting \cup {"idle", "running", "dropped"}]
    /\ graph \in [Tasks -> Graphs \cup {None}]
    /\ stage \in [Tasks -> 0 .. NumStages]
    /\ reply \in [Tasks -> {"None", "Completed", "Ok", "Found", "NotFound"}]
    /\ cancelled \in [Tasks -> BOOLEAN]

Init ==
    /\ executions = {}
    /\ holder = None
    /\ queue = <<>>
    /\ pc = [t \in Tasks |-> "idle"]
    /\ graph = [t \in Tasks |-> None]
    /\ stage = [t \in Tasks |-> 0]
    /\ reply = [t \in Tasks |-> "None"]
    /\ cancelled = [t \in Tasks |-> FALSE]

\* This execution has inserted its entry and not yet cleaned up.
InFlight(t) == pc[t] \in {"stage", "running", "remove"}

-----------------------------------------------------------------------------
(* The lock. *)

Granted(t) == holder = None /\ queue # <<>> /\ Head(queue) = t

\* Mutant: a lock that serves the last to come first.
CallJumpingQueue(t, g, purpose) ==
    /\ pc[t] = "idle"
    /\ pc' = [pc EXCEPT ![t] = purpose]
    /\ graph' = [graph EXCEPT ![t] = g]
    /\ queue' = <<t>> \o queue
    /\ UNCHANGED <<executions, holder, stage, reply, cancelled>>

\* Start a call whose first await is the lock.
Call(t, g, purpose) ==
    /\ pc[t] = "idle"
    /\ pc' = [pc EXCEPT ![t] = purpose]
    /\ graph' = [graph EXCEPT ![t] = g]
    /\ queue' = Append(queue, t)
    /\ UNCHANGED <<executions, holder, stage, reply, cancelled>>

\* End a call, leaving the lock.
Return(t, answer) ==
    /\ pc' = [pc EXCEPT ![t] = "idle"]
    /\ graph' = [graph EXCEPT ![t] = None]
    /\ stage' = [stage EXCEPT ![t] = 0]
    /\ reply' = [reply EXCEPT ![t] = answer]
    /\ cancelled' = [cancelled EXCEPT ![t] = FALSE]
    /\ queue' = Tail(queue)

-----------------------------------------------------------------------------
(* execute *)

Execute(t, g) == Call(t, g, "insert")

\* execute's insertion of the entry; the first stage then asks for the lock.
Insert(t) ==
    /\ pc[t] = "insert"
    /\ Granted(t)
    /\ executions' = executions \cup {graph[t]}
    /\ pc' = [pc EXCEPT ![t] = "stage"]
    /\ stage' = [stage EXCEPT ![t] = 1]
    /\ queue' = Append(Tail(queue), t)
    /\ UNCHANGED <<holder, graph, reply, cancelled>>

\* Mutant: the guard is dropped before the sleep.
StageBeginUnlocked(t) ==
    /\ pc[t] = "stage"
    /\ Granted(t)
    /\ queue' = Tail(queue)
    /\ pc' = [pc EXCEPT ![t] = "running"]
    /\ UNCHANGED <<executions, holder, graph, stage, reply, cancelled>>

\* execute_stage gets the lock, stamps the entry if there is one, and sleeps.
StageBegin(t) ==
    /\ pc[t] = "stage"
    /\ Granted(t)
    /\ holder' = t
    /\ queue' = Tail(queue)
    /\ pc' = [pc EXCEPT ![t] = "running"]
    /\ UNCHANGED <<executions, graph, stage, reply, cancelled>>

\* Mutant: one stage too many.
StageEndOffByOne(t) ==
    /\ pc[t] = "running"
    /\ holder' = None
    /\ queue' = Append(queue, t)
    /\ IF stage[t] <= NumStages
       THEN /\ stage' = [stage EXCEPT ![t] = @ + 1]
            /\ pc' = [pc EXCEPT ![t] = "stage"]
       ELSE /\ pc' = [pc EXCEPT ![t] = "remove"]
            /\ UNCHANGED stage
    /\ UNCHANGED <<executions, graph, reply, cancelled>>

\* execute_stage returns; execute asks for the lock again, for the next stage
\* or to clean up.
StageEnd(t) ==
    /\ pc[t] = "running"
    /\ holder' = None
    /\ queue' = Append(queue, t)
    /\ IF stage[t] < NumStages
       THEN /\ stage' = [stage EXCEPT ![t] = @ + 1]
            /\ pc' = [pc EXCEPT ![t] = "stage"]
       ELSE /\ pc' = [pc EXCEPT ![t] = "remove"]
            /\ UNCHANGED stage
    /\ UNCHANGED <<executions, graph, reply, cancelled>>

\* Mutant: the entry is left behind.
CleanUpNothing(t) ==
    /\ pc[t] = "remove"
    /\ Granted(t)
    /\ Return(t, "Completed")
    /\ UNCHANGED <<executions, holder>>

\* execute's clean-up and its Ok(Completed).
CleanUp(t) ==
    /\ pc[t] = "remove"
    /\ Granted(t)
    /\ executions' = executions \ {graph[t]}
    /\ Return(t, "Completed")
    /\ UNCHANGED holder

-----------------------------------------------------------------------------
(* cancel and get_execution_state *)

Cancel(t, g) == Call(t, g, "cancel")

\* cancel removes the entry, and nothing else: no execution looks at it.
FinishCancel(t) ==
    /\ pc[t] = "cancel"
    /\ Granted(t)
    /\ executions' = executions \ {graph[t]}
    /\ pc' = [pc EXCEPT ![t] = "idle"]
    /\ graph' = [graph EXCEPT ![t] = None]
    /\ reply' = [reply EXCEPT ![t] = IF graph[t] \in executions THEN "Ok" ELSE "NotFound"]
    /\ cancelled' = [u \in Tasks |->
         \/ cancelled[u]
         \/ graph[t] \in executions /\ InFlight(u) /\ graph[u] = graph[t]]
    /\ queue' = Tail(queue)
    /\ UNCHANGED <<holder, stage>>

GetExecutionState(t, g) == Call(t, g, "lookup")

\* Mutant: the lookup takes the entry instead of copying it.
FinishLookupTaking(t) ==
    /\ pc[t] = "lookup"
    /\ Granted(t)
    /\ executions' = executions \ {graph[t]}
    /\ Return(t, IF graph[t] \in executions THEN "Found" ELSE "NotFound")
    /\ UNCHANGED holder

FinishLookup(t) ==
    /\ pc[t] = "lookup"
    /\ Granted(t)
    /\ Return(t, IF graph[t] \in executions THEN "Found" ELSE "NotFound")
    /\ UNCHANGED <<executions, holder>>

\* A pending acquisition that is dropped leaves the queue, at whatever place it is.
LeaveQueue(t) ==
    \/ \E i \in DOMAIN queue : queue[i] = t /\ queue' = RemoveAt(queue, i)
    \/ pc[t] \notin Waiting /\ UNCHANGED queue

\* The caller drops the future at an await: it leaves the queue or releases its
\* guard, and nothing after the await runs.
DropFuture(t) ==
    /\ t \in Impatient
    /\ pc[t] \notin {"idle", "dropped"}
    /\ pc' = [pc EXCEPT ![t] = "dropped"]
    /\ LeaveQueue(t)
    /\ holder' = IF holder = t THEN None ELSE holder
    /\ UNCHANGED <<executions, graph, stage, reply, cancelled>>

-----------------------------------------------------------------------------

Proceed(t) ==
    \/ Insert(t)
    \/ StageBegin(t)
    \/ StageEnd(t)
    \/ CleanUp(t)
    \/ FinishCancel(t)
    \/ FinishLookup(t)

Next ==
    \E t \in Tasks :
        \/ Proceed(t)
        \/ \E g \in MayExecute[t] : Execute(t, g)
        \/ \E g \in Graphs : Cancel(t, g) \/ GetExecutionState(t, g)
        \/ DropFuture(t)

Spec == Init /\ [][Next]_vars

\* The runtime polls a task whose wakeup has come: a granted lock or an elapsed
\* sleep.
FairSpec == Spec /\ \A t \in Tasks : WF_vars(Proceed(t))

-----------------------------------------------------------------------------
(* Properties *)

\* No two stages run at the same time, of whatever executions: the write guard
\* lives across the sleep in execute_stage.
StagesExclude ==
    \A t, u \in Tasks : pc[t] = "running" /\ pc[u] = "running" => t = u

\* An entry is never left behind: some execution of its graph will clean it up,
\* unless that execution's future was dropped.
EntryHasExecution ==
    \A g \in executions : \E t \in Tasks :
        graph[t] = g /\ (InFlight(t) \/ pc[t] = "dropped")

OnlyExecutor(t, g) == \A u \in Tasks \ {t} : g \notin MayExecute[u]

\* An execution in flight can be found and cancelled until somebody cancels it,
\* whatever executions of other graphs do.  It needs a graph that no other task
\* executes: the clean-up of one execution removes the entry of another one of
\* the same graph.
InFlightIsVisible ==
    \A t \in Tasks :
        InFlight(t) /\ OnlyExecutor(t, graph[t]) => graph[t] \in executions \/ cancelled[t]

\* Every call comes to its end, stages of other executions notwithstanding,
\* unless its caller gives it up: the queue is fair and no guard is kept.
CallsReturn ==
    \A t \in Tasks : pc[t] \in Waiting ~> pc[t] \in {"idle", "dropped"}
=============================================================================
