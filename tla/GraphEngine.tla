---------------------------- MODULE GraphEngine ----------------------------
(***************************************************************************)
(* DistributedGraphExecutor over a shared GraphStore                       *)
(* (kineplex-core/src/graph.rs).                                           *)
(*                                                                         *)
(* The store keeps two maps, each behind a lock of its own: the graphs and *)
(* the idempotency keys.  No call holds one lock while it takes another,   *)
(* so a step of this specification is one acquisition of one lock, and     *)
(* calls of different clients interleave between any two acquisitions.     *)
(* Execution stages neither await nor touch the store: the stage loop is   *)
(* the passage from "finish" being entered to Finish being taken.          *)
(***************************************************************************)
CONSTANTS
    Clients,    \* threads or tasks that call the executor
    GraphIds,   \* the GraphId (UUID) values in use
    Keys,       \* idempotency keys
    KeysOf,     \* KeysOf[c]: the keys client c may attach to a submission
    NoKey,      \* a submission without a key (Option::None)
    None        \* absence: no stored graph, no bound key, no answer yet

Status == {"Pending", "Running", "Completed", "Cancelled"}

\* What a call returns besides a GraphId.
Outcomes == Status \cup {"Ok", "GraphNotFound", None}

ASSUME KeysAssumption == KeysOf \in [Clients -> SUBSET Keys] /\ NoKey \notin Keys
ASSUME NoneAssumption == None \notin Status \cup {"Ok", "GraphNotFound"}
ASSUME GraphIdsAssumption == GraphIds \cap Outcomes = {}

VARIABLES
    graphs,           \* GraphStore.graphs: the status stored under each id
    idempotencyKeys,  \* GraphStore.idempotency_keys
    pc,               \* where each client is inside its current call
    graph,            \* the graph_id of that call
    key,              \* the idempotency_key of that call
    reply,            \* the answer to the client's last call
    created           \* history: <<client, key, graph>> of every create_graph
                      \* made for a submission with a key

vars == <<graphs, idempotencyKeys, pc, graph, key, reply, created>>

TypeOK ==
    /\ graphs \in [GraphIds -> Status \cup {None}]
    /\ idempotencyKeys \in [Keys -> GraphIds \cup {None}]
    /\ pc \in [Clients -> {"idle", "create", "register", "start", "finish"}]
    /\ graph \in [Clients -> GraphIds \cup {None}]
    /\ key \in [Clients -> Keys \cup {NoKey}]
    /\ reply \in [Clients -> GraphIds \cup Outcomes]
    /\ created \subseteq Clients \X Keys \X GraphIds

Init ==
    /\ graphs = [g \in GraphIds |-> None]
    /\ idempotencyKeys = [k \in Keys |-> None]
    /\ pc = [c \in Clients |-> "idle"]
    /\ graph = [c \in Clients |-> None]
    /\ key = [c \in Clients |-> NoKey]
    /\ reply = [c \in Clients |-> None]
    /\ created = {}

-----------------------------------------------------------------------------
(* The store. *)

Stored(g) == graphs[g] # None

\* create_graph inserts unconditionally; a submitted graph is Pending.
CreateGraph(g) == graphs' = [graphs EXCEPT ![g] = "Pending"]

\* Mutant: a running graph is protected from every update.
UpdateStatusNotRunning(g, status) ==
    graphs' = [graphs EXCEPT ![g] = IF @ \in {None, "Running"} THEN @ ELSE status]

\* update_status overwrites whatever status is there, if the graph is.
UpdateStatus(g, status) ==
    graphs' = [graphs EXCEPT ![g] = IF @ = None THEN None ELSE status]

RegisterIdempotency(k, g) ==
    idempotencyKeys' = [idempotencyKeys EXCEPT ![k] = g]

-----------------------------------------------------------------------------
(* Calls.  A call that returns forgets its locals. *)

Return(c, answer) ==
    /\ pc' = [pc EXCEPT ![c] = "idle"]
    /\ reply' = [reply EXCEPT ![c] = answer]
    /\ graph' = [graph EXCEPT ![c] = None]
    /\ key' = [key EXCEPT ![c] = NoKey]

\* submit, when check_idempotency finds the key: answer with the known graph.
SubmitKnown(c, k) ==
    /\ pc[c] = "idle"
    /\ idempotencyKeys[k] # None
    /\ Return(c, idempotencyKeys[k])
    /\ UNCHANGED <<graphs, idempotencyKeys, created>>

\* Mutant: the key is not looked up.
SubmitUnchecked(c, g, k) ==
    /\ pc[c] = "idle"
    /\ pc' = [pc EXCEPT ![c] = "create"]
    /\ graph' = [graph EXCEPT ![c] = g]
    /\ key' = [key EXCEPT ![c] = k]
    /\ UNCHANGED <<graphs, idempotencyKeys, reply, created>>

\* Mutant: the key is taken at once, before the graph is stored.
SubmitReservingKey(c, g, k) ==
    /\ pc[c] = "idle"
    /\ k \in Keys => idempotencyKeys[k] = None
    /\ idempotencyKeys' = [i \in Keys |-> IF i = k THEN g ELSE idempotencyKeys[i]]
    /\ pc' = [pc EXCEPT ![c] = "create"]
    /\ graph' = [graph EXCEPT ![c] = g]
    /\ key' = [key EXCEPT ![c] = k]
    /\ UNCHANGED <<graphs, reply, created>>

\* submit, without a key or with one that check_idempotency does not find.
SubmitNew(c, g, k) ==
    /\ pc[c] = "idle"
    /\ k \in Keys => idempotencyKeys[k] = None
    /\ pc' = [pc EXCEPT ![c] = "create"]
    /\ graph' = [graph EXCEPT ![c] = g]
    /\ key' = [key EXCEPT ![c] = k]
    /\ UNCHANGED <<graphs, idempotencyKeys, reply, created>>

\* Mutant: submit answers as soon as the graph is stored.
CreateAndAnswer(c) ==
    /\ pc[c] = "create"
    /\ CreateGraph(graph[c])
    /\ Return(c, graph[c])
    /\ UNCHANGED <<idempotencyKeys, created>>

\* submit's create_graph; a submission without a key ends here.
Create(c) ==
    /\ pc[c] = "create"
    /\ CreateGraph(graph[c])
    /\ IF key[c] = NoKey
       THEN Return(c, graph[c]) /\ UNCHANGED created
       ELSE /\ pc' = [pc EXCEPT ![c] = "register"]
            /\ created' = created \cup {<<c, key[c], graph[c]>>}
            /\ UNCHANGED <<graph, key, reply>>
    /\ UNCHANGED idempotencyKeys

\* submit's register_idempotency and its answer.
Register(c) ==
    /\ pc[c] = "register"
    /\ RegisterIdempotency(key[c], graph[c])
    /\ Return(c, graph[c])
    /\ UNCHANGED <<graphs, created>>

\* execute's get_graph.
Execute(c, g) ==
    /\ pc[c] = "idle"
    /\ IF Stored(g)
       THEN /\ pc' = [pc EXCEPT ![c] = "start"]
            /\ graph' = [graph EXCEPT ![c] = g]
            /\ UNCHANGED <<key, reply>>
       ELSE Return(c, "GraphNotFound")
    /\ UNCHANGED <<graphs, idempotencyKeys, created>>

\* execute's first update_status; `?` leaves on GraphNotFound.
Start(c) ==
    /\ pc[c] = "start"
    /\ UpdateStatus(graph[c], "Running")
    /\ IF Stored(graph[c])
       THEN pc' = [pc EXCEPT ![c] = "finish"] /\ UNCHANGED <<graph, key, reply>>
       ELSE Return(c, "GraphNotFound")
    /\ UNCHANGED <<idempotencyKeys, created>>

\* Mutant: a status the store does not know.
FinishFailed(c) ==
    /\ pc[c] = "finish"
    /\ UpdateStatus(graph[c], "Failed")
    /\ Return(c, "Completed")
    /\ UNCHANGED <<idempotencyKeys, created>>

\* Mutant: the result is answered but the status is not updated.
FinishSilently(c) ==
    /\ pc[c] = "finish"
    /\ Return(c, "Completed")
    /\ UNCHANGED <<graphs, idempotencyKeys, created>>

\* execute's last update_status, after the stages, and its Ok(result).
Finish(c) ==
    /\ pc[c] = "finish"
    /\ UpdateStatus(graph[c], "Completed")
    /\ Return(c, IF Stored(graph[c]) THEN "Completed" ELSE "GraphNotFound")
    /\ UNCHANGED <<idempotencyKeys, created>>

\* cancel: one update_status.
Cancel(c, g) ==
    /\ pc[c] = "idle"
    /\ UpdateStatus(g, "Cancelled")
    /\ Return(c, IF Stored(g) THEN "Ok" ELSE "GraphNotFound")
    /\ UNCHANGED <<idempotencyKeys, created>>

\* status: one get_graph.
GetStatus(c, g) ==
    /\ pc[c] = "idle"
    /\ Return(c, IF Stored(g) THEN graphs[g] ELSE "GraphNotFound")
    /\ UNCHANGED <<graphs, idempotencyKeys, created>>

-----------------------------------------------------------------------------

\* A call in progress goes on; this is what the scheduler owes a client.
Proceed(c) == Create(c) \/ Register(c) \/ Start(c) \/ Finish(c)

Call(c) ==
    \/ \E k \in KeysOf[c] : SubmitKnown(c, k)
    \/ \E g \in GraphIds, k \in KeysOf[c] \cup {NoKey} : SubmitNew(c, g, k)
    \/ \E g \in GraphIds : Execute(c, g) \/ Cancel(c, g) \/ GetStatus(c, g)

Next == \E c \in Clients : Call(c) \/ Proceed(c)

Spec == Init /\ [][Next]_vars

\* No call blocks between two acquisitions, and parking_lot's locks are held
\* for a few instructions: a thread inside a call eventually takes its step.
FairSpec == Spec /\ \A c \in Clients : WF_vars(Proceed(c))

-----------------------------------------------------------------------------
(* Properties *)

\* Every id the engine has handed out, as an answer to submit or as the value
\* of an idempotency key, resolves to a stored graph: submit creates before it
\* registers and before it answers, and nothing removes a graph.
HandedOutIdsResolve ==
    /\ \A k \in Keys : idempotencyKeys[k] # None => Stored(idempotencyKeys[k])
    /\ \A c \in Clients : reply[c] \in GraphIds => Stored(reply[c])

\* A client that retries with a key never creates a second graph for it, even
\* when other clients race with the same key: duplicates come only from
\* submissions of different clients that overlap (submit, graph.rs:178-195).
OneGraphPerClientAndKey ==
    \A s, t \in created : s[1] = t[1] /\ s[2] = t[2] => s[3] = t[3]

\* A key identifies one graph whoever submits it.  It fails for the keys that
\* clients share.
OneGraphPerKey ==
    \A s, t \in created : s[2] = t[2] => s[3] = t[3]

\* The keys that at most one client uses.
PrivateKeys ==
    {k \in Keys : \A c, d \in Clients : k \in KeysOf[c] /\ k \in KeysOf[d] => c = d}

\* For a private key the promise holds, whatever clients do with other keys:
\* seen through the key map and the ids that submit answers with, its
\* submissions are one get-or-create step each, which takes effect at
\* register_idempotency (or at check_idempotency, if the key is known).  A
\* submission with a shared key is not distinguished from one without a key.
Promise == INSTANCE GetOrCreate WITH
    Keys <- PrivateKeys,
    binding <- [k \in PrivateKeys |-> idempotencyKeys[k]],
    request <- [c \in Clients |-> IF key[c] \in PrivateKeys THEN key[c] ELSE NoKey],
    answer <- [c \in Clients |-> IF reply[c] \in GraphIds THEN reply[c] ELSE None]

SubmitIsGetOrCreate == Promise!Spec

\* A stored status of Running is never an orphan: some execution of that graph
\* is between its two updates and will overwrite it, whatever concurrent
\* executions, cancellations and creations of the graph do.
RunningHasExecutor ==
    \A g \in GraphIds :
        graphs[g] = "Running" => \E c \in Clients : pc[c] = "finish" /\ graph[c] = g

\* A running graph reaches another status: execute always gets to its last
\* update_status.
RunningEnds ==
    \A g \in GraphIds : graphs[g] = "Running" ~> graphs[g] # "Running"
=============================================================================
