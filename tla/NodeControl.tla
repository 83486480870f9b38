---------------------------- MODULE NodeControl ----------------------------
(***************************************************************************)
(* NodeControl (kineplex-node/src/control.rs): admission of submissions    *)
(* against tenant quotas, allocation of nodes, and handling of node        *)
(* failures, called by several threads at once.                            *)
(*                                                                         *)
(* graphs, submissions, auth_enabled, tenant_quotas and the cluster's node *)
(* table have a lock each and submit takes them one after the other, so a  *)
(* step here is one acquisition.  cancel is the only call that holds one   *)
(* lock (graphs) while taking another (nodes): it is one step.             *)
(*                                                                         *)
(* submission_id is documented as unique, so a stored request is named by  *)
(* the graph that was made for it.  Its idempotency key is stored with it  *)
(* and read by nobody, and is left out.                                    *)
(***************************************************************************)
EXTENDS ClusterManager

CONSTANTS
    Callers,        \* threads that call NodeControl
    Tenants,
    Requirements,   \* the required_nodes a request may ask for
    Limits          \* the max_concurrent_graphs a tenant may be given

ASSUME RequirementsAssumption == Requirements \subseteq Nat
ASSUME LimitsAssumption == Limits \subseteq Nat
ASSUME NoTenantAssumption == None \notin Tenants

VARIABLES
    graphs,        \* the stored graphs: status and tenant
    submissions,   \* the tenant of each stored request, under the graph made for it
    authEnabled,
    quotas,        \* tenant_quotas: limit and number of active graphs
    charged,       \* history: the graphs counted in a tenant's current quota
    pc,            \* where each caller is inside its current call; its locals:
    graph,         \*   the graph submitted, or in need of another node
    tenant,        \*   of the request
    required,      \*   number of nodes wanted
    todo,          \*   the allocated nodes that are not marked yet
    reply          \* the answer to each caller's last call

stores == <<graphs, submissions, authEnabled, quotas, charged>>
locals == <<graph, tenant, required, todo>>
vars == <<nodes, stores, pc, locals, reply>>

NoRow == [status |-> "None", tenant |-> None]
NoQuota == [max |-> 0, active |-> 0, registered |-> FALSE]

Stored(g) == graphs[g] # NoRow

TypeOK ==
    /\ nodes \in [Nodes -> NodeStates]
    /\ graphs \in [GraphIds -> [status : {"None", "Pending", "Running", "Cancelled"},
                                tenant : Tenants \cup {None}]]
    /\ submissions \in [GraphIds -> Tenants \cup {None}]
    /\ authEnabled \in BOOLEAN
    /\ quotas \in [Tenants -> [max : Nat, active : Nat, registered : BOOLEAN]]
    /\ charged \in [Tenants -> SUBSET GraphIds]
    /\ pc \in [Callers -> {"idle", "authorized", "admitted", "stored",
                           "allocate", "marking"}]
    /\ graph \in [Callers -> GraphIds \cup {None}]
    /\ tenant \in [Callers -> Tenants \cup {None}]
    /\ required \in [Callers -> Nat]
    /\ todo \in [Callers -> SUBSET Nodes]
    /\ reply \in [Callers -> {"None", "Ok", "AuthenticationRequired", "QuotaExceeded",
                              "GraphNotFound", "InvalidState"}]

Init ==
    /\ ClusterInit
    /\ graphs = [g \in GraphIds |-> NoRow]
    /\ submissions = [g \in GraphIds |-> None]
    /\ authEnabled = FALSE
    /\ quotas = [t \in Tenants |-> NoQuota]
    /\ charged = [t \in Tenants |-> {}]
    /\ pc = [c \in Callers |-> "idle"]
    /\ graph = [c \in Callers |-> None]
    /\ tenant = [c \in Callers |-> None]
    /\ required = [c \in Callers |-> 0]
    /\ todo = [c \in Callers |-> {}]
    /\ reply = [c \in Callers |-> "None"]

\* A call that returns forgets its locals.
Return(c, answer) ==
    /\ pc' = [pc EXCEPT ![c] = "idle"]
    /\ graph' = [graph EXCEPT ![c] = None]
    /\ tenant' = [tenant EXCEPT ![c] = None]
    /\ required' = [required EXCEPT ![c] = 0]
    /\ todo' = [todo EXCEPT ![c] = {}]
    /\ reply' = [reply EXCEPT ![c] = answer]

Goto(c, label) == pc' = [pc EXCEPT ![c] = label] /\ UNCHANGED reply

-----------------------------------------------------------------------------
(* submit *)

\* GraphId::new: an id no graph has and no other call has drawn.
Fresh(g) == ~Stored(g) /\ \A c \in Callers : graph[c] # g

Requests == [tenant : Tenants, required : Requirements, credentials : BOOLEAN]

\* submit's authentication check, passed.  The id of the new graph is drawn here.
Submit(c, g, request) ==
    /\ pc[c] = "idle"
    /\ authEnabled => request.credentials
    /\ Fresh(g)
    /\ Goto(c, "authorized")
    /\ graph' = [graph EXCEPT ![c] = g]
    /\ tenant' = [tenant EXCEPT ![c] = request.tenant]
    /\ required' = [required EXCEPT ![c] = request.required]
    /\ UNCHANGED <<nodes, stores, todo>>

\* submit's authentication check, failed.
SubmitWithoutCredentials(c) ==
    /\ pc[c] = "idle"
    /\ authEnabled
    /\ Return(c, "AuthenticationRequired")
    /\ UNCHANGED <<nodes, stores>>

\* Mutant: one graph too many.
OverLimit(t) == quotas[t].registered /\ quotas[t].active > quotas[t].max

AtLimit(t) == quotas[t].registered /\ quotas[t].active >= quotas[t].max

\* submit's quota check, failed.
RejectOverQuota(c) ==
    /\ pc[c] = "authorized"
    /\ AtLimit(tenant[c])
    /\ Return(c, "QuotaExceeded")
    /\ UNCHANGED <<nodes, stores>>

\* Mutant: admission gives a slot back instead of taking one.
AdmitReleasing(c) ==
    /\ pc[c] = "authorized"
    /\ ~AtLimit(tenant[c])
    /\ IF quotas[tenant[c]].registered
       THEN quotas' = [quotas EXCEPT ![tenant[c]].active = @ - 1]
       ELSE UNCHANGED quotas
    /\ Goto(c, "admitted")
    /\ UNCHANGED <<nodes, graphs, submissions, authEnabled, charged, locals>>

\* submit's quota check and the increment, under one lock.  A tenant without a
\* quota is neither limited nor counted.
Admit(c) ==
    /\ pc[c] = "authorized"
    /\ ~AtLimit(tenant[c])
    /\ IF quotas[tenant[c]].registered
       THEN /\ quotas' = [quotas EXCEPT ![tenant[c]].active = @ + 1]
            /\ charged' = [charged EXCEPT ![tenant[c]] = @ \cup {graph[c]}]
       ELSE UNCHANGED <<quotas, charged>>
    /\ Goto(c, "admitted")
    /\ UNCHANGED <<nodes, graphs, submissions, authEnabled, locals>>

\* Mutant: submit gives up when no node is ready, and keeps the quota slot.
StoreGraphIfNodesReady(c) ==
    /\ pc[c] = "admitted"
    /\ IF ReadyNodes = {}
       THEN Return(c, "InvalidState") /\ UNCHANGED graphs
       ELSE /\ graphs' = [graphs EXCEPT ![graph[c]] =
                              [status |-> "Pending", tenant |-> tenant[c]]]
            /\ Goto(c, "stored")
            /\ UNCHANGED locals
    /\ UNCHANGED <<nodes, submissions, authEnabled, quotas, charged>>

\* Mutant: the request is not stored before nodes are allocated.
StoreGraphOnly(c) ==
    /\ pc[c] = "admitted"
    /\ graphs' = [graphs EXCEPT ![graph[c]] = [status |-> "Pending", tenant |-> tenant[c]]]
    /\ Goto(c, "allocate")
    /\ UNCHANGED <<nodes, submissions, authEnabled, quotas, charged, locals>>

\* submit's insertion of the new graph, Pending.
StoreGraph(c) ==
    /\ pc[c] = "admitted"
    /\ graphs' = [graphs EXCEPT ![graph[c]] = [status |-> "Pending", tenant |-> tenant[c]]]
    /\ Goto(c, "stored")
    /\ UNCHANGED <<nodes, submissions, authEnabled, quotas, charged, locals>>

\* submit's insertion of the request.
StoreSubmission(c) ==
    /\ pc[c] = "stored"
    /\ submissions' = [submissions EXCEPT ![graph[c]] = tenant[c]]
    /\ Goto(c, "allocate")
    /\ UNCHANGED <<nodes, graphs, authEnabled, quotas, charged, locals>>

-----------------------------------------------------------------------------
(* Allocation, shared by submit and handle_node_failure: pick ready nodes  *)
(* under the read lock, then mark them one by one under the write lock.    *)

Allocate(c) ==
    /\ pc[c] = "allocate"
    /\ \E S \in Allocations(required[c]) : todo' = [todo EXCEPT ![c] = S]
    /\ Goto(c, "marking")
    /\ UNCHANGED <<nodes, stores, graph, tenant, required>>

Mark(c, n) ==
    /\ pc[c] = "marking"
    /\ n \in todo[c]
    /\ UpdateNodeState(n, Executing(graph[c]))
    /\ todo' = [todo EXCEPT ![c] = @ \ {n}]
    /\ UNCHANGED <<stores, pc, graph, tenant, required, reply>>

Answer(c) ==
    /\ pc[c] = "marking"
    /\ todo[c] = {}
    /\ Return(c, "Ok")
    /\ UNCHANGED <<nodes, stores>>

\* A submit has returned this graph's id; before that no caller can name it.
Answered(g) == Stored(g) /\ \A c \in Callers : graph[c] = g => tenant[c] = None

\* handle_node_failure: mark the node failed, then find one replacement for
\* the graph its caller names.
HandleNodeFailure(c, n, g) ==
    /\ pc[c] = "idle"
    /\ Answered(g)
    /\ UpdateNodeState(n, Plain("Failed"))
    /\ Goto(c, "allocate")
    /\ graph' = [graph EXCEPT ![c] = g]
    /\ required' = [required EXCEPT ![c] = 1]
    /\ UNCHANGED <<stores, tenant, todo>>

-----------------------------------------------------------------------------
(* Calls of a single step. *)

HandleNodeRejoin(c, n) ==
    /\ pc[c] = "idle"
    /\ Rejoin(n)
    /\ Return(c, "Ok")
    /\ UNCHANGED stores

RegisterNode(c, n, tag) ==
    /\ pc[c] = "idle"
    /\ PutNode(n, tag)
    /\ Return(c, "Ok")
    /\ UNCHANGED stores

\* Replaces the tenant's quota, its count of active graphs included.
RegisterTenant(c, t, max) ==
    /\ pc[c] = "idle"
    /\ quotas' = [quotas EXCEPT ![t] = [max |-> max, active |-> 0, registered |-> TRUE]]
    /\ charged' = [charged EXCEPT ![t] = {}]
    /\ Return(c, "Ok")
    /\ UNCHANGED <<nodes, graphs, submissions, authEnabled>>

SetAuthEnabled(c, enabled) ==
    /\ pc[c] = "idle"
    /\ authEnabled' = enabled
    /\ Return(c, "Ok")
    /\ UNCHANGED <<nodes, graphs, submissions, quotas, charged>>

\* cancel refuses every graph that is not Running, and gives the work of the
\* local node back when it accepts.
Cancel(c, g) ==
    /\ pc[c] = "idle"
    /\ IF graphs[g].status = "Running"
       THEN /\ graphs' = [graphs EXCEPT ![g].status = "Cancelled"]
            /\ UpdateNodeState(SelfNode, Plain("Ready"))
            /\ Return(c, "Ok")
       ELSE /\ Return(c, IF Stored(g) THEN "InvalidState" ELSE "GraphNotFound")
            /\ UNCHANGED <<nodes, graphs>>
    /\ UNCHANGED <<submissions, authEnabled, quotas, charged>>

GetGraphStatus(c, g) ==
    /\ pc[c] = "idle"
    /\ Return(c, IF Stored(g) THEN "Ok" ELSE "GraphNotFound")
    /\ UNCHANGED <<nodes, stores>>

-----------------------------------------------------------------------------

Proceed(c) ==
    \/ RejectOverQuota(c)
    \/ Admit(c)
    \/ StoreGraph(c)
    \/ StoreSubmission(c)
    \/ Allocate(c)
    \/ \E n \in Nodes : Mark(c, n)
    \/ Answer(c)

Call(c) ==
    \/ \E g \in GraphIds, request \in Requests : Submit(c, g, request)
    \/ SubmitWithoutCredentials(c)
    \/ \E n \in Nodes, g \in GraphIds : HandleNodeFailure(c, n, g)
    \/ \E n \in Nodes : HandleNodeRejoin(c, n)
    \/ \E n \in Nodes \ {SelfNode}, tag \in {"Starting", "Ready"} : RegisterNode(c, n, tag)
    \/ \E t \in Tenants, max \in Limits : RegisterTenant(c, t, max)
    \/ \E enabled \in BOOLEAN : SetAuthEnabled(c, enabled)
    \/ \E g \in GraphIds : Cancel(c, g) \/ GetGraphStatus(c, g)

Next == \E c \in Callers : Call(c) \/ Proceed(c)

Spec == Init /\ [][Next]_vars

-----------------------------------------------------------------------------
(* Properties *)

\* Since a tenant's quota was registered, no more of its graphs have been
\* admitted than the quota allows, however submissions interleave: the check
\* and the increment are under one write lock (control.rs:136-145).
QuotaBoundsGraphs ==
    \A t \in Tenants : Cardinality(charged[t]) <= quotas[t].max

\* A quota slot is never lost: whatever is counted against a tenant is a stored
\* graph of that tenant, or a submission that is about to store it.
ChargedGraphsExist ==
    \A t \in Tenants : \A g \in charged[t] :
        \/ Stored(g) /\ graphs[g].tenant = t
        \/ \E c \in Callers :
             pc[c] = "admitted" /\ graph[c] = g /\ tenant[c] = t

\* A node never executes a graph the controller cannot account for: the graph
\* is stored and so is the request it came from, because submit stores both
\* before it asks for nodes.
ExecutingGraphsAreKnown ==
    \A n \in Nodes : IsExecuting(n) =>
        /\ Stored(nodes[n].graph)
        /\ submissions[nodes[n].graph] = graphs[nodes[n].graph].tenant

\* Work is only given to a node that is Ready at that moment.
OnlyReadyNodesAreClaimed ==
    [][\A n \in Nodes :
         nodes'[n] # nodes[n] /\ nodes'[n].tag = "Executing" => nodes[n].tag = "Ready"]_vars
=============================================================================
