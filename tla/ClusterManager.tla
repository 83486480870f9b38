-------------------------- MODULE ClusterManager --------------------------
(***************************************************************************)
(* The node table of a cluster (kineplex-node/src/lib.rs).  Each operator  *)
(* is one acquisition of the table's lock.  Capacity and load of a node    *)
(* are stored but never read, and are left out.                            *)
(***************************************************************************)
EXTENDS Naturals, FiniteSets

CONSTANTS
    Nodes,      \* the NodeId values in use
    SelfNode,   \* ClusterManager.self_node
    GraphIds,   \* the GraphId values in use
    None        \* no graph

ASSUME NodesAssumption == SelfNode \in Nodes /\ IsFiniteSet(Nodes)
ASSUME NoGraphAssumption == None \notin GraphIds

VARIABLE nodes   \* the table: the state of each known node

Tags == {"Unknown", "Starting", "Ready", "Executing", "Failed"}

\* NodeState; Executing carries a graph.  ShuttingDown is never constructed.
NodeStates == [tag : Tags, graph : GraphIds \cup {None}]

Plain(tag) == [tag |-> tag, graph |-> None]
Executing(g) == [tag |-> "Executing", graph |-> g]

Known(n) == nodes[n].tag # "Unknown"
IsExecuting(n) == nodes[n].tag = "Executing"

\* ClusterManager::new registers the local node, ready.
ClusterInit ==
    nodes = [n \in Nodes |-> Plain(IF n = SelfNode THEN "Ready" ELSE "Unknown")]

ReadyNodes == {n \in Nodes : nodes[n].tag = "Ready"}

\* The possible answers of allocate_nodes: any `required` of the ready nodes
\* (a HashMap iterates in no particular order), or all when there are too few.
\* Nothing is reserved.
Allocations(required) ==
    IF Cardinality(ReadyNodes) <= required
    THEN {ReadyNodes}
    ELSE {S \in SUBSET ReadyNodes : Cardinality(S) = required}

\* register_node inserts whatever the table held for the node before.
PutNode(n, tag) == nodes' = [nodes EXCEPT ![n] = Plain(tag)]

\* update_node_state does nothing for a node that is not in the table.
UpdateNodeState(n, state) ==
    nodes' = [nodes EXCEPT ![n] = IF @.tag = "Unknown" THEN @ ELSE state]

\* handle_rejoin: both branches leave the node known and Ready.
Rejoin(n) == nodes' = [nodes EXCEPT ![n] = Plain("Ready")]
=============================================================================
