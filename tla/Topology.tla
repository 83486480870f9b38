------------------------------ MODULE Topology ------------------------------
(***************************************************************************)
(* Simplex2Discoverer (kineplex-core/src/geometry.rs): an undirected graph *)
(* kept as adjacency sets, its triangles, edges and Betti number, and its  *)
(* connected components found by a recursive depth-first search.           *)
(*                                                                         *)
(* The search is a state machine, because it walks over hash sets, in any  *)
(* order.  The recursion is a stack of nodes, and left[n] is what the loop *)
(* of the call for n still has to look at; a node has at most one call.    *)
(***************************************************************************)
EXTENDS Integers, Sequences, FiniteSets

CONSTANT Nodes

ASSUME NodesAssumption == IsFiniteSet(Nodes)

VARIABLES
    known,       \* the keys of the adjacency map
    adjacency,   \* the neighbors of each node; {} for those that are not known
    pc,          \* "idle", or "partitions" while partitions() runs
    todo,        \* the keys its loop has not come to
    visited,
    stack,       \* the nodes whose dfs_collect is active, the innermost first
    left,        \* the neighbors that the call for each node has not come to
    component,   \* the component being collected
    partitions   \* the components collected

graph == <<known, adjacency>>
search == <<todo, visited, stack, left, component, partitions>>
vars == <<graph, pc, search>>

TypeOK ==
    /\ known \subseteq Nodes
    /\ adjacency \in [Nodes -> SUBSET Nodes]
    /\ pc \in {"idle", "partitions"}
    /\ todo \subseteq Nodes
    /\ visited \subseteq Nodes
    /\ stack \in Seq(Nodes)
    /\ left \in [Nodes -> SUBSET Nodes]
    /\ component \subseteq Nodes
    /\ partitions \in Seq(SUBSET Nodes)

Nothing == [n \in Nodes |-> {}]

Init ==
    /\ known = {}
    /\ adjacency = Nothing
    /\ pc = "idle"
    /\ todo = {}
    /\ visited = {}
    /\ stack = <<>>
    /\ left = Nothing
    /\ component = {}
    /\ partitions = <<>>

-----------------------------------------------------------------------------
(* The graph. *)

\* Mutant: an edge has one direction.
AddEdgeOneWay(a, b) ==
    /\ pc = "idle"
    /\ known' = known \cup {a, b}
    /\ adjacency' = [adjacency EXCEPT ![a] = @ \cup {b}]
    /\ UNCHANGED <<pc, search>>

AddEdge(a, b) ==
    /\ pc = "idle"
    /\ known' = known \cup {a, b}
    /\ adjacency' = [n \in Nodes |-> adjacency[n] \cup (IF n = a THEN {b} ELSE {})
                                                  \cup (IF n = b THEN {a} ELSE {})]
    /\ UNCHANGED <<pc, search>>

\* Mutant: only the first node forgets the edge.
RemoveEdgeOneWay(a, b) ==
    /\ pc = "idle"
    /\ adjacency' = [adjacency EXCEPT ![a] = @ \ {b}]
    /\ UNCHANGED <<known, pc, search>>

\* The nodes stay known.
RemoveEdge(a, b) ==
    /\ pc = "idle"
    /\ adjacency' = [n \in Nodes |-> (adjacency[n] \ (IF n = a THEN {b} ELSE {}))
                                                   \ (IF n = b THEN {a} ELSE {})]
    /\ UNCHANGED <<known, pc, search>>

IsConnected(a, b) == b \in adjacency[a]

FindTriangles ==
    {T \in SUBSET known :
        Cardinality(T) = 3 /\ \A a, b \in T : a # b => IsConnected(a, b)}

\* The sizes of the adjacency sets, halved.
CountEdges == Cardinality({p \in Nodes \X Nodes : IsConnected(p[1], p[2])}) \div 2

BettiNumber ==
    IF known = {} THEN 0
    ELSE CountEdges - Cardinality(known) + Cardinality(FindTriangles) + 1

-----------------------------------------------------------------------------
(* The connected components. *)

Partitions ==
    /\ pc = "idle"
    /\ pc' = "partitions"
    /\ todo' = known
    /\ UNCHANGED <<graph, visited, stack, left, component, partitions>>

\* dfs_collect is entered for n.
Enter(n) ==
    /\ visited' = visited \cup {n}
    /\ component' = component \cup {n}
    /\ stack' = <<n>> \o stack

\* The loop of partitions comes to n.
Root(n) ==
    /\ pc = "partitions"
    /\ stack = <<>>
    /\ n \in todo
    /\ todo' = todo \ {n}
    /\ \/ /\ n \notin visited
          /\ Enter(n)
          /\ left' = [left EXCEPT ![n] = adjacency[n]]
       \/ /\ n \in visited
          /\ UNCHANGED <<visited, stack, left, component>>
    /\ UNCHANGED <<graph, pc, partitions>>

\* Mutant: the neighbors are entered whether they were visited or not.
VisitAgain(m) ==
    /\ stack # <<>>
    /\ m \in left[Head(stack)]
    /\ Enter(m)
    /\ left' = [left EXCEPT ![Head(stack)] = @ \ {m}, ![m] = adjacency[m]]
    /\ UNCHANGED <<graph, pc, todo, partitions>>

\* Mutant: the loop ends with the first neighbor that it enters.
VisitOne(m) ==
    /\ stack # <<>>
    /\ m \in left[Head(stack)]
    /\ m \notin visited
    /\ Enter(m)
    /\ left' = [left EXCEPT ![Head(stack)] = {}, ![m] = adjacency[m]]
    /\ UNCHANGED <<graph, pc, todo, partitions>>

\* The innermost loop comes to a neighbor that is not visited.
Visit(m) ==
    /\ stack # <<>>
    /\ m \in left[Head(stack)]
    /\ m \notin visited
    /\ Enter(m)
    /\ left' = [left EXCEPT ![Head(stack)] = @ \ {m}, ![m] = adjacency[m]]
    /\ UNCHANGED <<graph, pc, todo, partitions>>

\* Mutant: the loop does not go on.
SkipNothing(m) ==
    /\ stack # <<>>
    /\ m \in left[Head(stack)]
    /\ m \in visited
    /\ UNCHANGED vars

\* The innermost loop comes to one that is.
Skip(m) ==
    /\ stack # <<>>
    /\ m \in left[Head(stack)]
    /\ m \in visited
    /\ left' = [left EXCEPT ![Head(stack)] = @ \ {m}]
    /\ UNCHANGED <<graph, pc, todo, visited, stack, component, partitions>>

\* The innermost call returns; the outermost one leaves a component.
Leave ==
    /\ stack # <<>>
    /\ left[Head(stack)] = {}
    /\ stack' = Tail(stack)
    /\ IF Len(stack) = 1
       THEN /\ partitions' = Append(partitions, component)
            /\ component' = {}
       ELSE UNCHANGED <<partitions, component>>
    /\ UNCHANGED <<graph, pc, todo, visited, left>>

Finished == pc = "partitions" /\ todo = {} /\ stack = <<>>

\* Mutant: the search leaves a state of its own behind.
AnswerOnce ==
    /\ Finished
    /\ pc' = "answered"
    /\ visited' = {}
    /\ partitions' = <<>>
    /\ UNCHANGED <<graph, todo, stack, left, component>>

Answer ==
    /\ Finished
    /\ pc' = "idle"
    /\ visited' = {}
    /\ partitions' = <<>>
    /\ UNCHANGED <<graph, todo, stack, left, component>>

Searching == (\E n \in Nodes : Root(n) \/ Visit(n) \/ Skip(n)) \/ Leave \/ Answer

Next ==
    \/ \E a, b \in Nodes : AddEdge(a, b) \/ RemoveEdge(a, b)
    \/ Partitions
    \/ Searching

Spec == Init /\ [][Next]_vars

\* A search that has begun goes on: it neither waits nor is interrupted.
FairSpec == Spec /\ WF_vars(Searching)

-----------------------------------------------------------------------------
(* Properties *)

\* Both ends know of an edge and are known themselves, whatever edges come and go:
\* the search, and the halving of the number of edges, rely on it.
EdgesAreMutual ==
    \A a, b \in Nodes : IsConnected(a, b) => IsConnected(b, a) /\ a \in known

Loopless == \A n \in Nodes : ~IsConnected(n, n)

\* Halving counts every edge once. An edge from a node to itself is in one set only
\* and makes the count too small.
EdgesAreCounted ==
    Loopless =>
        CountEdges = Cardinality({e \in SUBSET known :
                                    \E a, b \in known : e = {a, b} /\ IsConnected(a, b)})

Closed(S) == \A n \in S : adjacency[n] \subseteq S

\* No edge leaves the set, and no part of it could be cut off.
IsComponent(S) ==
    /\ S # {}
    /\ Closed(S)
    /\ \A T \in SUBSET S : T # {} /\ Closed(T) => T = S

\* In whatever order the hash maps are walked, each partition is a connected
\* component, none comes twice, and in the end every node is in one.
PartitionsAreComponents ==
    /\ \A i \in DOMAIN partitions : IsComponent(partitions[i])
    /\ \A i, j \in DOMAIN partitions : i # j => partitions[i] \cap partitions[j] = {}
    /\ Finished => \A n \in known : \E i \in DOMAIN partitions : n \in partitions[i]

\* The recursion does not enter a node that it has not left: its depth is at most
\* the number of nodes.
RecursionIsBounded == \A i, j \in DOMAIN stack : i # j => stack[i] # stack[j]

\* The search ends.
PartitionsReturns == pc = "partitions" ~> pc = "idle"

\* "A triangle is one face, without holes": the test of betti_number.
TriangleHasNoHoles ==
    \A T \in FindTriangles : known = T /\ Loopless => BettiNumber = 0
=============================================================================
