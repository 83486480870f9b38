-------------------------- MODULE Topology_proofs --------------------------
(***************************************************************************)
(* Theorems about Topology, for graphs of any size.  The search is correct *)
(* because of two facts about the component being collected: whatever a    *)
(* call has passed by is collected, and any set of nodes that no edge      *)
(* leaves contains all of the component once it contains its root.  How    *)
(* long a search is follows from counting what it has not come to.         *)
(* Theorems about Warmup, StepController and Normalizer follow: what its   *)
(* end and convergence mean for the first, that a quiet curvature ends     *)
(* oscillation for the second, and what is left of a vector's volume for   *)
(* the third, by induction over the sum.                                   *)
(***************************************************************************)
EXTENDS Topology, Warmup, StepController, Normalizer, FiniteSetTheorems,
        SequenceTheorems, WellFoundedInduction, TLAPS

Idle == pc = "idle" =>
    visited = {} /\ todo = {} /\ stack = <<>> /\ partitions = <<>>

StackIsCollected ==
    /\ stack = <<>> => component = {}
    /\ \A i \in DOMAIN stack : stack[i] \in component

\* Only active calls have neighbors left to look at.
LeftIsActive ==
    \A n \in Nodes : left[n] # {} =>
        left[n] \subseteq adjacency[n] /\ \E i \in DOMAIN stack : stack[i] = n

\* Whatever a call has passed by is collected.
PassedIsCollected ==
    \A n \in component : adjacency[n] \subseteq component \cup left[n]

\* Nothing is collected that the root does not lead to.
Rooted(C) ==
    C # {} => \E r \in C : \A S \in SUBSET Nodes : Closed(S) /\ r \in S => C \subseteq S

VisitedIsKept ==
    /\ component \subseteq visited
    /\ \A n \in visited : n \in component \/ \E i \in DOMAIN partitions : n \in partitions[i]
    /\ \A i \in DOMAIN partitions : partitions[i] \subseteq visited /\ partitions[i] \cap component = {}

PartitionsAreDisjoint ==
    \A i, j \in DOMAIN partitions : i # j => partitions[i] \cap partitions[j] = {}

\* Every key is still to come or has been visited.
NothingIsForgotten == pc = "partitions" => known = (known \cap todo) \cup (known \cap visited)

SearchInv ==
    /\ Idle
    /\ StackIsCollected
    /\ LeftIsActive
    /\ PassedIsCollected
    /\ Rooted(component)
    /\ VisitedIsKept
    /\ PartitionsAreDisjoint
    /\ \A i \in DOMAIN partitions : IsComponent(partitions[i])
    /\ NothingIsForgotten
    /\ RecursionIsBounded

Inv == TypeOK /\ EdgesAreMutual /\ SearchInv

-----------------------------------------------------------------------------
(* Lemmas about graphs and stacks. *)

\* In an undirected graph, a closed set all of which its root leads to is a component.
LEMMA ClosedAndRooted ==
    ASSUME EdgesAreMutual, TypeOK, NEW C \in SUBSET Nodes, C # {}, Closed(C), Rooted(C)
    PROVE  IsComponent(C)
<1> SUFFICES ASSUME NEW T \in SUBSET C, T # {}, Closed(T) PROVE T = C
  BY DEF IsComponent
<1>1. PICK r \in C : \A S \in SUBSET Nodes : Closed(S) /\ r \in S => C \subseteq S
  BY DEF Rooted
<1>2. CASE r \in T
  BY <1>1, <1>2
<1>3. CASE r \notin T
  <2> DEFINE U == C \ T
  <2>1. ASSUME NEW n \in U, NEW m \in adjacency[n] PROVE m \in U
    <3>1. m \in C /\ m \in Nodes /\ n \in Nodes
      BY <2>1 DEF Closed, TypeOK
    <3>2. n \in adjacency[m]
      BY <2>1, <3>1 DEF EdgesAreMutual, IsConnected
    <3>3. m \notin T
      BY <2>1, <3>2 DEF Closed
    <3> QED
      BY <3>1, <3>3
  <2>2. Closed(U)
    BY <2>1 DEF Closed
  <2>3. C \subseteq U
    BY <1>1, <1>3, <2>2
  <2> QED
    BY <2>3
<1> QED
  BY <1>2, <1>3

LEMMA PushFacts ==
    ASSUME NEW S, NEW s \in Seq(S), NEW x \in S
    PROVE  /\ <<x>> \o s \in Seq(S) /\ <<x>> \o s # <<>>
           /\ DOMAIN (<<x>> \o s) = 1 .. Len(s) + 1
           /\ DOMAIN s = 1 .. Len(s) /\ Len(s) \in Nat
           /\ (<<x>> \o s)[1] = x
           /\ \A i \in DOMAIN s : (<<x>> \o s)[i + 1] = s[i]
           /\ \A i \in DOMAIN (<<x>> \o s) : i # 1 => i - 1 \in DOMAIN s /\ (<<x>> \o s)[i] = s[i - 1]
OBVIOUS

LEMMA PopFacts ==
    ASSUME NEW S, NEW s \in Seq(S), s # <<>>
    PROVE  /\ Tail(s) \in Seq(S) /\ Head(s) \in S
           /\ DOMAIN s = 1 .. Len(s) /\ Len(s) \in Nat \ {0}
           /\ 1 \in DOMAIN s /\ s[1] = Head(s)
           /\ DOMAIN Tail(s) = 1 .. Len(s) - 1
           /\ \A i \in DOMAIN Tail(s) : i + 1 \in DOMAIN s /\ Tail(s)[i] = s[i + 1]
           /\ \A i \in DOMAIN s : i # 1 => i - 1 \in DOMAIN Tail(s) /\ Tail(s)[i - 1] = s[i]
           /\ Len(s) = 1 <=> Tail(s) = <<>>
<1>1. Len(s) \in Nat \ {0} /\ DOMAIN s = 1 .. Len(s) /\ 1 \in DOMAIN s /\ s[1] = Head(s)
  BY EmptySeq
<1>2. /\ Tail(s) \in Seq(S) /\ Head(s) \in S /\ Len(Tail(s)) = Len(s) - 1
      /\ DOMAIN Tail(s) = 1 .. Len(s) - 1
  BY <1>1
<1>3. \A i \in DOMAIN Tail(s) : i + 1 \in DOMAIN s /\ Tail(s)[i] = s[i + 1]
  BY <1>1, <1>2
<1>4. \A i \in DOMAIN s : i # 1 => i - 1 \in DOMAIN Tail(s) /\ Tail(s)[i - 1] = s[i]
  BY <1>1, <1>2, <1>3
<1>5. Len(s) = 1 <=> Tail(s) = <<>>
  <2>1. Tail(s) = <<>> => Len(Tail(s)) = 0
    BY EmptySeq
  <2>2. Tail(s) # <<>> => Len(Tail(s)) # 0
    BY <1>2, EmptySeq
  <2> QED
    BY <1>1, <1>2, <2>1, <2>2
<1> QED
  BY <1>1, <1>2, <1>3, <1>4, <1>5

LEMMA AppendFacts ==
    ASSUME NEW S, NEW s \in Seq(S), NEW x \in S
    PROVE  /\ Append(s, x) \in Seq(S)
           /\ DOMAIN s = 1 .. Len(s) /\ Len(s) \in Nat
           /\ DOMAIN Append(s, x) = 1 .. Len(s) + 1
           /\ \A i \in DOMAIN s : Append(s, x)[i] = s[i]
           /\ Append(s, x)[Len(s) + 1] = x
           /\ \A i \in DOMAIN Append(s, x) : i \in DOMAIN s \/ i = Len(s) + 1
OBVIOUS

-----------------------------------------------------------------------------

LEMMA InitInv == Init => Inv
BY DEF Init, Inv, SearchInv, TypeOK, Nothing, EdgesAreMutual, IsConnected, Idle, StackIsCollected,
       LeftIsActive, PassedIsCollected, Rooted, VisitedIsKept, PartitionsAreDisjoint,
       NothingIsForgotten, RecursionIsBounded

LEMMA TypeStep == Inv /\ [Next]_vars => TypeOK'
<1> SUFFICES ASSUME Inv, [Next]_vars PROVE TypeOK'
  OBVIOUS
<1> USE DEF TypeOK, graph, search
<1>0. TypeOK
  BY DEF Inv
<1>1. ASSUME NEW a \in Nodes, NEW b \in Nodes, AddEdge(a, b) PROVE TypeOK'
  BY <1>0, <1>1 DEF AddEdge
<1>2. ASSUME NEW a \in Nodes, NEW b \in Nodes, RemoveEdge(a, b) PROVE TypeOK'
  BY <1>0, <1>2 DEF RemoveEdge
<1>3. CASE Partitions
  BY <1>0, <1>3 DEF Partitions
<1>4. ASSUME NEW n \in Nodes, Root(n) PROVE TypeOK'
  <2>1. <<n>> \o stack \in Seq(Nodes)
    BY <1>0, PushFacts
  <2> QED
    BY <1>0, <1>4, <2>1 DEF Root, Enter
<1>5. ASSUME NEW m \in Nodes, Visit(m) PROVE TypeOK'
  BY <1>0, <1>5, PushFacts DEF Visit, Enter
<1>6. ASSUME NEW m \in Nodes, Skip(m) PROVE TypeOK'
  BY <1>0, <1>6 DEF Skip
<1>7. CASE Leave
  <2>1. Tail(stack) \in Seq(Nodes)
    BY <1>0, <1>7, PopFacts DEF Leave
  <2>2. Append(partitions, component) \in Seq(SUBSET Nodes)
    BY <1>0, AppendFacts
  <2> QED
    BY <1>0, <1>7, <2>1, <2>2 DEF Leave
<1>8. CASE Answer
  BY <1>0, <1>8 DEF Answer
<1>9. CASE UNCHANGED vars
  BY <1>0, <1>9 DEF vars
<1> QED
  BY <1>1, <1>2, <1>3, <1>4, <1>5, <1>6, <1>7, <1>8, <1>9 DEF Next, Searching

LEMMA EdgesStep == Inv /\ [Next]_vars => EdgesAreMutual'
<1> SUFFICES ASSUME Inv, [Next]_vars PROVE EdgesAreMutual'
  OBVIOUS
<1> USE DEF EdgesAreMutual, IsConnected, graph
<1>0. TypeOK /\ EdgesAreMutual
  BY DEF Inv
<1>1. ASSUME NEW a \in Nodes, NEW b \in Nodes, AddEdge(a, b) PROVE EdgesAreMutual'
  BY <1>0, <1>1 DEF AddEdge, TypeOK
<1>2. ASSUME NEW a \in Nodes, NEW b \in Nodes, RemoveEdge(a, b) PROVE EdgesAreMutual'
  BY <1>0, <1>2 DEF RemoveEdge, TypeOK
<1>3. ASSUME UNCHANGED graph PROVE EdgesAreMutual'
  BY <1>0, <1>3
<1> QED
  BY <1>1, <1>2, <1>3 DEF Next, Partitions, Searching, Root, Visit, Skip, Leave, Answer, vars

\* Without an active call nothing is being collected.
LEMMA Quiet ==
    ASSUME Inv, stack = <<>>
    PROVE  component = {} /\ \A n \in Nodes : left[n] = {}
BY DEF Inv, SearchInv, StackIsCollected, LeftIsActive

\* The graph changes, or a search begins, while there is no search.
LEMMA IdleStep ==
    ASSUME Inv, pc = "idle", UNCHANGED <<visited, stack, left, component, partitions>>,
           pc' = "idle" => todo' = {},
           pc' = "partitions" => todo' = known'
    PROVE  SearchInv'
<1>1. /\ visited = {} /\ stack = <<>> /\ partitions = <<>> /\ component = {}
      /\ \A n \in Nodes : left[n] = {}
  BY Quiet DEF Inv, SearchInv, Idle
<1> QED
  BY <1>1 DEF SearchInv, Idle, StackIsCollected, LeftIsActive, PassedIsCollected, Rooted,
              VisitedIsKept, PartitionsAreDisjoint, NothingIsForgotten, RecursionIsBounded

LEMMA RootStep == ASSUME Inv, TypeOK', NEW n \in Nodes, Root(n) PROVE SearchInv'
<1>0. TypeOK /\ SearchInv
  BY DEF Inv
<1>1. /\ pc = "partitions" /\ pc' = "partitions" /\ stack = <<>> /\ component = {}
      /\ \A m \in Nodes : left[m] = {}
      /\ UNCHANGED <<graph, partitions>>
      /\ todo' = todo \ {n}
  BY Quiet DEF Root
<1>2. CASE n \in visited
  <2>1. UNCHANGED <<visited, stack, left, component>>
    BY <1>2 DEF Root
  <2> QED
    BY <1>0, <1>1, <1>2, <2>1
       DEF SearchInv, Idle, StackIsCollected, LeftIsActive, PassedIsCollected, Rooted, Closed,
           VisitedIsKept, PartitionsAreDisjoint, IsComponent, NothingIsForgotten,
           RecursionIsBounded, graph
<1>3. CASE n \notin visited
  <2>1. /\ visited' = visited \cup {n} /\ component' = {n}
        /\ stack' = <<n>> \o stack
        /\ left' = [left EXCEPT ![n] = adjacency[n]]
    BY <1>1, <1>3 DEF Root, Enter
  <2>2. stack' # <<>> /\ DOMAIN stack' = {1} /\ stack'[1] = n
    BY <1>1, <2>1
  <2>3. left'[n] = adjacency[n] /\ \A m \in Nodes : m # n => left'[m] = {}
    BY <1>0, <1>1, <2>1 DEF TypeOK
  <2>4. Idle' /\ StackIsCollected' /\ LeftIsActive' /\ PassedIsCollected'
    BY <1>1, <2>1, <2>2, <2>3
       DEF Idle, StackIsCollected, LeftIsActive, PassedIsCollected, graph
  <2>5. Rooted(component)'
    BY <2>1 DEF Rooted
  <2>6. VisitedIsKept'
    BY <1>0, <1>1, <1>3, <2>1 DEF SearchInv, VisitedIsKept
  <2>7. PartitionsAreDisjoint' /\ \A i \in DOMAIN partitions' : IsComponent(partitions[i])'
    BY <1>0, <1>1 DEF SearchInv, PartitionsAreDisjoint, IsComponent, Closed, graph
  <2>8. NothingIsForgotten' /\ RecursionIsBounded'
    BY <1>0, <1>1, <2>1, <2>2 DEF SearchInv, NothingIsForgotten, RecursionIsBounded, graph
  <2> QED
    BY <2>4, <2>5, <2>6, <2>7, <2>8 DEF SearchInv
<1> QED
  BY <1>2, <1>3

\* What the call on top of the stack is about.
LEMMA TopFacts ==
    ASSUME Inv, stack # <<>>
    PROVE  /\ pc = "partitions"
           /\ Head(stack) \in component /\ Head(stack) \in Nodes
           /\ left[Head(stack)] \subseteq adjacency[Head(stack)]
<1>1. Head(stack) \in Nodes /\ 1 \in DOMAIN stack /\ stack[1] = Head(stack)
  BY PopFacts DEF Inv, TypeOK
<1>2. Head(stack) \in component
  BY <1>1 DEF Inv, SearchInv, StackIsCollected
<1>3. pc = "partitions"
  BY DEF Inv, SearchInv, Idle, TypeOK
<1> QED
  BY <1>1, <1>2, <1>3 DEF Inv, SearchInv, LeftIsActive

LEMMA VisitStep == ASSUME Inv, TypeOK', NEW m \in Nodes, Visit(m) PROVE SearchInv'
<1>0. TypeOK /\ SearchInv
  BY DEF Inv
<1> DEFINE top == Head(stack)
<1>1. /\ pc = "partitions" /\ top \in component /\ top \in Nodes
      /\ m \in left[top] /\ left[top] \subseteq adjacency[top] /\ m \notin visited
  BY TopFacts DEF Visit
<1>2. /\ visited' = visited \cup {m} /\ component' = component \cup {m}
      /\ stack' = <<m>> \o stack
      /\ UNCHANGED <<graph, pc, todo, partitions>>
  BY DEF Visit, Enter
<1>3. component \subseteq visited /\ m \notin component /\ m # top
  BY <1>0, <1>1 DEF SearchInv, VisitedIsKept
<1>4. /\ left'[top] = left[top] \ {m} /\ left'[m] = adjacency[m]
      /\ \A n \in Nodes : n # top /\ n # m => left'[n] = left[n]
  BY <1>0, <1>3 DEF Visit, TypeOK
<1>5. /\ stack' # <<>> /\ 1 \in DOMAIN stack' /\ stack'[1] = m
      /\ \A i \in DOMAIN stack : i + 1 \in DOMAIN stack' /\ stack'[i + 1] = stack[i]
      /\ \A i \in DOMAIN stack' : i # 1 => i - 1 \in DOMAIN stack /\ stack'[i] = stack[i - 1]
      /\ \A i \in DOMAIN stack' : i \in Nat
  <2>1. stack \in Seq(Nodes)
    BY <1>0 DEF TypeOK
  <2> QED
    BY <1>2, <2>1, PushFacts
<1>6. Idle' /\ StackIsCollected'
  BY <1>0, <1>1, <1>2, <1>5 DEF SearchInv, Idle, StackIsCollected
<1>7. LeftIsActive'
  <2> SUFFICES ASSUME NEW n \in Nodes, left'[n] # {}
               PROVE  left'[n] \subseteq adjacency[n] /\ \E i \in DOMAIN stack' : stack'[i] = n
    BY <1>2 DEF LeftIsActive, graph
  <2>1. CASE n = m
    BY <1>4, <1>5, <2>1
  <2>2. CASE n # m
    <3>1. left[n] # {} /\ left'[n] \subseteq left[n]
      BY <1>1, <1>4, <2>2
    <3>2. left[n] \subseteq adjacency[n] /\ \E i \in DOMAIN stack : stack[i] = n
      BY <1>0, <3>1 DEF SearchInv, LeftIsActive
    <3> QED
      BY <1>5, <3>1, <3>2
  <2> QED
    BY <2>1, <2>2
<1>8. PassedIsCollected'
  <2> SUFFICES ASSUME NEW n \in component'
               PROVE  adjacency[n] \subseteq component' \cup left'[n]
    BY <1>2 DEF PassedIsCollected, graph
  <2>1. CASE n = m
    BY <1>4, <2>1
  <2>2. CASE n # m
    <3>1. n \in component /\ n \in Nodes
      BY <1>0, <1>2, <2>2 DEF TypeOK
    <3>2. adjacency[n] \subseteq component \cup left[n]
      BY <1>0, <3>1 DEF SearchInv, PassedIsCollected
    <3> QED
      BY <1>2, <1>4, <2>2, <3>1, <3>2
  <2> QED
    BY <2>1, <2>2
<1>9. Rooted(component)'
  <2>1. PICK r \in component :
            \A S \in SUBSET Nodes : Closed(S) /\ r \in S => component \subseteq S
    BY <1>0, <1>1 DEF SearchInv, Rooted
  <2>2. ASSUME NEW S \in SUBSET Nodes, Closed(S), r \in S PROVE component' \subseteq S
    <3>1. component \subseteq S
      BY <2>1, <2>2
    <3>2. m \in S
      BY <1>1, <2>2, <3>1 DEF Closed
    <3> QED
      BY <1>2, <3>1, <3>2
  <2> QED
    BY <1>2, <2>2 DEF Rooted, Closed, graph
<1>10. VisitedIsKept'
  BY <1>0, <1>1, <1>2 DEF SearchInv, VisitedIsKept
<1>11. PartitionsAreDisjoint' /\ \A i \in DOMAIN partitions' : IsComponent(partitions[i])'
  BY <1>0, <1>2 DEF SearchInv, PartitionsAreDisjoint, IsComponent, Closed, graph
<1>12. NothingIsForgotten'
  BY <1>0, <1>2 DEF SearchInv, NothingIsForgotten, graph
<1>13. RecursionIsBounded'
  <2> SUFFICES ASSUME NEW i \in DOMAIN stack', NEW j \in DOMAIN stack', i # j
               PROVE  stack'[i] # stack'[j]
    BY DEF RecursionIsBounded
  <2>1. \A k \in DOMAIN stack : stack[k] # m
    BY <1>0, <1>3 DEF SearchInv, StackIsCollected
  <2> QED
    BY <1>0, <1>5, <2>1 DEF SearchInv, RecursionIsBounded
<1> QED
  BY <1>6, <1>7, <1>8, <1>9, <1>10, <1>11, <1>12, <1>13 DEF SearchInv

LEMMA SkipStep == ASSUME Inv, NEW m \in Nodes, Skip(m) PROVE SearchInv'
<1>0. TypeOK /\ SearchInv /\ EdgesAreMutual
  BY DEF Inv
<1> DEFINE top == Head(stack)
<1>1. /\ pc = "partitions" /\ top \in component /\ top \in Nodes
      /\ m \in left[top] /\ left[top] \subseteq adjacency[top] /\ m \in visited
  BY TopFacts DEF Skip
<1>2. /\ UNCHANGED <<graph, pc, todo, visited, stack, component, partitions>>
      /\ left'[top] = left[top] \ {m}
      /\ \A n \in Nodes : n # top => left'[n] = left[n]
  BY <1>0, <1>1 DEF Skip, TypeOK
<1>3. m \in component
  <2> SUFFICES ASSUME NEW i \in DOMAIN partitions, m \in partitions[i] PROVE FALSE
    BY <1>0, <1>1 DEF SearchInv, VisitedIsKept
  <2>1. top \in adjacency[m]
    BY <1>0, <1>1 DEF EdgesAreMutual, IsConnected
  <2>2. top \in partitions[i]
    BY <1>0, <2>1 DEF SearchInv, IsComponent, Closed
  <2> QED
    BY <1>0, <1>1, <2>2 DEF SearchInv, VisitedIsKept
<1>4. LeftIsActive'
  <2> SUFFICES ASSUME NEW n \in Nodes, left'[n] # {}
               PROVE  left'[n] \subseteq adjacency[n] /\ \E i \in DOMAIN stack : stack[i] = n
    BY <1>2 DEF LeftIsActive, graph
  <2>1. left[n] # {} /\ left'[n] \subseteq left[n]
    BY <1>1, <1>2
  <2> QED
    BY <1>0, <2>1 DEF SearchInv, LeftIsActive
<1>5. PassedIsCollected'
  <2> SUFFICES ASSUME NEW n \in component
               PROVE  adjacency[n] \subseteq component \cup left'[n]
    BY <1>2 DEF PassedIsCollected, graph
  <2>1. n \in Nodes /\ adjacency[n] \subseteq component \cup left[n]
    BY <1>0 DEF TypeOK, SearchInv, PassedIsCollected
  <2> QED
    BY <1>2, <1>3, <2>1
<1>6. Idle' /\ StackIsCollected' /\ VisitedIsKept' /\ PartitionsAreDisjoint'
  BY <1>0, <1>1, <1>2 DEF SearchInv, Idle, StackIsCollected, VisitedIsKept, PartitionsAreDisjoint
<1>7. Rooted(component)' /\ \A i \in DOMAIN partitions' : IsComponent(partitions[i])'
  BY <1>0, <1>2 DEF SearchInv, Rooted, IsComponent, Closed, graph
<1>8. NothingIsForgotten' /\ RecursionIsBounded'
  BY <1>0, <1>2 DEF SearchInv, NothingIsForgotten, RecursionIsBounded, graph
<1> QED
  BY <1>4, <1>5, <1>6, <1>7, <1>8 DEF SearchInv

LEMMA LeaveStep == ASSUME Inv, Leave PROVE SearchInv'
<1>0. TypeOK /\ SearchInv /\ EdgesAreMutual
  BY DEF Inv
<1>1. /\ pc = "partitions" /\ stack # <<>> /\ left[Head(stack)] = {}
      /\ stack' = Tail(stack)
      /\ UNCHANGED <<graph, pc, todo, visited, left>>
  BY TopFacts DEF Leave
<1>2. /\ 1 \in DOMAIN stack /\ stack[1] = Head(stack) /\ Head(stack) \in Nodes
      /\ DOMAIN stack = 1 .. Len(stack) /\ Len(stack) \in Nat \ {0}
      /\ DOMAIN stack' = 1 .. Len(stack) - 1
      /\ \A i \in DOMAIN stack' : i + 1 \in DOMAIN stack /\ stack'[i] = stack[i + 1]
      /\ \A i \in DOMAIN stack : i # 1 => i - 1 \in DOMAIN stack' /\ stack'[i - 1] = stack[i]
      /\ Len(stack) = 1 <=> stack' = <<>>
  BY <1>0, <1>1, PopFacts DEF TypeOK
<1>3. LeftIsActive'
  <2> SUFFICES ASSUME NEW n \in Nodes, left[n] # {}
               PROVE  left[n] \subseteq adjacency[n] /\ \E i \in DOMAIN stack' : stack'[i] = n
    BY <1>1 DEF LeftIsActive, graph
  <2>1. left[n] \subseteq adjacency[n] /\ \E i \in DOMAIN stack : stack[i] = n
    BY <1>0 DEF SearchInv, LeftIsActive
  <2>2. PICK i \in DOMAIN stack : stack[i] = n
    BY <2>1
  <2>3. i # 1
    BY <1>1, <1>2, <2>2
  <2>4. i - 1 \in DOMAIN stack' /\ stack'[i - 1] = n
    BY <1>2, <2>2, <2>3
  <2> QED
    BY <2>1, <2>4
<1>4. RecursionIsBounded'
  BY <1>0, <1>2 DEF SearchInv, RecursionIsBounded
<1>5. Idle' /\ NothingIsForgotten'
  BY <1>0, <1>1 DEF SearchInv, Idle, NothingIsForgotten, graph
<1>6. CASE Len(stack) # 1
  <2>1. UNCHANGED <<partitions, component>> /\ stack' # <<>>
    BY <1>2, <1>6 DEF Leave
  <2>2. StackIsCollected'
    BY <1>0, <1>2, <2>1 DEF SearchInv, StackIsCollected
  <2>3. PassedIsCollected' /\ VisitedIsKept' /\ PartitionsAreDisjoint'
    BY <1>0, <1>1, <2>1
       DEF SearchInv, PassedIsCollected, VisitedIsKept, PartitionsAreDisjoint, graph
  <2>4. Rooted(component)' /\ \A i \in DOMAIN partitions' : IsComponent(partitions[i])'
    BY <1>0, <1>1, <2>1 DEF SearchInv, Rooted, IsComponent, Closed, graph
  <2> QED
    BY <1>3, <1>4, <1>5, <2>2, <2>3, <2>4 DEF SearchInv
<1>7. CASE Len(stack) = 1
  <2>1. /\ partitions' = Append(partitions, component) /\ component' = {} /\ stack' = <<>>
    BY <1>2, <1>7 DEF Leave
  <2>2. \A n \in Nodes : left[n] = {}
    BY <1>0, <1>1, <1>2, <1>7 DEF SearchInv, LeftIsActive
  <2>3. component \subseteq Nodes /\ Head(stack) \in component /\ Closed(component)
    BY <1>0, <1>2, <2>2 DEF TypeOK, SearchInv, StackIsCollected, PassedIsCollected, Closed
  <2>4. IsComponent(component)
    BY <1>0, <2>3, ClosedAndRooted DEF SearchInv
  <2>5. /\ DOMAIN partitions = 1 .. Len(partitions) /\ Len(partitions) \in Nat
        /\ DOMAIN partitions' = 1 .. Len(partitions) + 1
        /\ \A i \in DOMAIN partitions : partitions'[i] = partitions[i]
        /\ partitions'[Len(partitions) + 1] = component
        /\ \A i \in DOMAIN partitions' : i \in DOMAIN partitions \/ i = Len(partitions) + 1
    BY <1>0, <2>1, AppendFacts DEF TypeOK
  <2>6. \A i \in DOMAIN partitions' : IsComponent(partitions[i])'
    <3> SUFFICES ASSUME NEW i \in DOMAIN partitions' PROVE IsComponent(partitions'[i])
      BY <1>1 DEF IsComponent, Closed, graph
    <3> QED
      BY <1>0, <2>4, <2>5 DEF SearchInv
  <2>7. VisitedIsKept'
    <3>1. \A n \in visited : \E i \in DOMAIN partitions' : n \in partitions'[i]
      BY <1>0, <2>5 DEF SearchInv, VisitedIsKept
    <3>2. \A i \in DOMAIN partitions' : partitions'[i] \subseteq visited
      BY <1>0, <2>5 DEF SearchInv, VisitedIsKept
    <3> QED
      BY <1>1, <2>1, <3>1, <3>2 DEF VisitedIsKept
  <2>8. PartitionsAreDisjoint'
    <3> SUFFICES ASSUME NEW i \in DOMAIN partitions', NEW j \in DOMAIN partitions', i # j
                 PROVE  partitions'[i] \cap partitions'[j] = {}
      BY DEF PartitionsAreDisjoint
    <3>1. CASE i \in DOMAIN partitions /\ j \in DOMAIN partitions
      BY <1>0, <2>5, <3>1 DEF SearchInv, PartitionsAreDisjoint
    <3>2. CASE i = Len(partitions) + 1 /\ j \in DOMAIN partitions
      BY <1>0, <2>5, <3>2 DEF SearchInv, VisitedIsKept
    <3>3. CASE i \in DOMAIN partitions /\ j = Len(partitions) + 1
      BY <1>0, <2>5, <3>3 DEF SearchInv, VisitedIsKept
    <3> QED
      BY <2>5, <3>1, <3>2, <3>3
  <2>9. StackIsCollected' /\ PassedIsCollected' /\ Rooted(component)'
    BY <1>2, <1>7, <2>1 DEF StackIsCollected, PassedIsCollected, Rooted
  <2> QED
    BY <1>3, <1>4, <1>5, <2>6, <2>7, <2>8, <2>9 DEF SearchInv
<1> QED
  BY <1>6, <1>7

LEMMA AnswerStep == ASSUME Inv, Answer PROVE SearchInv'
<1>1. component = {} /\ (\A n \in Nodes : left[n] = {}) /\ stack = <<>> /\ todo = {}
  BY Quiet DEF Answer, Finished
<1>2. /\ pc' = "idle" /\ visited' = {} /\ partitions' = <<>>
      /\ UNCHANGED <<graph, todo, stack, left, component>>
  BY DEF Answer
<1> QED
  BY <1>1, <1>2
     DEF SearchInv, Idle, StackIsCollected, LeftIsActive, PassedIsCollected, Rooted,
         VisitedIsKept, PartitionsAreDisjoint, NothingIsForgotten, RecursionIsBounded

LEMMA SearchStep == Inv /\ [Next]_vars => SearchInv'
<1> SUFFICES ASSUME Inv, [Next]_vars PROVE SearchInv'
  OBVIOUS
<1>0. TypeOK' /\ SearchInv
  BY TypeStep DEF Inv
<1>1. ASSUME NEW a \in Nodes, NEW b \in Nodes, AddEdge(a, b) PROVE SearchInv'
  <2>1. pc = "idle" /\ pc' = "idle" /\ UNCHANGED search
    BY <1>1 DEF AddEdge
  <2> QED
    BY <2>1, IdleStep DEF Inv, SearchInv, Idle, search
<1>2. ASSUME NEW a \in Nodes, NEW b \in Nodes, RemoveEdge(a, b) PROVE SearchInv'
  <2>1. pc = "idle" /\ pc' = "idle" /\ UNCHANGED search
    BY <1>2 DEF RemoveEdge
  <2> QED
    BY <2>1, IdleStep DEF Inv, SearchInv, Idle, search
<1>3. CASE Partitions
  BY <1>3, IdleStep DEF Partitions, graph
<1>4. CASE UNCHANGED vars
  BY <1>0, <1>4
     DEF SearchInv, Idle, StackIsCollected, LeftIsActive, PassedIsCollected, Rooted, Closed,
         VisitedIsKept, PartitionsAreDisjoint, IsComponent, NothingIsForgotten,
         RecursionIsBounded, vars, graph, search
<1> QED
  BY <1>0, <1>1, <1>2, <1>3, <1>4, RootStep, VisitStep, SkipStep, LeaveStep, AnswerStep
     DEF Next, Searching

LEMMA InvHolds == Spec => []Inv
<1>1. Inv /\ [Next]_vars => Inv'
  BY TypeStep, EdgesStep, SearchStep DEF Inv
<1> QED
  BY InitInv, <1>1, PTL DEF Spec

-----------------------------------------------------------------------------

\* The graph and the locals of the search stay well-typed.
THEOREM TypeCorrect == Spec => []TypeOK
<1>1. Inv => TypeOK
  BY DEF Inv
<1> QED
  BY <1>1, InvHolds, PTL

\* Whatever edges add_edge and remove_edge write, both ends agree on them.
THEOREM EdgesStayMutual == Spec => []EdgesAreMutual
<1>1. Inv => EdgesAreMutual
  BY DEF Inv
<1> QED
  BY <1>1, InvHolds, PTL

\* partitions() answers the connected components, in whatever order the hash maps
\* are walked.
THEOREM PartitionsCorrect == Spec => []PartitionsAreComponents
<1>1. ASSUME Inv, Finished PROVE \A n \in known : \E i \in DOMAIN partitions : n \in partitions[i]
  <2>1. component = {}
    BY <1>1, Quiet DEF Finished
  <2>2. known \subseteq visited
    BY <1>1 DEF Inv, SearchInv, Finished, NothingIsForgotten
  <2> QED
    BY <1>1, <2>1, <2>2 DEF Inv, SearchInv, VisitedIsKept
<1>2. Inv => PartitionsAreComponents
  BY <1>1 DEF Inv, SearchInv, PartitionsAreComponents, PartitionsAreDisjoint
<1> QED
  BY <1>2, InvHolds, PTL

\* dfs_collect is active at most once for a node: it recurses no deeper than there are
\* nodes.
THEOREM RecursionBounded == Spec => []RecursionIsBounded
<1>1. Inv => RecursionIsBounded
  BY DEF Inv, SearchInv
<1> QED
  BY <1>1, InvHolds, PTL

\* A function that matches the elements of two sets shows that they are equally large.
LEMMA MatchedSets ==
    ASSUME NEW S, NEW T, IsFiniteSet(S), NEW f \in [S -> T],
           \A x, y \in S : f[x] = f[y] => x = y,
           \A t \in T : \E x \in S : f[x] = t
    PROVE  IsFiniteSet(T) /\ Cardinality(T) = Cardinality(S)
<1>1. f \in Bijection(S, T)
  BY DEF Bijection, Injection, Surjection, IsInjective
<1> QED
  BY <1>1, FS_Bijection DEF ExistsBijection

\* The directed edges, without one from a node to itself, pair up: half of them
\* stand for the edges, the other half are the same ones the other way round.
LEMMA DirectedEdgesPairUp ==
    ASSUME NEW N, IsFiniteSet(N), NEW D, D \subseteq N \X N,
           \A a, b \in N : <<a, b>> \in D => <<b, a>> \in D /\ a # b,
           NEW E, \A e \in E : \E a, b \in N : e = {a, b} /\ <<a, b>> \in D,
           \A a, b \in N : <<a, b>> \in D => {a, b} \in E
    PROVE  Cardinality(D) \div 2 = Cardinality(E)
<1> DEFINE Ends(p) == {p[1], p[2]}
           Back(p) == <<p[2], p[1]>>
           Pick(e) == CHOOSE p \in D : Ends(p) = e
           One == {Pick(e) : e \in E}
           Other == {Back(p) : p \in One}
<1>1. \A p \in D : p = <<p[1], p[2]>> /\ p[1] \in N /\ p[2] \in N /\ p[1] # p[2]
  OBVIOUS
<1>2. \A p \in D : /\ Back(p) \in D /\ Back(p) # p /\ Back(Back(p)) = p
                   /\ Ends(p) \in E /\ Ends(Back(p)) = Ends(p)
  <2> TAKE p \in D
  <2>1. p = <<p[1], p[2]>> /\ p[1] \in N /\ p[2] \in N /\ p[1] # p[2]
    BY <1>1
  <2>2. Back(p) \in D /\ Ends(p) \in E
    BY <2>1
  <2>3. Back(p)[1] = p[2] /\ Back(p)[2] = p[1]
    OBVIOUS
  <2> QED
    BY <2>1, <2>2, <2>3
<1>3. \A p, q \in D : Ends(p) = Ends(q) => q = p \/ q = Back(p)
  <2> TAKE p \in D, q \in D
  <2>1. p = <<p[1], p[2]>> /\ q = <<q[1], q[2]>>
    BY <1>1
  <2>2. Ends(p) = Ends(q) => \/ q[1] = p[1] /\ q[2] = p[2]
                             \/ q[1] = p[2] /\ q[2] = p[1]
    OBVIOUS
  <2> QED
    BY <2>1, <2>2
<1>4. \A e \in E : Pick(e) \in D /\ Ends(Pick(e)) = e
  <2> TAKE e \in E
  <2>1. PICK a \in N, b \in N : e = {a, b} /\ <<a, b>> \in D
    OBVIOUS
  <2>2. Ends(<<a, b>>) = e
    BY <2>1
  <2> QED
    BY <2>1, <2>2
<1> HIDE DEF Ends, Back, Pick
<1>5. /\ \A e \in E : Pick(e) \in One
      /\ \A p \in One : \E e \in E : p = Pick(e)
      /\ \A p \in One : Back(p) \in Other
      /\ \A p \in Other : \E q \in One : p = Back(q)
  OBVIOUS
<1> HIDE DEF One, Other
<1>6. \A p \in One : p \in D /\ Pick(Ends(p)) = p
  BY <1>4, <1>5
<1>7. \A p \in D : p \in One \/ p \in Other
  <2> TAKE p \in D
  <2>1. Pick(Ends(p)) \in One /\ Pick(Ends(p)) \in D /\ Ends(Pick(Ends(p))) = Ends(p)
    BY <1>2, <1>4, <1>5
  <2> QED
    BY <2>1, <1>3, <1>5
<1>8. \A p \in One : Back(p) \in D /\ Back(p) \notin One
  BY <1>2, <1>6
<1>9. D = One \cup Other /\ One \cap Other = {}
  <2>1. \A p \in Other : p \in D /\ p \notin One
    BY <1>5, <1>8
  <2> QED
    BY <2>1, <1>6, <1>7
<1>10. IsFiniteSet(One) /\ Cardinality(One) \in Nat
  <2>1. IsFiniteSet(N \X N)
    BY FS_Product
  <2>2. One \in SUBSET (N \X N)
    BY <1>6
  <2> QED
    BY <2>1, <2>2, FS_Subset, FS_CardinalityType
<1>11. Cardinality(E) = Cardinality(One)
  <2> DEFINE f == [p \in One |-> Ends(p)]
  <2>1. f \in [One -> E]
    BY <1>2, <1>6
  <2>2. \A x, y \in One : f[x] = f[y] => x = y
    <3> TAKE x \in One, y \in One
    <3>1. f[x] = Ends(x) /\ f[y] = Ends(y)
      OBVIOUS
    <3> QED
      BY <3>1, <1>6
  <2>3. \A e \in E : \E x \in One : f[x] = e
    <3> TAKE e \in E
    <3>1. Pick(e) \in One /\ Ends(Pick(e)) = e
      BY <1>4, <1>5
    <3>2. f[Pick(e)] = e
      BY <3>1
    <3> QED
      BY <3>1, <3>2
  <2> HIDE DEF f
  <2> QED
    BY <2>1, <2>2, <2>3, <1>10, MatchedSets
<1>12. IsFiniteSet(Other) /\ Cardinality(Other) = Cardinality(One)
  <2> DEFINE f == [p \in One |-> Back(p)]
  <2>1. f \in [One -> Other]
    BY <1>5
  <2>2. \A x, y \in One : f[x] = f[y] => x = y
    <3> TAKE x \in One, y \in One
    <3>1. f[x] = Back(x) /\ f[y] = Back(y)
      OBVIOUS
    <3>2. Back(Back(x)) = x /\ Back(Back(y)) = y
      BY <1>2, <1>6
    <3> QED
      BY <3>1, <3>2
  <2>3. \A p \in Other : \E x \in One : f[x] = p
    BY <1>5
  <2> HIDE DEF f
  <2> QED
    BY <2>1, <2>2, <2>3, <1>10, MatchedSets
<1>13. Cardinality(One \cap Other) = 0
  BY <1>9, FS_EmptySet
<1>14. Cardinality(D) = Cardinality(One) + Cardinality(One)
  <2>1. Cardinality(One \cup Other) =
          Cardinality(One) + Cardinality(Other) - Cardinality(One \cap Other)
    BY <1>10, <1>12, FS_Union
  <2> QED
    BY <2>1, <1>9, <1>10, <1>12, <1>13
<1>15. \A n \in Nat : (n + n) \div 2 = n
  OBVIOUS
<1> QED
  BY <1>10, <1>11, <1>14, <1>15

\* Halving the sizes of the adjacency sets counts every edge once.
THEOREM EdgesAreCountedOnce == Spec => []EdgesAreCounted
<1>1. TypeOK /\ EdgesAreMutual => EdgesAreCounted
  <2> SUFFICES ASSUME TypeOK, EdgesAreMutual, Loopless PROVE EdgesAreCounted
    BY DEF EdgesAreCounted
  <2> DEFINE D == {p \in Nodes \X Nodes : IsConnected(p[1], p[2])}
  <2>1. \A a, b \in Nodes : <<a, b>> \in D <=> IsConnected(a, b)
    OBVIOUS
  <2>2. D \subseteq known \X known
    BY DEF EdgesAreMutual
  <2>3. known \in SUBSET Nodes /\ IsFiniteSet(known)
    BY NodesAssumption, FS_Subset DEF TypeOK
  <2>4. \A a, b \in known : <<a, b>> \in D => <<b, a>> \in D /\ a # b
    BY <2>1, <2>3 DEF EdgesAreMutual, Loopless
  <2> HIDE DEF D
  <2> DEFINE E == {e \in SUBSET known : \E a, b \in known : e = {a, b} /\ IsConnected(a, b)}
  <2>5. /\ \A e \in E : \E a, b \in known : e = {a, b} /\ <<a, b>> \in D
        /\ \A a, b \in known : <<a, b>> \in D => {a, b} \in E
    BY <2>1, <2>3
  <2> HIDE DEF E
  <2>6. Cardinality(D) \div 2 = Cardinality(E)
    BY <2>2, <2>3, <2>4, <2>5, DirectedEdgesPairUp
  <2> QED
    BY <2>6 DEF EdgesAreCounted, CountEdges, D, E
<1> QED
  BY <1>1, TypeCorrect, EdgesStayMutual, PTL

-----------------------------------------------------------------------------
(* The length of a search: the part of PartitionsReturns that is about     *)
(* states and steps.                                                       *)

\* The nodes whose dfs_collect has not returned.
Unfinished == {n \in known : n \notin visited \/ \E i \in DOMAIN stack : stack[i] = n}

Neighbors == {p \in Nodes \X Nodes : IsConnected(p[1], p[2])}

\* The neighbors that no loop has come to.
Unpassed == {p \in Neighbors : p[1] \notin visited \/ p[2] \in left[p[1]]}

StepsToAnswer == Cardinality(todo) + Cardinality(Unfinished) + Cardinality(Unpassed)

\* A search of partitions takes one step for every key, one for every call of
\* dfs_collect that returns and one for every neighbor of a node, and then answers:
\* its length is linear in nodes and edges, in whatever order the sets are walked.
SearchIsLinear ==
    [][/\ pc = "idle" /\ pc' = "partitions" =>
            StepsToAnswer' = 2 * Cardinality(known) + Cardinality(Neighbors)
       /\ pc = "partitions" =>
            \/ Finished /\ pc' = "idle"
            \/ pc' = "partitions" /\ StepsToAnswer' = StepsToAnswer - 1]_vars

\* The count is right: nothing is left when the search may answer, and only then.
AnswerIsDue == pc = "partitions" => (StepsToAnswer = 0 <=> Finished)

\* Only known nodes are searched.
OnlyKnown == todo \subseteq known /\ visited \subseteq known

LEMMA OnlyKnownStep ==
    ASSUME Inv, Inv', OnlyKnown, [Next]_vars PROVE OnlyKnown'
<1> USE DEF OnlyKnown, graph, search
<1>1. ASSUME NEW a \in Nodes, NEW b \in Nodes, AddEdge(a, b) \/ RemoveEdge(a, b) PROVE OnlyKnown'
  BY <1>1 DEF AddEdge, RemoveEdge
<1>2. CASE Partitions
  BY <1>2 DEF Partitions
<1>3. ASSUME NEW n \in Nodes, Root(n) PROVE OnlyKnown'
  BY <1>3 DEF Root, Enter
<1>4. ASSUME NEW m \in Nodes, Visit(m) PROVE OnlyKnown'
  <2>1. m \in adjacency[Head(stack)] /\ Head(stack) \in Nodes
    BY <1>4, TopFacts DEF Visit
  <2>2. m \in known
    BY <2>1 DEF Inv, EdgesAreMutual, IsConnected
  <2> QED
    BY <1>4, <2>2 DEF Visit, Enter
<1>5. ASSUME NEW m \in Nodes, Skip(m) PROVE OnlyKnown'
  BY <1>5 DEF Skip
<1>6. CASE Leave \/ Answer
  BY <1>6 DEF Leave, Answer
<1>7. CASE UNCHANGED vars
  BY <1>7 DEF vars
<1> QED
  BY <1>1, <1>2, <1>3, <1>4, <1>5, <1>6, <1>7 DEF Next, Searching

LEMMA OnlyKnownHolds == Spec => []OnlyKnown
<1>1. Init => OnlyKnown
  BY DEF Init, OnlyKnown
<1>2. Inv /\ Inv' /\ OnlyKnown /\ [Next]_vars => OnlyKnown'
  BY OnlyKnownStep
<1> QED
  BY <1>1, <1>2, InvHolds, PTL DEF Spec

\* The three sets that are counted are finite.
LEMMA CountsAreFinite ==
    ASSUME TypeOK
    PROVE  /\ IsFiniteSet(known) /\ IsFiniteSet(todo) /\ IsFiniteSet(Unfinished)
           /\ IsFiniteSet(Neighbors) /\ IsFiniteSet(Unpassed)
           /\ Cardinality(known) \in Nat /\ Cardinality(todo) \in Nat
           /\ Cardinality(Unfinished) \in Nat /\ Cardinality(Neighbors) \in Nat
           /\ Cardinality(Unpassed) \in Nat
<1>1. IsFiniteSet(Nodes) /\ IsFiniteSet(Nodes \X Nodes)
  BY NodesAssumption, FS_Product
<1>2. /\ known \in SUBSET Nodes /\ todo \in SUBSET Nodes /\ Unfinished \in SUBSET Nodes
      /\ Neighbors \in SUBSET (Nodes \X Nodes) /\ Unpassed \in SUBSET (Nodes \X Nodes)
  BY DEF TypeOK, Unfinished, Neighbors, Unpassed
<1>3. /\ IsFiniteSet(known) /\ IsFiniteSet(todo) /\ IsFiniteSet(Unfinished)
      /\ IsFiniteSet(Neighbors) /\ IsFiniteSet(Unpassed)
  BY <1>1, <1>2, FS_Subset
<1> QED
  BY <1>3, FS_CardinalityType

LEMMA OneLess ==
    ASSUME NEW S, IsFiniteSet(S), NEW x \in S
    PROVE  Cardinality(S \ {x}) = Cardinality(S) - 1
BY FS_RemoveElement

\* Each kind of step makes one of the three sets smaller by one.
LEMMA RootCounts ==
    ASSUME Inv, OnlyKnown, NEW n \in Nodes, Root(n)
    PROVE  todo' = todo \ {n} /\ n \in todo /\ Unfinished' = Unfinished /\ Unpassed' = Unpassed
<1>1. /\ stack = <<>> /\ n \in todo /\ todo' = todo \ {n} /\ UNCHANGED <<known, adjacency>>
      /\ \A m \in Nodes : left[m] = {}
  BY Quiet DEF Root, graph
<1>2. CASE n \in visited
  BY <1>1, <1>2 DEF Root, Unfinished, Unpassed, Neighbors, IsConnected
<1>3. CASE n \notin visited
  <2>1. /\ visited' = visited \cup {n} /\ stack' = <<n>> \o stack
        /\ left' = [left EXCEPT ![n] = adjacency[n]]
    BY <1>3 DEF Root, Enter
  <2>2. DOMAIN stack = {} /\ DOMAIN stack' = {1} /\ stack'[1] = n
    BY <1>1, <2>1
  <2>3. n \in known
    BY <1>1 DEF OnlyKnown
  <2>4. Unfinished' = Unfinished
    BY <1>1, <1>3, <2>1, <2>2, <2>3 DEF Unfinished
  <2>5. left'[n] = adjacency[n] /\ \A m \in Nodes : m # n => left'[m] = {}
    BY <1>1, <2>1 DEF Inv, TypeOK
  <2>6. Neighbors' = Neighbors
    BY <1>1 DEF Neighbors, IsConnected
  <2>7. Unpassed' = {p \in Neighbors : p[1] \notin visited' \/ p[2] \in left'[p[1]]}
    BY <2>6 DEF Unpassed
  <2>8. ASSUME NEW p \in Neighbors
        PROVE  p[1] \notin visited' \/ p[2] \in left'[p[1]]
               <=> p[1] \notin visited \/ p[2] \in left[p[1]]
    <3>1. p[1] \in Nodes /\ p[2] \in adjacency[p[1]]
      BY DEF Neighbors, IsConnected
    <3>2. CASE p[1] = n
      BY <1>3, <2>1, <2>5, <3>1, <3>2
    <3>3. CASE p[1] # n
      BY <1>1, <2>1, <2>5, <3>1, <3>3
    <3> QED
      BY <3>2, <3>3
  <2> QED
    BY <1>1, <2>4, <2>7, <2>8 DEF Unpassed
<1> QED
  BY <1>2, <1>3

\* The loops of Visit and Skip pass by one neighbor.
LEMMA PassCounts ==
    ASSUME Inv, OnlyKnown, NEW m \in Nodes, Visit(m) \/ Skip(m)
    PROVE  /\ todo' = todo /\ Unfinished' = Unfinished
           /\ <<Head(stack), m>> \in Unpassed
           /\ Unpassed' = Unpassed \ {<<Head(stack), m>>}
<1> DEFINE top == Head(stack)
<1>1. /\ top \in component /\ top \in Nodes /\ m \in left[top] /\ m \in adjacency[top]
      /\ todo' = todo /\ UNCHANGED <<known, adjacency>> /\ stack # <<>>
  BY TopFacts DEF Visit, Skip, graph
<1>2. top \in visited
  BY <1>1 DEF Inv, SearchInv, VisitedIsKept
<1>3. <<top, m>> \in Neighbors /\ <<top, m>> \in Unpassed
  BY <1>1 DEF Neighbors, IsConnected, Unpassed
<1>4. Neighbors' = Neighbors
  BY <1>1 DEF Neighbors, IsConnected
<1>5. Unpassed' = {p \in Neighbors : p[1] \notin visited' \/ p[2] \in left'[p[1]]}
  BY <1>4 DEF Unpassed
<1>6. CASE Visit(m)
  <2>1. /\ visited' = visited \cup {m} /\ stack' = <<m>> \o stack /\ m \notin visited
        /\ left' = [left EXCEPT ![top] = left[top] \ {m}, ![m] = adjacency[m]]
    BY <1>6 DEF Visit, Enter
  <2>2. m # top /\ left'[top] = left[top] \ {m} /\ left'[m] = adjacency[m]
        /\ \A n \in Nodes : n # top /\ n # m => left'[n] = left[n]
    BY <1>1, <1>2, <2>1 DEF Inv, TypeOK
  <2>3. ASSUME NEW x \in Nodes, NEW y \in adjacency[x]
        PROVE  x \notin visited' \/ y \in left'[x]
               <=> (x \notin visited \/ y \in left[x]) /\ ~(x = top /\ y = m)
    <3> HIDE DEF top
    <3>1. m \notin visited /\ m \in visited' /\ m # top /\ top \in visited'
      BY <1>2, <2>1, <2>2
    <3>2. CASE x = m
      BY <2>2, <3>1, <3>2
    <3>3. CASE x = top
      <4>1. x \in visited /\ x \in visited'
        BY <1>2, <3>1, <3>3
      <4>2. y \in left'[x] <=> y \in left[x] /\ y # m
        BY <2>2, <3>3
      <4> QED
        BY <3>3, <4>1, <4>2
    <3>4. CASE x # m /\ x # top
      <4>1. x \in visited' <=> x \in visited
        BY <2>1, <3>4
      <4>2. left'[x] = left[x]
        BY <2>2, <3>4
      <4> QED
        BY <3>4, <4>1, <4>2
    <3> QED
      BY <3>2, <3>3, <3>4
  <2>4. Unpassed' = Unpassed \ {<<top, m>>}
    <3> HIDE DEF top
    <3>1. ASSUME NEW p \in Neighbors
          PROVE  /\ p[1] \in Nodes /\ p[2] \in adjacency[p[1]]
                 /\ p = <<top, m>> <=> p[1] = top /\ p[2] = m
      BY <1>1 DEF Neighbors, IsConnected
    <3>2. ASSUME NEW p \in Neighbors
          PROVE  p[1] \notin visited' \/ p[2] \in left'[p[1]]
                 <=> (p[1] \notin visited \/ p[2] \in left[p[1]]) /\ p # <<top, m>>
      BY <2>3, <3>1, <3>2
    <3> QED
      BY <1>3, <1>5, <3>2 DEF Unpassed
  <2>5. m \in known
    BY <1>1 DEF Inv, EdgesAreMutual, IsConnected
  <2>6. stack \in Seq(Nodes)
    BY DEF Inv, TypeOK
  <2>7. /\ 1 \in DOMAIN stack' /\ stack'[1] = m
        /\ \A i \in DOMAIN stack : i + 1 \in DOMAIN stack' /\ stack'[i + 1] = stack[i]
        /\ \A i \in DOMAIN stack' : i # 1 => i - 1 \in DOMAIN stack /\ stack'[i] = stack[i - 1]
    BY <2>1, <2>6, PushFacts
  <2>8. \A n : (\E i \in DOMAIN stack' : stack'[i] = n)
               <=> n = m \/ \E i \in DOMAIN stack : stack[i] = n
    <3> TAKE n
    <3>1. ASSUME NEW i \in DOMAIN stack', stack'[i] = n
          PROVE  n = m \/ \E j \in DOMAIN stack : stack[j] = n
      BY <2>7, <3>1
    <3>2. ASSUME NEW i \in DOMAIN stack, stack[i] = n
          PROVE  \E j \in DOMAIN stack' : stack'[j] = n
      BY <2>7, <3>2
    <3> QED
      BY <2>7, <3>1, <3>2
  <2>9. Unfinished' = Unfinished
    BY <1>1, <2>1, <2>5, <2>8 DEF Unfinished
  <2> QED
    BY <1>1, <1>3, <2>4, <2>9
<1>7. CASE Skip(m)
  <2>1. left' = [left EXCEPT ![top] = left[top] \ {m}] /\ UNCHANGED <<visited, stack>>
    BY <1>7 DEF Skip
  <2>2. left'[top] = left[top] \ {m} /\ \A n \in Nodes : n # top => left'[n] = left[n]
    BY <1>1, <2>1 DEF Inv, TypeOK
  <2>3. ASSUME NEW p \in Neighbors
        PROVE  p[1] \notin visited' \/ p[2] \in left'[p[1]]
               <=> (p[1] \notin visited \/ p[2] \in left[p[1]]) /\ p # <<top, m>>
    <3>1. p[1] \in Nodes /\ p = <<p[1], p[2]>>
      BY DEF Neighbors
    <3> QED
      BY <1>2, <2>1, <2>2, <3>1
  <2>4. Unpassed' = Unpassed \ {<<top, m>>}
    BY <1>3, <1>5, <2>3 DEF Unpassed
  <2> QED
    BY <1>1, <1>3, <2>1, <2>4 DEF Unfinished
<1> QED
  BY <1>6, <1>7

\* The call that returns was active once.
LEMMA LeaveCounts ==
    ASSUME Inv, OnlyKnown, Leave
    PROVE  /\ todo' = todo /\ Unpassed' = Unpassed
           /\ Head(stack) \in Unfinished /\ Unfinished' = Unfinished \ {Head(stack)}
<1> DEFINE top == Head(stack)
<1>1. /\ stack # <<>> /\ stack' = Tail(stack) /\ stack \in Seq(Nodes)
      /\ UNCHANGED <<known, adjacency, todo, visited, left>>
  BY DEF Leave, graph, Inv, TypeOK
<1>2. top \in visited /\ top \in known
  BY <1>1, TopFacts DEF Inv, SearchInv, VisitedIsKept, OnlyKnown
<1>3. Unpassed' = Unpassed
  BY <1>1 DEF Unpassed, Neighbors, IsConnected
<1>4. /\ 1 \in DOMAIN stack /\ stack[1] = top
      /\ \A i \in DOMAIN stack' : i + 1 \in DOMAIN stack /\ i + 1 # 1 /\ stack'[i] = stack[i + 1]
      /\ \A i \in DOMAIN stack : i # 1 => i - 1 \in DOMAIN stack' /\ stack'[i - 1] = stack[i]
  <2>1. \A i \in DOMAIN Tail(stack) : i + 1 # 1
    BY <1>1, PopFacts
  <2> QED
    BY <1>1, <2>1, PopFacts
<1>5. \A n : (\E i \in DOMAIN stack' : stack'[i] = n)
             <=> n # top /\ \E i \in DOMAIN stack : stack[i] = n
  <2> TAKE n
  <2>1. ASSUME NEW i \in DOMAIN stack', stack'[i] = n
        PROVE  n # top /\ \E j \in DOMAIN stack : stack[j] = n
    <3>1. i + 1 \in DOMAIN stack /\ i + 1 # 1 /\ stack[i + 1] = n /\ 1 \in DOMAIN stack
      BY <1>4, <2>1
    <3> QED
      BY <1>4, <3>1 DEF Inv, SearchInv, RecursionIsBounded
  <2>2. ASSUME NEW i \in DOMAIN stack, stack[i] = n, n # top
        PROVE  \E j \in DOMAIN stack' : stack'[j] = n
    BY <1>4, <2>2
  <2> QED
    BY <2>1, <2>2
<1>6. top \in Unfinished
  BY <1>2, <1>4 DEF Unfinished
<1>7. Unfinished' = Unfinished \ {top}
  BY <1>1, <1>2, <1>5 DEF Unfinished
<1> QED
  BY <1>1, <1>3, <1>6, <1>7

LEMMA SearchCounts ==
    ASSUME Inv, OnlyKnown, pc = "partitions", Next
    PROVE  \/ Finished /\ pc' = "idle"
           \/ pc' = "partitions" /\ StepsToAnswer' = StepsToAnswer - 1
<1>0. /\ IsFiniteSet(todo) /\ IsFiniteSet(Unfinished) /\ IsFiniteSet(Unpassed)
      /\ Cardinality(todo) \in Nat /\ Cardinality(Unfinished) \in Nat
      /\ Cardinality(Unpassed) \in Nat
  BY CountsAreFinite DEF Inv
<1>1. ASSUME NEW n \in Nodes, Root(n)
      PROVE  pc' = "partitions" /\ StepsToAnswer' = StepsToAnswer - 1
  <2>1. pc' = pc
    BY <1>1 DEF Root
  <2>2. todo' = todo \ {n} /\ n \in todo /\ Unfinished' = Unfinished /\ Unpassed' = Unpassed
    BY <1>1, RootCounts
  <2>3. Cardinality(todo') = Cardinality(todo) - 1
    BY <1>0, <2>2, OneLess
  <2> QED
    BY <1>0, <2>1, <2>2, <2>3 DEF StepsToAnswer
<1>2. ASSUME NEW m \in Nodes, Visit(m) \/ Skip(m)
      PROVE  pc' = "partitions" /\ StepsToAnswer' = StepsToAnswer - 1
  <2>1. pc' = pc
    BY <1>2 DEF Visit, Skip
  <2>2. /\ todo' = todo /\ Unfinished' = Unfinished
        /\ <<Head(stack), m>> \in Unpassed
        /\ Unpassed' = Unpassed \ {<<Head(stack), m>>}
    BY <1>2, PassCounts
  <2>3. Cardinality(Unpassed') = Cardinality(Unpassed) - 1
    BY <1>0, <2>2, OneLess
  <2> QED
    BY <1>0, <2>1, <2>2, <2>3 DEF StepsToAnswer
<1>3. ASSUME Leave PROVE pc' = "partitions" /\ StepsToAnswer' = StepsToAnswer - 1
  <2>1. pc' = pc
    BY <1>3 DEF Leave
  <2>2. /\ todo' = todo /\ Unpassed' = Unpassed
        /\ Head(stack) \in Unfinished /\ Unfinished' = Unfinished \ {Head(stack)}
    BY <1>3, LeaveCounts
  <2>3. Cardinality(Unfinished') = Cardinality(Unfinished) - 1
    BY <1>0, <2>2, OneLess
  <2> QED
    BY <1>0, <2>1, <2>2, <2>3 DEF StepsToAnswer
<1>4. ASSUME Answer PROVE Finished /\ pc' = "idle"
  BY <1>4 DEF Answer
<1>5. ~Partitions /\ \A a, b \in Nodes : ~AddEdge(a, b) /\ ~RemoveEdge(a, b)
  BY DEF Partitions, AddEdge, RemoveEdge
<1> QED
  BY <1>1, <1>2, <1>3, <1>4, <1>5 DEF Next, Searching

\* A search begins with every key and every neighbor before it.
LEMMA BeginCounts ==
    ASSUME Inv, pc = "idle", pc' = "partitions", Next
    PROVE  StepsToAnswer' = 2 * Cardinality(known) + Cardinality(Neighbors)
<1>1. Partitions
  <2>1. ~(\E a, b \in Nodes : AddEdge(a, b) \/ RemoveEdge(a, b))
    BY DEF AddEdge, RemoveEdge
  <2>2. ~Answer /\ ~(\E n \in Nodes : Root(n))
    BY DEF Answer, Finished, Root
  <2>3. stack = <<>>
    BY DEF Inv, SearchInv, Idle
  <2>4. ~Leave /\ ~(\E n \in Nodes : Visit(n) \/ Skip(n))
    BY <2>3 DEF Leave, Visit, Skip
  <2> QED
    BY <2>1, <2>2, <2>4 DEF Next, Searching
<1>2. /\ visited' = {} /\ todo' = known /\ known' = known /\ adjacency' = adjacency
  BY <1>1 DEF Partitions, graph, Inv, SearchInv, Idle
<1>3. Unfinished' = known /\ Unpassed' = Neighbors
  BY <1>2 DEF Unfinished, Unpassed, Neighbors, IsConnected
<1>4. Cardinality(known) \in Nat /\ Cardinality(Neighbors) \in Nat
  BY CountsAreFinite DEF Inv
<1> QED
  BY <1>2, <1>3, <1>4 DEF StepsToAnswer

\* A search of any graph takes exactly as many steps as it has keys, calls and
\* neighbors to pass by: it comes to its end, and no order of the hash sets makes it
\* longer.
THEOREM SearchesAreLinear == Spec => SearchIsLinear
<1>1. Inv /\ OnlyKnown /\ [Next]_vars =>
        [/\ pc = "idle" /\ pc' = "partitions" =>
              StepsToAnswer' = 2 * Cardinality(known) + Cardinality(Neighbors)
         /\ pc = "partitions" =>
              \/ Finished /\ pc' = "idle"
              \/ pc' = "partitions" /\ StepsToAnswer' = StepsToAnswer - 1]_vars
  BY SearchCounts, BeginCounts
<1> QED
  BY <1>1, InvHolds, OnlyKnownHolds, PTL DEF Spec, SearchIsLinear

\* The search answers when nothing is left to do, and not before.
THEOREM AnswersAreDue == Spec => []AnswerIsDue
<1>1. Inv /\ OnlyKnown => AnswerIsDue
  <2> SUFFICES ASSUME Inv, OnlyKnown, pc = "partitions" PROVE StepsToAnswer = 0 <=> Finished
    BY DEF AnswerIsDue
  <2>0. /\ IsFiniteSet(todo) /\ IsFiniteSet(Unfinished) /\ IsFiniteSet(Unpassed)
        /\ Cardinality(todo) \in Nat /\ Cardinality(Unfinished) \in Nat
        /\ Cardinality(Unpassed) \in Nat
    BY CountsAreFinite DEF Inv
  <2>1. StepsToAnswer = 0 <=> todo = {} /\ Unfinished = {} /\ Unpassed = {}
    <3>1. /\ Cardinality(todo) = 0 <=> todo = {}
          /\ Cardinality(Unfinished) = 0 <=> Unfinished = {}
          /\ Cardinality(Unpassed) = 0 <=> Unpassed = {}
      BY <2>0, FS_EmptySet
    <3> QED
      BY <2>0, <3>1 DEF StepsToAnswer
  <2>2. ASSUME todo = {}, Unfinished = {} PROVE Finished
    <3>1. stack \in Seq(Nodes)
      BY DEF Inv, TypeOK
    <3>2. ASSUME stack # <<>> PROVE FALSE
      <4>1. 1 \in DOMAIN stack /\ stack[1] = Head(stack)
        BY <3>1, <3>2, PopFacts
      <4>2. Head(stack) \in known
        BY <3>2, TopFacts DEF Inv, SearchInv, VisitedIsKept, OnlyKnown
      <4> QED
        BY <2>2, <4>1, <4>2 DEF Unfinished
    <3> QED
      BY <2>2, <3>2 DEF Finished
  <2>3. ASSUME Finished PROVE todo = {} /\ Unfinished = {} /\ Unpassed = {}
    <3>1. todo = {} /\ stack = <<>> /\ DOMAIN stack = {}
      BY <2>3 DEF Finished
    <3>2. known \subseteq visited
      BY <3>1 DEF Inv, SearchInv, NothingIsForgotten
    <3>3. \A n \in Nodes : left[n] = {}
      BY <3>1, Quiet
    <3>4. \A p \in Neighbors : p[1] \in known /\ p[1] \in Nodes
      BY DEF Neighbors, IsConnected, Inv, EdgesAreMutual
    <3> QED
      BY <3>1, <3>2, <3>3, <3>4 DEF Unfinished, Unpassed
  <2> QED
    BY <2>1, <2>2, <2>3
<1> QED
  BY <1>1, InvHolds, OnlyKnownHolds, PTL

-----------------------------------------------------------------------------
(* The warm-up *)

\* h is the end of s, as long as a history may be.
IsEndOf(h, s) ==
    /\ Len(h) = (IF Len(s) < Keep THEN Len(s) ELSE Keep)
    /\ \A j \in 1 .. Len(h) : h[j] = s[Len(s) - Len(h) + j]

\* The history is the end of what the warm-up has seen.
HistoryIsRecent == IsEndOf(metric_history, seen)

\* A warm-up that goes on has spikes left and no outcome.
WarmingIsOpen == warming => spikes < NumSpikes /\ outcome = "None"

WarmupInv == WarmupTypeOK /\ WarmingIsOpen /\ HistoryIsRecent /\ EarlyEndIsEarned

\* What a push does to a history that is the end of a longer sequence.
LEMMA PushedFacts ==
    ASSUME NEW S, NEW h \in Seq(S), NEW s \in Seq(S), NEW v \in S, IsEndOf(h, s)
    PROVE  Pushed(h, v) \in Seq(S) /\ IsEndOf(Pushed(h, v), Append(s, v))
<1> DEFINE a == Append(h, v)
           b == Append(s, v)
<1> DEFINE k == Len(h)
           m == Len(s)
<1>1. /\ a \in Seq(S) /\ Len(a) = k + 1
      /\ \A j \in 1 .. k : a[j] = h[j]
      /\ a[k + 1] = v
  OBVIOUS
<1>2. /\ b \in Seq(S) /\ Len(b) = m + 1
      /\ \A j \in 1 .. m : b[j] = s[j]
      /\ b[m + 1] = v
  OBVIOUS
<1>3. /\ k \in Nat /\ m \in Nat /\ Keep \in Nat \ {0}
      /\ k = (IF m < Keep THEN m ELSE Keep)
      /\ \A j \in 1 .. k : h[j] = s[m - k + j]
  <2>1. k \in Nat /\ m \in Nat /\ Keep \in Nat \ {0}
    BY WindowAssumption
  <2> QED
    BY <2>1, Zenon DEF IsEndOf
<1>4. Pushed(h, v) = IF k + 1 > Keep THEN Tail(a) ELSE a
  BY DEF Pushed
<1> HIDE DEF a, b, k, m
<1>5. \A j \in 1 .. k + 1 : a[j] = b[m - k + j]
  <2> SUFFICES ASSUME NEW j \in 1 .. k + 1 PROVE a[j] = b[m - k + j]
    OBVIOUS
  <2>1. CASE j = k + 1
    <3>1. m - k + j = m + 1
      BY <2>1, <1>3
    <3> QED
      BY <2>1, <3>1, <1>1, <1>2
  <2>2. CASE j \in 1 .. k
    <3>1. m - k + j \in 1 .. m
      BY <2>2, <1>3
    <3> QED
      BY <2>2, <3>1, <1>1, <1>2, <1>3
  <2> QED
    BY <2>1, <2>2, <1>3
<1>6. CASE k + 1 > Keep
  <2>1. k = Keep /\ m >= Keep
    BY <1>6, <1>3
  <2>2. /\ Tail(a) \in Seq(S) /\ Len(Tail(a)) = k
        /\ \A j \in 1 .. k : Tail(a)[j] = a[j + 1]
    BY <1>1, <1>3
  <2>3. \A j \in 1 .. k : Tail(a)[j] = b[(m + 1) - k + j]
    <3> SUFFICES ASSUME NEW j \in 1 .. k PROVE Tail(a)[j] = b[(m + 1) - k + j]
      OBVIOUS
    <3>1. j + 1 \in 1 .. k + 1 /\ m - k + (j + 1) = (m + 1) - k + j
      BY <1>3
    <3> QED
      BY <3>1, <2>2, <1>5
  <2>4. k = (IF m + 1 < Keep THEN m + 1 ELSE Keep)
    BY <2>1, <1>3
  <2>5. IsEndOf(Tail(a), b)
    BY <1>2, <2>2, <2>3, <2>4 DEF IsEndOf
  <2> QED
    BY <1>4, <1>6, <2>2, <2>5 DEF b
<1>7. CASE ~(k + 1 > Keep)
  <2>1. m = k /\ m < Keep
    BY <1>7, <1>3
  <2>2. k + 1 = (IF m + 1 < Keep THEN m + 1 ELSE Keep)
    BY <2>1, <1>7, <1>3
  <2>3. \A j \in 1 .. k + 1 : a[j] = b[(m + 1) - (k + 1) + j]
    <3>1. (m + 1) - (k + 1) = m - k
      BY <1>3
    <3> QED
      BY <3>1, <1>5
  <2>4. IsEndOf(a, b)
    BY <1>1, <1>2, <2>2, <2>3 DEF IsEndOf
  <2> QED
    BY <1>1, <1>4, <1>7, <2>4 DEF b
<1> QED
  BY <1>6, <1>7

\* Pieces of two sequences that agree element by element are the same.
LEMMA PiecesAgree ==
    ASSUME NEW S, NEW a \in Seq(S), NEW b \in Seq(S), NEW n \in Nat, NEW i \in Nat, NEW j \in Nat,
           i + n <= Len(a), j + n <= Len(b), \A x \in 1 .. n : a[i + x] = b[j + x]
    PROVE  SubSeq(a, i + 1, i + n) = SubSeq(b, j + 1, j + n)
<1> DEFINE p == SubSeq(a, i + 1, i + n)
           q == SubSeq(b, j + 1, j + n)
<1>1. /\ p \in Seq(S) /\ Len(p) = n
      /\ \A x \in 1 .. n : p[x] = a[i + x]
  <2>1. /\ \A x \in (i + 1) .. (i + n) : a[x] \in S
        /\ i + 1 \in Int /\ i + n \in Int
    OBVIOUS
  <2>2. /\ p \in Seq(S)
        /\ Len(p) = IF i + 1 <= i + n THEN i + n - (i + 1) + 1 ELSE 0
        /\ \A x \in 1 .. i + n - (i + 1) + 1 : p[x] = a[i + 1 + x - 1]
    BY <2>1, SubSeqProperties
  <2>3. /\ i + n - (i + 1) + 1 = n /\ i + 1 <= i + n + 1
        /\ \A x \in 1 .. n : i + 1 + x - 1 = i + x
    OBVIOUS
  <2>4. /\ n = 0 => Len(p) = n
        /\ n > 0 => Len(p) = n
    BY <2>2, <2>3
  <2> QED
    BY <2>2, <2>3, <2>4
<1>2. /\ q \in Seq(S) /\ Len(q) = n
      /\ \A x \in 1 .. n : q[x] = b[j + x]
  <2>1. /\ \A x \in (j + 1) .. (j + n) : b[x] \in S
        /\ j + 1 \in Int /\ j + n \in Int
    OBVIOUS
  <2>2. /\ q \in Seq(S)
        /\ Len(q) = IF j + 1 <= j + n THEN j + n - (j + 1) + 1 ELSE 0
        /\ \A x \in 1 .. j + n - (j + 1) + 1 : q[x] = b[j + 1 + x - 1]
    BY <2>1, SubSeqProperties
  <2>3. /\ j + n - (j + 1) + 1 = n /\ j + 1 <= j + n + 1
        /\ \A x \in 1 .. n : j + 1 + x - 1 = j + x
    OBVIOUS
  <2>4. /\ n = 0 => Len(q) = n
        /\ n > 0 => Len(q) = n
    BY <2>2, <2>3
  <2> QED
    BY <2>2, <2>3, <2>4
<1> HIDE DEF p, q
<1>3. \A x \in 1 .. n : p[x] = q[x]
  BY <1>1, <1>2
<1>4. p = q
  BY <1>1, <1>2, <1>3, SeqEqual
<1> QED
  BY <1>4 DEF p, q

\* The trimmed history converges exactly when all that was seen does.
LEMMA TrimmingIsHarmless ==
    ASSUME NEW S, NEW h \in Seq(S), NEW s \in Seq(S), IsEndOf(h, s)
    PROVE  CheckConvergence(h) <=> CheckConvergence(s)
<1> DEFINE k == Len(h)
           m == Len(s)
<1>1. /\ k \in Nat /\ m \in Nat /\ Keep \in Nat /\ Window \in Nat /\ Window <= Keep
      /\ k = (IF m < Keep THEN m ELSE Keep)
      /\ \A j \in 1 .. k : h[j] = s[m - k + j]
  <2>1. k \in Nat /\ m \in Nat /\ Keep \in Nat /\ Window \in Nat /\ Window <= Keep
    BY WindowAssumption
  <2> QED
    BY <2>1, Zenon DEF IsEndOf
<1>2. /\ Recent(h, Window) = SubSeq(h, k - Window + 1, k)
      /\ Recent(s, Window) = SubSeq(s, m - Window + 1, m)
  BY DEF Recent
<1>3. k <= Len(h) /\ m <= Len(s)
  BY <1>1
<1>4. /\ CheckConvergence(h) <=> k >= Window /\ Settled(Recent(h, Window))
      /\ CheckConvergence(s) <=> m >= Window /\ Settled(Recent(s, Window))
  BY DEF CheckConvergence
<1> HIDE DEF k, m
<1>5. k >= Window <=> m >= Window
  BY <1>1
<1>6. ASSUME k >= Window PROVE Recent(h, Window) = Recent(s, Window)
  <2> DEFINE i == k - Window
             j == m - Window
  <2>1. i \in Nat /\ j \in Nat /\ i + Window = k /\ j + Window = m
    BY <1>1, <1>5, <1>6
  <2>2. \A x \in 1 .. Window : h[i + x] = s[j + x]
    <3> SUFFICES ASSUME NEW x \in 1 .. Window PROVE h[i + x] = s[j + x]
      OBVIOUS
    <3>1. i + x \in 1 .. k /\ m - k + (i + x) = j + x
      BY <1>1, <2>1
    <3> QED
      BY <3>1, <1>1
  <2>3. i + Window <= Len(h) /\ j + Window <= Len(s)
    BY <2>1, <1>3
  <2>4. SubSeq(h, i + 1, i + Window) = SubSeq(s, j + 1, j + Window)
    <3> HIDE DEF i, j
    <3> QED
      BY <1>1, <2>1, <2>2, <2>3, PiecesAgree
  <2> QED
    BY <1>2, <2>1, <2>4
<1> QED
  BY <1>4, <1>5, <1>6

\* A warm-up that has seen nothing is in order.
LEMMA NothingSeen ==
    <<>> \in Seq(Variances) /\ Len(<<>>) = 0 /\ IsEndOf(<<>>, <<>>)
BY WindowAssumption DEF IsEndOf

LEMMA WarmupInvInit == WarmupInit => WarmupInv
<1> SUFFICES ASSUME WarmupInit PROVE WarmupInv
  OBVIOUS
<1>1. 0 \in 0 .. NumSpikes
  BY NumSpikesAssumption
<1>2. WarmupTypeOK /\ WarmingIsOpen
  BY <1>1, NothingSeen, Zenon DEF WarmupInit, WarmupTypeOK, WarmingIsOpen
<1>3. HistoryIsRecent /\ EarlyEndIsEarned
  BY NothingSeen DEF WarmupInit, HistoryIsRecent, EarlyEndIsEarned
<1> QED
  BY <1>2, <1>3 DEF WarmupInv

LEMMA BeginStep == ASSUME WarmupInv, Begin PROVE WarmupInv'
<1>1. /\ metric_history' = <<>> /\ seen' = <<>> /\ spikes' = 0 /\ late' = FALSE
      /\ warming' => NumSpikes # 0 /\ outcome' = "None"
      /\ outcome' \in {"None", "SpikesUsed"}
      /\ warming' \in BOOLEAN /\ is_warmed_up' \in BOOLEAN
  BY DEF WarmupInv, WarmupTypeOK, Begin, End
<1>2. WarmupTypeOK' /\ WarmingIsOpen'
  <2>1. 0 \in 0 .. NumSpikes /\ (NumSpikes # 0 => 0 < NumSpikes)
    BY NumSpikesAssumption
  <2> QED
    BY <1>1, <2>1, NothingSeen, Zenon DEF WarmupTypeOK, WarmingIsOpen
<1>3. HistoryIsRecent' /\ EarlyEndIsEarned'
  BY <1>1, NothingSeen DEF HistoryIsRecent, EarlyEndIsEarned
<1> QED
  BY <1>2, <1>3 DEF WarmupInv

LEMMA SpikeStep ==
    ASSUME WarmupInv, NEW v \in Variances, SpikeProcessed(v) PROVE WarmupInv'
<1> USE DEF WarmupInv
<1>1. /\ warming /\ outcome = "None" /\ spikes < NumSpikes
      /\ spikes' = spikes + 1
      /\ metric_history' = Pushed(metric_history, v)
      /\ seen' = Append(seen, v)
      /\ late' = late
  BY DEF SpikeProcessed, WarmingIsOpen
<1>2. /\ seen \in Seq(Variances) /\ metric_history \in Seq(Variances)
      /\ seen' \in Seq(Variances) /\ Len(seen') = Len(seen) + 1
  BY <1>1 DEF WarmupTypeOK
<1>3. metric_history' \in Seq(Variances) /\ HistoryIsRecent'
  BY <1>1, <1>2, PushedFacts DEF HistoryIsRecent
<1>4. CheckConvergence(metric_history') <=> CheckConvergence(seen')
  BY <1>2, <1>3, TrimmingIsHarmless DEF HistoryIsRecent
<1>5. /\ outcome' = "Converged" <=> CheckConvergence(seen')
      /\ outcome' \in {"None", "Converged", "SpikesUsed", "Timeout"}
      /\ warming' \in BOOLEAN /\ is_warmed_up' \in BOOLEAN
      /\ warming' => spikes' < NumSpikes /\ outcome' = "None"
  BY <1>1, <1>4 DEF SpikeProcessed, End, WarmupTypeOK
<1>6. WarmupTypeOK'
  BY <1>1, <1>2, <1>3, <1>5, NumSpikesAssumption DEF WarmupTypeOK
<1>7. EarlyEndIsEarned'
  <2> SUFFICES ASSUME NEW i \in 1 .. Len(seen')
               PROVE  CheckConvergence(SubSeq(seen', 1, i)) <=> outcome' = "Converged" /\ i = Len(seen')
    BY DEF EarlyEndIsEarned
  <2>1. CASE i = Len(seen')
    <3>1. SubSeq(seen', 1, i) = seen'
      BY <2>1, <1>2
    <3> QED
      BY <3>1, <2>1, <1>5
  <2>2. CASE i \in 1 .. Len(seen)
    <3>1. \A x \in 1 .. i : seen'[0 + x] = seen[0 + x]
      BY <2>2, <1>1, <1>2
    <3>2. i \in Nat /\ 0 \in Nat /\ 0 + i <= Len(seen') /\ 0 + i <= Len(seen)
      BY <2>2, <1>2
    <3>3. SubSeq(seen', 0 + 1, 0 + i) = SubSeq(seen, 0 + 1, 0 + i)
      BY <3>1, <3>2, <1>2, PiecesAgree
    <3>4. SubSeq(seen', 1, i) = SubSeq(seen, 1, i)
      BY <3>3
    <3>5. i # Len(seen')
      BY <2>2, <1>2
    <3>6. ~CheckConvergence(SubSeq(seen, 1, i))
      BY <2>2, <1>1 DEF EarlyEndIsEarned
    <3> QED
      BY <3>4, <3>6, <3>5
  <2> QED
    BY <2>1, <2>2, <1>2
<1> QED
  BY <1>3, <1>5, <1>6, <1>7 DEF WarmingIsOpen

LEMMA WarmupInvStep == WarmupInv /\ [WarmupNext]_warmupVars => WarmupInv'
<1> SUFFICES ASSUME WarmupInv, [WarmupNext]_warmupVars PROVE WarmupInv'
  OBVIOUS
<1> USE DEF WarmupInv, WarmupTypeOK, WarmingIsOpen, HistoryIsRecent, EarlyEndIsEarned
<1>1. ASSUME NEW result \in {"SpikeFailed", "Dropped"}, SpikeFails(result) PROVE WarmupInv'
  BY <1>1 DEF SpikeFails, End
<1>2. CASE TimePasses
  BY <1>2 DEF TimePasses
<1>3. CASE UNCHANGED warmupVars
  BY <1>3 DEF warmupVars
<1> HIDE DEF WarmupInv, WarmupTypeOK, WarmingIsOpen, HistoryIsRecent, EarlyEndIsEarned
<1> QED
  BY <1>1, <1>2, <1>3, BeginStep, SpikeStep DEF WarmupNext

LEMMA WarmupInvHolds == WarmupSpec => []WarmupInv
BY WarmupInvInit, WarmupInvStep, PTL DEF WarmupSpec

\* WarmupTypeOK is an invariant.
THEOREM WarmupTypeCorrect == WarmupSpec => []WarmupTypeOK
BY WarmupInvHolds, PTL DEF WarmupInv

\* A warm-up ends early when, and as soon as, its own variances have settled.
THEOREM EarlyEndsAreEarned == WarmupSpec => []EarlyEndIsEarned
BY WarmupInvHolds, PTL DEF WarmupInv

\* Only a warm-up that answers Ok makes the system operational.
THEOREM OperationalIsEarnedAlways == WarmupSpec => OperationalIsEarned
<1>1. WarmupInv /\ [WarmupNext]_warmupVars
        => [is_warmed_up' # is_warmed_up => outcome' \in {"Converged", "SpikesUsed"}]_warmupVars
  BY DEF WarmupInv, WarmupTypeOK, WarmupNext, Begin, SpikeProcessed, SpikeFails, TimePasses, End, warmupVars
<1> QED
  BY <1>1, WarmupInvHolds, PTL DEF WarmupSpec, OperationalIsEarned

-----------------------------------------------------------------------------
(* The step controller *)

LEMMA ClampFacts ==
    ASSUME NEW x \in Int, NEW low \in Int, NEW high \in Int, low <= high
    PROVE  /\ Clamp(x, low, high) \in low .. high
           /\ x \in low .. high => Clamp(x, low, high) = x
           /\ \A y \in low .. high : x >= y => Clamp(x, low, high) >= y
           /\ \A y \in low .. high : x <= y => Clamp(x, low, high) <= y
BY DEF Clamp

LEMMA ProductsAreIntegers == \A x, y \in Int : x * y \in Int
OBVIOUS

LEMMA NewValues ==
    ASSUME ControllerTypeOK, NEW error \in Int
    PROVE  /\ NewIntegral(error) \in -IntegralMax .. IntegralMax
           /\ NewEpsilon(error) \in EpsMin .. EpsMax
<1>1. /\ integral \in Int /\ prev_error \in Int /\ epsilon \in Int
      /\ -IntegralMax \in Int /\ -IntegralMax <= IntegralMax
  BY LimitsAssumption, StableAssumption DEF ControllerTypeOK
<1>2. NewIntegral(error) \in -IntegralMax .. IntegralMax
  BY <1>1, ClampFacts, StableAssumption DEF NewIntegral
<1>3. NewIntegral(error) \in Int /\ error - prev_error \in Int
  BY <1>1, <1>2, StableAssumption
<1>4. /\ Kp * error \in Int /\ Ki * NewIntegral(error) \in Int
      /\ Kd * (error - prev_error) \in Int
  BY <1>3, ProductsAreIntegers, GainsAssumption
<1>5. epsilon + Kp * error + Ki * NewIntegral(error) + Kd * (error - prev_error) \in Int
  BY <1>1, <1>4
<1>6. NewEpsilon(error) \in EpsMin .. EpsMax
  BY <1>5, ClampFacts, LimitsAssumption DEF NewEpsilon
<1> QED
  BY <1>2, <1>6

\* A full history gives up its oldest sample.
LEMMA RememberedFacts ==
    ASSUME NEW S, NEW s \in Seq(S), NEW x \in S, Len(s) <= MaxSamples
    PROVE  LET r == Remembered(s, x)
           IN  /\ r \in Seq(S)
               /\ Len(r) = (IF Len(s) < MaxSamples THEN Len(s) + 1 ELSE Len(s))
               /\ r[Len(r)] = x
               /\ \A i \in 1 .. Len(r) - 1 : r[i] = s[i + (Len(s) + 1 - Len(r))]
<1> DEFINE r == Remembered(s, x)
<1>1. CASE Len(s) < MaxSamples
  <2>1. r = Append(s, x)
    BY <1>1, SamplesAssumption DEF Remembered
  <2> QED
    BY <1>1, <2>1
<1>2. CASE Len(s) = MaxSamples
  <2>1. r = Append(Tail(s), x) /\ s # <<>>
    BY <1>2, SamplesAssumption DEF Remembered
  <2>2. /\ Tail(s) \in Seq(S) /\ Len(Tail(s)) = Len(s) - 1
        /\ \A i \in 1 .. Len(s) - 1 : Tail(s)[i] = s[i + 1]
    BY <2>1
  <2>3. /\ Len(r) = Len(s) /\ r \in Seq(S) /\ r[Len(r)] = x
        /\ \A i \in 1 .. Len(s) - 1 : r[i] = Tail(s)[i]
    BY <2>1, <2>2
  <2>4. Len(s) + 1 - Len(r) = 1
    BY <2>3
  <2>5. \A i \in 1 .. Len(r) - 1 : r[i] = s[i + (Len(s) + 1 - Len(r))]
    BY <2>2, <2>3, <2>4
  <2>6. Len(r) = (IF Len(s) < MaxSamples THEN Len(s) + 1 ELSE Len(s))
    BY <1>2, <2>3
  <2> QED
    BY <2>3, <2>5, <2>6
<1>3. Len(s) < MaxSamples \/ Len(s) = MaxSamples
  BY SamplesAssumption
<1> QED
  BY <1>1, <1>2, <1>3

LEMMA ControllerTypeInit == ControllerInit => ControllerTypeOK
<1> SUFFICES ASSUME ControllerInit PROVE ControllerTypeOK
  OBVIOUS
<1>1. 0 \in Int /\ 0 \in -IntegralMax .. IntegralMax /\ 0 \in 0 .. MaxSamples
  BY StableAssumption, SamplesAssumption
<1>2. <<>> \in Seq(EpsMin .. EpsMax) /\ Len(<<>>) <= MaxSamples
  BY SamplesAssumption
<1> QED
  BY <1>1, <1>2 DEF ControllerInit, ControllerTypeOK

LEMMA ComputeType ==
    ASSUME ControllerTypeOK, NEW change \in Changes, Compute(change) PROVE ControllerTypeOK'
<1>1. 0 - change \in Int
  BY SamplesAssumption
<1>2. /\ prev_error' = 0 - change /\ integral' = NewIntegral(0 - change)
      /\ epsilon' = NewEpsilon(0 - change) /\ samples' = Remembered(samples, epsilon')
  BY DEF Compute
<1>3. integral' \in -IntegralMax .. IntegralMax /\ epsilon' \in EpsMin .. EpsMax
  BY <1>1, <1>2, NewValues
<1>4. samples \in Seq(EpsMin .. EpsMax) /\ Len(samples) <= MaxSamples
  BY DEF ControllerTypeOK
<1>5. /\ samples' \in Seq(EpsMin .. EpsMax)
      /\ Len(samples') = (IF Len(samples) < MaxSamples THEN Len(samples) + 1 ELSE Len(samples))
  BY <1>2, <1>3, <1>4, RememberedFacts
<1>6. Len(samples') <= MaxSamples
  BY <1>4, <1>5, SamplesAssumption
<1>7. calm' \in 0 .. MaxSamples
  BY SamplesAssumption DEF Compute, ControllerTypeOK
<1> QED
  BY <1>1, <1>2, <1>3, <1>5, <1>6, <1>7 DEF ControllerTypeOK

LEMMA ControllerTypeStep == ControllerTypeOK /\ [ControllerNext]_controllerVars => ControllerTypeOK'
<1> SUFFICES ASSUME ControllerTypeOK, [ControllerNext]_controllerVars PROVE ControllerTypeOK'
  OBVIOUS
<1>1. CASE Reset
  <2>1. 0 \in Int /\ 0 \in -IntegralMax .. IntegralMax
    BY StableAssumption
  <2> QED
    BY <1>1, <2>1 DEF Reset, ControllerTypeOK
<1>2. CASE UNCHANGED controllerVars
  BY <1>2 DEF controllerVars, ControllerTypeOK
<1> QED
  BY <1>1, <1>2, ComputeType DEF ControllerNext

\* ControllerTypeOK is an invariant: integral and epsilon stay within their limits.
THEOREM ControllerTypeCorrect == ControllerSpec => []ControllerTypeOK
BY ControllerTypeInit, ControllerTypeStep, PTL DEF ControllerSpec

\* The last c samples do not fall, or do not rise.
Rising(s, c) == \A i \in (Len(s) - c + 1) .. (Len(s) - 1) : s[i] <= s[i + 1]
Falling(s, c) == \A i \in (Len(s) - c + 1) .. (Len(s) - 1) : s[i] >= s[i + 1]

\* While the curvature does not change only the integral moves epsilon, so it goes
\* in one direction, from the last sample on.
Creeps ==
    /\ calm <= Len(samples)
    /\ calm > 0 => prev_error = 0 /\ epsilon = samples[Len(samples)]
    /\ \/ integral >= 0 /\ Rising(samples, calm)
       \/ integral <= 0 /\ Falling(samples, calm)

NextCalm == IF calm < MaxSamples THEN calm + 1 ELSE calm

\* One more sample on the same side of the last one keeps the direction.
LEMMA DirectionIsKept ==
    ASSUME ControllerTypeOK, calm <= Len(samples), calm > 0, NEW x \in EpsMin .. EpsMax
    PROVE  LET r == Remembered(samples, x)
           IN  /\ Rising(samples, calm) /\ samples[Len(samples)] <= x => Rising(r, NextCalm)
               /\ Falling(samples, calm) /\ samples[Len(samples)] >= x => Falling(r, NextCalm)
<1> DEFINE s == samples
           c == calm
           r == Remembered(s, x)
           n == Len(s)
           m == Len(r)
           d == NextCalm
<1>1. s \in Seq(EpsMin .. EpsMax) /\ n <= MaxSamples /\ n \in Nat /\ MaxSamples \in Nat \ {0}
  BY SamplesAssumption DEF ControllerTypeOK
<1>2. /\ r \in Seq(EpsMin .. EpsMax)
      /\ m = (IF n < MaxSamples THEN n + 1 ELSE n)
      /\ r[m] = x
      /\ \A i \in 1 .. m - 1 : r[i] = s[i + (n + 1 - m)]
  <2> DEFINE E == EpsMin .. EpsMax
  <2>1. samples \in Seq(E) /\ x \in E /\ Len(samples) <= MaxSamples
    BY <1>1
  <2> HIDE DEF E
  <2>2. /\ Remembered(samples, x) \in Seq(E)
        /\ m = (IF n < MaxSamples THEN n + 1 ELSE n)
        /\ r[m] = x
        /\ \A i \in 1 .. m - 1 : r[i] = s[i + (n + 1 - m)]
    BY <2>1, RememberedFacts
  <2> QED
    BY <2>2 DEF E
<1>3. c \in 1 .. n /\ d = (IF c < MaxSamples THEN c + 1 ELSE c)
  BY <1>1 DEF ControllerTypeOK, NextCalm
<1>4. /\ Rising(s, c) <=> \A i \in (n - c + 1) .. (n - 1) : s[i] <= s[i + 1]
      /\ Falling(s, c) <=> \A i \in (n - c + 1) .. (n - 1) : s[i] >= s[i + 1]
      /\ Rising(r, d) <=> \A i \in (m - d + 1) .. (m - 1) : r[i] <= r[i + 1]
      /\ Falling(r, d) <=> \A i \in (m - d + 1) .. (m - 1) : r[i] >= r[i + 1]
  BY DEF Rising, Falling
<1> HIDE DEF s, c, r, n, m, d
<1>5. ASSUME NEW i \in (m - d + 1) .. (m - 1)
      PROVE  \/ i = m - 1 /\ r[i] = s[n] /\ r[i + 1] = x
             \/ \E j \in (n - c + 1) .. (n - 1) : r[i] = s[j] /\ r[i + 1] = s[j + 1]
  <2>1. m \in Nat /\ d \in Nat /\ d <= m /\ i \in 1 .. m - 1
    BY <1>1, <1>2, <1>3
  <2>2. CASE i = m - 1
    <3>1. i + (n + 1 - m) = n /\ i + 1 = m
      BY <2>1, <2>2, <1>1
    <3> QED
      BY <2>1, <2>2, <3>1, <1>2
  <2>3. CASE i # m - 1
    <3>1. i + 1 \in 1 .. m - 1
      BY <2>1, <2>3
    <3>2. /\ i + (n + 1 - m) \in (n - c + 1) .. (n - 1)
          /\ (i + 1) + (n + 1 - m) = (i + (n + 1 - m)) + 1
      BY <2>1, <2>3, <1>1, <1>2, <1>3
    <3> QED
      BY <2>1, <3>1, <3>2, <1>2
  <2> QED
    BY <2>2, <2>3
<1>6. ASSUME Rising(s, c), s[n] <= x PROVE Rising(r, d)
  BY <1>4, <1>5, <1>6
<1>7. ASSUME Falling(s, c), s[n] >= x PROVE Falling(r, d)
  BY <1>4, <1>5, <1>7
<1> QED
  BY <1>6, <1>7 DEF s, c, r, n, d

\* Without a change of the curvature epsilon goes where the integral pushes it.
LEMMA CalmStep ==
    ASSUME ControllerTypeOK, prev_error = 0, epsilon \in EpsMin .. EpsMax
    PROVE  /\ integral >= 0 => NewEpsilon(0) >= epsilon
           /\ integral <= 0 => NewEpsilon(0) <= epsilon
<1>1. integral \in -IntegralMax .. IntegralMax /\ integral \in Int /\ epsilon \in Int
  BY LimitsAssumption, StableAssumption DEF ControllerTypeOK
<1>2. NewIntegral(0) = integral
  <2>1. integral + 0 \in -IntegralMax .. IntegralMax /\ integral + 0 = integral
    BY <1>1
  <2>2. /\ integral \in Int /\ -IntegralMax \in Int /\ IntegralMax \in Int
        /\ -IntegralMax <= IntegralMax
    BY <1>1, StableAssumption
  <2>3. Clamp(integral, -IntegralMax, IntegralMax) = integral
    BY <1>1, <2>2, ClampFacts
  <2> QED
    BY <2>1, <2>3 DEF NewIntegral
<1> DEFINE p == Ki * integral
<1>3. /\ p \in Int
      /\ integral >= 0 => p >= 0
      /\ integral <= 0 => p <= 0
  BY <1>1, GainsAssumption
<1>4. Kp * 0 = 0 /\ Kd * (0 - prev_error) = 0
  BY GainsAssumption
<1>5. NewEpsilon(0) = Clamp(epsilon + p, EpsMin, EpsMax)
  <2>1. epsilon + Kp * 0 + Ki * NewIntegral(0) + Kd * (0 - prev_error) = epsilon + p
    BY <1>1, <1>2, <1>3, <1>4
  <2> QED
    BY <2>1 DEF NewEpsilon
<1> HIDE DEF p
<1> DEFINE x == epsilon + p
<1>6. /\ x \in Int
      /\ integral >= 0 => x >= epsilon
      /\ integral <= 0 => x <= epsilon
  BY <1>1, <1>3
<1>7. NewEpsilon(0) = Clamp(x, EpsMin, EpsMax)
  BY <1>5
<1> HIDE DEF x
<1>8. /\ x >= epsilon => Clamp(x, EpsMin, EpsMax) >= epsilon
      /\ x <= epsilon => Clamp(x, EpsMin, EpsMax) <= epsilon
  BY <1>6, ClampFacts, LimitsAssumption
<1> QED
  BY <1>6, <1>7, <1>8

LEMMA ComputeCreeps ==
    ASSUME ControllerTypeOK, Creeps, NEW change \in Changes, Compute(change) PROVE Creeps'
<1>1. /\ prev_error' = 0 - change /\ integral' = NewIntegral(0 - change)
      /\ epsilon' = NewEpsilon(0 - change) /\ samples' = Remembered(samples, epsilon')
      /\ calm' = (IF change # 0 THEN 0 ELSE NextCalm)
  BY DEF Compute, NextCalm
<1>2. change \in Int /\ 0 - change \in Int
  BY SamplesAssumption
<1>3. integral' \in -IntegralMax .. IntegralMax /\ epsilon' \in EpsMin .. EpsMax
  BY <1>1, <1>2, NewValues
<1>4. samples \in Seq(EpsMin .. EpsMax) /\ Len(samples) <= MaxSamples /\ calm \in 0 .. MaxSamples
  BY DEF ControllerTypeOK
<1>5. /\ samples' \in Seq(EpsMin .. EpsMax)
      /\ Len(samples') = (IF Len(samples) < MaxSamples THEN Len(samples) + 1 ELSE Len(samples))
      /\ samples'[Len(samples')] = epsilon'
  <2> DEFINE E == EpsMin .. EpsMax
             x == epsilon'
             z == samples'
  <2>1. samples \in Seq(E) /\ x \in E /\ Len(samples) <= MaxSamples /\ z = Remembered(samples, x)
    BY <1>1, <1>3, <1>4
  <2> HIDE DEF E, x, z
  <2>2. /\ z \in Seq(E)
        /\ Len(z) = (IF Len(samples) < MaxSamples THEN Len(samples) + 1 ELSE Len(samples))
        /\ z[Len(z)] = x
    BY <2>1, RememberedFacts
  <2> QED
    BY <2>2 DEF E, x, z
<1>6. integral' \in Int /\ Len(samples') \in Nat
  BY <1>3, <1>5, StableAssumption
<1>7. CASE change # 0
  <2>1. calm' = 0
    BY <1>1, <1>7
  <2>2. Rising(samples', 0) /\ Falling(samples', 0)
    BY <1>6 DEF Rising, Falling
  <2>3. integral' >= 0 \/ integral' <= 0
    BY <1>6
  <2> QED
    BY <1>6, <2>1, <2>2, <2>3 DEF Creeps
<1>8. CASE change = 0
  <2>1. 0 - change = 0
    BY <1>8
  <2>2. prev_error' = 0 /\ calm' = NextCalm
    BY <1>1, <1>8, <2>1
  <2>3. calm' <= Len(samples')
    BY <2>2, <1>4, <1>5, SamplesAssumption DEF Creeps, NextCalm
  <2>4. integral' = integral
    <3>1. integral \in -IntegralMax .. IntegralMax /\ integral + 0 = integral
      BY StableAssumption DEF ControllerTypeOK
    <3>2. /\ integral \in Int /\ -IntegralMax \in Int /\ IntegralMax \in Int
          /\ -IntegralMax <= IntegralMax
      BY <3>1, StableAssumption
    <3>3. Clamp(integral, -IntegralMax, IntegralMax) = integral
      BY <3>1, <3>2, ClampFacts
    <3> QED
      BY <1>1, <2>1, <3>1, <3>3 DEF NewIntegral
  <2>5. \/ integral' >= 0 /\ Rising(samples', calm')
        \/ integral' <= 0 /\ Falling(samples', calm')
    <3>1. CASE calm = 0
      <4>1. calm' = 1
        BY <2>2, <3>1, SamplesAssumption DEF NextCalm
      <4>2. Rising(samples', 1) /\ Falling(samples', 1)
        BY <1>6 DEF Rising, Falling
      <4> QED
        BY <4>1, <4>2, <1>6
    <3>2. CASE calm > 0
      <4>1. /\ prev_error = 0 /\ epsilon = samples[Len(samples)] /\ calm <= Len(samples)
            /\ \/ integral >= 0 /\ Rising(samples, calm)
               \/ integral <= 0 /\ Falling(samples, calm)
        BY <3>2 DEF Creeps
      <4>2. epsilon \in EpsMin .. EpsMax
        <5>1. Len(samples) \in 1 .. Len(samples)
          BY <4>1, <3>2, <1>4, SamplesAssumption
        <5> QED
          BY <4>1, <5>1, <1>4, ElementOfSeq
      <4>3. /\ integral >= 0 => epsilon' >= epsilon
            /\ integral <= 0 => epsilon' <= epsilon
        BY <1>1, <2>1, <4>1, <4>2, CalmStep
      <4>4. samples[Len(samples)] \in Int /\ epsilon' \in Int
        BY <4>1, <4>2, <1>3, LimitsAssumption
      <4>5. /\ Rising(samples, calm) /\ samples[Len(samples)] <= epsilon' => Rising(samples', NextCalm)
            /\ Falling(samples, calm) /\ samples[Len(samples)] >= epsilon' => Falling(samples', NextCalm)
        BY <1>1, <1>3, <3>2, <4>1, DirectionIsKept
      <4>6. CASE integral >= 0 /\ Rising(samples, calm)
        BY <4>1, <4>3, <4>4, <4>5, <4>6, <2>2, <2>4
      <4>7. CASE integral <= 0 /\ Falling(samples, calm)
        BY <4>1, <4>3, <4>4, <4>5, <4>7, <2>2, <2>4
      <4> QED
        BY <4>1, <4>6, <4>7
    <3> QED
      BY <3>1, <3>2, <1>4
  <2> QED
    BY <2>2, <2>3, <2>5, <1>5 DEF Creeps
<1> QED
  BY <1>7, <1>8

\* Samples that go in one direction have no turns.
LEMMA CreepingHasNoTurns ==
    ASSUME ControllerTypeOK, Creeps PROVE OscillationDiesOut
<1> SUFFICES ASSUME calm = MaxSamples PROVE ~HasOscillation(samples)
  BY DEF OscillationDiesOut
<1> DEFINE n == Len(samples)
<1>1. /\ samples \in Seq(EpsMin .. EpsMax) /\ n = MaxSamples /\ n \in Nat
  BY SamplesAssumption DEF ControllerTypeOK, Creeps
<1>2. \A i \in 1 .. n : samples[i] \in Int
  BY <1>1, LimitsAssumption
<1>3. \/ \A i \in 1 .. n - 1 : samples[i] <= samples[i + 1]
      \/ \A i \in 1 .. n - 1 : samples[i] >= samples[i + 1]
  <2>1. n - calm + 1 = 1
    BY <1>1
  <2> QED
    BY <2>1 DEF Creeps, Rising, Falling
<1>4. Turns(samples) = {}
  <2> SUFFICES ASSUME NEW i \in 3 .. n
               PROVE  ~(\/ samples[i] > samples[i - 1] /\ samples[i - 2] > samples[i - 1]
                        \/ samples[i] < samples[i - 1] /\ samples[i - 2] < samples[i - 1])
    BY DEF Turns
  <2>1. /\ i - 1 \in 1 .. n - 1 /\ (i - 1) + 1 = i
        /\ i - 2 \in 1 .. n - 1 /\ (i - 2) + 1 = i - 1
        /\ i \in 1 .. n /\ i - 1 \in 1 .. n /\ i - 2 \in 1 .. n
    BY <1>1
  <2>2. \/ samples[i - 2] <= samples[i - 1] /\ samples[i - 1] <= samples[i]
        \/ samples[i - 2] >= samples[i - 1] /\ samples[i - 1] >= samples[i]
    BY <2>1, <1>3
  <2>3. samples[i] \in Int /\ samples[i - 1] \in Int /\ samples[i - 2] \in Int
    BY <2>1, <1>2
  <2> QED
    BY <2>2, <2>3
<1>5. Cardinality(Turns(samples)) = 0
  BY <1>4, FS_EmptySet
<1> QED
  BY <1>1, <1>5 DEF HasOscillation

\* Once the curvature is quiet, the oscillation that is seen dies out.
THEOREM OscillationsDieOut == ControllerSpec => []OscillationDiesOut
<1>1. ControllerInit => Creeps
  BY ControllerTypeInit DEF ControllerInit, Creeps, Rising, Falling
<1>2. ASSUME ControllerTypeOK, Creeps, [ControllerNext]_controllerVars PROVE Creeps'
  <2>1. CASE Reset
    <3>1. \/ Rising(samples, calm)
          \/ Falling(samples, calm)
      BY <1>2 DEF Creeps
    <3>2. /\ integral' = 0 /\ prev_error' = 0
          /\ UNCHANGED <<epsilon, samples, calm>>
      BY <2>1 DEF Reset
    <3>3. (Rising(samples, calm) \/ Falling(samples, calm))'
      BY <3>1, <3>2 DEF Rising, Falling
    <3> QED
      BY <1>2, <3>2, <3>3 DEF Creeps
  <2>2. CASE UNCHANGED controllerVars
    BY <1>2, <2>2 DEF controllerVars, Creeps
  <2> QED
    BY <1>2, <2>1, <2>2, ComputeCreeps DEF ControllerNext
<1> QED
  BY <1>1, <1>2, CreepingHasNoTurns, ControllerTypeCorrect, PTL DEF ControllerSpec

\* A product is bounded by the bounds of its factors.
LEMMA BoundedProduct ==
    ASSUME NEW k \in Nat, NEW x \in Int, NEW m \in Nat, Abs(x) < m
    PROVE  -(k * m) <= k * x /\ k * x <= k * m
BY DEF Abs

\* A controller that says it is stable keeps epsilon where it is, but for the limits.
THEOREM StableIsStill == ControllerSpec => []StableMeansStill
<1>1. ControllerTypeOK => StableMeansStill
  <2> SUFFICES ASSUME ControllerTypeOK, IsStable, epsilon \in EpsMin .. EpsMax
               PROVE  Abs(NewEpsilon(0) - epsilon) <= Ki * StableIntegral + Kd * StableError
    BY DEF StableMeansStill
  <2>1. /\ integral \in -IntegralMax .. IntegralMax /\ integral \in Int
        /\ prev_error \in Int /\ epsilon \in Int
    BY LimitsAssumption, StableAssumption DEF ControllerTypeOK
  <2>2. NewIntegral(0) = integral
    <3>1. /\ integral + 0 = integral /\ -IntegralMax \in Int /\ IntegralMax \in Int
          /\ -IntegralMax <= IntegralMax
      BY <2>1, StableAssumption
    <3>2. Clamp(integral, -IntegralMax, IntegralMax) = integral
      BY <2>1, <3>1, ClampFacts
    <3> QED
      BY <3>1, <3>2 DEF NewIntegral
  <2> DEFINE p == Ki * integral
             q == Kd * (0 - prev_error)
             a == Ki * StableIntegral
             b == Kd * StableError
  <2>3. p \in Int /\ q \in Int /\ a \in Int /\ b \in Int
    BY <2>1, ProductsAreIntegers, GainsAssumption, StableAssumption
  <2>4. -a <= p /\ p <= a
    BY <2>1, BoundedProduct, GainsAssumption, StableAssumption DEF IsStable
  <2>5. -b <= q /\ q <= b
    <3>1. 0 - prev_error \in Int /\ Abs(0 - prev_error) < StableError
      BY <2>1 DEF IsStable, Abs
    <3> QED
      BY <3>1, BoundedProduct, GainsAssumption, StableAssumption
  <2>6. NewEpsilon(0) = Clamp(epsilon + p + q, EpsMin, EpsMax)
    <3>1. Kp * 0 = 0
      BY GainsAssumption
    <3>2. epsilon + Kp * 0 + p + q = epsilon + p + q
      BY <3>1, <2>1, <2>3
    <3> QED
      BY <3>2, <2>2 DEF NewEpsilon
  <2> HIDE DEF p, q, a, b
  <2> QED
    BY <2>1, <2>3, <2>4, <2>5, <2>6, LimitsAssumption DEF Clamp, Abs, a, b
<1> QED
  BY <1>1, ControllerTypeCorrect, PTL

-----------------------------------------------------------------------------
(* The normaliser *)

\* What holds of 0, and of k whenever it holds of k - 1, holds up to n: induction,
\* with a set in the place of the property.
LEMMA UpTo ==
    ASSUME NEW n \in Nat, NEW P, 0 \in P, \A k \in 1 .. n : k - 1 \in P => k \in P
    PROVE  0 .. n \subseteq P
<1> DEFINE Bad == {k \in 0 .. n : k \notin P}
           R == {p \in Nat \X Nat : p[1] < p[2]}
<1> SUFFICES ASSUME Bad # {} PROVE FALSE
  OBVIOUS
<1>1. IsWellFoundedOn(R, Nat)
  BY NatLessThanWellFounded DEF OpToRel
<1>2. \A x, y \in Nat : <<x, y>> \in R <=> x < y
  OBVIOUS
<1> HIDE DEF R
<1>3. PICK k \in Bad : \A y \in Bad : ~(<<y, k>> \in R)
  <2>1. Bad \subseteq Nat
    OBVIOUS
  <2> HIDE DEF Bad
  <2> QED
    BY <1>1, <2>1, WFMin
<1>4. k \in 1 .. n /\ k - 1 \in 0 .. n
  BY <1>3
<1>5. k - 1 \notin Bad
  <2>1. k - 1 \in Nat /\ k \in Nat /\ k - 1 < k
    BY <1>4
  <2>2. <<k - 1, k>> \in R
    BY <1>2, <2>1
  <2> QED
    BY <1>3, <2>2
<1> QED
  BY <1>3, <1>4, <1>5

IsSumOf(f, w, n) == f \in [0 .. n -> Nat] /\ f[0] = 0 /\ \A i \in 1 .. n : f[i] = f[i - 1] + w[i]

\* The sums exist, so that RunningSum satisfies its recursion.
LEMMA SumsExist ==
    ASSUME NEW w \in [1 .. NumWeights -> Nat]
    PROVE  \E f : IsSumOf(f, w, NumWeights)
<1> DEFINE P == {k \in 0 .. NumWeights : \E f : IsSumOf(f, w, k)}
<1> USE WeightsAssumption
<1>1. 0 \in P
  <2>1. IsSumOf([i \in 0 .. 0 |-> 0], w, 0)
    BY DEF IsSumOf
  <2> QED
    BY <2>1
<1>2. ASSUME NEW k \in 1 .. NumWeights, k - 1 \in P PROVE k \in P
  <2>1. PICK f : IsSumOf(f, w, k - 1)
    BY <1>2
  <2> DEFINE g == [i \in 0 .. k |-> IF i = k THEN f[k - 1] + w[k] ELSE f[i]]
  <2>2. IsSumOf(g, w, k)
    <3>1. k \in Nat /\ k > 0 /\ w[k] \in Nat /\ f[k - 1] \in Nat
      BY <2>1 DEF IsSumOf
    <3>2. g \in [0 .. k -> Nat] /\ g[0] = 0
      BY <2>1, <3>1 DEF IsSumOf
    <3>3. ASSUME NEW i \in 1 .. k PROVE g[i] = g[i - 1] + w[i]
      <4>1. g[i - 1] = f[i - 1]
        BY <3>1
      <4>2. i # k => i \in 1 .. k - 1 /\ g[i] = f[i]
        BY <3>1
      <4>3. i # k => f[i] = f[i - 1] + w[i]
        BY <2>1, <4>2 DEF IsSumOf
      <4>4. i = k => g[i] = f[i - 1] + w[i]
        BY <3>1
      <4> QED
        BY <4>1, <4>2, <4>3, <4>4
    <3> QED
      BY <3>2, <3>3 DEF IsSumOf
  <2> QED
    BY <2>2
<1>3. 0 .. NumWeights \subseteq P
  BY <1>1, <1>2, UpTo
<1> QED
  BY <1>3

LEMMA RunningSumFacts ==
    ASSUME NEW w \in [1 .. NumWeights -> Nat]
    PROVE  IsSumOf(RunningSum(w), w, NumWeights)
<1> DEFINE E(g) == [i \in 0 .. NumWeights |-> IF i = 0 THEN 0 ELSE g[i - 1] + w[i]]
           f == RunningSum(w)
           P == {k \in 0 .. NumWeights : f[k] \in Nat}
<1> USE WeightsAssumption
<1>1. PICK g : IsSumOf(g, w, NumWeights)
  BY SumsExist
<1>2. g = E(g)
  BY <1>1 DEF IsSumOf
<1>3. f = E(f)
  BY <1>2 DEF RunningSum
<1> HIDE DEF f
<1>4. /\ DOMAIN f = 0 .. NumWeights /\ f = [i \in 0 .. NumWeights |-> f[i]]
      /\ f[0] = 0 /\ \A i \in 1 .. NumWeights : f[i] = f[i - 1] + w[i]
  BY <1>3
<1>5. 0 \in P
  BY <1>4
<1>6. ASSUME NEW k \in 1 .. NumWeights, k - 1 \in P PROVE k \in P
  <2>1. f[k] = f[k - 1] + w[k] /\ f[k - 1] \in Nat /\ w[k] \in Nat
    BY <1>4, <1>6
  <2>2. k \in 0 .. NumWeights
    OBVIOUS
  <2> QED
    BY <2>1, <2>2
<1>7. 0 .. NumWeights \subseteq P
  BY <1>5, <1>6, UpTo
<1>8. f \in [0 .. NumWeights -> Nat]
  BY <1>4, <1>7
<1> QED
  BY <1>4, <1>8 DEF IsSumOf, f

TotalOf(w) == RunningSum(w)[NumWeights]

\* The sum of a vector c times as large is c times as large.
LEMMA SumsScale ==
    ASSUME NEW w \in [1 .. NumWeights -> Nat], NEW v \in [1 .. NumWeights -> Nat], NEW c \in Nat,
           \A i \in 1 .. NumWeights : v[i] = c * w[i]
    PROVE  TotalOf(v) = c * TotalOf(w)
<1> DEFINE f == RunningSum(w)
           g == RunningSum(v)
           P == {k \in 0 .. NumWeights : g[k] = c * f[k]}
<1> USE WeightsAssumption
<1>1. IsSumOf(f, w, NumWeights) /\ IsSumOf(g, v, NumWeights)
  BY RunningSumFacts
<1> HIDE DEF f, g
<1>2. 0 \in P
  BY <1>1 DEF IsSumOf
<1>3. ASSUME NEW k \in 1 .. NumWeights, k - 1 \in P PROVE k \in P
  <2>1. g[k] = c * f[k - 1] + c * w[k] /\ f[k] = f[k - 1] + w[k]
    BY <1>1, <1>3 DEF IsSumOf
  <2>2. k - 1 \in 0 .. NumWeights /\ f[k - 1] \in Nat /\ w[k] \in Nat
    <3>1. k - 1 \in 0 .. NumWeights /\ k \in 1 .. NumWeights
      BY <1>3
    <3>2. f \in [0 .. NumWeights -> Nat]
      BY <1>1 DEF IsSumOf
    <3> QED
      BY <3>1, <3>2
  <2>3. \A a, b \in Nat : c * (a + b) = c * a + c * b
    OBVIOUS
  <2>4. c * f[k] = c * f[k - 1] + c * w[k]
    BY <2>1, <2>2, <2>3
  <2>5. g[k] = c * f[k]
    BY <2>1, <2>4
  <2> QED
    BY <2>5, <1>3
<1>4. 0 .. NumWeights \subseteq P
  BY <1>2, <1>3, UpTo
<1> QED
  BY <1>4 DEF f, g, TotalOf

\* The sum of a vector that is nowhere larger is no larger.
LEMMA SumsBound ==
    ASSUME NEW w \in [1 .. NumWeights -> Nat], NEW v \in [1 .. NumWeights -> Nat],
           \A i \in 1 .. NumWeights : v[i] <= w[i]
    PROVE  TotalOf(v) <= TotalOf(w)
<1> DEFINE f == RunningSum(w)
           g == RunningSum(v)
           P == {k \in 0 .. NumWeights : g[k] <= f[k]}
<1> USE WeightsAssumption
<1>1. IsSumOf(f, w, NumWeights) /\ IsSumOf(g, v, NumWeights)
  BY RunningSumFacts
<1> HIDE DEF f, g
<1>2. 0 \in P
  BY <1>1 DEF IsSumOf
<1>3. ASSUME NEW k \in 1 .. NumWeights, k - 1 \in P PROVE k \in P
  <2>1. /\ k - 1 \in 0 .. NumWeights /\ f[k - 1] \in Nat /\ w[k] \in Nat
        /\ g[k - 1] \in Nat /\ v[k] \in Nat
    BY <1>1 DEF IsSumOf
  <2>2. g[k] = g[k - 1] + v[k] /\ f[k] = f[k - 1] + w[k]
    BY <1>1 DEF IsSumOf
  <2> QED
    BY <1>3, <2>1, <2>2
<1>4. 0 .. NumWeights \subseteq P
  BY <1>2, <1>3, UpTo
<1> QED
  BY <1>4 DEF f, g, TotalOf


\* What normalize and normalize_with_clamp multiply.
LEMMA ProductFacts ==
    ASSUME NEW a \in Nat, NEW b \in Nat, NEW c \in Nat
    PROVE  /\ a * b \in Nat /\ a * b = b * a /\ (a * b) * c = a * (b * c)
           /\ a > 0 /\ b > 0 => a * b > 0
           /\ a > b /\ c > 0 => a * c > b * c
           /\ a <= b => a * c <= b * c
OBVIOUS

LEMMA VolumeFacts ==
    ASSUME NormalizerTypeOK
    PROVE  /\ Volume \in Nat /\ Volume = TotalOf(weights)
           /\ ~IsTiny(Volume, denominator) => Volume > 0
<1>1. Volume = TotalOf(weights)
  BY DEF Volume, TotalOf
<1>2. Volume \in Nat
  <2>1. IsSumOf(RunningSum(weights), weights, NumWeights)
    BY RunningSumFacts DEF NormalizerTypeOK
  <2> QED
    BY <1>1, <2>1, WeightsAssumption DEF IsSumOf, TotalOf
<1>3. Volume = 0 => IsTiny(Volume, denominator)
  BY VolumeAssumption DEF IsTiny, NormalizerTypeOK
<1> QED
  BY <1>1, <1>2, <1>3

LEMMA SmallestOf ==
    ASSUME NEW T, T \subseteq 1 .. NumWeights, T # {}
    PROVE  Min(T) \in T
<1> DEFINE P == {k \in 0 .. NumWeights : \A i \in T : i > k}
<1>1. PICK x \in T : \A y \in T : x <= y
  <2> SUFFICES ASSUME \A x \in T : \E y \in T : ~(x <= y) PROVE FALSE
    OBVIOUS
  <2>1. 0 \in P
    BY WeightsAssumption
  <2>2. ASSUME NEW k \in 1 .. NumWeights, k - 1 \in P PROVE k \in P
    <3>1. \A i \in T : i \in Nat /\ i >= k
      BY <2>2
    <3>2. k \notin T
      BY <3>1
    <3>3. \A i \in T : i > k
      BY <3>1, <3>2
    <3> QED
      BY <3>3
  <2>3. 0 .. NumWeights \subseteq P
    <3> HIDE DEF P
    <3> QED
      BY <2>1, <2>2, UpTo, WeightsAssumption
  <2>4. \A i \in T : i > NumWeights
    BY <2>3, WeightsAssumption
  <2>5. PICK i \in T : TRUE
    OBVIOUS
  <2>6. i > NumWeights /\ i <= NumWeights /\ i \in Nat
    BY <2>4, <2>5, WeightsAssumption
  <2> QED
    BY <2>6, WeightsAssumption
<1> QED
  BY <1>1 DEF Min

NormalizerInv == NormalizerTypeOK /\ VolumeIsKept

\* A vector that was scaled as a whole.
LEMMA NormalizeKeeps ==
    ASSUME NormalizerTypeOK, Normalize
    PROVE  NormalizerInv'
<1> DEFINE bad == {i \in 1 .. NumWeights : Overflows(i) \/ Underflows(i)}
           last == IF bad = {} THEN NumWeights ELSE Min(bad)
           T == TargetVolume
<1> USE WeightsAssumption, VolumeAssumption
<1>1. /\ Volume \in Nat /\ denominator \in Nat /\ denominator > 0
      /\ \A i \in 1 .. NumWeights : weights[i] \in Nat
      /\ weights \in [1 .. NumWeights -> Nat]
      /\ T \in Nat /\ T > 0
  BY VolumeFacts DEF NormalizerTypeOK
<1>2. CASE IsTiny(Volume, denominator)
  <2>1. normalized' = "ZeroVolume" /\ weights' = weights /\ denominator' = denominator
    BY <1>2 DEF Normalize
  <2> QED
    BY <2>1 DEF NormalizerInv, NormalizerTypeOK, VolumeIsKept
<1>3. CASE ~IsTiny(Volume, denominator)
  <2>1. Volume > 0
    BY <1>3, VolumeFacts
  <2>2. /\ weights' = [i \in 1 .. NumWeights |->
                          IF i <= last THEN Scaled(weights[i]) * denominator
                                       ELSE weights[i] * Volume]
        /\ denominator' = denominator * Volume
        /\ normalized' = CASE bad = {} -> "Ok"
                           [] Overflows(last) -> "Overflow"
                           [] OTHER -> "Underflow"
    BY <1>3 DEF Normalize
  <2>3. last \in 1 .. NumWeights /\ (bad # {} => last \in bad)
    <3>1. bad \subseteq 1 .. NumWeights
      OBVIOUS
    <3>2. (bad = {} => last = NumWeights) /\ (bad # {} => last = Min(bad))
      OBVIOUS
    <3> HIDE DEF bad, last
    <3>3. bad # {} => Min(bad) \in bad
      BY <3>1, SmallestOf
    <3>4. NumWeights \in 1 .. NumWeights
      OBVIOUS
    <3> QED
      BY <3>1, <3>2, <3>3, <3>4
  <2>4. \A i \in 1 .. NumWeights :
          /\ Scaled(weights[i]) = weights[i] * T /\ Scaled(weights[i]) \in Nat
          /\ Scaled(weights[i]) * denominator \in Nat /\ weights[i] * Volume \in Nat
    BY <1>1, ProductFacts DEF Scaled
  <2>5. denominator' \in Nat /\ denominator' > 0
    BY <1>1, <2>1, <2>2, ProductFacts
  <2>6. weights' \in [1 .. NumWeights -> Nat]
    BY <2>2, <2>4
  <2>7. normalized' \in {"Ok", "Overflow", "Underflow"}
    BY <2>2
  <2>8. NormalizerTypeOK'
    BY <2>5, <2>6, <2>7 DEF NormalizerTypeOK
  <2>9. \A i \in 1 .. NumWeights : i <= last =>
          /\ weights'[i] = weights[i] * T * denominator
          /\ weights'[i] <= MaxTensorValue * denominator' <=> ~Overflows(i)
    <3> TAKE i \in 1 .. NumWeights
    <3> HAVE i <= last
    <3>1. weights'[i] = weights[i] * T * denominator
      BY <2>2, <2>4
    <3> DEFINE x == weights[i] * T
               y == MaxTensorValue * Volume
    <3>2. x \in Nat /\ y \in Nat /\ (Overflows(i) <=> x > y)
      BY <1>1, <2>4, ProductFacts DEF Overflows
    <3>3. MaxTensorValue * denominator' = y * denominator
      <4>1. denominator' = Volume * denominator
        BY <1>1, <2>2, ProductFacts
      <4> QED
        BY <1>1, <4>1, ProductFacts
    <3> HIDE DEF x, y
    <3>4. /\ x > y => x * denominator > y * denominator
          /\ x <= y => x * denominator <= y * denominator
          /\ x * denominator \in Nat /\ y * denominator \in Nat
      BY <1>1, <3>2, ProductFacts
    <3>5. weights'[i] = x * denominator
      BY <3>1 DEF x
    <3> QED
      BY <3>1, <3>2, <3>3, <3>4, <3>5
  <2>10. ASSUME normalized' = "Ok"
         PROVE  Volume' = T * denominator' /\ IsWithinBounds'
    <3>1. bad = {} /\ last = NumWeights
      BY <2>2, <2>10
    <3>2. \A i \in 1 .. NumWeights : i <= last /\ ~Overflows(i)
      BY <3>1
    <3>3. IsWithinBounds'
      BY <2>9, <3>2 DEF IsWithinBounds
    <3> DEFINE c == T * denominator
    <3>4. c \in Nat /\ \A i \in 1 .. NumWeights : weights'[i] = c * weights[i]
      <4>1. c \in Nat
        BY <1>1, ProductFacts
      <4>2. ASSUME NEW i \in 1 .. NumWeights PROVE weights'[i] = c * weights[i]
        <5>1. weights'[i] = weights[i] * T * denominator
          BY <2>9, <3>2
        <5>2. weights[i] * T * denominator = weights[i] * c /\ weights[i] * c = c * weights[i]
          BY <1>1, <4>1, ProductFacts
        <5> QED
          BY <5>1, <5>2
      <4> QED
        BY <4>1, <4>2
    <3>5. Volume' = c * Volume
      <4>1. TotalOf(weights') = c * TotalOf(weights)
        <5> HIDE DEF c
        <5> QED
          BY <1>1, <2>6, <3>4, SumsScale
      <4>2. Volume' = TotalOf(weights')
        BY DEF Volume, TotalOf
      <4> QED
        BY <4>1, <4>2, VolumeFacts
    <3>6. c * Volume = T * denominator'
      BY <1>1, <2>2, ProductFacts
    <3> QED
      BY <3>3, <3>5, <3>6
  <2>11. ASSUME normalized' = "Overflow" PROVE ~IsWithinBounds'
    <3>1. Overflows(last)
      BY <2>2, <2>11
    <3>2. last <= last
      BY <2>3
    <3>3. ~(weights'[last] <= MaxTensorValue * denominator')
      BY <2>3, <2>9, <3>1, <3>2
    <3> QED
      BY <2>3, <3>3 DEF IsWithinBounds
  <2> QED
    BY <2>7, <2>8, <2>10, <2>11 DEF NormalizerInv, VolumeIsKept
<1> QED
  BY <1>2, <1>3

LEMMA ClampKeeps ==
    ASSUME NormalizerTypeOK, NormalizeWithClamp
    PROVE  NormalizerInv'
<1> DEFINE T == TargetVolume
           y == MaxTensorValue * Volume
           scaled == [i \in 1 .. NumWeights |-> Scaled(weights[i])]
<1> USE WeightsAssumption, VolumeAssumption
<1>1. /\ Volume \in Nat /\ denominator \in Nat /\ denominator > 0
      /\ \A i \in 1 .. NumWeights : weights[i] \in Nat
      /\ weights \in [1 .. NumWeights -> Nat]
      /\ T \in Nat /\ y \in Nat
  BY VolumeFacts, ProductFacts DEF NormalizerTypeOK
<1>2. normalized' = "Clamped"
  BY DEF NormalizeWithClamp
<1>3. CASE IsTiny(Volume, denominator)
  <2>1. weights' = weights /\ denominator' = denominator
    BY <1>3 DEF NormalizeWithClamp
  <2>2. IsTiny(Volume, denominator)'
    BY <1>3, <2>1 DEF IsTiny, Volume
  <2> QED
    BY <1>2, <2>1, <2>2 DEF NormalizerInv, NormalizerTypeOK, VolumeIsKept
<1>4. CASE ~IsTiny(Volume, denominator)
  <2>1. Volume > 0
    BY <1>4, VolumeFacts
  <2>2. /\ weights' = [i \in 1 .. NumWeights |->
                          Min({Scaled(weights[i]), MaxTensorValue * Volume})]
        /\ denominator' = Volume
    BY <1>4 DEF NormalizeWithClamp
  <2>3. \A i \in 1 .. NumWeights :
          scaled[i] = T * weights[i] /\ scaled[i] \in Nat
    BY <1>1, ProductFacts DEF Scaled
  <2>4. \A a, b \in Nat : Min({a, b}) \in Nat /\ Min({a, b}) <= a /\ Min({a, b}) <= b
    <3> TAKE a, b \in Nat
    <3>1. \E x \in {a, b} : \A z \in {a, b} : x <= z
      OBVIOUS
    <3>2. Min({a, b}) \in {a, b} /\ \A z \in {a, b} : Min({a, b}) <= z
      BY <3>1 DEF Min
    <3> QED
      BY <3>2
  <2> HIDE DEF y
  <2>5. \A i \in 1 .. NumWeights :
          weights'[i] \in Nat /\ weights'[i] <= scaled[i] /\ weights'[i] <= y
    <3> TAKE i \in 1 .. NumWeights
    <3>1. weights'[i] = Min({scaled[i], y})
      BY <2>2 DEF y
    <3>2. scaled[i] \in Nat /\ y \in Nat
      BY <1>1, <2>3
    <3> HIDE DEF scaled
    <3> QED
      BY <2>4, <3>1, <3>2
  <2>6. weights' \in [1 .. NumWeights -> Nat] /\ scaled \in [1 .. NumWeights -> Nat]
    BY <2>2, <2>3, <2>5
  <2>7. IsWithinBounds'
    BY <2>2, <2>5 DEF IsWithinBounds, y
  <2>8. Volume' <= T * denominator'
    <3> HIDE DEF scaled
    <3>1. TotalOf(weights') <= TotalOf(scaled)
      BY <2>5, <2>6, SumsBound
    <3>2. TotalOf(scaled) = T * TotalOf(weights)
      <4>1. \A i \in 1 .. NumWeights : scaled[i] = T * weights[i]
        BY <2>3
      <4>2. T \in Nat /\ weights \in [1 .. NumWeights -> Nat] /\ scaled \in [1 .. NumWeights -> Nat]
        BY <1>1, <2>6
      <4> HIDE DEF T
      <4> QED
        BY <4>1, <4>2, SumsScale
    <3>3. Volume' = TotalOf(weights')
      BY DEF Volume, TotalOf
    <3> QED
      BY <2>2, <3>1, <3>2, <3>3, VolumeFacts
  <2>9. NormalizerTypeOK'
    <3>1. denominator' \in Nat \ {0}
      BY <1>1, <2>1, <2>2
    <3> QED
      BY <1>2, <2>6, <3>1 DEF NormalizerTypeOK
  <2> QED
    BY <1>2, <2>7, <2>8, <2>9 DEF NormalizerInv, VolumeIsKept
<1> QED
  BY <1>3, <1>4

LEMMA NormalizerInvHolds == NormalizerSpec => []NormalizerInv
<1>1. NormalizerInit => NormalizerInv
  BY WeightsAssumption DEF NormalizerInit, NormalizerInv, NormalizerTypeOK, VolumeIsKept
<1>2. NormalizerInv /\ [NormalizerNext]_normalizerVars => NormalizerInv'
  <2> SUFFICES ASSUME NormalizerInv, [NormalizerNext]_normalizerVars PROVE NormalizerInv'
    OBVIOUS
  <2>1. CASE NewWeights
    BY <2>1, WeightsAssumption
       DEF NewWeights, NormalizerInv, NormalizerTypeOK, VolumeIsKept
  <2>2. CASE Normalize
    BY <2>2, NormalizeKeeps DEF NormalizerInv
  <2>3. CASE NormalizeWithClamp
    BY <2>3, ClampKeeps DEF NormalizerInv
  <2>4. CASE UNCHANGED normalizerVars
    BY <2>4 DEF normalizerVars, NormalizerInv, NormalizerTypeOK, VolumeIsKept, Volume,
                IsWithinBounds, IsTiny
  <2> QED
    BY <2>1, <2>2, <2>3, <2>4 DEF NormalizerNext
<1> QED
  BY <1>1, <1>2, PTL DEF NormalizerSpec

\* Weights are fractions that are not negative, whatever calls failed half-way.
THEOREM NormalizerTypeCorrect == NormalizerSpec => []NormalizerTypeOK
<1>1. NormalizerInv => NormalizerTypeOK
  BY DEF NormalizerInv
<1> QED
  BY <1>1, NormalizerInvHolds, PTL

\* For vectors of any length, and any sequence of calls and errors, Ok stands for the
\* target volume within the bounds, and a clamped vector is within both.
THEOREM VolumesAreKept == NormalizerSpec => []VolumeIsKept
<1>1. NormalizerInv => VolumeIsKept
  BY DEF NormalizerInv
<1> QED
  BY <1>1, NormalizerInvHolds, PTL
=============================================================================
