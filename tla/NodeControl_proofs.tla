------------------------ MODULE NodeControl_proofs ------------------------
(***************************************************************************)
(* Theorems about NodeControl, for any number of callers, nodes, graphs    *)
(* and tenants.                                                            *)
(*                                                                         *)
(* CallLocals and DistinctDraws say what a submission holds: an id nobody  *)
(* else stores or holds until its graph is stored.  RowsMatch is why a     *)
(* graph a caller can name has its request stored.  QuotaCounts is the     *)
(* reason QuotaBoundsGraphs is inductive: the counter of a quota is the    *)
(* number of graphs charged to it, so the check of the counter is a check  *)
(* of the graphs.                                                          *)
(***************************************************************************)
EXTENDS NodeControl, FiniteSetTheorems, TLAPS

\* This call is a submission; handle_node_failure has no tenant.
Submitting(c) == tenant[c] # None

\* Where a submission is before its graph is stored.
Early(c) == pc[c] \in {"authorized", "admitted"}

RequestStored(g) == submissions[g] = graphs[g].tenant

\* No graph is ever Running, nor Cancelled: nothing in NodeControl starts one.
NothingRuns == \A g \in GraphIds : graphs[g].status \in {"None", "Pending"}

\* What holds of the locals of a call between two of its steps.
CallLocals ==
    \A c \in Callers :
        /\ pc[c] = "idle" <=> graph[c] = None
        /\ pc[c] = "idle" => tenant[c] = None
        /\ Early(c) \/ pc[c] = "stored" => tenant[c] \in Tenants
        /\ Early(c) => ~Stored(graph[c])
        /\ pc[c] = "stored" =>
             Stored(graph[c]) /\ graphs[graph[c]].tenant = tenant[c]
        /\ pc[c] \in {"allocate", "marking"} =>
             Stored(graph[c]) /\ RequestStored(graph[c])

\* No id is in the hands of two submissions, nor in those of a submission that
\* has not stored it and of any other call.
DistinctDraws ==
    \A c, d \in Callers :
        /\ c # d
        /\ graph[c] # None
        /\ graph[c] = graph[d]
        => ~Early(c) /\ ~(Submitting(c) /\ Submitting(d))

\* A stored graph has its request stored, or its submission is about to do it.
RowsMatch ==
    \A g \in GraphIds : Stored(g) =>
        /\ graphs[g].tenant \in Tenants
        /\ RequestStored(g) \/ \E c \in Callers : pc[c] = "stored" /\ graph[c] = g

QuotaCounts ==
    \A t \in Tenants :
        /\ IsFiniteSet(charged[t])
        /\ Cardinality(charged[t]) = quotas[t].active
        /\ quotas[t].active <= quotas[t].max
        /\ ~quotas[t].registered => charged[t] = {}

Inv ==
    /\ TypeOK
    /\ NothingRuns
    /\ CallLocals
    /\ DistinctDraws
    /\ RowsMatch
    /\ ChargedGraphsExist
    /\ QuotaCounts
    /\ ExecutingGraphsAreKnown

-----------------------------------------------------------------------------

LEMMA CountOneMore ==
    ASSUME NEW q \in [max : Nat, active : Nat, registered : BOOLEAN]
    PROVE  [q EXCEPT !.active = q.active + 1]
             \in [max : Nat, active : Nat, registered : BOOLEAN]
OBVIOUS

\* Every step preserves the types.
LEMMA TypeStep ==
    ASSUME TypeOK, NothingRuns, CallLocals, [Next]_vars PROVE TypeOK'
<1> USE NodesAssumption, NoGraphAssumption, RequirementsAssumption,
        LimitsAssumption, NoTenantAssumption
    DEF TypeOK, NothingRuns, CallLocals, Early, NodeStates, Tags, Plain,
        Executing, NoRow, vars, stores, locals
<1>1. ASSUME NEW c \in Callers, NEW g \in GraphIds, NEW request \in Requests,
             Submit(c, g, request)
      PROVE  TypeOK'
  BY <1>1 DEF Submit, Requests, Goto
<1>2. ASSUME NEW c \in Callers, SubmitWithoutCredentials(c) PROVE TypeOK'
  BY <1>2 DEF SubmitWithoutCredentials, Return
<1>3. ASSUME NEW c \in Callers, NEW n \in Nodes, NEW g \in GraphIds,
             HandleNodeFailure(c, n, g)
      PROVE  TypeOK'
  BY <1>3 DEF HandleNodeFailure, UpdateNodeState, Goto
<1>4. ASSUME NEW c \in Callers, NEW n \in Nodes, HandleNodeRejoin(c, n) PROVE TypeOK'
  BY <1>4 DEF HandleNodeRejoin, Rejoin, Return
<1>5. ASSUME NEW c \in Callers, NEW n \in Nodes, NEW tag \in {"Starting", "Ready"},
             RegisterNode(c, n, tag)
      PROVE  TypeOK'
  BY <1>5 DEF RegisterNode, PutNode, Return
<1>6. ASSUME NEW c \in Callers, NEW t \in Tenants, NEW max \in Limits,
             RegisterTenant(c, t, max)
      PROVE  TypeOK'
  BY <1>6 DEF RegisterTenant, Return
<1>7. ASSUME NEW c \in Callers, NEW enabled \in BOOLEAN, SetAuthEnabled(c, enabled)
      PROVE  TypeOK'
  BY <1>7 DEF SetAuthEnabled, Return
<1>8. ASSUME NEW c \in Callers, NEW g \in GraphIds, Cancel(c, g) PROVE TypeOK'
  <2>1. PICK a \in {"InvalidState", "GraphNotFound"} :
          UNCHANGED <<nodes, stores>> /\ Return(c, a)
    BY <1>8 DEF Cancel
  <2> QED
    BY <2>1 DEF Return
<1>9. ASSUME NEW c \in Callers, NEW g \in GraphIds, GetGraphStatus(c, g) PROVE TypeOK'
  BY <1>9 DEF GetGraphStatus, Return
<1>10. ASSUME NEW c \in Callers, RejectOverQuota(c) PROVE TypeOK'
  BY <1>10 DEF RejectOverQuota, Return
<1>11. ASSUME NEW c \in Callers, Admit(c) PROVE TypeOK'
  <2>1. CASE quotas[tenant[c]].registered
    <3>1. tenant[c] \in Tenants /\ graph[c] \in GraphIds
      BY <1>11 DEF Admit
    <3>2. quotas' \in [Tenants -> [max : Nat, active : Nat, registered : BOOLEAN]]
      <4>1. PICK t \in Tenants : t = tenant[c]
        BY <3>1
      <4>2. quotas' = [quotas EXCEPT ![t].active = quotas[t].active + 1]
        BY <1>11, <2>1, <4>1 DEF Admit
      <4>3. [quotas[t] EXCEPT !.active = quotas[t].active + 1]
              \in [max : Nat, active : Nat, registered : BOOLEAN]
        BY CountOneMore
      <4> QED
        BY <4>2, <4>3
    <3>3. charged' \in [Tenants -> SUBSET GraphIds]
      BY <1>11, <2>1, <3>1 DEF Admit
    <3> QED
      BY <1>11, <3>2, <3>3 DEF Admit, Goto
  <2>2. CASE ~quotas[tenant[c]].registered
    BY <1>11, <2>2 DEF Admit, Goto
  <2> QED
    BY <2>1, <2>2
<1>12. ASSUME NEW c \in Callers, StoreGraph(c) PROVE TypeOK'
  BY <1>12 DEF StoreGraph, Goto
<1>13. ASSUME NEW c \in Callers, StoreSubmission(c) PROVE TypeOK'
  BY <1>13 DEF StoreSubmission, Goto
<1>14. ASSUME NEW c \in Callers, Allocate(c) PROVE TypeOK'
  <2>1. PICK S \in Allocations(required[c]) : todo' = [todo EXCEPT ![c] = S]
    BY <1>14 DEF Allocate
  <2>2. S \subseteq Nodes
    BY DEF Allocations, ReadyNodes
  <2> QED
    BY <1>14, <2>1, <2>2 DEF Allocate, Goto
<1>15. ASSUME NEW c \in Callers, NEW n \in Nodes, Mark(c, n) PROVE TypeOK'
  BY <1>15 DEF Mark, UpdateNodeState
<1>16. ASSUME NEW c \in Callers, Answer(c) PROVE TypeOK'
  BY <1>16 DEF Answer, Return
<1>17. CASE UNCHANGED vars
  BY <1>17 DEF vars
<1> HIDE NodesAssumption, NoGraphAssumption, RequirementsAssumption,
        LimitsAssumption, NoTenantAssumption
    DEF TypeOK, NothingRuns, CallLocals, Early, NodeStates, Tags, Plain,
        Executing, NoRow, vars, stores, locals
<1> QED
  BY <1>1, <1>2, <1>3, <1>4, <1>5, <1>6, <1>7, <1>8, <1>9, <1>10,
     <1>11, <1>12, <1>13, <1>14, <1>15, <1>16, <1>17
     DEF Next, Call, Proceed

\* A graph once stored keeps its tenant, and its request once stored stays.
LEMMA LocalsStep ==
    ASSUME Inv, TypeOK', [Next]_vars PROVE CallLocals'
<1> USE NodesAssumption, NoGraphAssumption, RequirementsAssumption,
        LimitsAssumption, NoTenantAssumption
    DEF Inv, TypeOK, NothingRuns, vars, stores, locals, CallLocals, DistinctDraws, Submitting, Early, RequestStored,
        Stored, NoRow, Fresh, Answered, RowsMatch
<1>1. ASSUME NEW c \in Callers, NEW g \in GraphIds, NEW request \in Requests,
             Submit(c, g, request)
      PROVE  CallLocals'
  BY <1>1 DEF Submit, Requests, Goto
<1>2. ASSUME NEW c \in Callers, SubmitWithoutCredentials(c) PROVE CallLocals'
  BY <1>2 DEF SubmitWithoutCredentials, Return
<1>3. ASSUME NEW c \in Callers, NEW n \in Nodes, NEW g \in GraphIds,
             HandleNodeFailure(c, n, g)
      PROVE  CallLocals'
  BY <1>3 DEF HandleNodeFailure, UpdateNodeState, Goto
<1>4. ASSUME NEW c \in Callers, NEW n \in Nodes, HandleNodeRejoin(c, n) PROVE CallLocals'
  BY <1>4 DEF HandleNodeRejoin, Rejoin, Return
<1>5. ASSUME NEW c \in Callers, NEW n \in Nodes, NEW tag \in {"Starting", "Ready"},
             RegisterNode(c, n, tag)
      PROVE  CallLocals'
  BY <1>5 DEF RegisterNode, PutNode, Return
<1>6. ASSUME NEW c \in Callers, NEW t \in Tenants, NEW max \in Limits,
             RegisterTenant(c, t, max)
      PROVE  CallLocals'
  BY <1>6 DEF RegisterTenant, Return
<1>7. ASSUME NEW c \in Callers, NEW enabled \in BOOLEAN, SetAuthEnabled(c, enabled)
      PROVE  CallLocals'
  BY <1>7 DEF SetAuthEnabled, Return
<1>8. ASSUME NEW c \in Callers, NEW g \in GraphIds, Cancel(c, g) PROVE CallLocals'
  BY <1>8 DEF Cancel, Return
<1>9. ASSUME NEW c \in Callers, NEW g \in GraphIds, GetGraphStatus(c, g) PROVE CallLocals'
  BY <1>9 DEF GetGraphStatus, Return
<1>10. ASSUME NEW c \in Callers, RejectOverQuota(c) PROVE CallLocals'
  BY <1>10 DEF RejectOverQuota, Return
<1>11. ASSUME NEW c \in Callers, Admit(c) PROVE CallLocals'
  <2>1. CASE quotas[tenant[c]].registered
    BY <1>11, <2>1 DEF Admit, Goto
  <2>2. CASE ~quotas[tenant[c]].registered
    BY <1>11, <2>2 DEF Admit, Goto
  <2> QED
    BY <2>1, <2>2
<1>12. ASSUME NEW c \in Callers, StoreGraph(c) PROVE CallLocals'
  BY <1>12 DEF StoreGraph, Goto
<1>13. ASSUME NEW c \in Callers, StoreSubmission(c) PROVE CallLocals'
  BY <1>13 DEF StoreSubmission, Goto
<1>14. ASSUME NEW c \in Callers, Allocate(c) PROVE CallLocals'
  BY <1>14 DEF Allocate, Goto
<1>15. ASSUME NEW c \in Callers, NEW n \in Nodes, Mark(c, n) PROVE CallLocals'
  BY <1>15 DEF Mark, UpdateNodeState
<1>16. ASSUME NEW c \in Callers, Answer(c) PROVE CallLocals'
  BY <1>16 DEF Answer, Return
<1>17. CASE UNCHANGED vars
  BY <1>17 DEF vars
<1> HIDE NodesAssumption, NoGraphAssumption, RequirementsAssumption,
        LimitsAssumption, NoTenantAssumption
    DEF Inv, TypeOK, NothingRuns, vars, stores, locals, CallLocals, DistinctDraws, Submitting, Early, RequestStored,
        Stored, NoRow, Fresh, Answered, RowsMatch
<1> QED
  BY <1>1, <1>2, <1>3, <1>4, <1>5, <1>6, <1>7, <1>8, <1>9, <1>10,
     <1>11, <1>12, <1>13, <1>14, <1>15, <1>16, <1>17
     DEF Next, Call, Proceed

\* A draw is fresh, and a failure handler names only answered graphs.
LEMMA DrawsStep ==
    ASSUME Inv, TypeOK', [Next]_vars PROVE DistinctDraws'
<1> USE NodesAssumption, NoGraphAssumption, RequirementsAssumption,
        LimitsAssumption, NoTenantAssumption
    DEF Inv, TypeOK, NothingRuns, vars, stores, locals, CallLocals, DistinctDraws, Submitting, Early,
        Fresh, Answered
<1>1. ASSUME NEW c \in Callers, NEW g \in GraphIds, NEW request \in Requests,
             Submit(c, g, request)
      PROVE  DistinctDraws'
  BY <1>1 DEF Submit, Requests, Goto
<1>2. ASSUME NEW c \in Callers, SubmitWithoutCredentials(c) PROVE DistinctDraws'
  BY <1>2 DEF SubmitWithoutCredentials, Return
<1>3. ASSUME NEW c \in Callers, NEW n \in Nodes, NEW g \in GraphIds,
             HandleNodeFailure(c, n, g)
      PROVE  DistinctDraws'
  BY <1>3 DEF HandleNodeFailure, UpdateNodeState, Goto
<1>4. ASSUME NEW c \in Callers, NEW n \in Nodes, HandleNodeRejoin(c, n) PROVE DistinctDraws'
  BY <1>4 DEF HandleNodeRejoin, Rejoin, Return
<1>5. ASSUME NEW c \in Callers, NEW n \in Nodes, NEW tag \in {"Starting", "Ready"},
             RegisterNode(c, n, tag)
      PROVE  DistinctDraws'
  BY <1>5 DEF RegisterNode, PutNode, Return
<1>6. ASSUME NEW c \in Callers, NEW t \in Tenants, NEW max \in Limits,
             RegisterTenant(c, t, max)
      PROVE  DistinctDraws'
  BY <1>6 DEF RegisterTenant, Return
<1>7. ASSUME NEW c \in Callers, NEW enabled \in BOOLEAN, SetAuthEnabled(c, enabled)
      PROVE  DistinctDraws'
  BY <1>7 DEF SetAuthEnabled, Return
<1>8. ASSUME NEW c \in Callers, NEW g \in GraphIds, Cancel(c, g) PROVE DistinctDraws'
  BY <1>8 DEF Cancel, Return
<1>9. ASSUME NEW c \in Callers, NEW g \in GraphIds, GetGraphStatus(c, g) PROVE DistinctDraws'
  BY <1>9 DEF GetGraphStatus, Return
<1>10. ASSUME NEW c \in Callers, RejectOverQuota(c) PROVE DistinctDraws'
  BY <1>10 DEF RejectOverQuota, Return
<1>11. ASSUME NEW c \in Callers, Admit(c) PROVE DistinctDraws'
  <2>1. CASE quotas[tenant[c]].registered
    BY <1>11, <2>1 DEF Admit, Goto
  <2>2. CASE ~quotas[tenant[c]].registered
    BY <1>11, <2>2 DEF Admit, Goto
  <2> QED
    BY <2>1, <2>2
<1>12. ASSUME NEW c \in Callers, StoreGraph(c) PROVE DistinctDraws'
  BY <1>12 DEF StoreGraph, Goto
<1>13. ASSUME NEW c \in Callers, StoreSubmission(c) PROVE DistinctDraws'
  BY <1>13 DEF StoreSubmission, Goto
<1>14. ASSUME NEW c \in Callers, Allocate(c) PROVE DistinctDraws'
  BY <1>14 DEF Allocate, Goto
<1>15. ASSUME NEW c \in Callers, NEW n \in Nodes, Mark(c, n) PROVE DistinctDraws'
  BY <1>15 DEF Mark, UpdateNodeState
<1>16. ASSUME NEW c \in Callers, Answer(c) PROVE DistinctDraws'
  BY <1>16 DEF Answer, Return
<1>17. CASE UNCHANGED vars
  BY <1>17 DEF vars
<1> HIDE NodesAssumption, NoGraphAssumption, RequirementsAssumption,
        LimitsAssumption, NoTenantAssumption
    DEF Inv, TypeOK, NothingRuns, vars, stores, locals, CallLocals, DistinctDraws, Submitting, Early,
        Fresh, Answered
<1> QED
  BY <1>1, <1>2, <1>3, <1>4, <1>5, <1>6, <1>7, <1>8, <1>9, <1>10,
     <1>11, <1>12, <1>13, <1>14, <1>15, <1>16, <1>17
     DEF Next, Call, Proceed

\* A step that stores nothing, and moves no call away from between its two
\* insertions, keeps the graphs and the requests in step.
LEMMA RowsFrame ==
    ASSUME RowsMatch,
           UNCHANGED <<graphs, submissions>>,
           \A d \in Callers : pc[d] = "stored" => pc'[d] = "stored" /\ graph'[d] = graph[d]
    PROVE  RowsMatch'
BY DEF RowsMatch, RequestStored, Stored

\* A graph becomes visible with its submission still about to store the request.
LEMMA RowsStep ==
    ASSUME Inv, TypeOK', [Next]_vars PROVE RowsMatch'
<1>0. /\ RowsMatch
      /\ pc \in [Callers -> {"idle", "authorized", "admitted", "stored",
                             "allocate", "marking"}]
      /\ graph \in [Callers -> GraphIds \cup {None}]
  BY DEF Inv, TypeOK
<1> USE <1>0
<1>1. ASSUME NEW c \in Callers, NEW g \in GraphIds, NEW request \in Requests,
             Submit(c, g, request)
      PROVE  RowsMatch'
  BY <1>1, RowsFrame DEF Submit, Requests, Goto, stores, locals
<1>2. ASSUME NEW c \in Callers, SubmitWithoutCredentials(c) PROVE RowsMatch'
  BY <1>2, RowsFrame DEF SubmitWithoutCredentials, Return, stores, locals
<1>3. ASSUME NEW c \in Callers, NEW n \in Nodes, NEW g \in GraphIds,
             HandleNodeFailure(c, n, g)
      PROVE  RowsMatch'
  BY <1>3, RowsFrame DEF HandleNodeFailure, Goto, stores, locals
<1>4. ASSUME NEW c \in Callers, NEW n \in Nodes, HandleNodeRejoin(c, n) PROVE RowsMatch'
  BY <1>4, RowsFrame DEF HandleNodeRejoin, Return, stores, locals
<1>5. ASSUME NEW c \in Callers, NEW n \in Nodes, NEW tag \in {"Starting", "Ready"},
             RegisterNode(c, n, tag)
      PROVE  RowsMatch'
  BY <1>5, RowsFrame DEF RegisterNode, Return, stores, locals
<1>6. ASSUME NEW c \in Callers, NEW t \in Tenants, NEW max \in Limits,
             RegisterTenant(c, t, max)
      PROVE  RowsMatch'
  BY <1>6, RowsFrame DEF RegisterTenant, Return, stores, locals
<1>7. ASSUME NEW c \in Callers, NEW enabled \in BOOLEAN, SetAuthEnabled(c, enabled) PROVE RowsMatch'
  BY <1>7, RowsFrame DEF SetAuthEnabled, Return, stores, locals
<1>8. ASSUME NEW c \in Callers, NEW g \in GraphIds, Cancel(c, g) PROVE RowsMatch'
  <2>1. graphs[g].status # "Running"
    BY DEF Inv, NothingRuns
  <2> QED
    BY <1>8, <2>1, RowsFrame DEF Cancel, Return
<1>9. ASSUME NEW c \in Callers, NEW g \in GraphIds, GetGraphStatus(c, g) PROVE RowsMatch'
  BY <1>9, RowsFrame DEF GetGraphStatus, Return, stores, locals
<1>10. ASSUME NEW c \in Callers, RejectOverQuota(c) PROVE RowsMatch'
  BY <1>10, RowsFrame DEF RejectOverQuota, Return, stores, locals
<1>11. ASSUME NEW c \in Callers, Admit(c) PROVE RowsMatch'
  BY <1>11, RowsFrame DEF Admit, Goto, stores, locals
<1>12. ASSUME NEW c \in Callers, StoreGraph(c) PROVE RowsMatch'
  <2>1. /\ graph[c] \in GraphIds
        /\ tenant[c] \in Tenants
        /\ graphs \in [GraphIds -> [status : {"None", "Pending", "Running", "Cancelled"},
                                    tenant : Tenants \cup {None}]]
    BY <1>12 DEF StoreGraph, Inv, TypeOK, CallLocals, Early, Submitting
  <2>2. /\ graphs' = [graphs EXCEPT ![graph[c]] = [status |-> "Pending", tenant |-> tenant[c]]]
        /\ pc[c] = "admitted"
        /\ pc' = [pc EXCEPT ![c] = "stored"]
        /\ UNCHANGED <<submissions, graph>>
    BY <1>12 DEF StoreGraph, Goto, locals
  <2> SUFFICES ASSUME NEW g \in GraphIds, Stored(g)'
               PROVE  /\ graphs'[g].tenant \in Tenants
                      /\ \/ RequestStored(g)'
                         \/ \E d \in Callers : pc'[d] = "stored" /\ graph'[d] = g
    BY DEF RowsMatch
  <2>3. CASE g = graph[c]
    BY <2>1, <2>2, <2>3
  <2>4. CASE g # graph[c]
    <3>1. Stored(g) /\ graphs'[g] = graphs[g] /\ RequestStored(g)' = RequestStored(g)
      BY <2>1, <2>2, <2>4 DEF Stored, RequestStored
    <3> QED
      BY <2>2, <3>1 DEF RowsMatch
  <2> QED
    BY <2>3, <2>4
<1>13. ASSUME NEW c \in Callers, StoreSubmission(c) PROVE RowsMatch'
  <2>1. /\ graph[c] \in GraphIds
        /\ tenant[c] \in Tenants
        /\ graphs[graph[c]].tenant = tenant[c]
    BY <1>13 DEF StoreSubmission, Inv, TypeOK, CallLocals, Early, Submitting
  <2>2. /\ submissions' = [submissions EXCEPT ![graph[c]] = tenant[c]]
        /\ pc' = [pc EXCEPT ![c] = "allocate"]
        /\ UNCHANGED <<graphs, graph>>
        /\ submissions \in [GraphIds -> Tenants \cup {None}]
    BY <1>13 DEF StoreSubmission, Goto, locals, Inv, TypeOK
  <2> SUFFICES ASSUME NEW g \in GraphIds, Stored(g)'
               PROVE  /\ graphs'[g].tenant \in Tenants
                      /\ \/ RequestStored(g)'
                         \/ \E d \in Callers : pc'[d] = "stored" /\ graph'[d] = g
    BY DEF RowsMatch
  <2>3. CASE g = graph[c]
    BY <2>1, <2>2, <2>3 DEF RequestStored
  <2>4. CASE g # graph[c]
    <3>1. Stored(g) /\ RequestStored(g)' = RequestStored(g)
      BY <2>1, <2>2, <2>4 DEF Stored, RequestStored
    <3> QED
      BY <2>2, <2>4, <3>1 DEF RowsMatch
  <2> QED
    BY <2>3, <2>4
<1>14. ASSUME NEW c \in Callers, Allocate(c) PROVE RowsMatch'
  BY <1>14, RowsFrame DEF Allocate, Goto, stores, locals
<1>15. ASSUME NEW c \in Callers, NEW n \in Nodes, Mark(c, n) PROVE RowsMatch'
  BY <1>15, RowsFrame DEF Mark, stores, locals
<1>16. ASSUME NEW c \in Callers, Answer(c) PROVE RowsMatch'
  BY <1>16, RowsFrame DEF Answer, Return, stores, locals
<1>17. CASE UNCHANGED vars
  BY <1>17, RowsFrame DEF vars, stores, locals
<1> QED
  BY <1>1, <1>2, <1>3, <1>4, <1>5, <1>6, <1>7, <1>8, <1>9, <1>10,
     <1>11, <1>12, <1>13, <1>14, <1>15, <1>16, <1>17
     DEF Next, Call, Proceed

\* Graphs enter Pending, and cancel is the only call that would change that.
LEMMA NothingRunsStep ==
    ASSUME Inv, TypeOK', [Next]_vars PROVE NothingRuns'
<1> USE NoTenantAssumption
    DEF Inv, TypeOK, NothingRuns, vars, stores, locals, CallLocals
<1>1. ASSUME NEW c \in Callers, NEW g \in GraphIds, NEW request \in Requests,
             Submit(c, g, request)
      PROVE  NothingRuns'
  BY <1>1 DEF Submit, Requests, Goto
<1>2. ASSUME NEW c \in Callers, SubmitWithoutCredentials(c) PROVE NothingRuns'
  BY <1>2 DEF SubmitWithoutCredentials, Return
<1>3. ASSUME NEW c \in Callers, NEW n \in Nodes, NEW g \in GraphIds,
             HandleNodeFailure(c, n, g)
      PROVE  NothingRuns'
  BY <1>3 DEF HandleNodeFailure, UpdateNodeState, Goto
<1>4. ASSUME NEW c \in Callers, NEW n \in Nodes, HandleNodeRejoin(c, n) PROVE NothingRuns'
  BY <1>4 DEF HandleNodeRejoin, Rejoin, Return
<1>5. ASSUME NEW c \in Callers, NEW n \in Nodes, NEW tag \in {"Starting", "Ready"},
             RegisterNode(c, n, tag)
      PROVE  NothingRuns'
  BY <1>5 DEF RegisterNode, PutNode, Return
<1>6. ASSUME NEW c \in Callers, NEW t \in Tenants, NEW max \in Limits,
             RegisterTenant(c, t, max)
      PROVE  NothingRuns'
  BY <1>6 DEF RegisterTenant, Return
<1>7. ASSUME NEW c \in Callers, NEW enabled \in BOOLEAN, SetAuthEnabled(c, enabled)
      PROVE  NothingRuns'
  BY <1>7 DEF SetAuthEnabled, Return
<1>8. ASSUME NEW c \in Callers, NEW g \in GraphIds, Cancel(c, g) PROVE NothingRuns'
  BY <1>8 DEF Cancel, Return
<1>9. ASSUME NEW c \in Callers, NEW g \in GraphIds, GetGraphStatus(c, g) PROVE NothingRuns'
  BY <1>9 DEF GetGraphStatus, Return
<1>10. ASSUME NEW c \in Callers, RejectOverQuota(c) PROVE NothingRuns'
  BY <1>10 DEF RejectOverQuota, Return
<1>11. ASSUME NEW c \in Callers, Admit(c) PROVE NothingRuns'
  <2>1. CASE quotas[tenant[c]].registered
    BY <1>11, <2>1 DEF Admit, Goto
  <2>2. CASE ~quotas[tenant[c]].registered
    BY <1>11, <2>2 DEF Admit, Goto
  <2> QED
    BY <2>1, <2>2
<1>12. ASSUME NEW c \in Callers, StoreGraph(c) PROVE NothingRuns'
  BY <1>12 DEF StoreGraph, Goto
<1>13. ASSUME NEW c \in Callers, StoreSubmission(c) PROVE NothingRuns'
  BY <1>13 DEF StoreSubmission, Goto
<1>14. ASSUME NEW c \in Callers, Allocate(c) PROVE NothingRuns'
  BY <1>14 DEF Allocate, Goto
<1>15. ASSUME NEW c \in Callers, NEW n \in Nodes, Mark(c, n) PROVE NothingRuns'
  BY <1>15 DEF Mark, UpdateNodeState
<1>16. ASSUME NEW c \in Callers, Answer(c) PROVE NothingRuns'
  BY <1>16 DEF Answer, Return
<1>17. CASE UNCHANGED vars
  BY <1>17 DEF vars
<1> HIDE NoTenantAssumption
    DEF Inv, TypeOK, NothingRuns, vars, stores, locals, CallLocals
<1> QED
  BY <1>1, <1>2, <1>3, <1>4, <1>5, <1>6, <1>7, <1>8, <1>9, <1>10,
     <1>11, <1>12, <1>13, <1>14, <1>15, <1>16, <1>17
     DEF Next, Call, Proceed

\* A charge and the graph it stands for belong to one submission.
LEMMA ChargedStep ==
    ASSUME Inv, TypeOK', [Next]_vars PROVE ChargedGraphsExist'
<1> USE NoTenantAssumption, NoGraphAssumption
    DEF Inv, TypeOK, NothingRuns, vars, stores, locals, CallLocals, DistinctDraws,
        Early, Stored, NoRow, ChargedGraphsExist
<1>1. ASSUME NEW c \in Callers, NEW g \in GraphIds, NEW request \in Requests,
             Submit(c, g, request)
      PROVE  ChargedGraphsExist'
  BY <1>1 DEF Submit, Requests, Goto
<1>2. ASSUME NEW c \in Callers, SubmitWithoutCredentials(c) PROVE ChargedGraphsExist'
  BY <1>2 DEF SubmitWithoutCredentials, Return
<1>3. ASSUME NEW c \in Callers, NEW n \in Nodes, NEW g \in GraphIds,
             HandleNodeFailure(c, n, g)
      PROVE  ChargedGraphsExist'
  BY <1>3 DEF HandleNodeFailure, UpdateNodeState, Goto
<1>4. ASSUME NEW c \in Callers, NEW n \in Nodes, HandleNodeRejoin(c, n) PROVE ChargedGraphsExist'
  BY <1>4 DEF HandleNodeRejoin, Rejoin, Return
<1>5. ASSUME NEW c \in Callers, NEW n \in Nodes, NEW tag \in {"Starting", "Ready"},
             RegisterNode(c, n, tag)
      PROVE  ChargedGraphsExist'
  BY <1>5 DEF RegisterNode, PutNode, Return
<1>6. ASSUME NEW c \in Callers, NEW t \in Tenants, NEW max \in Limits,
             RegisterTenant(c, t, max)
      PROVE  ChargedGraphsExist'
  BY <1>6 DEF RegisterTenant, Return
<1>7. ASSUME NEW c \in Callers, NEW enabled \in BOOLEAN, SetAuthEnabled(c, enabled)
      PROVE  ChargedGraphsExist'
  BY <1>7 DEF SetAuthEnabled, Return
<1>8. ASSUME NEW c \in Callers, NEW g \in GraphIds, Cancel(c, g) PROVE ChargedGraphsExist'
  BY <1>8 DEF Cancel, Return
<1>9. ASSUME NEW c \in Callers, NEW g \in GraphIds, GetGraphStatus(c, g) PROVE ChargedGraphsExist'
  BY <1>9 DEF GetGraphStatus, Return
<1>10. ASSUME NEW c \in Callers, RejectOverQuota(c) PROVE ChargedGraphsExist'
  BY <1>10 DEF RejectOverQuota, Return
<1>11. ASSUME NEW c \in Callers, Admit(c) PROVE ChargedGraphsExist'
  <2>1. CASE quotas[tenant[c]].registered
    <3> SUFFICES ASSUME NEW t \in Tenants, NEW g \in charged'[t]
                 PROVE  \/ Stored(g)' /\ graphs'[g].tenant = t
                        \/ \E d \in Callers :
                             pc'[d] = "admitted" /\ graph'[d] = g /\ tenant'[d] = t
      OBVIOUS
    <3>1. /\ UNCHANGED <<graphs, graph, tenant>>
          /\ pc[c] = "authorized"
          /\ pc' = [pc EXCEPT ![c] = "admitted"]
          /\ tenant[c] \in Tenants
          /\ charged' = [charged EXCEPT ![tenant[c]] = @ \cup {graph[c]}]
      BY <1>11, <2>1 DEF Admit, Goto
    <3>2. CASE g \in charged[t]
      BY <3>1, <3>2
    <3>3. CASE g \notin charged[t]
      BY <3>1, <3>3
    <3> QED
      BY <3>2, <3>3
  <2>2. CASE ~quotas[tenant[c]].registered
    BY <1>11, <2>2 DEF Admit, Goto
  <2> QED
    BY <2>1, <2>2
<1>12. ASSUME NEW c \in Callers, StoreGraph(c) PROVE ChargedGraphsExist'
  BY <1>12 DEF StoreGraph, Goto
<1>13. ASSUME NEW c \in Callers, StoreSubmission(c) PROVE ChargedGraphsExist'
  BY <1>13 DEF StoreSubmission, Goto
<1>14. ASSUME NEW c \in Callers, Allocate(c) PROVE ChargedGraphsExist'
  BY <1>14 DEF Allocate, Goto
<1>15. ASSUME NEW c \in Callers, NEW n \in Nodes, Mark(c, n) PROVE ChargedGraphsExist'
  BY <1>15 DEF Mark, UpdateNodeState
<1>16. ASSUME NEW c \in Callers, Answer(c) PROVE ChargedGraphsExist'
  BY <1>16 DEF Answer, Return
<1>17. CASE UNCHANGED vars
  BY <1>17 DEF vars
<1> HIDE NoTenantAssumption, NoGraphAssumption
    DEF Inv, TypeOK, NothingRuns, vars, stores, locals, CallLocals, DistinctDraws,
        Early, Stored, NoRow, ChargedGraphsExist
<1> QED
  BY <1>1, <1>2, <1>3, <1>4, <1>5, <1>6, <1>7, <1>8, <1>9, <1>10,
     <1>11, <1>12, <1>13, <1>14, <1>15, <1>16, <1>17
     DEF Next, Call, Proceed

\* An admission charges a graph that no submission has been charged for.
LEMMA CountsStep ==
    ASSUME Inv, TypeOK', [Next]_vars PROVE QuotaCounts'
<1> USE LimitsAssumption, NoTenantAssumption
    DEF Inv, TypeOK, NothingRuns, vars, stores, locals, CallLocals, QuotaCounts
<1>1. ASSUME NEW c \in Callers, NEW g \in GraphIds, NEW request \in Requests,
             Submit(c, g, request)
      PROVE  QuotaCounts'
  BY <1>1 DEF Submit, Requests, Goto
<1>2. ASSUME NEW c \in Callers, SubmitWithoutCredentials(c) PROVE QuotaCounts'
  BY <1>2 DEF SubmitWithoutCredentials, Return
<1>3. ASSUME NEW c \in Callers, NEW n \in Nodes, NEW g \in GraphIds,
             HandleNodeFailure(c, n, g)
      PROVE  QuotaCounts'
  BY <1>3 DEF HandleNodeFailure, UpdateNodeState, Goto
<1>4. ASSUME NEW c \in Callers, NEW n \in Nodes, HandleNodeRejoin(c, n) PROVE QuotaCounts'
  BY <1>4 DEF HandleNodeRejoin, Rejoin, Return
<1>5. ASSUME NEW c \in Callers, NEW n \in Nodes, NEW tag \in {"Starting", "Ready"},
             RegisterNode(c, n, tag)
      PROVE  QuotaCounts'
  BY <1>5 DEF RegisterNode, PutNode, Return
<1>6. ASSUME NEW c \in Callers, NEW t \in Tenants, NEW max \in Limits,
             RegisterTenant(c, t, max)
      PROVE  QuotaCounts'
  BY <1>6, FS_EmptySet DEF RegisterTenant, Return
<1>7. ASSUME NEW c \in Callers, NEW enabled \in BOOLEAN, SetAuthEnabled(c, enabled)
      PROVE  QuotaCounts'
  BY <1>7 DEF SetAuthEnabled, Return
<1>8. ASSUME NEW c \in Callers, NEW g \in GraphIds, Cancel(c, g) PROVE QuotaCounts'
  BY <1>8 DEF Cancel, Return
<1>9. ASSUME NEW c \in Callers, NEW g \in GraphIds, GetGraphStatus(c, g) PROVE QuotaCounts'
  BY <1>9 DEF GetGraphStatus, Return
<1>10. ASSUME NEW c \in Callers, RejectOverQuota(c) PROVE QuotaCounts'
  BY <1>10 DEF RejectOverQuota, Return
<1>11. ASSUME NEW c \in Callers, Admit(c) PROVE QuotaCounts'
  <2>1. CASE quotas[tenant[c]].registered
    <3>1. PICK t \in Tenants, g \in GraphIds : t = tenant[c] /\ g = graph[c]
      BY <1>11 DEF Admit, Early
    <3>2. g \notin charged[t]
      <4>1. ~Stored(g)
        BY <1>11, <3>1 DEF Admit, Early
      <4>2. ASSUME NEW d \in Callers, pc[d] = "admitted", graph[d] = g PROVE FALSE
        BY <1>11, <3>1, <4>2, NoGraphAssumption DEF Admit, DistinctDraws, Early
      <4> QED
        BY <4>1, <4>2 DEF ChargedGraphsExist
    <3>3. /\ quotas' = [quotas EXCEPT ![t].active = @ + 1]
          /\ charged' = [charged EXCEPT ![t] = @ \cup {g}]
      BY <1>11, <2>1, <3>1 DEF Admit
    <3>4. /\ IsFiniteSet(charged'[t])
          /\ Cardinality(charged'[t]) = Cardinality(charged[t]) + 1
      <4>1. IsFiniteSet(charged[t])
        OBVIOUS
      <4>2. charged'[t] = charged[t] \cup {g}
        BY <3>3
      <4>3. /\ IsFiniteSet(charged[t] \cup {g})
            /\ Cardinality(charged[t] \cup {g}) = Cardinality(charged[t]) + 1
        BY <3>2, <4>1, FS_AddElement
      <4> QED
        BY <4>2, <4>3
    <3>5. quotas[t].active < quotas[t].max
      BY <1>11, <2>1, <3>1 DEF Admit, AtLimit
    <3>6. /\ quotas'[t].active = quotas[t].active + 1
          /\ quotas'[t].max = quotas[t].max
          /\ quotas'[t].registered
      BY <2>1, <3>1, <3>3
    <3>7. ASSUME NEW u \in Tenants, u # t
          PROVE  quotas'[u] = quotas[u] /\ charged'[u] = charged[u]
      BY <3>3, <3>7
    <3>8. ASSUME NEW u \in Tenants
          PROVE  /\ IsFiniteSet(charged'[u])
                 /\ Cardinality(charged'[u]) = quotas'[u].active
                 /\ quotas'[u].active <= quotas'[u].max
                 /\ ~quotas'[u].registered => charged'[u] = {}
      <4>1. CASE u = t
        BY <3>4, <3>5, <3>6, <4>1
      <4>2. CASE u # t
        BY <3>7, <4>2
      <4> QED
        BY <4>1, <4>2
    <3> QED
      BY <3>8
  <2>2. CASE ~quotas[tenant[c]].registered
    BY <1>11, <2>2 DEF Admit
  <2> QED
    BY <2>1, <2>2
<1>12. ASSUME NEW c \in Callers, StoreGraph(c) PROVE QuotaCounts'
  BY <1>12 DEF StoreGraph, Goto
<1>13. ASSUME NEW c \in Callers, StoreSubmission(c) PROVE QuotaCounts'
  BY <1>13 DEF StoreSubmission, Goto
<1>14. ASSUME NEW c \in Callers, Allocate(c) PROVE QuotaCounts'
  BY <1>14 DEF Allocate, Goto
<1>15. ASSUME NEW c \in Callers, NEW n \in Nodes, Mark(c, n) PROVE QuotaCounts'
  BY <1>15 DEF Mark, UpdateNodeState
<1>16. ASSUME NEW c \in Callers, Answer(c) PROVE QuotaCounts'
  BY <1>16 DEF Answer, Return
<1>17. CASE UNCHANGED vars
  BY <1>17 DEF vars
<1> HIDE LimitsAssumption, NoTenantAssumption
    DEF Inv, TypeOK, NothingRuns, vars, stores, locals, CallLocals, QuotaCounts
<1> QED
  BY <1>1, <1>2, <1>3, <1>4, <1>5, <1>6, <1>7, <1>8, <1>9, <1>10,
     <1>11, <1>12, <1>13, <1>14, <1>15, <1>16, <1>17
     DEF Next, Call, Proceed

\* A node is marked for a graph that is stored with its request; rows never change.
LEMMA ExecutingStep ==
    ASSUME Inv, TypeOK', [Next]_vars PROVE ExecutingGraphsAreKnown'
<1> USE NoTenantAssumption, NoGraphAssumption
    DEF Inv, TypeOK, NothingRuns, vars, stores, locals, CallLocals, DistinctDraws,
        Submitting, Early, RequestStored, Stored, NoRow, NodeStates, Plain, Executing,
        IsExecuting, ExecutingGraphsAreKnown, RowsMatch
<1>1. ASSUME NEW c \in Callers, NEW g \in GraphIds, NEW request \in Requests,
             Submit(c, g, request)
      PROVE  ExecutingGraphsAreKnown'
  BY <1>1 DEF Submit, Requests, Goto
<1>2. ASSUME NEW c \in Callers, SubmitWithoutCredentials(c) PROVE ExecutingGraphsAreKnown'
  BY <1>2 DEF SubmitWithoutCredentials, Return
<1>3. ASSUME NEW c \in Callers, NEW n \in Nodes, NEW g \in GraphIds,
             HandleNodeFailure(c, n, g)
      PROVE  ExecutingGraphsAreKnown'
  BY <1>3 DEF HandleNodeFailure, UpdateNodeState, Goto
<1>4. ASSUME NEW c \in Callers, NEW n \in Nodes, HandleNodeRejoin(c, n) PROVE ExecutingGraphsAreKnown'
  BY <1>4 DEF HandleNodeRejoin, Rejoin, Return
<1>5. ASSUME NEW c \in Callers, NEW n \in Nodes, NEW tag \in {"Starting", "Ready"},
             RegisterNode(c, n, tag)
      PROVE  ExecutingGraphsAreKnown'
  BY <1>5 DEF RegisterNode, PutNode, Return
<1>6. ASSUME NEW c \in Callers, NEW t \in Tenants, NEW max \in Limits,
             RegisterTenant(c, t, max)
      PROVE  ExecutingGraphsAreKnown'
  BY <1>6 DEF RegisterTenant, Return
<1>7. ASSUME NEW c \in Callers, NEW enabled \in BOOLEAN, SetAuthEnabled(c, enabled)
      PROVE  ExecutingGraphsAreKnown'
  BY <1>7 DEF SetAuthEnabled, Return
<1>8. ASSUME NEW c \in Callers, NEW g \in GraphIds, Cancel(c, g) PROVE ExecutingGraphsAreKnown'
  BY <1>8 DEF Cancel, Return
<1>9. ASSUME NEW c \in Callers, NEW g \in GraphIds, GetGraphStatus(c, g) PROVE ExecutingGraphsAreKnown'
  BY <1>9 DEF GetGraphStatus, Return
<1>10. ASSUME NEW c \in Callers, RejectOverQuota(c) PROVE ExecutingGraphsAreKnown'
  BY <1>10 DEF RejectOverQuota, Return
<1>11. ASSUME NEW c \in Callers, Admit(c) PROVE ExecutingGraphsAreKnown'
  <2>1. CASE quotas[tenant[c]].registered
    BY <1>11, <2>1 DEF Admit, Goto
  <2>2. CASE ~quotas[tenant[c]].registered
    BY <1>11, <2>2 DEF Admit, Goto
  <2> QED
    BY <2>1, <2>2
<1>12. ASSUME NEW c \in Callers, StoreGraph(c) PROVE ExecutingGraphsAreKnown'
  BY <1>12 DEF StoreGraph, Goto
<1>13. ASSUME NEW c \in Callers, StoreSubmission(c) PROVE ExecutingGraphsAreKnown'
  BY <1>13 DEF StoreSubmission, Goto
<1>14. ASSUME NEW c \in Callers, Allocate(c) PROVE ExecutingGraphsAreKnown'
  BY <1>14 DEF Allocate, Goto
<1>15. ASSUME NEW c \in Callers, NEW n \in Nodes, Mark(c, n) PROVE ExecutingGraphsAreKnown'
  BY <1>15 DEF Mark, UpdateNodeState
<1>16. ASSUME NEW c \in Callers, Answer(c) PROVE ExecutingGraphsAreKnown'
  BY <1>16 DEF Answer, Return
<1>17. CASE UNCHANGED vars
  BY <1>17 DEF vars
<1> HIDE NoTenantAssumption, NoGraphAssumption
    DEF Inv, TypeOK, NothingRuns, vars, stores, locals, CallLocals, DistinctDraws,
        Submitting, Early, RequestStored, Stored, NoRow, NodeStates, Plain, Executing,
        IsExecuting, ExecutingGraphsAreKnown, RowsMatch
<1> QED
  BY <1>1, <1>2, <1>3, <1>4, <1>5, <1>6, <1>7, <1>8, <1>9, <1>10,
     <1>11, <1>12, <1>13, <1>14, <1>15, <1>16, <1>17
     DEF Next, Call, Proceed

-----------------------------------------------------------------------------

LEMMA InitInv == Init => Inv
<1> SUFFICES ASSUME Init PROVE Inv
  OBVIOUS
<1> USE NodesAssumption, NoGraphAssumption, NoTenantAssumption DEF Init
<1>1. TypeOK
  BY DEF ClusterInit, TypeOK, NoRow, NoQuota, NodeStates, Tags, Plain
<1>2. NothingRuns /\ RowsMatch /\ ~\E g \in GraphIds : Stored(g)
  BY DEF NothingRuns, RowsMatch, Stored, NoRow
<1>3. CallLocals /\ DistinctDraws
  BY DEF CallLocals, DistinctDraws, Early
<1>4. ChargedGraphsExist
  BY DEF ChargedGraphsExist
<1>5. QuotaCounts
  BY FS_EmptySet DEF QuotaCounts, NoQuota
<1>6. ExecutingGraphsAreKnown
  BY DEF ExecutingGraphsAreKnown, ClusterInit, Plain, IsExecuting
<1> QED
  BY <1>1, <1>2, <1>3, <1>4, <1>5, <1>6 DEF Inv

\* The inductive invariant holds in every reachable state.
THEOREM Invariance == Spec => []Inv
<1>1. Init => Inv
  BY InitInv
<1>2. Inv /\ [Next]_vars => Inv'
  <2> SUFFICES ASSUME Inv, [Next]_vars PROVE Inv'
    OBVIOUS
  <2>1. TypeOK'
    BY TypeStep DEF Inv
  <2> QED
    BY <2>1, NothingRunsStep, LocalsStep, DrawsStep, RowsStep, ChargedStep,
       CountsStep, ExecutingStep DEF Inv
<1> QED
  BY <1>1, <1>2, PTL DEF Spec

\* The node table, the stores and the locals of every call stay well-typed.
THEOREM TypeCorrect == Spec => []TypeOK
BY Invariance, PTL DEF Inv

\* A tenant never has more graphs admitted under its quota than the quota's
\* limit: the check and the increment are one critical section.
THEOREM QuotaHolds == Spec => []QuotaBoundsGraphs
<1>1. Inv => QuotaBoundsGraphs
  BY DEF Inv, QuotaCounts, QuotaBoundsGraphs
<1> QED
  BY <1>1, Invariance, PTL

\* Every slot taken from a quota belongs to a graph that is stored, or that its
\* submission is about to store.
THEOREM NoSlotIsLost == Spec => []ChargedGraphsExist
BY Invariance, PTL DEF Inv

\* A node marked Executing names a graph that is stored with its request.
THEOREM NodesExecuteKnownGraphs == Spec => []ExecutingGraphsAreKnown
BY Invariance, PTL DEF Inv

\* No graph of NodeControl is ever Running, so its cancel refuses every graph.
THEOREM CancelRefusesAll == Spec => []NothingRuns
BY Invariance, PTL DEF Inv

-----------------------------------------------------------------------------
(* When only ready nodes are claimed: what allocate_nodes would have to promise. *)

\* No node is allocated to two calls at once.
AllocationsAreApart ==
    \A c, d \in Callers : c # d => todo[c] \cap todo[d] = {}

\* Registering n anew as Starting, or reporting its failure, makes it unready.
Loses(d, n) ==
    \/ RegisterNode(d, n, "Starting")
    \/ \E g \in GraphIds : HandleNodeFailure(d, n, g)

\* No node becomes unready while another call is about to mark it.
AllocatedNodesStay ==
    [][\A c, d \in Callers : c # d => \A n \in todo[c] : ~Loses(d, n)]_vars

\* Calls made one at a time.
SerialCalls == \A c, d \in Callers : c = d

\* What a call is about to mark is still ready.
PendingMarksReady ==
    \A c \in Callers : pc[c] = "marking" => \A n \in todo[c] : nodes[n].tag = "Ready"

\* Only another call can take a node away between allocation and marking, by marking
\* it first or by making it unready: rejoining, in particular, does no harm.
LEMMA PendingStep ==
    ASSUME Inv, PendingMarksReady, [Next]_vars, AllocationsAreApart,
           \A c, d \in Callers : c # d => \A n \in todo[c] : ~Loses(d, n)
    PROVE  PendingMarksReady'
<1> USE NoTenantAssumption
    DEF AllocationsAreApart, Inv, TypeOK, NothingRuns, CallLocals, PendingMarksReady,
        Allocations, ReadyNodes, Plain, Executing, vars, stores, locals
<1>1. ASSUME NEW c \in Callers, NEW g \in GraphIds, NEW request \in Requests,
             Submit(c, g, request)
      PROVE  PendingMarksReady'
  BY <1>1 DEF Submit, Requests, Goto
<1>2. ASSUME NEW c \in Callers, SubmitWithoutCredentials(c) PROVE PendingMarksReady'
  BY <1>2 DEF SubmitWithoutCredentials, Return
<1>3. ASSUME NEW c \in Callers, NEW n \in Nodes, NEW g \in GraphIds,
             HandleNodeFailure(c, n, g)
      PROVE  PendingMarksReady'
  <2>1. /\ pc[c] = "idle" /\ pc' = [pc EXCEPT ![c] = "allocate"] /\ todo' = todo
        /\ nodes' = [nodes EXCEPT ![n] = IF nodes[n].tag = "Unknown" THEN nodes[n] ELSE Plain("Failed")]
    BY <1>3 DEF HandleNodeFailure, UpdateNodeState, Goto
  <2>2. \A d \in Callers : d # c => n \notin todo[d]
    BY <1>3 DEF Loses
  <2> QED
    BY <2>1, <2>2
<1>4. ASSUME NEW c \in Callers, NEW n \in Nodes, HandleNodeRejoin(c, n) PROVE PendingMarksReady'
  BY <1>4 DEF HandleNodeRejoin, Rejoin, Return
<1>5. ASSUME NEW c \in Callers, NEW n \in Nodes, NEW tag \in {"Starting", "Ready"},
             RegisterNode(c, n, tag)
      PROVE  PendingMarksReady'
  <2>1. /\ pc[c] = "idle" /\ pc' = [pc EXCEPT ![c] = "idle"] /\ todo' = [todo EXCEPT ![c] = {}]
        /\ nodes' = [nodes EXCEPT ![n] = Plain(tag)]
    BY <1>5 DEF RegisterNode, PutNode, Return
  <2>2. tag = "Ready" \/ \A d \in Callers : d # c => n \notin todo[d]
    BY <1>5 DEF Loses
  <2> QED
    BY <2>1, <2>2
<1>6. ASSUME NEW c \in Callers, NEW t \in Tenants, NEW max \in Limits,
             RegisterTenant(c, t, max)
      PROVE  PendingMarksReady'
  BY <1>6 DEF RegisterTenant, Return
<1>7. ASSUME NEW c \in Callers, NEW enabled \in BOOLEAN, SetAuthEnabled(c, enabled)
      PROVE  PendingMarksReady'
  BY <1>7 DEF SetAuthEnabled, Return
<1>8. ASSUME NEW c \in Callers, NEW g \in GraphIds, Cancel(c, g) PROVE PendingMarksReady'
  <2>1. graphs[g].status # "Running"
    OBVIOUS
  <2>2. /\ nodes' = nodes /\ pc' = [pc EXCEPT ![c] = "idle"]
        /\ todo' = [todo EXCEPT ![c] = {}]
    BY <1>8, <2>1 DEF Cancel, Return
  <2> QED
    BY <2>2
<1>9. ASSUME NEW c \in Callers, NEW g \in GraphIds, GetGraphStatus(c, g) PROVE PendingMarksReady'
  BY <1>9 DEF GetGraphStatus, Return
<1>10. ASSUME NEW c \in Callers, RejectOverQuota(c) PROVE PendingMarksReady'
  BY <1>10 DEF RejectOverQuota, Return
<1>11. ASSUME NEW c \in Callers, Admit(c) PROVE PendingMarksReady'
  <2>1. CASE quotas[tenant[c]].registered
    BY <1>11, <2>1 DEF Admit, Goto
  <2>2. CASE ~quotas[tenant[c]].registered
    BY <1>11, <2>2 DEF Admit, Goto
  <2> QED
    BY <2>1, <2>2
<1>12. ASSUME NEW c \in Callers, StoreGraph(c) PROVE PendingMarksReady'
  BY <1>12 DEF StoreGraph, Goto
<1>13. ASSUME NEW c \in Callers, StoreSubmission(c) PROVE PendingMarksReady'
  BY <1>13 DEF StoreSubmission, Goto
<1>14. ASSUME NEW c \in Callers, Allocate(c) PROVE PendingMarksReady'
  BY <1>14 DEF Allocate, Goto
<1>15. ASSUME NEW c \in Callers, NEW n \in Nodes, Mark(c, n) PROVE PendingMarksReady'
  BY <1>15 DEF Mark, UpdateNodeState
<1>16. ASSUME NEW c \in Callers, Answer(c) PROVE PendingMarksReady'
  BY <1>16 DEF Answer, Return
<1>17. CASE UNCHANGED vars
  BY <1>17 DEF vars
<1> HIDE NoTenantAssumption
    DEF AllocationsAreApart, Inv, TypeOK, NothingRuns, CallLocals, PendingMarksReady,
        Allocations, ReadyNodes, Plain, Executing, vars, stores, locals
<1> QED
  BY <1>1, <1>2, <1>3, <1>4, <1>5, <1>6, <1>7, <1>8, <1>9, <1>10,
     <1>11, <1>12, <1>13, <1>14, <1>15, <1>16, <1>17
     DEF Next, Call, Proceed

\* The gap between allocate_nodes and update_node_state is all that is wrong: if what
\* one call was given is given to no other and not made unready until it is marked,
\* only ready nodes are claimed, however many calls overlap.
THEOREM ApartAllocationsClaimReadyNodes ==
    Spec /\ []AllocationsAreApart /\ AllocatedNodesStay => OnlyReadyNodesAreClaimed
<1> DEFINE Stay == \A c, d \in Callers : c # d => \A n \in todo[c] : ~Loses(d, n)
<1>1. Init => PendingMarksReady
  BY DEF Init, PendingMarksReady
<1>2. Inv /\ PendingMarksReady /\ AllocationsAreApart /\ [Next]_vars /\ [Stay]_vars
      => PendingMarksReady'
  <2>1. CASE Stay
    BY <2>1, PendingStep
  <2>2. ASSUME UNCHANGED vars, PendingMarksReady PROVE PendingMarksReady'
    BY <2>2 DEF vars, locals, PendingMarksReady
  <2> QED
    BY <2>1, <2>2
<1> DEFINE Claims ==
      \A n \in Nodes :
        nodes'[n] # nodes[n] /\ nodes'[n].tag = "Executing" => nodes[n].tag = "Ready"
<1>3. Inv /\ PendingMarksReady /\ [Next]_vars => [Claims]_vars
  <2> SUFFICES ASSUME Inv, PendingMarksReady, Next PROVE Claims
    OBVIOUS
  <2>1. ASSUME UNCHANGED nodes PROVE Claims
    BY <2>1
  <2>2. ASSUME NEW c \in Callers, NEW n \in Nodes, Mark(c, n) PROVE Claims
    BY <2>2 DEF Mark, UpdateNodeState, PendingMarksReady, Inv, TypeOK
  <2>3. ASSUME NEW n \in Nodes, NEW state \in NodeStates, state.tag # "Executing",
               UpdateNodeState(n, state)
        PROVE  Claims
    BY <2>3 DEF UpdateNodeState, Inv, TypeOK
  <2>4. ASSUME NEW c \in Callers, NEW g \in GraphIds, Cancel(c, g) PROVE UNCHANGED nodes
    BY <2>4 DEF Cancel, Inv, NothingRuns
  <2>5. ASSUME NEW c \in Callers, NEW n \in Nodes, NEW g \in GraphIds,
               HandleNodeFailure(c, n, g)
        PROVE  Claims
    BY <2>3, <2>5 DEF HandleNodeFailure, Plain, NodeStates, Tags
  <2>6. ASSUME NEW n \in Nodes, NEW tag \in {"Starting", "Ready"},
               PutNode(n, tag) \/ Rejoin(n)
        PROVE  Claims
    BY <2>6 DEF PutNode, Rejoin, Plain, Inv, TypeOK
  <2> QED
    BY <2>1, <2>2, <2>4, <2>5, <2>6
       DEF Next, Call, Proceed, Submit, SubmitWithoutCredentials, RejectOverQuota,
           Admit, StoreGraph, StoreSubmission, Allocate, Answer, HandleNodeRejoin,
           RegisterNode, RegisterTenant, SetAuthEnabled, GetGraphStatus
<1> QED
  BY <1>1, <1>2, <1>3, Invariance, PTL DEF Spec, OnlyReadyNodesAreClaimed, AllocatedNodesStay

\* When calls do not overlap, a node is claimed only while it is Ready: the gap is
\* harmless without concurrency.
THEOREM SerialCallsClaimReadyNodes ==
    ASSUME SerialCalls PROVE Spec => OnlyReadyNodesAreClaimed
<1>1. AllocationsAreApart
  BY SerialCalls DEF SerialCalls, AllocationsAreApart
<1>2. [\A c, d \in Callers : c # d => \A n \in todo[c] : ~Loses(d, n)]_vars
  BY SerialCalls DEF SerialCalls
<1> QED
  BY <1>1, <1>2, ApartAllocationsClaimReadyNodes, PTL DEF AllocatedNodesStay

=============================================================================
