------------------------ MODULE GraphEngine_proofs ------------------------
(***************************************************************************)
(* Theorems about GraphEngine, for any number of clients, graphs and keys. *)
(*                                                                         *)
(* Inv is the inductive invariant.  CallLocals says what a call knows at   *)
(* each point; CreatedHistory is why a retrying client is answered from    *)
(* the key map: whatever it created is registered before it is idle again. *)
(* The last part is about behaviors in which submissions take turns.       *)
(***************************************************************************)
EXTENDS GraphEngine, TLAPS

\* What holds of the locals of a call between two of its steps.
CallLocals ==
    \A c \in Clients :
        /\ pc[c] # "idle" => graph[c] \in GraphIds
        /\ pc[c] = "create" => key[c] \in KeysOf[c] \cup {NoKey}
        /\ pc[c] = "register" => key[c] \in KeysOf[c]
        /\ pc[c] \in {"register", "start", "finish"} => Stored(graph[c])

\* A creation is registered, or its client is about to register it; and a
\* client about to create has created nothing for that key.
CreatedHistory ==
    /\ \A s \in created :
        /\ s[2] \in KeysOf[s[1]]
        /\ \/ idempotencyKeys[s[2]] # None
           \/ pc[s[1]] = "register" /\ key[s[1]] = s[2]
    /\ \A c \in Clients, s \in created :
        pc[c] = "create" /\ key[c] # NoKey => ~(s[1] = c /\ s[2] = key[c])

Inv ==
    /\ TypeOK
    /\ CallLocals
    /\ HandedOutIdsResolve
    /\ CreatedHistory
    /\ OneGraphPerClientAndKey
    /\ RunningHasExecutor

-----------------------------------------------------------------------------

LEMMA InitInv == Init => Inv
BY KeysAssumption, NoneAssumption, GraphIdsAssumption
   DEF Init, Inv, TypeOK, CallLocals, HandedOutIdsResolve, CreatedHistory,
       OneGraphPerClientAndKey, RunningHasExecutor, Outcomes, Status, Stored

\* Every step preserves the types.
LEMMA TypeStep == TypeOK /\ CallLocals /\ [Next]_vars => TypeOK'
<1> SUFFICES ASSUME TypeOK, CallLocals, [Next]_vars PROVE TypeOK'
  OBVIOUS
<1> USE KeysAssumption DEF TypeOK, CallLocals, Outcomes, Status
<1>1. ASSUME NEW c \in Clients, NEW k \in KeysOf[c], SubmitKnown(c, k) PROVE TypeOK'
  <2>1. k \in Keys /\ idempotencyKeys[k] \in GraphIds
    BY <1>1 DEF SubmitKnown
  <2> QED
    BY <1>1, <2>1 DEF SubmitKnown, Return
<1>2. ASSUME NEW c \in Clients, NEW g \in GraphIds, NEW k \in KeysOf[c] \cup {NoKey},
             SubmitNew(c, g, k)
      PROVE  TypeOK'
  BY <1>2 DEF SubmitNew
<1>3. ASSUME NEW c \in Clients, Create(c) PROVE TypeOK'
  <2>1. graph[c] \in GraphIds
    BY <1>3 DEF Create
  <2>2. CASE key[c] = NoKey
    BY <1>3, <2>1, <2>2 DEF Create, CreateGraph, Return
  <2>3. CASE key[c] # NoKey
    BY <1>3, <2>1, <2>3 DEF Create, CreateGraph
  <2> QED
    BY <2>2, <2>3
<1>4. ASSUME NEW c \in Clients, Register(c) PROVE TypeOK'
  <2>1. graph[c] \in GraphIds /\ key[c] \in Keys
    BY <1>4 DEF Register
  <2> QED
    BY <1>4, <2>1 DEF Register, RegisterIdempotency, Return
<1>5. ASSUME NEW c \in Clients, NEW g \in GraphIds, Execute(c, g) PROVE TypeOK'
  BY <1>5 DEF Execute, Return
<1>6. ASSUME NEW c \in Clients, Start(c) PROVE TypeOK'
  BY <1>6 DEF Start, UpdateStatus, Return
<1>7. ASSUME NEW c \in Clients, Finish(c) PROVE TypeOK'
  BY <1>7 DEF Finish, UpdateStatus, Return
<1>8. ASSUME NEW c \in Clients, NEW g \in GraphIds, Cancel(c, g) PROVE TypeOK'
  BY <1>8 DEF Cancel, UpdateStatus, Return
<1>9. ASSUME NEW c \in Clients, NEW g \in GraphIds, GetStatus(c, g) PROVE TypeOK'
  BY <1>9 DEF GetStatus, Return
<1>10. CASE UNCHANGED vars
  BY <1>10 DEF vars
<1> QED
  BY <1>1, <1>2, <1>3, <1>4, <1>5, <1>6, <1>7, <1>8, <1>9, <1>10
     DEF Next, Call, Proceed

\* Nothing removes a graph, so what a call found stored stays stored.
LEMMA LocalsStep == Inv /\ TypeOK' /\ [Next]_vars => CallLocals'
<1> SUFFICES ASSUME Inv, TypeOK', [Next]_vars PROVE CallLocals'
  OBVIOUS
<1> USE KeysAssumption, NoneAssumption DEF Inv, TypeOK, CallLocals, Stored, Status
<1>1. ASSUME NEW c \in Clients, NEW k \in KeysOf[c], SubmitKnown(c, k) PROVE CallLocals'
  BY <1>1 DEF SubmitKnown, Return
<1>2. ASSUME NEW c \in Clients, NEW g \in GraphIds,
             NEW k \in KeysOf[c] \cup {NoKey},
             SubmitNew(c, g, k) PROVE CallLocals'
  BY <1>2 DEF SubmitNew
<1>3. ASSUME NEW c \in Clients, Create(c) PROVE CallLocals'
  BY <1>3 DEF Create, CreateGraph, Return
<1>4. ASSUME NEW c \in Clients, Register(c) PROVE CallLocals'
  BY <1>4 DEF Register, RegisterIdempotency, Return
<1>5. ASSUME NEW c \in Clients, NEW g \in GraphIds, Execute(c, g) PROVE CallLocals'
  BY <1>5 DEF Execute, Return
<1>6. ASSUME NEW c \in Clients, Start(c) PROVE CallLocals'
  BY <1>6 DEF Start, UpdateStatus, Return
<1>7. ASSUME NEW c \in Clients, Finish(c) PROVE CallLocals'
  BY <1>7 DEF Finish, UpdateStatus, Return
<1>8. ASSUME NEW c \in Clients, NEW g \in GraphIds, Cancel(c, g) PROVE CallLocals'
  BY <1>8 DEF Cancel, UpdateStatus, Return
<1>9. ASSUME NEW c \in Clients, NEW g \in GraphIds, GetStatus(c, g) PROVE CallLocals'
  BY <1>9 DEF GetStatus, Return
<1>10. CASE UNCHANGED vars
  BY <1>10 DEF vars
<1> QED
  BY <1>1, <1>2, <1>3, <1>4, <1>5, <1>6, <1>7, <1>8, <1>9, <1>10
     DEF Next, Call, Proceed

\* An id is handed out only by a step that finds its graph stored.
LEMMA ResolveStep == Inv /\ TypeOK' /\ [Next]_vars => HandedOutIdsResolve'
<1> SUFFICES ASSUME Inv, TypeOK', [Next]_vars PROVE HandedOutIdsResolve'
  OBVIOUS
<1> USE KeysAssumption, NoneAssumption, GraphIdsAssumption DEF Inv, TypeOK, CallLocals, HandedOutIdsResolve, Stored, Status, Outcomes
<1>1. ASSUME NEW c \in Clients, NEW k \in KeysOf[c], SubmitKnown(c, k) PROVE HandedOutIdsResolve'
  BY <1>1 DEF SubmitKnown, Return
<1>2. ASSUME NEW c \in Clients, NEW g \in GraphIds,
             NEW k \in KeysOf[c] \cup {NoKey},
             SubmitNew(c, g, k) PROVE HandedOutIdsResolve'
  BY <1>2 DEF SubmitNew
<1>3. ASSUME NEW c \in Clients, Create(c) PROVE HandedOutIdsResolve'
  BY <1>3 DEF Create, CreateGraph, Return
<1>4. ASSUME NEW c \in Clients, Register(c) PROVE HandedOutIdsResolve'
  BY <1>4 DEF Register, RegisterIdempotency, Return
<1>5. ASSUME NEW c \in Clients, NEW g \in GraphIds, Execute(c, g) PROVE HandedOutIdsResolve'
  BY <1>5 DEF Execute, Return
<1>6. ASSUME NEW c \in Clients, Start(c) PROVE HandedOutIdsResolve'
  BY <1>6 DEF Start, UpdateStatus, Return
<1>7. ASSUME NEW c \in Clients, Finish(c) PROVE HandedOutIdsResolve'
  BY <1>7 DEF Finish, UpdateStatus, Return
<1>8. ASSUME NEW c \in Clients, NEW g \in GraphIds, Cancel(c, g) PROVE HandedOutIdsResolve'
  BY <1>8 DEF Cancel, UpdateStatus, Return
<1>9. ASSUME NEW c \in Clients, NEW g \in GraphIds, GetStatus(c, g) PROVE HandedOutIdsResolve'
  BY <1>9 DEF GetStatus, Return
<1>10. CASE UNCHANGED vars
  BY <1>10 DEF vars
<1> QED
  BY <1>1, <1>2, <1>3, <1>4, <1>5, <1>6, <1>7, <1>8, <1>9, <1>10
     DEF Next, Call, Proceed

\* Register is the only way out of "register", and it binds the key.
LEMMA HistoryStep == Inv /\ TypeOK' /\ [Next]_vars => CreatedHistory'
<1> SUFFICES ASSUME Inv, TypeOK', [Next]_vars PROVE CreatedHistory'
  OBVIOUS
<1> USE KeysAssumption, NoneAssumption, GraphIdsAssumption DEF Inv, TypeOK, CallLocals, CreatedHistory, Outcomes
<1>1. ASSUME NEW c \in Clients, NEW k \in KeysOf[c], SubmitKnown(c, k) PROVE CreatedHistory'
  BY <1>1 DEF SubmitKnown, Return
<1>2. ASSUME NEW c \in Clients, NEW g \in GraphIds,
             NEW k \in KeysOf[c] \cup {NoKey},
             SubmitNew(c, g, k) PROVE CreatedHistory'
  BY <1>2 DEF SubmitNew
<1>3. ASSUME NEW c \in Clients, Create(c) PROVE CreatedHistory'
  BY <1>3 DEF Create, CreateGraph, Return
<1>4. ASSUME NEW c \in Clients, Register(c) PROVE CreatedHistory'
  BY <1>4 DEF Register, RegisterIdempotency, Return
<1>5. ASSUME NEW c \in Clients, NEW g \in GraphIds, Execute(c, g) PROVE CreatedHistory'
  BY <1>5 DEF Execute, Return
<1>6. ASSUME NEW c \in Clients, Start(c) PROVE CreatedHistory'
  BY <1>6 DEF Start, UpdateStatus, Return
<1>7. ASSUME NEW c \in Clients, Finish(c) PROVE CreatedHistory'
  BY <1>7 DEF Finish, UpdateStatus, Return
<1>8. ASSUME NEW c \in Clients, NEW g \in GraphIds, Cancel(c, g) PROVE CreatedHistory'
  BY <1>8 DEF Cancel, UpdateStatus, Return
<1>9. ASSUME NEW c \in Clients, NEW g \in GraphIds, GetStatus(c, g) PROVE CreatedHistory'
  BY <1>9 DEF GetStatus, Return
<1>10. CASE UNCHANGED vars
  BY <1>10 DEF vars
<1> QED
  BY <1>1, <1>2, <1>3, <1>4, <1>5, <1>6, <1>7, <1>8, <1>9, <1>10
     DEF Next, Call, Proceed

\* Only Create extends the history, with a key its client has not used.
LEMMA OneGraphStep == Inv /\ TypeOK' /\ [Next]_vars => OneGraphPerClientAndKey'
<1> SUFFICES ASSUME Inv, TypeOK', [Next]_vars PROVE OneGraphPerClientAndKey'
  OBVIOUS
<1> USE KeysAssumption DEF Inv, TypeOK, CallLocals, CreatedHistory, OneGraphPerClientAndKey
<1>1. ASSUME NEW c \in Clients, NEW k \in KeysOf[c], SubmitKnown(c, k) PROVE OneGraphPerClientAndKey'
  BY <1>1 DEF SubmitKnown, Return
<1>2. ASSUME NEW c \in Clients, NEW g \in GraphIds,
             NEW k \in KeysOf[c] \cup {NoKey},
             SubmitNew(c, g, k) PROVE OneGraphPerClientAndKey'
  BY <1>2 DEF SubmitNew
<1>3. ASSUME NEW c \in Clients, Create(c) PROVE OneGraphPerClientAndKey'
  BY <1>3 DEF Create, CreateGraph, Return
<1>4. ASSUME NEW c \in Clients, Register(c) PROVE OneGraphPerClientAndKey'
  BY <1>4 DEF Register, RegisterIdempotency, Return
<1>5. ASSUME NEW c \in Clients, NEW g \in GraphIds, Execute(c, g) PROVE OneGraphPerClientAndKey'
  BY <1>5 DEF Execute, Return
<1>6. ASSUME NEW c \in Clients, Start(c) PROVE OneGraphPerClientAndKey'
  BY <1>6 DEF Start, UpdateStatus, Return
<1>7. ASSUME NEW c \in Clients, Finish(c) PROVE OneGraphPerClientAndKey'
  BY <1>7 DEF Finish, UpdateStatus, Return
<1>8. ASSUME NEW c \in Clients, NEW g \in GraphIds, Cancel(c, g) PROVE OneGraphPerClientAndKey'
  BY <1>8 DEF Cancel, UpdateStatus, Return
<1>9. ASSUME NEW c \in Clients, NEW g \in GraphIds, GetStatus(c, g) PROVE OneGraphPerClientAndKey'
  BY <1>9 DEF GetStatus, Return
<1>10. CASE UNCHANGED vars
  BY <1>10 DEF vars
<1> QED
  BY <1>1, <1>2, <1>3, <1>4, <1>5, <1>6, <1>7, <1>8, <1>9, <1>10
     DEF Next, Call, Proceed

\* Finish takes an executor away, and leaves its graph Completed.
LEMMA RunningStep == Inv /\ TypeOK' /\ [Next]_vars => RunningHasExecutor'
<1> SUFFICES ASSUME Inv, TypeOK', [Next]_vars PROVE RunningHasExecutor'
  OBVIOUS
<1> USE NoneAssumption DEF Inv, TypeOK, CallLocals, RunningHasExecutor, Stored, Status
<1>1. ASSUME NEW c \in Clients, NEW k \in KeysOf[c], SubmitKnown(c, k) PROVE RunningHasExecutor'
  BY <1>1 DEF SubmitKnown, Return
<1>2. ASSUME NEW c \in Clients, NEW g \in GraphIds,
             NEW k \in KeysOf[c] \cup {NoKey},
             SubmitNew(c, g, k) PROVE RunningHasExecutor'
  BY <1>2 DEF SubmitNew
<1>3. ASSUME NEW c \in Clients, Create(c) PROVE RunningHasExecutor'
  BY <1>3 DEF Create, CreateGraph, Return
<1>4. ASSUME NEW c \in Clients, Register(c) PROVE RunningHasExecutor'
  BY <1>4 DEF Register, RegisterIdempotency, Return
<1>5. ASSUME NEW c \in Clients, NEW g \in GraphIds, Execute(c, g) PROVE RunningHasExecutor'
  BY <1>5 DEF Execute, Return
<1>6. ASSUME NEW c \in Clients, Start(c) PROVE RunningHasExecutor'
  BY <1>6 DEF Start, UpdateStatus, Return
<1>7. ASSUME NEW c \in Clients, Finish(c) PROVE RunningHasExecutor'
  BY <1>7 DEF Finish, UpdateStatus, Return
<1>8. ASSUME NEW c \in Clients, NEW g \in GraphIds, Cancel(c, g) PROVE RunningHasExecutor'
  BY <1>8 DEF Cancel, UpdateStatus, Return
<1>9. ASSUME NEW c \in Clients, NEW g \in GraphIds, GetStatus(c, g) PROVE RunningHasExecutor'
  BY <1>9 DEF GetStatus, Return
<1>10. CASE UNCHANGED vars
  BY <1>10 DEF vars
<1> QED
  BY <1>1, <1>2, <1>3, <1>4, <1>5, <1>6, <1>7, <1>8, <1>9, <1>10
     DEF Next, Call, Proceed

-----------------------------------------------------------------------------

\* The inductive invariant holds in every reachable state.
THEOREM Invariance == Spec => []Inv
<1>1. Init => Inv
  BY InitInv
<1>2. Inv /\ [Next]_vars => Inv'
  <2> SUFFICES ASSUME Inv, [Next]_vars PROVE Inv'
    OBVIOUS
  <2>1. TypeOK'
    BY TypeStep DEF Inv
  <2> QED
    BY <2>1, LocalsStep, ResolveStep, HistoryStep, OneGraphStep, RunningStep DEF Inv
<1> QED
  BY <1>1, <1>2, PTL DEF Spec

\* The store, the key map and the locals of every call stay well-typed.
THEOREM TypeCorrect == Spec => []TypeOK
BY Invariance, PTL DEF Inv

\* Whatever id submit answers with, or a key stands for, can be looked up:
\* create_graph comes before register_idempotency and nothing removes a graph.
THEOREM IdsResolve == Spec => []HandedOutIdsResolve
BY Invariance, PTL DEF Inv

\* A client's retries with one key never create a second graph, however many
\* clients race with the same key.
THEOREM RetriesCreateOnce == Spec => []OneGraphPerClientAndKey
BY Invariance, PTL DEF Inv

\* A graph stored as Running has an execution that will overwrite the status.
THEOREM RunningIsOwned == Spec => []RunningHasExecutor
BY Invariance, PTL DEF Inv

\* A key that only one client uses never has more than one graph, whatever
\* other clients do with other keys.
THEOREM PrivateKeysAreUnique ==
    Spec => [](\A s, t \in created : s[2] = t[2] /\ s[2] \in PrivateKeys => s[3] = t[3])
<1>1. Inv => \A s, t \in created : s[2] = t[2] /\ s[2] \in PrivateKeys => s[3] = t[3]
  <2> SUFFICES ASSUME Inv, NEW s \in created, NEW t \in created,
                      s[2] = t[2], s[2] \in PrivateKeys
               PROVE  s[3] = t[3]
    OBVIOUS
  <2>1. s[1] \in Clients /\ t[1] \in Clients
    BY DEF Inv, TypeOK
  <2>2. s[2] \in KeysOf[s[1]] /\ t[2] \in KeysOf[t[1]]
    BY DEF Inv, CreatedHistory
  <2>3. s[1] = t[1]
    BY <2>1, <2>2 DEF PrivateKeys
  <2> QED
    BY <2>3 DEF Inv, OneGraphPerClientAndKey
<1> QED
  BY <1>1, Invariance, PTL

-----------------------------------------------------------------------------
(* Refinement of GetOrCreate. *)

\* Between calls, and inside execute, a client holds no key.
IdleHasNoKey ==
    \A c \in Clients : pc[c] \in {"idle", "start", "finish"} => key[c] = NoKey

LEMMA NoKeyStep ==
    ASSUME Inv, IdleHasNoKey, [Next]_vars PROVE IdleHasNoKey'
<1> USE DEF IdleHasNoKey, Inv, TypeOK
<1>1. ASSUME NEW c \in Clients, NEW k \in KeysOf[c], SubmitKnown(c, k)
      PROVE  IdleHasNoKey'
  BY <1>1 DEF SubmitKnown, Return
<1>2. ASSUME NEW c \in Clients, NEW g \in GraphIds, NEW k \in KeysOf[c] \cup {NoKey}, SubmitNew(c, g, k)
      PROVE  IdleHasNoKey'
  BY <1>2 DEF SubmitNew
<1>3. ASSUME NEW c \in Clients, Create(c)
      PROVE  IdleHasNoKey'
  BY <1>3 DEF Create, Return
<1>4. ASSUME NEW c \in Clients, Register(c)
      PROVE  IdleHasNoKey'
  BY <1>4 DEF Register, Return
<1>5. ASSUME NEW c \in Clients, NEW g \in GraphIds, Execute(c, g)
      PROVE  IdleHasNoKey'
  BY <1>5 DEF Execute, Return
<1>6. ASSUME NEW c \in Clients, Start(c)
      PROVE  IdleHasNoKey'
  BY <1>6 DEF Start, Return
<1>7. ASSUME NEW c \in Clients, Finish(c)
      PROVE  IdleHasNoKey'
  BY <1>7 DEF Finish, Return
<1>8. ASSUME NEW c \in Clients, NEW g \in GraphIds, Cancel(c, g)
      PROVE  IdleHasNoKey'
  BY <1>8 DEF Cancel, Return
<1>9. ASSUME NEW c \in Clients, NEW g \in GraphIds, GetStatus(c, g)
      PROVE  IdleHasNoKey'
  BY <1>9 DEF GetStatus, Return
<1>10. CASE UNCHANGED vars
  BY <1>10 DEF vars
<1> QED
  BY <1>1, <1>2, <1>3, <1>4, <1>5, <1>6, <1>7, <1>8, <1>9, <1>10
     DEF Next, Call, Proceed

\* A private key that a call is about to bind is still unbound.
KeyInHandUnbound ==
    \A c \in Clients :
        pc[c] \in {"create", "register"} /\ key[c] \in PrivateKeys
            => idempotencyKeys[key[c]] = None

\* Only the client that owns a key binds it, and it does one call at a time.
LEMMA UnboundStep ==
    ASSUME Inv, Inv', KeyInHandUnbound, [Next]_vars
    PROVE  KeyInHandUnbound'
<1> USE KeysAssumption DEF PrivateKeys, KeyInHandUnbound, Inv, TypeOK, CallLocals
<1>1. ASSUME NEW c \in Clients, NEW k \in KeysOf[c], SubmitKnown(c, k)
      PROVE  KeyInHandUnbound'
  BY <1>1 DEF SubmitKnown, Return
<1>2. ASSUME NEW c \in Clients, NEW g \in GraphIds,
             NEW k \in KeysOf[c] \cup {NoKey},
             SubmitNew(c, g, k)
      PROVE  KeyInHandUnbound'
  BY <1>2 DEF SubmitNew
<1>3. ASSUME NEW c \in Clients, Create(c)
      PROVE  KeyInHandUnbound'
  BY <1>3 DEF Create, CreateGraph, Return
<1>4. ASSUME NEW c \in Clients, Register(c)
      PROVE  KeyInHandUnbound'
  BY <1>4 DEF Register, RegisterIdempotency, Return
<1>5. ASSUME NEW c \in Clients, NEW g \in GraphIds, Execute(c, g)
      PROVE  KeyInHandUnbound'
  BY <1>5 DEF Execute, Return
<1>6. ASSUME NEW c \in Clients, Start(c)
      PROVE  KeyInHandUnbound'
  BY <1>6 DEF Start, UpdateStatus, Return
<1>7. ASSUME NEW c \in Clients, Finish(c)
      PROVE  KeyInHandUnbound'
  BY <1>7 DEF Finish, UpdateStatus, Return
<1>8. ASSUME NEW c \in Clients, NEW g \in GraphIds, Cancel(c, g)
      PROVE  KeyInHandUnbound'
  BY <1>8 DEF Cancel, UpdateStatus, Return
<1>9. ASSUME NEW c \in Clients, NEW g \in GraphIds, GetStatus(c, g)
      PROVE  KeyInHandUnbound'
  BY <1>9 DEF GetStatus, Return
<1>10. CASE UNCHANGED vars
  BY <1>10 DEF vars
<1> QED
  BY <1>1, <1>2, <1>3, <1>4, <1>5, <1>6, <1>7, <1>8, <1>9, <1>10
     DEF Next, Call, Proceed

\* Every step of the engine is a step of the promise or changes nothing it sees.
LEMMA PromiseStep ==
    ASSUME Inv, IdleHasNoKey, KeyInHandUnbound, [Next]_vars
    PROVE  [Promise!Next]_(Promise!vars)
<1> DEFINE Answer == [c \in Clients |-> IF reply[c] \in GraphIds THEN reply[c] ELSE None]
<1> DEFINE Request == [c \in Clients |-> IF key[c] \in PrivateKeys THEN key[c] ELSE NoKey]
<1> DEFINE Binding == [k \in PrivateKeys |-> idempotencyKeys[k]]
<1> USE KeysAssumption, NoneAssumption, GraphIdsAssumption
    DEF Inv, TypeOK, CallLocals, IdleHasNoKey, Outcomes, Status
<1>0. PrivateKeys \subseteq Keys /\ NoKey \notin PrivateKeys
  BY DEF PrivateKeys
\* A call that answers with something else than a graph id.
<1>1. ASSUME NEW c \in Clients, NEW a \in Outcomes, key[c] = NoKey, Return(c, a),
             UNCHANGED idempotencyKeys
      PROVE  Promise!Next
  <2>1. Answer' = [Answer EXCEPT ![c] = None]
    BY <1>1 DEF Return
  <2>2. UNCHANGED Request /\ Request[c] = NoKey /\ UNCHANGED Binding
    BY <1>0, <1>1 DEF Return
  <2>3. Promise!OtherCall(c)
    BY <2>1, <2>2 DEF Promise!OtherCall
  <2> QED
    BY <2>3 DEF Promise!Next
\* A step inside a call.
<1>2. ASSUME UNCHANGED <<idempotencyKeys, key, reply>> PROVE UNCHANGED Promise!vars
  BY <1>2 DEF Promise!vars
\* A call that answers with a graph id, and no private key.
<1>3. ASSUME NEW c \in Clients, NEW g \in GraphIds, key[c] \notin PrivateKeys, Return(c, g),
             UNCHANGED Binding
      PROVE  Promise!Next
  <2>1. Answer' = [Answer EXCEPT ![c] = g]
    BY <1>3 DEF Return
  <2>2. UNCHANGED Request /\ Request[c] = NoKey
    BY <1>0, <1>3 DEF Return
  <2>3. Promise!AnswerKeyless(c, g)
    BY <1>3, <2>1, <2>2 DEF Promise!AnswerKeyless
  <2> QED
    BY <2>3 DEF Promise!Next
<1>4. ASSUME NEW c \in Clients, NEW k \in KeysOf[c], SubmitKnown(c, k)
      PROVE  Promise!Next
  <2>1. /\ k \in Keys /\ idempotencyKeys[k] \in GraphIds /\ idempotencyKeys[k] # None
        /\ Return(c, idempotencyKeys[k]) /\ UNCHANGED Binding
        /\ key[c] = NoKey
    BY <1>4 DEF SubmitKnown
  <2>2. CASE k \in PrivateKeys
    <3>1. Answer' = [Answer EXCEPT ![c] = Binding[k]]
      BY <2>1, <2>2 DEF Return
    <3>2. UNCHANGED Request /\ Request[c] = NoKey
      BY <1>0, <2>1 DEF Return
    <3>3. Binding[k] # None
      BY <2>1, <2>2
    <3>4. Promise!AnswerKnown(c, k)
      BY <2>1, <3>1, <3>2, <3>3 DEF Promise!AnswerKnown
    <3> QED
      BY <2>2, <3>4 DEF Promise!Next
  <2>3. CASE k \notin PrivateKeys
    <3>1. key[c] \notin PrivateKeys
      BY <1>0, <2>1
    <3> QED
      BY <1>3, <2>1, <3>1
  <2> QED
    BY <2>2, <2>3
<1>5. ASSUME NEW c \in Clients, Create(c) PROVE [Promise!Next]_(Promise!vars)
  <2>1. CASE key[c] = NoKey
    <3>1. graph[c] \in GraphIds /\ Return(c, graph[c]) /\ UNCHANGED Binding
      BY <1>5, <2>1 DEF Create
    <3>2. key[c] \notin PrivateKeys
      BY <1>0, <2>1
    <3> QED
      BY <1>3, <3>1, <3>2
  <2>2. CASE key[c] # NoKey
    BY <1>2, <1>5, <2>2 DEF Create
  <2> QED
    BY <2>1, <2>2
<1>6. ASSUME NEW c \in Clients, Register(c) PROVE Promise!Next
  <2>1. PICK g \in GraphIds, k \in Keys : g = graph[c] /\ k = key[c] /\ k # NoKey
    BY <1>6 DEF Register
  <2>2. /\ idempotencyKeys' = [idempotencyKeys EXCEPT ![k] = g]
        /\ key' = [key EXCEPT ![c] = NoKey]
        /\ Return(c, g)
    BY <1>6, <2>1 DEF Register, RegisterIdempotency, Return
  <2>3. CASE k \in PrivateKeys
    <3>1. Binding[k] = None
      BY <1>6, <2>1, <2>3 DEF Register, KeyInHandUnbound
    <3>2. Answer' = [Answer EXCEPT ![c] = g]
      BY <2>1, <2>2 DEF Return
    <3>3. Binding' = [Binding EXCEPT ![k] = g]
      BY <1>0, <2>2, <2>3
    <3>4. Request[c] = k /\ Request' = [Request EXCEPT ![c] = NoKey]
      BY <1>0, <2>1, <2>2, <2>3
    <3>5. Promise!AnswerAsked(c, g, k)
      BY <2>1, <2>3, <3>1, <3>2, <3>3, <3>4 DEF Promise!AnswerAsked
    <3> QED
      BY <2>1, <2>3, <3>5 DEF Promise!Next
  <2>4. CASE k \notin PrivateKeys
    <3>1. UNCHANGED Binding
      BY <1>0, <2>2, <2>4
    <3> QED
      BY <1>3, <2>1, <2>2, <2>4, <3>1
  <2> QED
    BY <2>3, <2>4
<1>7. ASSUME NEW c \in Clients, NEW g \in GraphIds, NEW k \in KeysOf[c] \cup {NoKey},
             SubmitNew(c, g, k)
      PROVE  [Promise!Next]_(Promise!vars)
  <2>1. /\ key' = [key EXCEPT ![c] = k] /\ key[c] = NoKey
        /\ UNCHANGED <<idempotencyKeys, reply>>
    BY <1>7 DEF SubmitNew
  <2>2. CASE k \notin PrivateKeys
    <3>1. UNCHANGED Request
      BY <1>0, <2>1, <2>2
    <3> QED
      BY <2>1, <3>1 DEF Promise!vars
  <2>3. CASE k \in PrivateKeys
    <3>1. Binding[k] = None
      BY <1>0, <1>7, <2>3 DEF SubmitNew
    <3>2. Request[c] = NoKey /\ Request' = [Request EXCEPT ![c] = k]
      BY <1>0, <2>1, <2>3
    <3>3. Promise!Ask(c, k)
      BY <2>1, <3>1, <3>2 DEF Promise!Ask
    <3> QED
      BY <2>3, <3>3 DEF Promise!Next
  <2> QED
    BY <2>2, <2>3
<1>8. ASSUME NEW c \in Clients, NEW g \in GraphIds, Execute(c, g)
      PROVE  [Promise!Next]_(Promise!vars)
  BY <1>1, <1>2, <1>8 DEF Execute
<1>9. ASSUME NEW c \in Clients, Start(c) PROVE [Promise!Next]_(Promise!vars)
  BY <1>1, <1>2, <1>9 DEF Start
<1>10. ASSUME NEW c \in Clients, Finish(c) PROVE Promise!Next
  BY <1>1, <1>10 DEF Finish
<1>11. ASSUME NEW c \in Clients, NEW g \in GraphIds, Cancel(c, g) PROVE Promise!Next
  BY <1>1, <1>11 DEF Cancel
<1>12. ASSUME NEW c \in Clients, NEW g \in GraphIds, GetStatus(c, g) PROVE Promise!Next
  BY <1>1, <1>12 DEF GetStatus, Stored
<1>13. CASE UNCHANGED vars
  BY <1>2, <1>13 DEF vars
<1> QED
  BY <1>4, <1>5, <1>6, <1>7, <1>8, <1>9, <1>10, <1>11, <1>12, <1>13
     DEF Next, Call, Proceed

\* For a private key, the three separate lock acquisitions of submit behave as
\* one indivisible get-or-create.
THEOREM SubmitRefinesGetOrCreate == Spec => SubmitIsGetOrCreate
<1>1. Init => Promise!Init /\ IdleHasNoKey /\ KeyInHandUnbound
  BY KeysAssumption, NoneAssumption, GraphIdsAssumption
     DEF Init, Promise!Init, IdleHasNoKey, KeyInHandUnbound, Outcomes, PrivateKeys
<1>2. Inv /\ Inv' /\ KeyInHandUnbound /\ [Next]_vars => KeyInHandUnbound'
  BY UnboundStep
<1>3. Inv /\ IdleHasNoKey /\ [Next]_vars => IdleHasNoKey'
  BY NoKeyStep
<1>4. Inv /\ IdleHasNoKey /\ KeyInHandUnbound /\ [Next]_vars
        => [Promise!Next]_(Promise!vars)
  BY PromiseStep
<1> QED
  BY <1>1, <1>2, <1>3, <1>4, Invariance, PTL
     DEF Spec, SubmitIsGetOrCreate, Promise!Spec

-----------------------------------------------------------------------------
(* The other side of GraphEngineRace: two graphs for one key take two      *)
(* submissions of it that overlap.  While submissions of a key take turns, *)
(* every key, shared or not, keeps the promise.                            *)

Submitting(c, k) == pc[c] \in {"create", "register"} /\ key[c] = k

TakingTurns ==
    \A k \in Keys : \A c, d \in Clients : Submitting(c, k) /\ Submitting(d, k) => c = d

\* The promise, for all keys.
SharedPromise == INSTANCE GetOrCreate WITH
    binding <- idempotencyKeys,
    request <- key,
    answer <- [c \in Clients |-> IF reply[c] \in GraphIds THEN reply[c] ELSE None]

\* The key of a submission in progress is still unbound.
KeysInHandUnbound ==
    \A k \in Keys : \A c \in Clients : Submitting(c, k) => idempotencyKeys[k] = None

\* Only Register binds a key, and nobody else has it in hand then.
LEMMA TurnsUnboundStep ==
    ASSUME Inv, Inv', TakingTurns, KeysInHandUnbound, [Next]_vars
    PROVE  KeysInHandUnbound'
<1> USE KeysAssumption DEF KeysInHandUnbound, Submitting, Inv, TypeOK, CallLocals
<1>1. ASSUME NEW c \in Clients, NEW k \in KeysOf[c], SubmitKnown(c, k)
      PROVE  KeysInHandUnbound'
  BY <1>1 DEF SubmitKnown, Return
<1>2. ASSUME NEW c \in Clients, NEW g \in GraphIds, NEW k \in KeysOf[c] \cup {NoKey},
             SubmitNew(c, g, k)
      PROVE  KeysInHandUnbound'
  BY <1>2 DEF SubmitNew
<1>3. ASSUME NEW c \in Clients, Create(c) PROVE KeysInHandUnbound'
  BY <1>3 DEF Create, CreateGraph, Return
<1>4. ASSUME NEW c \in Clients, Register(c) PROVE KeysInHandUnbound'
  BY <1>4 DEF Register, RegisterIdempotency, Return, TakingTurns
<1>5. ASSUME NEW c \in Clients, NEW g \in GraphIds, Execute(c, g) PROVE KeysInHandUnbound'
  BY <1>5 DEF Execute, Return
<1>6. ASSUME NEW c \in Clients, Start(c) PROVE KeysInHandUnbound'
  BY <1>6 DEF Start, UpdateStatus, Return
<1>7. ASSUME NEW c \in Clients, Finish(c) PROVE KeysInHandUnbound'
  BY <1>7 DEF Finish, UpdateStatus, Return
<1>8. ASSUME NEW c \in Clients, NEW g \in GraphIds, Cancel(c, g) PROVE KeysInHandUnbound'
  BY <1>8 DEF Cancel, UpdateStatus, Return
<1>9. ASSUME NEW c \in Clients, NEW g \in GraphIds, GetStatus(c, g) PROVE KeysInHandUnbound'
  BY <1>9 DEF GetStatus, Return
<1>10. CASE UNCHANGED vars
  BY <1>10 DEF vars
<1> QED
  BY <1>1, <1>2, <1>3, <1>4, <1>5, <1>6, <1>7, <1>8, <1>9, <1>10 DEF Next, Call, Proceed

\* Only Create makes a graph for a key, and none was made for it before: it would be
\* bound, or somebody else would be about to bind it.
LEMMA TurnsOneGraphStep ==
    ASSUME Inv, TakingTurns, KeysInHandUnbound, OneGraphPerKey, [Next]_vars
    PROVE  OneGraphPerKey'
<1>1. CASE UNCHANGED created
  BY <1>1 DEF OneGraphPerKey
<1>2. ASSUME NEW c \in Clients, Create(c), key[c] # NoKey PROVE OneGraphPerKey'
  <2>1. created' = created \cup {<<c, key[c], graph[c]>>} /\ pc[c] = "create" /\ key[c] \in Keys
    BY <1>2 DEF Create, Inv, TypeOK
  <2>2. ASSUME NEW s \in created, s[2] = key[c] PROVE FALSE
    <3>1. s[1] \in Clients /\ idempotencyKeys[s[2]] = None
      BY <2>1, <2>2 DEF Inv, TypeOK, KeysInHandUnbound, Submitting
    <3>2. pc[s[1]] = "register" /\ key[s[1]] = s[2]
      BY <3>1 DEF Inv, CreatedHistory
    <3>3. s[1] = c
      BY <2>1, <2>2, <3>1, <3>2 DEF TakingTurns, Submitting
    <3> QED
      BY <2>1, <3>2, <3>3
  <2> QED
    BY <2>1, <2>2 DEF OneGraphPerKey
<1>3. ASSUME NEW c \in Clients, Create(c) PROVE OneGraphPerKey'
  <2>1. CASE key[c] = NoKey
    BY <1>1, <1>3, <2>1 DEF Create
  <2> QED
    BY <1>2, <1>3, <2>1
<1>4. ASSUME NEW c \in Clients, Call(c) PROVE OneGraphPerKey'
  BY <1>1, <1>4 DEF Call, SubmitKnown, SubmitNew, Execute, Cancel, GetStatus
<1>5. ASSUME NEW c \in Clients, Register(c) \/ Start(c) \/ Finish(c) PROVE OneGraphPerKey'
  BY <1>1, <1>5 DEF Register, Start, Finish
<1>6. CASE UNCHANGED vars
  BY <1>1, <1>6 DEF vars
<1> QED
  BY <1>3, <1>4, <1>5, <1>6 DEF Next, Proceed

LEMMA TurnsPromiseStep ==
    ASSUME Inv, IdleHasNoKey, KeysInHandUnbound, [Next]_vars
    PROVE  [SharedPromise!Next]_(SharedPromise!vars)
<1> DEFINE Answer == [c \in Clients |-> IF reply[c] \in GraphIds THEN reply[c] ELSE None]
<1> USE KeysAssumption, NoneAssumption, GraphIdsAssumption
    DEF Inv, TypeOK, CallLocals, IdleHasNoKey, Outcomes, Status
\* A call that answers with something else than a graph id.
<1>1. ASSUME NEW c \in Clients, NEW a \in Outcomes, key[c] = NoKey, Return(c, a),
             UNCHANGED idempotencyKeys
      PROVE  SharedPromise!Next
  <2>1. Answer' = [Answer EXCEPT ![c] = None] /\ UNCHANGED key
    BY <1>1 DEF Return
  <2>2. SharedPromise!OtherCall(c)
    BY <1>1, <2>1 DEF SharedPromise!OtherCall
  <2> QED
    BY <2>2 DEF SharedPromise!Next
\* A step inside a call.
<1>2. ASSUME UNCHANGED <<idempotencyKeys, key, reply>> PROVE UNCHANGED SharedPromise!vars
  BY <1>2 DEF SharedPromise!vars
<1>3. ASSUME NEW c \in Clients, NEW k \in KeysOf[c], SubmitKnown(c, k)
      PROVE  SharedPromise!Next
  <2>1. /\ k \in Keys /\ idempotencyKeys[k] \in GraphIds /\ idempotencyKeys[k] # None
        /\ Return(c, idempotencyKeys[k]) /\ UNCHANGED idempotencyKeys /\ key[c] = NoKey
    BY <1>3 DEF SubmitKnown
  <2>2. Answer' = [Answer EXCEPT ![c] = idempotencyKeys[k]] /\ UNCHANGED key
    BY <2>1 DEF Return
  <2>3. SharedPromise!AnswerKnown(c, k)
    BY <2>1, <2>2 DEF SharedPromise!AnswerKnown
  <2> QED
    BY <2>1, <2>3 DEF SharedPromise!Next
<1>4. ASSUME NEW c \in Clients, Create(c)
      PROVE  [SharedPromise!Next]_(SharedPromise!vars)
  <2>1. CASE key[c] = NoKey
    <3>1. PICK g \in GraphIds : Return(c, g) /\ UNCHANGED idempotencyKeys
      BY <1>4, <2>1 DEF Create
    <3>2. Answer' = [Answer EXCEPT ![c] = g] /\ UNCHANGED key
      BY <2>1, <3>1 DEF Return
    <3>3. SharedPromise!AnswerKeyless(c, g)
      BY <2>1, <3>1, <3>2 DEF SharedPromise!AnswerKeyless
    <3>4. SharedPromise!Next
      BY <3>3 DEF SharedPromise!Next
    <3> QED
      BY <3>4
  <2>2. CASE key[c] # NoKey
    BY <1>2, <1>4, <2>2 DEF Create
  <2> QED
    BY <2>1, <2>2
<1>5. ASSUME NEW c \in Clients, Register(c) PROVE SharedPromise!Next
  <2>1. PICK g \in GraphIds, k \in Keys : g = graph[c] /\ k = key[c]
    BY <1>5 DEF Register
  <2>2. /\ idempotencyKeys' = [idempotencyKeys EXCEPT ![k] = g]
        /\ key' = [key EXCEPT ![c] = NoKey]
        /\ Return(c, g)
    BY <1>5, <2>1 DEF Register, RegisterIdempotency, Return
  <2>3. idempotencyKeys[k] = None
    BY <1>5, <2>1 DEF Register, KeysInHandUnbound, Submitting
  <2>4. Answer' = [Answer EXCEPT ![c] = g] /\ idempotencyKeys'[k] = g
    BY <2>1, <2>2 DEF Return
  <2>5. SharedPromise!AnswerAsked(c, g, k)
    BY <2>1, <2>2, <2>3, <2>4 DEF SharedPromise!AnswerAsked
  <2> QED
    BY <2>1, <2>5 DEF SharedPromise!Next
<1>6. ASSUME NEW c \in Clients, NEW g \in GraphIds, NEW k \in KeysOf[c] \cup {NoKey},
             SubmitNew(c, g, k)
      PROVE  [SharedPromise!Next]_(SharedPromise!vars)
  <2>1. /\ key' = [key EXCEPT ![c] = k] /\ key[c] = NoKey
        /\ UNCHANGED <<idempotencyKeys, reply>>
    BY <1>6 DEF SubmitNew
  <2>2. CASE k = NoKey
    <3>1. UNCHANGED key
      BY <2>1, <2>2
    <3> QED
      BY <1>2, <2>1, <3>1
  <2>3. CASE k \in Keys
    <3>1. idempotencyKeys[k] = None
      BY <1>6, <2>3 DEF SubmitNew
    <3>2. SharedPromise!Ask(c, k)
      BY <2>1, <3>1 DEF SharedPromise!Ask
    <3> QED
      BY <2>3, <3>2 DEF SharedPromise!Next
  <2> QED
    BY <2>2, <2>3
<1>7. ASSUME NEW c \in Clients, NEW g \in GraphIds, Execute(c, g)
      PROVE  [SharedPromise!Next]_(SharedPromise!vars)
  BY <1>1, <1>2, <1>7 DEF Execute
<1>8. ASSUME NEW c \in Clients, Start(c) PROVE [SharedPromise!Next]_(SharedPromise!vars)
  BY <1>1, <1>2, <1>8 DEF Start
<1>9. ASSUME NEW c \in Clients, Finish(c) PROVE SharedPromise!Next
  BY <1>1, <1>9 DEF Finish
<1>10. ASSUME NEW c \in Clients, NEW g \in GraphIds, Cancel(c, g) PROVE SharedPromise!Next
  BY <1>1, <1>10 DEF Cancel
<1>11. ASSUME NEW c \in Clients, NEW g \in GraphIds, GetStatus(c, g) PROVE SharedPromise!Next
  BY <1>1, <1>11 DEF GetStatus, Stored
<1>12. CASE UNCHANGED vars
  BY <1>2, <1>12 DEF vars
<1> QED
  BY <1>3, <1>4, <1>5, <1>6, <1>7, <1>8, <1>9, <1>10, <1>11, <1>12 DEF Next, Call, Proceed

\* While submissions of a key take turns, a key identifies one graph whoever
\* submits it: the overlap is the only way to a duplicate.
THEOREM TurnsMakeOneGraph == Spec /\ []TakingTurns => []OneGraphPerKey
<1>1. Init => KeysInHandUnbound /\ OneGraphPerKey
  BY DEF Init, KeysInHandUnbound, Submitting, OneGraphPerKey
<1>2. Inv /\ Inv' /\ TakingTurns /\ KeysInHandUnbound /\ [Next]_vars => KeysInHandUnbound'
  BY TurnsUnboundStep
<1>3. Inv /\ TakingTurns /\ KeysInHandUnbound /\ OneGraphPerKey /\ [Next]_vars => OneGraphPerKey'
  BY TurnsOneGraphStep
<1> QED
  BY <1>1, <1>2, <1>3, Invariance, PTL DEF Spec

\* And submit is one indivisible get-or-create for every key, so that all clients
\* get the same answer for it.
THEOREM TurnsRefineGetOrCreate == Spec /\ []TakingTurns => SharedPromise!Spec
<1>1. Init => SharedPromise!Init /\ IdleHasNoKey /\ KeysInHandUnbound
  BY KeysAssumption, NoneAssumption, GraphIdsAssumption
     DEF Init, SharedPromise!Init, IdleHasNoKey, KeysInHandUnbound, Submitting, Outcomes
<1>2. Inv /\ Inv' /\ TakingTurns /\ KeysInHandUnbound /\ [Next]_vars => KeysInHandUnbound'
  BY TurnsUnboundStep
<1>3. Inv /\ IdleHasNoKey /\ [Next]_vars => IdleHasNoKey'
  BY NoKeyStep
<1>4. Inv /\ IdleHasNoKey /\ KeysInHandUnbound /\ [Next]_vars
        => [SharedPromise!Next]_(SharedPromise!vars)
  BY TurnsPromiseStep
<1> QED
  BY <1>1, <1>2, <1>3, <1>4, Invariance, PTL DEF Spec, SharedPromise!Spec

-----------------------------------------------------------------------------
(* What the promise means for a client that asks again, later: an answer   *)
(* it got for its key is never taken back.                                 *)

\* A key among these that identifies a graph identifies it for good.
BoundForGood(keys) ==
    \A k \in keys : idempotencyKeys[k] # None => idempotencyKeys'[k] = idempotencyKeys[k]

\* No submission of another client takes a private key to another graph.
PrivateBindingsStay == [][BoundForGood(PrivateKeys)]_vars

\* Nor a shared key.  It fails when submissions of it overlap.
BindingsStay == [][BoundForGood(Keys)]_vars

\* Get-or-create rebinds nothing: whatever promises it, as submit does, keeps its answers.
LEMMA PromiseKeepsBindings ==
    ASSUME [Promise!Next]_(Promise!vars) PROVE BoundForGood(PrivateKeys)
<1> DEFINE Binding == [k \in PrivateKeys |-> idempotencyKeys[k]]
<1>1. ASSUME UNCHANGED Binding PROVE BoundForGood(PrivateKeys)
  <2>1. \A k \in PrivateKeys : Binding[k] = idempotencyKeys[k] /\ Binding'[k] = idempotencyKeys'[k]
    OBVIOUS
  <2> QED
    BY <1>1, <2>1 DEF BoundForGood
<1>2. ASSUME NEW c \in Clients, NEW g \in GraphIds, NEW k \in PrivateKeys,
             Promise!AnswerAsked(c, g, k)
      PROVE  BoundForGood(PrivateKeys)
  <2>1. Binding' = [Binding EXCEPT ![k] = IF @ = None THEN g ELSE @]
    BY <1>2 DEF Promise!AnswerAsked
  <2> QED
    BY <2>1 DEF BoundForGood
<1>3. ASSUME NEW c \in Clients, NEW k \in PrivateKeys, Promise!Ask(c, k) \/ Promise!AnswerKnown(c, k)
      PROVE  BoundForGood(PrivateKeys)
  BY <1>1, <1>3 DEF Promise!Ask, Promise!AnswerKnown
<1>4. ASSUME NEW c \in Clients, NEW g \in GraphIds, Promise!AnswerKeyless(c, g)
      PROVE  BoundForGood(PrivateKeys)
  BY <1>1, <1>4 DEF Promise!AnswerKeyless
<1>5. ASSUME NEW c \in Clients, Promise!OtherCall(c) PROVE BoundForGood(PrivateKeys)
  BY <1>1, <1>5 DEF Promise!OtherCall
<1>6. CASE UNCHANGED Promise!vars
  BY <1>1, <1>6 DEF Promise!vars
<1> QED
  BY <1>2, <1>3, <1>4, <1>5, <1>6 DEF Promise!Next

\* The same for all keys.
LEMMA SharedPromiseKeepsBindings ==
    ASSUME Inv, [SharedPromise!Next]_(SharedPromise!vars) PROVE BoundForGood(Keys)
<1>1. \/ UNCHANGED idempotencyKeys
      \/ \E g, j : idempotencyKeys' = [idempotencyKeys EXCEPT ![j] = IF @ = None THEN g ELSE @]
  BY DEF SharedPromise!Next, SharedPromise!vars, SharedPromise!Ask, SharedPromise!AnswerAsked,
         SharedPromise!AnswerKnown, SharedPromise!AnswerKeyless, SharedPromise!OtherCall
<1> QED
  BY <1>1 DEF BoundForGood, Inv, TypeOK

\* A client that is alone with its key gets the same graph for it for ever, however
\* often it retries and whatever other clients submit.
THEOREM PrivateBindingsAreFinal == Spec => PrivateBindingsStay
<1>1. [Promise!Next]_(Promise!vars) => BoundForGood(PrivateKeys)
  BY PromiseKeepsBindings
<1> QED
  BY <1>1, SubmitRefinesGetOrCreate, PTL DEF PrivateBindingsStay, SubmitIsGetOrCreate, Promise!Spec

\* And where submissions of a key take turns, no client takes its key away from another.
THEOREM TurnsMakeBindingsFinal == Spec /\ []TakingTurns => BindingsStay
<1>1. Inv /\ [SharedPromise!Next]_(SharedPromise!vars) => BoundForGood(Keys)
  BY SharedPromiseKeepsBindings
<1> QED
  BY <1>1, Invariance, TurnsRefineGetOrCreate, PTL DEF BindingsStay, SharedPromise!Spec
=============================================================================
