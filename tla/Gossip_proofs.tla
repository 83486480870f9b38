--------------------------- MODULE Gossip_proofs ---------------------------
(* Theorems about the membership tables, for any sets of nodes, peers and
   listeners, any bound on the heartbeats and any delivery of the messages, and, at
   the end, about the routing table and the protocol versions. *)
EXTENDS Gossip, Router, Protocol, TLAPS

\* What process_gossip puts into a table comes from the message or was there.
LEMMA MergeTakesOrKeeps ==
    ASSUME NEW table, NEW message, NEW m \in Nodes
    PROVE  /\ Newer(message[m], table[m]) => Merge(table, message)[m] = message[m]
           /\ ~Newer(message[m], table[m]) => Merge(table, message)[m] = table[m]
BY DEF Merge

\* Merging takes the later heartbeat of each member, so two peers that send
\* each other their tables agree on the heartbeats.
LEMMA MergeAgrees ==
    ASSUME NEW t \in [Nodes -> Info \cup {Absent}],
           NEW u \in [Nodes -> Info \cup {Absent}], NEW m \in Nodes
    PROVE  Merge(t, u)[m].heartbeat = Merge(u, t)[m].heartbeat
<1>1. t[m] \in Info \cup {Absent} /\ u[m] \in Info \cup {Absent}
  OBVIOUS
<1>2. t[m].heartbeat \in Nat /\ u[m].heartbeat \in Nat
  BY <1>1 DEF Info, Absent
<1>3. (t[m] = Absent => t[m].heartbeat = 0) /\ (u[m] = Absent => u[m].heartbeat = 0)
  BY DEF Absent
<1>4. /\ Merge(t, u)[m] = IF Newer(u[m], t[m]) THEN u[m] ELSE t[m]
      /\ Merge(u, t)[m] = IF Newer(t[m], u[m]) THEN t[m] ELSE u[m]
  BY DEF Merge
<1> QED
  BY <1>2, <1>3, <1>4 DEF Newer

\* Every item of a message was sent about the member it is listed for.
LEMMA MessageItem ==
    ASSUME NEW message \in Messages, NEW m \in Nodes
    PROVE  message[m] \in sent[m] \cup {Absent}
BY DEF Messages

-----------------------------------------------------------------------------
(* Type correctness. *)

LEMMA InfoFacts ==
    /\ \A h \in Nat : Alive(h) \in Info
    /\ \A i \in Info : i.status \in {"Connected", "Disconnected"} /\ i.heartbeat \in Nat
    /\ \A i \in Info : [i EXCEPT !.status = "Disconnected"] \in Info
    /\ \A i \in Info : [i EXCEPT !.status = "Disconnected"].heartbeat = i.heartbeat
    /\ \A i \in Info : i # Absent
BY DEF Info, Alive, Absent

LEMMA SetMemberType ==
    ASSUME TypeOK, NEW n \in Peers, NEW m \in Nodes, NEW info \in Info \cup {Absent},
           SetMember(n, m, info)
    PROVE  /\ members' \in [Peers -> [Nodes -> Info \cup {Absent}]]
           /\ gossiped' \in [Peers -> SUBSET Nodes]
BY DEF TypeOK, SetMember

LEMMA PushType ==
    ASSUME TypeOK, NEW n \in Peers, NEW m \in Nodes,
           NEW event \in {"Join", "Leave", "Failure", "Rejoin"}, Push(n, m, event)
    PROVE  /\ lastEvent' \in [Peers -> [Nodes -> {"None", "Join", "Leave", "Failure", "Rejoin"}]]
           /\ undrained' \in [Peers -> SUBSET Nodes]
<1>1. CASE n \in Listeners
  <2>1. lastEvent[n] \in [Nodes -> {"None", "Join", "Leave", "Failure", "Rejoin"}]
    BY DEF TypeOK
  <2>2. lastEvent' = [lastEvent EXCEPT ![n] = [lastEvent[n] EXCEPT ![m] = event]]
    BY <1>1 DEF Push
  <2>3. [lastEvent[n] EXCEPT ![m] = event]
           \in [Nodes -> {"None", "Join", "Leave", "Failure", "Rejoin"}]
    BY <2>1
  <2>4. undrained[n] \cup {m} \in SUBSET Nodes
    BY DEF TypeOK
  <2>5. undrained' = [undrained EXCEPT ![n] = undrained[n] \cup {m}]
    BY <1>1 DEF Push
  <2>6. undrained' \in [Peers -> SUBSET Nodes]
    BY <2>4, <2>5 DEF TypeOK
  <2> QED
    BY <2>2, <2>3, <2>6 DEF TypeOK
<1>2. CASE n \notin Listeners
  BY <1>2 DEF Push, TypeOK
<1> QED
  BY <1>1, <1>2

LEMMA TypeInit == Init => TypeOK
BY PeersAssumption, InfoFacts DEF Init, TypeOK

LEMMA TypeStep == TypeOK /\ [Next]_vars => TypeOK'
<1> SUFFICES ASSUME TypeOK, [Next]_vars PROVE TypeOK'
  OBVIOUS
<1>1. ASSUME NEW n \in Peers, NEW m \in Nodes, NEW h \in 0 .. beat[m],
             RegisterNode(n, m, h) \/ HandleRejoin(n, m, h)
      PROVE  TypeOK'
  <2>1. Alive(h) \in Info
    BY InfoFacts DEF TypeOK
  <2>2. SetMember(n, m, Alive(h)) /\ (Push(n, m, "Join") \/ Push(n, m, "Rejoin")) /\ UNCHANGED <<beat, sent>>
    BY <1>1 DEF RegisterNode, HandleRejoin
  <2> QED
    BY <2>1, <2>2, SetMemberType, PushType DEF TypeOK
<1>2. ASSUME NEW n \in Peers, NEW m \in Nodes, HandleLeave(n, m)
      PROVE  TypeOK'
  BY <1>2, SetMemberType, PushType DEF HandleLeave, TypeOK
<1>3. ASSUME NEW n \in Peers, NEW m \in Nodes, HandleFailure(n, m)
      PROVE  TypeOK'
  <2>1. CASE members[n][m] = Absent
    BY <1>3, <2>1 DEF HandleFailure, TypeOK
  <2>2. CASE members[n][m] # Absent
    <3>1. members[n][m] \in Info
      BY <2>2 DEF TypeOK
    <3>2. [members[n][m] EXCEPT !.status = "Disconnected"] \in Info
      BY <3>1, InfoFacts
    <3> QED
      BY <1>3, <2>2, <3>2, SetMemberType, PushType DEF HandleFailure, TypeOK
  <2> QED
    BY <2>1, <2>2
<1>4. ASSUME NEW n \in Peers, NEW message \in Messages, ProcessGossip(n, message)
      PROVE  TypeOK'
  <2>1. \A m \in Nodes : message[m] \in Info \cup {Absent}
    BY MessageItem DEF TypeOK
  <2>2. Merge(members[n], message) \in [Nodes -> Info \cup {Absent}]
    BY <2>1 DEF Merge, TypeOK
  <2> QED
    BY <1>4, <2>2 DEF ProcessGossip, TypeOK
<1>5. ASSUME NEW n \in Peers, GetEvents(n)
      PROVE  TypeOK'
  BY <1>5 DEF GetEvents, TypeOK
<1>6. ASSUME NEW n \in Peers, SendGossip(n)
      PROVE  TypeOK'
  BY <1>6 DEF SendGossip, TypeOK
<1>7. ASSUME NEW m \in Nodes, UpdateHeartbeat(m)
      PROVE  TypeOK'
  <2>1. beat[m] + 1 \in Nat /\ Alive(beat[m] + 1) \in Info
    BY InfoFacts DEF TypeOK
  <2> QED
    BY <1>7, <2>1 DEF UpdateHeartbeat, TypeOK
<1>8. CASE UNCHANGED vars
  BY <1>8 DEF vars, TypeOK
<1> QED
  BY <1>1, <1>2, <1>3, <1>4, <1>5, <1>6, <1>7, <1>8 DEF Next

\* The tables, messages and events have the types of gossip.rs in every
\* behaviour.
THEOREM TypeCorrect == Spec => []TypeOK
BY TypeInit, TypeStep, PTL DEF Spec

\* In every behaviour, any two tables that are exchanged agree on the heartbeats
\* (process_gossip, called on both sides with the other's members).
THEOREM HeartbeatsConverge == Spec => []ExchangeAgreesOnHeartbeats
<1>1. TypeOK => ExchangeAgreesOnHeartbeats
  BY MergeAgrees DEF TypeOK, ExchangeAgreesOnHeartbeats
<1> QED
  BY <1>1, TypeCorrect, PTL

-----------------------------------------------------------------------------
(* Heartbeats. *)

\* What a change of one entry leaves alone.
LEMMA SetMemberFrame ==
    ASSUME TypeOK, NEW n \in Peers, NEW m \in Nodes, NEW info, SetMember(n, m, info),
           NEW p \in Peers, NEW q \in Nodes
    PROVE  /\ members'[p][q] = IF p = n /\ q = m THEN info ELSE members[p][q]
           /\ q \in gossiped'[p] <=> q \in gossiped[p] /\ ~(p = n /\ q = m)
<1>1. members[p] \in [Nodes -> Info \cup {Absent}] /\ members[n] \in [Nodes -> Info \cup {Absent}]
  BY DEF TypeOK
<1> QED
  BY <1>1 DEF TypeOK, SetMember

LEMMA ProcessGossipFrame ==
    ASSUME TypeOK, NEW n \in Peers, NEW message, ProcessGossip(n, message),
           NEW p \in Peers, NEW q \in Nodes
    PROVE  /\ members'[p][q] = IF p = n /\ Newer(message[q], members[n][q])
                               THEN message[q] ELSE members[p][q]
           /\ q \in gossiped'[p] <=>
                 q \in gossiped[p] \/ (p = n /\ Newer(message[q], members[n][q]))
<1>1. members' = [members EXCEPT ![n] = Merge(members[n], message)]
  BY DEF ProcessGossip
<1>2. gossiped' = [gossiped EXCEPT ![n] =
                     gossiped[n] \cup {k \in Nodes : Newer(message[k], members[n][k])}]
  BY DEF ProcessGossip
<1>3. Merge(members[n], message)[q] = IF Newer(message[q], members[n][q])
                                      THEN message[q] ELSE members[n][q]
  BY DEF Merge
<1> QED
  BY <1>1, <1>2, <1>3 DEF TypeOK

LEMMA AheadInit == Init => NothingIsAheadOfItsMember
<1> SUFFICES ASSUME Init PROVE NothingIsAheadOfItsMember
  OBVIOUS
<1>1. \A m \in Nodes : beat[m] = 0 /\ sent[m] = {}
  BY DEF Init
<1>2. \A n \in Peers, m \in Nodes : members[n][m] = Alive(0) \/ members[n][m] = Absent
  BY DEF Init
<1>3. Alive(0).heartbeat = 0
  BY DEF Alive
<1>4. \A n \in Peers, m \in Nodes : members[n][m] # Absent => members[n][m].heartbeat <= beat[m]
  <2> SUFFICES ASSUME NEW n \in Peers, NEW m \in Nodes, members[n][m] # Absent
               PROVE  members[n][m].heartbeat <= beat[m]
    OBVIOUS
  <2>1. members[n][m].heartbeat = 0 /\ beat[m] = 0
    BY <1>1, <1>2, <1>3
  <2> QED
    BY <2>1
<1> QED
  BY <1>1, <1>4 DEF NothingIsAheadOfItsMember

LEMMA AheadStep ==
    TypeOK /\ NothingIsAheadOfItsMember /\ [Next]_vars => NothingIsAheadOfItsMember'
<1> SUFFICES ASSUME TypeOK, NothingIsAheadOfItsMember, [Next]_vars
             PROVE  NothingIsAheadOfItsMember'
  OBVIOUS
<1>0. \A p \in Peers, q \in Nodes :
         /\ members[p][q] \in Info \cup {Absent}
         /\ members[p][q] # Absent => members[p][q].heartbeat <= beat[q]
  BY DEF TypeOK, NothingIsAheadOfItsMember
<1>1. ASSUME NEW n \in Peers, NEW m \in Nodes, NEW h \in 0 .. beat[m],
             RegisterNode(n, m, h) \/ HandleRejoin(n, m, h)
      PROVE  NothingIsAheadOfItsMember'
  <2>1. SetMember(n, m, Alive(h)) /\ UNCHANGED <<beat, sent>>
    BY <1>1 DEF RegisterNode, HandleRejoin
  <2>2. Alive(h).heartbeat <= beat[m]
    BY DEF Alive, TypeOK
  <2>3. \A p \in Peers, q \in Nodes :
           members'[p][q] # Absent => members'[p][q].heartbeat <= beat[q]
    BY <1>0, <2>1, <2>2, SetMemberFrame
  <2> QED
    BY <2>1, <2>3 DEF NothingIsAheadOfItsMember
<1>2. ASSUME NEW n \in Peers, NEW m \in Nodes, HandleLeave(n, m)
      PROVE  NothingIsAheadOfItsMember'
  <2>1. CASE members[n][m] = Absent
    BY <1>2, <2>1 DEF HandleLeave, NothingIsAheadOfItsMember
  <2>2. CASE members[n][m] # Absent
    <3>1. SetMember(n, m, Absent) /\ UNCHANGED <<beat, sent>>
      BY <1>2, <2>2 DEF HandleLeave
    <3>2. \A p \in Peers, q \in Nodes :
             members'[p][q] # Absent => members'[p][q].heartbeat <= beat[q]
      BY <1>0, <3>1, SetMemberFrame
    <3> QED
      BY <3>1, <3>2 DEF NothingIsAheadOfItsMember
  <2> QED
    BY <2>1, <2>2
<1>3. ASSUME NEW n \in Peers, NEW m \in Nodes, HandleFailure(n, m)
      PROVE  NothingIsAheadOfItsMember'
  <2>1. CASE members[n][m] = Absent
    BY <1>3, <2>1 DEF HandleFailure, NothingIsAheadOfItsMember
  <2>2. CASE members[n][m] # Absent
    <3> DEFINE failed == [members[n][m] EXCEPT !.status = "Disconnected"]
    <3>1. SetMember(n, m, failed) /\ UNCHANGED <<beat, sent>>
      BY <1>3, <2>2 DEF HandleFailure
    <3>2. failed.heartbeat <= beat[m]
      <4>1. members[n][m] \in Info
        BY <1>0, <2>2
      <4> QED
        BY <1>0, <2>2, <4>1, InfoFacts
    <3> HIDE DEF failed
    <3>3. \A p \in Peers, q \in Nodes :
             members'[p][q] # Absent => members'[p][q].heartbeat <= beat[q]
      BY <1>0, <3>1, <3>2, SetMemberFrame
    <3> QED
      BY <3>1, <3>3 DEF NothingIsAheadOfItsMember
  <2> QED
    BY <2>1, <2>2
<1>4. ASSUME NEW n \in Peers, NEW message \in Messages, ProcessGossip(n, message)
      PROVE  NothingIsAheadOfItsMember'
  <2>1. \A q \in Nodes : message[q] # Absent => message[q].heartbeat <= beat[q]
    BY MessageItem DEF NothingIsAheadOfItsMember
  <2>2. \A p \in Peers, q \in Nodes :
           members'[p][q] # Absent => members'[p][q].heartbeat <= beat[q]
    BY <1>0, <1>4, <2>1, ProcessGossipFrame
  <2> QED
    BY <1>4, <2>2 DEF ProcessGossip, NothingIsAheadOfItsMember
<1>5. ASSUME NEW n \in Peers, GetEvents(n)
      PROVE  NothingIsAheadOfItsMember'
  BY <1>5 DEF GetEvents, NothingIsAheadOfItsMember
<1>6. ASSUME NEW n \in Peers, SendGossip(n)
      PROVE  NothingIsAheadOfItsMember'
  <2>1. \A q \in Nodes : sent'[q] = sent[q] \cup ({members[n][q]} \ {Absent})
    BY <1>6 DEF SendGossip
  <2>2. \A q \in Nodes : \A info \in sent'[q] : info.heartbeat <= beat[q]
    BY <1>0, <2>1 DEF NothingIsAheadOfItsMember
  <2> QED
    BY <1>6, <2>2 DEF SendGossip, NothingIsAheadOfItsMember
<1>7. ASSUME NEW m \in Nodes, UpdateHeartbeat(m)
      PROVE  NothingIsAheadOfItsMember'
  <2>1. \A q \in Nodes : beat[q] \in Nat
    BY DEF TypeOK
  <2>2. \A q \in Nodes : beat'[q] \in Nat /\ beat[q] <= beat'[q] /\ (q = m => beat'[q] = beat[q] + 1)
    BY <1>7, <2>1 DEF UpdateHeartbeat, TypeOK
  <2>3. UNCHANGED members
    BY <1>7 DEF UpdateHeartbeat
  <2>4. \A q \in Nodes : sent'[q] = sent[q] \cup (IF q = m THEN {Alive(beat[m] + 1)} ELSE {})
    BY <1>7 DEF UpdateHeartbeat, TypeOK
  <2>5. Alive(beat[m] + 1).heartbeat = beat[m] + 1
    BY DEF Alive
  <2>6. \A p \in Peers, q \in Nodes : members[p][q] # Absent => members[p][q].heartbeat \in Nat
    BY <1>0, InfoFacts
  <2>7. \A p \in Peers, q \in Nodes :
           members'[p][q] # Absent => members'[p][q].heartbeat <= beat'[q]
    BY <1>0, <2>1, <2>2, <2>3, <2>6
  <2>8. \A q \in Nodes : \A info \in sent[q] : info.heartbeat \in Nat /\ info.heartbeat <= beat[q]
    BY InfoFacts DEF TypeOK, NothingIsAheadOfItsMember
  <2>9. \A q \in Nodes : \A info \in sent'[q] : info.heartbeat <= beat'[q]
    BY <2>1, <2>2, <2>4, <2>5, <2>8
  <2> QED
    BY <2>7, <2>9 DEF NothingIsAheadOfItsMember
<1>8. CASE UNCHANGED vars
  BY <1>8 DEF vars, NothingIsAheadOfItsMember
<1> QED
  BY <1>1, <1>2, <1>3, <1>4, <1>5, <1>6, <1>7, <1>8 DEF Next

\* No heartbeat is invented: neither a table nor a message is ever ahead of the
\* member it is about.
THEOREM NoHeartbeatIsInvented == Spec => []NothingIsAheadOfItsMember
<1>1. TypeOK /\ NothingIsAheadOfItsMember /\ [Next]_vars => NothingIsAheadOfItsMember'
  BY AheadStep
<1> QED
  BY AheadInit, <1>1, TypeCorrect, PTL DEF Spec

-----------------------------------------------------------------------------
(* Delivery: messages that come late, again, or in another order. *)

\* A message that comes again changes nothing, even after another one; and in
\* whichever order two messages come, the peer knows the same members at the same
\* heartbeats.
DeliveryIsHarmless ==
    \A n \in Peers : \A u, v \in Messages :
        LET once == Merge(Merge(members[n], u), v)
            swapped == Merge(Merge(members[n], v), u)
        IN  /\ Merge(once, u) = once
            /\ \A m \in Nodes : /\ once[m] = Absent <=> swapped[m] = Absent
                                /\ once[m].heartbeat = swapped[m].heartbeat

\* No message takes a peer back: what it holds of a member becomes older only when
\* the member is registered, rejoins or leaves at that peer.
OnlyCallsGoBack ==
    [][\A n \in Peers, m \in Nodes :
         members'[n][m].heartbeat < members[n][m].heartbeat
         => \/ HandleLeave(n, m)
            \/ \E h \in 0 .. beat[m] : RegisterNode(n, m, h) \/ HandleRejoin(n, m, h)]_vars

\* Three merges into one table, looked at for one member.
LEMMA MergesOfAMember ==
    ASSUME NEW t \in [Nodes -> Info \cup {Absent}],
           NEW u \in [Nodes -> Info \cup {Absent}],
           NEW v \in [Nodes -> Info \cup {Absent}], NEW m \in Nodes
    PROVE  /\ Merge(Merge(Merge(t, u), v), u)[m] = Merge(Merge(t, u), v)[m]
           /\ Merge(Merge(t, u), v)[m] = Absent <=> Merge(Merge(t, v), u)[m] = Absent
           /\ Merge(Merge(t, u), v)[m].heartbeat = Merge(Merge(t, v), u)[m].heartbeat
<1> DEFINE Later(x, y) == IF Newer(y, x) THEN y ELSE x
<1>1. ASSUME NEW x, NEW y PROVE Merge(x, y)[m] = Later(x[m], y[m])
  BY DEF Merge
<1>2. /\ t[m] \in Info \cup {Absent} /\ u[m] \in Info \cup {Absent}
      /\ v[m] \in Info \cup {Absent}
  OBVIOUS
<1>3. \A x \in Info \cup {Absent} : x.heartbeat \in Nat
  BY DEF Info, Absent
<1>4. \A x, y, z \in Info \cup {Absent} :
        /\ Later(Later(Later(x, y), z), y) = Later(Later(x, y), z)
        /\ Later(Later(x, y), z) = Absent <=> Later(Later(x, z), y) = Absent
        /\ Later(Later(x, y), z).heartbeat = Later(Later(x, z), y).heartbeat
  <2> TAKE x, y, z \in Info \cup {Absent}
  <2>1. x.heartbeat \in Nat /\ y.heartbeat \in Nat /\ z.heartbeat \in Nat
    BY <1>3
  <2>2. /\ x = Absent => x.heartbeat = 0
        /\ y = Absent => y.heartbeat = 0
        /\ z = Absent => z.heartbeat = 0
    BY DEF Absent
  <2> HIDE DEF Later
  <2>3. \A p, q : Later(p, q) = IF Newer(q, p) THEN q ELSE p
    BY DEF Later
  <2>4. \A p, q : p.heartbeat \in Nat /\ q.heartbeat \in Nat =>
          (Newer(q, p) <=> q # Absent /\ (p = Absent \/ q.heartbeat > p.heartbeat))
    BY DEF Newer
  <2> QED
    BY <2>1, <2>2, <2>3, <2>4
<1> HIDE DEF Later
<1>5. /\ Merge(Merge(Merge(t, u), v), u)[m] = Later(Later(Later(t[m], u[m]), v[m]), u[m])
      /\ Merge(Merge(t, u), v)[m] = Later(Later(t[m], u[m]), v[m])
      /\ Merge(Merge(t, v), u)[m] = Later(Later(t[m], v[m]), u[m])
  BY <1>1
<1>6. /\ Later(Later(Later(t[m], u[m]), v[m]), u[m]) = Later(Later(t[m], u[m]), v[m])
      /\ Later(Later(t[m], u[m]), v[m]) = Absent <=> Later(Later(t[m], v[m]), u[m]) = Absent
      /\ Later(Later(t[m], u[m]), v[m]).heartbeat = Later(Later(t[m], v[m]), u[m]).heartbeat
  BY <1>2, <1>4
<1> QED
  BY <1>5, <1>6

\* Whatever the network repeats or reorders, the peers' tables do not tell.
THEOREM DeliveriesAreHarmless == Spec => []DeliveryIsHarmless
<1>1. TypeOK => DeliveryIsHarmless
  <2> SUFFICES ASSUME TypeOK, NEW n \in Peers, NEW u \in Messages, NEW v \in Messages
               PROVE  LET once == Merge(Merge(members[n], u), v)
                          swapped == Merge(Merge(members[n], v), u)
                      IN  /\ Merge(once, u) = once
                          /\ \A m \in Nodes : /\ once[m] = Absent <=> swapped[m] = Absent
                                              /\ once[m].heartbeat = swapped[m].heartbeat
    BY DEF DeliveryIsHarmless
  <2> DEFINE once == Merge(Merge(members[n], u), v)
  <2>1. members[n] \in [Nodes -> Info \cup {Absent}]
    BY DEF TypeOK
  <2>2. u \in [Nodes -> Info \cup {Absent}] /\ v \in [Nodes -> Info \cup {Absent}]
    BY DEF TypeOK, Messages
  <2>3. \A m \in Nodes : Merge(once, u)[m] = once[m]
    BY <2>1, <2>2, MergesOfAMember
  <2>4. Merge(once, u) = once
    <3>1. /\ Merge(once, u) = [m \in Nodes |-> Merge(once, u)[m]]
          /\ once = [m \in Nodes |-> once[m]]
      BY DEF Merge
    <3> HIDE DEF once
    <3> QED
      BY <2>3, <3>1
  <2> QED
    BY <2>1, <2>2, <2>4, MergesOfAMember
<1> QED
  BY <1>1, TypeCorrect, PTL

LEMMA GoingBackStep ==
    ASSUME TypeOK, [Next]_vars, NEW n \in Peers, NEW m \in Nodes,
           members'[n][m].heartbeat < members[n][m].heartbeat
    PROVE  \/ HandleLeave(n, m)
           \/ \E h \in 0 .. beat[m] : RegisterNode(n, m, h) \/ HandleRejoin(n, m, h)
<1> DEFINE Goal == \/ HandleLeave(n, m)
                   \/ \E h \in 0 .. beat[m] : RegisterNode(n, m, h) \/ HandleRejoin(n, m, h)
<1>1. /\ members[n][m] \in Info \cup {Absent} /\ members[n][m].heartbeat \in Nat
      /\ members'[n][m] # members[n][m] /\ members' # members
  BY DEF TypeOK, Info, Absent
<1>2. ASSUME NEW p \in Peers, NEW q \in Nodes, NEW h \in 0 .. beat[q],
             RegisterNode(p, q, h) \/ HandleRejoin(p, q, h)
      PROVE  Goal
  <2>1. p = n /\ q = m
    BY <1>1, <1>2, SetMemberFrame DEF RegisterNode, HandleRejoin
  <2> QED
    BY <1>2, <2>1
<1>3. ASSUME NEW p \in Peers, NEW q \in Nodes, HandleLeave(p, q) PROVE Goal
  <2>1. SetMember(p, q, Absent)
    BY <1>1, <1>3 DEF HandleLeave
  <2>2. p = n /\ q = m
    BY <1>1, <2>1, SetMemberFrame
  <2> QED
    BY <1>3, <2>2
<1>4. ASSUME NEW p \in Peers, NEW q \in Nodes, HandleFailure(p, q) PROVE FALSE
  <2>1. SetMember(p, q, [members[p][q] EXCEPT !.status = "Disconnected"])
        /\ members[p][q] # Absent
    BY <1>1, <1>4 DEF HandleFailure
  <2>2. p = n /\ q = m
    BY <1>1, <2>1, SetMemberFrame
  <2>3. members'[n][m] = [members[n][m] EXCEPT !.status = "Disconnected"]
    BY <2>1, <2>2, SetMemberFrame
  <2>4. members'[n][m].heartbeat = members[n][m].heartbeat
    BY <1>1, <2>1, <2>2, <2>3, InfoFacts
  <2> QED
    BY <1>1, <2>4
<1>5. ASSUME NEW p \in Peers, NEW message \in Messages, ProcessGossip(p, message)
      PROVE  FALSE
  <2>1. members'[n][m] = IF p = n /\ Newer(message[m], members[n][m])
                         THEN message[m] ELSE members[n][m]
    BY <1>5, ProcessGossipFrame
  <2>2. message[m].heartbeat \in Nat
    BY MessageItem, InfoFacts DEF TypeOK, Absent
  <2>3. members[n][m] = Absent => members[n][m].heartbeat = 0
    BY DEF Absent
  <2> QED
    BY <1>1, <2>1, <2>2, <2>3 DEF Newer
<1>6. CASE \/ \E p \in Peers : GetEvents(p) \/ SendGossip(p)
           \/ \E q \in Nodes : UpdateHeartbeat(q)
           \/ UNCHANGED vars
  BY <1>1, <1>6 DEF GetEvents, SendGossip, UpdateHeartbeat, vars
<1> QED
  BY <1>2, <1>3, <1>4, <1>5, <1>6 DEF Next

\* No message takes a peer back to an older heartbeat.
THEOREM MessagesDoNotGoBack == Spec => OnlyCallsGoBack
<1>1. TypeOK /\ [Next]_vars =>
        [\A n \in Peers, m \in Nodes :
           members'[n][m].heartbeat < members[n][m].heartbeat
           => \/ HandleLeave(n, m)
              \/ \E h \in 0 .. beat[m] : RegisterNode(n, m, h) \/ HandleRejoin(n, m, h)]_vars
  BY GoingBackStep
<1> QED
  BY <1>1, TypeCorrect, PTL DEF Spec, OnlyCallsGoBack

-----------------------------------------------------------------------------
(* Failed members. *)

\* RevivalIsNews for one step.
Revival ==
    \A n \in Peers, m \in Nodes :
        /\ members[n][m].status = "Disconnected"
        /\ members'[n][m].status = "Connected"
        => \/ members'[n][m].heartbeat > members[n][m].heartbeat
           \/ \E h \in 0 .. beat[m] : RegisterNode(n, m, h) \/ HandleRejoin(n, m, h)

LEMMA RevivalStep == TypeOK /\ [Next]_vars => [Revival]_vars
<1> SUFFICES ASSUME TypeOK, [Next]_vars,
                    NEW p \in Peers, NEW q \in Nodes,
                    members[p][q].status = "Disconnected",
                    members'[p][q].status = "Connected"
             PROVE  \/ members'[p][q].heartbeat > members[p][q].heartbeat
                    \/ \E h \in 0 .. beat[q] : RegisterNode(p, q, h) \/ HandleRejoin(p, q, h)
  BY DEF Revival
<1>1. members'[p][q] # members[p][q]
  OBVIOUS
<1>2. ASSUME NEW n \in Peers, NEW m \in Nodes, NEW h \in 0 .. beat[m],
             RegisterNode(n, m, h) \/ HandleRejoin(n, m, h)
      PROVE  p = n /\ q = m
  <2>1. SetMember(n, m, Alive(h))
    BY <1>2 DEF RegisterNode, HandleRejoin
  <2> QED
    BY <1>1, <2>1, SetMemberFrame
<1>3. ASSUME NEW n \in Peers, NEW m \in Nodes, HandleLeave(n, m)
      PROVE  FALSE
  <2>1. SetMember(n, m, Absent)
    BY <1>1, <1>3 DEF HandleLeave
  <2>2. members'[p][q] = Absent
    BY <1>1, <2>1, SetMemberFrame
  <2> QED
    BY <2>2 DEF Absent
<1>4. ASSUME NEW n \in Peers, NEW m \in Nodes, HandleFailure(n, m)
      PROVE  FALSE
  <2> DEFINE failed == [members[n][m] EXCEPT !.status = "Disconnected"]
  <2>1. SetMember(n, m, failed) /\ members[n][m] # Absent
    BY <1>1, <1>4 DEF HandleFailure
  <2>2. members[n][m] \in Info
    BY <2>1 DEF TypeOK
  <2>3. failed.status = "Disconnected"
    BY <2>2 DEF Info
  <2>4. members'[p][q] = failed
    <3> HIDE DEF failed
    <3> QED
      BY <1>1, <2>1, SetMemberFrame
  <2> QED
    BY <2>3, <2>4
<1>5. ASSUME NEW n \in Peers, NEW message \in Messages, ProcessGossip(n, message)
      PROVE  members'[p][q].heartbeat > members[p][q].heartbeat
  <2>1. p = n /\ members'[p][q] = message[q] /\ Newer(message[q], members[p][q])
    BY <1>1, <1>5, ProcessGossipFrame
  <2>2. members[p][q] # Absent
    BY DEF Absent
  <2> QED
    BY <2>1, <2>2 DEF Newer
<1>6. ASSUME UNCHANGED members
      PROVE  FALSE
  BY <1>1, <1>6
<1> QED
  BY <1>2, <1>3, <1>4, <1>5, <1>6 DEF Next, GetEvents, SendGossip, UpdateHeartbeat, vars

\* A failed member comes back only with a later heartbeat or by joining anew
\* (process_gossip compares heartbeats strictly, and failures keep theirs).
THEOREM FailuresAreNotUndone == Spec => RevivalIsNews
<1>1. TypeOK /\ [Next]_vars => [Revival]_vars
  BY RevivalStep
<1>2. Spec => [][Revival]_vars
  BY <1>1, TypeCorrect, PTL DEF Spec
<1> QED
  BY <1>2 DEF RevivalIsNews, Revival

-----------------------------------------------------------------------------
(* Events. *)

\* The status that an event announces; None announces the initial table.
Announced(n, m, event) ==
    CASE event \in {"Join", "Rejoin"} -> "Connected"
      [] event = "Failure" -> "Disconnected"
      [] event = "Leave" -> "Absent"
      [] OTHER -> IF m = n THEN "Connected" ELSE "Absent"

LEMMA PushFrame ==
    ASSUME TypeOK, NEW n \in Peers, NEW m \in Nodes, NEW event, Push(n, m, event),
           NEW p \in Listeners, NEW q \in Nodes
    PROVE  lastEvent'[p][q] = IF p = n /\ q = m THEN event ELSE lastEvent[p][q]
<1>1. p \in Peers
  BY PeersAssumption
<1>2. lastEvent[p] \in [Nodes -> {"None", "Join", "Leave", "Failure", "Rejoin"}]
  BY <1>1 DEF TypeOK
<1>3. CASE p = n
  <2>1. lastEvent' = [lastEvent EXCEPT ![n] = [lastEvent[n] EXCEPT ![m] = event]]
    BY <1>3 DEF Push
  <2>2. lastEvent'[p] = [lastEvent[p] EXCEPT ![m] = event]
    BY <1>1, <1>3, <2>1 DEF TypeOK
  <2> QED
    BY <1>2, <1>3, <2>2
<1>4. CASE p # n
  BY <1>1, <1>4 DEF Push, TypeOK
<1> QED
  BY <1>3, <1>4

\* Writing an entry together with its event keeps table and events in step.
LEMMA SetAndPush ==
    ASSUME TypeOK, LastEventMatchesTable, NEW n \in Peers, NEW m \in Nodes,
           NEW info, NEW event, SetMember(n, m, info), Push(n, m, event),
           info.status = Announced(n, m, event)
    PROVE  LastEventMatchesTable'
<1> SUFFICES ASSUME NEW p \in Listeners, NEW q \in Nodes, q \notin gossiped'[p]
             PROVE  members'[p][q].status = Announced(p, q, lastEvent'[p][q])
  BY DEF LastEventMatchesTable, Announced
<1>1. p \in Peers
  BY PeersAssumption
<1>2. lastEvent'[p][q] = IF p = n /\ q = m THEN event ELSE lastEvent[p][q]
  BY PushFrame
<1>3. /\ members'[p][q] = IF p = n /\ q = m THEN info ELSE members[p][q]
      /\ ~(p = n /\ q = m) => q \notin gossiped[p]
  BY <1>1, SetMemberFrame
<1>4. q \notin gossiped[p] => members[p][q].status = Announced(p, q, lastEvent[p][q])
  BY DEF LastEventMatchesTable, Announced
<1> QED
  BY <1>2, <1>3, <1>4

LEMMA EventsInit == Init => LastEventMatchesTable
<1> SUFFICES ASSUME Init, NEW p \in Listeners, NEW q \in Nodes
             PROVE  members[p][q].status = Announced(p, q, lastEvent[p][q])
  BY DEF LastEventMatchesTable, Announced
<1>1. p \in Peers
  BY PeersAssumption
<1>2. lastEvent[p][q] = "None" /\ members[p][q] = IF q = p THEN Alive(0) ELSE Absent
  BY <1>1 DEF Init
<1> QED
  BY <1>2 DEF Announced, Alive, Absent

LEMMA EventsStep ==
    TypeOK /\ LastEventMatchesTable /\ [Next]_vars => LastEventMatchesTable'
<1> SUFFICES ASSUME TypeOK, LastEventMatchesTable, [Next]_vars
             PROVE  LastEventMatchesTable'
  OBVIOUS
<1>1. ASSUME NEW n \in Peers, NEW m \in Nodes, NEW h \in 0 .. beat[m],
             RegisterNode(n, m, h) \/ HandleRejoin(n, m, h)
      PROVE  LastEventMatchesTable'
  <2>1. Alive(h).status = "Connected"
    BY DEF Alive
  <2>2. Announced(n, m, "Join") = "Connected" /\ Announced(n, m, "Rejoin") = "Connected"
    BY DEF Announced
  <2> QED
    BY <1>1, <2>1, <2>2, SetAndPush DEF RegisterNode, HandleRejoin
<1>2. ASSUME NEW n \in Peers, NEW m \in Nodes, HandleLeave(n, m)
      PROVE  LastEventMatchesTable'
  <2>1. CASE members[n][m] = Absent
    BY <1>2, <2>1 DEF HandleLeave, LastEventMatchesTable
  <2>2. CASE members[n][m] # Absent
    <3>1. Absent.status = Announced(n, m, "Leave")
      BY DEF Announced, Absent
    <3> QED
      BY <1>2, <2>2, <3>1, SetAndPush DEF HandleLeave
  <2> QED
    BY <2>1, <2>2
<1>3. ASSUME NEW n \in Peers, NEW m \in Nodes, HandleFailure(n, m)
      PROVE  LastEventMatchesTable'
  <2>1. CASE members[n][m] = Absent
    BY <1>3, <2>1 DEF HandleFailure, LastEventMatchesTable
  <2>2. CASE members[n][m] # Absent
    <3> DEFINE failed == [members[n][m] EXCEPT !.status = "Disconnected"]
    <3>1. members[n][m] \in Info
      BY <2>2 DEF TypeOK
    <3>2. failed.status = "Disconnected"
      BY <3>1 DEF Info
    <3>3. SetMember(n, m, failed) /\ Push(n, m, "Failure")
      BY <1>3, <2>2 DEF HandleFailure
    <3>4. failed.status = Announced(n, m, "Failure")
      BY <3>2 DEF Announced
    <3> HIDE DEF failed
    <3> QED
      BY <3>3, <3>4, SetAndPush
  <2> QED
    BY <2>1, <2>2
<1>4. ASSUME NEW n \in Peers, NEW message \in Messages, ProcessGossip(n, message)
      PROVE  LastEventMatchesTable'
  <2> SUFFICES ASSUME NEW p \in Listeners, NEW q \in Nodes, q \notin gossiped'[p]
               PROVE  members'[p][q].status = Announced(p, q, lastEvent'[p][q])
    BY DEF LastEventMatchesTable, Announced
  <2>1. p \in Peers
    BY PeersAssumption
  <2>2. q \notin gossiped[p] /\ members'[p][q] = members[p][q]
    BY <1>4, <2>1, ProcessGossipFrame
  <2>3. lastEvent' = lastEvent
    BY <1>4 DEF ProcessGossip
  <2> QED
    BY <2>2, <2>3 DEF LastEventMatchesTable, Announced
<1>5. ASSUME UNCHANGED <<members, lastEvent, gossiped>>
      PROVE  LastEventMatchesTable'
  BY <1>5 DEF LastEventMatchesTable
<1> QED
  BY <1>1, <1>2, <1>3, <1>4, <1>5 DEF Next, GetEvents, SendGossip, UpdateHeartbeat, vars

\* Except for what gossip wrote, a peer's last event about a member says what its
\* table holds.
THEOREM EventsMatchTables == Spec => []LastEventMatchesTable
<1>1. TypeOK /\ LastEventMatchesTable /\ [Next]_vars => LastEventMatchesTable'
  BY EventsStep
<1> QED
  BY EventsInit, <1>1, TypeCorrect, PTL DEF Spec

-----------------------------------------------------------------------------
(* Router. *)

\* A node has a route before it is a peer.
AddingHasRoute ==
    \A t \in Threads : adding[t] # Nowhere => CalculateRoute(adding[t]) # Nowhere

RouterInv == RouterTypeOK /\ AddingHasRoute /\ PeersCanBeReached /\ RoutesLeadToMembers

LEMMA RouterInvInit == RouterInit => RouterInv
BY RouterAssumption
   DEF RouterInit, RouterInv, RouterTypeOK, AddingHasRoute, PeersCanBeReached,
       RoutesLeadToMembers, CalculateRoute, NoRoute

\* What a route that is put into the table is worth.
LEMMA RouteFacts ==
    ASSUME NEW r \in Via \cup {Direct}, NEW n \in RouterNodes
    PROVE  (IF r.distance = 1 THEN n ELSE r.next_hop) # Nowhere
BY RouterAssumption DEF Via, Direct

LEMMA RouterStep == RouterInv /\ [RouterNext]_routerVars => RouterInv'
<1> SUFFICES ASSUME RouterInv, [RouterNext]_routerVars PROVE RouterInv'
  OBVIOUS
<1> USE RouterAssumption
    DEF RouterInv, RouterTypeOK, AddingHasRoute, PeersCanBeReached, RoutesLeadToMembers,
        CalculateRoute
<1>1. ASSUME NEW t \in Threads, NEW n \in RouterNodes, AddPeer(t, n) PROVE RouterInv'
  BY <1>1, RouteFacts DEF AddPeer
<1>2. ASSUME NEW t \in Threads, PushPeer(t) PROVE RouterInv'
  BY <1>2 DEF PushPeer
<1>3. ASSUME NEW n \in RouterNodes, NEW route \in Via, AddRoute(n, route) PROVE RouterInv'
  BY <1>3, RouteFacts DEF AddRoute
<1>4. ASSUME NEW list \in SUBSET RouterNodes, UpdateRoutes(list) PROVE RouterInv'
  <2>1. \A n \in RouterNodes : CalculateRoute(n)' # Nowhere \/ CalculateRoute(n)' = CalculateRoute(n)
    BY <1>4, RouteFacts DEF UpdateRoutes
  <2>2. \A n \in RouterNodes \ (list \ {Self}) : CalculateRoute(n)' = CalculateRoute(n)
    BY <1>4 DEF UpdateRoutes
  <2>3. RouterTypeOK'
    BY <1>4 DEF UpdateRoutes
  <2>4. AddingHasRoute' /\ PeersCanBeReached'
    BY <1>4, <2>1 DEF UpdateRoutes
  <2>5. RoutesLeadToMembers'
    BY <1>4, <2>2 DEF UpdateRoutes
  <2> QED
    BY <2>3, <2>4, <2>5
<1>5. CASE UNCHANGED routerVars
  BY <1>5 DEF routerVars
<1> QED
  BY <1>1, <1>2, <1>3, <1>4, <1>5 DEF RouterNext

LEMMA RouterInvHolds == RouterSpec => []RouterInv
BY RouterInvInit, RouterStep, PTL DEF RouterSpec

\* RouterTypeOK is an invariant.
THEOREM RouterTypeCorrect == RouterSpec => []RouterTypeOK
BY RouterInvHolds, PTL DEF RouterInv

\* The two locks of add_peer are taken in an order that shows no peer without route.
THEOREM PeersAreReached == RouterSpec => []PeersCanBeReached
BY RouterInvHolds, PTL DEF RouterInv

\* No route is invented, and gossip makes none from the node to itself.
THEOREM RoutesAreFounded == RouterSpec => []RoutesLeadToMembers
BY RouterInvHolds, PTL DEF RouterInv

-----------------------------------------------------------------------------
(* Protocol. *)

LEMMA ProtocolTypeInit == ProtocolInit => ProtocolTypeOK
<1>1. (CHOOSE v \in Versions : TRUE) \in Versions
  BY VersionsAssumption
<1> QED
  BY <1>1, DaysAssumption DEF ProtocolInit, ProtocolTypeOK, Policy, NewPolicy

LEMMA ProtocolTypeStep == ProtocolTypeOK /\ [ProtocolNext]_protocolVars => ProtocolTypeOK'
<1> SUFFICES ASSUME ProtocolTypeOK, [ProtocolNext]_protocolVars PROVE ProtocolTypeOK'
  OBVIOUS
<1> USE DaysAssumption DEF ProtocolTypeOK
<1>1. ASSUME NEW v \in Versions, NEW versions \in SUBSET Versions, Receive(v, versions)
      PROVE  ProtocolTypeOK'
  BY <1>1 DEF Receive, ValidateVersion
<1>2. ASSUME NEW days \in -MaxTerm .. MaxTerm, Deprecate(days) PROVE ProtocolTypeOK'
  BY <1>2 DEF Deprecate, Policy, NewPolicy
<1>3. ASSUME NEW d \in 0 .. MaxDay, SetClock(d) PROVE ProtocolTypeOK'
  BY <1>3 DEF SetClock
<1>4. CASE UNCHANGED protocolVars
  BY <1>4 DEF protocolVars
<1> QED
  BY <1>1, <1>2, <1>3, <1>4 DEF ProtocolNext

\* ProtocolTypeOK is an invariant.
THEOREM ProtocolTypeCorrect == ProtocolSpec => []ProtocolTypeOK
BY ProtocolTypeInit, ProtocolTypeStep, PTL DEF ProtocolSpec

\* is_newer_than is a strict total order.
LEMMA NewerIsAnOrder ==
    ASSUME NEW v \in Versions, NEW w \in Versions
    PROVE  /\ v # w <=> IsNewerThan(v, w) \/ IsNewerThan(w, v)
           /\ ~(IsNewerThan(v, w) /\ IsNewerThan(w, v))
<1> DEFINE V == [major : Nat, minor : Nat, patch : Nat]
<1>1. v \in V /\ w \in V
  BY VersionsAssumption
<1>2. v = w <=> v.major = w.major /\ v.minor = w.minor /\ v.patch = w.patch
  BY <1>1
<1> QED
  BY <1>1, <1>2 DEF IsNewerThan

\* Compatible versions have only compatible ones between them.
LEMMA BetweenIsCompatible ==
    ASSUME NEW v \in Versions, NEW u \in Versions, NEW w \in Versions,
           IsNewerThan(v, u), IsNewerThan(u, w), IsCompatible(v, w)
    PROVE  IsCompatible(u, v)
BY VersionsAssumption DEF IsNewerThan, IsCompatible

\* The verdict is always the one for the version and the set it was asked for.
VerdictIsCurrent == verdict = ValidateVersion(version, supported)

\* A receiver takes every message of a release between two that it supports and
\* that are compatible, whatever the releases are.
THEOREM UpgradesAreSmooth == ProtocolSpec => []UpgradesStayCompatible
<1>1. ProtocolInit => VerdictIsCurrent
  BY DEF ProtocolInit, VerdictIsCurrent, ValidateVersion, IsCompatible
<1>2. VerdictIsCurrent /\ [ProtocolNext]_protocolVars => VerdictIsCurrent'
  BY DEF VerdictIsCurrent, ProtocolNext, Receive, Deprecate, SetClock, protocolVars
<1>3. ProtocolTypeOK /\ VerdictIsCurrent => UpgradesStayCompatible
  <2> SUFFICES ASSUME ProtocolTypeOK, VerdictIsCurrent,
                      NEW v \in supported \cup {version}, NEW w \in supported \cup {version}
               PROVE  /\ v # w <=> IsNewerThan(v, w) \/ IsNewerThan(w, v)
                      /\ ~(IsNewerThan(v, w) /\ IsNewerThan(w, v))
                      /\ /\ IsNewerThan(v, version) /\ IsNewerThan(version, w) /\ IsCompatible(v, w)
                         /\ {v, w} \subseteq supported
                         => verdict = "Ok"
    BY DEF UpgradesStayCompatible
  <2>1. v \in Versions /\ w \in Versions /\ version \in Versions
    BY DEF ProtocolTypeOK
  <2>2. ASSUME IsNewerThan(v, version), IsNewerThan(version, w), IsCompatible(v, w), v \in supported
        PROVE  verdict = "Ok"
    BY <2>1, <2>2, BetweenIsCompatible DEF VerdictIsCurrent, ValidateVersion
  <2> QED
    BY <2>1, <2>2, NewerIsAnOrder
<1> QED
  BY <1>1, <1>2, <1>3, ProtocolTypeCorrect, PTL DEF ProtocolSpec
=============================================================================
