------------------------------- MODULE Gossip -------------------------------
(***************************************************************************)
(* GossipProtocol (kineplex-net/src/gossip.rs): membership tables of       *)
(* several nodes that exchange what they know.                             *)
(*                                                                         *)
(* Every operation holds the members lock from start to end (and takes the *)
(* lock of pending_events inside), so it is one step.  What a node knows   *)
(* of a member is its status and last_heartbeat; heartbeats of different   *)
(* members are never compared, so each member has a clock of its own.      *)
(*                                                                         *)
(* The repository has no transport: members and messages travel however    *)
(* the caller likes.  A message may hold any information that was ever     *)
(* sent, and may arrive late, twice, or never.                             *)
(***************************************************************************)
EXTENDS Naturals

CONSTANTS
    Nodes,      \* the NetNodeId values in use
    Peers,      \* the nodes whose tables are modelled
    Listeners,  \* the peers whose events somebody drains
    LastBeat    \* bound: LastBeat[m] is the last heartbeat member m stamps

ASSUME PeersAssumption == Listeners \subseteq Peers /\ Peers \subseteq Nodes
ASSUME LastBeatAssumption == LastBeat \in [Nodes -> Nat]

VARIABLES
    members,    \* members[n][m]: what peer n's table holds about m
    beat,       \* the last heartbeat stamped for each member
    sent,       \* sent[m]: the information about m that was ever sent
    lastEvent,  \* lastEvent[n][m]: the last event about m that n pushed
    undrained,  \* undrained[n]: the members with events in pending_events
    gossiped    \* history: gossiped[n]: the entries of n that gossip wrote last

vars == <<members, beat, sent, lastEvent, undrained, gossiped>>

\* A NodeInfo, as far as this module looks at it.  No code constructs the
\* statuses Connecting and Failed.
Info == [status : {"Connected", "Disconnected"}, heartbeat : Nat]
Absent == [status |-> "Absent", heartbeat |-> 0]

\* NodeInfo::new and update_heartbeat give a connected member.
Alive(h) == [status |-> "Connected", heartbeat |-> h]

TypeOK ==
    /\ members \in [Peers -> [Nodes -> Info \cup {Absent}]]
    /\ beat \in [Nodes -> Nat]
    /\ sent \in [Nodes -> SUBSET Info]
    /\ lastEvent \in [Peers -> [Nodes -> {"None", "Join", "Leave", "Failure", "Rejoin"}]]
    /\ undrained \in [Peers -> SUBSET Nodes]
    /\ gossiped \in [Peers -> SUBSET Nodes]

Init ==
    /\ members = [n \in Peers |-> [m \in Nodes |-> IF m = n THEN Alive(0) ELSE Absent]]
    /\ beat = [m \in Nodes |-> 0]
    /\ sent = [m \in Nodes |-> {}]
    /\ lastEvent = [n \in Peers |-> [m \in Nodes |-> "None"]]
    /\ undrained = [n \in Peers |-> {}]
    /\ gossiped = [n \in Peers |-> {}]

-----------------------------------------------------------------------------
(* Tables. *)

\* Mutant: information as old as what is known counts as newer.
NotOlder(info, known) ==
    /\ info # Absent
    /\ known = Absent \/ info.heartbeat >= known.heartbeat

\* Mutant: a failure counts as news whatever its heartbeat.
NewerOrFailure(info, known) ==
    /\ info # Absent
    /\ \/ known = Absent
       \/ info.heartbeat > known.heartbeat
       \/ info.status = "Disconnected"

\* process_gossip takes information about an unknown member, and otherwise only
\* information with a later heartbeat.
Newer(info, known) ==
    /\ info # Absent
    /\ known = Absent \/ info.heartbeat > known.heartbeat

Merge(table, message) ==
    [m \in Nodes |-> IF Newer(message[m], table[m]) THEN message[m] ELSE table[m]]

SetMember(n, m, info) ==
    /\ members' = [members EXCEPT ![n][m] = info]
    /\ gossiped' = [gossiped EXCEPT ![n] = @ \ {m}]

\* pending_events.push.  Nobody ever looks at the events of a peer that is not
\* a listener.
Push(n, m, event) ==
    IF n \in Listeners
    THEN /\ lastEvent' = [lastEvent EXCEPT ![n][m] = event]
         /\ undrained' = [undrained EXCEPT ![n] = @ \cup {m}]
    ELSE UNCHANGED <<lastEvent, undrained>>

-----------------------------------------------------------------------------
(* Operations of peer n. *)

\* A member registers, or is registered, with any NodeInfo made for it so far.
RegisterNode(n, m, h) ==
    /\ SetMember(n, m, Alive(h))
    /\ Push(n, m, "Join")
    /\ UNCHANGED <<beat, sent>>

HandleRejoin(n, m, h) ==
    /\ SetMember(n, m, Alive(h))
    /\ Push(n, m, "Rejoin")
    /\ UNCHANGED <<beat, sent>>

HandleLeave(n, m) ==
    /\ IF members[n][m] # Absent
       THEN SetMember(n, m, Absent) /\ Push(n, m, "Leave")
       ELSE UNCHANGED <<members, gossiped, lastEvent, undrained>>
    /\ UNCHANGED <<beat, sent>>

\* Mutant: the failure is stamped with a heartbeat of its own.
HandleFailureStamping(n, m) ==
    /\ IF members[n][m] # Absent
       THEN /\ SetMember(n, m, [status |-> "Disconnected",
                                heartbeat |-> members[n][m].heartbeat + 1])
            /\ Push(n, m, "Failure")
       ELSE UNCHANGED <<members, gossiped, lastEvent, undrained>>
    /\ UNCHANGED <<beat, sent>>

\* Mutant: the failure sets a status that nothing else handles.
HandleFailureFailed(n, m) ==
    /\ IF members[n][m] # Absent
       THEN /\ SetMember(n, m, [members[n][m] EXCEPT !.status = "Failed"])
            /\ Push(n, m, "Failure")
       ELSE UNCHANGED <<members, gossiped, lastEvent, undrained>>
    /\ UNCHANGED <<beat, sent>>

\* Mutant: the event is pushed whether or not the member is known.
HandleFailureAnyway(n, m) ==
    /\ IF members[n][m] # Absent
       THEN SetMember(n, m, [members[n][m] EXCEPT !.status = "Disconnected"])
       ELSE UNCHANGED <<members, gossiped>>
    /\ Push(n, m, "Failure")
    /\ UNCHANGED <<beat, sent>>

\* A failed member keeps the heartbeat it had.
HandleFailure(n, m) ==
    /\ IF members[n][m] # Absent
       THEN /\ SetMember(n, m, [members[n][m] EXCEPT !.status = "Disconnected"])
            /\ Push(n, m, "Failure")
       ELSE UNCHANGED <<members, gossiped, lastEvent, undrained>>
    /\ UNCHANGED <<beat, sent>>

\* process_gossip pushes no event.
ProcessGossip(n, message) ==
    /\ members' = [members EXCEPT ![n] = Merge(@, message)]
    /\ gossiped' = [gossiped EXCEPT ![n] =
                        @ \cup {m \in Nodes : Newer(message[m], members[n][m])}]
    /\ UNCHANGED <<beat, sent, lastEvent, undrained>>

\* get_events hands all pending events to the listener, in order.
GetEvents(n) ==
    /\ undrained[n] # {}
    /\ undrained' = [undrained EXCEPT ![n] = {}]
    /\ UNCHANGED <<members, beat, sent, lastEvent, gossiped>>

-----------------------------------------------------------------------------
(* The members themselves, and the network between them. *)

\* A member stamps a new NodeInfo and makes it known.
UpdateHeartbeat(m) ==
    /\ beat[m] < LastBeat[m]
    /\ beat' = [beat EXCEPT ![m] = @ + 1]
    /\ sent' = [sent EXCEPT ![m] = @ \cup {Alive(beat[m] + 1)}]
    /\ UNCHANGED <<members, lastEvent, undrained, gossiped>>

\* A peer sends what get_all_members answers.
SendGossip(n) ==
    /\ sent' = [m \in Nodes |-> sent[m] \cup ({members[n][m]} \ {Absent})]
    /\ UNCHANGED <<members, beat, lastEvent, undrained, gossiped>>

\* A message: for each member it lists, something that was sent about it.
Messages == {message \in [Nodes -> {Absent} \cup UNION {sent[m] : m \in Nodes}] :
                \A m \in Nodes : message[m] \in sent[m] \cup {Absent}}

Next ==
    \/ \E n \in Peers :
         \/ \E m \in Nodes : \E h \in 0 .. beat[m] : RegisterNode(n, m, h) \/ HandleRejoin(n, m, h)
         \/ \E m \in Nodes : HandleLeave(n, m) \/ HandleFailure(n, m)
         \/ \E message \in Messages : ProcessGossip(n, message)
         \/ GetEvents(n)
         \/ SendGossip(n)
    \/ \E m \in Nodes : UpdateHeartbeat(m)

Spec == Init /\ [][Next]_vars

-----------------------------------------------------------------------------
(* Properties *)

\* No table and no message is ahead of the member it is about: if one were, what
\* the member says next would be dropped as old news by process_gossip.
NothingIsAheadOfItsMember ==
    \A m \in Nodes :
        /\ \A n \in Peers : members[n][m] # Absent => members[n][m].heartbeat <= beat[m]
        /\ \A info \in sent[m] : info.heartbeat <= beat[m]

\* A member that a peer holds for failed is held for alive again only when it
\* has shown a later heartbeat, or has joined that peer anew: copies of what was
\* known before the failure do not revive it, in whatever order they arrive.
RevivalIsNews ==
    [][\A n \in Peers, m \in Nodes :
         /\ members[n][m].status = "Disconnected"
         /\ members'[n][m].status = "Connected"
         => \/ members'[n][m].heartbeat > members[n][m].heartbeat
            \/ \E h \in 0 .. beat[m] : RegisterNode(n, m, h) \/ HandleRejoin(n, m, h)]_vars

\* When two peers send each other their tables, both end up with the same
\* members at the same heartbeats.
ExchangeAgreesOnHeartbeats ==
    \A n, p \in Peers : \A m \in Nodes :
        Merge(members[n], members[p])[m].heartbeat = Merge(members[p], members[n])[m].heartbeat

\* The last event a peer pushed about a member says what its table holds, unless
\* gossip has written the entry since: no event is pushed for a change that did
\* not happen, and no local change goes without one.
LastEventMatchesTable ==
    \A n \in Listeners : \A m \in Nodes \ gossiped[n] :
        members[n][m].status =
            CASE lastEvent[n][m] \in {"Join", "Rejoin"} -> "Connected"
              [] lastEvent[n][m] = "Failure" -> "Disconnected"
              [] lastEvent[n][m] = "Leave" -> "Absent"
              [] OTHER -> IF m = n THEN "Connected" ELSE "Absent"
=============================================================================
