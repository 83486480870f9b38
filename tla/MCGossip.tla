------------------------------ MODULE MCGossip ------------------------------
(* Model values for Gossip, Router and Protocol.  The three share no variable:
   in each behavior one of them runs, and the others rest. *)
EXTENDS Gossip, Router, Protocol

CONSTANTS a, b

VARIABLE part  \* the one that runs

\* Two peers, one of which stamps a heartbeat.
OnlyBBeats == [m \in Nodes |-> IF m = b THEN 1 ELSE 0]

\* Two majors; one of them has had patches and a minor release.
Releases == {[major |-> v[1], minor |-> v[2], patch |-> v[3]] :
                v \in {<<1, 0, 0>>, <<1, 0, 1>>, <<1, 1, 0>>, <<2, 0, 0>>, <<2, 0, 1>>}}

MCInit == Init /\ RouterInit /\ ProtocolInit /\ part \in {"gossip", "router", "protocol"}

MCNext ==
    /\ UNCHANGED part
    /\ \/ part = "gossip" /\ Next /\ UNCHANGED <<routerVars, protocolVars>>
       \/ part = "router" /\ RouterNext /\ UNCHANGED <<vars, protocolVars>>
       \/ part = "protocol" /\ ProtocolNext /\ UNCHANGED <<vars, routerVars>>

MCSpec == MCInit /\ [][MCNext]_<<vars, routerVars, protocolVars, part>>
=============================================================================
