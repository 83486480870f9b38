------------------------------- MODULE Router -------------------------------
(***************************************************************************)
(* Router (kineplex-net/src/routing.rs): the routes of one node, which     *)
(* threads add by hand and update from the members that gossip lists.      *)
(*                                                                         *)
(* Every method is one critical section, but for add_peer: it gives the    *)
(* lock of routes back before it takes that of direct_peers.  The list     *)
(* that update_routes gets was read from GossipProtocol at some earlier    *)
(* time, so it is any set of nodes.  A route is what calculate_route looks *)
(* at, its next hop and its distance; direct_peers is taken as a set,      *)
(* though a node that is added twice is in the vector twice.               *)
(***************************************************************************)
EXTENDS Naturals

CONSTANTS
    RouterNodes, \* the NetNodeId values in use
    Self,        \* self_node
    Threads,     \* the callers of add_peer
    MaxDistance, \* bound: the longest route
    Nowhere      \* None

ASSUME RouterAssumption == Self \in RouterNodes /\ Nowhere \notin RouterNodes
ASSUME MaxDistanceAssumption == MaxDistance \in Nat

VARIABLES
    routes,
    direct_peers,
    adding,      \* the node that each thread has a route for and not yet a peer
    byHand,      \* history: the nodes that add_peer or add_route was called for
    listed       \* history: the members that update_routes was ever given

routerVars == <<routes, direct_peers, adding, byHand, listed>>

NoRoute == [next_hop |-> Nowhere, distance |-> 0]

Direct == [next_hop |-> Nowhere, distance |-> 1]

Via == [next_hop : RouterNodes, distance : 1 .. MaxDistance]

RouterTypeOK ==
    /\ routes \in [RouterNodes -> Via \cup {Direct, NoRoute}]
    /\ direct_peers \subseteq RouterNodes
    /\ adding \in [Threads -> RouterNodes \cup {Nowhere}]
    /\ byHand \subseteq RouterNodes
    /\ listed \subseteq RouterNodes

RouterInit ==
    /\ routes = [n \in RouterNodes |-> NoRoute]
    /\ direct_peers = {}
    /\ adding = [t \in Threads |-> Nowhere]
    /\ byHand = {}
    /\ listed = {}

-----------------------------------------------------------------------------

\* Mutant: the peer is known before its route.
AddPeerFirst(t, n) ==
    /\ adding[t] = Nowhere
    /\ direct_peers' = direct_peers \cup {n}
    /\ adding' = [adding EXCEPT ![t] = n]
    /\ byHand' = byHand \cup {n}
    /\ UNCHANGED <<routes, listed>>

\* add_peer's first lock.
AddPeer(t, n) ==
    /\ adding[t] = Nowhere
    /\ routes' = [routes EXCEPT ![n] = Direct]
    /\ adding' = [adding EXCEPT ![t] = n]
    /\ byHand' = byHand \cup {n}
    /\ UNCHANGED <<direct_peers, listed>>

\* add_peer's second lock.
PushPeer(t) ==
    /\ adding[t] # Nowhere
    /\ direct_peers' = direct_peers \cup {adding[t]}
    /\ adding' = [adding EXCEPT ![t] = Nowhere]
    /\ UNCHANGED <<routes, byHand, listed>>

\* add_route replaces whatever route there is, a direct one too.
AddRoute(target, route) ==
    /\ routes' = [routes EXCEPT ![target] = route]
    /\ byHand' = byHand \cup {target}
    /\ UNCHANGED <<direct_peers, adding, listed>>

\* Mutant: the node itself is among the members.
UpdateAllRoutes(members) ==
    /\ routes' = [n \in RouterNodes |-> IF n \in members THEN Direct ELSE routes[n]]
    /\ listed' = listed \cup members
    /\ UNCHANGED <<direct_peers, adding, byHand>>

\* update_routes adds and replaces; it withdraws nothing.
UpdateRoutes(members) ==
    /\ routes' = [n \in RouterNodes |->
                    IF n \in members \ {Self} THEN Direct ELSE routes[n]]
    /\ listed' = listed \cup members
    /\ UNCHANGED <<direct_peers, adding, byHand>>

CalculateRoute(target) ==
    IF routes[target].distance = 1 THEN target ELSE routes[target].next_hop

RouterNext ==
    \/ \E t \in Threads : PushPeer(t) \/ \E n \in RouterNodes : AddPeer(t, n)
    \/ \E n \in RouterNodes, route \in Via : AddRoute(n, route)
    \/ \E members \in SUBSET RouterNodes : UpdateRoutes(members)

RouterSpec == RouterInit /\ [][RouterNext]_routerVars

-----------------------------------------------------------------------------
(* Properties *)

\* Whoever finds a node among get_peers can send to it: calculate_route has an
\* answer, even while add_peer is between its two locks or the route is replaced.
PeersCanBeReached == \A n \in direct_peers : CalculateRoute(n) # Nowhere

\* Every answer of calculate_route is for a node that was added by hand or was
\* another member: gossip makes no route from the node to itself, although its
\* own table lists it.
RoutesLeadToMembers ==
    \A n \in RouterNodes :
        CalculateRoute(n) # Nowhere => n \in byHand \/ (n \in listed /\ n # Self)
=============================================================================
