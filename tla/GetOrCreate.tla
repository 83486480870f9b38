---------------------------- MODULE GetOrCreate ----------------------------
(***************************************************************************)
(* What an idempotent submission promises, with each answer a single       *)
(* indivisible step: a key is bound once, by the submission that creates   *)
(* its graph, and every submission with the key is answered with that      *)
(* graph.                                                                  *)
(***************************************************************************)
CONSTANTS Clients, GraphIds, Keys, NoKey, None

VARIABLES
    binding,   \* the graph each key stands for
    request,   \* the key of each client's submission that has no answer yet
    answer     \* the graph id each client was last answered with

vars == <<binding, request, answer>>

Init ==
    /\ binding = [k \in Keys |-> None]
    /\ request = [c \in Clients |-> NoKey]
    /\ answer = [c \in Clients |-> None]

\* A client asks for the graph of an unbound key.
Ask(c, k) ==
    /\ request[c] = NoKey
    /\ binding[k] = None
    /\ request' = [request EXCEPT ![c] = k]
    /\ UNCHANGED <<binding, answer>>

\* Get or create: only an unbound key takes the new graph.
AnswerAsked(c, g, k) ==
    /\ request[c] = k
    /\ binding' = [binding EXCEPT ![k] = IF @ = None THEN g ELSE @]
    /\ answer' = [answer EXCEPT ![c] = binding'[k]]
    /\ request' = [request EXCEPT ![c] = NoKey]

AnswerKnown(c, k) ==
    /\ request[c] = NoKey
    /\ binding[k] # None
    /\ answer' = [answer EXCEPT ![c] = binding[k]]
    /\ UNCHANGED <<binding, request>>

\* A submission without a key always creates.
AnswerKeyless(c, g) ==
    /\ request[c] = NoKey
    /\ answer' = [answer EXCEPT ![c] = g]
    /\ UNCHANGED <<binding, request>>

\* Any other call answers with something that is not a graph id.
OtherCall(c) ==
    /\ request[c] = NoKey
    /\ answer' = [answer EXCEPT ![c] = None]
    /\ UNCHANGED <<binding, request>>

Next ==
    \E c \in Clients :
        \/ \E k \in Keys : Ask(c, k) \/ AnswerKnown(c, k)
        \/ \E g \in GraphIds : AnswerKeyless(c, g)
        \/ \E g \in GraphIds, k \in Keys : AnswerAsked(c, g, k)
        \/ OtherCall(c)

Spec == Init /\ [][Next]_vars
=============================================================================
