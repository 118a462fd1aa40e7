----------------------------- MODULE SerialCalls ------------------------------
(* What the tool calls of a turn are promised by the client they share         *)
(* (core/include/mcp_client.h:35-37) and by the loop that makes them           *)
(* (core/src/agent_controller.cpp:363-385), without pipes, ids, mutex or       *)
(* tasks: calls are made in rounds, one at a time is served, each ends once,   *)
(* with its own answer or without one, and the next round waits for them all.  *)
CONSTANT Call

VARIABLES phase,    \* phase[c]: "none", "asked", "served", "ended"
          result    \* result[c]: what the call returned to the round it is of

vars == <<phase, result>>

NoResult == [kind |-> "none"]
Failure == [kind |-> "error"]
Own(c) == [kind |-> "result", from |-> c]

\* What other tools return.
Elsewhere == [kind : {"text", "thrown"}]

Init ==
    /\ phase = [c \in Call |-> "none"]
    /\ result = [c \in Call |-> NoResult]

Settled == \A c \in Call : phase[c] \in {"none", "ended"}

Ask ==
    /\ Settled
    /\ \A c \in Call : result[c] = NoResult
    /\ \E C \in SUBSET {c \in Call : phase[c] = "none"} :
          phase' = [c \in Call |-> IF c \in C THEN "asked" ELSE phase[c]]
    /\ UNCHANGED result

Serve(c) ==
    /\ phase[c] = "asked"
    /\ \A d \in Call : phase[d] # "served"
    /\ phase' = [phase EXCEPT ![c] = "served"]
    /\ UNCHANGED result

End(c, R) ==
    /\ phase' = [phase EXCEPT ![c] = "ended"]
    /\ \E r \in R : result' = [result EXCEPT ![c] = r]

\* A tool of another kind, or no tool at all.
Settle(c) ==
    /\ phase[c] = "asked"
    /\ End(c, Elsewhere \cup {Failure})

Answer(c) ==
    /\ phase[c] = "served"
    /\ End(c, {Own(c), Failure})

Gather ==
    /\ Settled
    /\ result' = [c \in Call |-> NoResult]
    /\ UNCHANGED phase

Next ==
    \/ Ask
    \/ \E c \in Call : Serve(c) \/ Settle(c) \/ Answer(c)
    \/ Gather

Spec == Init /\ [][Next]_vars
===============================================================================
