---------------------------- MODULE SerialDelivery ----------------------------
(* What worker_pool promises (core/include/worker_pool.h:23-33), without its   *)
(* slots, threads, mutexes and condition variables: every message handed over  *)
(* is processed exactly once, the messages of one conversation one at a time   *)
(* in the order they were handed over, conversations independently, and        *)
(* closing the pool finishes whatever was handed over before.                  *)
EXTENDS Sequences

CONSTANTS Convo,          \* conversation ids
          Message,        \* messages
          ConvoOf,        \* the conversation a message belongs to
          None            \* not a message

VARIABLES pending,        \* pending[c]: handed over, not begun, oldest first
          active,         \* active[c]: the message being processed, or None
          finished,       \* finished[c]: processed, oldest first
          phase           \* "open", "closing" or "closed"

vars == <<pending, active, finished, phase>>

Init ==
    /\ pending = [c \in Convo |-> <<>>]
    /\ active = [c \in Convo |-> None]
    /\ finished = [c \in Convo |-> <<>>]
    /\ phase = "open"

Submit(m) ==
    /\ phase = "open"
    /\ pending' = [pending EXCEPT ![ConvoOf[m]] = Append(@, m)]
    /\ UNCHANGED <<active, finished, phase>>

Begin(c) ==
    /\ active[c] = None
    /\ pending[c] # <<>>
    /\ active' = [active EXCEPT ![c] = Head(pending[c])]
    /\ pending' = [pending EXCEPT ![c] = Tail(@)]
    /\ UNCHANGED <<finished, phase>>

End(c) ==
    /\ active[c] # None
    /\ finished' = [finished EXCEPT ![c] = Append(@, active[c])]
    /\ active' = [active EXCEPT ![c] = None]
    /\ UNCHANGED <<pending, phase>>

Close ==
    /\ phase = "open"
    /\ phase' = "closing"
    /\ UNCHANGED <<pending, active, finished>>

Closed ==
    /\ phase = "closing"
    /\ \A c \in Convo : pending[c] = <<>> /\ active[c] = None
    /\ phase' = "closed"
    /\ UNCHANGED <<pending, active, finished>>

Next ==
    \/ \E m \in Message : Submit(m)
    \/ \E c \in Convo : Begin(c) \/ End(c)
    \/ Close
    \/ Closed

Safety == Init /\ [][Next]_vars

Spec ==
    /\ Safety
    /\ \A c \in Convo : WF_vars(Begin(c)) /\ WF_vars(End(c))
    /\ WF_vars(Closed)
===============================================================================
