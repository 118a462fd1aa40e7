------------------------------ MODULE WorkerPool ------------------------------
(* core/src/worker_pool.cpp: one slot (queue, mutex, condition variable,       *)
(* thread) per conversation.  enqueue() is split where it releases map_mutex_  *)
(* and where it releases the slot mutex; a worker is split where it sleeps on  *)
(* the condition variable and where it runs the processor; stop() is split     *)
(* between the atomic flag, the signal to each slot and the joins.             *)
(*                                                                             *)
(* stop() is reached only from ~agent_controller (and again, with no slot      *)
(* left, from ~worker_pool); enqueue() only from handle_message, whose caller  *)
(* holds a strong reference to the controller.  So a stop begins when no       *)
(* enqueue is under way and none follows it: AgentRegistry checks that this    *)
(* discipline really is kept (DestroyedOnlyUnused).                            *)
EXTENDS Naturals, Sequences, FiniteSets

CONSTANTS Convo,          \* conversation ids
          Global,         \* the id used for a message without one
          Message,        \* messages that may arrive
          KeyOf,          \* key_(msg): an id, or NoKey for the empty string
          Caller,         \* threads that call enqueue()
          Slot,           \* identities of slot objects, never reused
          NoKey, NoSlot, None

ASSUME PoolAssumption ==
    /\ Global \in Convo
    /\ NoKey \notin Convo
    /\ KeyOf \in [Message -> Convo \cup {NoKey}]
    /\ NoSlot \notin Slot
    /\ None \notin Message

VARIABLES
    slotOf,        \* slots_: conversation -> slot object, or NoSlot
    convoOf,       \* the cid captured by a slot's thread (Global before creation)
    queue,         \* slot -> its queue
    worker,        \* slot -> "none", "check", "asleep", "busy", "exited", "joined"
    current,       \* slot -> the message its thread is processing, or None
    slotStopping,  \* slot -> its stopping flag
    stopping,      \* stopping_
    stopPc,        \* progress of stop(): "idle", "signal", "stopped"
    call,          \* caller -> [pc, msg, slot]: where it is in enqueue()
    arriving,      \* messages not handed to enqueue() yet
    accepted,      \* history: conversation -> messages pushed, in push order
    processed      \* history: conversation -> messages whose processor returned

slotVars == <<slotOf, convoOf, queue, worker, current, slotStopping>>
stopVars == <<stopping, stopPc>>
history  == <<accepted, processed>>
vars == <<slotOf, convoOf, queue, worker, current, slotStopping, stopping,
          stopPc, call, arriving, accepted, processed>>

WorkerState == {"none", "check", "asleep", "busy", "exited", "joined"}
Idle == [pc |-> "idle", msg |-> None, slot |-> NoSlot]

\* enqueue(): an empty key means the conversation "global".
ConvoOf == [m \in Message |-> IF KeyOf[m] = NoKey THEN Global ELSE KeyOf[m]]

Live == {s \in Slot : \E c \in Convo : slotOf[c] = s}
-------------------------------------------------------------------------------
Init ==
    /\ slotOf = [c \in Convo |-> NoSlot]
    /\ convoOf = [s \in Slot |-> Global]
    /\ queue = [s \in Slot |-> <<>>]
    /\ worker = [s \in Slot |-> "none"]
    /\ current = [s \in Slot |-> None]
    /\ slotStopping = [s \in Slot |-> FALSE]
    /\ stopping = FALSE
    /\ stopPc = "idle"
    /\ call = [k \in Caller |-> Idle]
    /\ arriving = Message
    /\ accepted = [c \in Convo |-> <<>>]
    /\ processed = [c \in Convo |-> <<>>]

\* Mutant of NeedsSlot: every message gets a new slot.
NeedsSlotAlways(m) == TRUE

\* Mutant of NeedsSlot: slots_[cid] is used without a check that it is there,
\* so the pointer taken from the map is null.
NeedsSlotUnchecked(m) == FALSE

\* enqueue(): slots_ has no entry for the message's conversation.
NeedsSlot(m) == slotOf[ConvoOf[m]] = NoSlot

\* enqueue() under map_mutex_: the conversation has a slot already.
EnqueueFind(k, m) ==
    /\ call[k].pc = "idle"
    /\ stopPc = "idle"
    /\ m \in arriving
    /\ ~NeedsSlot(m)
    /\ arriving' = arriving \ {m}
    /\ call' = [call EXCEPT ![k] = [pc |-> "push", msg |-> m, slot |-> slotOf[ConvoOf[m]]]]
    /\ UNCHANGED <<slotVars, stopVars, history>>

\* enqueue() under map_mutex_: no slot yet, so make one and start its thread.
EnqueueCreate(k, m, s) ==
    /\ call[k].pc = "idle"
    /\ stopPc = "idle"
    /\ m \in arriving
    /\ NeedsSlot(m)
    /\ worker[s] = "none"
    /\ arriving' = arriving \ {m}
    /\ slotOf' = [slotOf EXCEPT ![ConvoOf[m]] = s]
    /\ convoOf' = [convoOf EXCEPT ![s] = ConvoOf[m]]
    /\ worker' = [worker EXCEPT ![s] = "check"]
    /\ call' = [call EXCEPT ![k] = [pc |-> "push", msg |-> m, slot |-> s]]
    /\ UNCHANGED <<queue, current, slotStopping, stopVars, history>>

\* enqueue() under the slot mutex, map_mutex_ no longer held.
EnqueuePush(k) ==
    /\ call[k].pc = "push"
    /\ LET s == call[k].slot  m == call[k].msg
       IN /\ queue' = [queue EXCEPT ![s] = Append(@, m)]
          /\ accepted' = [accepted EXCEPT ![ConvoOf[m]] = Append(@, m)]
    /\ call' = [call EXCEPT ![k].pc = "notify"]
    /\ UNCHANGED <<slotOf, convoOf, worker, current, slotStopping, stopVars,
                   arriving, processed>>

\* Mutant of Woken: the notify is forgotten.
WokenNobody(s) == worker

\* The threads woken by a notify on slot s: its only waiter, if asleep.
Woken(s) == [worker EXCEPT ![s] = IF @ = "asleep" THEN "check" ELSE @]

EnqueueNotify(k) ==
    /\ call[k].pc = "notify"
    /\ worker' = Woken(call[k].slot)
    /\ call' = [call EXCEPT ![k] = Idle]
    /\ UNCHANGED <<slotOf, convoOf, queue, current, slotStopping, stopVars,
                   arriving, history>>

\* worker_loop: what the condition variable waits for.
ShuttingDown(s) == slotStopping[s] \/ stopping

\* Mutant of WakeCondition: the flags are left out of the wait's predicate.
WakeOnWorkOnly(s) == queue[s] # <<>>

WakeCondition(s) == ShuttingDown(s) \/ queue[s] # <<>>

\* worker_loop: leave only when shutting down with nothing left to process.
MayLeave(s) == ShuttingDown(s) /\ queue[s] = <<>>

\* Mutant of Front: last in, first out.
Back(s) == queue[s][Len(queue[s])]

\* The message the pop takes.
Front(s) == Head(queue[s])

\* cv.wait: the condition is false under the slot mutex, so sleep.
WorkerSleep(s) ==
    /\ worker[s] = "check"
    /\ ~WakeCondition(s)
    /\ worker' = [worker EXCEPT ![s] = "asleep"]
    /\ UNCHANGED <<slotOf, convoOf, queue, current, slotStopping, stopVars, call,
                   arriving, history>>

WorkerExit(s) ==
    /\ worker[s] = "check"
    /\ MayLeave(s)
    /\ worker' = [worker EXCEPT ![s] = "exited"]
    /\ UNCHANGED <<slotOf, convoOf, queue, current, slotStopping, stopVars, call,
                   arriving, history>>

\* Pop the front under the slot mutex and enter the processor.
WorkerTake(s) ==
    /\ worker[s] = "check"
    /\ queue[s] # <<>>
    /\ worker' = [worker EXCEPT ![s] = "busy"]
    /\ current' = [current EXCEPT ![s] = Front(s)]
    /\ queue' = [queue EXCEPT ![s] = Tail(@)]
    /\ UNCHANGED <<slotOf, convoOf, slotStopping, stopVars, call, arriving, history>>

\* proc_(msg) returns.
WorkerDone(s) ==
    /\ worker[s] = "busy"
    /\ worker' = [worker EXCEPT ![s] = "check"]
    /\ current' = [current EXCEPT ![s] = None]
    /\ processed' = [processed EXCEPT ![convoOf[s]] = Append(@, current[s])]
    /\ UNCHANGED <<slotOf, convoOf, queue, slotStopping, stopVars, call, arriving,
                   accepted>>

\* Mutant of NoCaller: stop() does not wait for the callers.
AnyCaller == TRUE

\* No enqueue() is under way.
NoCaller == \A k \in Caller : call[k].pc = "idle"

\* stop(): stopping_ = true, before any lock.
StopFlag ==
    /\ stopPc = "idle"
    /\ NoCaller
    /\ stopping' = TRUE
    /\ stopPc' = "signal"
    /\ UNCHANGED <<slotVars, call, arriving, history>>

\* stop(), first loop: flag one slot under its mutex and notify it.
StopSignal(s) ==
    /\ stopPc = "signal"
    /\ s \in Live
    /\ ~slotStopping[s]
    /\ slotStopping' = [slotStopping EXCEPT ![s] = TRUE]
    /\ worker' = Woken(s)
    /\ UNCHANGED <<slotOf, convoOf, queue, current, stopVars, call, arriving, history>>

\* stop(), second loop: the last join returns, and the slots are destroyed.
StopJoin ==
    /\ stopPc = "signal"
    /\ \A s \in Live : slotStopping[s] /\ worker[s] = "exited"
    /\ stopPc' = "stopped"
    /\ worker' = [s \in Slot |-> IF s \in Live THEN "joined" ELSE worker[s]]
    /\ slotOf' = [c \in Convo |-> NoSlot]
    /\ UNCHANGED <<convoOf, queue, current, slotStopping, stopping, call, arriving,
                   history>>

Worker(s) == WorkerSleep(s) \/ WorkerExit(s) \/ WorkerTake(s) \/ WorkerDone(s)

Next ==
    \/ \E k \in Caller :
          \/ \E m \in Message : EnqueueFind(k, m)
          \/ \E m \in Message, s \in Slot : EnqueueCreate(k, m, s)
          \/ EnqueuePush(k)
          \/ EnqueueNotify(k)
    \/ \E s \in Slot : Worker(s)
    \/ StopFlag
    \/ \E s \in Slot : StopSignal(s)
    \/ StopJoin

Safety == Init /\ [][Next]_vars

(* Threads are scheduled: a call of enqueue that has begun goes on, a worker   *)
(* that can step does, and a stop that has begun goes on.  That a worker goes  *)
(* on includes that the processor returns, an assumption of the pool about     *)
(* agent_controller that not every turn keeps: a model request has no time     *)
(* limit, and AgentTurn shows where else a turn can hang.  Nothing obliges a   *)
(* message to arrive or a stop to begin.                                       *)
Fairness ==
    /\ \A k \in Caller : WF_vars(EnqueuePush(k)) /\ WF_vars(EnqueueNotify(k))
    /\ \A s \in Slot : WF_vars(Worker(s)) /\ WF_vars(StopSignal(s))
    /\ WF_vars(StopJoin)

Spec == Safety /\ Fairness
-------------------------------------------------------------------------------
CallState ==
    {Idle} \cup [pc : {"push", "notify"}, msg : Message, slot : Slot]

\* Types of worker_pool.h:55-77 and of the enqueue() calls under way.
TypeOK ==
    /\ slotOf \in [Convo -> Slot \cup {NoSlot}]
    /\ convoOf \in [Slot -> Convo]
    /\ queue \in [Slot -> Seq(Message)]
    /\ worker \in [Slot -> WorkerState]
    /\ current \in [Slot -> Message \cup {None}]
    /\ slotStopping \in [Slot -> BOOLEAN]
    /\ stopping \in BOOLEAN
    /\ stopPc \in {"idle", "signal", "stopped"}
    /\ call \in [Caller -> CallState]
    /\ arriving \in SUBSET Message
    /\ accepted \in [Convo -> Seq(Message)]
    /\ processed \in [Convo -> Seq(Message)]

\* What a conversation's slot still holds, in the order it will be processed.
Queued(c) == IF slotOf[c] = NoSlot THEN <<>> ELSE queue[slotOf[c]]
InProgress(c) == IF slotOf[c] = NoSlot THEN None ELSE current[slotOf[c]]
PendingView == [c \in Convo |-> Queued(c)]
ActiveView == [c \in Convo |-> InProgress(c)]
Optional(m) == IF m = None THEN <<>> ELSE <<m>>

\* Every message pushed by enqueue() is, exactly once and in push order, among
\* the processed ones, the one being processed and the queue of its
\* conversation: none is lost, doubled, reordered or sent to another thread
\* (worker_loop's pop and proc_, enqueue's find-or-create).
Accounted ==
    \A c \in Convo :
        accepted[c] = processed[c] \o Optional(ActiveView[c]) \o PendingView[c]

\* worker_pool.h:31-33: no two calls of the processor for one conversation
\* overlap, whichever slot objects their threads were started for.
OneAtATime ==
    \A s, t \in Slot :
        /\ worker[s] = "busy"
        /\ worker[t] = "busy"
        /\ convoOf[s] = convoOf[t]
        => s = t

\* The raw slot pointer enqueue() uses after it has released map_mutex_ still
\* points to a slot of slots_, the one of the message's conversation.
SlotPointerValid ==
    \A k \in Caller :
        call[k].pc # "idle" => slotOf[ConvoOf[call[k].msg]] = call[k].slot

\* A thread asleep on its condition variable although it has work, or must
\* leave, is about to be notified: no wakeup is lost between the push and the
\* notify of enqueue(), or between stop()'s atomic flag and its signals.
NoLostWakeup ==
    \A s \in Slot :
        worker[s] = "asleep" /\ WakeCondition(s) =>
            \/ \E k \in Caller : call[k].pc = "notify" /\ call[k].slot = s
            \/ stopPc = "signal" /\ s \in Live /\ ~slotStopping[s]

\* When stop() has returned, every message accepted was processed and no thread
\* of the pool runs: worker_loop leaves only with an empty queue.
StopDrains ==
    stopPc = "stopped" =>
        /\ processed = accepted
        /\ \A s \in Slot : worker[s] \in {"none", "joined"}

\* stop()'s progress, seen from outside.
PhaseOf == IF stopPc = "idle" THEN "open"
           ELSE IF stopPc = "signal" THEN "closing" ELSE "closed"

Abstract == INSTANCE SerialDelivery
    WITH pending <- PendingView,
         active <- ActiveView,
         finished <- processed,
         phase <- PhaseOf

\* The pool does what worker_pool.h:23-33 promises, its progress included:
\* handed-over messages are processed in order and stop() returns.
ImplementsSerialDelivery == Abstract!Spec
-------------------------------------------------------------------------------
(* The parts of the inductive invariant the proofs use.                        *)

\* A slot object serves one conversation, the one its thread was started for.
SlotHome ==
    \A c \in Convo : slotOf[c] # NoSlot =>
        /\ convoOf[slotOf[c]] = c
        /\ worker[slotOf[c]] \notin {"none", "joined"}

\* A slot outside slots_ is unused or joined, and holds nothing.
NoOrphan ==
    \A s \in Slot : slotOf[convoOf[s]] # s =>
        worker[s] \in {"none", "joined"} /\ queue[s] = <<>>

\* Only a busy thread holds a message, and only a drained one has left.
ThreadState ==
    \A s \in Slot :
        /\ worker[s] = "busy" <=> current[s] # None
        /\ worker[s] \in {"exited", "joined"} => queue[s] = <<>>

\* Shutting down starts with stop(), with no enqueue() under way.
StopState ==
    /\ stopping <=> stopPc # "idle"
    /\ \A s \in Slot : slotStopping[s] \/ worker[s] = "exited" => stopping
    /\ stopping => NoCaller
    /\ stopPc = "stopped" => \A c \in Convo : slotOf[c] = NoSlot

IInv == TypeOK /\ SlotHome /\ NoOrphan /\ ThreadState /\ StopState
        /\ SlotPointerValid /\ NoLostWakeup /\ Accounted
===============================================================================
