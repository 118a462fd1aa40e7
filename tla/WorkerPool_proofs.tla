--------------------------- MODULE WorkerPool_proofs ---------------------------
(* Proofs about WorkerPool for every set of conversations, messages, calling   *)
(* threads and slot objects.                                                   *)
EXTENDS WorkerPool, SequenceTheorems, TLAPS

(* What each step does to the list of a conversation's messages.               *)

\* Pushing a message adds it at the end of what a conversation was given.
LEMMA PushExtends ==
    ASSUME NEW S, NEW p \in Seq(S), NEW o \in Seq(S), NEW q \in Seq(S), NEW m \in S
    PROVE  p \o o \o Append(q, m) = Append(p \o o \o q, m)
<1>1. p \o o \in Seq(S) /\ Append(q, m) = q \o <<m>> /\ <<m>> \in Seq(S)
  BY ConcatProperties
<1>2. (p \o o) \o (q \o <<m>>) = ((p \o o) \o q) \o <<m>>
  BY <1>1, ConcatAssociative
<1>3. (p \o o) \o q \in Seq(S)
  BY <1>1, ConcatProperties
<1> QED  BY <1>1, <1>2, <1>3

\* Popping the front of the queue into the processor changes nothing of it.
LEMMA PopKeeps ==
    ASSUME NEW S, NEW p \in Seq(S), NEW q \in Seq(S), q # <<>>
    PROVE  p \o <<>> \o q = p \o <<Head(q)>> \o Tail(q)
<1>1. /\ Head(q) \in S /\ Tail(q) \in Seq(S)
      /\ <<Head(q)>> \in Seq(S)
  BY HeadTailProperties
<1>2. q = <<Head(q)>> \o Tail(q)
  BY <1>1, HeadTailProperties
<1>3. p \o <<>> = p
  BY ConcatEmptySeq
<1>4. p \o (<<Head(q)>> \o Tail(q)) = (p \o <<Head(q)>>) \o Tail(q)
  BY <1>1, ConcatAssociative
<1> QED  BY <1>2, <1>3, <1>4

\* Nor does moving the processed message to the processed ones.
LEMMA DoneKeeps ==
    ASSUME NEW S, NEW p \in Seq(S), NEW q \in Seq(S), NEW m \in S
    PROVE  p \o <<m>> \o q = Append(p, m) \o <<>> \o q
<1>1. Append(p, m) = p \o <<m>> /\ Append(p, m) \in Seq(S)
  OBVIOUS
<1>2. Append(p, m) \o <<>> = Append(p, m)
  BY <1>1, ConcatEmptySeq
<1> QED  BY <1>1, <1>2
--------------------------------------------------------------------------------
\* Every message has a conversation of the pool.
LEMMA ConvoOfType == \A m \in Message : ConvoOf[m] \in Convo
BY PoolAssumption DEF ConvoOf

\* An empty pool is well typed.
LEMMA TypeInit == Init => TypeOK
<1> SUFFICES ASSUME Init PROVE TypeOK
  OBVIOUS
<1> USE DEF Init
<1>1. call \in [Caller -> CallState]
  BY DEF CallState
<1>2. /\ queue \in [Slot -> Seq(Message)]
      /\ accepted \in [Convo -> Seq(Message)]
      /\ processed \in [Convo -> Seq(Message)]
  OBVIOUS
<1>3. /\ slotOf \in [Convo -> Slot \cup {NoSlot}]
      /\ convoOf \in [Slot -> Convo]
      /\ worker \in [Slot -> WorkerState]
      /\ current \in [Slot -> Message \cup {None}]
      /\ slotStopping \in [Slot -> BOOLEAN]
  BY PoolAssumption DEF WorkerState
<1> QED  BY <1>1, <1>2, <1>3 DEF TypeOK

\* What a call under way holds.
LEMMA CallType ==
    ASSUME TypeOK, NEW k \in Caller, call[k].pc # "idle"
    PROVE  /\ call[k] \in [pc : {"push", "notify"}, msg : Message, slot : Slot]
           /\ call[k].msg \in Message
           /\ call[k].slot \in Slot
           /\ ConvoOf[call[k].msg] \in Convo
<1>1. call[k] \in [pc : {"push", "notify"}, msg : Message, slot : Slot]
  BY DEF TypeOK, CallState, Idle
<1> QED  BY <1>1, ConvoOfType

\* Every step keeps the types of worker_pool.h:55-77.
LEMMA TypeStep == TypeOK /\ ThreadState /\ [Next]_vars => TypeOK'
<1> SUFFICES ASSUME TypeOK, ThreadState, [Next]_vars PROVE TypeOK'
  OBVIOUS
<1> USE DEF TypeOK, slotVars, stopVars, history
<1>1. ASSUME NEW k \in Caller, NEW m \in Message, EnqueueFind(k, m)
      PROVE  TypeOK'
  <2>1. slotOf[ConvoOf[m]] \in Slot
    BY <1>1, ConvoOfType DEF EnqueueFind, NeedsSlot
  <2> QED  BY <1>1, <2>1 DEF EnqueueFind, CallState
<1>2. ASSUME NEW k \in Caller, NEW m \in Message, NEW s \in Slot, EnqueueCreate(k, m, s)
      PROVE  TypeOK'
  BY <1>2, ConvoOfType DEF EnqueueCreate, CallState, WorkerState
<1>3. ASSUME NEW k \in Caller, EnqueuePush(k)
      PROVE  TypeOK'
  <2> DEFINE s == call[k].slot
             m == call[k].msg
  <2>1. /\ s \in Slot /\ m \in Message /\ ConvoOf[m] \in Convo
        /\ call[k] \in [pc : {"push", "notify"}, msg : Message, slot : Slot]
    BY <1>3, CallType DEF EnqueuePush
  <2>2. queue' \in [Slot -> Seq(Message)] /\ accepted' \in [Convo -> Seq(Message)]
    BY <1>3, <2>1 DEF EnqueuePush
  <2>3. call' \in [Caller -> CallState]
    <3>1. [call[k] EXCEPT !.pc = "notify"] \in CallState
      BY <2>1 DEF CallState
    <3>2. call' = [call EXCEPT ![k] = [call[k] EXCEPT !.pc = "notify"]]
      BY <1>3 DEF EnqueuePush
    <3> QED  BY <3>1, <3>2
  <2> QED  BY <1>3, <2>2, <2>3 DEF EnqueuePush
<1>4. ASSUME NEW k \in Caller, EnqueueNotify(k)
      PROVE  TypeOK'
  BY <1>4 DEF EnqueueNotify, Woken, CallState, WorkerState
<1>5. ASSUME NEW s \in Slot, WorkerSleep(s) \/ WorkerExit(s)
      PROVE  TypeOK'
  BY <1>5 DEF WorkerSleep, WorkerExit, WorkerState
<1>6. ASSUME NEW s \in Slot, WorkerTake(s)
      PROVE  TypeOK'
  <2>1. Head(queue[s]) \in Message /\ Tail(queue[s]) \in Seq(Message)
    BY <1>6, HeadTailProperties DEF WorkerTake
  <2> QED  BY <1>6, <2>1 DEF WorkerTake, WorkerState, Front
<1>7. ASSUME NEW s \in Slot, WorkerDone(s)
      PROVE  TypeOK'
  <2>1. current[s] \in Message
    BY <1>7 DEF WorkerDone, ThreadState
  <2> QED  BY <1>7, <2>1 DEF WorkerDone, WorkerState
<1>8. ASSUME NEW s \in Slot, StopSignal(s)
      PROVE  TypeOK'
  BY <1>8 DEF StopSignal, Woken, WorkerState
<1>9. CASE StopFlag
  BY <1>9 DEF StopFlag
<1>10. CASE StopJoin
  BY <1>10 DEF StopJoin, WorkerState
<1>11. CASE UNCHANGED vars
  BY <1>11 DEF vars
<1> QED
  BY <1>1, <1>2, <1>3, <1>4, <1>5, <1>6, <1>7, <1>8, <1>9, <1>10, <1>11
     DEF Next, Worker

\* The slot a call under way points to is the live one of its conversation.
LEMMA PointerHome ==
    ASSUME TypeOK, SlotHome, SlotPointerValid, NEW k \in Caller, call[k].pc # "idle"
    PROVE  /\ slotOf[ConvoOf[call[k].msg]] = call[k].slot
           /\ convoOf[call[k].slot] = ConvoOf[call[k].msg]
           /\ worker[call[k].slot] \notin {"none", "joined"}
<1> DEFINE c == ConvoOf[call[k].msg]
<1>1. c \in Convo /\ call[k].slot \in Slot
  BY CallType
<1>2. slotOf[c] = call[k].slot
  BY DEF SlotPointerValid
<1>3. slotOf[c] # NoSlot
  BY <1>1, <1>2, PoolAssumption
<1>4. convoOf[slotOf[c]] = c /\ worker[slotOf[c]] \notin {"none", "joined"}
  BY <1>1, <1>3 DEF SlotHome
<1> QED  BY <1>2, <1>4
--------------------------------------------------------------------------------
\* A slot keeps serving the conversation its thread was started for.
LEMMA SlotHomeStep == TypeOK /\ SlotHome /\ NoOrphan /\ [Next]_vars => SlotHome'
<1> SUFFICES ASSUME TypeOK, SlotHome, NoOrphan, [Next]_vars PROVE SlotHome'
  OBVIOUS
<1> USE PoolAssumption, ConvoOfType DEF TypeOK, slotVars, stopVars, history, SlotHome, NoOrphan, WorkerState
<1>1. ASSUME NEW k \in Caller, NEW m \in Message, EnqueueFind(k, m)
      PROVE  SlotHome'
  BY <1>1 DEF EnqueueFind, NeedsSlot
<1>2. ASSUME NEW k \in Caller, NEW m \in Message, NEW s \in Slot, EnqueueCreate(k, m, s)
      PROVE  SlotHome'
  BY <1>2 DEF EnqueueCreate, NeedsSlot
<1>3. ASSUME NEW k \in Caller, EnqueuePush(k)
      PROVE  SlotHome'
  BY <1>3 DEF EnqueuePush
<1>4. ASSUME NEW k \in Caller, EnqueueNotify(k)
      PROVE  SlotHome'
  BY <1>4 DEF EnqueueNotify, Woken
<1>5. ASSUME NEW s \in Slot, WorkerSleep(s)
      PROVE  SlotHome'
  BY <1>5 DEF WorkerSleep
<1>6. ASSUME NEW s \in Slot, WorkerExit(s)
      PROVE  SlotHome'
  BY <1>6 DEF WorkerExit, MayLeave, ShuttingDown
<1>7. ASSUME NEW s \in Slot, WorkerTake(s)
      PROVE  SlotHome'
  BY <1>7 DEF WorkerTake
<1>8. ASSUME NEW s \in Slot, WorkerDone(s)
      PROVE  SlotHome'
  BY <1>8 DEF WorkerDone
<1>9. ASSUME NEW s \in Slot, StopSignal(s)
      PROVE  SlotHome'
  BY <1>9 DEF StopSignal, Woken
<1>10. CASE StopFlag
  BY <1>10 DEF StopFlag
<1>11. CASE StopJoin
  BY <1>11 DEF StopJoin, Live
<1>12. CASE UNCHANGED vars
  BY <1>12 DEF vars
<1> QED
  BY <1>1, <1>2, <1>3, <1>4, <1>5, <1>6, <1>7, <1>8, <1>9, <1>10, <1>11, <1>12
     DEF Next, Worker

\* A slot only leaves slots_ in stop(), joined and empty.
LEMMA NoOrphanStep == TypeOK /\ SlotHome /\ NoOrphan /\ SlotPointerValid /\ ThreadState /\ [Next]_vars => NoOrphan'
<1> SUFFICES ASSUME TypeOK, SlotHome, NoOrphan, SlotPointerValid, ThreadState, [Next]_vars PROVE NoOrphan'
  OBVIOUS
<1> USE PoolAssumption, ConvoOfType DEF TypeOK, slotVars, stopVars, history, SlotHome, NoOrphan, SlotPointerValid, WorkerState
<1>1. ASSUME NEW k \in Caller, NEW m \in Message, EnqueueFind(k, m)
      PROVE  NoOrphan'
  BY <1>1 DEF EnqueueFind, NeedsSlot
<1>2. ASSUME NEW k \in Caller, NEW m \in Message, NEW s \in Slot, EnqueueCreate(k, m, s)
      PROVE  NoOrphan'
  BY <1>2 DEF EnqueueCreate, NeedsSlot
<1>3. ASSUME NEW k \in Caller, EnqueuePush(k)
      PROVE  NoOrphan'
  <2>1. call[k].slot \in Slot /\ ConvoOf[call[k].msg] \in Convo
    BY <1>3, CallType DEF EnqueuePush
  <2>2. /\ slotOf[ConvoOf[call[k].msg]] = call[k].slot
        /\ convoOf[call[k].slot] = ConvoOf[call[k].msg]
    BY <1>3, PointerHome DEF EnqueuePush
  <2>3. /\ \A s \in Slot : s # call[k].slot => queue'[s] = queue[s]
        /\ UNCHANGED <<slotOf, convoOf, worker, current, slotStopping, stopVars>>
    BY <1>3 DEF EnqueuePush
  <2> QED  BY <2>1, <2>2, <2>3
<1>4. ASSUME NEW k \in Caller, EnqueueNotify(k)
      PROVE  NoOrphan'
  BY <1>4 DEF EnqueueNotify, Woken
<1>5. ASSUME NEW s \in Slot, WorkerSleep(s)
      PROVE  NoOrphan'
  BY <1>5 DEF WorkerSleep
<1>6. ASSUME NEW s \in Slot, WorkerExit(s)
      PROVE  NoOrphan'
  BY <1>6 DEF WorkerExit, MayLeave, ShuttingDown
<1>7. ASSUME NEW s \in Slot, WorkerTake(s)
      PROVE  NoOrphan'
  BY <1>7 DEF WorkerTake
<1>8. ASSUME NEW s \in Slot, WorkerDone(s)
      PROVE  NoOrphan'
  BY <1>8 DEF WorkerDone
<1>9. ASSUME NEW s \in Slot, StopSignal(s)
      PROVE  NoOrphan'
  BY <1>9 DEF StopSignal, Woken
<1>10. CASE StopFlag
  BY <1>10 DEF StopFlag
<1>11. CASE StopJoin
  <2> SUFFICES ASSUME NEW s \in Slot, slotOf'[convoOf'[s]] # s
               PROVE  worker'[s] \in {"none", "joined"} /\ queue'[s] = <<>>
    OBVIOUS
  <2>1. CASE s \in Live
    BY <1>11, <2>1 DEF StopJoin, ThreadState
  <2>2. CASE s \notin Live
    <3>1. slotOf[convoOf[s]] # s
      BY <2>2 DEF Live
    <3> QED  BY <1>11, <2>2, <3>1 DEF StopJoin
  <2> QED  BY <2>1, <2>2
<1>12. CASE UNCHANGED vars
  BY <1>12 DEF vars
<1> QED
  BY <1>1, <1>2, <1>3, <1>4, <1>5, <1>6, <1>7, <1>8, <1>9, <1>10, <1>11, <1>12
     DEF Next, Worker

\* A thread holds a message while it processes it and leaves only when drained.
LEMMA ThreadStateStep == TypeOK /\ ThreadState /\ SlotHome /\ SlotPointerValid /\ StopState /\ [Next]_vars => ThreadState'
<1> SUFFICES ASSUME TypeOK, ThreadState, SlotHome, SlotPointerValid, StopState, [Next]_vars PROVE ThreadState'
  OBVIOUS
<1> USE PoolAssumption, ConvoOfType DEF TypeOK, slotVars, stopVars, history, ThreadState, SlotHome, SlotPointerValid, StopState, NoCaller, WorkerState
<1>1. ASSUME NEW k \in Caller, NEW m \in Message, EnqueueFind(k, m)
      PROVE  ThreadState'
  BY <1>1 DEF EnqueueFind, NeedsSlot
<1>2. ASSUME NEW k \in Caller, NEW m \in Message, NEW s \in Slot, EnqueueCreate(k, m, s)
      PROVE  ThreadState'
  BY <1>2 DEF EnqueueCreate, NeedsSlot
<1>3. ASSUME NEW k \in Caller, EnqueuePush(k)
      PROVE  ThreadState'
  <2>1. call[k].slot \in Slot /\ ConvoOf[call[k].msg] \in Convo
    BY <1>3, CallType DEF EnqueuePush
  <2>2. ~stopping /\ worker[call[k].slot] # "joined"
    BY <1>3, PointerHome DEF EnqueuePush
  <2>3. worker[call[k].slot] # "exited"
    BY <2>1, <2>2
  <2> QED  BY <1>3, <2>1, <2>2, <2>3 DEF EnqueuePush
<1>4. ASSUME NEW k \in Caller, EnqueueNotify(k)
      PROVE  ThreadState'
  BY <1>4 DEF EnqueueNotify, Woken
<1>5. ASSUME NEW s \in Slot, WorkerSleep(s)
      PROVE  ThreadState'
  BY <1>5 DEF WorkerSleep
<1>6. ASSUME NEW s \in Slot, WorkerExit(s)
      PROVE  ThreadState'
  BY <1>6 DEF WorkerExit, MayLeave, ShuttingDown
<1>7. ASSUME NEW s \in Slot, WorkerTake(s)
      PROVE  ThreadState'
  <2>1. Head(queue[s]) \in Message
    BY <1>7, HeadTailProperties DEF WorkerTake
  <2>2. worker' = [worker EXCEPT ![s] = "busy"] /\ current' = [current EXCEPT ![s] = Head(queue[s])]
        /\ queue' = [queue EXCEPT ![s] = Tail(queue[s])]
    BY <1>7 DEF WorkerTake, Front
  <2> QED  BY <2>1, <2>2
<1>8. ASSUME NEW s \in Slot, WorkerDone(s)
      PROVE  ThreadState'
  BY <1>8 DEF WorkerDone
<1>9. ASSUME NEW s \in Slot, StopSignal(s)
      PROVE  ThreadState'
  BY <1>9 DEF StopSignal, Woken
<1>10. CASE StopFlag
  BY <1>10 DEF StopFlag
<1>11. CASE StopJoin
  BY <1>11 DEF StopJoin, Live
<1>12. CASE UNCHANGED vars
  BY <1>12 DEF vars
<1> QED
  BY <1>1, <1>2, <1>3, <1>4, <1>5, <1>6, <1>7, <1>8, <1>9, <1>10, <1>11, <1>12
     DEF Next, Worker

\* The flags go up with stop(), with no caller inside enqueue().
LEMMA StopStateStep == TypeOK /\ StopState /\ [Next]_vars => StopState'
<1> SUFFICES ASSUME TypeOK, StopState, [Next]_vars PROVE StopState'
  OBVIOUS
<1> USE PoolAssumption, ConvoOfType DEF TypeOK, slotVars, stopVars, history, StopState, NoCaller, ShuttingDown
<1>1. ASSUME NEW k \in Caller, NEW m \in Message, EnqueueFind(k, m)
      PROVE  StopState'
  BY <1>1 DEF EnqueueFind, NeedsSlot
<1>2. ASSUME NEW k \in Caller, NEW m \in Message, NEW s \in Slot, EnqueueCreate(k, m, s)
      PROVE  StopState'
  BY <1>2 DEF EnqueueCreate, NeedsSlot
<1>3. ASSUME NEW k \in Caller, EnqueuePush(k)
      PROVE  StopState'
  BY <1>3 DEF EnqueuePush
<1>4. ASSUME NEW k \in Caller, EnqueueNotify(k)
      PROVE  StopState'
  BY <1>4 DEF EnqueueNotify, Woken
<1>5. ASSUME NEW s \in Slot, WorkerSleep(s)
      PROVE  StopState'
  BY <1>5 DEF WorkerSleep
<1>6. ASSUME NEW s \in Slot, WorkerExit(s)
      PROVE  StopState'
  BY <1>6 DEF WorkerExit, MayLeave, ShuttingDown
<1>7. ASSUME NEW s \in Slot, WorkerTake(s)
      PROVE  StopState'
  BY <1>7 DEF WorkerTake
<1>8. ASSUME NEW s \in Slot, WorkerDone(s)
      PROVE  StopState'
  BY <1>8 DEF WorkerDone
<1>9. ASSUME NEW s \in Slot, StopSignal(s)
      PROVE  StopState'
  BY <1>9 DEF StopSignal, Woken
<1>10. CASE StopFlag
  BY <1>10 DEF StopFlag
<1>11. CASE StopJoin
  BY <1>11 DEF StopJoin, Live
<1>12. CASE UNCHANGED vars
  BY <1>12 DEF vars
<1> QED
  BY <1>1, <1>2, <1>3, <1>4, <1>5, <1>6, <1>7, <1>8, <1>9, <1>10, <1>11, <1>12
     DEF Next, Worker

\* No step takes away the slot a caller of enqueue() points to.
LEMMA SlotPointerStep == TypeOK /\ SlotPointerValid /\ StopState /\ [Next]_vars => SlotPointerValid'
<1> SUFFICES ASSUME TypeOK, SlotPointerValid, StopState, [Next]_vars PROVE SlotPointerValid'
  OBVIOUS
<1> USE PoolAssumption, ConvoOfType DEF TypeOK, slotVars, stopVars, history, SlotPointerValid, StopState, NoCaller, Idle
<1>1. ASSUME NEW k \in Caller, NEW m \in Message, EnqueueFind(k, m)
      PROVE  SlotPointerValid'
  BY <1>1 DEF EnqueueFind, NeedsSlot
<1>2. ASSUME NEW k \in Caller, NEW m \in Message, NEW s \in Slot, EnqueueCreate(k, m, s)
      PROVE  SlotPointerValid'
  <2> SUFFICES ASSUME NEW j \in Caller, call'[j].pc # "idle"
               PROVE  slotOf'[ConvoOf[call'[j].msg]] = call'[j].slot
    BY <1>2 DEF EnqueueCreate
  <2>1. CASE j = k
    BY <1>2, <2>1 DEF EnqueueCreate
  <2>2. CASE j # k
    <3>1. call'[j] = call[j] /\ slotOf[ConvoOf[call[j].msg]] = call[j].slot
      BY <1>2, <2>2 DEF EnqueueCreate
    <3>2. ConvoOf[call[j].msg] # ConvoOf[m]
      BY <1>2, <3>1, CallType DEF EnqueueCreate, NeedsSlot
    <3> QED  BY <1>2, <3>1, <3>2, CallType DEF EnqueueCreate
  <2> QED  BY <2>1, <2>2
<1>3. ASSUME NEW k \in Caller, EnqueuePush(k)
      PROVE  SlotPointerValid'
  BY <1>3 DEF EnqueuePush
<1>4. ASSUME NEW k \in Caller, EnqueueNotify(k)
      PROVE  SlotPointerValid'
  BY <1>4 DEF EnqueueNotify, Woken
<1>5. ASSUME NEW s \in Slot, WorkerSleep(s)
      PROVE  SlotPointerValid'
  BY <1>5 DEF WorkerSleep
<1>6. ASSUME NEW s \in Slot, WorkerExit(s)
      PROVE  SlotPointerValid'
  BY <1>6 DEF WorkerExit, MayLeave, ShuttingDown
<1>7. ASSUME NEW s \in Slot, WorkerTake(s)
      PROVE  SlotPointerValid'
  BY <1>7 DEF WorkerTake
<1>8. ASSUME NEW s \in Slot, WorkerDone(s)
      PROVE  SlotPointerValid'
  BY <1>8 DEF WorkerDone
<1>9. ASSUME NEW s \in Slot, StopSignal(s)
      PROVE  SlotPointerValid'
  BY <1>9 DEF StopSignal, Woken
<1>10. CASE StopFlag
  BY <1>10 DEF StopFlag
<1>11. CASE StopJoin
  BY <1>11 DEF StopJoin, Live
<1>12. CASE UNCHANGED vars
  BY <1>12 DEF vars
<1> QED
  BY <1>1, <1>2, <1>3, <1>4, <1>5, <1>6, <1>7, <1>8, <1>9, <1>10, <1>11, <1>12
     DEF Next, Worker

\* Whoever makes a sleeper's condition true is bound to notify it.
LEMMA NoLostWakeupStep == TypeOK /\ NoLostWakeup /\ NoOrphan /\ SlotHome /\ StopState /\ SlotPointerValid /\ [Next]_vars => NoLostWakeup'
<1> SUFFICES ASSUME TypeOK, NoLostWakeup, NoOrphan, SlotHome, StopState, SlotPointerValid, [Next]_vars PROVE NoLostWakeup'
  OBVIOUS
<1> USE PoolAssumption, ConvoOfType DEF TypeOK, slotVars, stopVars, history, NoLostWakeup, NoOrphan, SlotHome, StopState, NoCaller, SlotPointerValid, WakeCondition, ShuttingDown, Live, WorkerState
<1>1. ASSUME NEW k \in Caller, NEW m \in Message, EnqueueFind(k, m)
      PROVE  NoLostWakeup'
  BY <1>1 DEF EnqueueFind, NeedsSlot
<1>2. ASSUME NEW k \in Caller, NEW m \in Message, NEW s \in Slot, EnqueueCreate(k, m, s)
      PROVE  NoLostWakeup'
  BY <1>2 DEF EnqueueCreate, NeedsSlot
<1>3. ASSUME NEW k \in Caller, EnqueuePush(k)
      PROVE  NoLostWakeup'
  BY <1>3 DEF EnqueuePush
<1>4. ASSUME NEW k \in Caller, EnqueueNotify(k)
      PROVE  NoLostWakeup'
  BY <1>4 DEF EnqueueNotify, Woken
<1>5. ASSUME NEW s \in Slot, WorkerSleep(s)
      PROVE  NoLostWakeup'
  BY <1>5 DEF WorkerSleep
<1>6. ASSUME NEW s \in Slot, WorkerExit(s)
      PROVE  NoLostWakeup'
  BY <1>6 DEF WorkerExit, MayLeave, ShuttingDown
<1>7. ASSUME NEW s \in Slot, WorkerTake(s)
      PROVE  NoLostWakeup'
  BY <1>7 DEF WorkerTake
<1>8. ASSUME NEW s \in Slot, WorkerDone(s)
      PROVE  NoLostWakeup'
  BY <1>8 DEF WorkerDone
<1>9. ASSUME NEW s \in Slot, StopSignal(s)
      PROVE  NoLostWakeup'
  BY <1>9 DEF StopSignal, Woken
<1>10. CASE StopFlag
  BY <1>10 DEF StopFlag
<1>11. CASE StopJoin
  BY <1>11 DEF StopJoin, Live
<1>12. CASE UNCHANGED vars
  BY <1>12 DEF vars
<1> QED
  BY <1>1, <1>2, <1>3, <1>4, <1>5, <1>6, <1>7, <1>8, <1>9, <1>10, <1>11, <1>12
     DEF Next, Worker
--------------------------------------------------------------------------------
(* How each step changes what is pending and active for each conversation.     *)

Parts == TypeOK /\ SlotHome /\ NoOrphan /\ ThreadState /\ StopState /\ SlotPointerValid

\* A live slot is the slot of its own conversation.
LEMMA LiveSlot ==
    ASSUME Parts, NEW s \in Slot, worker[s] \notin {"none", "joined"}
    PROVE  convoOf[s] \in Convo /\ slotOf[convoOf[s]] = s
BY DEF Parts, TypeOK, NoOrphan

\* Two conversations never share a slot.
LEMMA SlotInjective ==
    ASSUME Parts, NEW c \in Convo, NEW d \in Convo, slotOf[c] = slotOf[d], slotOf[c] # NoSlot
    PROVE  c = d
BY DEF Parts, SlotHome

\* A new slot shows the abstract pool nothing new.
LEMMA CreateView ==
    ASSUME Parts, NEW k \in Caller, NEW m \in Message, NEW s \in Slot, EnqueueCreate(k, m, s)
    PROVE  PendingView' = PendingView /\ ActiveView' = ActiveView
<1>1. queue[s] = <<>> /\ current[s] = None
  <2>1. slotOf[convoOf[s]] # s
    BY PoolAssumption DEF Parts, TypeOK, SlotHome, EnqueueCreate
  <2> QED  BY <2>1 DEF Parts, NoOrphan, ThreadState, TypeOK, EnqueueCreate
<1>2. ASSUME NEW c \in Convo
      PROVE  Queued(c)' = Queued(c) /\ InProgress(c)' = InProgress(c)
  BY <1>1, <1>2, PoolAssumption, ConvoOfType
     DEF Parts, TypeOK, EnqueueCreate, NeedsSlot, Queued, InProgress
<1> QED  BY <1>2 DEF PendingView, ActiveView

\* The push is the abstract Submit: one more pending message.
LEMMA PushView ==
    ASSUME Parts, NEW k \in Caller, EnqueuePush(k)
    PROVE  LET m == call[k].msg
           IN  /\ m \in Message /\ stopPc = "idle"
               /\ PendingView' = [PendingView EXCEPT ![ConvoOf[m]] = Append(@, m)]
               /\ ActiveView' = ActiveView
               /\ accepted' = [accepted EXCEPT ![ConvoOf[m]] = Append(@, m)]
<1> DEFINE m == call[k].msg
           s == call[k].slot
           d == ConvoOf[m]
<1>1. m \in Message /\ s \in Slot /\ d \in Convo
  BY CallType DEF EnqueuePush, Parts
<1>2. slotOf[d] = s /\ s # NoSlot
  BY <1>1, PointerHome, PoolAssumption DEF EnqueuePush, Parts
<1>3. stopPc = "idle"
  BY DEF Parts, StopState, NoCaller, EnqueuePush
<1>4. /\ queue' = [queue EXCEPT ![s] = Append(@, m)]
      /\ UNCHANGED <<slotOf, current>>
      /\ accepted' = [accepted EXCEPT ![d] = Append(@, m)]
  BY DEF EnqueuePush, slotVars
<1> HIDE DEF m, s, d
<1>5. ASSUME NEW c \in Convo
      PROVE  /\ Queued(c)' = IF c = d THEN Append(Queued(c), m) ELSE Queued(c)
             /\ InProgress(c)' = InProgress(c)
  <2>1. CASE c = d
    BY <2>1, <1>1, <1>2, <1>4 DEF Queued, InProgress, Parts, TypeOK
  <2>2. CASE c # d /\ slotOf[c] = NoSlot
    BY <2>2, <1>4 DEF Queued, InProgress
  <2>3. CASE c # d /\ slotOf[c] # NoSlot
    <3>1. slotOf[c] # s
      BY <2>3, <1>1, <1>2, SlotInjective
    <3> QED  BY <3>1, <2>3, <1>1, <1>4 DEF Queued, InProgress, Parts, TypeOK
  <2> QED  BY <2>1, <2>2, <2>3
<1>6. PendingView' = [PendingView EXCEPT ![d] = Append(@, m)] /\ ActiveView' = ActiveView
  BY <1>1, <1>5 DEF PendingView, ActiveView
<1> QED  BY <1>1, <1>3, <1>4, <1>6 DEF m, d

\* The pop is the abstract Begin.
LEMMA TakeView ==
    ASSUME Parts, NEW s \in Slot, WorkerTake(s)
    PROVE  LET c == convoOf[s]
           IN  /\ c \in Convo
               /\ ActiveView[c] = None /\ PendingView[c] # <<>>
               /\ PendingView[c] \in Seq(Message)
               /\ PendingView' = [PendingView EXCEPT ![c] = Tail(@)]
               /\ ActiveView' = [ActiveView EXCEPT ![c] = Head(PendingView[c])]
<1> DEFINE d == convoOf[s]
<1>1. d \in Convo /\ slotOf[d] = s /\ s # NoSlot
  BY LiveSlot, PoolAssumption DEF WorkerTake
<1>2. current[s] = None /\ queue[s] # <<>> /\ queue[s] \in Seq(Message)
  BY DEF WorkerTake, Parts, ThreadState, TypeOK
<1>3. /\ queue' = [queue EXCEPT ![s] = Tail(@)]
      /\ current' = [current EXCEPT ![s] = Head(queue[s])]
      /\ UNCHANGED slotOf
  BY DEF WorkerTake, Front
<1> HIDE DEF d
<1>4. Queued(d) = queue[s] /\ InProgress(d) = current[s]
  BY <1>1 DEF Queued, InProgress
<1>5. ASSUME NEW c \in Convo
      PROVE  /\ Queued(c)' = IF c = d THEN Tail(Queued(c)) ELSE Queued(c)
             /\ InProgress(c)' = IF c = d THEN Head(Queued(c)) ELSE InProgress(c)
  <2>1. CASE c = d
    BY <2>1, <1>1, <1>3 DEF Queued, InProgress, Parts, TypeOK
  <2>2. CASE c # d /\ slotOf[c] = NoSlot
    BY <2>2, <1>3 DEF Queued, InProgress
  <2>3. CASE c # d /\ slotOf[c] # NoSlot
    <3>1. slotOf[c] # s
      BY <2>3, <1>1, SlotInjective
    <3> QED  BY <3>1, <2>3, <1>3 DEF Queued, InProgress, Parts, TypeOK
  <2> QED  BY <2>1, <2>2, <2>3
<1>6. /\ PendingView' = [PendingView EXCEPT ![d] = Tail(@)]
      /\ ActiveView' = [ActiveView EXCEPT ![d] = Head(PendingView[d])]
      /\ PendingView[d] = Queued(d) /\ ActiveView[d] = InProgress(d)
  BY <1>1, <1>5 DEF PendingView, ActiveView
<1> QED  BY <1>1, <1>2, <1>4, <1>6 DEF d

\* The return of the processor is the abstract End.
LEMMA DoneView ==
    ASSUME Parts, NEW s \in Slot, WorkerDone(s)
    PROVE  LET c == convoOf[s]
           IN  /\ c \in Convo
               /\ ActiveView[c] \in Message
               /\ PendingView[c] \in Seq(Message)
               /\ PendingView' = PendingView
               /\ ActiveView' = [ActiveView EXCEPT ![c] = None]
               /\ processed' = [processed EXCEPT ![c] = Append(@, ActiveView[c])]
<1> DEFINE d == convoOf[s]
<1>1. d \in Convo /\ slotOf[d] = s /\ s # NoSlot
  BY LiveSlot, PoolAssumption DEF WorkerDone
<1>2. current[s] \in Message /\ queue[s] \in Seq(Message)
  BY DEF WorkerDone, Parts, ThreadState, TypeOK
<1>3. /\ UNCHANGED <<queue, slotOf>>
      /\ current' = [current EXCEPT ![s] = None]
      /\ processed' = [processed EXCEPT ![d] = Append(@, current[s])]
  BY DEF WorkerDone
<1> HIDE DEF d
<1>4. Queued(d) = queue[s] /\ InProgress(d) = current[s]
  BY <1>1 DEF Queued, InProgress
<1>5. ASSUME NEW c \in Convo
      PROVE  /\ Queued(c)' = Queued(c)
             /\ InProgress(c)' = IF c = d THEN None ELSE InProgress(c)
  <2>1. CASE c = d
    BY <2>1, <1>1, <1>3 DEF Queued, InProgress, Parts, TypeOK
  <2>2. CASE c # d /\ slotOf[c] = NoSlot
    BY <2>2, <1>3 DEF Queued, InProgress
  <2>3. CASE c # d /\ slotOf[c] # NoSlot
    <3>1. slotOf[c] # s
      BY <2>3, <1>1, SlotInjective
    <3> QED  BY <3>1, <2>3, <1>3 DEF Queued, InProgress, Parts, TypeOK
  <2> QED  BY <2>1, <2>2, <2>3
<1>6. /\ PendingView' = PendingView
      /\ ActiveView' = [ActiveView EXCEPT ![d] = None]
      /\ PendingView[d] = Queued(d) /\ ActiveView[d] = InProgress(d)
  BY <1>1, <1>5 DEF PendingView, ActiveView
<1> QED  BY <1>1, <1>2, <1>3, <1>4, <1>6 DEF d

\* Dropping drained slots shows the abstract pool nothing.
LEMMA JoinView ==
    ASSUME Parts, StopJoin
    PROVE  /\ PendingView' = PendingView /\ ActiveView' = ActiveView
           /\ \A c \in Convo : PendingView[c] = <<>> /\ ActiveView[c] = None
           /\ \A s \in Slot : worker'[s] \in {"none", "joined"}
<1>1. ASSUME NEW c \in Convo
      PROVE  /\ Queued(c) = <<>> /\ InProgress(c) = None
             /\ Queued(c)' = <<>> /\ InProgress(c)' = None
  <2>1. Queued(c)' = <<>> /\ InProgress(c)' = None
    BY DEF StopJoin, Queued, InProgress
  <2>2. CASE slotOf[c] = NoSlot
    BY <2>1, <2>2 DEF Queued, InProgress
  <2>3. CASE slotOf[c] # NoSlot
    <3>1. slotOf[c] \in Slot /\ worker[slotOf[c]] = "exited"
      BY <2>3 DEF StopJoin, Live, Parts, TypeOK
    <3>2. queue[slotOf[c]] = <<>> /\ current[slotOf[c]] = None
      BY <3>1 DEF Parts, ThreadState
    <3> QED  BY <2>1, <2>3, <3>2 DEF Queued, InProgress
  <2> QED  BY <2>2, <2>3
<1>2. ASSUME NEW s \in Slot
      PROVE  worker'[s] \in {"none", "joined"}
  <2>1. CASE s \in Live
    BY <2>1 DEF StopJoin
  <2>2. CASE s \notin Live
    <3>1. slotOf[convoOf[s]] # s
      BY <2>2 DEF Live, Parts, TypeOK
    <3> QED  BY <2>2, <3>1 DEF StopJoin, Parts, NoOrphan
  <2> QED  BY <2>1, <2>2
<1> QED  BY <1>1, <1>2 DEF PendingView, ActiveView

\* Every other step leaves both alone.
LEMMA OtherView ==
    ASSUME UNCHANGED <<slotOf, queue, current>>
    PROVE  PendingView' = PendingView /\ ActiveView' = ActiveView
BY DEF PendingView, ActiveView, Queued, InProgress
--------------------------------------------------------------------------------
\* Every step keeps each accepted message in exactly one place, in order.
LEMMA AccountedStep == Parts /\ Accounted /\ [Next]_vars => Accounted'
<1> SUFFICES ASSUME Parts, Accounted, [Next]_vars PROVE Accounted'
  OBVIOUS
<1>t. /\ accepted \in [Convo -> Seq(Message)]
      /\ processed \in [Convo -> Seq(Message)]
      /\ \A c \in Convo : /\ PendingView[c] \in Seq(Message)
                          /\ ActiveView[c] \in Message \cup {None}
                          /\ Optional(ActiveView[c]) \in Seq(Message)
  <2>1. ASSUME NEW c \in Convo
        PROVE  Queued(c) \in Seq(Message) /\ InProgress(c) \in Message \cup {None}
    BY DEF Parts, TypeOK, Queued, InProgress
  <2>2. ASSUME NEW o \in Message \cup {None}
        PROVE  Optional(o) \in Seq(Message)
    BY DEF Optional
  <2> QED  BY <2>1, <2>2 DEF Parts, TypeOK, PendingView, ActiveView
<1>1. ASSUME NEW k \in Caller, EnqueuePush(k)
      PROVE  Accounted'
  <2> DEFINE m == call[k].msg
             d == ConvoOf[m]
  <2>1. /\ m \in Message /\ d \in Convo
        /\ PendingView' = [PendingView EXCEPT ![d] = Append(@, m)]
        /\ ActiveView' = ActiveView
        /\ accepted' = [accepted EXCEPT ![d] = Append(@, m)]
        /\ processed' = processed
    BY <1>1, PushView, ConvoOfType DEF EnqueuePush
  <2> HIDE DEF m, d
  <2>2. SUFFICES ASSUME NEW c \in Convo
        PROVE  accepted'[c] = processed'[c] \o Optional(ActiveView'[c]) \o PendingView'[c]
    BY DEF Accounted, Optional
  <2>3. CASE c = d
    <3>0. /\ processed[c] \in Seq(Message) /\ Optional(ActiveView[c]) \in Seq(Message)
          /\ PendingView[c] \in Seq(Message) /\ m \in Message
      BY <1>t, <2>1
    <3>1. processed[c] \o Optional(ActiveView[c]) \o Append(PendingView[c], m)
          = Append(processed[c] \o Optional(ActiveView[c]) \o PendingView[c], m)
      <4> DEFINE p == processed[c]
                 o == Optional(ActiveView[c])
                 q == PendingView[c]
      <4>1. p \in Seq(Message) /\ o \in Seq(Message) /\ q \in Seq(Message) /\ m \in Message
        BY <3>0
      <4> HIDE DEF p, o, q
      <4>2. p \o o \o Append(q, m) = Append(p \o o \o q, m)
        BY <4>1, PushExtends
      <4> QED  BY <4>2 DEF p, o, q
    <3> QED  BY <3>1, <2>1, <2>3, <1>t DEF Accounted, PendingView
  <2>4. CASE c # d
    <3>1. accepted'[c] = accepted[c] /\ PendingView'[c] = PendingView[c]
      BY <1>t, <2>1, <2>4 DEF PendingView
    <3> QED  BY <2>1, <3>1 DEF Accounted
  <2> QED  BY <2>3, <2>4
<1>2. ASSUME NEW s \in Slot, WorkerTake(s)
      PROVE  Accounted'
  <2> DEFINE d == convoOf[s]
  <2>1. /\ d \in Convo /\ ActiveView[d] = None /\ PendingView[d] # <<>>
        /\ PendingView' = [PendingView EXCEPT ![d] = Tail(@)]
        /\ ActiveView' = [ActiveView EXCEPT ![d] = Head(PendingView[d])]
        /\ UNCHANGED <<accepted, processed>>
    BY <1>2, TakeView DEF WorkerTake, history
  <2> HIDE DEF d
  <2>2. SUFFICES ASSUME NEW c \in Convo
        PROVE  accepted'[c] = processed'[c] \o Optional(ActiveView'[c]) \o PendingView'[c]
    BY DEF Accounted, Optional
  <2>3. CASE c = d
    <3>1. Optional(ActiveView[c]) = <<>>
      BY <2>1, <2>3 DEF Optional
    <3>2. Head(PendingView[c]) \in Message
      BY <2>1, <2>3, <1>t, HeadTailProperties
    <3>3. /\ ActiveView'[c] = Head(PendingView[c]) /\ PendingView'[c] = Tail(PendingView[c])
          /\ Optional(ActiveView'[c]) = <<Head(PendingView[c])>>
      BY <2>1, <2>3, <3>2, PoolAssumption DEF PendingView, ActiveView, Optional
    <3>4. processed[c] \o <<>> \o PendingView[c]
          = processed[c] \o <<Head(PendingView[c])>> \o Tail(PendingView[c])
      <4> DEFINE p == processed[c]
                 q == PendingView[c]
      <4>1. p \in Seq(Message) /\ q \in Seq(Message) /\ q # <<>>
        BY <1>t, <2>1, <2>3
      <4> HIDE DEF p, q
      <4>2. p \o <<>> \o q = p \o <<Head(q)>> \o Tail(q)
        BY <4>1, PopKeeps, Zenon
      <4> QED  BY <4>2 DEF p, q
    <3> QED  BY <3>1, <3>3, <3>4, <2>1 DEF Accounted
  <2>4. CASE c # d
    BY <2>1, <2>4 DEF Accounted, PendingView, ActiveView
  <2> QED  BY <2>3, <2>4
<1>3. ASSUME NEW s \in Slot, WorkerDone(s)
      PROVE  Accounted'
  <2> DEFINE d == convoOf[s]
  <2>1. /\ d \in Convo /\ ActiveView[d] \in Message
        /\ PendingView' = PendingView
        /\ ActiveView' = [ActiveView EXCEPT ![d] = None]
        /\ processed' = [processed EXCEPT ![d] = Append(@, ActiveView[d])]
        /\ accepted' = accepted
    BY <1>3, DoneView DEF WorkerDone
  <2> HIDE DEF d
  <2>2. SUFFICES ASSUME NEW c \in Convo
        PROVE  accepted'[c] = processed'[c] \o Optional(ActiveView'[c]) \o PendingView'[c]
    BY DEF Accounted, Optional
  <2>3. CASE c = d
    <3>1. Optional(ActiveView[c]) = <<ActiveView[c]>> /\ ActiveView[c] # None
      BY <2>1, <2>3, PoolAssumption DEF Optional
    <3>2. /\ ActiveView'[c] = None /\ Optional(ActiveView'[c]) = <<>>
          /\ processed'[c] = Append(processed[c], ActiveView[c])
      BY <2>1, <2>3, <1>t DEF ActiveView, Optional
    <3>3. processed[c] \o <<ActiveView[c]>> \o PendingView[c]
          = Append(processed[c], ActiveView[c]) \o <<>> \o PendingView[c]
      <4>1. /\ processed[c] \in Seq(Message) /\ PendingView[c] \in Seq(Message)
            /\ ActiveView[c] \in Message
        BY <1>t, <2>1, <2>3
      <4> QED  BY <4>1, DoneKeeps, Zenon
    <3> QED  BY <3>1, <3>2, <3>3, <2>1 DEF Accounted
  <2>4. CASE c # d
    <3>1. processed'[c] = processed[c] /\ ActiveView'[c] = ActiveView[c]
      BY <1>t, <2>1, <2>4 DEF ActiveView
    <3> QED  BY <2>1, <3>1 DEF Accounted
  <2> QED  BY <2>3, <2>4
<1>4. ASSUME PendingView' = PendingView, ActiveView' = ActiveView,
             UNCHANGED <<accepted, processed>>
      PROVE  Accounted'
  BY <1>4 DEF Accounted, Optional
<1>5. ASSUME NEW k \in Caller, NEW m \in Message, NEW s \in Slot, EnqueueCreate(k, m, s)
      PROVE  Accounted'
  BY <1>4, <1>5, CreateView DEF EnqueueCreate, history
<1>6. CASE StopJoin
  BY <1>4, <1>6, JoinView DEF StopJoin, history
<1>7. ASSUME NEW k \in Caller,
             (\E m \in Message : EnqueueFind(k, m)) \/ EnqueueNotify(k)
      PROVE  Accounted'
  BY <1>4, <1>7, OtherView DEF EnqueueFind, EnqueueNotify, slotVars, history
<1>8. ASSUME NEW s \in Slot, WorkerSleep(s) \/ WorkerExit(s) \/ StopSignal(s)
      PROVE  Accounted'
  BY <1>4, <1>8, OtherView DEF WorkerSleep, WorkerExit, StopSignal, history
<1>9. CASE StopFlag \/ UNCHANGED vars
  BY <1>4, <1>9, OtherView DEF StopFlag, vars, slotVars, history
<1> QED
  BY <1>1, <1>2, <1>3, <1>5, <1>6, <1>7, <1>8, <1>9 DEF Next, Worker
--------------------------------------------------------------------------------
\* The inductive invariant holds of the empty pool.
LEMMA InitIInv == Init => IInv
<1> SUFFICES ASSUME Init PROVE IInv
  OBVIOUS
<1>1. TypeOK
  BY TypeInit
<1>2. SlotHome /\ NoOrphan /\ ThreadState /\ StopState /\ SlotPointerValid /\ NoLostWakeup
  BY PoolAssumption
     DEF Init, SlotHome, NoOrphan, ThreadState, StopState, SlotPointerValid, NoLostWakeup, Idle
<1>3. Accounted
  <2>1. ASSUME NEW c \in Convo
        PROVE  accepted[c] = processed[c] \o Optional(ActiveView[c]) \o PendingView[c]
    <3>1. accepted[c] = <<>> /\ processed[c] = <<>> /\ Optional(ActiveView[c]) = <<>> /\ PendingView[c] = <<>>
      BY DEF Init, ActiveView, PendingView, InProgress, Queued, Optional
    <3>2. <<>> = <<>> \o <<>> \o <<>>
      OBVIOUS
    <3> QED  BY <3>1, <3>2
  <2> QED  BY <2>1 DEF Accounted
<1> QED  BY <1>1, <1>2, <1>3 DEF IInv

\* Every step keeps the inductive invariant.
LEMMA NextIInv == IInv /\ [Next]_vars => IInv'
BY TypeStep, SlotHomeStep, NoOrphanStep, ThreadStateStep, StopStateStep, SlotPointerStep,
   NoLostWakeupStep, AccountedStep DEF IInv, Parts

\* The inductive invariant: with it, every safety invariant below.
THEOREM Invariance == Safety => []IInv
BY InitIInv, NextIInv, PTL DEF Safety

\* The types of the slots, threads, calls and histories (worker_pool.h:55-77).
THEOREM TypeCorrect == Safety => []TypeOK
<1>1. IInv => TypeOK
  BY DEF IInv
<1> QED  BY Invariance, <1>1, PTL

\* Exactly once, in push order: no message handed to enqueue() is lost, doubled or
\* overtaken by a later one of its conversation (worker_pool.cpp:37-78).
THEOREM ExactlyOnceInOrder == Safety => []Accounted
<1>1. IInv => Accounted
  BY DEF IInv
<1> QED  BY Invariance, <1>1, PTL

\* The slot pointer enqueue() uses without map_mutex_ never dangles
\* (worker_pool.cpp:55-59), because stop() only runs when no call is under way.
THEOREM PointersValid == Safety => []SlotPointerValid
<1>1. IInv => SlotPointerValid
  BY DEF IInv
<1> QED  BY Invariance, <1>1, PTL

\* No thread sleeps on with work or a stop pending (worker_pool.cpp:21-30, 55-59).
THEOREM WakeupsKept == Safety => []NoLostWakeup
<1>1. IInv => NoLostWakeup
  BY DEF IInv
<1> QED  BY Invariance, <1>1, PTL

\* worker_pool.h:31-33: calls of the processor for one conversation never overlap.
THEOREM SerialPerConversation == Safety => []OneAtATime
<1>1. IInv => OneAtATime
  <2> SUFFICES ASSUME IInv, NEW s \in Slot, NEW t \in Slot,
                      worker[s] = "busy", worker[t] = "busy", convoOf[s] = convoOf[t]
               PROVE  s = t
    BY DEF OneAtATime
  <2>1. slotOf[convoOf[s]] = s /\ slotOf[convoOf[t]] = t
    BY LiveSlot DEF IInv, Parts
  <2> QED  BY <2>1
<1> QED  BY Invariance, <1>1, PTL

\* When stop() has returned, everything accepted was processed and no thread of
\* the pool is left (worker_pool.cpp:21-35, 69-70).
THEOREM StopDrainsQueues == Safety => []StopDrains
<1>1. IInv => StopDrains
  <2> SUFFICES ASSUME IInv, stopPc = "stopped"
               PROVE  processed = accepted /\ \A s \in Slot : worker[s] \in {"none", "joined"}
    BY DEF StopDrains
  <2>1. \A c \in Convo : slotOf[c] = NoSlot
    BY DEF IInv, StopState
  <2>2. ASSUME NEW c \in Convo
        PROVE  accepted[c] = processed[c]
    <3>1. Optional(ActiveView[c]) = <<>> /\ PendingView[c] = <<>>
      BY <2>1 DEF ActiveView, PendingView, InProgress, Queued, Optional
    <3>2. processed[c] \in Seq(Message)
      BY DEF IInv, TypeOK
    <3>3. processed[c] \o <<>> \o <<>> = processed[c]
      BY <3>2, ConcatEmptySeq
    <3> QED  BY <3>1, <3>3 DEF IInv, Accounted
  <2>3. processed = accepted
    BY <2>2 DEF IInv, TypeOK
  <2>4. ASSUME NEW s \in Slot
        PROVE  worker[s] \in {"none", "joined"}
    BY <2>1, PoolAssumption DEF IInv, NoOrphan, TypeOK
  <2> QED  BY <2>3, <2>4
<1> QED  BY Invariance, <1>1, PTL
--------------------------------------------------------------------------------
(* The pool implements SerialDelivery: pushing is submitting, taking is        *)
(* beginning, returning from the processor is ending, the stop flag is         *)
(* closing, the joins are the end of closing, and every other step changes     *)
(* nothing the abstract specification sees.                                    *)

\* An empty pool is an empty abstract pool.
LEMMA InitRefines == Init => Abstract!Init
<1> SUFFICES ASSUME Init PROVE Abstract!Init
  OBVIOUS
<1>1. PendingView = [c \in Convo |-> <<>>] /\ ActiveView = [c \in Convo |-> None]
  BY DEF Init, PendingView, ActiveView, Queued, InProgress
<1> QED  BY <1>1 DEF Init, Abstract!Init, PhaseOf

\* Every step of the pool is a step of the abstract pool or a stutter.
LEMMA StepRefines == IInv /\ [Next]_vars => [Abstract!Next]_(Abstract!vars)
<1> SUFFICES ASSUME IInv, [Next]_vars PROVE [Abstract!Next]_(Abstract!vars)
  OBVIOUS
<1> USE DEF Abstract!vars
<1>p. Parts
  BY DEF IInv, Parts
<1>1. ASSUME NEW k \in Caller, EnqueuePush(k)
      PROVE  Abstract!Next
  <2> DEFINE m == call[k].msg
  <2>1. /\ m \in Message /\ stopPc = "idle"
        /\ PendingView' = [PendingView EXCEPT ![ConvoOf[m]] = Append(@, m)]
        /\ UNCHANGED <<ActiveView, processed, stopPc>>
    BY <1>p, <1>1, PushView DEF EnqueuePush, stopVars
  <2>2. Abstract!Submit(m)
    BY <2>1 DEF Abstract!Submit, PhaseOf
  <2> QED  BY <2>1, <2>2 DEF Abstract!Next
<1>2. ASSUME NEW s \in Slot, WorkerTake(s)
      PROVE  Abstract!Next
  <2>1. /\ convoOf[s] \in Convo
        /\ ActiveView[convoOf[s]] = None /\ PendingView[convoOf[s]] # <<>>
        /\ PendingView' = [PendingView EXCEPT ![convoOf[s]] = Tail(@)]
        /\ ActiveView' = [ActiveView EXCEPT ![convoOf[s]] = Head(PendingView[convoOf[s]])]
        /\ UNCHANGED <<processed, stopPc>>
    BY <1>p, <1>2, TakeView DEF WorkerTake, history, stopVars
  <2>2. Abstract!Begin(convoOf[s])
    BY <2>1 DEF Abstract!Begin, PhaseOf
  <2> QED  BY <2>1, <2>2 DEF Abstract!Next
<1>3. ASSUME NEW s \in Slot, WorkerDone(s)
      PROVE  Abstract!Next
  <2>1. /\ convoOf[s] \in Convo
        /\ ActiveView[convoOf[s]] # None
        /\ ActiveView' = [ActiveView EXCEPT ![convoOf[s]] = None]
        /\ processed' = [processed EXCEPT ![convoOf[s]] = Append(@, ActiveView[convoOf[s]])]
        /\ UNCHANGED <<PendingView, stopPc>>
    BY <1>p, <1>3, DoneView, PoolAssumption DEF WorkerDone, stopVars
  <2>2. Abstract!End(convoOf[s])
    BY <2>1 DEF Abstract!End, PhaseOf
  <2> QED  BY <2>1, <2>2 DEF Abstract!Next
<1>4. ASSUME StopFlag
      PROVE  Abstract!Next
  <2>1. Abstract!Close
    BY <1>4, OtherView DEF StopFlag, slotVars, history, Abstract!Close, PhaseOf
  <2> QED  BY <2>1 DEF Abstract!Next
<1>5. ASSUME StopJoin
      PROVE  Abstract!Next
  <2>1. Abstract!Closed
    BY <1>p, <1>5, JoinView DEF StopJoin, history, Abstract!Closed, PhaseOf
  <2> QED  BY <2>1 DEF Abstract!Next
<1>6. ASSUME PendingView' = PendingView, ActiveView' = ActiveView, UNCHANGED <<processed, stopPc>>
      PROVE  UNCHANGED Abstract!vars
  BY <1>6 DEF PhaseOf
<1>7. ASSUME NEW k \in Caller, NEW m \in Message, NEW s \in Slot, EnqueueCreate(k, m, s)
      PROVE  UNCHANGED Abstract!vars
  BY <1>p, <1>6, <1>7, CreateView DEF EnqueueCreate, history, stopVars
<1>8. ASSUME NEW k \in Caller,
             (\E m \in Message : EnqueueFind(k, m)) \/ EnqueueNotify(k)
      PROVE  UNCHANGED Abstract!vars
  BY <1>6, <1>8, OtherView DEF EnqueueFind, EnqueueNotify, slotVars, history, stopVars
<1>9. ASSUME NEW s \in Slot, WorkerSleep(s) \/ WorkerExit(s) \/ StopSignal(s)
      PROVE  UNCHANGED Abstract!vars
  BY <1>6, <1>9, OtherView DEF WorkerSleep, WorkerExit, StopSignal, history, stopVars
<1>10. CASE UNCHANGED vars
  BY <1>6, <1>10, OtherView DEF vars
<1> QED
  BY <1>1, <1>2, <1>3, <1>4, <1>5, <1>7, <1>8, <1>9, <1>10 DEF Next, Worker

\* worker_pool.cpp implements what worker_pool.h promises: every behaviour of the
\* slots, threads and condition variables is one of the abstract delivery.
THEOREM Implements == Safety => Abstract!Safety
BY InitRefines, StepRefines, Invariance, PTL DEF Safety, Abstract!Safety
================================================================================
