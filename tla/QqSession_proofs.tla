--------------------------- MODULE QqSession_proofs ---------------------------
(* What a session keeps, for any number of faults, refreshes and events.       *)
EXTENDS QqSession, FiniteSetTheorems, TLAPS
-------------------------------------------------------------------------------
(* The invariant.                                                              *)

\* Only stop() begins to close for good, and it lowers running_ first.
Stopping == halt # "no" => ~running

\* Nothing is on its way.
Bare == inbox = <<>> /\ req = NoReq /\ att = 0

\* Frames and requests travel only on a connection that run() reads.
Carries ==
    (wire # "up" \/ pc \notin {"head", "read"} \/ halt \in {"closing", "done"}) => Bare

\* The id taken before connecting is still the one the session has when it greets.
Took == pc \in {"connect", "greet"} => lastSid = sid

\* A request speaks for the session as it is now, and nothing comes before its answer.
Asks ==
    \/ req = NoReq
    \/ /\ inbox = <<>> /\ att = 0
       /\ \/ req.op = "identify" /\ sid = 0
          \/ req = [op |-> "resume", sid |-> sid, seq |-> seq] /\ sid # 0

\* Before a session is bound to the connection only Hello or a refusal can come.
Opens ==
    (att = 0 /\ inbox # <<>>) =>
        \/ inbox = <<Frame("hello", 0, 0)>> /\ lastSid = sid
        \/ \E s \in {0, sid} : inbox = <<Frame("invalid", s, 0)>>

\* The number up to which the session has taken the frames of its connection.
Pos == IF sid = att THEN seq ELSE 0

\* The first frame of a new session is on its way, or the session knows it.
Bound ==
    att # 0 =>
        /\ req = NoReq /\ att \in DOMAIN log /\ att \notin rejected
        /\ sid # att => /\ sid = 0 /\ handled[att] = <<>>
                        /\ inbox # <<>> /\ inbox[1].op = "ready"

\* A frame of the bound session: a forced reconnect, or what log says it is.
Genuine(f) ==
    \/ f.op = "reconnect" /\ f.n = 0
    \/ /\ f.op \in {"ready", "resumed", "event"} /\ f.sid = att
       /\ f.n \in DOMAIN log[att] /\ log[att][f.n] = f.op /\ f.n > Pos

\* What comes on a bound connection: genuine frames, in order, no event left out.
Stream ==
    att # 0 =>
        /\ \A i \in DOMAIN inbox : Genuine(inbox[i])
        /\ \A i, j \in DOMAIN inbox :
              i < j /\ inbox[i].n > 0 /\ inbox[j].n > 0 => inbox[i].n < inbox[j].n
        /\ \A n \in Numbers(att, "event") : n > Pos => \E i \in DOMAIN inbox : inbox[i].n = n

\* Exactly the events up to number p are dispatched, in order.
Dispatched(s, p) ==
    /\ \A i, j \in DOMAIN handled[s] : i < j => handled[s][i] < handled[s][j]
    /\ {handled[s][i] : i \in DOMAIN handled[s]} = {n \in Numbers(s, "event") : n <= p}

\* last_sequence_ is the number up to which the session is dispatched.
Caught ==
    sid # 0 => seq <= Len(log[sid]) /\ Dispatched(sid, seq) /\ sid \notin rejected

Known == \A s \in DOMAIN log : \E p \in 0 .. Len(log[s]) : Dispatched(s, p)

IInv ==
    /\ TypeOK /\ Stopping /\ RefreshAlive
    /\ Carries /\ Took /\ Asks /\ Opens
    /\ Bound /\ Stream /\ Caught /\ Known
-------------------------------------------------------------------------------
(* Types.                                                                      *)

\* A sequence over a set is one over a larger set.
LEMMA SeqWider ==
    ASSUME NEW A, NEW B, A \subseteq B, NEW s \in Seq(A)
    PROVE  s \in Seq(B)
<1>1. s \in [1 .. Len(s) -> A] /\ Len(s) \in Nat
  OBVIOUS
<1>2. s \in [1 .. Len(s) -> B]
  BY <1>1
<1> QED  BY <1>1, <1>2

\* A session added, or frames added to one, leaves the frames on their way typed.
LEMMA FramesStay ==
    ASSUME TypeOK, log' \in Seq(Seq({"ready", "resumed", "event"})), Len(log) <= Len(log')
    PROVE  /\ FrameType \subseteq FrameType' /\ inbox \in Seq(FrameType')
           /\ DOMAIN log \subseteq DOMAIN log' /\ 0 .. Len(log) \subseteq 0 .. Len(log')
<1>1. DOMAIN log = 1 .. Len(log) /\ DOMAIN log' = 1 .. Len(log') /\ Len(log) \in Nat /\ Len(log') \in Nat
  BY DEF TypeOK
<1>2. DOMAIN log \subseteq DOMAIN log' /\ 0 .. Len(log) \subseteq 0 .. Len(log')
  BY <1>1
<1>3. FrameType \subseteq FrameType'
  BY <1>2 DEF FrameType
<1>4. inbox \in Seq(FrameType')
  BY <1>3, SeqWider DEF TypeOK
<1> QED  BY <1>2, <1>3, <1>4

\* The parts of the state that the wire and the gateway do not touch.
LocalType ==
    /\ {running, connected, wsConnected, failed} \subseteq BOOLEAN
    /\ pc \in {"login", "pause", "gateway", "connect", "head", "read", "greet", "closing",
               "hung", "exit"}
    /\ hb \in {"none", "wait", "write", "abort"}
    /\ gen \in Nat /\ loops \in [1 .. gen -> {"none", "start", "wait", "fired", "login"}]
    /\ halt \in {"no", "posted", "closing", "done"}
    /\ faults \in 0 .. MaxFault /\ refreshes \in 0 .. MaxRefresh

\* The sessions, and what travels.
LinkType ==
    /\ unacked \in BOOLEAN /\ wire \in {"none", "up", "down", "silent"}
    /\ log \in Seq(Seq({"ready", "resumed", "event"}))
    /\ handled \in Seq(Seq(Nat)) /\ Len(handled) = Len(log)
    /\ {sid, lastSid, att} \subseteq 0 .. Len(log) /\ seq \in Nat
    /\ {refused, rejected} \subseteq SUBSET (DOMAIN log)
    /\ inbox \in Seq(FrameType)
    /\ req \in [op : {"none", "identify", "resume"}, sid : 0 .. Len(log), seq : Nat]

LEMMA TypeParts == TypeOK <=> LocalType /\ LinkType
BY DEF TypeOK, LocalType, LinkType

LEMMA GrantedType ==
    ASSUME LocalType, NEW from \in [1 .. gen -> {"none", "start", "wait", "fired", "login"}],
           Granted(from)
    PROVE  /\ gen' \in Nat /\ failed' \in BOOLEAN /\ refreshes' = refreshes
           /\ loops' \in [1 .. gen' -> {"none", "start", "wait", "fired", "login"}]
           /\ loops'[gen'] = "start"
<1>1. gen' = gen + 1 /\ gen \in Nat
  BY DEF Granted, LocalType
<1>2. \A g \in 1 .. gen + 1 : g > gen \/ g \in 1 .. gen
  BY <1>1
<1>3. \A g \in 1 .. gen + 1 : from[g] \in {"none", "start", "wait", "fired", "login"} \/ g > gen
  BY <1>2
<1>4. loops' = [g \in 1 .. gen + 1 |-> IF g = gen + 1 THEN "start"
                                       ELSE IF g > gen \/ loops[g] = "wait" THEN "none"
                                       ELSE from[g]]
  BY DEF Granted, Spawned
<1>5. loops' \in [1 .. gen + 1 -> {"none", "start", "wait", "fired", "login"}]
  BY <1>1, <1>3, <1>4
<1>6. loops'[gen + 1] = "start"
  BY <1>1, <1>4
<1>7. failed' \in BOOLEAN /\ refreshes' = refreshes
  <2>1. failed' = FALSE /\ refreshes' = refreshes
    BY Zenon DEF Granted
  <2> QED  BY <2>1
<1>8. gen' \in Nat
  BY <1>1
<1> QED
  BY <1>1, <1>5, <1>6, <1>7, <1>8

LEMMA LocalStep ==
    ASSUME LocalType, LinkType, [Next]_vars
    PROVE  LocalType'
<1> USE DEF LocalType
<1>1. CASE RunLogin
  <2>1. loops \in [1 .. gen -> {"none", "start", "wait", "fired", "login"}]
    OBVIOUS
  <2>2. CASE Granted(loops)
    <3>1. /\ gen' \in Nat /\ failed' \in BOOLEAN /\ refreshes' = refreshes
          /\ loops' \in [1 .. gen' -> {"none", "start", "wait", "fired", "login"}]
      BY <2>1, <2>2, GrantedType
    <3>2. pc' \in {"gateway", "pause"} /\ faults' \in 0 .. MaxFault
      BY <1>1, QqAssumption DEF RunLogin, Fault
    <3> QED  BY <1>1, <3>1, <3>2 DEF RunLogin, atomics
  <2>3. CASE Fault
    BY <1>1, <2>3, QqAssumption DEF RunLogin, Fault, atomics, token
  <2> QED  BY <1>1, <2>2, <2>3 DEF RunLogin
<1>2. ASSUME NEW g \in DOMAIN loops, LoopStart(g) PROVE LocalType'
  BY <1>2 DEF LoopStart, atomics
<1>3. CASE TimerFires
  BY <1>3, QqAssumption DEF TimerFires, atomics
<1>4. ASSUME NEW g \in DOMAIN loops, LoopResume(g) PROVE LocalType'
  BY <1>4 DEF LoopResume, atomics
<1>5. ASSUME NEW g \in DOMAIN loops, LoopLogin(g) PROVE LocalType'
  <2> DEFINE left == [loops EXCEPT ![g] = "none"]
  <2>1. left \in [1 .. gen -> {"none", "start", "wait", "fired", "login"}]
    OBVIOUS
  <2>2. CASE Granted(left)
    <3>1. /\ gen' \in Nat /\ failed' \in BOOLEAN /\ refreshes' = refreshes
          /\ loops' \in [1 .. gen' -> {"none", "start", "wait", "fired", "login"}]
      BY <2>1, <2>2, GrantedType
    <3>2. faults' \in 0 .. MaxFault
      BY <1>5, QqAssumption DEF LoopLogin, Fault
    <3> QED  BY <1>5, <3>1, <3>2 DEF LoopLogin, atomics
  <2>3. CASE Fault /\ loops' = left /\ failed' = (failed \/ gen = g) /\ UNCHANGED <<gen, refreshes>>
    <3>1. faults' \in 0 .. MaxFault
      BY <2>3, QqAssumption DEF Fault
    <3>2. failed' \in BOOLEAN
      BY <2>3
    <3>3. loops' \in [1 .. gen' -> {"none", "start", "wait", "fired", "login"}]
      BY <2>1, <2>3
    <3> HIDE DEF left
    <3> QED  BY <1>5, <2>3, <3>1, <3>2, <3>3 DEF LoopLogin, atomics
  <2> QED  BY <1>5, <2>2, <2>3 DEF LoopLogin
<1>6. CASE FetchGateway
  BY <1>6, QqAssumption DEF FetchGateway, Fault, atomics, token
<1>7. CASE Retry
  BY <1>7 DEF Retry, atomics, token
<1>8. CASE Closed
  BY <1>8 DEF Closed, AfterClose, atomics, token
<1>9. CASE Connect
  <2>1. CASE wsConnected' = TRUE /\ pc' = "head" /\ UNCHANGED <<running, connected, hb, faults>>
    BY <1>9, <2>1 DEF Connect, token
  <2>2. CASE Fault /\ HangUp
    <3>1. UNCHANGED <<token, halt>> /\ faults' \in 0 .. MaxFault
      BY <1>9, <2>2, QqAssumption DEF Connect, Fault
    <3>2. hb' \in {"none", "abort"} /\ pc' = "closing" /\ running' = running
      BY <2>2 DEF HangUp
    <3>3. connected' \in BOOLEAN /\ wsConnected' \in BOOLEAN
      BY <2>2 DEF HangUp
    <3> QED  BY <3>1, <3>2, <3>3 DEF token
  <2> QED  BY <1>9, <2>1, <2>2 DEF Connect
<1>10. CASE Hang
  BY <1>10, QqAssumption DEF Hang, Fault, atomics, token
<1>11. CASE LoopTest
  BY <1>11 DEF LoopTest, HangUp, atomics, token
<1>12. CASE Read
  BY <1>12 DEF Read, HangUp, atomics, token
<1>13. CASE Greet
  BY <1>13 DEF Greet, HangUp, atomics, token
<1>14. CASE ReadFails
  BY <1>14 DEF ReadFails, HangUp, atomics, token
<1>15. CASE HbFires \/ HbWritten \/ HbFails
  BY <1>15 DEF HbFires, HbWritten, HbFails, atomics, token
<1>16. CASE Stop
  BY <1>16 DEF Stop, token
<1>17. CASE Teardown
  BY <1>17 DEF Teardown, atomics
<1>18. CASE Halted
  BY <1>18 DEF Halted, atomics, token
<1>19. CASE AnswerIdentify
  BY <1>19, QqAssumption DEF AnswerIdentify, Fault, atomics, token
<1>20. CASE AnswerResume
  BY <1>20 DEF AnswerResume, atomics, token
<1>21. ASSUME NEW s \in DOMAIN log, Emit(s) PROVE LocalType'
  BY <1>21 DEF Emit, atomics, token
<1>22. CASE AskReconnect
  BY <1>22, QqAssumption DEF AskReconnect, Fault, atomics, token
<1>23. CASE Lose
  BY <1>23, QqAssumption DEF Lose, Fault, atomics, token
<1>24. CASE GiveUp
  BY <1>24 DEF GiveUp, atomics, token
<1>25. CASE UNCHANGED vars
  BY <1>25 DEF vars, atomics, token
<1> QED
  BY <1>1, <1>2, <1>3, <1>4, <1>5, <1>6, <1>7, <1>8, <1>9, <1>10, <1>11, <1>12, <1>13, <1>14,
     <1>15, <1>16, <1>17, <1>18, <1>19, <1>20, <1>21, <1>22, <1>23, <1>24, <1>25
     DEF Next, IoStep, Outside

-------------------------------------------------------------------------------
(* The kinds of steps, by what they do to the connection and the sessions.     *)

\* Frames can travel.
Open == wire = "up" /\ pc \in {"head", "read"} /\ halt \in {"no", "posted"}

\* A step that leaves what travels and what is known of the sessions alone.
Aside ==
    /\ UNCHANGED <<sid, seq, inbox, req, att, refused, log, handled, rejected>>
    /\ unacked' \in BOOLEAN /\ wire' \in {"none", "up", "down", "silent"}
    /\ lastSid' \in {0, sid, lastSid}
    /\ Open => Open' /\ lastSid' = lastSid
    /\ pc' \in {"connect", "greet"} => \/ pc' = pc /\ lastSid' = lastSid
                                       \/ lastSid' = sid

\* A step that cuts the connection.
Cut ==
    /\ UNCHANGED <<sid, seq, lastSid, refused, log, handled, rejected>>
    /\ unacked' \in BOOLEAN /\ wire' \in {"none", "up", "down", "silent"}
    /\ inbox' = <<>> /\ req' = NoReq /\ att' = 0
    /\ pc' = pc \/ pc' \notin {"connect", "greet"}

\* The connection is made, and Hello is on its way.
Opened ==
    /\ pc = "connect" /\ halt \in {"no", "posted"}
    /\ wire' = "up" /\ inbox' = <<Frame("hello", 0, 0)>> /\ pc' = "head"
    /\ UNCHANGED <<sid, seq, lastSid, halt, unacked, remote, history>>

\* Identify or Resume is written.
Greeted ==
    /\ pc = "greet" /\ halt \in {"no", "posted"}
    /\ req' = IF wire = "up" THEN Greeting ELSE NoReq
    /\ pc' = "head" /\ unacked' \in BOOLEAN
    /\ UNCHANGED <<sid, seq, lastSid, halt, wire, inbox, att, refused, log, history>>

LEMMA Kinds ==
    ASSUME TypeOK, [Next]_vars
    PROVE  \/ Aside \/ Cut \/ Opened \/ Greeted \/ Read
           \/ AnswerIdentify \/ AnswerResume \/ AskReconnect \/ \E s \in DOMAIN log : Emit(s)
<1>0. /\ unacked \in BOOLEAN /\ wire \in {"none", "up", "down", "silent"}
  BY DEF TypeOK
<1>1. CASE RunLogin
  <2>1. pc' \in {"gateway", "pause"} /\ pc = "login"
    BY <1>1 DEF RunLogin
  <2>2. UNCHANGED <<atomics, sid, seq, lastSid, hb, halt, link, history>>
    BY <1>1 DEF RunLogin
  <2> QED  BY <1>0, <2>1, <2>2 DEF Aside, Open, link, remote, history
<1>2. CASE TimerFires \/ \E g \in DOMAIN loops : LoopStart(g) \/ LoopResume(g) \/ LoopLogin(g)
  <2>1. UNCHANGED <<sid, seq, pc, lastSid, halt, link, history>>
    BY <1>2 DEF TimerFires, LoopStart, LoopResume, LoopLogin
  <2> QED  BY <1>0, <2>1 DEF Aside, Open, link, remote, history
<1>3. CASE FetchGateway
  <2>1. /\ (pc' = "connect" /\ lastSid' = sid) \/ (pc' = "pause" /\ lastSid' = lastSid)
        /\ pc = "gateway" /\ UNCHANGED <<sid, seq, halt, link, history>>
    BY <1>3 DEF FetchGateway
  <2> QED  BY <1>0, <2>1 DEF Aside, Open, link, remote, history
<1>4. CASE Retry \/ Hang
  <2>1. /\ pc' \in {"login", "exit", "hung"} /\ pc \notin {"head", "read"}
        /\ UNCHANGED <<sid, seq, lastSid, halt, link, history>>
    BY <1>4 DEF Retry, Hang
  <2> QED  BY <1>0, <2>1 DEF Aside, Open, link, remote, history
<1>5. CASE Closed
  <2>1. /\ pc' \in {"pause", "exit"} /\ pc = "closing" /\ wire' = "none" /\ lastSid' = 0
        /\ UNCHANGED <<sid, seq, halt, unacked, inbox, remote, history>>
    BY <1>5 DEF Closed, AfterClose
  <2> QED  BY <1>0, <2>1 DEF Aside, Open, remote, history
<1>6. CASE Connect
  <2>1. CASE Fault /\ HangUp
    <3>1. UNCHANGED <<sid, seq, lastSid, halt, history>>
      BY <1>6 DEF Connect
    <3> QED  BY <1>0, <2>1, <3>1 DEF HangUp, Cut, history
  <2>2. CASE ~ (Fault /\ HangUp)
    BY <1>6, <2>2 DEF Connect, Opened, Io, Frame
  <2> QED  BY <2>1, <2>2
<1>7. CASE LoopTest
  <2>1. CASE HangUp
    <3>1. UNCHANGED <<sid, seq, lastSid, halt, history>>
      BY <1>7 DEF LoopTest
    <3> QED  BY <1>0, <2>1, <3>1 DEF HangUp, Cut, history
  <2>2. CASE ~ HangUp
    <3>1. /\ pc = "head" /\ pc' = "read"
          /\ UNCHANGED <<sid, seq, lastSid, halt, history, link>>
      BY <1>7, <2>2 DEF LoopTest
    <3> QED  BY <1>0, <3>1 DEF Aside, Open, link, remote, history
  <2> QED  BY <2>1, <2>2
<1>8. CASE Greet
  <2>1. CASE HangUp
    <3>1. UNCHANGED <<sid, seq, lastSid, halt, history>>
      BY <1>8 DEF Greet
    <3> QED  BY <1>0, <2>1, <3>1 DEF HangUp, Cut, history
  <2>2. CASE ~ HangUp
    BY <1>8, <2>2 DEF Greet, Greeted, Io
  <2> QED  BY <2>1, <2>2
<1>9. CASE ReadFails
  <2>1. HangUp /\ UNCHANGED <<sid, seq, lastSid, halt, history>>
    BY <1>9 DEF ReadFails
  <2> QED  BY <1>0, <2>1 DEF HangUp, Cut, history
<1>10. CASE HbFires \/ HbWritten \/ HbFails
  <2>1. /\ UNCHANGED <<sid, seq, pc, lastSid, halt, wire, inbox, remote, history>>
        /\ unacked' \in BOOLEAN
    BY <1>0, <1>10 DEF HbFires, HbWritten, HbFails, link
  <2> QED  BY <1>0, <2>1 DEF Aside, Open, remote, history
<1>11. CASE Stop
  <2>1. /\ halt = "no" /\ halt' = "posted"
        /\ UNCHANGED <<sid, seq, pc, lastSid, link, history>>
    BY <1>11 DEF Stop
  <2> QED  BY <1>0, <2>1 DEF Aside, Open, link, remote, history
<1>12. CASE Teardown
  BY <1>0, <1>12 DEF Teardown, Cut, history
<1>13. CASE Halted
  <2>1. /\ halt = "closing" /\ wire' = "none"
        /\ UNCHANGED <<sid, seq, pc, lastSid, unacked, inbox, remote, history>>
    BY <1>13 DEF Halted
  <2> QED  BY <1>0, <2>1 DEF Aside, Open, remote, history
<1>14. CASE Lose
  <2>1. wire' \in {"down", "silent"} /\ unacked' \in BOOLEAN
    BY <1>14 DEF Lose
  <2> QED  BY <1>14, <2>1 DEF Lose, Cut, history
<1>15. CASE GiveUp
  BY <1>15 DEF GiveUp, Aside, Open, remote, history
<1>16. CASE UNCHANGED vars
  BY <1>0, <1>16 DEF vars, Aside, Open, link, remote, history
<1> QED
  BY <1>1, <1>2, <1>3, <1>4, <1>5, <1>6, <1>7, <1>8, <1>9, <1>10, <1>11, <1>12, <1>13, <1>14,
     <1>15, <1>16 DEF Next, IoStep, Outside

\* The gateway has opened the session that the client knows.
LEMMA SessionKnown ==
    ASSUME TypeOK
    PROVE  /\ DOMAIN log = 1 .. Len(log) /\ Len(log) \in Nat /\ seq \in Nat
           /\ sid # 0 => sid \in DOMAIN log
<1>1. log \in Seq(Seq({"ready", "resumed", "event"})) /\ sid \in 0 .. Len(log) /\ seq \in Nat
  BY DEF TypeOK
<1>2. DOMAIN log = 1 .. Len(log) /\ Len(log) \in Nat
  BY <1>1
<1> QED  BY <1>1, <1>2

\* The numbered frames of a session.
LEMMA NumbersType ==
    ASSUME TypeOK, NEW s \in DOMAIN log
    PROVE  /\ log[s] \in Seq({"ready", "resumed", "event"}) /\ Len(log[s]) \in Nat
           /\ \A kind : Numbers(s, kind) \subseteq 1 .. Len(log[s])
<1>1. log[s] \in Seq({"ready", "resumed", "event"})
  BY DEF TypeOK
<1>2. Len(log[s]) \in Nat /\ DOMAIN log[s] = 1 .. Len(log[s])
  BY <1>1
<1> QED  BY <1>1, <1>2 DEF Numbers

\* The events after a number are listed in order, and no other.
LEMMA DueType ==
    ASSUME TypeOK, NEW s \in DOMAIN log, NEW p \in Nat,
           NEW due \in Ascending({n \in Numbers(s, "event") : n > p})
    PROVE  /\ Len(due) \in Nat /\ DOMAIN due = 1 .. Len(due)
           /\ \A i \in DOMAIN due : due[i] \in Numbers(s, "event") /\ due[i] \in 1 .. Len(log[s])
                                    /\ due[i] > p
           /\ \A i, j \in DOMAIN due : i < j => due[i] < due[j]
           /\ \A n \in Numbers(s, "event") : n > p => \E i \in DOMAIN due : due[i] = n
<1> DEFINE S == {n \in Numbers(s, "event") : n > p}
<1>1. S \subseteq 1 .. Len(log[s]) /\ Len(log[s]) \in Nat
  BY NumbersType
<1>2. \A n \in S : n \in Numbers(s, "event") /\ n > p
  OBVIOUS
<1>3. \A n \in Numbers(s, "event") : n > p => n \in S
  OBVIOUS
<1>4. due \in Ascending(S)
  OBVIOUS
<1> HIDE DEF S
<1>5. Cardinality(S) \in Nat
  <2>1. IsFiniteSet(1 .. Len(log[s]))
    BY <1>1, FS_Interval
  <2>2. IsFiniteSet(S)
    BY <1>1, <2>1, FS_Subset
  <2> QED  BY <2>2, FS_CardinalityType
<1>6. /\ due \in [1 .. Cardinality(S) -> S]
      /\ \A i, j \in DOMAIN due : i < j => due[i] < due[j]
      /\ \A n \in S : \E i \in DOMAIN due : due[i] = n
  BY <1>4 DEF Ascending
<1>7. Len(due) = Cardinality(S) /\ DOMAIN due = 1 .. Len(due)
  BY <1>5, <1>6
<1> QED  BY <1>1, <1>2, <1>3, <1>5, <1>6, <1>7

\* A sequence with one more element.
LEMMA OneMore ==
    ASSUME NEW A, NEW a \in Seq(A), NEW x \in A
    PROVE  /\ a \o <<x>> \in Seq(A) /\ Len(a \o <<x>>) = Len(a) + 1
           /\ \A i \in 1 .. Len(a) : (a \o <<x>>)[i] = a[i]
           /\ (a \o <<x>>)[Len(a) + 1] = x
<1>1. <<x>> \in Seq(A) /\ Len(<<x>>) = 1 /\ <<x>>[1] = x
  OBVIOUS
<1>2. a \o <<x>> \in Seq(A) /\ Len(a \o <<x>>) = Len(a) + 1 /\ Len(a) \in Nat
  BY <1>1
<1>3. \A i \in 1 .. Len(a) : (a \o <<x>>)[i] = a[i]
  BY <1>1
<1>4. (a \o <<x>>)[Len(a) + 1] = x
  BY <1>1, <1>2
<1> QED  BY <1>2, <1>3, <1>4

\* The frames that answer a Resume.
LEMMA ReplayType ==
    ASSUME TypeOK, NEW s \in DOMAIN log, NEW p \in Nat,
           NEW due \in Ascending({n \in Numbers(s, "event") : n > p})
    PROVE  /\ Replay(s, due) \in Seq(FrameType) /\ Len(Replay(s, due)) = Len(due) + 1
           /\ \A i \in 1 .. Len(due) : Replay(s, due)[i] = Frame("event", s, due[i])
           /\ Replay(s, due)[Len(due) + 1] = Frame("resumed", s, Len(log[s]) + 1)
<1> DEFINE again == [i \in DOMAIN due |-> Frame("event", s, due[i])]
           last == Frame("resumed", s, Len(log[s]) + 1)
<1>1. /\ Len(due) \in Nat /\ DOMAIN due = 1 .. Len(due)
      /\ \A i \in 1 .. Len(due) : due[i] \in 1 .. Len(log[s])
  BY DueType
<1>2. Len(log[s]) \in Nat /\ s \in 0 .. Len(log)
  <2>1. DOMAIN log = 1 .. Len(log) /\ Len(log) \in Nat
    BY SessionKnown
  <2> QED  BY <2>1, NumbersType
<1>3. \A i \in 1 .. Len(due) : Frame("event", s, due[i]) \in FrameType
  BY <1>1, <1>2 DEF Frame, FrameType
<1>4. last \in FrameType
  BY <1>2 DEF Frame, FrameType
<1>5. Replay(s, due) = again \o <<last>>
  BY DEF Replay
<1>6. \A i \in 1 .. Len(due) : again[i] = Frame("event", s, due[i])
  BY <1>1
<1>7. again \in [1 .. Len(due) -> FrameType]
  BY <1>1, <1>3
<1>8. again \in Seq(FrameType) /\ Len(again) = Len(due)
  BY <1>1, <1>7
<1> HIDE DEF again, last
<1>9. /\ again \o <<last>> \in Seq(FrameType) /\ Len(again \o <<last>>) = Len(due) + 1
      /\ \A i \in 1 .. Len(due) : (again \o <<last>>)[i] = again[i]
      /\ (again \o <<last>>)[Len(due) + 1] = last
  BY <1>4, <1>8, OneMore
<1> QED  BY <1>5, <1>6, <1>9 DEF last

LEMMA LinkStep ==
    ASSUME TypeOK, Asks, [Next]_vars
    PROVE  LinkType'
<1>1. LinkType
  BY TypeParts
<1>2. log' = log => FrameType' = FrameType
  BY DEF FrameType
<1>3. NoReq \in [op : {"none", "identify", "resume"}, sid : 0 .. Len(log), seq : Nat]
  BY <1>1 DEF NoReq, LinkType
<1>4. CASE Aside
  BY <1>1, <1>2, <1>4 DEF LinkType, Aside
<1>5. CASE Cut
  BY <1>1, <1>2, <1>3, <1>5 DEF LinkType, Cut
<1>6. CASE Opened
  <2>1. Frame("hello", 0, 0) \in FrameType
    BY <1>1 DEF LinkType, Frame, FrameType
  <2>2. <<Frame("hello", 0, 0)>> \in Seq(FrameType)
    BY <2>1
  <2> QED  BY <1>1, <1>2, <1>6, <2>2 DEF LinkType, Opened, remote, history
<1>7. CASE Greeted
  <2>1. Greeting \in [op : {"none", "identify", "resume"}, sid : 0 .. Len(log), seq : Nat]
    BY <1>1 DEF Greeting, LinkType
  <2>2. req' \in [op : {"none", "identify", "resume"}, sid : 0 .. Len(log), seq : Nat]
    BY <1>3, <1>7, <2>1 DEF Greeted
  <2> QED  BY <1>1, <1>2, <1>7, <2>2 DEF LinkType, Greeted, history
<1>8. CASE Read
  <2> DEFINE f == Head(inbox)
  <2>1. inbox \in Seq(FrameType) /\ inbox # <<>>
    BY <1>1, <1>8 DEF LinkType, Read
  <2>2. f \in FrameType /\ Tail(inbox) \in Seq(FrameType)
    BY <2>1
  <2>3. f.sid \in 0 .. Len(log) /\ f.n \in Nat
    BY <2>2 DEF FrameType
  <2> HIDE DEF f
  <2>4. log' = log /\ refused' = refused /\ lastSid' = lastSid /\ wire' = wire
    BY <1>8 DEF Read, HangUp, remote
  <2>5. seq' \in Nat /\ sid' \in 0 .. Len(log)
    <3>1. seq' = SeqAfter(f) /\ sid' = SidAfter(f)
      BY <1>8 DEF Read, f
    <3> QED  BY <1>1, <2>3, <3>1 DEF LinkType, SeqAfter, SidAfter
  <2>6. CASE f.op \in {"invalid", "reconnect"}
    <3>1. HangUp /\ handled' = handled
      BY <1>8, <2>6 DEF Read, f
    <3>2. rejected' = rejected \/ rejected' = rejected \cup ({f.sid} \ {0})
      BY <1>8, <2>6 DEF Read, f
    <3>3. rejected' \subseteq DOMAIN log
      BY <1>1, <2>3, <3>2 DEF LinkType
    <3>4. inbox' = <<>> /\ req' = NoReq /\ att' = 0 /\ unacked' \in BOOLEAN
      BY <3>1 DEF HangUp
    <3> QED  BY <1>1, <1>2, <1>3, <2>4, <2>5, <3>1, <3>3, <3>4 DEF LinkType
  <2>7. CASE f.op \notin {"invalid", "reconnect"}
    <3>1. /\ inbox' = Tail(inbox) /\ UNCHANGED <<unacked, remote, rejected>>
          /\ handled' = IF f.op # "event" THEN handled
                        ELSE [handled EXCEPT ![f.sid] = Append(@, f.n)]
      BY <1>8, <2>7 DEF Read, f
    <3>2. handled' \in Seq(Seq(Nat)) /\ Len(handled') = Len(log)
      <4>1. handled \in [1 .. Len(log) -> Seq(Nat)] /\ Len(log) \in Nat
        BY <1>1 DEF LinkType
      <4>2. \A s \in 1 .. Len(log) : Append(handled[s], f.n) \in Seq(Nat)
        BY <2>3, <4>1
      <4>3. handled' \in [1 .. Len(log) -> Seq(Nat)]
        BY <3>1, <4>1, <4>2
      <4> QED  BY <4>1, <4>3
    <3> QED  BY <1>1, <1>2, <2>2, <2>4, <2>5, <3>1, <3>2 DEF LinkType, remote
  <2> QED  BY <2>6, <2>7
<1>9. CASE AnswerIdentify
  <2>1. CASE UNCHANGED <<att, log, handled>> /\ Send(<<Frame("invalid", 0, 0)>>)
    <3>1. Frame("invalid", 0, 0) \in FrameType
      BY <1>1 DEF LinkType, Frame, FrameType
    <3>2. inbox' \in Seq(FrameType) /\ req' = NoReq
      BY <1>1, <2>1, <3>1 DEF LinkType, Send
    <3>3. UNCHANGED <<sid, seq, lastSid, wire, unacked, refused, rejected, att, log, handled>>
      BY <1>9, <2>1 DEF AnswerIdentify
    <3> QED  BY <1>1, <1>2, <1>3, <3>2, <3>3 DEF LinkType
  <2>2. CASE /\ Send(<<Frame("ready", Len(log) + 1, 1)>>) /\ att' = Len(log) + 1
             /\ log' = Append(log, <<"ready">>) /\ handled' = Append(handled, <<>>)
    <3>1. /\ log' \in Seq(Seq({"ready", "resumed", "event"})) /\ Len(log') = Len(log) + 1
          /\ Len(log) \in Nat
      BY <1>1, <2>2 DEF LinkType
    <3>2. handled' \in Seq(Seq(Nat)) /\ Len(handled') = Len(log')
      <4>1. <<>> \in Seq(Nat)
        OBVIOUS
      <4>2. handled \in Seq(Seq(Nat)) /\ Len(handled) = Len(log) /\ handled' = Append(handled, <<>>)
        BY <1>1, <2>2 DEF LinkType
      <4> QED  BY <3>1, <4>1, <4>2
    <3>3. /\ FrameType \subseteq FrameType' /\ inbox \in Seq(FrameType')
          /\ DOMAIN log \subseteq DOMAIN log' /\ 0 .. Len(log) \subseteq 0 .. Len(log')
      <4>1. Len(log) <= Len(log')
        BY <3>1
      <4> QED  BY <3>1, <4>1, FramesStay
    <3>4. Frame("ready", Len(log) + 1, 1) \in FrameType'
      BY <3>1 DEF Frame, FrameType
    <3>5. inbox' \in Seq(FrameType') /\ req' = NoReq
      BY <2>2, <3>3, <3>4 DEF Send
    <3>6. req' \in [op : {"none", "identify", "resume"}, sid : 0 .. Len(log'), seq : Nat]
      BY <1>3, <3>3, <3>5
    <3>7. UNCHANGED <<sid, seq, lastSid, wire, unacked, refused, rejected>>
      BY <1>9 DEF AnswerIdentify
    <3>8. {sid', lastSid', att'} \subseteq 0 .. Len(log')
      BY <1>1, <2>2, <3>1, <3>3, <3>7 DEF LinkType
    <3> QED  BY <1>1, <3>1, <3>2, <3>3, <3>5, <3>6, <3>7, <3>8 DEF LinkType
  <2> QED  BY <1>9, <2>1, <2>2 DEF AnswerIdentify
<1>10. CASE AnswerResume
  <2> DEFINE s == req.sid
  <2>1. req.op = "resume" /\ UNCHANGED <<sid, seq, lastSid, wire, unacked, history>>
    BY <1>10 DEF AnswerResume
  <2>2. s \in DOMAIN log /\ s \in 1 .. Len(log) /\ req.seq \in Nat /\ inbox = <<>>
    <3>1. req # NoReq /\ req.op # "identify"
      BY <2>1 DEF NoReq
    <3>2. inbox = <<>> /\ sid # 0 /\ req = [op |-> "resume", sid |-> sid, seq |-> seq]
      BY <3>1 DEF Asks
    <3>3. req.sid = sid /\ req.seq = seq
      BY <3>2
    <3> QED  BY <1>1, <3>2, <3>3 DEF LinkType
  <2>3. log \in [1 .. Len(log) -> Seq({"ready", "resumed", "event"})] /\ Len(log) \in Nat
    BY <1>1 DEF LinkType
  <2>4. ASSUME NEW due \in Ascending({n \in Numbers(s, "event") : n > req.seq}),
               Send(Replay(s, due)), att' = s, UNCHANGED refused,
               log' = [log EXCEPT ![s] = Append(@, "resumed")]
        PROVE  LinkType'
    <3>1. Replay(s, due) \in Seq(FrameType)
      BY <2>2, ReplayType
    <3> HIDE DEF s
    <3>2. log' \in Seq(Seq({"ready", "resumed", "event"})) /\ Len(log') = Len(log)
      <4>1. Append(log[s], "resumed") \in Seq({"ready", "resumed", "event"})
        BY <2>2, <2>3
      <4>2. log' \in [1 .. Len(log) -> Seq({"ready", "resumed", "event"})]
        BY <2>3, <2>4, <4>1
      <4> QED  BY <2>3, <4>2
    <3>3. FrameType' = FrameType /\ DOMAIN log' = DOMAIN log
      BY <2>3, <3>2 DEF FrameType
    <3>4. inbox' = Replay(s, due) /\ req' = NoReq
      BY <2>2, <2>4, <3>1 DEF Send
    <3>5. inbox' \in Seq(FrameType')
      BY <3>1, <3>3, <3>4
    <3>6. req' \in [op : {"none", "identify", "resume"}, sid : 0 .. Len(log'), seq : Nat]
      BY <1>3, <3>2, <3>4
    <3>7. att' \in 0 .. Len(log')
      BY <2>2, <2>4, <3>2
    <3> QED  BY <1>1, <2>1, <2>4, <3>2, <3>3, <3>5, <3>6, <3>7 DEF LinkType, history
  <2>5. CASE /\ Send(<<Frame("invalid", s, 0)>>) /\ refused' = refused \cup {s}
             /\ UNCHANGED <<att, log>>
    <3>1. Frame("invalid", s, 0) \in FrameType
      BY <2>2 DEF Frame, FrameType
    <3>2. inbox' \in Seq(FrameType) /\ req' = NoReq
      BY <1>1, <2>5, <3>1 DEF LinkType, Send
    <3>3. refused' \subseteq DOMAIN log
      BY <1>1, <2>2, <2>5 DEF LinkType
    <3> HIDE DEF s
    <3> QED  BY <1>1, <1>2, <1>3, <2>1, <2>5, <3>2, <3>3 DEF LinkType, history
  <2> QED  BY <1>10, <2>4, <2>5 DEF AnswerResume
<1>11. ASSUME NEW s \in DOMAIN log, Emit(s) PROVE LinkType'
  <2>1. log \in [1 .. Len(log) -> Seq({"ready", "resumed", "event"})] /\ Len(log) \in Nat
    BY <1>1 DEF LinkType
  <2>2. log' \in Seq(Seq({"ready", "resumed", "event"})) /\ Len(log') = Len(log)
    <3>1. Append(log[s], "event") \in Seq({"ready", "resumed", "event"})
      BY <2>1
    <3>2. log' = [log EXCEPT ![s] = Append(@, "event")]
      BY <1>11 DEF Emit
    <3>3. log' \in [1 .. Len(log) -> Seq({"ready", "resumed", "event"})]
      BY <2>1, <3>1, <3>2
    <3> QED  BY <2>1, <3>3
  <2>3. FrameType' = FrameType /\ DOMAIN log' = DOMAIN log
    BY <2>1, <2>2 DEF FrameType
  <2>4. inbox' \in Seq(FrameType')
    <3>1. Frame("event", s, Len(log[s]) + 1) \in FrameType
      <4>1. Len(log[s]) + 1 \in Nat /\ s \in 0 .. Len(log)
        BY <2>1
      <4> QED  BY <4>1 DEF Frame, FrameType
    <3>2. inbox' = inbox \/ inbox' = Append(inbox, Frame("event", s, Len(log[s]) + 1))
      BY <1>11 DEF Emit
    <3>3. inbox \in Seq(FrameType)
      BY <1>1 DEF LinkType
    <3>4. inbox' \in Seq(FrameType)
      BY <3>1, <3>2, <3>3
    <3> QED  BY <2>3, <3>4
  <2>5. UNCHANGED <<sid, seq, lastSid, wire, unacked, req, att, refused, history>>
    BY <1>11 DEF Emit
  <2> QED  BY <1>1, <2>2, <2>3, <2>4, <2>5 DEF LinkType, history
<1>12. CASE AskReconnect
  <2>1. Frame("reconnect", 0, 0) \in FrameType
    BY <1>1 DEF LinkType, Frame, FrameType
  <2>2. inbox' \in Seq(FrameType)
    BY <1>1, <1>12, <2>1 DEF AskReconnect, LinkType
  <2>3. UNCHANGED <<sid, seq, lastSid, wire, unacked, remote, history>>
    BY <1>12 DEF AskReconnect
  <2> QED  BY <1>1, <1>2, <2>2, <2>3 DEF LinkType, remote, history
<1> QED
  BY <1>4, <1>5, <1>6, <1>7, <1>8, <1>9, <1>10, <1>11, <1>12, Kinds

-------------------------------------------------------------------------------
(* The token refresh and stop().                                               *)

LEMMA RefreshStep ==
    ASSUME LocalType, Stopping, RefreshAlive, [Next]_vars
    PROVE  Stopping' /\ RefreshAlive'
<1>1. CASE UNCHANGED <<running, gen, loops, failed, halt>>
  BY <1>1 DEF Stopping, RefreshAlive
<1>2. ASSUME NEW from \in [1 .. gen -> {"none", "start", "wait", "fired", "login"}],
             Granted(from), UNCHANGED <<running, halt>>
      PROVE  Stopping' /\ RefreshAlive'
  <2>1. loops'[gen'] = "start"
    BY <1>2, GrantedType
  <2> QED  BY <1>2, <2>1 DEF Stopping, RefreshAlive
<1>3. CASE RunLogin
  <2>1. UNCHANGED <<running, halt>>
    BY <1>3 DEF RunLogin, atomics
  <2>2. CASE Granted(loops)
    <3>1. loops \in [1 .. gen -> {"none", "start", "wait", "fired", "login"}]
      BY DEF LocalType
    <3> QED  BY <1>2, <2>1, <2>2, <3>1
  <2>3. CASE ~ Granted(loops)
    BY <1>1, <1>3, <2>1, <2>3 DEF RunLogin, token
  <2> QED  BY <2>2, <2>3
<1>4. ASSUME NEW g \in DOMAIN loops, LoopStart(g) PROVE Stopping' /\ RefreshAlive'
  BY <1>4 DEF LoopStart, atomics, Stopping, RefreshAlive, LocalType
<1>5. CASE TimerFires
  BY <1>5 DEF TimerFires, atomics, Stopping, RefreshAlive, LocalType
<1>6. ASSUME NEW g \in DOMAIN loops, LoopResume(g) PROVE Stopping' /\ RefreshAlive'
  BY <1>6 DEF LoopResume, atomics, Stopping, RefreshAlive, LocalType
<1>7. ASSUME NEW g \in DOMAIN loops, LoopLogin(g) PROVE Stopping' /\ RefreshAlive'
  <2> DEFINE left == [loops EXCEPT ![g] = "none"]
  <2>1. UNCHANGED <<running, halt>>
    BY <1>7 DEF LoopLogin, atomics
  <2>2. CASE Granted(left)
    <3>1. left \in [1 .. gen -> {"none", "start", "wait", "fired", "login"}]
      BY DEF LocalType
    <3> HIDE DEF left
    <3> QED  BY <1>2, <2>1, <2>2, <3>1
  <2>3. CASE loops' = left /\ failed' = (failed \/ gen = g) /\ gen' = gen
    <3>1. CASE g = gen
      <4>1. failed'
        BY <2>3, <3>1
      <4> QED  BY <2>1, <4>1 DEF Stopping, RefreshAlive
    <3>2. CASE g # gen
      <4>1. gen > 0 => left[gen] = loops[gen]
        BY <3>2 DEF LocalType
      <4>2. failed' = failed
        BY <2>3, <3>2 DEF LocalType
      <4> HIDE DEF left
      <4> QED  BY <2>1, <2>3, <4>1, <4>2 DEF Stopping, RefreshAlive
    <3> QED  BY <3>1, <3>2
  <2> QED  BY <1>7, <2>2, <2>3 DEF LoopLogin
<1>8. CASE Stop
  BY <1>8 DEF Stop, Stopping, RefreshAlive
<1>9. CASE Teardown
  <2>1. ~ running' /\ ~ running
    BY <1>9 DEF Teardown, Stopping, atomics
  <2> QED  BY <2>1 DEF Stopping, RefreshAlive
<1>10. CASE Halted
  <2>1. ~ running' /\ ~ running
    BY <1>10 DEF Halted, Stopping, atomics
  <2> QED  BY <2>1 DEF Stopping, RefreshAlive
<1>11. CASE FetchGateway \/ Retry \/ Closed \/ Hang \/ HbFires \/ HbWritten \/ HbFails
  BY <1>1, <1>11 DEF FetchGateway, Retry, Closed, Hang, HbFires, HbWritten, HbFails, atomics, token
<1>12. CASE Connect
  BY <1>1, <1>12 DEF Connect, HangUp, token
<1>13. CASE LoopTest \/ ReadFails
  BY <1>1, <1>13 DEF LoopTest, ReadFails, HangUp, token, atomics
<1>14. CASE Greet
  BY <1>1, <1>14 DEF Greet, HangUp, token, atomics
<1>15. CASE Read
  BY <1>1, <1>15 DEF Read, HangUp, token
<1>16. CASE AnswerIdentify \/ AnswerResume \/ AskReconnect \/ Lose \/ GiveUp
  BY <1>1, <1>16 DEF AnswerIdentify, AnswerResume, AskReconnect, Lose, GiveUp, atomics, token
<1>17. ASSUME NEW s \in DOMAIN log, Emit(s) PROVE Stopping' /\ RefreshAlive'
  BY <1>1, <1>17 DEF Emit, atomics, token
<1>18. CASE UNCHANGED vars
  BY <1>1, <1>18 DEF vars, atomics, token
<1> QED
  BY <1>3, <1>4, <1>5, <1>6, <1>7, <1>8, <1>9, <1>10, <1>11, <1>12, <1>13, <1>14, <1>15, <1>16,
     <1>17, <1>18 DEF Next, IoStep, Outside
-------------------------------------------------------------------------------
(* What travels and what is dispatched, one kind of step at a time.            *)

Core ==
    /\ Carries /\ Took /\ Asks /\ Opens
    /\ Bound /\ Stream /\ Caught /\ Known

\* Sessions gain frames or are added; what was dispatched of the old ones stays.
Grown ==
    /\ UNCHANGED <<sid, seq, rejected>>
    /\ \A r \in DOMAIN log :
          /\ r \in DOMAIN log' /\ handled'[r] = handled[r] /\ Len(log[r]) <= Len(log'[r])
          /\ DOMAIN log[r] \subseteq DOMAIN log'[r]
          /\ \A n \in DOMAIN log'[r] : n <= Len(log[r]) => n \in DOMAIN log[r]
          /\ \A n \in DOMAIN log[r] : log'[r][n] = log[r][n]

LEMMA StaysDispatched ==
    ASSUME TypeOK, TypeOK', Grown, NEW r \in DOMAIN log, NEW p \in 0 .. Len(log[r]), Dispatched(r, p)
    PROVE  Dispatched(r, p)'
<1>1. Len(log[r]) \in Nat /\ DOMAIN log[r] = 1 .. Len(log[r])
  BY NumbersType
<1>2. /\ handled'[r] = handled[r]
      /\ DOMAIN log[r] \subseteq DOMAIN log'[r]
      /\ \A n \in DOMAIN log'[r] : n <= Len(log[r]) => n \in DOMAIN log[r]
      /\ \A n \in DOMAIN log[r] : log'[r][n] = log[r][n]
  BY DEF Grown
<1>3. \A n \in DOMAIN log'[r] : n \in Nat
  <2>1. r \in DOMAIN log' /\ log' \in Seq(Seq({"ready", "resumed", "event"}))
    BY DEF Grown, TypeOK
  <2>2. log'[r] \in Seq({"ready", "resumed", "event"})
    BY <2>1
  <2> QED  BY <2>2
<1>4. \A n \in DOMAIN log'[r] : n <= p => n \in DOMAIN log[r]
  BY <1>1, <1>2, <1>3
<1>5. {n \in Numbers(r, "event")' : n <= p} = {n \in Numbers(r, "event") : n <= p}
  BY <1>2, <1>4 DEF Numbers
<1> QED  BY <1>2, <1>5 DEF Dispatched

LEMMA GrownKept ==
    ASSUME TypeOK, TypeOK', Grown, Caught, Known
    PROVE  /\ Caught'
           /\ \A r \in DOMAIN log : \E p \in 0 .. Len(log'[r]) : Dispatched(r, p)'
<1>1. Caught'
  <2> SUFFICES ASSUME NEW r, NEW p, r = sid, p = seq, r # 0
               PROVE  p <= Len(log'[r]) /\ Dispatched(r, p)' /\ r \notin rejected
    BY DEF Caught, Grown
  <2>1. r \in DOMAIN log /\ p \in Nat
    BY SessionKnown
  <2>2. Len(log[r]) \in Nat /\ Len(log'[r]) \in Nat /\ Len(log[r]) <= Len(log'[r])
    <3>1. r \in DOMAIN log' /\ log' \in Seq(Seq({"ready", "resumed", "event"}))
      BY <2>1 DEF Grown, TypeOK
    <3> QED  BY <2>1, <3>1, NumbersType DEF Grown
  <2>3. p <= Len(log[r]) /\ Dispatched(r, p) /\ r \notin rejected
    BY DEF Caught
  <2>4. p \in 0 .. Len(log[r])
    BY <2>1, <2>2, <2>3
  <2>5. Dispatched(r, p)'
    BY <2>1, <2>3, <2>4, StaysDispatched
  <2> QED  BY <2>1, <2>2, <2>3, <2>5
<1>2. ASSUME NEW r \in DOMAIN log PROVE \E p \in 0 .. Len(log'[r]) : Dispatched(r, p)'
  <2>1. PICK p \in 0 .. Len(log[r]) : Dispatched(r, p)
    BY DEF Known
  <2>2. Dispatched(r, p)'
    BY <2>1, StaysDispatched
  <2>3. p \in 0 .. Len(log'[r])
    <3>1. Len(log[r]) \in Nat /\ Len(log[r]) <= Len(log'[r])
      BY DEF Grown, TypeOK
    <3>2. r \in DOMAIN log' /\ log' \in Seq(Seq({"ready", "resumed", "event"}))
      BY DEF Grown, TypeOK
    <3>3. Len(log'[r]) \in Nat
      BY <3>2
    <3> QED  BY <3>1, <3>3
  <2> QED  BY <2>2, <2>3
<1> QED  BY <1>1, <1>2

\* Carries, said of the connection that is open.
LEMMA OnlyOpen == ASSUME TypeOK PROVE Carries <=> (Open \/ Bare)
BY DEF TypeOK, Carries, Open

\* With the sessions untouched, what is dispatched of them stays so.
LEMMA NothingMore ==
    ASSUME UNCHANGED <<sid, seq, log, handled, rejected>>, Caught, Known
    PROVE  Caught' /\ Known'
BY DEF Caught, Known, Dispatched, Numbers

LEMMA CoreAside ==
    ASSUME TypeOK, TypeOK', Core, Aside
    PROVE  Core'
<1>1. Caught' /\ Known'
  BY NothingMore DEF Core, Aside
<1>2. Carries'
  <2>1. Open \/ Bare
    BY OnlyOpen DEF Core
  <2>2. Open' \/ Bare'
    BY <2>1 DEF Aside, Bare
  <2>3. (Carries <=> (Open \/ Bare))'
    BY DEF TypeOK, Carries, Open
  <2> QED  BY <2>2, <2>3
<1>3. Took'
  BY DEF Core, Aside, Took
<1>4. Asks'
  BY DEF Core, Aside, Asks
<1>5. Opens'
  <2>1. lastSid' = lastSid \/ inbox = <<>>
    BY OnlyOpen DEF Core, Aside, Bare
  <2> QED  BY <2>1 DEF Core, Aside, Opens
<1>6. Bound' /\ Stream'
  BY DEF Core, Aside, Bound, Stream, Genuine, Pos, Numbers
<1> QED  BY <1>1, <1>2, <1>3, <1>4, <1>5, <1>6 DEF Core

LEMMA CoreCut ==
    ASSUME TypeOK, Core, Cut
    PROVE  Core'
<1>1. Caught' /\ Known'
  BY NothingMore DEF Core, Cut
<1>2. Carries' /\ Asks' /\ Opens' /\ Bound' /\ Stream'
  BY DEF Cut, Carries, Bare, Asks, Opens, Bound, Stream, NoReq
<1>3. Took'
  BY DEF Core, Cut, Took
<1> QED  BY <1>1, <1>2, <1>3 DEF Core

LEMMA CoreOpened ==
    ASSUME TypeOK, TypeOK', Core, Opened
    PROVE  Core'
<1>1. Caught' /\ Known'
  BY NothingMore DEF Core, Opened, history, remote
<1>2. Bare /\ lastSid = sid
  BY OnlyOpen DEF Core, Opened, Open, Took
<1>3. Carries' /\ Asks' /\ Took' /\ Bound' /\ Stream'
  BY <1>2 DEF Opened, Carries, Bare, Asks, Bound, Stream, NoReq, remote, Took
<1>4. Opens'
  BY <1>2 DEF Opened, Opens
<1> QED  BY <1>1, <1>3, <1>4 DEF Core

LEMMA CoreGreeted ==
    ASSUME TypeOK, TypeOK', Core, Greeted
    PROVE  Core'
<1>1. Caught' /\ Known'
  BY NothingMore DEF Core, Greeted, history
<1>2. inbox = <<>> /\ req = NoReq /\ att = 0 /\ lastSid = sid
  BY OnlyOpen DEF Core, Greeted, Open, Took, Bare
<1>3. inbox' = <<>> /\ att' = 0 /\ sid' = sid /\ seq' = seq /\ wire' = wire
  BY <1>2 DEF Greeted
<1>4. Carries'
  <2>1. CASE wire = "up"
    BY <1>3, <2>1 DEF Greeted, Carries
  <2>2. CASE wire # "up"
    BY <1>3, <2>2 DEF Greeted, Bare, Carries
  <2> QED  BY <2>1, <2>2
<1>5. Asks'
  BY <1>2, <1>3 DEF Asks, Greeted, Greeting, NoReq
<1>6. Took' /\ Opens' /\ Bound' /\ Stream'
  BY <1>3 DEF Greeted, Took, Opens, Bound, Stream
<1> QED  BY <1>1, <1>4, <1>5, <1>6 DEF Core

\* Frames arrive only on an open connection, and none while a request is unanswered.
LEMMA Arrives ==
    ASSUME TypeOK, Core, inbox # <<>>
    PROVE  Open /\ req = NoReq
<1>1. Open
  BY OnlyOpen DEF Core, Bare
<1>2. req = NoReq
  BY DEF Core, Asks
<1> QED  BY <1>1, <1>2

\* A read on an unbound connection takes Hello or a refusal.
LEMMA CoreReadFirst ==
    ASSUME TypeOK, TypeOK', Core, Read, att = 0
    PROVE  Core'
<1>1. inbox # <<>> /\ Open /\ req = NoReq
  BY Arrives DEF Read
<1>2. UNCHANGED <<lastSid, log, halt>>
  BY DEF Read, HangUp, remote
<1>3. CASE inbox = <<Frame("hello", 0, 0)>> /\ lastSid = sid
  <2>1. Head(inbox) = Frame("hello", 0, 0) /\ Tail(inbox) = <<>>
    BY <1>3
  <2>2. Head(inbox).op = "hello" /\ Head(inbox).n = 0
    BY <2>1 DEF Frame
  <2>3. UNCHANGED <<sid, seq, handled, rejected, remote>> /\ pc' = "greet" /\ inbox' = <<>>
    <3>1. SeqAfter(Head(inbox)) = seq /\ SidAfter(Head(inbox)) = sid
      BY <2>2 DEF SeqAfter, SidAfter
    <3>2. sid' = sid /\ seq' = seq
      BY <3>1 DEF Read
    <3>3. handled' = handled /\ UNCHANGED <<rejected, remote>> /\ pc' = "greet"
      BY <2>2 DEF Read
    <3>4. inbox' = <<>>
      BY <2>1, <2>2 DEF Read
    <3> QED  BY <3>2, <3>3, <3>4
  <2>4. Caught' /\ Known'
    BY <1>2, <2>3, NothingMore DEF Core
  <2>5. Carries' /\ Asks' /\ Opens' /\ Bound' /\ Stream'
    BY <1>1, <2>3 DEF Carries, Bare, Asks, Opens, Bound, Stream, remote
  <2>6. Took'
    BY <1>2, <1>3, <2>3 DEF Took
  <2> QED  BY <2>4, <2>5, <2>6 DEF Core
<1>4. ASSUME NEW s \in {0, sid}, inbox = <<Frame("invalid", s, 0)>> PROVE Core'
  <2>1. Head(inbox) = Frame("invalid", s, 0)
    BY <1>4
  <2>2. Head(inbox).op = "invalid" /\ Head(inbox).n = 0
    BY <2>1 DEF Frame
  <2>3. HangUp /\ handled' = handled /\ sid' = 0
    BY <2>2 DEF Read, SidAfter
  <2>4. inbox' = <<>> /\ req' = NoReq /\ att' = 0 /\ pc' = "closing"
    BY <2>3 DEF HangUp
  <2>5. Caught'
    BY <2>3 DEF Caught
  <2>6. Known'
    BY <1>2, <2>3 DEF Core, Known, Dispatched, Numbers
  <2>7. Carries' /\ Asks' /\ Opens' /\ Bound' /\ Stream' /\ Took'
    BY <2>4 DEF Carries, Bare, Asks, Opens, Bound, Stream, Took
  <2> QED  BY <2>5, <2>6, <2>7 DEF Core
<1>5. \/ inbox = <<Frame("hello", 0, 0)>> /\ lastSid = sid
      \/ \E s \in {0, sid} : inbox = <<Frame("invalid", s, 0)>>
  BY <1>1 DEF Core, Opens
<1> QED  BY <1>3, <1>4, <1>5

\* What is dispatched when the next frame of a bound session is.
LEMMA NextFrame ==
    ASSUME TypeOK, Core, att # 0, inbox # <<>>, inbox[1].n > 0
    PROVE  /\ att \in DOMAIN log /\ Pos \in Nat /\ inbox[1].n \in Nat /\ Pos < inbox[1].n
           /\ inbox[1].op \in {"ready", "resumed", "event"} /\ inbox[1].sid = att
           /\ inbox[1].n \in 1 .. Len(log[att])
           /\ Dispatched(att, Pos)
           /\ {n \in Numbers(att, "event") : n <= inbox[1].n}
                 = {n \in Numbers(att, "event") : n <= Pos}
                      \cup (IF inbox[1].op = "event" THEN {inbox[1].n} ELSE {})
<1> DEFINE f == inbox[1]
<1>1. att \in DOMAIN log /\ Pos \in Nat
  BY DEF Core, Bound, Pos, TypeOK
<1>2. inbox \in Seq(FrameType) /\ 1 \in DOMAIN inbox
  <2>1. inbox \in Seq(FrameType)
    BY DEF TypeOK
  <2> QED  BY <2>1
<1>3. f \in FrameType
  BY <1>2
<1>4. f.n \in Nat
  BY <1>3 DEF FrameType
<1>5. Genuine(f)
  BY <1>2 DEF Core, Stream
<1>6. /\ f.op \in {"ready", "resumed", "event"} /\ f.sid = att
      /\ f.n \in DOMAIN log[att] /\ log[att][f.n] = f.op /\ f.n > Pos
  BY <1>4, <1>5 DEF Genuine
<1>7. Len(log[att]) \in Nat /\ Numbers(att, "event") \subseteq 1 .. Len(log[att])
      /\ DOMAIN log[att] = 1 .. Len(log[att])
  BY <1>1, NumbersType
<1>8. Dispatched(att, Pos)
  <2>1. CASE sid = att
    BY <1>1, <2>1 DEF Core, Caught, Pos
  <2>2. CASE sid # att
    <3>1. handled[att] = <<>> /\ Pos = 0
      BY <2>2 DEF Core, Bound, Pos
    <3>2. {n \in Numbers(att, "event") : n <= 0} = {}
      BY <1>7
    <3> QED  BY <3>1, <3>2 DEF Dispatched
  <2> QED  BY <2>1, <2>2
<1>9. ASSUME NEW n \in Numbers(att, "event"), n > Pos, n <= f.n PROVE n = f.n /\ f.op = "event"
  <2>1. PICK i \in DOMAIN inbox : inbox[i].n = n
    BY <1>9 DEF Core, Stream
  <2>2. n \in Nat /\ n > 0 /\ log[att][n] = "event"
    BY <1>7 DEF Numbers
  <2>3. i = 1
    <3>1. i \in Nat /\ i >= 1
      BY <1>2
    <3>2. 1 < i => f.n < n
      BY <1>2, <2>1, <2>2 DEF Core, Stream
    <3> QED  BY <1>4, <1>9, <2>2, <3>1, <3>2
  <2> QED  BY <1>6, <2>1, <2>2, <2>3
<1>10. f.op = "event" => f.n \in Numbers(att, "event")
  BY <1>6 DEF Numbers
<1>11. \A n \in Numbers(att, "event") : n <= f.n <=> (n <= Pos \/ (n = f.n /\ f.op = "event"))
  <2> SUFFICES ASSUME NEW n \in Numbers(att, "event")
               PROVE  n <= f.n <=> (n <= Pos \/ (n = f.n /\ f.op = "event"))
    OBVIOUS
  <2>1. n \in Nat
    BY <1>7
  <2> HIDE DEF f
  <2> QED  BY <1>1, <1>4, <1>6, <1>9, <2>1
<1>12. {n \in Numbers(att, "event") : n <= f.n}
          = {n \in Numbers(att, "event") : n <= Pos} \cup (IF f.op = "event" THEN {f.n} ELSE {})
  <2>1. CASE f.op = "event"
    BY <1>10, <1>11, <2>1
  <2>2. CASE f.op # "event"
    BY <1>11, <2>2
  <2> QED  BY <2>1, <2>2
<1> QED  BY <1>1, <1>4, <1>6, <1>7, <1>8, <1>12

\* A read on a bound connection: a forced reconnect cuts it, any other frame is the
\* next of the session, and moves last_sequence_ to its number.
LEMMA CoreReadNext ==
    ASSUME TypeOK, TypeOK', Core, Read, att # 0
    PROVE  Core'
<1> DEFINE f == inbox[1]
<1>1. inbox # <<>> /\ Open /\ req = NoReq /\ pc = "read" /\ halt \in {"no", "posted"}
  BY Arrives DEF Read, Io
<1>2. UNCHANGED <<lastSid, log, halt, wire>>
  BY DEF Read, HangUp, remote
<1>3. inbox \in Seq(FrameType) /\ Head(inbox) = f /\ 1 \in DOMAIN inbox
  <2>1. inbox \in Seq(FrameType)
    BY DEF TypeOK
  <2> QED  BY <1>1, <2>1
<1>4. Genuine(f)
  BY <1>3 DEF Core, Stream
<1>5. CASE f.op = "reconnect" /\ f.n = 0
  <2>1. sid' = sid /\ seq' = seq
    BY <1>3, <1>5 DEF Read, SeqAfter, SidAfter
  <2>2. HangUp /\ handled' = handled /\ rejected' = rejected
    BY <1>3, <1>5 DEF Read
  <2>3. inbox' = <<>> /\ req' = NoReq /\ att' = 0 /\ pc' = "closing"
    BY <2>2 DEF HangUp
  <2>4. Caught' /\ Known'
    BY <1>2, <2>1, <2>2, NothingMore DEF Core
  <2>5. Carries' /\ Asks' /\ Opens' /\ Bound' /\ Stream' /\ Took'
    BY <2>3 DEF Carries, Bare, Asks, Opens, Bound, Stream, Took
  <2> QED  BY <2>4, <2>5 DEF Core
<1>6. CASE f.op \in {"ready", "resumed", "event"} /\ f.n > 0
  <2>1. /\ att \in DOMAIN log /\ Pos \in Nat /\ f.n \in Nat /\ Pos < f.n /\ f.sid = att
        /\ f.n \in 1 .. Len(log[att]) /\ Dispatched(att, Pos)
        /\ {n \in Numbers(att, "event") : n <= f.n}
              = {n \in Numbers(att, "event") : n <= Pos}
                   \cup (IF f.op = "event" THEN {f.n} ELSE {})
    BY <1>1, <1>6, NextFrame
  <2>2. /\ UNCHANGED <<rejected, remote>> /\ pc' = "head" /\ inbox' = Tail(inbox)
        /\ handled' = IF f.op # "event" THEN handled
                      ELSE [handled EXCEPT ![att] = Append(@, f.n)]
    <3> HIDE DEF f
    <3> QED  BY <1>3, <1>6, <2>1 DEF Read
  <2>3. seq' = f.n
    BY <1>3, <1>6 DEF Read, SeqAfter
  <2>4. sid' = att
    <3>1. sid # att => f.op = "ready"
      BY DEF Core, Bound
    <3>2. sid' = SidAfter(f)
      BY <1>3 DEF Read
    <3> HIDE DEF f
    <3> QED  BY <1>6, <2>1, <3>1, <3>2 DEF SidAfter
  <2>5. att' = att /\ req' = NoReq
    BY <1>1, <2>2 DEF remote
  <2>6. handled \in [1 .. Len(log) -> Seq(Nat)] /\ att \in 1 .. Len(log) /\ Len(log) \in Nat
    <3>1. log \in Seq(Seq({"ready", "resumed", "event"}))
      BY DEF TypeOK
    <3>2. handled \in Seq(Seq(Nat)) /\ Len(handled) = Len(log)
      BY DEF TypeOK
    <3> QED  BY <2>1, <3>1, <3>2
  <2>7. \A s \in DOMAIN log : s # att => handled'[s] = handled[s]
    BY <2>2, <2>6
  <2>8. \A s, p : s \in DOMAIN log /\ s # att /\ Dispatched(s, p) => Dispatched(s, p)'
    BY <1>2, <2>7 DEF Dispatched, Numbers
  <2>9. ASSUME NEW s, NEW p, s = att, p = f.n PROVE Dispatched(s, p)'
    <3> DEFINE h == handled[s]
               k == handled'[s]
    <3>1. h \in Seq(Nat) /\ Len(h) \in Nat /\ DOMAIN h = 1 .. Len(h)
      <4>1. h \in Seq(Nat)
        BY <2>6, <2>9
      <4> QED  BY <4>1
    <3>2. /\ \A i, j \in DOMAIN h : i < j => h[i] < h[j]
          /\ {h[i] : i \in DOMAIN h} = {n \in Numbers(s, "event") : n <= Pos}
      BY <2>1, <2>9 DEF Dispatched
    <3>3. Numbers(s, "event")' = Numbers(s, "event")
      BY <1>2 DEF Numbers
    <3>4. CASE f.op # "event"
      <4>1. k = h
        BY <2>2, <3>4
      <4>2. {h[i] : i \in DOMAIN h} = {n \in Numbers(s, "event") : n <= p}
        BY <2>1, <2>9, <3>2, <3>4
      <4> QED  BY <3>2, <3>3, <4>1, <4>2 DEF Dispatched
    <3>5. CASE f.op = "event"
      <4>1. k = Append(h, p)
        BY <2>2, <2>6, <2>9, <3>5
      <4> HIDE DEF f, h, k
      <4>2. p \in Nat
        BY <2>1, <2>9
      <4>3. /\ k \in Seq(Nat) /\ Len(k) = Len(h) + 1 /\ DOMAIN k = 1 .. Len(h) + 1
            /\ k[Len(h) + 1] = p /\ \A i \in 1 .. Len(h) : k[i] = h[i]
        BY <3>1, <4>1, <4>2
      <4>4. \A i \in 1 .. Len(h) : h[i] \in Nat /\ h[i] <= Pos
        BY <3>1, <3>2
      <4>5. \A i, j \in DOMAIN k : i < j => k[i] < k[j]
        <5> SUFFICES ASSUME NEW i \in DOMAIN k, NEW j \in DOMAIN k, i < j PROVE k[i] < k[j]
          OBVIOUS
        <5>1. i \in 1 .. Len(h) /\ k[i] = h[i]
          BY <3>1, <4>3
        <5>2. CASE j \in 1 .. Len(h)
          BY <3>1, <3>2, <4>3, <5>1, <5>2
        <5>3. CASE j = Len(h) + 1
          <6>1. h[i] \in Nat /\ h[i] <= Pos /\ Pos < p /\ Pos \in Nat
            BY <2>1, <2>9, <4>4, <5>1
          <6>2. k[j] = p
            BY <4>3, <5>3
          <6> QED  BY <4>2, <5>1, <6>1, <6>2
        <5> QED  BY <3>1, <4>3, <5>2, <5>3
      <4>6. {k[i] : i \in DOMAIN k} = {h[i] : i \in DOMAIN h} \cup {p}
        <5>1. \A i \in DOMAIN k : i \in DOMAIN h \/ i = Len(h) + 1
          BY <3>1, <4>3
        <5>2. \A i \in DOMAIN h : i \in DOMAIN k
          BY <3>1, <4>3
        <5>3. Len(h) + 1 \in DOMAIN k
          BY <3>1, <4>3
        <5> QED  BY <3>1, <4>3, <5>1, <5>2, <5>3
      <4>7. {k[i] : i \in DOMAIN k} = {n \in Numbers(s, "event") : n <= p}
        BY <2>1, <2>9, <3>2, <3>5, <4>6
      <4> QED  BY <3>3, <4>5, <4>7 DEF Dispatched, k
    <3> QED  BY <3>4, <3>5
  <2>10. Caught'
    <3>1. att \notin rejected' /\ f.n <= Len(log[att])
      <4>1. att \notin rejected
        BY DEF Core, Bound
      <4> QED  BY <2>1, <2>2, <4>1
    <3> SUFFICES ASSUME NEW s, NEW p, s = sid', p = seq'
                 PROVE  p <= Len(log'[s]) /\ Dispatched(s, p)' /\ s \notin rejected'
      BY DEF Caught
    <3>2. s = att /\ p = f.n
      BY <2>3, <2>4
    <3> HIDE DEF f
    <3> QED  BY <1>2, <2>9, <3>1, <3>2
  <2>11. Known'
    <3> SUFFICES ASSUME NEW s \in DOMAIN log PROVE \E p \in 0 .. Len(log[s]) : Dispatched(s, p)'
      BY <1>2 DEF Known
    <3>1. CASE s = att
      <4>1. PICK p \in 0 .. Len(log[att]) : p = f.n
        BY <2>1
      <4>2. Dispatched(s, p)'
        BY <2>9, <3>1, <4>1
      <4> QED  BY <3>1, <4>1, <4>2
    <3>2. CASE s # att
      <4>1. PICK p \in 0 .. Len(log[s]) : Dispatched(s, p)
        BY DEF Core, Known
      <4> QED  BY <2>8, <3>2, <4>1
    <3> QED  BY <3>1, <3>2

  <2>12. Stream'
    <3>1. /\ Len(inbox) \in Nat /\ DOMAIN inbox = 1 .. Len(inbox) /\ Len(inbox) >= 1
          /\ Len(inbox') = Len(inbox) - 1 /\ DOMAIN inbox' = 1 .. Len(inbox) - 1
      BY <1>1, <1>3, <2>2
    <3>2. \A i \in DOMAIN inbox' : i + 1 \in DOMAIN inbox /\ inbox'[i] = inbox[i + 1]
      BY <1>3, <2>2, <3>1
    <3>3. \A i \in DOMAIN inbox : inbox[i] \in FrameType /\ inbox[i].n \in Nat
      <4>1. \A i \in DOMAIN inbox : inbox[i] \in FrameType
        BY <1>3, <3>1
      <4> QED  BY <4>1 DEF FrameType
    <3>4. Pos' = f.n
      BY <2>3, <2>4, <2>5 DEF Pos
    <3>5. ASSUME NEW i \in DOMAIN inbox', NEW e, e = inbox'[i] PROVE Genuine(e)'
      <4>1. i + 1 \in DOMAIN inbox /\ e = inbox[i + 1] /\ e.n \in Nat
        BY <3>2, <3>3, <3>5
      <4>2. Genuine(e)
        BY <4>1 DEF Core, Stream
      <4>3. e.n > 0 => f.n < e.n
        <5>1. 1 < i + 1
          BY <3>1
        <5> QED  BY <1>3, <1>6, <4>1, <5>1 DEF Core, Stream
      <4> HIDE DEF f
      <4>4. CASE e.op = "reconnect" /\ e.n = 0
        BY <4>4 DEF Genuine
      <4>5. CASE /\ e.op \in {"ready", "resumed", "event"} /\ e.sid = att
                 /\ e.n \in DOMAIN log[att] /\ log[att][e.n] = e.op /\ e.n > Pos
        <5>1. e.n > f.n
          BY <2>1, <4>1, <4>3, <4>5
        <5> QED  BY <1>2, <2>5, <3>4, <4>5, <5>1 DEF Genuine
      <4> QED  BY <4>2, <4>4, <4>5 DEF Genuine
    <3>6. \A i, j \in DOMAIN inbox' :
             i < j /\ inbox'[i].n > 0 /\ inbox'[j].n > 0 => inbox'[i].n < inbox'[j].n
      <4> SUFFICES ASSUME NEW i \in DOMAIN inbox', NEW j \in DOMAIN inbox',
                          i < j, inbox[i + 1].n > 0, inbox[j + 1].n > 0
                   PROVE  inbox[i + 1].n < inbox[j + 1].n
        BY <3>2
      <4>1. i + 1 < j + 1
        BY <3>1
      <4> QED  BY <3>2, <4>1 DEF Core, Stream
    <3>7. ASSUME NEW n \in Numbers(att, "event"), n > f.n
          PROVE  \E i \in DOMAIN inbox' : inbox'[i].n = n
      <4>1. n \in Nat /\ n > Pos
        <5>1. n \in Nat
          BY <2>1, NumbersType
        <5> QED  BY <2>1, <3>7, <5>1
      <4>2. PICK i \in DOMAIN inbox : inbox[i].n = n
        BY <4>1 DEF Core, Stream
      <4>3. i # 1
        BY <2>1, <3>7, <4>1, <4>2
      <4>4. i - 1 \in DOMAIN inbox' /\ (i - 1) + 1 = i
        BY <3>1, <4>3
      <4> QED  BY <3>2, <4>2, <4>4
    <3>8. Numbers(att, "event")' = Numbers(att, "event")
      BY <1>2, <2>5 DEF Numbers
    <3>9. \A i \in DOMAIN inbox' : Genuine(inbox[i])'
      BY <3>5
    <3> HIDE DEF f
    <3> QED  BY <3>4, <3>6, <3>7, <3>8, <3>9 DEF Stream
  <2>13. Carries' /\ Asks' /\ Opens' /\ Took'
    BY <1>1, <1>2, <2>2, <2>5 DEF Carries, Asks, Opens, Took, Open
  <2>14. Bound'
    <3>1. att \notin rejected
      BY DEF Core, Bound
    <3> QED  BY <1>2, <2>1, <2>2, <2>4, <2>5, <3>1 DEF Bound
  <2> QED  BY <2>10, <2>11, <2>12, <2>13, <2>14 DEF Core
<1>7. f.op \in {"ready", "resumed", "event"} => f.n > 0
  <2>1. f.op \in {"ready", "resumed", "event"} => f.n \in DOMAIN log[att]
    BY <1>4 DEF Genuine
  <2>2. att \in DOMAIN log
    BY DEF Core, Bound
  <2>3. DOMAIN log[att] = 1 .. Len(log[att])
    BY <2>2, NumbersType
  <2> QED  BY <2>1, <2>3
<1> QED  BY <1>4, <1>5, <1>6, <1>7 DEF Genuine

\* The sessions after one of them gains a frame.
LEMMA FrameAdded ==
    ASSUME TypeOK, NEW s \in DOMAIN log, NEW kind \in {"ready", "resumed", "event"},
           log' = [log EXCEPT ![s] = Append(@, kind)]
    PROVE  /\ DOMAIN log' = DOMAIN log /\ Len(log[s]) \in Nat
           /\ \A r \in DOMAIN log : r # s => log'[r] = log[r]
           /\ DOMAIN log'[s] = 1 .. Len(log[s]) + 1 /\ Len(log'[s]) = Len(log[s]) + 1
           /\ \A n \in 1 .. Len(log[s]) : log'[s][n] = log[s][n]
           /\ log'[s][Len(log[s]) + 1] = kind
<1>1. log[s] \in Seq({"ready", "resumed", "event"}) /\ Len(log[s]) \in Nat
  BY NumbersType
<1>2. log'[s] = Append(log[s], kind) /\ DOMAIN log' = DOMAIN log
  BY DEF TypeOK
<1>3. \A r \in DOMAIN log : r # s => log'[r] = log[r]
  OBVIOUS
<1> QED  BY <1>1, <1>2, <1>3

LEMMA FrameAddedGrows ==
    ASSUME TypeOK, NEW s \in DOMAIN log, NEW kind \in {"ready", "resumed", "event"},
           log' = [log EXCEPT ![s] = Append(@, kind)], UNCHANGED <<sid, seq, rejected, handled>>
    PROVE  Grown
<1>1. /\ DOMAIN log' = DOMAIN log /\ Len(log[s]) \in Nat
      /\ \A r \in DOMAIN log : r # s => log'[r] = log[r]
      /\ DOMAIN log'[s] = 1 .. Len(log[s]) + 1 /\ Len(log'[s]) = Len(log[s]) + 1
      /\ \A n \in 1 .. Len(log[s]) : log'[s][n] = log[s][n]
  BY FrameAdded
<1>2. ASSUME NEW r \in DOMAIN log
      PROVE  /\ r \in DOMAIN log' /\ handled'[r] = handled[r] /\ Len(log[r]) <= Len(log'[r])
             /\ DOMAIN log[r] \subseteq DOMAIN log'[r]
             /\ \A n \in DOMAIN log'[r] : n <= Len(log[r]) => n \in DOMAIN log[r]
             /\ \A n \in DOMAIN log[r] : log'[r][n] = log[r][n]
  <2>1. Len(log[r]) \in Nat /\ DOMAIN log[r] = 1 .. Len(log[r])
    BY NumbersType
  <2>2. CASE r = s
    BY <1>1, <2>1, <2>2
  <2>3. CASE r # s
    BY <1>1, <2>1, <2>3
  <2> QED  BY <2>2, <2>3
<1> QED  BY <1>2 DEF Grown

LEMMA CoreIdentify ==
    ASSUME TypeOK, TypeOK', Core, AnswerIdentify
    PROVE  Core'
<1>1. inbox = <<>> /\ att = 0 /\ sid = 0 /\ Open
  <2>1. req # NoReq /\ req.op = "identify"
    BY DEF AnswerIdentify, NoReq
  <2>2. inbox = <<>> /\ att = 0 /\ sid = 0
    BY <2>1 DEF Core, Asks
  <2>3. Open
    BY <2>1, OnlyOpen DEF Core, Bare
  <2> QED  BY <2>2, <2>3
<1>2. UNCHANGED <<sid, seq, pc, lastSid, halt, wire, rejected>>
  BY DEF AnswerIdentify
<1>3. Open' /\ Took'
  BY <1>1, <1>2 DEF Open, Took
<1>4. Carries'
  BY <1>3 DEF Open, Carries
<1>5. CASE UNCHANGED <<att, log, handled>> /\ Send(<<Frame("invalid", 0, 0)>>)
  <2>1. inbox' = <<Frame("invalid", 0, 0)>> /\ req' = NoReq /\ att' = 0
    BY <1>1, <1>5 DEF Send
  <2>2. Caught' /\ Known'
    BY <1>2, <1>5, NothingMore DEF Core
  <2>3. Asks' /\ Opens' /\ Bound' /\ Stream'
    BY <2>1 DEF Asks, Opens, Bound, Stream
  <2> QED  BY <1>3, <1>4, <2>2, <2>3 DEF Core
<1>6. CASE /\ Send(<<Frame("ready", Len(log) + 1, 1)>>) /\ att' = Len(log) + 1
           /\ log' = Append(log, <<"ready">>) /\ handled' = Append(handled, <<>>)
  <2> DEFINE s == Len(log) + 1
             f == Frame("ready", s, 1)
  <2>1. /\ log \in Seq(Seq({"ready", "resumed", "event"})) /\ Len(log) \in Nat
        /\ handled \in Seq(Seq(Nat)) /\ Len(handled) = Len(log) /\ DOMAIN log = 1 .. Len(log)
    <3>1. log \in Seq(Seq({"ready", "resumed", "event"})) /\ handled \in Seq(Seq(Nat))
      BY DEF TypeOK
    <3> QED  BY <3>1 DEF TypeOK
  <2>2. inbox' = <<f>> /\ req' = NoReq /\ att' = s
    BY <1>1, <1>6 DEF Send
  <2>3. s \in Nat /\ s # 0 /\ s \notin DOMAIN log
    BY <2>1
  <2>4. f.op = "ready" /\ f.sid = s /\ f.n = 1
    BY DEF Frame
  <2>5. /\ DOMAIN log' = DOMAIN log \cup {s} /\ log'[s] = <<"ready">> /\ handled'[s] = <<>>
        /\ \A r \in DOMAIN log : log'[r] = log[r] /\ handled'[r] = handled[r]
    <3>1. /\ Len(log') = s /\ DOMAIN log' = 1 .. s /\ log'[s] = <<"ready">> /\ handled'[s] = <<>>
      BY <1>6, <2>1
    <3>2. \A r \in DOMAIN log : log'[r] = log[r] /\ handled'[r] = handled[r]
      BY <1>6, <2>1
    <3>3. 1 .. s = 1 .. Len(log) \cup {s}
      BY <2>1
    <3> QED  BY <2>1, <3>1, <3>2, <3>3
  <2> HIDE DEF s, f
  <2>6. Grown
    <3>1. \A r \in DOMAIN log : Len(log[r]) \in Nat /\ DOMAIN log[r] = 1 .. Len(log[r])
      BY NumbersType
    <3> QED  BY <1>2, <2>5, <3>1 DEF Grown
  <2>7. ASSUME NEW r, r = s PROVE Numbers(r, "event")' = {}
    BY <2>5, <2>7 DEF Numbers
  <2>8. ASSUME NEW r, r = s PROVE Dispatched(r, 0)'
    <3>1. handled'[r] = <<>>
      BY <2>5, <2>8
    <3> QED  BY <2>7, <2>8, <3>1 DEF Dispatched
  <2>9. Caught' /\ Known'
    <3>1. Caught' /\ \A r \in DOMAIN log : \E p \in 0 .. Len(log'[r]) : Dispatched(r, p)'
      BY <2>6, GrownKept DEF Core
    <3>2. 0 \in 0 .. Len(log'[s])
      BY <2>5
    <3>3. \A r : r = s => \E p \in 0 .. Len(log'[r]) : Dispatched(r, p)'
      BY <2>8, <3>2
    <3> QED  BY <2>5, <3>1, <3>3 DEF Known
  <2>10. Bound'
    <3>1. s \notin rejected'
      BY <1>2, <2>3 DEF TypeOK
    <3>2. inbox' # <<>> /\ inbox'[1].op = "ready"
      BY <2>2, <2>4
    <3> QED  BY <1>1, <1>2, <2>2, <2>5, <3>1, <3>2 DEF Bound
  <2>11. Stream'
    <3>1. DOMAIN inbox' = {1} /\ inbox'[1] = f
      BY <2>2
    <3>2. Pos' = 0
      BY <1>1, <1>2, <2>2, <2>3 DEF Pos
    <3>3. \A e : e = f => Genuine(e)'
      <4>1. 1 \in DOMAIN log'[s] /\ log'[s][1] = "ready"
        BY <2>5
      <4> QED  BY <2>2, <2>4, <3>2, <4>1 DEF Genuine
    <3>4. \A i \in DOMAIN inbox' : Genuine(inbox[i])'
      BY <3>1, <3>3
    <3>5. \A i, j \in DOMAIN inbox' : ~ (i < j)
      BY <3>1
    <3>6. Numbers(att, "event")' = {}
      BY <2>2, <2>7
    <3> QED  BY <3>4, <3>5, <3>6 DEF Stream
  <2>12. Asks' /\ Opens'
    BY <2>2, <2>3 DEF Asks, Opens
  <2> QED  BY <1>3, <1>4, <2>9, <2>10, <2>11, <2>12 DEF Core
<1> QED  BY <1>5, <1>6 DEF AnswerIdentify

LEMMA CoreResume ==
    ASSUME TypeOK, TypeOK', Core, AnswerResume
    PROVE  Core'
<1> DEFINE s == req.sid
           p == req.seq
<1>1. inbox = <<>> /\ att = 0 /\ Open /\ s = sid /\ p = seq /\ sid # 0
  <2>1. req # NoReq /\ req.op # "identify"
    BY DEF AnswerResume, NoReq
  <2>2. inbox = <<>> /\ att = 0 /\ sid # 0 /\ req = [op |-> "resume", sid |-> sid, seq |-> seq]
    BY <2>1 DEF Core, Asks
  <2>3. Open
    BY <2>1, OnlyOpen DEF Core, Bare
  <2> QED  BY <2>2, <2>3
<1>2. UNCHANGED <<sid, seq, pc, lastSid, halt, wire, rejected, handled>>
  BY DEF AnswerResume, history
<1>3. Open' /\ Took'
  BY <1>1, <1>2 DEF Open, Took
<1>4. Carries'
  BY <1>3 DEF Open, Carries
<1>5. CASE Send(<<Frame("invalid", s, 0)>>) /\ UNCHANGED <<att, log>>
  <2>1. inbox' = <<Frame("invalid", sid, 0)>> /\ req' = NoReq /\ att' = 0
    BY <1>1, <1>5 DEF Send
  <2>2. Caught' /\ Known'
    BY <1>2, <1>5, NothingMore DEF Core
  <2>3. Asks' /\ Opens' /\ Bound' /\ Stream'
    BY <1>2, <2>1 DEF Asks, Opens, Bound, Stream
  <2> QED  BY <1>3, <1>4, <2>2, <2>3 DEF Core
<1>6. ASSUME NEW d \in Ascending({n \in Numbers(s, "event") : n > p}),
             Send(Replay(s, d)), att' = s, log' = [log EXCEPT ![s] = Append(@, "resumed")]
      PROVE  Core'
  <2> DEFINE t == Replay(s, d)
  <2>1. s \in DOMAIN log /\ p \in Nat /\ s # 0
    BY <1>1, SessionKnown
  <2> HIDE DEF s, p
  <2>2. /\ DOMAIN log' = DOMAIN log /\ Len(log[s]) \in Nat
        /\ DOMAIN log'[s] = 1 .. Len(log[s]) + 1
        /\ \A n \in 1 .. Len(log[s]) : log'[s][n] = log[s][n]
        /\ log'[s][Len(log[s]) + 1] = "resumed"
        /\ \A r \in DOMAIN log : r # s => log'[r] = log[r]
    BY <1>6, <2>1, FrameAdded
  <2>3. Grown
    BY <1>2, <1>6, <2>1, FrameAddedGrows
  <2>4. Caught' /\ Known'
    <3>1. Caught' /\ \A r \in DOMAIN log : \E q \in 0 .. Len(log'[r]) : Dispatched(r, q)'
      BY <2>3, GrownKept DEF Core
    <3> QED  BY <2>2, <3>1 DEF Known
  <2>5. /\ Len(d) \in Nat /\ DOMAIN d = 1 .. Len(d)
        /\ \A i \in DOMAIN d : d[i] \in Numbers(s, "event") /\ d[i] \in 1 .. Len(log[s]) /\ d[i] > p
        /\ \A i, j \in DOMAIN d : i < j => d[i] < d[j]
        /\ \A n \in Numbers(s, "event") : n > p => \E i \in DOMAIN d : d[i] = n
    BY <2>1, DueType
  <2>6. /\ t \in Seq(FrameType) /\ Len(t) = Len(d) + 1
        /\ \A i \in 1 .. Len(d) : t[i] = Frame("event", s, d[i])
        /\ t[Len(d) + 1] = Frame("resumed", s, Len(log[s]) + 1)
    BY <2>1, ReplayType
  <2> HIDE DEF t
  <2>7. inbox' = t /\ req' = NoReq /\ att' = s /\ sid' = s /\ seq' = p
    BY <1>1, <1>2, <1>6, <2>6 DEF Send, t
  <2>8. DOMAIN t = 1 .. Len(d) + 1
    BY <2>5, <2>6
  <2>9. \A i \in 1 .. Len(d) : t[i].op = "event" /\ t[i].sid = s /\ t[i].n = d[i]
    <3>1. \A n : /\ Frame("event", s, n).op = "event" /\ Frame("event", s, n).sid = s
                 /\ Frame("event", s, n).n = n
      BY DEF Frame
    <3> QED  BY <2>6, <3>1
  <2>10. LET e == t[Len(d) + 1]
         IN  e.op = "resumed" /\ e.sid = s /\ e.n = Len(log[s]) + 1
    BY <2>6 DEF Frame
  <2>11. p <= Len(log[s])
    BY <1>1, <2>1 DEF Core, Caught
  <2>12. Pos' = p
    BY <2>7 DEF Pos
  <2>13. ASSUME NEW i \in 1 .. Len(d) + 1, NEW e, e = t[i] PROVE Genuine(e)'
    <3>1. CASE i \in 1 .. Len(d)
      <4>1. e.op = "event" /\ e.sid = s /\ e.n = d[i]
        BY <2>9, <2>13, <3>1
      <4>2. d[i] \in Numbers(s, "event") /\ d[i] \in 1 .. Len(log[s]) /\ d[i] > p
        BY <2>5, <3>1
      <4>3. log'[s][d[i]] = "event" /\ d[i] \in DOMAIN log'[s]
        BY <2>2, <4>2 DEF Numbers
      <4> QED  BY <2>7, <2>12, <4>1, <4>2, <4>3 DEF Genuine
    <3>2. CASE i = Len(d) + 1
      <4>1. e.op = "resumed" /\ e.sid = s /\ e.n = Len(log[s]) + 1
        BY <2>10, <2>13, <3>2
      <4>2. e.n \in DOMAIN log'[s] /\ log'[s][e.n] = e.op /\ e.n > p
        BY <2>1, <2>2, <2>11, <4>1
      <4> QED  BY <2>7, <2>12, <4>1, <4>2 DEF Genuine
    <3> QED  BY <2>5, <3>1, <3>2
  <2>14. \A i, j \in 1 .. Len(d) + 1 : i < j => t[i].n < t[j].n
    <3> SUFFICES ASSUME NEW i \in 1 .. Len(d) + 1, NEW j \in 1 .. Len(d) + 1, i < j
                 PROVE  t[i].n < t[j].n
      OBVIOUS
    <3>1. i \in 1 .. Len(d) /\ t[i].n = d[i] /\ d[i] \in 1 .. Len(log[s])
      BY <2>5, <2>9
    <3>2. CASE j \in 1 .. Len(d)
      BY <2>5, <2>9, <3>1, <3>2
    <3>3. CASE j = Len(d) + 1
      <4>1. t[j].n = Len(log[s]) + 1
        BY <2>10, <3>3
      <4> QED  BY <2>2, <3>1, <4>1
    <3> QED  BY <2>5, <3>2, <3>3
  <2>15. ASSUME NEW r, r = s, NEW n \in Numbers(r, "event")', n > p
         PROVE  \E i \in 1 .. Len(d) + 1 : t[i].n = n
    <3>1. n \in DOMAIN log'[s] /\ log'[s][n] = "event"
      BY <2>15 DEF Numbers
    <3>2. n \in 1 .. Len(log[s])
      <4>1. n # Len(log[s]) + 1
        BY <2>2, <3>1
      <4> QED  BY <2>2, <3>1, <4>1
    <3>3. n \in Numbers(s, "event")
      <4>1. DOMAIN log[s] = 1 .. Len(log[s])
        BY <2>1, NumbersType
      <4> QED  BY <2>2, <3>1, <3>2, <4>1 DEF Numbers
    <3>4. PICK i \in DOMAIN d : d[i] = n
      BY <2>5, <2>15, <3>3
    <3>5. i \in 1 .. Len(d) /\ i \in 1 .. Len(d) + 1
      BY <2>5
    <3> QED  BY <2>9, <3>4, <3>5
  <2>16. Stream'
    <3>1. \A i \in DOMAIN inbox' : Genuine(inbox[i])'
      BY <2>7, <2>8, <2>13
    <3>2. \A n \in Numbers(att, "event")' : n > Pos' => \E i \in DOMAIN inbox' : inbox'[i].n = n
      BY <2>7, <2>8, <2>12, <2>15
    <3> QED  BY <2>7, <2>8, <2>14, <3>1, <3>2 DEF Stream
  <2>17. Bound'
    <3>1. s \notin rejected
      BY <1>1 DEF Core, Caught
    <3> QED  BY <1>2, <2>1, <2>2, <2>7, <3>1 DEF Bound
  <2>18. Asks' /\ Opens'
    BY <2>1, <2>7 DEF Asks, Opens
  <2> QED  BY <1>3, <1>4, <2>4, <2>16, <2>17, <2>18 DEF Core
<1> QED  BY <1>5, <1>6 DEF AnswerResume

LEMMA CoreEmit ==
    ASSUME TypeOK, TypeOK', Core, NEW s \in DOMAIN log, Emit(s)
    PROVE  Core'
<1> DEFINE f == Frame("event", s, Len(log[s]) + 1)
<1>1. UNCHANGED <<sid, seq, pc, lastSid, halt, wire, req, att, rejected, handled>>
  BY DEF Emit, history
<1>2. log' = [log EXCEPT ![s] = Append(@, "event")]
  BY DEF Emit
<1>3. /\ DOMAIN log' = DOMAIN log /\ Len(log[s]) \in Nat
      /\ \A r \in DOMAIN log : r # s => log'[r] = log[r]
      /\ DOMAIN log'[s] = 1 .. Len(log[s]) + 1
      /\ \A n \in 1 .. Len(log[s]) : log'[s][n] = log[s][n]
      /\ log'[s][Len(log[s]) + 1] = "event"
  BY <1>2, FrameAdded
<1>4. Caught' /\ Known'
  <2>1. Grown
    BY <1>1, <1>2, FrameAddedGrows
  <2>2. Caught' /\ \A r \in DOMAIN log : \E p \in 0 .. Len(log'[r]) : Dispatched(r, p)'
    BY <2>1, GrownKept DEF Core
  <2> QED  BY <1>3, <2>2 DEF Known
<1>5. Pos' = Pos
  BY <1>1 DEF Pos
<1>6. CASE att # s
  <2>1. inbox' = inbox
    BY <1>6 DEF Emit
  <2>2. Carries' /\ Took' /\ Asks' /\ Opens'
    BY <1>1, <2>1 DEF Core, Carries, Bare, Took, Asks, Opens
  <2>3. att # 0 => att \in DOMAIN log /\ log'[att] = log[att]
    BY <1>3, <1>6 DEF Core, Bound
  <2>4. Bound'
    BY <1>1, <1>3, <2>1, <2>3 DEF Core, Bound
  <2>5. Stream'
    BY <1>1, <1>5, <2>1, <2>3 DEF Core, Stream, Genuine, Numbers
  <2> QED  BY <1>4, <2>2, <2>4, <2>5 DEF Core
<1>7. CASE att = s
  <2>1. att # 0
    BY <1>7 DEF TypeOK
  <2>2. Open /\ req = NoReq
    BY <2>1, OnlyOpen DEF Core, Bare, Bound
  <2>3. inbox' = Append(inbox, f)
    BY <1>7, <2>2 DEF Emit, Open
  <2>4. f.op = "event" /\ f.sid = att /\ f.n = Len(log[s]) + 1
    BY <1>7 DEF Frame
  <2> HIDE DEF f
  <2>5. inbox \in Seq(FrameType) /\ Len(inbox) \in Nat /\ DOMAIN inbox = 1 .. Len(inbox)
    <3>1. inbox \in Seq(FrameType)
      BY DEF TypeOK
    <3> QED  BY <3>1
  <2>6. /\ DOMAIN inbox' = 1 .. Len(inbox) + 1 /\ inbox'[Len(inbox) + 1] = f
        /\ \A i \in DOMAIN inbox : i \in DOMAIN inbox' /\ inbox'[i] = inbox[i]
        /\ \A i \in DOMAIN inbox' : i \in DOMAIN inbox \/ i = Len(inbox) + 1
    <3>1. DOMAIN inbox' = 1 .. Len(inbox) + 1 /\ inbox'[Len(inbox) + 1] = f
      BY <2>3, <2>5
    <3>2. \A i \in 1 .. Len(inbox) : inbox'[i] = inbox[i]
      BY <2>3, <2>5
    <3> QED  BY <2>5, <3>1, <3>2
  <2>7. Pos <= Len(log[s]) /\ Pos \in Nat
    <3>1. CASE sid = att
      BY <1>7, <2>1, <3>1 DEF Core, Caught, Pos, TypeOK
    <3>2. CASE sid # att
      BY <1>3, <3>2 DEF Pos
    <3> QED  BY <3>1, <3>2
  <2>8. Bound'
    <3>1. inbox # <<>> => inbox' # <<>> /\ inbox'[1] = inbox[1]
      <4>1. inbox # <<>> => 1 \in DOMAIN inbox
        BY <2>5
      <4> QED  BY <2>6, <4>1
    <3> QED  BY <1>1, <1>3, <3>1 DEF Core, Bound
  <2>9. ASSUME NEW i \in DOMAIN inbox', NEW e, e = inbox'[i] PROVE Genuine(e)'
    <3>1. CASE i \in DOMAIN inbox
      <4>1. Genuine(e)
        BY <2>1, <2>6, <2>9, <3>1 DEF Core, Stream
      <4>2. CASE e.op = "reconnect" /\ e.n = 0
        BY <4>2 DEF Genuine
      <4>3. CASE /\ e.op \in {"ready", "resumed", "event"} /\ e.sid = att
                 /\ e.n \in DOMAIN log[att] /\ log[att][e.n] = e.op /\ e.n > Pos
        <5>1. DOMAIN log[s] = 1 .. Len(log[s])
          BY NumbersType
        <5>2. e.n \in 1 .. Len(log[s]) /\ e.n \in 1 .. Len(log[s]) + 1
          BY <1>3, <1>7, <4>3, <5>1
        <5> QED  BY <1>1, <1>3, <1>5, <1>7, <4>3, <5>2 DEF Genuine
      <4> QED  BY <4>1, <4>2, <4>3 DEF Genuine
    <3>2. CASE i = Len(inbox) + 1
      <4>1. e = f
        BY <2>6, <2>9, <3>2
      <4>2. f.n \in DOMAIN log'[s] /\ log'[s][f.n] = "event" /\ f.n > Pos
        BY <1>3, <2>4, <2>7
      <4> QED  BY <1>1, <1>5, <1>7, <2>4, <4>1, <4>2 DEF Genuine
    <3> QED  BY <2>6, <3>1, <3>2
  <2>10. \A i \in DOMAIN inbox : inbox[i].n \in Nat /\ (inbox[i].n > 0 => inbox[i].n < f.n)
    <3> SUFFICES ASSUME NEW i \in DOMAIN inbox
                 PROVE  inbox[i].n \in Nat /\ (inbox[i].n > 0 => inbox[i].n < f.n)
      OBVIOUS
    <3>1. inbox[i] \in FrameType /\ Genuine(inbox[i])
      BY <2>1, <2>5 DEF Core, Stream
    <3>2. inbox[i].n \in Nat
      BY <3>1 DEF FrameType
    <3>3. inbox[i].n > 0 => inbox[i].n \in DOMAIN log[s]
      BY <1>7, <3>1 DEF Genuine
    <3>4. DOMAIN log[s] = 1 .. Len(log[s])
      BY NumbersType
    <3> QED  BY <1>3, <2>4, <3>2, <3>3, <3>4
  <2>11. \A i, j \in DOMAIN inbox' :
            i < j /\ inbox'[i].n > 0 /\ inbox'[j].n > 0 => inbox'[i].n < inbox'[j].n
    <3> SUFFICES ASSUME NEW i \in DOMAIN inbox', NEW j \in DOMAIN inbox', i < j,
                        inbox'[i].n > 0, inbox'[j].n > 0
                 PROVE  inbox'[i].n < inbox'[j].n
      OBVIOUS
    <3>1. i \in DOMAIN inbox /\ inbox'[i] = inbox[i]
      BY <2>5, <2>6
    <3>2. CASE j \in DOMAIN inbox
      BY <2>1, <2>6, <3>1, <3>2 DEF Core, Stream
    <3>3. CASE j = Len(inbox) + 1
      BY <2>6, <2>10, <3>1, <3>3
    <3> QED  BY <2>6, <3>2, <3>3
  <2>12. ASSUME NEW r, r = s, NEW n \in Numbers(r, "event")', n > Pos
         PROVE  \E i \in DOMAIN inbox' : inbox'[i].n = n
    <3>1. n \in 1 .. Len(log[s]) + 1 /\ log'[s][n] = "event"
      BY <1>3, <2>12 DEF Numbers
    <3>2. CASE n = Len(log[s]) + 1
      <4>1. Len(inbox) + 1 \in DOMAIN inbox'
        BY <2>5, <2>6
      <4> QED  BY <2>4, <2>6, <3>2, <4>1
    <3>3. CASE n \in 1 .. Len(log[s])
      <4>1. DOMAIN log[s] = 1 .. Len(log[s])
        BY NumbersType
      <4>2. n \in Numbers(att, "event")
        BY <1>3, <1>7, <3>1, <3>3, <4>1 DEF Numbers
      <4>3. PICK i \in DOMAIN inbox : inbox[i].n = n
        BY <2>1, <2>12, <4>2 DEF Core, Stream
      <4> QED  BY <2>6, <4>3
    <3> QED  BY <1>3, <3>1, <3>2, <3>3
  <2>13. Stream'
    <3>1. \A i \in DOMAIN inbox' : Genuine(inbox[i])'
      BY <2>9
    <3>2. \A n \in Numbers(att, "event")' : n > Pos' => \E i \in DOMAIN inbox' : inbox'[i].n = n
      BY <1>1, <1>5, <1>7, <2>12
    <3> QED  BY <2>11, <3>1, <3>2 DEF Stream
  <2>14. Carries' /\ Took' /\ Asks' /\ Opens'
    BY <1>1, <2>1, <2>2 DEF Core, Carries, Took, Asks, Opens, Open
  <2> QED  BY <1>4, <2>8, <2>13, <2>14 DEF Core
<1> QED  BY <1>6, <1>7

LEMMA CoreAskReconnect ==
    ASSUME TypeOK, TypeOK', Core, AskReconnect
    PROVE  Core'
<1> DEFINE f == Frame("reconnect", 0, 0)
<1>1. UNCHANGED <<sid, seq, pc, lastSid, halt, wire, req, att, log, rejected, handled>>
  BY DEF AskReconnect, remote, history
<1>2. att # 0 /\ inbox' = Append(inbox, f)
  BY DEF AskReconnect
<1>3. f.op = "reconnect" /\ f.n = 0
  BY DEF Frame
<1> HIDE DEF f
<1>4. Caught' /\ Known'
  BY <1>1, NothingMore DEF Core
<1>5. Open /\ req = NoReq
  BY <1>2, OnlyOpen DEF Core, Bare, Bound
<1>6. Carries' /\ Took' /\ Asks' /\ Opens'
  BY <1>1, <1>2, <1>5 DEF Core, Carries, Took, Asks, Opens, Open
<1>7. inbox \in Seq(FrameType) /\ Len(inbox) \in Nat /\ DOMAIN inbox = 1 .. Len(inbox)
  <2>1. inbox \in Seq(FrameType)
    BY DEF TypeOK
  <2> QED  BY <2>1
<1>8. /\ inbox'[Len(inbox) + 1] = f
      /\ \A i \in DOMAIN inbox : i \in DOMAIN inbox' /\ inbox'[i] = inbox[i]
      /\ \A i \in DOMAIN inbox' : i \in DOMAIN inbox \/ i = Len(inbox) + 1
  <2>1. DOMAIN inbox' = 1 .. Len(inbox) + 1 /\ inbox'[Len(inbox) + 1] = f
    BY <1>2, <1>7
  <2>2. \A i \in 1 .. Len(inbox) : inbox'[i] = inbox[i]
    BY <1>2, <1>7
  <2> QED  BY <1>7, <2>1, <2>2
<1>9. Bound'
  <2>1. inbox # <<>> => inbox' # <<>> /\ inbox'[1] = inbox[1]
    <3>1. inbox # <<>> => 1 \in DOMAIN inbox
      BY <1>7
    <3> QED  BY <1>8, <3>1
  <2> QED  BY <1>1, <2>1 DEF Core, Bound
<1>10. Stream'
  <2>1. Pos' = Pos
    BY <1>1 DEF Pos
  <2>2. Numbers(att, "event")' = Numbers(att, "event")
    BY <1>1 DEF Numbers
  <2>3. \A e : (Genuine(e) \/ e = f) => Genuine(e)'
    BY <1>1, <1>3, <2>1 DEF Genuine
  <2>4. \A i \in DOMAIN inbox' : Genuine(inbox[i])'
    BY <1>2, <1>8, <2>3 DEF Core, Stream
  <2>5. \A i, j \in DOMAIN inbox' :
           i < j /\ inbox'[i].n > 0 /\ inbox'[j].n > 0 => inbox'[i].n < inbox'[j].n
    BY <1>2, <1>3, <1>8 DEF Core, Stream
  <2>6. \A n \in Numbers(att, "event") : n > Pos => \E i \in DOMAIN inbox' : inbox'[i].n = n
    BY <1>2, <1>8 DEF Core, Stream
  <2> QED  BY <2>1, <2>2, <2>4, <2>5, <2>6 DEF Stream
<1> QED  BY <1>4, <1>6, <1>9, <1>10 DEF Core

LEMMA CoreStep ==
    ASSUME TypeOK, TypeOK', Core, [Next]_vars
    PROVE  Core'
<1>1. CASE Read
  BY <1>1, CoreReadFirst, CoreReadNext
<1> QED
  BY <1>1, Kinds, CoreAside, CoreCut, CoreOpened, CoreGreeted, CoreIdentify, CoreResume, CoreEmit,
     CoreAskReconnect
-------------------------------------------------------------------------------
(* The theorems.                                                               *)

\* The invariant holds in every state a session reaches, for any bounds.
THEOREM Invariance == Spec => []IInv
<1>1. Init => IInv
  <2> SUFFICES ASSUME Init PROVE IInv
    OBVIOUS
  <2>1. TypeOK
    <3>1. /\ log = <<>> /\ handled = <<>> /\ loops = <<>> /\ inbox = <<>>
      BY DEF Init
    <3>2. Len(log) = 0 /\ Len(handled) = 0 /\ DOMAIN log = {}
      BY <3>1
    <3>3. /\ log \in Seq(Seq({"ready", "resumed", "event"})) /\ handled \in Seq(Seq(Nat))
          /\ inbox \in Seq(FrameType)
          /\ loops \in [1 .. 0 -> {"none", "start", "wait", "fired", "login"}]
      BY <3>1
    <3>4. req \in [op : {"none", "identify", "resume"}, sid : 0 .. Len(log), seq : Nat]
      BY <3>2 DEF Init, NoReq
    <3>5. LocalType
      <4>1. {running, connected, wsConnected, failed} \subseteq BOOLEAN
        BY DEF Init
      <4>2. gen = 0 /\ loops \in [1 .. gen -> {"none", "start", "wait", "fired", "login"}]
        BY <3>3 DEF Init
      <4>3. faults \in 0 .. MaxFault /\ refreshes \in 0 .. MaxRefresh
        BY QqAssumption DEF Init
      <4>4. pc = "login" /\ hb = "none" /\ halt = "no"
        BY DEF Init
      <4> QED  BY <4>1, <4>2, <4>3, <4>4 DEF LocalType
    <3>6. LinkType
      <4>1. {sid, lastSid, att} \subseteq 0 .. Len(log) /\ seq \in Nat
        BY <3>2 DEF Init
      <4>2. {refused, rejected} \subseteq SUBSET (DOMAIN log)
        BY DEF Init
      <4>3. unacked \in BOOLEAN /\ wire \in {"none", "up", "down", "silent"}
        BY DEF Init
      <4> QED  BY <3>2, <3>3, <3>4, <4>1, <4>2, <4>3 DEF LinkType
    <3> QED  BY <3>5, <3>6, TypeParts
  <2>2. Stopping /\ RefreshAlive /\ Carries /\ Took /\ Asks /\ Opens /\ Bound /\ Stream /\ Caught
    BY DEF Init, Stopping, RefreshAlive, Carries, Bare, Took, Asks, Opens, Bound, Stream, Caught
  <2>3. Known
    BY DEF Init, Known
  <2> QED  BY <2>1, <2>2, <2>3 DEF IInv
<1>2. IInv /\ [Next]_vars => IInv'
  <2> SUFFICES ASSUME IInv, [Next]_vars PROVE IInv'
    OBVIOUS
  <2>1. TypeOK /\ Core /\ Asks /\ Stopping /\ RefreshAlive
    BY DEF IInv, Core
  <2>2. LocalType /\ LinkType
    BY <2>1, TypeParts
  <2>3. LocalType' /\ LinkType'
    BY <2>1, <2>2, LocalStep, LinkStep
  <2>4. TypeOK'
    BY <2>3 DEF TypeOK, LocalType, LinkType
  <2>5. Core'
    BY <2>1, <2>4, CoreStep
  <2>6. Stopping' /\ RefreshAlive'
    BY <2>1, <2>2, RefreshStep
  <2> QED  BY <2>4, <2>5, <2>6 DEF IInv, Core
<1> QED  BY <1>1, <1>2, PTL DEF Spec

\* The state keeps its shape: each session on record has its numbered frames and its
\* dispatched events, and ids and requests name sessions the gateway has opened.
THEOREM TypeCorrect == Spec => []TypeOK
<1>1. IInv => TypeOK
  BY DEF IInv
<1> QED  BY <1>1, Invariance, PTL

\* However often a connection is lost, refused or replayed, each event of a session
\* is dispatched once, in order, none before it left out.
THEOREM EventsDispatchedOnce == Spec => []EventsOnce
<1>1. IInv => EventsOnce
  BY DEF IInv, Known, Dispatched, EventsOnce
<1> QED  BY <1>1, Invariance, PTL

\* No Resume asks for a session that Invalid Session has ended.
THEOREM ResumesLive == Spec => []ResumeOnlyLive
<1>1. IInv => ResumeOnlyLive
  <2> SUFFICES ASSUME IInv, req.op = "resume" PROVE req.sid \notin rejected
    BY DEF ResumeOnlyLive
  <2>1. req # NoReq /\ req.op # "identify"
    BY DEF NoReq
  <2>2. sid # 0 /\ req = [op |-> "resume", sid |-> sid, seq |-> seq]
    BY <2>1 DEF IInv, Asks
  <2> QED  BY <2>2 DEF IInv, Caught
<1> QED  BY <1>1, Invariance, PTL

\* Whatever logins of run() and of refresh loops overlap, the loop of the current
\* generation is there to renew the token, until its own login fails.
THEOREM RefreshContinues == Spec => []RefreshAlive
<1>1. IInv => RefreshAlive
  BY DEF IInv
<1> QED  BY <1>1, Invariance, PTL
===============================================================================
