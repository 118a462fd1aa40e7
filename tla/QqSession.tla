-------------------------------- MODULE QqSession --------------------------------
(* One platform::qq::session: the coroutine run() that logs in, connects and    *)
(* reads, the heartbeat loop of the connection, the token refresh loops, and    *)
(* stop() on another thread.  The coroutines share one I/O thread, so each part *)
(* between two awaits is one action; close_websocket() is synchronous, and the  *)
(* thread runs nothing else until it returns.                                   *)
(*                                                                              *)
(* The gateway and the network are external, modelled from what the code sends  *)
(* and expects: a session numbers its frames, Resume replays the events after a *)
(* number, a session that is forgotten is answered with Invalid Session.        *)
EXTENDS Naturals, Sequences, FiniteSets

CONSTANTS MaxFault,    \* bound: failed requests, lost connections, forced reconnects
          MaxRefresh,  \* bound: expiries of the token refresh timer
          MaxEvent     \* bound: events, over all sessions

ASSUME QqAssumption == {MaxFault, MaxRefresh, MaxEvent} \subseteq Nat

VARIABLES
    running,     \* running_
    connected,   \* connected_
    wsConnected, \* ws_connected_
    sid,         \* last_session_id_, 0 when empty
    seq,         \* last_sequence_
    pc,          \* where run() waits; "head" is the loop test of run_websocket_async
    lastSid,     \* its local last_sid
    hb,          \* heartbeat_loop: "none", "wait", "write", "abort"
    gen,         \* token_refresh_generation_
    loops,       \* per generation so far, where its token_refresh_timer_loop is
    halt,        \* stop(): "no", "posted", "closing", "done"
    wire,        \* external: "none", "up", "down" (reset), "silent" (nothing arrives)
    unacked,     \* external: bytes wait for an acknowledgement of a silent peer
    inbox,       \* external: frames on their way to the session
    req,         \* external: the Identify or Resume on its way to the gateway
    att,         \* external: the session the connection is bound to, or 0
    refused,     \* external: sessions the gateway has given up and said so
    log,         \* external: per session so far, what its numbered frames were
    faults, refreshes,   \* how much of the bounds is used
    handled,     \* history: per session, the events dispatched, in order
    rejected,    \* history: the sessions the session was told are invalid
    failed       \* history: the current generation's refresh could not log in

atomics == <<running, connected, wsConnected>>
token == <<gen, loops, refreshes, failed>>
remote == <<req, att, refused, log>>
link == <<wire, unacked, inbox, remote>>
history == <<handled, rejected>>
vars == <<atomics, sid, seq, pc, lastSid, hb, token, halt, link, faults, history>>

NoReq == [op |-> "none", sid |-> 0, seq |-> 0]

\* start(), and the fields as the constructor leaves them.
Init ==
    /\ running = TRUE /\ connected = FALSE /\ wsConnected = FALSE
    /\ sid = 0 /\ seq = 0 /\ lastSid = 0
    /\ pc = "login" /\ hb = "none" /\ halt = "no"
    /\ gen = 0 /\ loops = <<>> /\ refreshes = 0 /\ failed = FALSE
    /\ wire = "none" /\ unacked = FALSE /\ inbox = <<>>
    /\ req = NoReq /\ att = 0 /\ refused = {} /\ log = <<>>
    /\ faults = 0
    /\ handled = <<>> /\ rejected = {}

\* The I/O thread is free: not inside close(), not told to stop.
Io == pc # "closing" /\ halt \in {"no", "posted"}

Fault == faults < MaxFault /\ faults' = faults + 1

Numbers(s, kind) == {n \in DOMAIN log[s] : log[s][n] = kind}
-------------------------------------------------------------------------------
(* login_async and the token refresh loops.                                    *)

\* Mutant of Spawned: fetch_add's result is the loop's generation.
SpawnedBehind == gen

\* The generation of the loop a login starts: fetch_add(1) + 1.
Spawned == gen + 1

\* A token: a new generation, the waiting loops cancelled, the next one started.
Granted(from) ==
    /\ gen' = gen + 1
    /\ loops' = [g \in 1 .. gen + 1 |-> IF g = Spawned THEN "start"
                                       ELSE IF g > gen \/ loops[g] = "wait" THEN "none"
                                       ELSE from[g]]
    /\ failed' = FALSE
    /\ UNCHANGED refreshes

\* run(), part 1.
RunLogin ==
    /\ Io /\ pc = "login"
    /\ \/ Granted(loops) /\ pc' = "gateway" /\ UNCHANGED faults
       \/ Fault /\ pc' = "pause" /\ UNCHANGED token
    /\ UNCHANGED <<atomics, sid, seq, lastSid, hb, halt, link, history>>

LoopStart(g) ==
    /\ Io /\ loops[g] = "start"
    /\ loops' = [loops EXCEPT ![g] = "wait"]
    /\ UNCHANGED <<atomics, sid, seq, pc, lastSid, hb, gen, refreshes, failed, halt, link,
                   faults, history>>

\* The one timer wakes every loop that waits for it.
TimerFires ==
    /\ Io /\ refreshes < MaxRefresh
    /\ \E g \in DOMAIN loops : loops[g] = "wait"
    /\ loops' = [g \in DOMAIN loops |-> IF loops[g] = "wait" THEN "fired" ELSE loops[g]]
    /\ refreshes' = refreshes + 1
    /\ UNCHANGED <<atomics, sid, seq, pc, lastSid, hb, gen, failed, halt, link, faults,
                   history>>

\* A cancelled loop leaves the same way, so Granted already drops it.
LoopResume(g) ==
    /\ Io /\ loops[g] = "fired"
    /\ loops' = [loops EXCEPT ![g] = IF running /\ gen = g THEN "login" ELSE "none"]
    /\ UNCHANGED <<atomics, sid, seq, pc, lastSid, hb, gen, refreshes, failed, halt, link,
                   faults, history>>

LoopLogin(g) ==
    /\ Io /\ loops[g] = "login"
    /\ LET left == [loops EXCEPT ![g] = "none"]
       IN  \/ Granted(left) /\ UNCHANGED faults
           \/ /\ Fault
              /\ loops' = left
              /\ failed' = (failed \/ gen = g)
              /\ UNCHANGED <<gen, refreshes>>
    /\ UNCHANGED <<atomics, sid, seq, pc, lastSid, hb, halt, link, history>>
-------------------------------------------------------------------------------
(* run(), parts 2 and 3, and the end of run_websocket_async.                   *)

\* fetch_gateway_async; run_websocket_async reads the session id as it begins.
FetchGateway ==
    /\ Io /\ pc = "gateway"
    /\ \/ pc' = "connect" /\ lastSid' = sid /\ UNCHANGED faults
       \/ Fault /\ pc' = "pause" /\ UNCHANGED lastSid
    /\ UNCHANGED <<atomics, sid, seq, hb, token, halt, link, history>>

\* The delays differ in length only.  What was ready when a delay of 3 s or more
\* began, such as the end of a heartbeat cut off by close(), has run before its end.
Retry ==
    /\ Io /\ pc = "pause" /\ hb # "abort" /\ \A g \in DOMAIN loops : loops[g] # "start"
    /\ pc' = IF running THEN "login" ELSE "exit"
    /\ UNCHANGED <<atomics, sid, seq, lastSid, hb, token, halt, link, faults, history>>

\* Mutant of AfterClose: the flag of the connection is asked, not running_.
AfterCloseOfWs == IF wsConnected THEN "pause" ELSE "exit"

AfterClose == IF running THEN "pause" ELSE "exit"

\* The flags, the heartbeat timer, and close(), which writes to the peer.
HangUp ==
    /\ connected' = FALSE /\ wsConnected' = FALSE /\ UNCHANGED running
    /\ hb' = IF hb = "write" THEN "abort" ELSE "none"
    /\ pc' = "closing"
    /\ unacked' = (wire = "silent") /\ UNCHANGED wire
    /\ inbox' = <<>> /\ req' = NoReq /\ att' = 0 /\ UNCHANGED <<refused, log>>

\* close() returns when the peer has answered, or the connection has failed; the
\* locals of run_websocket_async end.
Closed ==
    /\ pc = "closing" /\ halt \in {"no", "posted"} /\ wire # "silent"
    /\ wire' = "none" /\ pc' = AfterClose /\ lastSid' = 0
    /\ UNCHANGED <<atomics, sid, seq, hb, token, halt, unacked, inbox, remote,
                   faults, history>>

Connect ==
    /\ Io /\ pc = "connect"
    /\ \/ /\ wire' = "up" /\ inbox' = <<[op |-> "hello", sid |-> 0, n |-> 0]>>
          /\ wsConnected' = TRUE /\ pc' = "head"
          /\ UNCHANGED <<running, connected, hb, unacked, remote, faults>>
       \/ Fault /\ HangUp
    /\ UNCHANGED <<sid, seq, lastSid, token, halt, history>>

\* The peer takes the request, or a part of the handshake, and vanishes: nothing
\* is left to retransmit, and neither client has a deadline.
Hang ==
    /\ Io /\ pc \in {"login", "gateway", "connect"} /\ Fault
    /\ pc' = "hung"
    /\ UNCHANGED <<atomics, sid, seq, lastSid, hb, token, halt, link, history>>
-------------------------------------------------------------------------------
(* The reading loop.                                                           *)

LoopTest ==
    /\ Io /\ pc = "head"
    /\ \/ running /\ wsConnected /\ pc' = "read" /\ UNCHANGED <<atomics, hb, link>>
       \/ ~(running /\ wsConnected) /\ HangUp
    /\ UNCHANGED <<sid, seq, lastSid, token, halt, faults, history>>

\* Mutants of SeqAfter: the number is noted on READY only; off by one, null or not.
SeqOfReady(f) == IF f.op = "ready" THEN f.n ELSE seq
SeqBefore(f) == f.n - 1

\* last_sequence_ after a frame; n = 0 stands for no "s".
SeqAfter(f) == IF f.n > 0 THEN f.n ELSE seq

\* Mutant of SidAfter: an invalid session is not forgotten.
SidKept(f) == IF f.op = "ready" THEN f.sid ELSE sid

\* last_session_id_ after a frame.
SidAfter(f) == CASE f.op = "ready" -> f.sid
                 [] f.op = "invalid" -> 0
                 [] OTHER -> sid

\* One frame.  A Heartbeat ACK changes nothing and is left out.
Read ==
    /\ Io /\ pc = "read" /\ inbox # <<>>
    /\ LET f == Head(inbox)
       IN  /\ seq' = SeqAfter(f) /\ sid' = SidAfter(f)
           /\ \/ /\ f.op \in {"invalid", "reconnect"} /\ HangUp
                 /\ rejected' = IF f.op = "invalid" THEN rejected \cup ({f.sid} \ {0})
                                ELSE rejected
                 /\ UNCHANGED handled
              \/ /\ f.op \notin {"invalid", "reconnect"}
                 /\ inbox' = Tail(inbox)
                 /\ pc' = IF f.op = "hello" THEN "greet" ELSE "head"
                 /\ connected' = (connected \/ f.op \in {"ready", "resumed"})
                 /\ handled' = IF f.op # "event" THEN handled
                               ELSE [handled EXCEPT ![f.sid] = Append(@, f.n)]
                 /\ UNCHANGED <<running, wsConnected, hb, wire, unacked, remote, rejected>>
    /\ UNCHANGED <<lastSid, token, halt, faults>>

\* Mutant of Greeting: every connection identifies.
GreetingAnew == [op |-> "identify", sid |-> 0, seq |-> 0]

\* Resume the session run_websocket_async began with, or Identify.
Greeting == IF lastSid # 0 THEN [op |-> "resume", sid |-> lastSid, seq |-> seq]
            ELSE [op |-> "identify", sid |-> 0, seq |-> 0]

\* The write after Hello; once it is done the heartbeat loop starts.
Greet ==
    /\ Io /\ pc = "greet"
    /\ \/ /\ wire # "down"
          /\ req' = IF wire = "up" THEN Greeting ELSE NoReq
          /\ unacked' = (wire = "silent")
          /\ hb' = "wait" /\ pc' = "head"
          /\ UNCHANGED <<atomics, wire, inbox, att, refused, log>>
       \/ wire = "down" /\ HangUp
    /\ UNCHANGED <<sid, seq, lastSid, token, halt, faults, history>>

\* async_read fails.
ReadFails ==
    /\ Io /\ pc = "read" /\ wire = "down" /\ HangUp
    /\ UNCHANGED <<sid, seq, lastSid, token, halt, faults, history>>
-------------------------------------------------------------------------------
(* heartbeat_loop.                                                             *)

Beating == running /\ wsConnected

HbFires ==
    /\ Io /\ hb = "wait"
    /\ hb' = IF Beating THEN "write" ELSE "none"
    /\ UNCHANGED <<atomics, sid, seq, pc, lastSid, token, halt, link, faults, history>>

\* A write to a silent peer succeeds: the bytes are buffered.
HbWritten ==
    /\ Io /\ hb = "write" /\ wire # "down"
    /\ hb' = IF Beating THEN "wait" ELSE "none"
    /\ unacked' = (wire = "silent")
    /\ UNCHANGED <<atomics, sid, seq, pc, lastSid, token, halt, wire, inbox, remote, faults,
                   history>>

\* A write that fails, or that close() cut off.
HbFails ==
    /\ Io /\ (hb = "abort" \/ (hb = "write" /\ wire = "down"))
    /\ hb' = "none" /\ wsConnected' = FALSE
    /\ UNCHANGED <<running, connected, sid, seq, pc, lastSid, token, halt, link, faults,
                   history>>
-------------------------------------------------------------------------------
(* stop(): the flags at once, the rest posted to the I/O thread.               *)

Stop ==
    /\ halt = "no"
    /\ running' = FALSE /\ connected' = FALSE /\ wsConnected' = FALSE
    /\ halt' = "posted"
    /\ UNCHANGED <<sid, seq, pc, lastSid, hb, token, link, faults, history>>

\* Timers cancelled, close() begun.
Teardown ==
    /\ Io /\ halt = "posted"
    /\ halt' = "closing" /\ hb' = "none"
    /\ loops' = [g \in DOMAIN loops |-> IF loops[g] = "wait" THEN "none" ELSE loops[g]]
    /\ unacked' = (wire = "silent") /\ inbox' = <<>> /\ req' = NoReq /\ att' = 0
    /\ UNCHANGED <<atomics, sid, seq, pc, lastSid, gen, refreshes, failed, wire, refused,
                   log, faults, history>>

\* close() is back, ioc_.stop(), and the stopping thread joins the I/O thread.
Halted ==
    /\ halt = "closing" /\ wire # "silent"
    /\ halt' = "done" /\ wire' = "none"
    /\ UNCHANGED <<atomics, sid, seq, pc, lastSid, hb, token, unacked, inbox, remote, faults,
                   history>>
-------------------------------------------------------------------------------
(* The gateway and the network (external).                                     *)

Frame(op, s, n) == [op |-> op, sid |-> s, n |-> n]

Send(frames) == inbox' = inbox \o frames /\ req' = NoReq

\* A new session, or a refusal nobody asked for.
AnswerIdentify ==
    /\ wire = "up" /\ req.op = "identify"
    /\ \/ /\ Send(<<Frame("ready", Len(log) + 1, 1)>>)
          /\ att' = Len(log) + 1
          /\ log' = Append(log, <<"ready">>) /\ handled' = Append(handled, <<>>)
          /\ UNCHANGED faults
       \/ Fault /\ Send(<<Frame("invalid", 0, 0)>>) /\ UNCHANGED <<att, log, handled>>
    /\ UNCHANGED <<atomics, sid, seq, pc, lastSid, hb, token, halt, wire, unacked, refused,
                   rejected>>

\* The listing of a finite set of numbers from the least to the greatest; there is one.
Ascending(S) ==
    {d \in [1 .. Cardinality(S) -> S] :
        /\ \A i, j \in DOMAIN d : i < j => d[i] < d[j]
        /\ \A n \in S : \E i \in DOMAIN d : d[i] = n}

\* The events that are due, then RESUMED.
Replay(s, due) ==
    [i \in DOMAIN due |-> Frame("event", s, due[i])] \o <<Frame("resumed", s, Len(log[s]) + 1)>>

\* The events after the number are replayed; or Invalid Session, if the gateway has
\* given the session up: it may at any time, and need not show it before.
AnswerResume ==
    /\ wire = "up" /\ req.op = "resume"
    /\ LET s == req.sid
       IN  \/ /\ s \notin refused
              /\ \E due \in Ascending({n \in Numbers(s, "event") : n > req.seq}) :
                    Send(Replay(s, due))
              /\ log' = [log EXCEPT ![s] = Append(@, "resumed")] /\ att' = s
              /\ UNCHANGED refused
           \/ /\ Send(<<Frame("invalid", s, 0)>>) /\ refused' = refused \cup {s}
              /\ UNCHANGED <<att, log>>
    /\ UNCHANGED <<atomics, sid, seq, pc, lastSid, hb, token, halt, wire, unacked, faults,
                   history>>

\* An event happens; it is sent if the session has a connection.  Once the
\* session is being closed for good, it does not matter to it.
Emit(s) ==
    /\ s \notin refused /\ halt \in {"no", "posted"}
    /\ Cardinality(UNION {{r} \X Numbers(r, "event") : r \in DOMAIN log}) < MaxEvent
    /\ log' = [log EXCEPT ![s] = Append(@, "event")]
    /\ inbox' = IF att = s /\ wire = "up" THEN Append(inbox, Frame("event", s, Len(log[s]) + 1))
                ELSE inbox
    /\ UNCHANGED <<atomics, sid, seq, pc, lastSid, hb, token, halt, wire, unacked, req, att,
                   refused, faults, history>>

AskReconnect ==
    /\ wire = "up" /\ att # 0 /\ Fault
    /\ inbox' = Append(inbox, Frame("reconnect", 0, 0))
    /\ UNCHANGED <<atomics, sid, seq, pc, lastSid, hb, token, halt, wire, unacked, remote,
                   history>>

\* The connection is reset, or the peer vanishes without a word.
Lose ==
    /\ wire = "up" /\ Fault
    /\ wire' \in {"down", "silent"}
    /\ unacked' = (wire' = "silent" /\ (pc = "closing" \/ halt = "closing"))
    /\ inbox' = <<>> /\ req' = NoReq /\ att' = 0
    /\ UNCHANGED <<atomics, sid, seq, pc, lastSid, hb, token, halt, refused, log, history>>

\* TCP gives up retransmitting.
GiveUp ==
    /\ wire = "silent" /\ unacked
    /\ wire' = "down" /\ unacked' = FALSE
    /\ UNCHANGED <<atomics, sid, seq, pc, lastSid, hb, token, halt, inbox, remote, faults,
                   history>>
-------------------------------------------------------------------------------
IoStep ==
    \/ RunLogin \/ FetchGateway \/ Retry \/ Closed \/ Connect \/ Hang
    \/ LoopTest \/ Read \/ Greet \/ ReadFails
    \/ HbFires \/ HbWritten \/ HbFails \/ Teardown \/ Halted
    \/ TimerFires
    \/ \E g \in DOMAIN loops : LoopStart(g) \/ LoopResume(g) \/ LoopLogin(g)

Outside ==
    \/ AnswerIdentify \/ AnswerResume \/ AskReconnect \/ Lose \/ GiveUp
    \/ \E s \in DOMAIN log : Emit(s)

Next == IoStep \/ Stop \/ Outside

\* What is ready on the I/O thread runs, requests that do not hang end, the gateway
\* answers, TCP gives up; the refresh timer, stop(), events and faults need not come.
Fairness ==
    /\ WF_vars(RunLogin) /\ WF_vars(FetchGateway) /\ WF_vars(Retry) /\ WF_vars(Closed)
    /\ WF_vars(Connect) /\ WF_vars(LoopTest) /\ WF_vars(Read) /\ WF_vars(Greet)
    /\ WF_vars(ReadFails) /\ WF_vars(HbFires) /\ WF_vars(HbWritten) /\ WF_vars(HbFails)
    /\ WF_vars(\E g \in DOMAIN loops : LoopStart(g))
    /\ WF_vars(AnswerIdentify) /\ WF_vars(AnswerResume) /\ WF_vars(GiveUp)

Spec == Init /\ [][Next]_vars /\ Fairness
-------------------------------------------------------------------------------
(* Properties.                                                                 *)

FrameType ==
    [op : {"hello", "ready", "resumed", "event", "invalid", "reconnect"},
     sid : 0 .. Len(log), n : Nat]

\* The state has the shape the other properties read it in.
TypeOK ==
    /\ {running, connected, wsConnected, unacked, failed} \subseteq BOOLEAN
    /\ log \in Seq(Seq({"ready", "resumed", "event"}))
    /\ handled \in Seq(Seq(Nat)) /\ Len(handled) = Len(log)
    /\ {sid, lastSid, att} \subseteq 0 .. Len(log) /\ seq \in Nat
    /\ {refused, rejected} \subseteq SUBSET (DOMAIN log)
    /\ pc \in {"login", "pause", "gateway", "connect", "head", "read", "greet", "closing",
               "hung", "exit"}
    /\ hb \in {"none", "wait", "write", "abort"}
    /\ gen \in Nat /\ loops \in [1 .. gen -> {"none", "start", "wait", "fired", "login"}]
    /\ halt \in {"no", "posted", "closing", "done"}
    /\ wire \in {"none", "up", "down", "silent"}
    /\ inbox \in Seq(FrameType)
    /\ req \in [op : {"none", "identify", "resume"}, sid : 0 .. Len(log), seq : Nat]
    /\ faults \in 0 .. MaxFault /\ refreshes \in 0 .. MaxRefresh

\* Across lost connections and replays, each event of a session is dispatched
\* once and in order, none left out: last_sequence_ at transport.cpp:65 and the
\* session id at :114 are exactly what Resume needs.
EventsOnce ==
    \A s \in DOMAIN log :
        /\ \A i, j \in DOMAIN handled[s] : i < j => handled[s][i] < handled[s][j]
        /\ \E last \in 0 .. Len(log[s]) :
              {handled[s][i] : i \in DOMAIN handled[s]}
                  = {n \in Numbers(s, "event") : n <= last}

\* A session the gateway has called invalid is never asked for again, though
\* run_websocket_async takes the id it will resume before it connects.
ResumeOnlyLive == req.op = "resume" => req.sid \notin rejected

\* While the session runs with a token, something will renew it: the loop of the
\* current generation waits or is logging in, however the logins of run() and of
\* older loops overlap it.  Only a refresh login that failed ends the chain.
RefreshAlive ==
    running /\ gen > 0 /\ ~failed => loops[gen] \in {"start", "wait", "fired", "login"}

\* The peer vanished while the session waits for it with nothing on its way: during
\* a request, or before Hello.  No byte is left to be acknowledged, and no heartbeat
\* will be written, so nothing will tell.
Unaware == pc = "hung" \/ (wire = "silent" /\ ~unacked /\ hb = "none")

\* A session that is not connected connects again, whatever failed, unless it is
\* stopped or waits for a peer that vanished without its knowing.
Reconnects == (running /\ ~connected) ~> (connected \/ ~running \/ Unaware)

Behind(s) == s \in DOMAIN log /\ Len(handled[s]) < Cardinality(Numbers(s, "event"))

\* What happens in a session the bot knows, connected or not, is dispatched in the
\* end, as long as the gateway keeps the session.  A session follows a fault.
EventsArrive ==
    \A s \in 1 .. MaxFault + 1 :
        (sid = s /\ s \notin refused /\ Behind(s)) ~>
            (~Behind(s) \/ s \in refused \/ ~running \/ Unaware)
================================================================================
