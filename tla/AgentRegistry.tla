----------------------------- MODULE AgentRegistry -----------------------------
(* The life of one agent: core/src/agent_registry.cpp (start, stop, remove,    *)
(* add), the session's I/O thread that runs its handlers, the reference-       *)
(* counted agent_controller whose destructor stops the worker pool, a worker   *)
(* with the asynchronous tool task it waits for, and the detached thread that  *)
(* announces the start.  Registry operations hold the registry mutex and come  *)
(* from one thread ("api": the management API's accept loop, or main), so they *)
(* do not interleave with each other; everything else does.                    *)
(*                                                                             *)
(* A generation is the set of objects one build_agent() makes: session,        *)
(* adapter, controller, pool.  "api" in refs[g] is the reference the instance  *)
(* holds (inst.controller).  Handlers of the I/O thread keep raw pointers to   *)
(* the adapter, the session and the instance; the controller keeps a raw       *)
(* reference to the adapter (bot_).                                            *)
EXTENDS Naturals, FiniteSets

CONSTANTS MaxGen,       \* bound: how many times the agent is built
          MaxMessage,   \* bound: messages queued at once per generation
          None

ASSUME RegistryAssumption == MaxGen \in Nat \ {0} /\ MaxMessage \in Nat

Gen == 1 .. MaxGen
Thread == {"api", "io", "worker", "tool", "notify"}

VARIABLES
    api,       \* [op, step] of the registry operation under way
    present,   \* agents_ holds the agent
    status,    \* agent_instance::status
    cur,       \* the generation the instance points to, 0 before the first
    refs,      \* threads holding a shared_ptr to the controller
    ctl,       \* "none", "live", "joining" (in its destructor), "gone"
    dtor,      \* the thread that runs the destructor
    adapter,   \* the qq_adapter exists
    session,   \* "none", "running", "halting" (stop posted), "halted", "gone"
    io,        \* the I/O thread: "off", "idle", "handling", "leaving"
    backlog,   \* messages queued for the worker
    worker,    \* "idle", "busy", "spawning", "waiting", "exited"
    tool,      \* "none", "spawned", "running", "leaving", "done"
    notify,    \* "none", "sleeping", "sending", "releasing", "leaving", "done"
    alive      \* alive_flag

objects == <<refs, ctl, dtor>>
vars == <<api, present, status, cur, refs, ctl, dtor, adapter, session, io,
          backlog, worker, tool, notify, alive>>

NoOp == [op |-> "none", step |-> "none"]

Init ==
    /\ api = NoOp
    /\ present = FALSE
    /\ status = "stopped"
    /\ cur = 0
    /\ refs = [g \in Gen |-> {}]
    /\ ctl = [g \in Gen |-> "none"]
    /\ dtor = [g \in Gen |-> None]
    /\ adapter = [g \in Gen |-> FALSE]
    /\ session = [g \in Gen |-> "none"]
    /\ io = [g \in Gen |-> "off"]
    /\ backlog = [g \in Gen |-> 0]
    /\ worker = [g \in Gen |-> "idle"]
    /\ tool = [g \in Gen |-> "none"]
    /\ notify = [g \in Gen |-> "none"]
    /\ alive = [g \in Gen |-> FALSE]
-------------------------------------------------------------------------------
(* Reference counting.                                                         *)

\* Mutant of Holders: the handler keeps a plain pointer.
NoNewHolder(t, g) == refs[g]

\* weak_ptr::lock() or shared_from_this() by thread t, on a live controller.
Holders(t, g) == refs[g] \cup {t}

Acquire(t, g) ==
    /\ ctl[g] = "live"
    /\ refs' = [refs EXCEPT ![g] = Holders(t, g)]
    /\ UNCHANGED <<ctl, dtor>>

\* shared_ptr reset by thread t: the last one out runs ~agent_controller, which
\* begins to stop the pool.
Release(t, g) ==
    LET last == ctl[g] = "live" /\ refs[g] \subseteq {t}
    IN  /\ refs' = [refs EXCEPT ![g] = @ \ {t}]
        /\ ctl' = [ctl EXCEPT ![g] = IF last THEN "joining" ELSE @]
        /\ dtor' = [dtor EXCEPT ![g] = IF last THEN t ELSE @]

\* A thread is past its reset unless it is still inside the destructor.
PastReset(t, g) == dtor[g] = t => ctl[g] = "gone"

\* Where its own reset leaves thread t: inside the destructor, or past it.
AfterRelease(t, g, past) == IF dtor'[g] = t THEN "leaving" ELSE past

\* worker_pool::stop(): the worker has drained its queue and left.
WorkersJoined(g) == worker[g] = "exited"

\* The joins of ~agent_controller return.
FinishDestructor(g) ==
    /\ ctl[g] = "joining"
    /\ WorkersJoined(g)
    /\ ctl' = [ctl EXCEPT ![g] = "gone"]
    /\ UNCHANGED <<api, present, status, cur, refs, dtor, adapter, session, io,
                   backlog, worker, tool, notify, alive>>
-------------------------------------------------------------------------------
(* Registry operations.                                                        *)

\* Mutant of SessionJoined: the I/O thread is not waited for.
SessionNotJoined(g) == TRUE

\* session::stop() or ~session has joined the I/O thread.
SessionJoined(g) == session[g] \in {"none", "halted", "gone"}

\* What destroying generation g's adapter and session leaves.
Destroyed(f, v) == IF cur = 0 THEN f ELSE [f EXCEPT ![cur] = v]

\* build_agent() and launch_agent() succeed: a fresh generation, its I/O thread
\* running, its announcing thread asleep with a reference to the controller.
Launch(g) ==
    /\ cur' = g
    /\ present' = TRUE
    /\ status' = "starting"
    /\ refs' = [refs EXCEPT ![g] = {"api", "notify"}]
    /\ ctl' = [ctl EXCEPT ![g] = "live"]
    /\ adapter' = [Destroyed(adapter, FALSE) EXCEPT ![g] = TRUE]
    /\ session' = [Destroyed(session, "gone") EXCEPT ![g] = "running"]
    /\ io' = [io EXCEPT ![g] = "idle"]
    /\ notify' = [notify EXCEPT ![g] = "sleeping"]
    /\ alive' = [alive EXCEPT ![g] = TRUE]
    /\ UNCHANGED <<api, dtor, backlog, worker, tool>>

\* start_agent(), or add_agent() and start_all() for an absent one: the old
\* objects are reset (the instance's reference is gone since the last stop) and
\* new ones built.  Building may throw: then the agent is kept in error.
StartAgent ==
    /\ api = NoOp
    /\ present => status \notin {"running", "starting"}
    /\ cur < MaxGen
    /\ cur # 0 => SessionJoined(cur)
    /\ \/ Launch(cur + 1)
       \/ /\ present' = TRUE
          /\ status' = "error"
          /\ adapter' = Destroyed(adapter, FALSE)
          /\ session' = Destroyed(session, "gone")
          /\ UNCHANGED <<api, cur, objects, io, backlog, worker, tool, notify, alive>>

\* stop_agent(), remove_agent() and stop_all() of a started agent, as far as
\* controller.reset().
StopBegin(op) ==
    /\ api = NoOp
    /\ present
    /\ status \in {"running", "starting"}
    /\ status' = "stopping"
    /\ alive' = [alive EXCEPT ![cur] = FALSE]
    /\ Release("api", cur)
    /\ api' = [op |-> op, step |-> "reset"]
    /\ UNCHANGED <<present, cur, adapter, session, io, backlog, worker, tool, notify>>

\* Mutant of AfterStop: session::stop() does not reach the io_context.
StopIgnored(s) == s

\* session::stop(): running_ = false, and ioc_.stop() posted.
AfterStop(s) == IF s = "running" THEN "halting" ELSE s

\* controller.reset() has returned; im->stop() posts the end of the I/O thread.
StopSession ==
    /\ api.step = "reset"
    /\ PastReset("api", cur)
    /\ session' = [session EXCEPT ![cur] = AfterStop(@)]
    /\ api' = [api EXCEPT !.step = "join"]
    /\ UNCHANGED <<present, status, cur, objects, adapter, io, backlog, worker,
                   tool, notify, alive>>

\* im->stop() has joined the I/O thread; remove_agent() also erases the instance.
StopDone ==
    /\ api.step = "join"
    /\ SessionJoined(cur)
    /\ status' = "stopped"
    /\ api' = NoOp
    /\ IF api.op = "remove"
       THEN /\ present' = FALSE
            /\ adapter' = [adapter EXCEPT ![cur] = FALSE]
            /\ session' = [session EXCEPT ![cur] = "gone"]
       ELSE UNCHANGED <<present, adapter, session>>
    /\ UNCHANGED <<cur, objects, io, backlog, worker, tool, notify, alive>>

\* Mutant of Erasable: the status is not looked at.
AlwaysErasable == TRUE

\* remove_agent() erases at once when the agent is not started.
Erasable == status \notin {"running", "starting"}

RemoveStopped ==
    /\ api = NoOp
    /\ present
    /\ Erasable
    /\ present' = FALSE
    /\ adapter' = Destroyed(adapter, FALSE)
    /\ session' = Destroyed(session, "gone")
    /\ UNCHANGED <<api, status, cur, objects, io, backlog, worker, tool, notify, alive>>
-------------------------------------------------------------------------------
(* The I/O thread.                                                             *)

\* on_connect: READY or RESUMED, under the instance's own mutex.
Connected(g) ==
    /\ io[g] = "idle"
    /\ status' = "running"
    /\ UNCHANGED <<api, present, cur, objects, adapter, session, io, backlog,
                   worker, tool, notify, alive>>

\* on_message: ctrl_weak.lock() succeeds and handle_message begins.
EventBegin(g) ==
    /\ io[g] = "idle"
    /\ Acquire("io", g)
    /\ io' = [io EXCEPT ![g] = "handling"]
    /\ UNCHANGED <<api, present, status, cur, adapter, session, backlog, worker,
                   tool, notify, alive>>

\* handle_message: the message is queued for the agent, or it is the command
\* "stop" (session::stop() from the I/O thread, without a join), or it is
\* consumed by the policy, a command or a plugin.
EventHandle(g) ==
    /\ io[g] = "handling"
    /\ \/ /\ backlog[g] < MaxMessage
          /\ backlog' = [backlog EXCEPT ![g] = @ + 1]
          /\ UNCHANGED session
       \/ /\ session' = [session EXCEPT ![g] = AfterStop(@)]
          /\ UNCHANGED backlog
       \/ UNCHANGED <<backlog, session>>
    /\ Release("io", g)
    /\ io' = [io EXCEPT ![g] = AfterRelease("io", g, "idle")]
    /\ UNCHANGED <<api, present, status, cur, adapter, worker, tool, notify, alive>>

EventEnd(g) ==
    /\ io[g] = "leaving"
    /\ PastReset("io", g)
    /\ io' = [io EXCEPT ![g] = "idle"]
    /\ UNCHANGED <<api, present, status, cur, objects, adapter, session, backlog,
                   worker, tool, notify, alive>>

\* The posted ioc_.stop() runs.
IoEnd(g) ==
    /\ io[g] = "idle"
    /\ session[g] = "halting"
    /\ io' = [io EXCEPT ![g] = "off"]
    /\ session' = [session EXCEPT ![g] = "halted"]
    /\ UNCHANGED <<api, present, status, cur, objects, adapter, backlog, worker,
                   tool, notify, alive>>
-------------------------------------------------------------------------------
(* A worker of the pool and its tool task.                                     *)

\* Mutant of HasMessage: the pop does not look whether the queue is empty.
AssumesMessage(g) == TRUE

HasMessage(g) == backlog[g] > 0

WorkerTake(g) ==
    /\ worker[g] = "idle"
    /\ ctl[g] \in {"live", "joining"}
    /\ HasMessage(g)
    /\ worker' = [worker EXCEPT ![g] = "busy"]
    /\ backlog' = [backlog EXCEPT ![g] = @ - 1]
    /\ UNCHANGED <<api, present, status, cur, objects, adapter, session, io, tool,
                   notify, alive>>

\* The reply goes out: an answer, or the apology for any exception, the one of
\* shared_from_this() on a controller in its destructor included.
WorkerReply(g) ==
    /\ worker[g] = "busy"
    /\ worker' = [worker EXCEPT ![g] = "idle"]
    /\ UNCHANGED <<api, present, status, cur, objects, adapter, session, io,
                   backlog, tool, notify, alive>>

\* tool_loop: shared_from_this() makes a temporary reference ...
WorkerRound(g) ==
    /\ worker[g] = "busy"
    /\ Acquire("worker", g)
    /\ worker' = [worker EXCEPT ![g] = "spawning"]
    /\ UNCHANGED <<api, present, status, cur, adapter, session, io, backlog, tool,
                   notify, alive>>

\* ... which becomes a weak_ptr; then the task is launched and waited for.
WorkerSpawn(g) ==
    /\ worker[g] = "spawning"
    /\ "worker" \in refs[g]
    /\ Release("worker", g)
    /\ IF dtor'[g] = "worker"
       THEN UNCHANGED <<worker, tool>>
       ELSE /\ worker' = [worker EXCEPT ![g] = "waiting"]
            /\ tool' = [tool EXCEPT ![g] = "spawned"]
    /\ UNCHANGED <<api, present, status, cur, adapter, session, io, backlog,
                   notify, alive>>

\* The task: weak_self.lock(), or "(controller destroyed)".
ToolBegin(g) ==
    /\ tool[g] = "spawned"
    /\ \/ /\ Acquire("tool", g)
          /\ tool' = [tool EXCEPT ![g] = "running"]
       \/ /\ ctl[g] # "live"
          /\ tool' = [tool EXCEPT ![g] = "done"]
          /\ UNCHANGED objects
    /\ UNCHANGED <<api, present, status, cur, adapter, session, io, backlog,
                   worker, notify, alive>>

\* The task returns: self is released before the future is made ready.  Being
\* the last reference it would never come out of the destructor: the worker to
\* be joined waits for this future (ResetSafeForAsyncUsers).
ToolRelease(g) ==
    /\ tool[g] = "running"
    /\ Release("tool", g)
    /\ tool' = [tool EXCEPT ![g] = AfterRelease("tool", g, "done")]
    /\ UNCHANGED <<api, present, status, cur, adapter, session, io, backlog,
                   worker, notify, alive>>

\* f.get() returns and the next round of the model begins.
WorkerResume(g) ==
    /\ worker[g] = "waiting"
    /\ tool[g] = "done"
    /\ worker' = [worker EXCEPT ![g] = "busy"]
    /\ tool' = [tool EXCEPT ![g] = "none"]
    /\ UNCHANGED <<api, present, status, cur, objects, adapter, session, io,
                   backlog, notify, alive>>

WorkerExit(g) ==
    /\ worker[g] = "idle"
    /\ ctl[g] = "joining"
    /\ backlog[g] = 0
    /\ worker' = [worker EXCEPT ![g] = "exited"]
    /\ UNCHANGED <<api, present, status, cur, objects, adapter, session, io,
                   backlog, tool, notify, alive>>
-------------------------------------------------------------------------------
(* The announcing thread of launch_agent().                                    *)

\* Three seconds later: announce only if the agent was not stopped meanwhile.
NotifyCheck(g) ==
    /\ notify[g] = "sleeping"
    /\ notify' = [notify EXCEPT ![g] = IF alive[g] THEN "sending" ELSE "releasing"]
    /\ UNCHANGED <<api, present, status, cur, objects, adapter, session, io,
                   backlog, worker, tool, alive>>

\* notify_startup() has sent one bot_.send_private_md per administrator, or was
\* not called; the thread ends and drops its reference.
NotifyRelease(g) ==
    /\ notify[g] \in {"sending", "releasing"}
    /\ Release("notify", g)
    /\ notify' = [notify EXCEPT ![g] = AfterRelease("notify", g, "done")]
    /\ UNCHANGED <<api, present, status, cur, adapter, session, io, backlog,
                   worker, tool, alive>>

NotifyEnd(g) ==
    /\ notify[g] = "leaving"
    /\ PastReset("notify", g)
    /\ notify' = [notify EXCEPT ![g] = "done"]
    /\ UNCHANGED <<api, present, status, cur, objects, adapter, session, io,
                   backlog, worker, tool, alive>>
-------------------------------------------------------------------------------
Io(g) == EventHandle(g) \/ EventEnd(g) \/ IoEnd(g)
Tool(g) == ToolBegin(g) \/ ToolRelease(g)
Notify(g) == NotifyCheck(g) \/ NotifyRelease(g) \/ NotifyEnd(g)
WorkerProgress(g) == WorkerTake(g) \/ WorkerReply(g) \/ WorkerSpawn(g)
                     \/ WorkerResume(g) \/ WorkerExit(g)

Next ==
    \/ StartAgent
    \/ \E op \in {"stop", "remove"} : StopBegin(op)
    \/ StopSession
    \/ StopDone
    \/ RemoveStopped
    \/ \E g \in Gen :
          \/ FinishDestructor(g)
          \/ Connected(g) \/ EventBegin(g) \/ Io(g)
          \/ WorkerProgress(g) \/ WorkerRound(g)
          \/ Tool(g) \/ Notify(g)

(* A registry operation that has begun goes on, threads run, handlers return,  *)
(* and a model answers in a bounded number of rounds: a worker that may reply  *)
(* again and again does reply (k_safety_limit bounds the rounds of a message). *)
(* Nothing obliges the platform to send or the administrator to act.           *)
Fairness ==
    /\ WF_vars(StopSession) /\ WF_vars(StopDone)
    /\ \A g \in Gen :
          /\ WF_vars(FinishDestructor(g))
          /\ WF_vars(EventHandle(g)) /\ WF_vars(EventEnd(g)) /\ SF_vars(IoEnd(g))
          /\ WF_vars(WorkerTake(g)) /\ WF_vars(WorkerSpawn(g))
          /\ WF_vars(WorkerResume(g)) /\ WF_vars(WorkerExit(g))
          /\ SF_vars(WorkerReply(g))
          /\ WF_vars(Tool(g)) /\ WF_vars(Notify(g))

Spec == Init /\ [][Next]_vars /\ Fairness
-------------------------------------------------------------------------------
TypeOK ==
    /\ api \in [op : {"none", "stop", "remove"}, step : {"none", "reset", "join"}]
    /\ present \in BOOLEAN
    /\ status \in {"stopped", "starting", "running", "stopping", "error"}
    /\ cur \in 0 .. MaxGen
    /\ refs \in [Gen -> SUBSET Thread]
    /\ ctl \in [Gen -> {"none", "live", "joining", "gone"}]
    /\ dtor \in [Gen -> Thread \cup {None}]
    /\ adapter \in [Gen -> BOOLEAN]
    /\ session \in [Gen -> {"none", "running", "halting", "halted", "gone"}]
    /\ io \in [Gen -> {"off", "idle", "handling", "leaving"}]
    /\ backlog \in [Gen -> 0 .. MaxMessage]
    /\ worker \in [Gen -> {"idle", "busy", "spawning", "waiting", "exited"}]
    /\ tool \in [Gen -> {"none", "spawned", "running", "leaving", "done"}]
    /\ notify \in [Gen -> {"none", "sleeping", "sending", "releasing", "leaving", "done"}]
    /\ alive \in [Gen -> BOOLEAN]

\* The controller is destroyed, and its pool stopped, only when no thread is in
\* one of its functions through a reference of its own: what WorkerPool assumes
\* of stop() (agent_registry.cpp:368-371, agent_controller.cpp:362-378); and it is
\* gone only after every message it accepted was processed.
DestroyedOnlyUnused ==
    \A g \in Gen :
        /\ ctl[g] \in {"joining", "gone"} =>
              /\ refs[g] = {}
              /\ io[g] # "handling" /\ tool[g] # "running"
              /\ notify[g] \notin {"sleeping", "sending"}
        /\ ctl[g] = "gone" => worker[g] = "exited" /\ backlog[g] = 0

\* Two sessions of one agent never run side by side: start_agent() waits for
\* the old I/O thread (agent_registry.cpp:232-236, session.cpp:21-26).  And none
\* runs in an agent reported stopped or in error, although the status is also
\* written by the I/O thread, under another mutex (agent_registry.cpp:380).
OneSession ==
    LET Running == {g \in Gen : io[g] # "off"}
    IN  /\ Cardinality(Running) <= 1
        /\ present /\ status \in {"stopped", "error"} => Running = {}

\* Whatever the I/O thread runs, the objects its handlers hold raw pointers to
\* exist: the adapter, the session, the instance (agent_registry.cpp:57, 374).
HandlersHaveObjects ==
    \A g \in Gen : io[g] # "off" =>
        /\ adapter[g] /\ session[g] \in {"running", "halting"}
        /\ present /\ cur = g

\* Every stop and removal returns, whichever thread ends up destroying the
\* controller (agent_registry.cpp:187-208, 247-267).
RegistryReturns == api # NoOp ~> api = NoOp

\* agent_registry.cpp:136 says of controller.reset(): "safe for async users".
\* Not safe: a thread in the destructor waits for a worker that waits for it.
ResetSafeForAsyncUsers ==
    ~ \E g \in Gen : /\ ctl[g] = "joining"
                     /\ \/ dtor[g] = "worker"
                        \/ dtor[g] = "tool" /\ worker[g] = "waiting"
===============================================================================
