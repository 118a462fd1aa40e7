------------------------- MODULE AgentRegistry_proofs -------------------------
(* What the life of an agent keeps, however often it is built and whatever its *)
(* threads do in between; and what the self_iteration_engine that each agent's *)
(* controller has keeps of its edits, whatever the other engines do.           *)
EXTENDS AgentRegistry, SelfIteration, FiniteSetTheorems, WellFoundedInduction, TLAPS

\* The instance holds a controller: it was started and no operation stops it.
Started == api = NoOp /\ status \in {"running", "starting"}

\* An operation under way stops the session of an agent that is there.
Registry ==
    /\ Started => present /\ cur \in Gen
    /\ api = NoOp \/ (/\ api.op \in {"stop", "remove"} /\ api.step \in {"reset", "join"}
                      /\ present /\ cur \in Gen)

\* A generation that has not been built.
Fresh(g) ==
    /\ refs[g] = {} /\ ctl[g] = "none" /\ io[g] = "off" /\ backlog[g] = 0
    /\ worker[g] = "idle" /\ tool[g] = "none" /\ notify[g] = "none"

\* Each thread knows whether it holds a reference.
Held(g) ==
    /\ "api" \in refs[g] <=> g = cur /\ Started
    /\ "io" \in refs[g] <=> io[g] = "handling"
    /\ "worker" \in refs[g] => worker[g] = "spawning"
    /\ "tool" \in refs[g] <=> tool[g] = "running"
    /\ "notify" \in refs[g] <=> notify[g] \in {"sleeping", "sending", "releasing"}

\* The controller lives while it is referenced, and its worker outlives what was
\* queued for it.
Lives(g) ==
    /\ ctl[g] # "live" => refs[g] = {}
    /\ ctl[g] = "gone" => worker[g] = "exited"
    /\ worker[g] = "exited" => ctl[g] \in {"joining", "gone"} /\ backlog[g] = 0

\* A worker has a task only while it waits for it.
Waits(g) == tool[g] # "none" => worker[g] = "waiting"

\* The I/O thread runs only for the generation the instance points to, while its
\* session does, and the registry takes the agent for one that is not stopped.
Serves(g) ==
    io[g] # "off" =>
        /\ adapter[g] /\ session[g] \in {"running", "halting"}
        /\ present /\ cur = g
        /\ IF api = NoOp THEN status \in {"running", "starting"}
                         ELSE status \in {"running", "stopping"}

Good(g) == (g > cur => Fresh(g)) /\ Held(g) /\ Lives(g) /\ Waits(g) /\ Serves(g)

IInv == TypeOK /\ Registry /\ \A g \in Gen : Good(g)

-------------------------------------------------------------------------------
LEMMA Initially == Init => IInv
<1> SUFFICES ASSUME Init PROVE IInv
  OBVIOUS
<1>1. TypeOK
  <2>1. refs \in [Gen -> SUBSET Thread] /\ dtor \in [Gen -> Thread \cup {None}]
    BY DEF Init
  <2>2. backlog \in [Gen -> 0 .. MaxMessage] /\ cur \in 0 .. MaxGen
    BY RegistryAssumption DEF Init
  <2>3. api \in [op : {"none", "stop", "remove"}, step : {"none", "reset", "join"}]
    BY DEF Init, NoOp
  <2> QED  BY <2>1, <2>2, <2>3 DEF Init, TypeOK
<1>2. Registry
  BY DEF Init, Registry, Started
<1>3. \A g \in Gen : Good(g)
  BY DEF Init, Good, Fresh, Held, Lives, Waits, Serves, Started
<1> QED  BY <1>1, <1>2, <1>3 DEF IInv

\* What a step changes of generation g alone leaves the other generations good.
LEMMA Others ==
    ASSUME IInv, NEW g \in Gen,
           UNCHANGED <<api, present, status, cur>>,
           \A h \in Gen \ {g} :
              /\ refs'[h] = refs[h] /\ ctl'[h] = ctl[h] /\ adapter'[h] = adapter[h]
              /\ session'[h] = session[h] /\ io'[h] = io[h] /\ backlog'[h] = backlog[h]
              /\ worker'[h] = worker[h] /\ tool'[h] = tool[h] /\ notify'[h] = notify[h],
           Good(g)', TypeOK'
    PROVE  IInv'
<1>1. \A h \in Gen \ {g} : Good(h)'
  BY DEF IInv, Good, Fresh, Held, Lives, Waits, Serves, Started
<1>2. Registry'
  BY DEF IInv, Registry, Started
<1> QED  BY <1>1, <1>2 DEF IInv

\* The types of what threads move between.
LEMMA Types ==
    ASSUME IInv, NEW g \in Gen
    PROVE  /\ refs[g] \subseteq Thread /\ Good(g) /\ backlog[g] \in 0 .. MaxMessage
           /\ refs \in [Gen -> SUBSET Thread]
           /\ MaxMessage \in Nat
  BY RegistryAssumption DEF IInv, TypeOK

LEMMA FinishDestructorStep ==
    ASSUME IInv, NEW g \in Gen, FinishDestructor(g)
    PROVE  IInv'
<1>1. TypeOK'
  BY DEF IInv, TypeOK, FinishDestructor
<1>2. Good(g)'
  BY DEF IInv, TypeOK, FinishDestructor, WorkersJoined, Good, Fresh, Held, Lives, Waits, Serves, Started
<1> QED  BY <1>1, <1>2, Others DEF IInv, TypeOK, FinishDestructor

LEMMA EventBeginStep ==
    ASSUME IInv, NEW g \in Gen, EventBegin(g)
    PROVE  IInv'
<1>1. TypeOK'
  BY DEF IInv, TypeOK, EventBegin, Acquire, Holders, objects, Thread
<1>2. Good(g)'
  BY DEF IInv, TypeOK, EventBegin, Acquire, Holders, Good, Fresh, Held, Lives, Waits, Serves, Started
<1> QED  BY <1>1, <1>2, Others DEF IInv, TypeOK, EventBegin, Acquire, objects

LEMMA EventHandleStep ==
    ASSUME IInv, NEW g \in Gen, EventHandle(g)
    PROVE  IInv'
<1>1. TypeOK'
  BY RegistryAssumption
     DEF IInv, TypeOK, EventHandle, Release, AfterRelease, AfterStop, Thread
<1>2. Good(g)'
  BY RegistryAssumption
     DEF IInv, TypeOK, EventHandle, Release, AfterRelease, AfterStop, Good, Fresh, Held, Lives,
         Waits, Serves, Started
<1> QED  BY <1>1, <1>2, Others DEF IInv, TypeOK, EventHandle, Release

References ==
    /\ refs \in [Gen -> SUBSET Thread]
    /\ ctl \in [Gen -> {"none", "live", "joining", "gone"}]
    /\ dtor \in [Gen -> Thread \cup {None}]

\* A thread that lets go of a controller may be the one to destroy it.
LEMMA ReleaseType ==
    ASSUME TypeOK, NEW g \in Gen, NEW t \in Thread, Release(t, g)
    PROVE  References'
  BY DEF TypeOK, Release, References

LEMMA EventEndStep ==
    ASSUME IInv, NEW g \in Gen, EventEnd(g)
    PROVE  IInv'
<1>1. TypeOK'
  BY RegistryAssumption DEF IInv, TypeOK, EventEnd, objects, Thread
<1>2. Good(g)'
  BY RegistryAssumption
     DEF IInv, TypeOK, EventEnd, objects, Thread, Good, Fresh, Held, Lives, Waits, Serves,
         Started
<1> QED  BY <1>1, <1>2, Others DEF IInv, TypeOK, EventEnd, objects, Thread

LEMMA IoEndStep ==
    ASSUME IInv, NEW g \in Gen, IoEnd(g)
    PROVE  IInv'
<1>1. TypeOK'
  BY RegistryAssumption DEF IInv, TypeOK, IoEnd, objects, Thread
<1>2. Good(g)'
  BY RegistryAssumption
     DEF IInv, TypeOK, IoEnd, objects, Thread, Good, Fresh, Held, Lives, Waits, Serves,
         Started
<1> QED  BY <1>1, <1>2, Others DEF IInv, TypeOK, IoEnd, objects, Thread

LEMMA WorkerTakeStep ==
    ASSUME IInv, NEW g \in Gen, WorkerTake(g)
    PROVE  IInv'
<1>1. TypeOK'
  BY RegistryAssumption DEF IInv, TypeOK, WorkerTake, HasMessage, objects
<1>2. Good(g)'
  BY RegistryAssumption
     DEF IInv, TypeOK, WorkerTake, HasMessage, objects, Good, Fresh, Held, Lives, Waits, Serves,
         Started
<1> QED  BY <1>1, <1>2, Others DEF IInv, TypeOK, WorkerTake, HasMessage, objects

LEMMA WorkerReplyStep ==
    ASSUME IInv, NEW g \in Gen, WorkerReply(g)
    PROVE  IInv'
<1>1. TypeOK'
  BY RegistryAssumption DEF IInv, TypeOK, WorkerReply, objects, Thread
<1>2. Good(g)'
  BY RegistryAssumption
     DEF IInv, TypeOK, WorkerReply, objects, Thread, Good, Fresh, Held, Lives, Waits, Serves,
         Started
<1> QED  BY <1>1, <1>2, Others DEF IInv, TypeOK, WorkerReply, objects, Thread

LEMMA WorkerRoundStep ==
    ASSUME IInv, NEW g \in Gen, WorkerRound(g)
    PROVE  IInv'
<1>1. TypeOK'
  BY RegistryAssumption DEF IInv, TypeOK, WorkerRound, Acquire, Holders, Thread
<1>2. Good(g)'
  BY RegistryAssumption
     DEF IInv, TypeOK, WorkerRound, Acquire, Holders, Thread, Good, Fresh, Held, Lives, Waits, Serves,
         Started
<1> QED  BY <1>1, <1>2, Others DEF IInv, TypeOK, WorkerRound, Acquire, Holders, Thread

LEMMA WorkerSpawnStep ==
    ASSUME IInv, NEW g \in Gen, WorkerSpawn(g)
    PROVE  IInv'
<1>1. TypeOK'
  <2>1. References'
    BY ReleaseType DEF IInv, WorkerSpawn, Thread
  <2> QED  BY <2>1 DEF IInv, TypeOK, References, WorkerSpawn
<1>2. Good(g)'
  BY RegistryAssumption
     DEF IInv, TypeOK, WorkerSpawn, Release, Thread, Good, Fresh, Held, Lives, Waits, Serves,
         Started
<1> QED  BY <1>1, <1>2, Others DEF IInv, TypeOK, WorkerSpawn, Release, Thread

LEMMA ToolBeginStep ==
    ASSUME IInv, NEW g \in Gen, ToolBegin(g)
    PROVE  IInv'
<1>1. TypeOK'
  BY RegistryAssumption DEF IInv, TypeOK, ToolBegin, Acquire, Holders, objects, Thread
<1>2. Good(g)'
  BY RegistryAssumption
     DEF IInv, TypeOK, ToolBegin, Acquire, Holders, objects, Thread, Good, Fresh, Held, Lives, Waits, Serves,
         Started
<1> QED  BY <1>1, <1>2, Others DEF IInv, TypeOK, ToolBegin, Acquire, Holders, objects, Thread

LEMMA ToolReleaseStep ==
    ASSUME IInv, NEW g \in Gen, ToolRelease(g)
    PROVE  IInv'
<1>1. TypeOK'
  BY RegistryAssumption DEF IInv, TypeOK, ToolRelease, Release, AfterRelease, Thread
<1>2. Good(g)'
  BY RegistryAssumption
     DEF IInv, TypeOK, ToolRelease, Release, AfterRelease, Thread, Good, Fresh, Held, Lives, Waits, Serves,
         Started
<1> QED  BY <1>1, <1>2, Others DEF IInv, TypeOK, ToolRelease, Release, AfterRelease, Thread

LEMMA WorkerResumeStep ==
    ASSUME IInv, NEW g \in Gen, WorkerResume(g)
    PROVE  IInv'
<1>1. TypeOK'
  BY RegistryAssumption DEF IInv, TypeOK, WorkerResume, objects
<1>2. Good(g)'
  BY RegistryAssumption
     DEF IInv, TypeOK, WorkerResume, objects, Good, Fresh, Held, Lives, Waits, Serves,
         Started
<1> QED  BY <1>1, <1>2, Others DEF IInv, TypeOK, WorkerResume, objects

LEMMA WorkerExitStep ==
    ASSUME IInv, NEW g \in Gen, WorkerExit(g)
    PROVE  IInv'
<1>1. TypeOK'
  BY RegistryAssumption DEF IInv, TypeOK, WorkerExit, objects
<1>2. Good(g)'
  BY RegistryAssumption
     DEF IInv, TypeOK, WorkerExit, objects, Good, Fresh, Held, Lives, Waits, Serves,
         Started
<1> QED  BY <1>1, <1>2, Others DEF IInv, TypeOK, WorkerExit, objects

LEMMA NotifyCheckStep ==
    ASSUME IInv, NEW g \in Gen, NotifyCheck(g)
    PROVE  IInv'
<1>1. TypeOK'
  BY RegistryAssumption DEF IInv, TypeOK, NotifyCheck, objects
<1>2. Good(g)'
  BY RegistryAssumption
     DEF IInv, TypeOK, NotifyCheck, objects, Good, Fresh, Held, Lives, Waits, Serves,
         Started
<1> QED  BY <1>1, <1>2, Others DEF IInv, TypeOK, NotifyCheck, objects

LEMMA NotifyReleaseStep ==
    ASSUME IInv, NEW g \in Gen, NotifyRelease(g)
    PROVE  IInv'
<1>1. TypeOK'
  BY RegistryAssumption DEF IInv, TypeOK, NotifyRelease, Release, AfterRelease, Thread
<1>2. Good(g)'
  BY RegistryAssumption
     DEF IInv, TypeOK, NotifyRelease, Release, AfterRelease, Thread, Good, Fresh, Held, Lives, Waits, Serves,
         Started
<1> QED  BY <1>1, <1>2, Others DEF IInv, TypeOK, NotifyRelease, Release, AfterRelease, Thread

LEMMA NotifyEndStep ==
    ASSUME IInv, NEW g \in Gen, NotifyEnd(g)
    PROVE  IInv'
<1>1. TypeOK'
  BY RegistryAssumption DEF IInv, TypeOK, NotifyEnd, objects
<1>2. Good(g)'
  BY RegistryAssumption
     DEF IInv, TypeOK, NotifyEnd, objects, Good, Fresh, Held, Lives, Waits, Serves,
         Started
<1> QED  BY <1>1, <1>2, Others DEF IInv, TypeOK, NotifyEnd, objects

\* The status may be written at any time, but only while the session runs.
LEMMA ConnectedStep ==
    ASSUME IInv, NEW g \in Gen, Connected(g)
    PROVE  IInv'
<1>1. TypeOK'
  BY DEF IInv, TypeOK, Connected, objects
<1>2. g = cur /\ present /\ io[g] # "off"
  BY DEF IInv, Good, Serves, Connected
<1>3. Started' <=> Started
  BY <1>2 DEF IInv, Good, Serves, Started, Connected
<1>4. Registry'
  BY <1>2, <1>3 DEF IInv, Registry, Connected
<1>5. \A h \in Gen : Good(h)'
  BY <1>2, <1>3 DEF IInv, Good, Fresh, Held, Lives, Waits, Serves, Connected, objects
<1> QED  BY <1>1, <1>4, <1>5 DEF IInv

\* What destroying the objects of the last generation leaves.
LEMMA DestroyedOnly ==
    ASSUME IInv
    PROVE  /\ Destroyed(adapter, FALSE) \in [Gen -> BOOLEAN]
           /\ Destroyed(session, "gone") \in [Gen -> {"none", "running", "halting", "halted", "gone"}]
           /\ \A g \in Gen \ {cur} : /\ Destroyed(adapter, FALSE)[g] = adapter[g]
                                     /\ Destroyed(session, "gone")[g] = session[g]
  BY DEF IInv, TypeOK, Destroyed

\* No I/O thread runs for an agent that may be started or erased.
LEMMA AllOff ==
    ASSUME IInv, cur # 0 => io[cur] = "off"
    PROVE  \A g \in Gen : io[g] = "off"
<1>1. \A g \in Gen : io[g] # "off" => g = cur
  BY DEF IInv, Good, Serves
<1> QED  BY <1>1 DEF Gen

\* Objects are dropped for good: no I/O thread runs, nothing is started.
LEMMA Dropped ==
    ASSUME IInv, api = NoOp, ~ Started, \A g \in Gen : io[g] = "off",
           UNCHANGED <<api, cur, objects, io, backlog, worker, tool, notify, alive>>,
           adapter' = Destroyed(adapter, FALSE), session' = Destroyed(session, "gone"),
           present' \in BOOLEAN, status' \in {"stopped", "starting", "running", "stopping", "error"},
           ~ Started'
    PROVE  IInv'
<1>1. TypeOK'
  BY DestroyedOnly DEF IInv, TypeOK, objects
<1>2. Registry'
  BY DEF Registry
<1>3. \A g \in Gen : Good(g)'
  BY DEF IInv, Good, Fresh, Held, Lives, Waits, Serves, objects
<1> QED  BY <1>1, <1>2, <1>3 DEF IInv

LEMMA RemoveStoppedStep ==
    ASSUME IInv, RemoveStopped
    PROVE  IInv'
<1>1. ~ Started /\ api = NoOp
  BY DEF RemoveStopped, Erasable, Started
<1>2. \A g \in Gen : io[g] = "off"
  BY <1>1 DEF IInv, Good, Serves, Started
<1>3. ~ Started' /\ status' = status
  BY <1>1 DEF RemoveStopped, Started
<1> QED  BY <1>1, <1>2, <1>3, Dropped DEF RemoveStopped, IInv, TypeOK

\* A new generation: nothing of it was there.
LEMMA LaunchStep ==
    ASSUME IInv, api = NoOp, ~ Started, \A g \in Gen : io[g] = "off", cur < MaxGen, Launch(cur + 1)
    PROVE  IInv'
<1> PICK n \in Gen : n = cur + 1
  BY RegistryAssumption DEF IInv, TypeOK, Gen
<1>1. cur \in Nat /\ n # cur /\ n > cur /\ cur' = n /\ n \in 0 .. MaxGen
  BY RegistryAssumption DEF IInv, TypeOK, Launch, Gen
<1>2. Fresh(n) /\ \A g \in Gen : Good(g)
  BY <1>1 DEF IInv, Good
<1>3. /\ api' = NoOp /\ present' = TRUE /\ status' = "starting" /\ Started'
      /\ UNCHANGED <<dtor, backlog, worker, tool>>
  BY DEF Launch, Started
<1>4. /\ refs'[n] = {"api", "notify"} /\ ctl'[n] = "live" /\ adapter'[n] = TRUE
      /\ session'[n] = "running" /\ io'[n] = "idle" /\ notify'[n] = "sleeping"
  <2>1. adapter'[n] = TRUE
    BY <1>1, DestroyedOnly DEF Launch
  <2>2. session'[n] = "running"
    BY <1>1, DestroyedOnly DEF Launch
  <2>3. refs'[n] = {"api", "notify"} /\ ctl'[n] = "live" /\ io'[n] = "idle" /\ notify'[n] = "sleeping"
    BY <1>1 DEF IInv, TypeOK, Launch
  <2> QED  BY <2>1, <2>2, <2>3
<1>5. \A g \in Gen \ {n} : /\ refs'[g] = refs[g] /\ ctl'[g] = ctl[g] /\ io'[g] = io[g]
                           /\ notify'[g] = notify[g]
  BY <1>1 DEF IInv, TypeOK, Launch
<1>6. TypeOK'
  <2>1. refs' \in [Gen -> SUBSET Thread] /\ alive' \in [Gen -> BOOLEAN]
    BY DEF IInv, TypeOK, Launch, Thread
  <2>2. adapter' \in [Gen -> BOOLEAN]
        /\ session' \in [Gen -> {"none", "running", "halting", "halted", "gone"}]
    BY DestroyedOnly DEF Launch
  <2>3. /\ ctl' \in [Gen -> {"none", "live", "joining", "gone"}]
        /\ io' \in [Gen -> {"off", "idle", "handling", "leaving"}]
        /\ notify' \in [Gen -> {"none", "sleeping", "sending", "releasing", "leaving", "done"}]
    BY DEF IInv, TypeOK, Launch
  <2>4. cur' \in 0 .. MaxGen /\ present' \in BOOLEAN
    BY <1>1, <1>3
  <2>5. api' \in [op : {"none", "stop", "remove"}, step : {"none", "reset", "join"}]
    BY <1>3 DEF NoOp
  <2>6. /\ dtor' \in [Gen -> Thread \cup {None}] /\ backlog' \in [Gen -> 0 .. MaxMessage]
        /\ worker' \in [Gen -> {"idle", "busy", "spawning", "waiting", "exited"}]
        /\ tool' \in [Gen -> {"none", "spawned", "running", "leaving", "done"}]
    BY <1>3 DEF IInv, TypeOK
  <2> QED  BY <1>3, <2>1, <2>2, <2>3, <2>4, <2>5, <2>6 DEF TypeOK
<1>7. Registry'
  BY <1>1, <1>3 DEF Registry
<1>8. Good(n)'
  <2>1. worker'[n] = "idle" /\ tool'[n] = "none"
    BY <1>2, <1>3 DEF Fresh
  <2>2. ~ (n > cur')
    BY <1>1
  <2>3. Held(n)'
    BY <1>1, <1>3, <1>4, <2>1 DEF Held
  <2>4. Lives(n)' /\ Waits(n)' /\ Serves(n)'
    BY <1>1, <1>3, <1>4, <2>1 DEF Lives, Waits, Serves
  <2> QED  BY <2>2, <2>3, <2>4 DEF Good
<1>9. ASSUME NEW g \in Gen \ {n} PROVE Good(g)'
  <2>1. g > cur' => Fresh(g)'
    BY <1>1, <1>2, <1>3, <1>5 DEF Good, Fresh, Gen
  <2>2. Held(g)' /\ Lives(g)' /\ Waits(g)' /\ Serves(g)'
    BY <1>1, <1>2, <1>3, <1>5 DEF Good, Held, Lives, Waits, Serves
  <2> QED  BY <2>1, <2>2 DEF Good
<1>10. \A g \in Gen : Good(g)'
  BY <1>8, <1>9
<1> QED  BY <1>6, <1>7, <1>10 DEF IInv

LEMMA StartAgentStep ==
    ASSUME IInv, StartAgent
    PROVE  IInv'
<1>1. api = NoOp /\ ~ Started /\ cur < MaxGen
  BY DEF IInv, Registry, StartAgent, Started
<1>2. \A g \in Gen : io[g] = "off"
  <2>1. cur # 0 => cur \in Gen
    BY RegistryAssumption DEF IInv, TypeOK, Gen
  <2>2. cur # 0 => io[cur] = "off"
    BY <2>1 DEF IInv, Good, Serves, StartAgent, SessionJoined
  <2> QED  BY <2>2, AllOff
<1>3. CASE Launch(cur + 1)
  BY <1>1, <1>2, <1>3, LaunchStep
<1>4. CASE ~ Launch(cur + 1)
  <2>1. /\ present' = TRUE /\ status' = "error"
        /\ adapter' = Destroyed(adapter, FALSE) /\ session' = Destroyed(session, "gone")
        /\ UNCHANGED <<api, cur, objects, io, backlog, worker, tool, notify, alive>>
    BY <1>4 DEF StartAgent
  <2>2. ~ Started'
    BY <2>1 DEF Started
  <2> QED  BY <1>1, <1>2, <2>1, <2>2, Dropped
<1> QED  BY <1>3, <1>4

\* The instance gives up its reference, perhaps the last.
LEMMA StopBeginStep ==
    ASSUME IInv, NEW o \in {"stop", "remove"}, StopBegin(o)
    PROVE  IInv'
<1>1. Started /\ present /\ cur \in Gen
  BY DEF IInv, Registry, StopBegin, Started
<1>2. /\ api' = [op |-> o, step |-> "reset"] /\ api' # NoOp /\ ~ Started' /\ status' = "stopping"
  BY DEF StopBegin, Started, NoOp
<1>3. TypeOK'
  <2>1. api' \in [op : {"none", "stop", "remove"}, step : {"none", "reset", "join"}]
    BY <1>2
  <2>2. References'
    BY <1>1, ReleaseType DEF IInv, StopBegin, Thread
  <2> QED  BY <1>2, <2>1, <2>2 DEF IInv, TypeOK, References, StopBegin
<1>4. Registry'
  BY <1>1, <1>2 DEF Registry, StopBegin
<1>5. Good(cur)'
  BY <1>1, <1>2 DEF IInv, TypeOK, StopBegin, Release, Good, Fresh, Held, Lives, Waits, Serves
<1>6. ASSUME NEW g \in Gen \ {cur} PROVE Good(g)'
  <2>1. refs'[g] = refs[g] /\ ctl'[g] = ctl[g]
    BY <1>1 DEF IInv, TypeOK, StopBegin, Release
  <2> QED  BY <1>1, <1>2, <2>1 DEF IInv, StopBegin, Good, Fresh, Held, Lives, Waits, Serves
<1> QED  BY <1>3, <1>4, <1>5, <1>6 DEF IInv, StopBegin

LEMMA StopSessionStep ==
    ASSUME IInv, StopSession
    PROVE  IInv'
<1>1. api # NoOp /\ api.op \in {"stop", "remove"} /\ present /\ cur \in Gen /\ ~ Started
  BY DEF IInv, Registry, StopSession, NoOp, Started
<1>2. api' = [op |-> api.op, step |-> "join"] /\ api' # NoOp /\ ~ Started'
  BY <1>1 DEF IInv, TypeOK, StopSession, NoOp, Started
<1>3. TypeOK'
  <2>1. api' \in [op : {"none", "stop", "remove"}, step : {"none", "reset", "join"}]
    BY <1>1, <1>2
  <2> QED  BY <1>1, <2>1 DEF IInv, TypeOK, StopSession, AfterStop, objects
<1>4. Registry'
  BY <1>1, <1>2 DEF Registry, StopSession
<1>5. \A g \in Gen : session[g] \in {"running", "halting"} => session'[g] \in {"running", "halting"}
  BY <1>1 DEF IInv, TypeOK, StopSession, AfterStop
<1>6. \A g \in Gen : Good(g)'
  BY <1>1, <1>2, <1>5 DEF IInv, StopSession, Good, Fresh, Held, Lives, Waits, Serves, objects
<1> QED  BY <1>3, <1>4, <1>6 DEF IInv

LEMMA StopDoneStep ==
    ASSUME IInv, StopDone
    PROVE  IInv'
<1>1. api # NoOp /\ present /\ cur \in Gen /\ ~ Started
  BY DEF IInv, Registry, StopDone, NoOp, Started
<1>2. api' = NoOp /\ status' = "stopped" /\ ~ Started'
  BY DEF StopDone, Started
<1>3. \A g \in Gen : io[g] = "off"
  <2>1. io[cur] = "off"
    BY <1>1 DEF IInv, Good, Serves, StopDone, SessionJoined
  <2> QED  BY <2>1, AllOff
<1>4. TypeOK'
  <2>1. api' \in [op : {"none", "stop", "remove"}, step : {"none", "reset", "join"}]
    BY <1>2 DEF NoOp
  <2>2. /\ adapter' \in [Gen -> BOOLEAN] /\ present' \in BOOLEAN
        /\ session' \in [Gen -> {"none", "running", "halting", "halted", "gone"}]
    <3>1. /\ adapter \in [Gen -> BOOLEAN] /\ present \in BOOLEAN
          /\ session \in [Gen -> {"none", "running", "halting", "halted", "gone"}]
      BY DEF IInv, TypeOK
    <3> QED  BY <3>1 DEF StopDone
  <2>3. UNCHANGED <<cur, refs, ctl, dtor, io, backlog, worker, tool, notify, alive>>
    BY DEF StopDone, objects
  <2> QED  BY <1>2, <2>1, <2>2, <2>3 DEF IInv, TypeOK
<1>5. Registry'
  BY <1>2 DEF Registry
<1>6. \A g \in Gen : Good(g)'
  BY <1>1, <1>2, <1>3 DEF IInv, StopDone, Good, Fresh, Held, Lives, Waits, Serves, objects
<1> QED  BY <1>4, <1>5, <1>6 DEF IInv

LEMMA Stutter == IInv /\ UNCHANGED vars => IInv'
  BY DEF vars, objects, IInv, TypeOK, Registry, Good, Fresh, Held, Lives, Waits, Serves, Started

LEMMA Inductive == IInv /\ [Next]_vars => IInv'
<1> SUFFICES ASSUME IInv, [Next]_vars PROVE IInv'
  OBVIOUS
<1>1. CASE UNCHANGED vars
  BY <1>1, Stutter
<1>2. CASE StartAgent \/ StopSession \/ StopDone \/ RemoveStopped
  BY <1>2, StartAgentStep, StopSessionStep, StopDoneStep, RemoveStoppedStep
<1>3. ASSUME NEW o \in {"stop", "remove"}, StopBegin(o) PROVE IInv'
  BY <1>3, StopBeginStep
<1>4. ASSUME NEW g \in Gen, FinishDestructor(g) \/ Connected(g) \/ EventBegin(g) \/ Io(g)
      PROVE  IInv'
  BY <1>4, FinishDestructorStep, ConnectedStep, EventBeginStep, EventHandleStep, EventEndStep,
     IoEndStep DEF Io
<1>5. ASSUME NEW g \in Gen, WorkerProgress(g) \/ WorkerRound(g)
      PROVE  IInv'
  BY <1>5, WorkerTakeStep, WorkerReplyStep, WorkerSpawnStep, WorkerResumeStep, WorkerExitStep,
     WorkerRoundStep DEF WorkerProgress
<1>6. ASSUME NEW g \in Gen, Tool(g) \/ Notify(g)
      PROVE  IInv'
  BY <1>6, ToolBeginStep, ToolReleaseStep, NotifyCheckStep, NotifyReleaseStep, NotifyEndStep
     DEF Tool, Notify
<1> QED  BY <1>1, <1>2, <1>3, <1>4, <1>5, <1>6 DEF Next
-------------------------------------------------------------------------------
\* The inductive invariant (agent_registry.cpp:120-267, 355-416;
\* agent_controller.cpp:362-378).
THEOREM Invariance == Spec => []IInv
  BY Initially, Inductive, PTL DEF Spec

\* Whatever the threads do, the state has its types.
THEOREM TypeCorrect == Spec => []TypeOK
<1>1. IInv => TypeOK
  BY DEF IInv
<1> QED  BY <1>1, Invariance, PTL

\* The controller and its pool are never torn down under a thread that uses them
\* through a reference, and are gone only when what they accepted has been processed
\* (agent_registry.cpp:187-208, 368-371, agent_controller.cpp:362-378).
THEOREM DestructionSafe == Spec => []DestroyedOnlyUnused
<1>1. IInv => DestroyedOnlyUnused
  BY DEF IInv, Good, Held, Lives, DestroyedOnlyUnused
<1> QED  BY <1>1, Invariance, PTL

\* However often the agent is built, one session at most has its I/O thread, and
\* none when the agent is reported stopped or in error, although two threads write
\* the status under two mutexes (agent_registry.cpp:232-236, 380, session.cpp:21-26).
THEOREM SessionsApart == Spec => []OneSession
<1>1. ASSUME IInv PROVE OneSession
  <2> DEFINE S == {g \in Gen : io[g] # "off"}
  <2>1. S \in SUBSET {cur}
    BY <1>1 DEF IInv, Good, Serves
  <2>2. IsFiniteSet({cur}) /\ Cardinality({cur}) = 1
    BY FS_Singleton
  <2>3. Cardinality(S) <= 1
    BY <2>1, <2>2, FS_Subset
  <2>4. present /\ status \in {"stopped", "error"} => S = {}
    BY <1>1 DEF IInv, Good, Serves
  <2> QED  BY <2>3, <2>4 DEF OneSession
<1> QED  BY <1>1, Invariance, PTL

\* The objects that handlers of the I/O thread hold raw pointers to exist as long
\* as it runs (agent_registry.cpp:57, 374).
THEOREM PointersHold == Spec => []HandlersHaveObjects
<1>1. IInv => HandlersHaveObjects
  BY DEF IInv, Good, Serves, HandlersHaveObjects
<1> QED  BY <1>1, Invariance, PTL
-------------------------------------------------------------------------------
(* The self_iteration_engine each agent's controller has.                      *)

(* Passes over a sequence.                                                     *)

\* Every set of naturals that is not empty has a least element.
LEMMA LeastNatural ==
    ASSUME NEW T, T \subseteq Nat, T # {}
    PROVE  \E m \in T : \A k \in T : m <= k
<1>1. PICK m \in T : \A k \in T : <<k, m>> \notin OpToRel(<, Nat)
  BY NatLessThanWellFounded, WFMin
<1>2. \A k \in T : ~ (k < m)
  BY <1>1 DEF OpToRel
<1> QED  BY <1>2

\* What holds at first and is handed on holds all the way: B lists where it does.
LEMMA HandedOn ==
    ASSUME NEW n \in Nat, NEW B, 0 \in B,
           \A j \in 1 .. n : j - 1 \in B => j \in B
    PROVE  \A j \in 0 .. n : j \in B
<1> DEFINE T == {j \in 0 .. n : j \notin B}
<1> SUFFICES T = {}
  OBVIOUS
<1> SUFFICES ASSUME T # {} PROVE FALSE
  OBVIOUS
<1>1. PICK m \in T : \A k \in T : m <= k
  <2>1. T \subseteq Nat
    OBVIOUS
  <2> HIDE DEF T
  <2> QED  BY <2>1, LeastNatural
<1>2. m \in 1 .. n
  OBVIOUS
<1>3. m - 1 \in 0 .. n /\ ~ (m <= m - 1)
  BY <1>2
<1>4. m - 1 \notin T
  <2> HIDE DEF T
  <2> QED  BY <1>1, <1>3
<1> QED  BY <1>2, <1>3, <1>4

Linked(n, x, step, f) ==
    f[0] = x /\ \A j \in 1 .. n : f[j] = step[<<j, f[j - 1]>>]

\* A pass over n places exists: what it has after each place is a function.
LEMMA PassExists ==
    ASSUME NEW n \in Nat, NEW X, NEW x \in X, NEW step \in [(1 .. n) \X X -> X]
    PROVE  \E f \in [0 .. n -> X] : Linked(n, x, step, f)
<1> DEFINE B == {k \in 0 .. n : \E f \in [0 .. k -> X] : Linked(k, x, step, f)}
<1>1. 0 \in B
  <2>1. [j \in 0 .. 0 |-> x] \in [0 .. 0 -> X]
    OBVIOUS
  <2>2. Linked(0, x, step, [j \in 0 .. 0 |-> x])
    BY DEF Linked
  <2> QED  BY <2>1, <2>2
<1>2. ASSUME NEW k \in 1 .. n, k - 1 \in B PROVE k \in B
  <2>1. PICK f \in [0 .. k - 1 -> X] : Linked(k - 1, x, step, f)
    BY <1>2
  <2> DEFINE y == step[<<k, f[k - 1]>>]
             g == [j \in 0 .. k |-> IF j = k THEN y ELSE f[j]]
  <2>2. y \in X
    <3>1. k - 1 \in 0 .. k - 1
      OBVIOUS
    <3>2. <<k, f[k - 1]>> \in (1 .. n) \X X
      BY <3>1
    <3> QED  BY <3>2
  <2>3. g \in [0 .. k -> X]
    <3>1. \A j \in 0 .. k : j # k => j \in 0 .. k - 1
      OBVIOUS
    <3> HIDE DEF y
    <3> QED  BY <2>2, <3>1
  <2>4. Linked(k, x, step, g)
    <3>1. g[0] = x
      BY <2>1 DEF Linked
    <3>2. ASSUME NEW j \in 1 .. k PROVE g[j] = step[<<j, g[j - 1]>>]
      <4>1. j - 1 \in 0 .. k - 1 /\ j - 1 # k /\ j - 1 \in 0 .. k /\ j \in 0 .. k
        OBVIOUS
      <4>2. g[j - 1] = f[j - 1]
        <5> HIDE DEF y
        <5> QED  BY <4>1
      <4>3. CASE j = k
        <5>1. g[j] = y
          BY <4>1, <4>3
        <5> QED  BY <4>2, <4>3, <5>1
      <4>4. CASE j # k
        <5>1. j \in 1 .. k - 1
          BY <4>4
        <5>2. f[j] = step[<<j, f[j - 1]>>]
          BY <2>1, <5>1 DEF Linked
        <5>3. g[j] = f[j]
          <6> HIDE DEF y
          <6> QED  BY <4>1, <4>4
        <5> QED  BY <4>2, <5>2, <5>3
      <4> QED  BY <4>3, <4>4
    <3> HIDE DEF g
    <3> QED  BY <3>1, <3>2 DEF Linked
  <2> QED  BY <2>3, <2>4
<1>3. n \in B
  <2> HIDE DEF B
  <2> QED  BY <1>1, <1>2, HandedOn
<1> QED  BY <1>3

(* Samples.                                                                    *)

\* p is an exchange of s.
Exchange(s, p) ==
    /\ p[1] \in DOMAIN s /\ p[2] \in DOMAIN s
    /\ s[p[1]].role = "user" /\ s[p[2]].role = "assistant"
    /\ s[p[1]].convo = s[p[2]].convo
    /\ p[1] < p[2]
    /\ \A k \in p[1] + 1 .. p[2] - 1 : s[k].convo # s[p[1]].convo

\* What the pass holds after row j: the last question of those rows, if nothing of
\* its conversation has come since, and exchanges.
Sound(s, j, acc) ==
    /\ acc = [pending |-> acc.pending, pairs |-> acc.pairs]
    /\ acc.pending \in 0 .. j
    /\ acc.pairs \in Seq(Nat \X Nat)
    /\ acc.pending # 0 =>
          /\ s[acc.pending].role = "user"
          /\ \A k \in acc.pending + 1 .. j : s[k].convo # s[acc.pending].convo
    /\ \A i \in DOMAIN acc.pairs : Exchange(s, acc.pairs[i])

LEMMA TakeSound ==
    ASSUME NEW s \in Seq(Row), NEW j \in 1 .. Len(s), NEW acc, Sound(s, j - 1, acc)
    PROVE  Sound(s, j, Take(s, j, acc))
<1>1. /\ acc = [pending |-> acc.pending, pairs |-> acc.pairs]
      /\ acc.pending \in 0 .. j - 1
      /\ acc.pairs \in Seq(Nat \X Nat)
  BY DEF Sound
<1>2. ASSUME acc.pending # 0
      PROVE  /\ s[acc.pending].role = "user"
             /\ \A k \in acc.pending + 1 .. j - 1 : s[k].convo # s[acc.pending].convo
  BY <1>2 DEF Sound
<1>3. \A i \in DOMAIN acc.pairs : Exchange(s, acc.pairs[i])
  BY DEF Sound
<1>4. Len(s) \in Nat /\ DOMAIN s = 1 .. Len(s) /\ s[j] \in Row
  OBVIOUS
<1>5. CASE s[j].role = "user"
  <2> DEFINE new == [pending |-> j, pairs |-> acc.pairs]
  <2>1. Take(s, j, acc) = new
    BY <1>1, <1>5 DEF Take
  <2>2. Sound(s, j, new)
    BY <1>1, <1>3, <1>5 DEF Sound
  <2> QED  BY <2>1, <2>2
<1>6. CASE s[j].role = "silent"
  <2> DEFINE new == [pending |-> 0, pairs |-> acc.pairs]
  <2>1. Take(s, j, acc) = new
    BY <1>1, <1>6 DEF Take
  <2>2. Sound(s, j, new)
    BY <1>1, <1>3 DEF Sound
  <2> QED  BY <2>1, <2>2
<1>7. CASE s[j].role = "assistant" /\ Answers(s, acc.pending, j)
  <2> DEFINE p == <<acc.pending, j>>
             new == [pending |-> 0, pairs |-> Append(acc.pairs, p)]
  <2>1. Take(s, j, acc) = new
    BY <1>7 DEF Take
  <2>2. acc.pending # 0 /\ s[acc.pending].convo = s[j].convo
    BY <1>7 DEF Answers
  <2>3. Exchange(s, p)
    <3>1. acc.pending \in DOMAIN s /\ j \in DOMAIN s /\ acc.pending < j
      BY <1>1, <1>4, <2>2
    <3>2. p[1] = acc.pending /\ p[2] = j
      OBVIOUS
    <3> HIDE DEF p
    <3> QED  BY <1>2, <1>7, <2>2, <3>1, <3>2 DEF Exchange
  <2>4. p \in Nat \X Nat
    BY <1>1
  <2>5. \A i \in DOMAIN new.pairs : Exchange(s, new.pairs[i])
    <3> HIDE DEF p
    <3> QED  BY <1>1, <1>3, <2>3, <2>4
  <2>6. new.pairs \in Seq(Nat \X Nat)
    <3> HIDE DEF p
    <3> QED  BY <1>1, <2>4
  <2>7. Sound(s, j, new)
    <3>1. new = [pending |-> new.pending, pairs |-> new.pairs] /\ new.pending = 0
      OBVIOUS
    <3> HIDE DEF new
    <3> QED  BY <2>5, <2>6, <3>1 DEF Sound
  <2> QED  BY <2>1, <2>7
<1>8. CASE s[j].role = "assistant" /\ ~ Answers(s, acc.pending, j)
  <2>1. Take(s, j, acc) = acc
    BY <1>8 DEF Take
  <2>2. acc.pending # 0 => s[j].convo # s[acc.pending].convo
    BY <1>8 DEF Answers
  <2>3. ASSUME acc.pending # 0, NEW k \in acc.pending + 1 .. j
        PROVE  s[k].convo # s[acc.pending].convo
    <3>1. k = j \/ k \in acc.pending + 1 .. j - 1
      BY <1>1
    <3> QED  BY <1>2, <2>2, <2>3, <3>1
  <2>4. acc.pending \in 0 .. j
    BY <1>1
  <2> QED  BY <1>1, <1>2, <1>3, <2>1, <2>3, <2>4 DEF Sound
<1>9. s[j].role \in {"user", "silent", "assistant"}
  BY <1>4 DEF Row
<1> QED  BY <1>5, <1>6, <1>7, <1>8, <1>9

Empty == [pending |-> 0, pairs |-> <<>>]

\* The definition of the pass is met by what it defines.
LEMMA PassIs ==
    ASSUME NEW s \in Seq(Row)
    PROVE  /\ Pass(s)[0] = Empty
           /\ \A j \in 1 .. Len(s) : Pass(s)[j] = Take(s, j, Pass(s)[j - 1])
<1> DEFINE n == Len(s)
           A == [pending : 0 .. n, pairs : Seq(Nat \X Nat)]
           step == [x \in (1 .. n) \X A |-> Take(s, x[1], x[2])]
           P(f) == f = [j \in 0 .. n |-> IF j = 0 THEN Empty ELSE Take(s, j, f[j - 1])]
<1>1. n \in Nat /\ Empty \in A
  BY DEF Empty
<1>2. ASSUME NEW j \in 1 .. n, NEW acc \in A PROVE Take(s, j, acc) \in A
  <2>1. /\ acc = [pending |-> acc.pending, pairs |-> acc.pairs]
        /\ acc.pending \in 0 .. n /\ acc.pairs \in Seq(Nat \X Nat)
    OBVIOUS
  <2>2. <<acc.pending, j>> \in Nat \X Nat
    BY <2>1
  <2>3. Append(acc.pairs, <<acc.pending, j>>) \in Seq(Nat \X Nat)
    BY <2>1, <2>2
  <2>4. /\ [acc EXCEPT !.pending = j] \in A
        /\ [acc EXCEPT !.pending = 0] \in A
        /\ [pending |-> 0, pairs |-> Append(acc.pairs, <<acc.pending, j>>)] \in A
    BY <1>1, <2>1, <2>3
  <2> HIDE DEF A
  <2> QED  BY <2>4 DEF Take
<1>3. step \in [(1 .. n) \X A -> A]
  <2>1. \A x \in (1 .. n) \X A : Take(s, x[1], x[2]) \in A
    <3> HIDE DEF A, n
    <3> QED  BY <1>2
  <2> HIDE DEF A, n
  <2> QED  BY <2>1
<1>4. PICK f \in [0 .. n -> A] : Linked(n, Empty, step, f)
  <2> HIDE DEF A, n, step
  <2> QED  BY <1>1, <1>3, PassExists
<1>5. P(f)
  <2>1. ASSUME NEW j \in 0 .. n, j # 0 PROVE f[j] = Take(s, j, f[j - 1])
    <3>1. j \in 1 .. n /\ j - 1 \in 0 .. n
      BY <1>1, <2>1
    <3>2. f[j] = step[<<j, f[j - 1]>>] /\ f[j - 1] \in A
      <4> HIDE DEF A, n, step
      <4> QED  BY <1>4, <3>1 DEF Linked
    <3>3. <<j, f[j - 1]>> \in (1 .. n) \X A
      BY <3>1, <3>2
    <3> HIDE DEF A, n
    <3> QED  BY <3>2, <3>3
  <2>2. f[0] = Empty
    BY <1>4 DEF Linked
  <2>3. f = [j \in 0 .. n |-> f[j]]
    BY <1>4
  <2> HIDE DEF n
  <2> QED  BY <2>1, <2>2, <2>3
<1>6. Pass(s) = CHOOSE f_1 : P(f_1)
  BY DEF Pass, Empty
<1>7. P(Pass(s))
  <2> HIDE DEF P
  <2> QED  BY <1>5, <1>6
<1>8. 0 \in 0 .. n /\ \A j \in 1 .. n : j \in 0 .. n /\ j # 0
  BY <1>1
<1>9. Pass(s)[0] = Empty
  BY <1>7, <1>8
<1>10. ASSUME NEW j \in 1 .. n PROVE Pass(s)[j] = Take(s, j, Pass(s)[j - 1])
  BY <1>7, <1>8
<1> QED  BY <1>9, <1>10

\* Whatever the rows are, every sample is an exchange.
LEMMA SamplesSound ==
    ASSUME NEW s \in Seq(Row)
    PROVE  \A i \in DOMAIN Samples(s) : Exchange(s, Samples(s)[i])
<1> DEFINE n == Len(s)
           B == {j \in 0 .. n : Sound(s, j, Pass(s)[j])}
<1>1. n \in Nat
  OBVIOUS
<1>2. 0 \in B
  <2>1. Sound(s, 0, Empty)
    BY DEF Sound, Empty
  <2> QED  BY <1>1, <2>1, PassIs
<1>3. ASSUME NEW j \in 1 .. n, j - 1 \in B PROVE j \in B
  <2>1. Sound(s, j - 1, Pass(s)[j - 1])
    BY <1>3
  <2>2. Sound(s, j, Take(s, j, Pass(s)[j - 1]))
    BY <2>1, TakeSound
  <2> QED  BY <1>1, <2>2, PassIs
<1>4. n \in B
  <2>1. n \in 0 .. n
    BY <1>1
  <2> HIDE DEF B, n
  <2> QED  BY <1>1, <1>2, <1>3, <2>1, HandedOn
<1> QED  BY <1>4 DEF Sound, Samples

(* Plans and edits.                                                            *)

Permitted == {d \in Edit : Whitelisted(d)}

\* The filter is met by what it defines.
AllowedUpTo(p) ==
    CHOOSE f : f = [k \in 0 .. Len(p) |->
                     IF k = 0 THEN <<>>
                     ELSE IF Whitelisted(p[k]) THEN Append(f[k - 1], p[k])
                     ELSE f[k - 1]]

\* A plan has allowed edits only, and no more than were proposed.
LEMMA AllowedTypes ==
    ASSUME NEW p \in Seq(Edit)
    PROVE  Allowed(p) \in Seq(Permitted) /\ Len(Allowed(p)) <= Len(p)
<1> DEFINE n == Len(p)
           A == Seq(Permitted)
           Gather(k, acc) == IF Whitelisted(p[k]) THEN Append(acc, p[k]) ELSE acc
           step == [x \in (1 .. n) \X A |-> Gather(x[1], x[2])]
           P(f) == f = [k \in 0 .. n |-> IF k = 0 THEN <<>> ELSE Gather(k, f[k - 1])]
           up == AllowedUpTo(p)
<1>1. n \in Nat /\ <<>> \in A
  OBVIOUS
<1>2. ASSUME NEW k \in 1 .. n, NEW acc \in A
      PROVE  /\ Gather(k, acc) \in A
             /\ Len(Gather(k, acc)) <= Len(acc) + 1
  <2>1. p[k] \in Edit
    OBVIOUS
  <2>2. CASE Whitelisted(p[k])
    <3>1. p[k] \in Permitted
      BY <2>1, <2>2 DEF Permitted
    <3> QED  BY <2>2, <3>1
  <2>3. CASE ~ Whitelisted(p[k])
    BY <2>3
  <2> QED  BY <2>2, <2>3
<1> HIDE DEF Gather
<1>3. step \in [(1 .. n) \X A -> A]
  <2>1. \A x \in (1 .. n) \X A : Gather(x[1], x[2]) \in A
    <3> HIDE DEF A, n
    <3> QED  BY <1>2
  <2> HIDE DEF A, n
  <2> QED  BY <2>1
<1>4. PICK f \in [0 .. n -> A] : Linked(n, <<>>, step, f)
  <2> HIDE DEF A, n, step
  <2> QED  BY <1>1, <1>3, PassExists
<1>5. P(f)
  <2>1. ASSUME NEW k \in 0 .. n, k # 0 PROVE f[k] = Gather(k, f[k - 1])
    <3>1. k \in 1 .. n /\ k - 1 \in 0 .. n
      BY <1>1, <2>1
    <3>2. f[k] = step[<<k, f[k - 1]>>] /\ f[k - 1] \in A
      <4> HIDE DEF A, n, step
      <4> QED  BY <1>4, <3>1 DEF Linked
    <3>3. <<k, f[k - 1]>> \in (1 .. n) \X A
      BY <3>1, <3>2
    <3> HIDE DEF A, n
    <3> QED  BY <3>2, <3>3
  <2>2. f[0] = <<>>
    BY <1>4 DEF Linked
  <2>3. f = [k \in 0 .. n |-> f[k]]
    BY <1>4
  <2> HIDE DEF n
  <2> QED  BY <2>1, <2>2, <2>3
<1>6. up = CHOOSE g : P(g)
  BY DEF AllowedUpTo, Gather
<1>7. P(up)
  <2> HIDE DEF P, up
  <2> QED  BY <1>5, <1>6
<1>8. Allowed(p) = up[n]
  BY DEF Allowed, AllowedUpTo
<1> DEFINE B == {k \in 0 .. n : up[k] \in A /\ Len(up[k]) <= k}
<1>9. 0 \in B
  <2>1. up[0] = <<>>
    <3> HIDE DEF up, n
    <3> QED  BY <1>1, <1>7
  <2>2. Len(<<>>) <= 0 /\ 0 \in 0 .. n
    BY <1>1
  <2> HIDE DEF up, A, n
  <2> QED  BY <1>1, <2>1, <2>2
<1>10. ASSUME NEW k \in 1 .. n, k - 1 \in B PROVE k \in B
  <2> HIDE DEF up
  <2>1. up[k] = Gather(k, up[k - 1])
    <3>1. k \in 0 .. n /\ k # 0
      BY <1>1
    <3> HIDE DEF n
    <3> QED  BY <1>7, <3>1
  <2>2. up[k - 1] \in A /\ Len(up[k - 1]) <= k - 1
    BY <1>10
  <2>3. Gather(k, up[k - 1]) \in A /\ Len(Gather(k, up[k - 1])) <= Len(up[k - 1]) + 1
    <3> HIDE DEF A, n
    <3> QED  BY <1>2, <2>2
  <2>4. Len(up[k - 1]) \in Nat /\ Len(up[k]) \in Nat
    BY <2>1, <2>2, <2>3
  <2> QED  BY <2>1, <2>2, <2>3, <2>4
<1>11. n \in B
  <2>1. n \in 0 .. n
    BY <1>1
  <2> HIDE DEF B, n
  <2> QED  BY <1>1, <1>9, <1>10, <2>1, HandedOn
<1> QED  BY <1>8, <1>11

LEMMA PutTypes ==
    ASSUME NEW d \in Edit PROVE Put(d) \in Seq(Text)
BY DEF Put, Edit

\* What is in either part is in the whole.
LEMMA RangeConcat ==
    ASSUME NEW S, NEW a \in Seq(S), NEW b \in Seq(S)
    PROVE  a \o b \in Seq(S) /\ Range(a) \cup Range(b) = Range(a \o b)
<1>1. /\ a \o b \in Seq(S) /\ Len(a \o b) = Len(a) + Len(b)
      /\ Len(a) \in Nat /\ Len(b) \in Nat
      /\ DOMAIN a = 1 .. Len(a) /\ DOMAIN b = 1 .. Len(b)
      /\ DOMAIN (a \o b) = 1 .. Len(a) + Len(b)
  OBVIOUS
<1>2. ASSUME NEW i \in 1 .. Len(a) PROVE (a \o b)[i] = a[i] /\ i \in DOMAIN (a \o b)
  BY <1>1
<1>3. ASSUME NEW i \in 1 .. Len(b)
      PROVE  (a \o b)[Len(a) + i] = b[i] /\ Len(a) + i \in DOMAIN (a \o b)
  BY <1>1
<1>4. ASSUME NEW i \in DOMAIN (a \o b) PROVE (a \o b)[i] \in Range(a) \cup Range(b)
  <2>1. CASE i <= Len(a)
    BY <1>1, <1>2, <2>1 DEF Range
  <2>2. CASE ~ (i <= Len(a))
    <3>1. i - Len(a) \in 1 .. Len(b) /\ i = Len(a) + (i - Len(a))
      BY <1>1, <2>2
    <3>2. (a \o b)[i] = b[i - Len(a)]
      BY <1>3, <3>1
    <3> QED  BY <1>1, <3>1, <3>2 DEF Range
  <2> QED  BY <2>1, <2>2
<1>5. Range(a) \subseteq Range(a \o b)
  BY <1>1, <1>2 DEF Range
<1>6. Range(b) \subseteq Range(a \o b)
  BY <1>1, <1>3 DEF Range
<1>7. Range(a \o b) \subseteq Range(a) \cup Range(b)
  BY <1>4 DEF Range
<1> QED  BY <1>1, <1>5, <1>6, <1>7

\* A part of a sequence.
LEMMA PartOf ==
    ASSUME NEW S, NEW c \in Seq(S), NEW m \in Nat, NEW n \in Nat, m > 0, n <= Len(c)
    PROVE  /\ SubSeq(c, m, n) \in Seq(S)
           /\ \A i \in m .. n : c[i] \in Range(SubSeq(c, m, n))
<1> DEFINE b == SubSeq(c, m, n)
<1>1. b \in Seq(S)
  OBVIOUS
<1>2. ASSUME NEW i \in m .. n PROVE c[i] \in Range(b)
  <2>1. i - m + 1 \in DOMAIN b /\ b[i - m + 1] = c[i]
    BY <1>2
  <2> HIDE DEF b
  <2> QED  BY <2>1 DEF Range
<1> QED  BY <1>1, <1>2

\* A text that is there has a first place.
LEMMA PlaceIs ==
    ASSUME NEW c \in Seq(Text), NEW t \in Range(c)
    PROVE  Place(c, t) \in DOMAIN c /\ c[Place(c, t)] = t
<1> DEFINE T == {i \in DOMAIN c : c[i] = t}
<1>1. T # {} /\ T \subseteq Nat
  BY DEF Range
<1>2. PICK m \in T : \A k \in T : m <= k
  <2> HIDE DEF T
  <2> QED  BY <1>1, LeastNatural
<1>3. \A j \in 1 .. m - 1 : c[j] # t
  <2> SUFFICES ASSUME NEW j \in 1 .. m - 1, c[j] = t PROVE FALSE
    OBVIOUS
  <2>1. j \in DOMAIN c /\ ~ (m <= j)
    OBVIOUS
  <2>2. j \in T
    BY <2>1
  <2> HIDE DEF T
  <2> QED  BY <1>2, <2>1, <2>2
<1>4. m \in DOMAIN c /\ c[m] = t
  OBVIOUS
<1>5. \E i \in DOMAIN c : c[i] = t /\ \A j \in 1 .. i - 1 : c[j] # t
  BY <1>3, <1>4
<1> QED  BY <1>5, Zenon DEF Place

\* An edit puts its text and takes away no other than the one it replaces.
LEMMA EditedKeeps ==
    ASSUME NEW c \in Seq(Text), NEW d \in Edit, Applicable(c, d)
    PROVE  /\ Edited(c, d) \in Seq(Text)
           /\ (Range(c) \ {d.old}) \cup Range(Put(d)) \subseteq Range(Edited(c, d))
<1>1. Put(d) \in Seq(Text)
  BY PutTypes
<1>2. CASE d.old = End
  <2>1. Edited(c, d) = c \o Put(d)
    BY <1>2 DEF Edited
  <2> QED  BY <1>1, <2>1, RangeConcat
<1>3. CASE d.old # End /\ d.old = Nothing
  <2>1. Edited(c, d) = Put(d) \o c
    BY <1>3 DEF Edited
  <2> QED  BY <1>1, <2>1, RangeConcat
<1>4. CASE d.old # End /\ d.old # Nothing
  <2> DEFINE i == Place(c, d.old)
             a == SubSeq(c, 1, i - 1)
             b == SubSeq(c, i + 1, Len(c))
             front == a \o Put(d)
  <2>1. d.old \in Range(c)
    BY <1>4 DEF Applicable
  <2>2. i \in DOMAIN c /\ c[i] = d.old
    BY <2>1, PlaceIs
  <2>3. Edited(c, d) = a \o Put(d) \o b
    BY <1>4 DEF Edited
  <2> HIDE DEF i
  <2>4. /\ i \in Nat /\ i > 0 /\ i - 1 \in Nat /\ i + 1 \in Nat /\ Len(c) \in Nat
        /\ i - 1 <= Len(c) /\ DOMAIN c = 1 .. Len(c)
    BY <2>2
  <2>5. a \in Seq(Text) /\ \A k \in 1 .. i - 1 : c[k] \in Range(a)
    BY <2>4, PartOf
  <2>6. b \in Seq(Text) /\ \A k \in i + 1 .. Len(c) : c[k] \in Range(b)
    BY <2>4, PartOf
  <2>7. Range(c) \ {d.old} \subseteq Range(a) \cup Range(b)
    <3> HIDE DEF a, b
    <3> SUFFICES ASSUME NEW k \in DOMAIN c, c[k] # d.old
                 PROVE  c[k] \in Range(a) \cup Range(b)
      BY Zenon DEF Range
    <3>1. k \in 1 .. i - 1 \/ k \in i + 1 .. Len(c)
      BY <2>2, <2>4
    <3> QED  BY <2>5, <2>6, <3>1
  <2> HIDE DEF a, b
  <2>8. front \in Seq(Text) /\ Range(a) \cup Range(Put(d)) = Range(front)
    BY <1>1, <2>5, RangeConcat
  <2>9. Edited(c, d) = front \o b
    BY <2>3
  <2> HIDE DEF front
  <2>10. front \o b \in Seq(Text) /\ Range(front) \cup Range(b) = Range(front \o b)
    BY <2>6, <2>8, RangeConcat
  <2> QED  BY <2>7, <2>8, <2>9, <2>10
<1> QED  BY <1>2, <1>3, <1>4

\* What is written is there, whatever was behind it.
LEMMA OverKeeps ==
    ASSUME NEW c \in Seq(Text), NEW d \in Seq(Text)
    PROVE  Over(c, d) \in Seq(Text) /\ Range(c) \subseteq Range(Over(c, d))
<1>1. Len(c) + 1 \in Nat /\ Len(c) + 1 > 0 /\ Len(d) \in Nat /\ Len(d) <= Len(d)
  OBVIOUS
<1>2. SubSeq(d, Len(c) + 1, Len(d)) \in Seq(Text)
  BY <1>1, PartOf
<1> QED  BY <1>2, RangeConcat DEF Over

(* The inductive invariant.                                                    *)

Where == {"idle", "collect", "evaluate", "plan", "apply", "open", "write", "add",
          "config", "commit", "hash"}

\* TypeOK, with plans that keep to the whitelist and to the number of edits.
IterationTypes ==
    /\ pc \in [Engine -> Where]
    /\ run \in [Engine -> 0 .. MaxRun]
    /\ dry \in [Engine -> BOOLEAN]
    /\ read \in [Engine -> Seq(Row)]
    /\ plan \in [Engine -> Seq(Permitted)]
    /\ content \in [Engine -> Seq(Text)]
    /\ count \in [Engine -> 0 .. MaxEdit]
    /\ ws \in [File -> Seq(Text)]
    /\ index \in [File -> Seq(Text)]
    /\ head \in [File -> Seq(Text)]
    /\ mine \in [Engine -> [File -> SUBSET Text]]
    /\ alone \in [Engine -> SUBSET File]
    /\ runs \in 0 .. MaxRun
    /\ faults \in 0 .. MaxFault

\* An edit is counted when it leaves the plan.
Counted(e) ==
    /\ count[e] + Len(plan[e]) <= MaxEdit
    /\ pc[e] \notin {"apply", "open", "write"} => count[e] = 0
    /\ pc[e] \in {"open", "write"} => plan[e] # <<>>

\* What the current edit is about to leave in the file is what the run wants there.
Ready(e) ==
    pc[e] \in {"open", "write"} =>
        LET d == Current(e) IN
        d.file \in alone[e] =>
            (mine[e][d.file] \ {d.old}) \cup Range(Put(d)) \subseteq Range(content[e])

KeptBy(e) ==
    \A f \in alone[e] :
        \/ pc[e] = "idle" \/ (pc[e] = "write" /\ Current(e).file = f)
        \/ mine[e][f] \subseteq Range(ws[f])

\* An add after the run's own does not take its edits out of the index.
Staged(e) ==
    pc[e] \in {"config", "commit", "hash"} =>
        \A f \in alone[e] : mine[e][f] \subseteq Range(index[f])

CarriedBy(e) ==
    pc[e] = "hash" => \A f \in alone[e] : mine[e][f] \subseteq Range(head[f])

OwnEdits(e) == Ready(e) /\ KeptBy(e) /\ Staged(e) /\ CarriedBy(e)

IterationInv ==
    /\ IterationTypes
    /\ \A e \in Engine : Counted(e)
    /\ \A e \in Engine : OwnEdits(e)
    /\ Confined

LEMMA IterationInitially ==
    ASSUME IterationInit PROVE IterationInv
<1>1. /\ {MaxEdit, MaxRun, MaxFault} \subseteq Nat /\ 0 \in 0 .. MaxEdit
      /\ 0 \in 0 .. MaxRun /\ 0 \in 0 .. MaxFault
  BY IterationAssumption
<1>2. Untouched \in [File -> Seq(Text)]
  BY DEF Untouched, Text
<1>3. NoTexts \in [File -> SUBSET Text]
  BY DEF NoTexts
<1>4. IterationTypes
  BY <1>1, <1>2, <1>3 DEF IterationInit, IterationTypes, Where
<1>5. \A e \in Engine : Counted(e)
  BY <1>1 DEF IterationInit, Counted
<1>6. \A e \in Engine : OwnEdits(e)
  BY DEF IterationInit, OwnEdits, Ready, KeptBy, Staged, CarriedBy
<1>7. Confined
  BY DEF IterationInit, Confined, Untouched
<1> QED  BY <1>4, <1>5, <1>6, <1>7 DEF IterationInv

\* What a step of another engine leaves to engine o: its own state, and the files
\* that it alone has touched.
Beside(o) ==
    /\ pc'[o] = pc[o] /\ plan'[o] = plan[o] /\ content'[o] = content[o]
    /\ count'[o] = count[o] /\ mine'[o] = mine[o]
    /\ alone'[o] \subseteq alone[o]
    /\ \A f \in alone'[o] : ws'[f] = ws[f]
    /\ index' \in {index, ws}
    /\ head' \in {head, index}

LEMMA StepBeside ==
    ASSUME IterationTypes, NEW e \in Engine, NEW o \in Engine, o # e, Start(e) \/ Step(e)
    PROVE  Beside(o)
<1> USE DEF IterationTypes, Goto, files, histories, Beside, Touched,
            Drop, Failed, Written
<1>1. CASE Start(e)
  BY <1>1 DEF Start
<1>2. CASE Collect(e)
  BY <1>2 DEF Collect
<1>3. CASE Evaluate(e)
  BY <1>3 DEF Evaluate
<1>4. CASE Plan(e)
  BY <1>4 DEF Plan
<1>5. CASE Skip(e)
  BY <1>5 DEF Skip
<1>6. CASE ReadFile(e)
  BY <1>6 DEF ReadFile
<1>7. CASE ReadFails(e)
  BY <1>7 DEF ReadFails
<1>8. CASE OpenFile(e)
  BY <1>8 DEF OpenFile
<1>9. CASE WriteFile(e)
  BY <1>9 DEF WriteFile
<1>10. CASE WriteFails(e)
  BY <1>10 DEF WriteFails
<1>11. CASE Applied(e)
  BY <1>11 DEF Applied
<1>12. CASE GitAdd(e)
  BY <1>12 DEF GitAdd
<1>13. CASE GitCommit(e)
  BY <1>13 DEF GitCommit
<1>14. CASE GitFails(e)
  BY <1>14 DEF GitFails
<1>15. CASE GitHash(e)
  BY <1>15 DEF GitHash
<1>16. CASE GitAddConfig(e)
  BY <1>16 DEF GitAddConfig
<1> QED
  BY <1>1, <1>2, <1>3, <1>4, <1>5, <1>6, <1>7, <1>8, <1>9, <1>10, <1>11, <1>12,
     <1>13, <1>14, <1>15, <1>16 DEF Step

LEMMA OthersKeep ==
    ASSUME IterationTypes, NEW o \in Engine, Counted(o), OwnEdits(o), Beside(o)
    PROVE  Counted(o)' /\ OwnEdits(o)'
<1>1. Counted(o)'
  BY DEF Counted, Beside
<1>2. /\ Current(o)' = Current(o) /\ pc'[o] = pc[o] /\ content'[o] = content[o]
      /\ mine'[o] = mine[o] /\ alone'[o] \subseteq alone[o]
  BY DEF Beside, Current
<1>3. Ready(o)'
  BY <1>2 DEF OwnEdits, Ready
<1>4. KeptBy(o)'
  BY <1>2 DEF OwnEdits, KeptBy, Beside
<1>5. pc[o] \in {"config", "commit", "hash"} => \A f \in alone'[o] :
          mine[o][f] \subseteq Range(ws[f]) /\ mine[o][f] \subseteq Range(index[f])
  BY <1>2 DEF OwnEdits, KeptBy, Staged
<1>6. Staged(o)'
  BY <1>2, <1>5 DEF Staged, Beside
<1>7. CarriedBy(o)'
  BY <1>2, <1>5 DEF OwnEdits, CarriedBy, Beside
<1> QED  BY <1>1, <1>3, <1>4, <1>6, <1>7 DEF OwnEdits

(* Types.                                                                      *)

LEMMA Bounded ==
    ASSUME NEW S, NEW n \in Nat, NEW s \in SeqOf(S, n)
    PROVE  s \in Seq(S) /\ Len(s) <= n
<1>1. PICK m \in 0 .. n : s \in [1 .. m -> S]
  BY DEF SeqOf
<1> QED  BY <1>1

LEMMA CurrentIs ==
    ASSUME IterationTypes, NEW e \in Engine, plan[e] # <<>>
    PROVE  /\ Current(e) \in Edit /\ Whitelisted(Current(e)) /\ Current(e).file \in File
           /\ Tail(plan[e]) \in Seq(Permitted)
           /\ Len(plan[e]) \in Nat /\ Len(Tail(plan[e])) = Len(plan[e]) - 1
<1>1. plan[e] \in Seq(Permitted)
  BY DEF IterationTypes
<1>2. Head(plan[e]) \in Permitted
  BY <1>1
<1>3. Current(e) \in Edit /\ Whitelisted(Current(e))
  BY <1>2 DEF Current, Permitted
<1>4. Current(e).file \in File
  BY <1>3 DEF Edit
<1> QED  BY <1>1, <1>3, <1>4

\* What an action puts where it puts it, besides the state it goes to.
LEMMA TypesStep ==
    ASSUME IterationTypes, NEW e \in Engine, Counted(e), Start(e) \/ Step(e)
    PROVE  IterationTypes'
<1> USE DEF Goto, files, histories, Where
<1>0. {MaxRow, MaxEdit, MaxRun, MaxFault} \subseteq Nat
  BY IterationAssumption
<1>c. NoTexts \in [File -> SUBSET Text]
  BY DEF NoTexts
<1>d. ASSUME plan[e] # <<>> PROVE plan[e] # <<>> /\ Tail(plan[e]) \in Seq(Permitted)
  BY <1>d, CurrentIs
<1>e. ASSUME plan[e] # <<>>
      PROVE  count[e] + 1 \in 0 .. MaxEdit
  <2>1. Len(plan[e]) \in Nat \ {0}
    BY <1>e, CurrentIs DEF IterationTypes
  <2> QED  BY <1>0, <2>1 DEF Counted, IterationTypes
<1>1. CASE Start(e)
  <2>1. runs' \in 0 .. MaxRun
    BY <1>0, <1>1 DEF Start, IterationTypes
  <2> QED  BY <1>1, <1>c, <2>1 DEF Start, IterationTypes
<1>2. CASE Collect(e)
  <2>1. PICK s \in SeqOf(Row, MaxRow) :
            \/ UNCHANGED read /\ Goto(e, "idle")
            \/ Goto(e, "evaluate") /\ read' = [read EXCEPT ![e] = s]
    BY <1>2 DEF Collect
  <2>2. s \in Seq(Row)
    BY <1>0, Bounded
  <2>3. pc' = [pc EXCEPT ![e] = "idle"] \/ pc' = [pc EXCEPT ![e] = "evaluate"]
    BY <2>1
  <2>4. read' \in [Engine -> Seq(Row)]
    BY <2>1, <2>2 DEF IterationTypes
  <2>5. UNCHANGED <<run, dry, plan, content, count, ws, index, head, mine, alone,
                    runs, faults>>
    BY <1>2 DEF Collect
  <2>6. pc' \in [Engine -> Where]
    BY <2>3 DEF IterationTypes
  <2> QED  BY <2>4, <2>5, <2>6, Zenon DEF IterationTypes
<1>3. CASE Evaluate(e)
  <2>1. pc' = [pc EXCEPT ![e] = "idle"] \/ pc' = [pc EXCEPT ![e] = "plan"]
    BY <1>3 DEF Evaluate
  <2>2. pc' \in [Engine -> Where]
    BY <2>1 DEF IterationTypes
  <2>3. dry' \in [Engine -> BOOLEAN] /\ read' \in [Engine -> Seq(Row)]
    <3>1. <<>> \in Seq(Row)
      OBVIOUS
    <3> QED  BY <1>3, <3>1 DEF Evaluate, IterationTypes
  <2>4. UNCHANGED <<run, plan, content, count, ws, index, head, mine, alone, runs,
                    faults>>
    BY <1>3 DEF Evaluate
  <2> QED  BY <2>2, <2>3, <2>4, Zenon DEF IterationTypes
<1>4. CASE Plan(e)
  <2>1. PICK p \in Proposals(e) : plan' = [plan EXCEPT ![e] = Allowed(p)]
    BY <1>4 DEF Plan
  <2>2. p \in Seq(Edit)
    BY <1>0, Bounded DEF Proposals
  <2>3. Allowed(p) \in Seq(Permitted)
    BY <2>2, AllowedTypes
  <2> QED  BY <1>4, <2>1, <2>3 DEF Plan, IterationTypes
<1>5. CASE Skip(e)
  BY <1>5, <1>d DEF Skip, Drop, IterationTypes
<1>6. CASE ReadFile(e)
  <2>1. Edited(ws[Current(e).file], Current(e)) \in Seq(Text)
    BY <1>6, CurrentIs, EditedKeeps DEF ReadFile, IterationTypes
  <2> QED  BY <1>6, <2>1 DEF ReadFile, IterationTypes
<1>7. CASE ReadFails(e)
  <2>1. <<>> \in Seq(Text)
    OBVIOUS
  <2>2. Edited(<<>>, Current(e)) \in Seq(Text)
    BY <1>7, <2>1, CurrentIs, EditedKeeps DEF ReadFails
  <2>3. faults' \in 0 .. MaxFault
    BY <1>0, <1>7 DEF ReadFails, IterationTypes
  <2> QED  BY <1>7, <2>2, <2>3 DEF ReadFails, IterationTypes
<1>8. CASE OpenFile(e)
  <2>1. ws' \in [File -> Seq(Text)]
    <3>1. ws' = [ws EXCEPT ![Current(e).file] = <<>>] /\ <<>> \in Seq(Text)
      BY <1>8 DEF OpenFile
    <3> QED  BY <3>1 DEF IterationTypes
  <2>2. alone' \in [Engine -> SUBSET File]
    BY <1>8 DEF OpenFile, Touched, IterationTypes
  <2> QED  BY <1>8, <2>1, <2>2 DEF OpenFile, IterationTypes
<1>9. CASE WriteFile(e)
  <2>1. plan[e] # <<>>
    BY <1>9 DEF WriteFile, At, Counted
  <2> DEFINE d == Current(e)
  <2>2. d \in Edit /\ d.file \in File
    BY <2>1, CurrentIs
  <2> HIDE DEF d
  <2>3. /\ ws' = [ws EXCEPT ![d.file] = Over(content[e], @)]
        /\ mine' = [mine EXCEPT ![e][d.file] = (@ \ {d.old}) \cup Range(Put(d))]
        /\ alone' = Touched(Engine \ {e}, d.file)
    BY <1>9 DEF WriteFile, d
  <2>4. ws' \in [File -> Seq(Text)]
    <3>1. Over(content[e], ws[d.file]) \in Seq(Text)
      BY <2>2, OverKeeps DEF IterationTypes
    <3> QED  BY <2>3, <3>1 DEF IterationTypes
  <2>5. mine' \in [Engine -> [File -> SUBSET Text]]
    <3>1. Range(Put(d)) \subseteq Text
      BY <2>2, PutTypes DEF Range
    <3> QED  BY <2>2, <2>3, <3>1 DEF IterationTypes
  <2>6. alone' \in [Engine -> SUBSET File]
    BY <2>3 DEF Touched, IterationTypes
  <2>7. plan' \in [Engine -> Seq(Permitted)] /\ content' \in [Engine -> Seq(Text)]
    BY <1>9, <1>d, <2>1 DEF WriteFile, Written, Drop, IterationTypes
  <2>8. count' \in [Engine -> 0 .. MaxEdit]
    BY <1>9, <1>e, <2>1 DEF WriteFile, IterationTypes
  <2> QED  BY <1>9, <2>4, <2>5, <2>6, <2>7, <2>8 DEF WriteFile, Written,
                                                     IterationTypes
<1>10. CASE WriteFails(e)
  <2>1. plan[e] # <<>>
    BY <1>10 DEF WriteFails, Counted
  <2>2. alone' \in [Engine -> SUBSET File]
    BY <1>10 DEF WriteFails, Touched, IterationTypes
  <2>3. plan' \in [Engine -> Seq(Permitted)] /\ content' \in [Engine -> Seq(Text)]
    BY <1>10, <1>d, <2>1 DEF WriteFails, Failed, Written, Drop, IterationTypes
  <2>4. count' \in [Engine -> 0 .. MaxEdit]
    BY <1>10, <1>e, <2>1 DEF WriteFails, IterationTypes
  <2>5. faults' \in 0 .. MaxFault
    BY <1>0, <1>10 DEF WriteFails, IterationTypes
  <2>6. /\ pc' = [pc EXCEPT ![e] = "apply"]
        /\ UNCHANGED <<run, dry, read, ws, index, head, mine, runs>>
    BY <1>10 DEF WriteFails, Failed, Written
  <2> QED  BY <2>2, <2>3, <2>4, <2>5, <2>6 DEF IterationTypes
<1>11. CASE Applied(e)
  <2>1. pc' = [pc EXCEPT ![e] = "idle"] \/ pc' = [pc EXCEPT ![e] = "add"]
    BY <1>11 DEF Applied
  <2>2. /\ count' = [count EXCEPT ![e] = 0] /\ 0 \in 0 .. MaxEdit
        /\ UNCHANGED <<run, dry, read, plan, content, ws, index, head, mine, alone,
                       runs, faults>>
    BY <1>0, <1>11 DEF Applied
  <2>3. pc' \in [Engine -> Where]
    BY <2>1 DEF IterationTypes
  <2>4. count' \in [Engine -> 0 .. MaxEdit]
    BY <2>2 DEF IterationTypes
  <2> QED  BY <2>2, <2>3, <2>4, Zenon DEF IterationTypes
<1>12. CASE GitAdd(e)
  BY <1>12 DEF GitAdd, IterationTypes
<1>13. CASE GitCommit(e)
  BY <1>13 DEF GitCommit, IterationTypes
<1>14. CASE GitFails(e)
  <2>1. pc' = [pc EXCEPT ![e] = "config"] \/ pc' = [pc EXCEPT ![e] = "hash"]
    BY <1>14 DEF GitFails
  <2>2. pc' \in [Engine -> Where] /\ alone' \in [Engine -> SUBSET File]
    BY <1>14, <2>1 DEF GitFails, IterationTypes
  <2>3. UNCHANGED <<run, dry, read, plan, content, count, ws, index, head, mine, runs,
                    faults>>
    BY <1>14 DEF GitFails
  <2> QED  BY <2>2, <2>3, Zenon DEF IterationTypes
<1>15. CASE GitHash(e)
  BY <1>15, <1>c DEF GitHash, IterationTypes
<1>16. CASE GitAddConfig(e)
  BY <1>16 DEF GitAddConfig, IterationTypes
<1> QED
  BY <1>1, <1>2, <1>3, <1>4, <1>5, <1>6, <1>7, <1>8, <1>9, <1>10, <1>11, <1>12,
     <1>13, <1>14, <1>15, <1>16 DEF Step

(* Edits.                                                                      *)

\* An edit that leaves the plan is the one that may be counted.
LEMMA CountedStep ==
    ASSUME IterationTypes, NEW e \in Engine, Counted(e), Start(e) \/ Step(e)
    PROVE  Counted(e)'
<1> USE DEF Goto, At
<1>0. /\ MaxEdit \in Nat /\ count[e] \in 0 .. MaxEdit
      /\ plan[e] \in Seq(Permitted) /\ Len(plan[e]) \in Nat /\ pc[e] \in Where
  BY IterationAssumption DEF IterationTypes
<1>1. ASSUME plan[e] # <<>> PROVE Len(Tail(plan[e])) = Len(plan[e]) - 1
  BY <1>0, <1>1
<1>2. CASE Plan(e)
  <2>1. PICK p \in Proposals(e) : plan' = [plan EXCEPT ![e] = Allowed(p)]
    BY <1>2 DEF Plan
  <2>2. p \in Seq(Edit) /\ Len(p) <= MaxEdit /\ Len(p) \in Nat
    BY <1>0, Bounded DEF Proposals
  <2>3. Allowed(p) \in Seq(Permitted) /\ Len(Allowed(p)) <= Len(p)
    BY <2>2, AllowedTypes
  <2>4. plan'[e] = Allowed(p)
    BY <2>1 DEF IterationTypes
  <2>5. count[e] = 0 /\ count' = count
    BY <1>2 DEF Plan, Counted
  <2>6. pc'[e] \in {"idle", "apply"}
    BY <1>2 DEF Plan, IterationTypes
  <2>7. Len(plan'[e]) \in Nat /\ Len(plan'[e]) <= MaxEdit
    BY <1>0, <2>2, <2>3, <2>4
  <2> QED  BY <1>0, <2>5, <2>6, <2>7 DEF Counted
<1>3. CASE Skip(e)
  BY <1>0, <1>1, <1>3 DEF Skip, Drop, Counted, IterationTypes
<1>4. CASE WriteFile(e)
  <2>1. plan[e] # <<>>
    BY <1>4 DEF WriteFile, Counted
  <2> QED  BY <1>0, <1>1, <1>4, <2>1 DEF WriteFile, Written, Drop, Counted,
                                         IterationTypes
<1>5. CASE WriteFails(e)
  <2>1. plan[e] # <<>>
    BY <1>5 DEF WriteFails, Counted
  <2>2. count'[e] \in {count[e], count[e] + 1}
    BY <1>5 DEF WriteFails, IterationTypes
  <2>3. pc'[e] = "apply" /\ plan'[e] = Tail(plan[e])
    BY <1>5 DEF WriteFails, Failed, Written, Drop, IterationTypes
  <2> QED  BY <1>0, <1>1, <2>1, <2>2, <2>3 DEF Counted
<1>6. CASE Start(e) \/ Collect(e) \/ Evaluate(e)
  <2>1. plan' = plan /\ count' = count /\ count[e] = 0
    BY <1>6 DEF Start, Collect, Evaluate, Counted
  <2>2. pc'[e] \in {"idle", "collect", "evaluate", "plan"}
    BY <1>6 DEF Start, Collect, Evaluate, IterationTypes
  <2> QED  BY <2>1, <2>2 DEF Counted
<1>7. CASE ReadFile(e) \/ ReadFails(e) \/ OpenFile(e)
  <2>1. plan' = plan /\ count' = count /\ plan[e] # <<>>
    BY <1>7 DEF ReadFile, ReadFails, OpenFile, Counted
  <2>2. pc'[e] \in {"open", "write"}
    BY <1>7 DEF ReadFile, ReadFails, OpenFile, IterationTypes
  <2> QED  BY <2>1, <2>2 DEF Counted
<1>8. CASE Applied(e)
  BY <1>0, <1>8 DEF Applied, Counted, IterationTypes
<1>9. CASE GitAdd(e) \/ GitAddConfig(e) \/ GitCommit(e) \/ GitFails(e) \/ GitHash(e)
  <2>1. plan' = plan /\ count' = count /\ count[e] = 0
    BY <1>9 DEF GitAdd, GitAddConfig, GitCommit, GitFails, GitHash, Counted
  <2>2. pc'[e] \in {"idle", "config", "commit", "hash"}
    BY <1>9 DEF GitAdd, GitAddConfig, GitCommit, GitFails, GitHash, IterationTypes
  <2> QED  BY <2>1, <2>2 DEF Counted
<1> QED  BY <1>2, <1>3, <1>4, <1>5, <1>6, <1>7, <1>8, <1>9 DEF Step

\* The engine's own steps.
LEMMA OwnKept ==
    ASSUME IterationTypes, IterationTypes', NEW e \in Engine, Counted(e), OwnEdits(e), Start(e) \/ Step(e)
    PROVE  OwnEdits(e)'
<1> USE DEF Goto, At, files, histories
<1>1. CASE Start(e)
  <2>1. pc'[e] = "collect" /\ mine'[e] = NoTexts /\ alone'[e] = File
    BY <1>1 DEF Start, IterationTypes
  <2>2. \A f \in alone'[e] : mine'[e][f] = {}
    BY <2>1 DEF NoTexts
  <2> QED  BY <2>1, <2>2 DEF OwnEdits, Ready, KeptBy, Staged, CarriedBy
<1>2. CASE Collect(e) \/ Evaluate(e) \/ Plan(e) \/ Skip(e) \/ Applied(e)
  <2>1. UNCHANGED <<mine, alone, ws>>
    BY <1>2 DEF Collect, Evaluate, Plan, Skip, Applied
  <2>2. pc[e] \in {"collect", "evaluate", "plan", "apply"}
    BY <1>2 DEF Collect, Evaluate, Plan, Skip, Applied
  <2>3. pc'[e] \in {"idle", "evaluate", "plan", "apply", "add"}
    <3>1. CASE Collect(e) \/ Plan(e) \/ Skip(e) \/ Applied(e)
      BY <3>1 DEF Collect, Plan, Skip, Applied, IterationTypes
    <3>2. CASE Evaluate(e)
      BY <3>2 DEF Evaluate, IterationTypes
    <3> QED  BY <1>2, <3>1, <3>2
  <2>4. KeptBy(e)'
    BY <2>1, <2>2 DEF OwnEdits, KeptBy
  <2> QED  BY <2>3, <2>4 DEF OwnEdits, Ready, Staged, CarriedBy
<1>3. CASE ReadFile(e) \/ ReadFails(e)
  <2> DEFINE d == Current(e)
  <2>1. plan[e] # <<>> /\ plan' = plan /\ ws' = ws /\ mine' = mine /\ pc[e] = "apply"
    BY <1>3 DEF ReadFile, ReadFails
  <2>2. d \in Edit /\ d.file \in File /\ Current(e)' = d
    BY <2>1, CurrentIs DEF Current
  <2> HIDE DEF d
  <2>3. pc'[e] = "open" /\ alone'[e] \subseteq alone[e]
    BY <1>3 DEF ReadFile, ReadFails, IterationTypes
  <2>4. d.file \in alone'[e] =>
            /\ Applicable(ws[d.file], d)
            /\ content'[e] = Edited(ws[d.file], d)
    <3>1. CASE ReadFile(e)
      BY <3>1 DEF ReadFile, IterationTypes, d
    <3>2. CASE ReadFails(e)
      BY <3>2 DEF ReadFails, IterationTypes, d
    <3> QED  BY <1>3, <3>1, <3>2
  <2>5. KeptBy(e)'
    BY <2>1, <2>3 DEF OwnEdits, KeptBy
  <2>6. Ready(e)'
    <3> SUFFICES ASSUME d.file \in alone'[e]
                 PROVE  (mine[e][d.file] \ {d.old}) \cup Range(Put(d)) \subseteq Range(content'[e])
      BY <2>1, <2>2 DEF Ready
    <3>1. mine[e][d.file] \subseteq Range(ws[d.file])
      BY <2>1, <2>3 DEF OwnEdits, KeptBy
    <3>2. ws[d.file] \in Seq(Text)
      BY <2>2 DEF IterationTypes
    <3> QED  BY <2>2, <2>4, <3>1, <3>2, EditedKeeps
  <2> QED  BY <2>3, <2>5, <2>6 DEF OwnEdits, Staged, CarriedBy
<1>4. CASE OpenFile(e)
  <2>1. /\ pc[e] = "open" /\ pc'[e] = "write" /\ plan' = plan /\ content' = content
        /\ mine' = mine /\ Current(e)' = Current(e)
    BY <1>4 DEF OpenFile, IterationTypes, Current
  <2>2. alone'[e] = alone[e] /\ \A f \in File \ {Current(e).file} : ws'[f] = ws[f]
    BY <1>4 DEF OpenFile, Touched, IterationTypes
  <2>3. Ready(e)'
    BY <2>1, <2>2 DEF OwnEdits, Ready
  <2>4. KeptBy(e)'
    <3>1. alone[e] \subseteq File
      BY DEF IterationTypes
    <3> QED  BY <2>1, <2>2, <3>1 DEF OwnEdits, KeptBy
  <2> QED  BY <2>1, <2>3, <2>4 DEF OwnEdits, Staged, CarriedBy
<1>5. CASE WriteFile(e)
  <2> DEFINE d == Current(e)
  <2>1. plan[e] # <<>> /\ pc[e] = "write"
    BY <1>5 DEF WriteFile, Counted
  <2>2. d \in Edit /\ d.file \in File
    BY <2>1, CurrentIs
  <2> HIDE DEF d
  <2>3. /\ pc'[e] = "apply" /\ alone'[e] = alone[e]
        /\ ws' = [ws EXCEPT ![d.file] = Over(content[e], @)]
        /\ mine' = [mine EXCEPT ![e][d.file] = (@ \ {d.old}) \cup Range(Put(d))]
    BY <1>5 DEF WriteFile, Written, Touched, IterationTypes, d
  <2>4. ASSUME NEW f \in alone[e] PROVE mine'[e][f] \subseteq Range(ws'[f])
    <3>1. f \in File
      BY DEF IterationTypes
    <3>2. CASE f = d.file
      <4>1. mine'[e][f] \subseteq Range(content[e])
        BY <2>1, <2>2, <2>3, <3>2 DEF OwnEdits, Ready, IterationTypes, d
      <4>2. ws'[f] = Over(content[e], ws[f]) /\ content[e] \in Seq(Text) /\ ws[f] \in Seq(Text)
        BY <2>2, <2>3, <3>2 DEF IterationTypes
      <4> QED  BY <4>1, <4>2, OverKeeps
    <3>3. CASE f # d.file
      <4>1. mine'[e][f] = mine[e][f] /\ ws'[f] = ws[f]
        BY <2>3, <3>1, <3>3 DEF IterationTypes
      <4> QED  BY <2>1, <3>3, <4>1 DEF OwnEdits, KeptBy, d
    <3> QED  BY <3>2, <3>3
  <2> QED  BY <2>3, <2>4 DEF OwnEdits, Ready, KeptBy, Staged, CarriedBy
<1>6. CASE WriteFails(e)
  <2>1. pc'[e] = "apply" /\ mine' = mine /\ ws' = ws
    BY <1>6 DEF WriteFails, Failed, Written, IterationTypes
  <2>2. /\ alone'[e] \subseteq alone[e]
        /\ pc[e] = "write" => Current(e).file \notin alone'[e]
        /\ pc[e] \in {"open", "write"}
    BY <1>6 DEF WriteFails, Touched, IterationTypes
  <2>3. KeptBy(e)'
    BY <2>1, <2>2 DEF OwnEdits, KeptBy
  <2> QED  BY <2>1, <2>3 DEF OwnEdits, Ready, Staged, CarriedBy
<1>7. CASE GitAdd(e)
  <2>1. /\ pc[e] = "add" /\ pc'[e] = "config" /\ index' = ws
        /\ UNCHANGED <<mine, alone, ws>>
    BY <1>7 DEF GitAdd, IterationTypes
  <2> QED  BY <2>1 DEF OwnEdits, Ready, KeptBy, Staged, CarriedBy
<1>8. CASE GitCommit(e)
  <2>1. /\ pc[e] = "commit" /\ pc'[e] = "hash" /\ head' = index
        /\ UNCHANGED <<mine, alone, ws, index>>
    BY <1>8 DEF GitCommit, IterationTypes
  <2> QED  BY <2>1 DEF OwnEdits, Ready, KeptBy, Staged, CarriedBy
<1>9. CASE GitFails(e) \/ GitHash(e)
  <2>1. alone'[e] = {} /\ pc'[e] \in {"idle", "config", "hash"}
    BY <1>9 DEF GitFails, GitHash, IterationTypes
  <2> QED  BY <2>1 DEF OwnEdits, Ready, KeptBy, Staged, CarriedBy
<1>10. CASE GitAddConfig(e)
  <2>1. /\ pc[e] = "config" /\ pc'[e] = "commit"
        /\ UNCHANGED <<mine, alone, ws, index>>
    BY <1>10 DEF GitAddConfig, IterationTypes, files, histories
  <2> QED  BY <2>1 DEF OwnEdits, Ready, KeptBy, Staged, CarriedBy
<1> QED  BY <1>1, <1>2, <1>3, <1>4, <1>5, <1>6, <1>7, <1>8, <1>9, <1>10 DEF Step

\* Only the file of a current edit is written, and that is in the whitelist.
LEMMA ConfinedStep ==
    ASSUME IterationTypes, NEW e \in Engine, Counted(e), Confined, Start(e) \/ Step(e)
    PROVE  Confined'
<1> SUFFICES ASSUME NEW f \in File \ Editable PROVE ws'[f] = ws[f]
  BY DEF Confined
<1>1. CASE OpenFile(e) \/ WriteFile(e)
  <2>1. plan[e] # <<>>
    BY <1>1 DEF OpenFile, WriteFile, At, Counted
  <2>2. Current(e).file # f
    BY <2>1, CurrentIs DEF Whitelisted
  <2> QED  BY <1>1, <2>2 DEF OpenFile, WriteFile, IterationTypes
<1>2. CASE ~ (OpenFile(e) \/ WriteFile(e))
  <2>1. ws' = ws
    BY <1>2 DEF Step, Start, Collect, Evaluate, Plan, Skip,
                ReadFile, ReadFails,
                WriteFails, Applied, GitAdd, GitAddConfig, GitCommit, GitFails,
                GitHash, files
  <2> QED  BY <2>1
<1> QED  BY <1>1, <1>2

LEMMA IterationInductive ==
    ASSUME IterationInv, [IterationNext]_iterationVars
    PROVE  IterationInv'
<1>1. CASE IterationNext
  <2>1. PICK e \in Engine : Start(e) \/ Step(e)
    BY <1>1 DEF IterationNext
  <2>2. IterationTypes /\ Counted(e) /\ OwnEdits(e) /\ Confined
    BY DEF IterationInv
  <2>3. IterationTypes'
    BY <2>1, <2>2, TypesStep
  <2>4. Confined'
    BY <2>1, <2>2, ConfinedStep
  <2>5. ASSUME NEW o \in Engine PROVE Counted(o)' /\ OwnEdits(o)'
    <3>1. CASE o = e
      BY <2>1, <2>2, <2>3, <3>1, CountedStep, OwnKept
    <3>2. CASE o # e
      <4>1. Beside(o)
        BY <2>1, <2>2, <3>2, StepBeside
      <4>2. Counted(o) /\ OwnEdits(o)
        BY DEF IterationInv
      <4> QED  BY <2>2, <4>1, <4>2, OthersKeep
    <3> QED  BY <3>1, <3>2
  <2> QED  BY <2>3, <2>4, <2>5 DEF IterationInv
<1>2. CASE UNCHANGED iterationVars
  <2> USE <1>2 DEF iterationVars, engineVars, files, histories
  <2>1. IterationTypes' /\ Confined'
    BY DEF IterationInv, IterationTypes, Confined
  <2>2. ASSUME NEW e \in Engine PROVE Counted(e)' /\ OwnEdits(e)'
    <3>1. Counted(e) /\ OwnEdits(e)
      BY DEF IterationInv
    <3> QED  BY <3>1 DEF Counted, OwnEdits, Ready, KeptBy, Staged, CarriedBy, Current
  <2> QED  BY <2>1, <2>2 DEF IterationInv
<1> QED  BY <1>1, <1>2

\* The inductive invariant of the self-iteration engines: types, the edits still to
\* be counted, and for each engine that what it is about to write, has written, has
\* added and has committed contains what its run wants there.
THEOREM IterationInvariance == IterationSpec => []IterationInv
<1>1. IterationInit => IterationInv
  BY IterationInitially
<1>2. IterationInv /\ [IterationNext]_iterationVars => IterationInv'
  BY IterationInductive
<1> QED  BY <1>1, <1>2, PTL DEF IterationSpec

\* The engines, the workspace, the index and the head stay within their types, with
\* never more edits counted than a plan has (self_iteration.cpp:525-562).
THEOREM IterationTypeCorrect == IterationSpec => []IterationTypeOK
<1>1. IterationInv => IterationTypeOK
  <2> SUFFICES ASSUME IterationInv PROVE IterationTypeOK
    OBVIOUS
  <2>1. \A S \in SUBSET Edit : Seq(S) \subseteq Seq(Edit)
    OBVIOUS
  <2>2. plan \in [Engine -> Seq(Edit)]
    <3>1. Permitted \subseteq Edit
      BY DEF Permitted
    <3>2. Seq(Permitted) \subseteq Seq(Edit)
      BY <3>1
    <3> QED  BY <3>2 DEF IterationInv, IterationTypes
  <2>3. \A e \in Engine : pc[e] \in {"open", "write"} => plan[e] # <<>>
    BY DEF IterationInv, Counted
  <2> QED  BY <2>2, <2>3 DEF IterationInv, IterationTypes, Where, IterationTypeOK
<1> QED  BY <1>1, IterationInvariance, PTL

\* Whatever the rows, the answers and the other engines do, edits are confined to the
\* whitelist, and none of a run is lost on the way to its commit in files nobody else
\* has written and no write has failed in (self_iteration.cpp:32-40, 525-601).
THEOREM EditsStay == IterationSpec => []EditsKept
<1>1. IterationInv => EditsKept
  BY DEF IterationInv, OwnEdits, KeptBy, CarriedBy, EditsKept, Kept, Carried,
         At
<1> QED  BY <1>1, IterationInvariance, PTL

\* However many rows of however many conversations are read, each sample is a
\* question with the answer that follows it there (self_iteration.cpp:138-180).
THEOREM SamplesPaired == IterationSpec => []SamplesAreExchanges
<1>1. IterationInv => SamplesAreExchanges
  <2> SUFFICES ASSUME IterationInv, NEW e \in Engine, NEW p \in Range(Samples(read[e]))
               PROVE  LET s == read[e]
                          Between(i, j) == {k \in i + 1 .. j - 1 : s[k].convo = s[i].convo}
                      IN  /\ s[p[1]].role = "user" /\ s[p[2]].role = "assistant"
                          /\ s[p[1]].convo = s[p[2]].convo
                          /\ p[1] < p[2] /\ Between(p[1], p[2]) = {}
    BY DEF SamplesAreExchanges
  <2>1. read[e] \in Seq(Row)
    BY DEF IterationInv, IterationTypes
  <2>2. Exchange(read[e], p)
    BY <2>1, SamplesSound DEF Range
  <2> QED  BY <2>2 DEF Exchange
<1> QED  BY <1>1, IterationInvariance, PTL
===============================================================================
