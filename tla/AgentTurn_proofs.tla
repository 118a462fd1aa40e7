--------------------------- MODULE AgentTurn_proofs ---------------------------
(* The safety properties of AgentTurn, for every number of messages and calls, *)
(* every size of the pipe and every MCP server.                                *)
EXTENDS AgentTurn, TLAPS

Request == [id : Nat, from : Caller]
Said ==
    [kind : {"result", "error"}, id : Nat, from : Caller] \cup [kind : {"note", "bad"}]
Out ==
    {Nothing} \cup [kind : {"result"}, from : Caller]
        \cup [kind : {"error", "text", "thrown"}]

McpTypes ==
    /\ stage \in {"initialize", "initialized", "list", "ready", "failed"}
    /\ connected \in BOOLEAN
    /\ nextId \in Nat \ {0}
    /\ holder \in Caller \cup {NoOne}
    /\ at \in [Caller -> {"none", "begun", "wait", "write", "read", "done"}]
    /\ asked \in [Caller -> Nat]
    /\ out \in [Call -> Out]
    /\ toServer \in Seq(Request)
    /\ toClient \in Seq(Said)
    /\ owed \subseteq Request
    /\ server \in {"up", "gone"}
    /\ noise \in 0 .. MaxNoise
    /\ killed \in BOOLEAN

TurnTypes ==
    /\ io \in {"idle", "usage", "dispatch", "plugin", "hung"}
    /\ received \in 0 .. MaxMessage
    /\ mode \in {"agent", "plugin"}
    /\ queue \in Nat
    /\ worker \in {"idle", "ask", "gather", "hung"}
    /\ round \in 0 .. SafetyLimit
    /\ batch \subseteq Call
    /\ tool \in [Call -> Tool]
    /\ off \in BOOLEAN
    /\ row \in {"on", "off"}
    /\ plugged \in BOOLEAN
    /\ switched \in {"on", "off"}
    /\ meant \in BOOLEAN
    /\ switches \in 0 .. MaxSwitch

TypeInv == McpTypes /\ TurnTypes

\* A message is counted before it is queued.
Counted == queue + (IF io = "idle" THEN 0 ELSE 1) <= received

\* The model is asked only while there are rounds left.
Rounds ==
    /\ worker = "idle" => round = 0
    /\ worker = "ask" => round < SafetyLimit

\* io_mutex_: who writes or reads holds it, and nobody else does.
Exclusive ==
    \A c \in Caller : at[c] \in {"write", "read"} <=> holder = c

\* A request or an answer on its way.
Elements(s) == {s[i] : i \in DOMAIN s}
InFlight ==
    Elements(toServer) \cup owed
        \cup {a \in Elements(toClient) : a.kind \in {"result", "error"}}

Capacity == Len(toServer) <= PipeCap

\* An id is given to one request: nothing in flight has the id of a request that
\* is still to be written, and what has the id of the one whose answer is read is
\* about that one.
Ids ==
    /\ \A c \in Caller : asked[c] < nextId
    /\ \A f \in InFlight : f.id < nextId
    /\ \A c \in Caller, f \in InFlight :
          /\ at[c] = "write" /\ f.id = asked[c] => asked[c] = 0
          /\ at[c] = "read" /\ f.id = asked[c] => f.from = c

\* A switch off is in the cache whether it was written or not, and the message
\* under dispatch is remembered as one that came after it.
Switches ==
    /\ switched = "off" => off
    /\ meant => switched = "off"

IInv ==
    /\ TypeInv /\ Counted /\ Rounds /\ Exclusive /\ Capacity /\ Ids
    /\ Switches /\ OwnAnswer /\ SwitchedOffIsOff
-------------------------------------------------------------------------------
LEMMA Constants ==
    /\ {MaxCall, PipeCap, MaxNoise, MaxMessage, MaxBatch, MaxSwitch} \subseteq Nat
    /\ SafetyLimit \in Nat \ {0} /\ PipeCap > 0
    /\ Builder \in Caller /\ Builder \notin Call /\ NoOne \notin Caller
    /\ Call \subseteq Caller /\ Call \subseteq Nat /\ 0 \in Nat
  BY McpAssumption, TurnAssumption DEF Call, Caller, Builder, NoOne

\* The actions of the model, so that each can be looked at by itself.
LEMMA Actions ==
    ASSUME Next
    PROVE  \/ (ServerRead \/ ServerAnswer \/ ServerSay \/ ServerExit) /\ Env
           \/ \E c \in Caller :
                 /\ \/ Lock(c) \/ Write(c) \/ WriteToNoReader(c)
                    \/ ReadMine(c) \/ ReadForeign(c) \/ ReadBad(c) \/ ReadEof(c)
                    \/ TimeOut(c)
                 /\ Env
           \/ \E c \in Call : CallPlugin(c) \/ CallRefused(c) \/ CallMcp(c)
           \/ ApiSwitch
           \/ Ignored \/ CommandMode \/ CommandSwitch \/ Receive
           \/ CommandPlugins \/ CommandUsage \/ UsageEnds
           \/ NotForPlugin \/ Dispatch \/ PluginHandles
           \/ Refuse \/ Begin \/ Answered \/ RequestFails \/ AskTools \/ Gather
  BY DEF Next, ServerStep, Server, Step, Exchange, Task, Io, Worker, CommandAgents,
         CommandDelete

\* The pipes: what is taken from them and put into them is of their type.
LEMMA Pipes ==
    ASSUME NEW S, NEW s \in Seq(S)
    PROVE  /\ s # <<>> => Head(s) \in S /\ Tail(s) \in Seq(S)
           /\ \A x \in S : Append(s, x) \in Seq(S)
           /\ <<>> \in Seq(S)
  OBVIOUS

LEMMA TurnTypesKept ==
    ASSUME TurnTypes, Env
    PROVE  TurnTypes'
  BY DEF TurnTypes, Env, ioVars, workerVars, pluginVars

LEMMA FailsTypes ==
    ASSUME McpTypes, NEW c \in Caller, Fails(c)
    PROVE  /\ stage' \in {"initialize", "initialized", "list", "ready", "failed"}
           /\ connected' \in BOOLEAN /\ holder' = NoOne
           /\ at' \in [Caller -> {"none", "begun", "wait", "write", "read", "done"}]
           /\ asked' \in [Caller -> Nat] /\ out' \in [Call -> Out]
           /\ nextId' = nextId /\ noise' = noise /\ killed' = killed
<1>1. c # Builder => c \in Call
  BY DEF Caller
<1>2. [kind |-> "error"] \in Out
  BY DEF Out
<1> QED  BY <1>1, <1>2, Constants DEF Fails, McpTypes, Goto

LEMMA TerminatedTypes ==
    ASSUME McpTypes, NEW c \in Caller, Terminated(c)
    PROVE  /\ toServer' \in Seq(Request) /\ owed' \subseteq Request
           /\ server' \in {"up", "gone"}
           /\ c = Builder => toClient' = <<>>
  BY Pipes DEF Terminated, Exited, McpTypes

LEMMA ServerTypes ==
    ASSUME McpTypes, ServerRead \/ ServerAnswer \/ ServerSay \/ ServerExit
    PROVE  McpTypes'
<1>1. /\ stage' = stage /\ connected' = connected /\ nextId' = nextId
      /\ holder' = holder /\ at' = at /\ asked' = asked /\ out' = out
      /\ killed' = killed
  BY DEF ServerRead, ServerAnswer, ServerSay, ServerExit
<1>2. CASE ServerRead
  <2>1. /\ toServer' \in Seq(Request) /\ owed' \subseteq Request
        /\ toClient' = toClient /\ server' = server /\ noise' = noise
    <3>1. Head(toServer) \in Request /\ Tail(toServer) \in Seq(Request)
      BY <1>2, Pipes DEF ServerRead, McpTypes
    <3> QED  BY <1>2, <3>1 DEF ServerRead, McpTypes
  <2> QED  BY <1>1, <2>1 DEF McpTypes
<1>3. CASE ServerAnswer
  <2>1. /\ toServer' = toServer /\ owed' \subseteq Request
        /\ toClient' \in Seq(Said) /\ server' = server /\ noise' = noise
    <3>1. PICK r \in owed, k \in {"result", "error"} :
             /\ owed' = owed \ {r}
             /\ toClient' = Append(toClient, [kind |-> k, id |-> r.id, from |-> r.from])
      BY <1>3 DEF ServerAnswer
    <3>2. r.id \in Nat /\ r.from \in Caller
      BY DEF McpTypes, Request
    <3>3. [kind |-> k, id |-> r.id, from |-> r.from] \in Said
      BY <3>2 DEF Said
    <3> QED  BY <1>3, <3>1, <3>3, Pipes DEF ServerAnswer, McpTypes
  <2> QED  BY <1>1, <2>1 DEF McpTypes
<1>4. CASE ServerSay
  <2>1. /\ toServer' = toServer /\ owed' = owed
        /\ toClient' \in Seq(Said) /\ server' = server /\ noise' \in 0 .. MaxNoise
    <3>1. \A k \in {"note", "bad"} : [kind |-> k] \in Said
      BY DEF Said
    <3> QED  BY <1>4, <3>1, Pipes, Constants DEF ServerSay, McpTypes
  <2> QED  BY <1>1, <2>1 DEF McpTypes
<1>5. CASE ServerExit
  <2>1. /\ toServer' \in Seq(Request) /\ owed' \subseteq Request
        /\ toClient' = toClient /\ server' \in {"up", "gone"} /\ noise' = noise
    BY <1>5, Pipes DEF ServerExit, Exited, McpTypes
  <2> QED  BY <1>1, <2>1 DEF McpTypes
<1> QED  BY <1>2, <1>3, <1>4, <1>5

LEMMA ExchangeTypes ==
    ASSUME McpTypes, NEW c \in Caller,
           \/ Lock(c) \/ Write(c) \/ WriteToNoReader(c)
           \/ ReadMine(c) \/ ReadForeign(c) \/ ReadBad(c) \/ ReadEof(c) \/ TimeOut(c)
    PROVE  McpTypes'
<1> USE Constants
<1> DEFINE Pc == {"none", "begun", "wait", "write", "read", "done"}
<1>a. c # Builder => c \in Call
  BY DEF Caller
<1>b. toClient # <<>> => Line \in Said /\ Tail(toClient) \in Seq(Said)
  <2>1. toClient \in Seq(Said)
    BY DEF McpTypes
  <2> QED  BY <2>1, Pipes DEF Line
<1>1. CASE Lock(c)
  <2>1. /\ holder' \in Caller \cup {NoOne} /\ asked' \in [Caller -> Nat]
        /\ nextId' \in Nat \ {0} /\ at' \in [Caller -> Pc]
    BY <1>1 DEF Lock, Goto, McpTypes
  <2>2. UNCHANGED <<stage, connected, out, world, killed>>
    BY <1>1 DEF Lock
  <2> QED  BY <2>1, <2>2 DEF McpTypes, world
<1>2. CASE Write(c)
  <2>1. [id |-> asked[c], from |-> c] \in Request
    BY DEF McpTypes, Request
  <2>2. toServer' \in Seq(Request)
    BY <1>2, <2>1, Pipes DEF Write, McpTypes
  <2>3. /\ stage' \in {"initialize", "initialized", "list", "ready", "failed"}
        /\ holder' \in Caller \cup {NoOne} /\ at' \in [Caller -> Pc]
    BY <1>2 DEF Write, Goto, McpTypes
  <2>4. UNCHANGED <<connected, nextId, asked, out, toClient, owed, server, noise, killed>>
    BY <1>2 DEF Write
  <2> QED  BY <2>2, <2>3, <2>4 DEF McpTypes
<1>3. CASE WriteToNoReader(c)
  BY <1>3 DEF WriteToNoReader, McpTypes, world
<1>4. CASE ReadMine(c)
  <2>1. Line \in Said /\ Line.kind = "result" /\ toClient' \in Seq(Said)
    BY <1>4, <1>b DEF ReadMine, Mine
  <2>2. Line.from \in Caller
    BY <2>1 DEF Said
  <2>3. [kind |-> "result", from |-> Line.from] \in Out
    BY <2>2 DEF Out
  <2>4. out' \in [Call -> Out]
    BY <1>4, <1>a, <2>3 DEF ReadMine, McpTypes
  <2>5. /\ stage' \in {"initialize", "initialized", "list", "ready", "failed"}
        /\ connected' \in BOOLEAN /\ at' \in [Caller -> Pc]
        /\ holder' \in Caller \cup {NoOne} /\ asked' \in [Caller -> Nat]
    BY <1>4 DEF ReadMine, Goto, McpTypes
  <2>6. UNCHANGED <<nextId, toServer, owed, server, noise, killed>>
    BY <1>4 DEF ReadMine
  <2> QED  BY <2>1, <2>4, <2>5, <2>6 DEF McpTypes
<1>5. CASE ReadForeign(c)
  <2>1. toClient' \in Seq(Said)
    BY <1>5, <1>b DEF ReadForeign
  <2> QED  BY <1>5, <2>1 DEF ReadForeign, McpTypes
<1>6. CASE Fails(c) /\ Terminated(c) /\ toClient' \in Seq(Said)
  BY <1>6, FailsTypes, TerminatedTypes
     DEF McpTypes
<1>7. <<>> \in Seq(Said)
  BY Pipes
<1>8. ASSUME ReadBad(c) \/ ReadEof(c) \/ TimeOut(c)
      PROVE  Fails(c) /\ Terminated(c) /\ toClient' \in Seq(Said)
  <2>1. CASE ReadBad(c)
    BY <2>1, <1>b, <1>7, TerminatedTypes DEF ReadBad
  <2>2. CASE ReadEof(c)
    BY <2>2 DEF ReadEof, McpTypes
  <2>3. CASE TimeOut(c)
    BY <2>3, <1>7, TerminatedTypes DEF TimeOut, McpTypes
  <2> QED  BY <1>8, <2>1, <2>2, <2>3
<1> QED  BY <1>1, <1>2, <1>3, <1>4, <1>5, <1>6, <1>8

LEMMA TaskTypes ==
    ASSUME TypeInv, NEW c \in Call, CallPlugin(c) \/ CallRefused(c) \/ CallMcp(c)
    PROVE  TypeInv'
<1> USE Constants
<1>1. ASSUME NEW r \in Out, Return(c, r)
      PROVE  TypeInv'
  <2>1. McpTypes'
    BY <1>1 DEF Return, Goto, TypeInv, McpTypes, world
  <2>2. TurnTypes'
    BY <1>1 DEF Return, TypeInv, TurnTypes, ioVars, workerVars, pluginVars
  <2> QED  BY <2>1, <2>2 DEF TypeInv
<1>2. \A k \in {"error", "text", "thrown"} : [kind |-> k] \in Out
  BY DEF Out
<1>3. CASE CallPlugin(c) \/ CallRefused(c)
  BY <1>1, <1>2, <1>3 DEF CallPlugin, CallRefused
<1>4. CASE CallMcp(c)
  <2>1. McpTypes'
    BY <1>4 DEF CallMcp, Goto, TypeInv, McpTypes, world
  <2>2. TurnTypes'
    BY <1>4 DEF CallMcp, TypeInv, TurnTypes, ioVars, workerVars, pluginVars
  <2> QED  BY <2>1, <2>2 DEF TypeInv
<1> QED  BY <1>3, <1>4

LEMMA McpTypesKept ==
    ASSUME McpTypes, UNCHANGED mcpVars
    PROVE  McpTypes'
  BY DEF McpTypes, mcpVars, world

LEMMA IoTypes ==
    ASSUME TypeInv, Counted,
           \/ ApiSwitch \/ Ignored \/ CommandMode \/ CommandSwitch \/ Receive
           \/ CommandPlugins \/ CommandUsage \/ UsageEnds
           \/ NotForPlugin \/ Dispatch \/ PluginHandles
    PROVE  TypeInv' /\ Counted'
<1>1. McpTypes'
  <2>1. UNCHANGED mcpVars
    BY DEF ApiSwitch, Ignored, CommandMode, CommandSwitch, Receive, CommandPlugins,
           CommandUsage, UsageEnds, NotForPlugin, Dispatch, PluginHandles
  <2> QED  BY <2>1, McpTypesKept DEF TypeInv
<1>2. ASSUME NEW s \in {"on", "off"}, Switch(s)
      PROVE  /\ off' \in BOOLEAN /\ row' \in {"on", "off"} /\ switched' \in {"on", "off"}
             /\ meant' \in BOOLEAN /\ switches' \in 0 .. MaxSwitch
  BY <1>2, Constants DEF Switch, Cached, Stored, TypeInv, TurnTypes
<1>3. Arrives => received' \in 0 .. MaxMessage /\ received' = received + 1 /\ io = "idle"
  BY Constants DEF Arrives, TypeInv, TurnTypes
<1>4. Enqueue => io' = "idle" /\ queue' \in {queue, queue + 1} /\ meant' \in BOOLEAN
  BY DEF Enqueue
<1>5. TurnTypes'
  <2>1. CASE ApiSwitch \/ CommandSwitch
    BY <2>1, <1>2, <1>3 DEF ApiSwitch, CommandSwitch, TypeInv, TurnTypes, ioVars, workerVars
  <2>2. CASE Ignored \/ CommandMode \/ Receive
    BY <2>2, <1>3 DEF Ignored, CommandMode, Receive, TypeInv, TurnTypes, ioVars,
                      workerVars, pluginVars
  <2>3. CASE NotForPlugin \/ PluginHandles
    <3>1. /\ io' = "idle" /\ queue' \in {queue, queue + 1} /\ meant' \in BOOLEAN
          /\ UNCHANGED <<received, mode, worker, workerVars, pluginVars>>
      BY <2>3, <1>4 DEF NotForPlugin, PluginHandles
    <3> QED  BY <3>1 DEF TypeInv, TurnTypes, workerVars, pluginVars
  <2>4. CASE Dispatch
    <3>1. off' \in BOOLEAN
      BY <2>4 DEF Dispatch, LookedUp
    <3>2. /\ io' \in {"idle", "plugin"} /\ queue' \in {queue, queue + 1} /\ meant' \in BOOLEAN
      BY <2>4, <1>4 DEF Dispatch, TypeInv, TurnTypes
    <3>3. UNCHANGED <<received, mode, worker, workerVars, row, plugged, switched, switches>>
      BY <2>4 DEF Dispatch
    <3> QED  BY <3>1, <3>2, <3>3 DEF TypeInv, TurnTypes, workerVars
  <2>5. CASE CommandPlugins
    <3>1. off' \in BOOLEAN
      BY <2>5 DEF CommandPlugins, LookedUp
    <3>2. /\ received' \in 0 .. MaxMessage
          /\ UNCHANGED <<io, mode, queue, worker, workerVars, row, plugged, switched,
                         switches, meant>>
      BY <2>5, <1>3 DEF CommandPlugins
    <3> QED  BY <3>1, <3>2 DEF TypeInv, TurnTypes, workerVars
  <2>6. CASE CommandUsage \/ UsageEnds
    <3>1. /\ received' \in 0 .. MaxMessage
          /\ io' \in {"idle", "usage", "hung"}
          /\ UNCHANGED <<mode, queue, worker, workerVars, pluginVars, meant>>
      BY <2>6, <1>3 DEF CommandUsage, UsageEnds, TypeInv, TurnTypes
    <3> QED  BY <3>1 DEF TypeInv, TurnTypes, workerVars, pluginVars
  <2> QED  BY <2>1, <2>2, <2>3, <2>4, <2>5, <2>6
<1>6. Counted'
  <2>1. queue \in Nat /\ received \in Nat
    BY Constants DEF TypeInv, TurnTypes
  <2>2. CASE ApiSwitch
    BY <2>2 DEF ApiSwitch, Counted, ioVars
  <2>3. CASE Ignored \/ CommandMode \/ CommandSwitch \/ Receive
    BY <2>1, <2>3, <1>3 DEF Ignored, CommandMode, CommandSwitch, Receive, Counted
  <2>4. CASE NotForPlugin \/ Dispatch \/ PluginHandles
    BY <2>1, <2>4, <1>4 DEF NotForPlugin, Dispatch, PluginHandles, Counted
  <2>5. CASE CommandPlugins \/ CommandUsage \/ UsageEnds
    BY <2>1, <2>5, <1>3 DEF CommandPlugins, CommandUsage, UsageEnds, Counted
  <2> QED  BY <2>2, <2>3, <2>4, <2>5
<1> QED  BY <1>1, <1>5, <1>6 DEF TypeInv

\* Rounds is kept as well: the model is asked again only below the limit.
LEMMA WorkerTypes ==
    ASSUME TypeInv, Counted, Rounds, Refuse \/ Begin \/ Answered \/ RequestFails \/ AskTools \/ Gather
    PROVE  TypeInv' /\ Counted' /\ Rounds'
<1> USE Constants
<1>1. CASE Refuse \/ Begin
  <2>1. McpTypes'
    BY <1>1, McpTypesKept DEF Refuse, Begin, TypeInv
  <2>2. Take => queue' \in Nat /\ queue' < queue /\ worker = "idle"
    BY DEF Take, TypeInv, TurnTypes
  <2>3. TurnTypes'
    BY <1>1, <2>2 DEF Refuse, Begin, TypeInv, TurnTypes, ioVars, workerVars, pluginVars
  <2>4. Counted' /\ Rounds'
    <3>1. received \in Nat /\ queue \in Nat
      BY DEF TypeInv, TurnTypes
    <3> QED  BY <1>1, <2>2, <3>1 DEF Refuse, Begin, Counted, Rounds, ioVars, workerVars
  <2> QED  BY <2>1, <2>3, <2>4 DEF TypeInv
<1>2. CASE Answered \/ RequestFails
  <2>1. McpTypes'
    BY <1>2, McpTypesKept DEF Answered, RequestFails, TypeInv
  <2>2. /\ worker' \in {"idle", "hung"} /\ round' = 0
        /\ UNCHANGED <<io, received, mode, queue, batch, tool, pluginVars, meant>>
    BY <1>2 DEF Answered, RequestFails, ioVars
  <2>3. TurnTypes'
    BY <2>2 DEF TypeInv, TurnTypes, pluginVars
  <2>4. Counted' /\ Rounds'
    BY <2>2 DEF Counted, Rounds
  <2> QED  BY <2>1, <2>3, <2>4 DEF TypeInv
<1>3. CASE AskTools
  <2>1. batch' \subseteq Call
    BY <1>3 DEF AskTools, NextCalls, Unmade
  <2>2. tool' \in [Call -> Tool]
    BY <1>3, <2>1 DEF AskTools, TypeInv, TurnTypes
  <2>3. round' \in 0 .. SafetyLimit
    BY <1>3 DEF AskTools, Rounds, TypeInv, TurnTypes
  <2>4. McpTypes'
    BY <1>3 DEF AskTools, TypeInv, McpTypes, world
  <2>5. TurnTypes'
    BY <1>3, <2>1, <2>2, <2>3 DEF AskTools, TypeInv, TurnTypes, ioVars, pluginVars
  <2>6. Counted' /\ Rounds'
    BY <1>3 DEF AskTools, Counted, Rounds, ioVars
  <2> QED  BY <2>4, <2>5, <2>6 DEF TypeInv
<1>4. CASE Gather
  <2>1. out' \in [Call -> Out]
    BY <1>4 DEF Gather, Out
  <2>2. McpTypes'
    BY <1>4, <2>1 DEF Gather, TypeInv, McpTypes, world
  <2>3. worker' \in {"idle", "ask"} /\ round' \in 0 .. SafetyLimit /\ Rounds'
    BY <1>4 DEF Gather, RoundsLeft, Rounds, TypeInv, TurnTypes
  <2>4. tool' \in [Call -> Tool]
    BY <1>4 DEF Gather, Tool
  <2>5. TurnTypes' /\ Counted'
    BY <1>4, <2>3, <2>4 DEF Gather, TypeInv, TurnTypes, Counted, ioVars, pluginVars
  <2> QED  BY <2>2, <2>3, <2>5 DEF TypeInv
<1> QED  BY <1>1, <1>2, <1>3, <1>4

LEMMA ElementsOf ==
    ASSUME NEW S, NEW s \in Seq(S)
    PROVE  /\ Elements(s) \subseteq S
           /\ s # <<>> => Head(s) \in Elements(s) /\ Elements(Tail(s)) \subseteq Elements(s)
           /\ \A x \in S : Elements(Append(s, x)) \subseteq Elements(s) \cup {x}
           /\ Elements(<<>>) = {}
<1>1. s # <<>> =>
        /\ 1 \in DOMAIN s /\ Head(s) = s[1]
        /\ \A i \in DOMAIN Tail(s) : i + 1 \in DOMAIN s /\ Tail(s)[i] = s[i + 1]
  OBVIOUS
<1>2. \A x \in S : \A i \in DOMAIN Append(s, x) :
         (i \in DOMAIN s /\ Append(s, x)[i] = s[i]) \/ Append(s, x)[i] = x
  OBVIOUS
<1>3. DOMAIN <<>> = {}
  OBVIOUS
<1> QED  BY <1>1, <1>2, <1>3 DEF Elements

LEMMA InFlightTypes ==
    ASSUME McpTypes, NEW f \in InFlight
    PROVE  f.id \in Nat /\ f.from \in Caller
<1>1. Elements(toServer) \subseteq Request /\ Elements(toClient) \subseteq Said
  BY ElementsOf DEF McpTypes
<1>2. f \in Request \/ (f \in Said /\ f.kind \in {"result", "error"})
  BY <1>1 DEF InFlight, McpTypes
<1>3. CASE f \in Request
  BY <1>3 DEF Request
<1>4. CASE f \in Said /\ f.kind \in {"result", "error"}
  BY <1>4 DEF Said
<1> QED  BY <1>2, <1>3, <1>4

\* What happens to the lines on their way in a step that adds no request.
Carried == \A f \in InFlight' : \E g \in InFlight : f.id = g.id /\ f.from = g.from

LEMMA CarriedKeepsIds ==
    ASSUME Ids, Carried, nextId' = nextId,
           \A c \in Caller :
              /\ at'[c] \in {"write", "read"} => at'[c] = at[c] /\ asked'[c] = asked[c]
              /\ asked'[c] < nextId
    PROVE  Ids'
  BY DEF Ids, Carried

LEMMA SameLines ==
    ASSUME UNCHANGED <<toServer, toClient, owed>>
    PROVE  Carried
  BY DEF Carried, InFlight, Elements

LEMMA FewerLines ==
    ASSUME \/ toServer' = toServer \/ toServer' = <<>>,
           \/ owed' = owed \/ owed' = {},
           \/ toClient' = toClient \/ toClient' = <<>>
           \/ toClient # <<>> /\ toClient' = Tail(toClient),
           McpTypes
    PROVE  Carried
<1>1. Elements(toServer') \subseteq Elements(toServer)
  BY ElementsOf DEF McpTypes
<1>2. Elements(toClient') \subseteq Elements(toClient)
  BY ElementsOf DEF McpTypes
<1>3. InFlight' \subseteq InFlight
  BY <1>1, <1>2 DEF InFlight, Elements
<1> QED  BY <1>3 DEF Carried

-------------------------------------------------------------------------------
\* A step of the server moves lines, and never changes what they are about.
LEMMA ServerKeepsIds ==
    ASSUME McpTypes, Ids, Capacity,
           ServerRead \/ ServerAnswer \/ ServerSay \/ ServerExit
    PROVE  Ids' /\ Capacity'
<1>1. UNCHANGED <<nextId, at, asked>>
  BY DEF ServerRead, ServerAnswer, ServerSay, ServerExit
<1>2. Carried
  <2>1. CASE ServerRead
    <3>1. /\ Head(toServer) \in Elements(toServer)
          /\ Elements(toServer') \subseteq Elements(toServer)
          /\ owed' \subseteq owed \cup {Head(toServer)}
      BY <2>1, ElementsOf DEF ServerRead, McpTypes
    <3>2. InFlight' \subseteq InFlight
      BY <2>1, <3>1 DEF ServerRead, InFlight, Elements
    <3> QED  BY <3>2 DEF Carried
  <2>2. CASE ServerAnswer
    <3>1. PICK r \in owed, k \in {"result", "error"} :
             /\ owed' = owed \ {r}
             /\ toClient' = Append(toClient, [kind |-> k, id |-> r.id, from |-> r.from])
      BY <2>2 DEF ServerAnswer
    <3> DEFINE answer == [kind |-> k, id |-> r.id, from |-> r.from]
    <3>2. answer \in Said
      BY DEF McpTypes, Request, Said
    <3>3. Elements(toClient') \subseteq Elements(toClient) \cup {answer}
      BY <3>1, <3>2, ElementsOf DEF McpTypes
    <3>4. \A f \in InFlight' : f \in InFlight \/ f = answer
      BY <2>2, <3>1, <3>3 DEF ServerAnswer, InFlight, Elements
    <3>5. r \in InFlight /\ answer.id = r.id /\ answer.from = r.from
      BY DEF InFlight
    <3> QED  BY <3>4, <3>5 DEF Carried
  <2>3. CASE ServerSay
    <3>1. PICK k \in {"note", "bad"} : toClient' = Append(toClient, [kind |-> k])
      BY <2>3 DEF ServerSay
    <3>2. [kind |-> k] \in Said
      BY DEF Said
    <3>3. Elements(toClient') \subseteq Elements(toClient) \cup {[kind |-> k]}
      BY <3>1, <3>2, ElementsOf DEF McpTypes
    <3>4. InFlight' \subseteq InFlight
      BY <2>3, <3>3 DEF ServerSay, InFlight, Elements
    <3> QED  BY <3>4 DEF Carried
  <2>4. CASE ServerExit
    BY <2>4, FewerLines DEF ServerExit, Exited
  <2> QED  BY <2>1, <2>2, <2>3, <2>4
<1>3. Ids'
  BY <1>1, <1>2, CarriedKeepsIds DEF Ids
<1>4. Capacity'
  <2>1. CASE ServerRead
    <3>0. toServer \in Seq(Request) /\ toServer # <<>>
      BY <2>1 DEF ServerRead, McpTypes
    <3>1. Len(Tail(toServer)) <= Len(toServer)
      BY <3>0
    <3>2. Len(toServer) \in Nat /\ Len(Tail(toServer)) \in Nat /\ PipeCap \in Nat
      BY <3>0, Constants
    <3> QED  BY <2>1, <3>1, <3>2 DEF ServerRead, Capacity
  <2>2. CASE ServerAnswer \/ ServerSay
    BY <2>2 DEF ServerAnswer, ServerSay, Capacity
  <2>3. CASE ServerExit
    BY <2>3, Constants DEF ServerExit, Exited, Capacity
  <2> QED  BY <2>1, <2>2, <2>3
<1> QED  BY <1>3, <1>4

LEMMA LockKeepsIds ==
    ASSUME McpTypes, Ids, Exclusive, NEW c \in Caller, Lock(c)
    PROVE  Ids' /\ Exclusive'
<1>1. \A d \in Caller : at[d] \notin {"write", "read"}
  BY Constants DEF Lock, Free, Exclusive
<1>2. \A d \in Caller : at'[d] = IF d = c THEN "write" ELSE at[d]
  BY DEF Lock, Goto, McpTypes
<1>3. Exclusive'
  BY <1>1, <1>2 DEF Lock, Free, Exclusive
<1>4. \A d \in Caller :
         asked'[d] = IF d # c THEN asked[d]
                     ELSE IF stage = "initialized" THEN 0 ELSE nextId
  BY DEF Lock, McpTypes
<1>5. /\ nextId \in Nat \ {0} /\ asked \in [Caller -> Nat]
      /\ nextId' = IF stage = "initialized" THEN nextId ELSE nextId + 1
  BY DEF Lock, McpTypes
<1>6. InFlight' = InFlight
  BY DEF Lock, world, InFlight, Elements
<1>7. \A f \in InFlight : f.id \in Nat /\ f.id < nextId
  BY InFlightTypes DEF Ids
<1>8. \A d \in Caller : asked'[d] < nextId'
  BY <1>4, <1>5 DEF Ids
<1>9. \A f \in InFlight' : f.id < nextId'
  BY <1>5, <1>6, <1>7
<1>10. \A d \in Caller, f \in InFlight' :
          /\ at'[d] = "write" /\ f.id = asked'[d] => asked'[d] = 0
          /\ at'[d] = "read" /\ f.id = asked'[d] => f.from = d
  BY <1>1, <1>2, <1>4, <1>6, <1>7
<1> QED  BY <1>3, <1>8, <1>9, <1>10 DEF Ids

LEMMA WriteKeepsIds ==
    ASSUME McpTypes, Ids, Capacity, Exclusive, NEW c \in Caller, Write(c)
    PROVE  Ids' /\ Capacity' /\ Exclusive'
<1> DEFINE request == [id |-> asked[c], from |-> c]
<1>1. \A d \in Caller : at[d] \in {"write", "read"} => d = c
  BY DEF Write, Exclusive
<1>2. \A d \in Caller :
         at'[d] = IF d # c THEN at[d] ELSE IF asked[c] = 0 THEN "wait" ELSE "read"
  BY DEF Write, Goto, McpTypes
<1>3. Exclusive'
  BY <1>1, <1>2, Constants DEF Write, Exclusive
<1>4. Elements(toServer') \subseteq Elements(toServer) \cup {request}
  <2>1. request \in Request
    BY DEF McpTypes, Request
  <2> QED  BY <2>1, ElementsOf DEF Write, McpTypes
<1>5. \A f \in InFlight' : f \in InFlight \/ f = request
  BY <1>4 DEF Write, InFlight, Elements
<1>6. Ids'
  <2>1. UNCHANGED <<asked, nextId>>
    BY DEF Write
  <2>2. request.id = asked[c] /\ request.from = c
    OBVIOUS
  <2>3. at[c] = "write"
    BY DEF Write
  <2>4. \A d \in Caller, f \in InFlight' :
           /\ at'[d] = "write" /\ f.id = asked'[d] => asked'[d] = 0
           /\ at'[d] = "read" /\ f.id = asked'[d] => f.from = d
    BY <1>1, <1>2, <1>5, <2>1, <2>2, <2>3 DEF Ids
  <2> QED  BY <1>5, <2>1, <2>2, <2>4 DEF Ids
<1>7. Capacity'
  <2>1. Len(toServer') = Len(toServer) + 1 /\ Len(toServer) \in Nat
    BY DEF Write, McpTypes
  <2> QED  BY <2>1, Constants DEF Write, Capacity
<1> QED  BY <1>3, <1>6, <1>7

\* A caller that reads a line of somebody else's, or gives up, leaves the ids.
LEMMA ReadKeepsIds ==
    ASSUME McpTypes, Ids, Capacity, Exclusive, NEW c \in Caller,
           \/ WriteToNoReader(c) \/ ReadMine(c) \/ ReadForeign(c) \/ ReadBad(c)
           \/ ReadEof(c) \/ TimeOut(c)
    PROVE  Ids' /\ Capacity' /\ Exclusive'
<1> USE Constants
<1>0. \A d \in Caller : at[d] \in {"write", "read"} => d = c
  BY DEF Exclusive, WriteToNoReader, ReadMine, ReadForeign, ReadBad, ReadEof, TimeOut
<1>1. CASE WriteToNoReader(c) \/ ReadForeign(c)
  <2>1. UNCHANGED <<nextId, holder, at, asked, toServer, owed>>
    BY <1>1 DEF WriteToNoReader, ReadForeign, world
  <2>2. toClient' = toClient \/ (toClient # <<>> /\ toClient' = Tail(toClient))
    BY <1>1 DEF WriteToNoReader, ReadForeign, world
  <2>3. Carried
    BY <2>1, <2>2, FewerLines
  <2>4. Ids'
    BY <2>1, <2>3, CarriedKeepsIds DEF Ids
  <2> QED  BY <2>1, <2>4 DEF Capacity, Exclusive
<1>2. ASSUME \/ toServer' = toServer \/ toServer' = <<>>,
             \/ owed' = owed \/ owed' = {},
             \/ toClient' = toClient \/ toClient' = <<>>
             \/ toClient # <<>> /\ toClient' = Tail(toClient),
             holder' = NoOne, nextId' = nextId,
             asked' = [asked EXCEPT ![c] = 0],
             Goto(c, "done") \/ Goto(c, "wait")
      PROVE  Ids' /\ Capacity' /\ Exclusive'
  <2>1. Carried
    BY <1>2, FewerLines
  <2>2. \A d \in Caller : at'[d] \in {"write", "read"} => d # c /\ at'[d] = at[d]
    BY <1>2 DEF Goto, McpTypes
  <2>3. \A d \in Caller : at'[d] \notin {"write", "read"}
    BY <2>2, <1>0
  <2>4. \A d \in Caller : asked'[d] < nextId
    BY <1>2 DEF Ids, McpTypes
  <2>5. Ids'
    BY <1>2, <2>1, <2>3, <2>4, CarriedKeepsIds
  <2>6. Exclusive'
    BY <1>2, <2>3 DEF Exclusive
  <2>7. Capacity'
    BY <1>2 DEF Capacity
  <2> QED  BY <2>5, <2>6, <2>7
<1>3. CASE ReadMine(c)
  <2>1. Goto(c, "done") \/ Goto(c, "wait")
    BY <1>3 DEF ReadMine
  <2> QED  BY <1>2, <1>3, <2>1 DEF ReadMine
<1>4. ASSUME Fails(c), Terminated(c),
             \/ toClient' = toClient \/ toClient' = <<>>
             \/ toClient # <<>> /\ toClient' = Tail(toClient)
      PROVE  Ids' /\ Capacity' /\ Exclusive'
  BY <1>2, <1>4 DEF Fails, Terminated, Exited
<1>5. CASE ReadBad(c) \/ ReadEof(c) \/ TimeOut(c)
  BY <1>4, <1>5 DEF ReadBad, ReadEof, TimeOut, Terminated
<1> QED  BY <1>1, <1>3, <1>5

\* The tasks and the worker start and end calls outside the exchange.
LEMMA OutsideKeepsIds ==
    ASSUME McpTypes, Ids, Capacity, Exclusive,
           UNCHANGED <<nextId, holder, asked, toServer, toClient, owed>>,
           \A c \in Caller : at'[c] = at[c] \/ {at[c], at'[c]} \cap {"write", "read"} = {}
    PROVE  Ids' /\ Capacity' /\ Exclusive'
<1>1. \A c \in Caller : at'[c] \in {"write", "read"} <=> at[c] \in {"write", "read"}
  OBVIOUS
<1>2. \A c \in Caller : at'[c] \in {"write", "read"} => at'[c] = at[c]
  OBVIOUS
<1>3. Ids'
  BY <1>2, SameLines, CarriedKeepsIds DEF Ids
<1> QED  BY <1>1, <1>3 DEF Capacity, Exclusive

\* What an action outside McpClient does to the callers.
LEMMA TasksAndTurns ==
    ASSUME TypeInv,
           \/ \E c \in Call : CallPlugin(c) \/ CallRefused(c) \/ CallMcp(c)
           \/ ApiSwitch \/ Ignored \/ CommandMode \/ CommandSwitch \/ Receive
           \/ CommandPlugins \/ CommandUsage \/ UsageEnds
           \/ NotForPlugin \/ Dispatch \/ PluginHandles
           \/ Refuse \/ Begin \/ Answered \/ RequestFails \/ AskTools \/ Gather
    PROVE  /\ UNCHANGED <<nextId, holder, asked, toServer, toClient, owed>>
           /\ \A c \in Caller :
                 at'[c] = at[c] \/ {at[c], at'[c]} \cap {"write", "read"} = {}
           /\ \A c \in Call : out'[c] = out[c] \/ out'[c].kind # "result"
<1> USE Constants
<1>1. ASSUME NEW c \in Call, CallPlugin(c) \/ CallRefused(c)
      PROVE  \E r : at[c] = "begun" /\ Return(c, r) /\ r.kind # "result"
  BY <1>1 DEF CallPlugin, CallRefused
<1>2. CASE \E c \in Call : CallPlugin(c) \/ CallRefused(c)
  <2>0. PICK c \in Call : \E r : at[c] = "begun" /\ Return(c, r) /\ r.kind # "result"
    BY <1>1, <1>2
  <2>1. PICK r : at[c] = "begun" /\ Return(c, r) /\ r.kind # "result"
    BY <2>0
  <2> QED  BY <2>1 DEF Return, Goto, TypeInv, McpTypes, world
<1>3. CASE \E c \in Call : CallMcp(c)
  BY <1>3 DEF CallMcp, Goto, TypeInv, McpTypes, world
<1>4. CASE UNCHANGED mcpVars
  BY <1>4 DEF mcpVars, world
<1>5. CASE AskTools
  <2>1. batch' \subseteq Unmade
    BY <1>5 DEF AskTools, NextCalls
  <2> QED  BY <1>5, <2>1 DEF AskTools, Unmade, TypeInv, McpTypes, world
<1>6. CASE Gather
  BY <1>6 DEF Gather, Nothing, TypeInv, McpTypes, world
<1> QED
  BY <1>2, <1>3, <1>4, <1>5, <1>6
     DEF ApiSwitch, Ignored, CommandMode, CommandSwitch, Receive, CommandPlugins,
         CommandUsage, UsageEnds, NotForPlugin, Dispatch, PluginHandles, Refuse, Begin,
         Answered, RequestFails

-------------------------------------------------------------------------------
\* A result is the answer whose id was asked for, and that is the caller's own.
LEMMA ExchangeKeepsAnswers ==
    ASSUME McpTypes, Ids, OwnAnswer, NEW c \in Caller,
           \/ Lock(c) \/ Write(c) \/ WriteToNoReader(c)
           \/ ReadMine(c) \/ ReadForeign(c) \/ ReadBad(c) \/ ReadEof(c) \/ TimeOut(c)
    PROVE  OwnAnswer'
<1>0. out \in [Call -> Out]
  BY DEF McpTypes
<1>1. CASE ReadMine(c)
  <2>1. Line \in InFlight /\ Line.id = asked[c] /\ at[c] = "read"
    BY <1>1, ElementsOf DEF ReadMine, Mine, Line, InFlight, McpTypes
  <2>2. Line.from = c
    BY <2>1 DEF Ids
  <2>3. \/ out' = out
        \/ c \in Call /\ out' = [out EXCEPT ![c] = [kind |-> "result", from |-> Line.from]]
    BY <1>1 DEF ReadMine, Caller
  <2>4. CASE c \in Call /\ out' = [out EXCEPT ![c] = [kind |-> "result", from |-> Line.from]]
    <3>1. \A d \in Call : d # c => out'[d] = out[d]
      BY <1>0, <2>4
    <3>2. out'[c].from = c
      BY <1>0, <2>2, <2>4
    <3> QED  BY <2>4, <3>1, <3>2 DEF OwnAnswer
  <2> QED  BY <2>3, <2>4 DEF OwnAnswer
<1>2. CASE Fails(c)
  <2>1. out' = out \/ (c \in Call /\ out' = [out EXCEPT ![c] = [kind |-> "error"]])
    BY <1>2 DEF Fails, Caller
  <2>2. CASE c \in Call /\ out' = [out EXCEPT ![c] = [kind |-> "error"]]
    <3>1. \A d \in Call : out'[d] = IF d = c THEN [kind |-> "error"] ELSE out[d]
      BY <1>0, <2>2
    <3> QED  BY <3>1 DEF OwnAnswer
  <2> QED  BY <2>1, <2>2 DEF OwnAnswer
<1>3. CASE UNCHANGED out
  BY <1>3 DEF OwnAnswer
<1> QED
  BY <1>1, <1>2, <1>3
     DEF Lock, Write, WriteToNoReader, ReadForeign, ReadBad, ReadEof, TimeOut

LEMMA OthersKeepAnswers ==
    ASSUME TypeInv, OwnAnswer,
           \A c \in Call : out'[c] = out[c] \/ out'[c].kind # "result"
    PROVE  OwnAnswer'
  BY DEF OwnAnswer

LEMMA IoKeepsSwitches ==
    ASSUME TypeInv, Switches, SwitchedOffIsOff,
           \/ ApiSwitch \/ Ignored \/ CommandMode \/ CommandSwitch \/ Receive
           \/ CommandPlugins \/ CommandUsage \/ UsageEnds
           \/ NotForPlugin \/ Dispatch \/ PluginHandles
    PROVE  Switches' /\ SwitchedOffIsOff'
<1>1. ASSUME NEW s \in {"on", "off"}, Switch(s)
      PROVE  /\ switched' = "off" => off'
             /\ meant' => meant /\ switched' = "off"
  BY <1>1 DEF Switch, Cached, TypeInv, TurnTypes
<1>2. CASE ApiSwitch
  <2>1. UNCHANGED io
    BY <1>2 DEF ApiSwitch, ioVars
  <2> QED  BY <1>1, <1>2, <2>1 DEF ApiSwitch, Switches, SwitchedOffIsOff
<1>3. CASE CommandSwitch
  BY <1>1, <1>3 DEF CommandSwitch, Switches, SwitchedOffIsOff
<1>4. CASE Ignored \/ CommandMode
  BY <1>4 DEF Ignored, CommandMode, Arrives, Switches, SwitchedOffIsOff, pluginVars
<1>5. CASE Receive
  <2>1. io' = "dispatch" /\ meant' = (switched = "off") /\ UNCHANGED <<off, switched>>
    BY <1>5 DEF Receive, pluginVars
  <2> QED  BY <2>1 DEF Switches, SwitchedOffIsOff
<1>6. CASE NotForPlugin \/ PluginHandles
  <2>1. io' = "idle" /\ meant' = FALSE /\ UNCHANGED <<off, switched>>
    BY <1>6 DEF NotForPlugin, PluginHandles, Enqueue, pluginVars
  <2> QED  BY <2>1 DEF Switches, SwitchedOffIsOff
<1>7. CASE Dispatch
  <2>1. off => off'
    BY <1>7 DEF Dispatch, LookedUp, Enabled
  <2>2. CASE Enabled
    <3>1. io' = "plugin" /\ UNCHANGED <<meant, switched>> /\ ~ off
      BY <1>7, <2>2 DEF Dispatch, Enabled
    <3> QED  BY <2>1, <3>1 DEF Switches, SwitchedOffIsOff
  <2>3. CASE ~ Enabled
    <3>1. io' = "idle" /\ meant' = FALSE /\ UNCHANGED switched
      BY <1>7, <2>3 DEF Dispatch, Enqueue
    <3> QED  BY <2>1, <3>1 DEF Switches, SwitchedOffIsOff
  <2> QED  BY <2>2, <2>3
<1>8. CASE CommandPlugins
  <2>1. (off => off') /\ UNCHANGED <<io, switched, meant>>
    BY <1>8 DEF CommandPlugins, LookedUp, Enabled
  <2> QED  BY <2>1 DEF Switches, SwitchedOffIsOff
<1>9. CASE CommandUsage \/ UsageEnds
  <2>1. io' # "plugin" /\ UNCHANGED <<off, switched, meant>>
    BY <1>9 DEF CommandUsage, UsageEnds, pluginVars
  <2> QED  BY <2>1 DEF Switches, SwitchedOffIsOff
<1> QED  BY <1>2, <1>3, <1>4, <1>5, <1>6, <1>7, <1>8, <1>9
-------------------------------------------------------------------------------
LEMMA Initially == Init => IInv
<1> SUFFICES ASSUME Init PROVE IInv
  OBVIOUS
<1> USE Constants
<1>1. McpTypes
  <2>1. <<>> \in Seq(Request) /\ <<>> \in Seq(Said)
    BY Pipes
  <2>2. /\ at \in [Caller -> {"none", "begun", "wait", "write", "read", "done"}]
        /\ asked \in [Caller -> Nat] /\ out \in [Call -> Out]
    BY DEF Init, InitMcp, Out
  <2>3. holder \in Caller \cup {NoOne} /\ noise \in 0 .. MaxNoise /\ nextId \in Nat \ {0}
    BY DEF Init, InitMcp
  <2>4. /\ stage \in {"initialize", "failed"} /\ server \in {"up", "gone"}
        /\ connected \in BOOLEAN /\ killed \in BOOLEAN
    BY DEF Init, InitMcp
  <2>5. toServer = <<>> /\ toClient = <<>> /\ owed = {}
    BY DEF Init, InitMcp
  <2> QED  BY <2>1, <2>2, <2>3, <2>4, <2>5 DEF McpTypes
<1>2. TurnTypes
  <2>1. off \in BOOLEAN /\ plugged \in BOOLEAN
    BY DEF Init
  <2>2. tool \in [Call -> Tool]
    BY DEF Init, Tool
  <2>3. /\ io = "idle" /\ received = 0 /\ mode \in {"agent", "plugin"} /\ queue = 0
        /\ worker = "idle" /\ round = 0 /\ batch = {} /\ row \in {"on", "off"}
        /\ switched = row /\ meant = FALSE /\ switches = 0
    BY DEF Init
  <2>4. 0 \in Nat /\ 0 \in 0 .. MaxMessage /\ 0 \in 0 .. SafetyLimit /\ 0 \in 0 .. MaxSwitch
    OBVIOUS
  <2> HIDE Constants
  <2> QED  BY <2>1, <2>2, <2>3, <2>4 DEF TurnTypes
<1>3. Counted /\ Rounds /\ Exclusive
  BY DEF Init, InitMcp, Counted, Rounds, Exclusive
<1>4. InFlight = {}
  BY ElementsOf DEF Init, InitMcp, InFlight, Elements
<1>5. Capacity /\ Ids
  BY <1>4 DEF Init, InitMcp, Capacity, Ids
<1>6. Switches /\ OwnAnswer /\ SwitchedOffIsOff
  BY DEF Init, InitMcp, Switches, OwnAnswer, SwitchedOffIsOff, Nothing
<1> QED  BY <1>1, <1>2, <1>3, <1>5, <1>6 DEF IInv, TypeInv

LEMMA Inductive == IInv /\ [Next]_vars => IInv'
<1> SUFFICES ASSUME IInv, [Next]_vars PROVE IInv'
  OBVIOUS
<1>0. /\ TypeInv /\ McpTypes /\ TurnTypes /\ Counted /\ Rounds /\ Exclusive /\ Capacity
      /\ Ids /\ Switches /\ OwnAnswer /\ SwitchedOffIsOff
  BY DEF IInv, TypeInv
<1>1. ASSUME Env
      PROVE  TurnTypes' /\ Counted' /\ Rounds' /\ Switches' /\ SwitchedOffIsOff'
  BY <1>0, <1>1, TurnTypesKept DEF Env, Counted, Rounds, Switches, SwitchedOffIsOff,
     ioVars, workerVars, pluginVars
<1>2. ASSUME Env, ServerRead \/ ServerAnswer \/ ServerSay \/ ServerExit
      PROVE  IInv'
  <2>1. UNCHANGED <<at, holder, out>>
    BY <1>2 DEF ServerRead, ServerAnswer, ServerSay, ServerExit
  <2>2. Exclusive' /\ OwnAnswer'
    BY <1>0, <2>1 DEF Exclusive, OwnAnswer
  <2>3. TypeInv'
    BY <1>0, <1>1, <1>2, ServerTypes DEF TypeInv
  <2>4. Ids' /\ Capacity'
    BY <1>0, <1>2, ServerKeepsIds
  <2> QED  BY <1>1, <1>2, <2>2, <2>3, <2>4 DEF IInv
<1>3. ASSUME Env, NEW c \in Caller,
             \/ Lock(c) \/ Write(c) \/ WriteToNoReader(c)
             \/ ReadMine(c) \/ ReadForeign(c) \/ ReadBad(c) \/ ReadEof(c) \/ TimeOut(c)
      PROVE  IInv'
  <2>1. McpTypes' /\ OwnAnswer'
    BY <1>0, <1>3, ExchangeTypes, ExchangeKeepsAnswers
  <2>2. Ids' /\ Capacity' /\ Exclusive'
    <3>1. CASE Lock(c)
      BY <1>0, <3>1, LockKeepsIds DEF Lock, world, Capacity
    <3>2. CASE Write(c)
      BY <1>0, <3>2, WriteKeepsIds
    <3>3. CASE ~ Lock(c) /\ ~ Write(c)
      BY <1>0, <1>3, <3>3, ReadKeepsIds
    <3> QED  BY <3>1, <3>2, <3>3
  <2> QED  BY <1>1, <1>3, <2>1, <2>2 DEF IInv, TypeInv
<1>4. ASSUME \/ \E c \in Call : CallPlugin(c) \/ CallRefused(c) \/ CallMcp(c)
             \/ ApiSwitch \/ Ignored \/ CommandMode \/ CommandSwitch \/ Receive
             \/ CommandPlugins \/ CommandUsage \/ UsageEnds
             \/ NotForPlugin \/ Dispatch \/ PluginHandles
             \/ Refuse \/ Begin \/ Answered \/ RequestFails \/ AskTools \/ Gather
      PROVE  IInv'
  <2>1. OwnAnswer' /\ Ids' /\ Capacity' /\ Exclusive'
    BY <1>0, <1>4, TasksAndTurns, OutsideKeepsIds, OthersKeepAnswers
  <2>2. CASE \E c \in Call : CallPlugin(c) \/ CallRefused(c) \/ CallMcp(c)
    <3>1. UNCHANGED <<ioVars, queue, worker, workerVars, pluginVars, meant>>
      BY <2>2 DEF CallPlugin, CallRefused, CallMcp, Return
    <3>2. Counted' /\ Rounds' /\ Switches' /\ SwitchedOffIsOff'
      BY <1>0, <3>1 DEF Counted, Rounds, Switches, SwitchedOffIsOff, ioVars, workerVars,
         pluginVars
    <3> QED  BY <1>0, <2>1, <2>2, <3>2, TaskTypes DEF IInv
  <2>3. CASE \/ ApiSwitch \/ Ignored \/ CommandMode \/ CommandSwitch \/ Receive
             \/ CommandPlugins \/ CommandUsage \/ UsageEnds
             \/ NotForPlugin \/ Dispatch \/ PluginHandles
    <3>1. UNCHANGED <<worker, workerVars>>
      BY <2>3 DEF ApiSwitch, Ignored, CommandMode, CommandSwitch, Receive,
         CommandPlugins, CommandUsage, UsageEnds, NotForPlugin, Dispatch, PluginHandles
    <3>2. Rounds'
      BY <1>0, <3>1 DEF Rounds, workerVars
    <3> QED  BY <1>0, <2>1, <2>3, <3>2, IoTypes, IoKeepsSwitches DEF IInv
  <2>4. CASE Refuse \/ Begin \/ Answered \/ RequestFails \/ AskTools \/ Gather
    <3>1. UNCHANGED <<io, off, switched, meant>>
      BY <2>4 DEF Refuse, Begin, Answered, RequestFails, AskTools, Gather, ioVars, pluginVars
    <3>2. Switches' /\ SwitchedOffIsOff'
      BY <1>0, <3>1 DEF Switches, SwitchedOffIsOff
    <3> QED  BY <1>0, <2>1, <2>4, <3>2, WorkerTypes DEF IInv
  <2> QED  BY <1>4, <2>2, <2>3, <2>4
<1>5. CASE UNCHANGED vars
  <2>1. McpTypes' /\ Env
    BY <1>0, <1>5, McpTypesKept DEF vars, Env
  <2>2. UNCHANGED <<asked, at, nextId, holder, out, toServer, toClient, owed>>
    BY <1>5 DEF vars, mcpVars, world
  <2>3. Ids' /\ Capacity' /\ Exclusive' /\ OwnAnswer'
    BY <1>0, <2>2, OutsideKeepsIds DEF OwnAnswer
  <2> QED  BY <1>1, <2>1, <2>3 DEF IInv, TypeInv
<1>6. CASE Next
  BY <1>2, <1>3, <1>4, <1>6, Actions
<1> QED  BY <1>5, <1>6

\* Each property follows from the invariant, the types among them.
LEMMA Consequences == IInv => TypeOK /\ OwnAnswer /\ SwitchedOffIsOff
<1> SUFFICES ASSUME IInv PROVE TypeOK
  BY DEF IInv
<1> USE Constants
<1>1. McpTypes /\ TurnTypes /\ Counted /\ Exclusive /\ Capacity /\ Ids
  BY DEF IInv, TypeInv
<1>2. holder # NoOne <=> \E c \in Caller : at[c] \in {"write", "read"}
  BY <1>1 DEF Exclusive, McpTypes
<1>3. TypeOKMcp
  BY <1>1, <1>2 DEF TypeOKMcp, McpTypes, Capacity, Ids
<1>4. queue \in 0 .. MaxMessage
  BY <1>1 DEF TurnTypes, Counted
<1> QED  BY <1>1, <1>3, <1>4 DEF TypeOK, TurnTypes

\* The invariant holds in every reachable state.
THEOREM Invariance == Spec => []IInv
  BY Initially, Inductive, PTL DEF Spec

\* The types of the turn and of the MCP client, with the mutex held by exactly
\* the caller that writes or reads (mcp_client.cpp:334).
THEOREM TypeCorrect == Spec => []TypeOK
  BY Invariance, Consequences, PTL

\* However many calls share the client, each gets its own answer or none
\* (mcp_client.cpp:337-345, 394-404).
THEOREM AnswersAreOwn == Spec => []OwnAnswer
  BY Invariance, Consequences, PTL

\* However the switches and the messages interleave, a plugin that is off handles
\* nothing that arrives later (plugin_manager.h:54-90, 128-130).
THEOREM SwitchesObeyed == Spec => []SwitchedOffIsOff
  BY Invariance, Consequences, PTL
-------------------------------------------------------------------------------
(* AgentTurn implements SerialCalls.                                           *)

\* The client is used for calls when its handshake is over, and their requests have
\* an id; the constructor's own exchanges come before.
Handshake ==
    /\ at[Builder] # "done" => stage \notin {"ready", "failed"}
    /\ \A c \in Call : at[c] \in {"wait", "write", "read"} => stage = "ready"
    /\ \A c \in Call : at[c] \in {"write", "read"} => asked[c] # 0

\* Calls are made, and have results, in the round that gathers them only.
RoundsApart ==
    /\ worker # "gather" => batch = {}
    /\ \A c \in Call \ batch : at[c] \in {"none", "done"} /\ out[c] = Nothing

LEMMA HandshakeKept ==
    ASSUME TypeInv, Handshake, RoundsApart, Next
    PROVE  Handshake' /\ RoundsApart'
<1> USE Constants
<1>t. /\ at \in [Caller -> {"none", "begun", "wait", "write", "read", "done"}]
      /\ asked \in [Caller -> Nat] /\ nextId \in Nat \ {0} /\ out \in [Call -> Out]
  BY DEF TypeInv, McpTypes
<1>u. Caller = Call \cup {Builder}
  BY DEF Caller
<1>1. CASE (ServerRead \/ ServerAnswer \/ ServerSay \/ ServerExit) /\ Env
  <2>1. UNCHANGED <<at, stage, asked, out, worker, batch>>
    BY <1>1 DEF ServerRead, ServerAnswer, ServerSay, ServerExit, Env, workerVars
  <2> QED  BY <2>1 DEF Handshake, RoundsApart
<1>2. ASSUME NEW c \in Caller, Env,
             \/ Lock(c) \/ Write(c) \/ WriteToNoReader(c)
             \/ ReadMine(c) \/ ReadForeign(c) \/ ReadBad(c) \/ ReadEof(c) \/ TimeOut(c)
      PROVE  Handshake' /\ RoundsApart'
  <2>1. worker' = worker /\ batch' = batch
    BY <1>2 DEF Env, workerVars
  <2>2. \A d \in Caller \ {c} : at'[d] = at[d] /\ asked'[d] = asked[d]
    BY <1>2, <1>t DEF Lock, Write, WriteToNoReader, ReadMine, ReadForeign, ReadBad, ReadEof,
       TimeOut, Fails, Goto
  <2>3. \A d \in Call \ {c} : out'[d] = out[d]
    BY <1>2, <1>t DEF Lock, Write, WriteToNoReader, ReadMine, ReadForeign, ReadBad, ReadEof,
       TimeOut, Fails
  <2>4. at[c] \in {"wait", "write", "read"}
    BY <1>2 DEF Lock, Write, WriteToNoReader, ReadMine, ReadForeign, ReadBad, ReadEof,
       TimeOut
  <2>5. RoundsApart'
    <3>1. c \notin Call \ batch
      BY <2>4 DEF RoundsApart
    <3> QED  BY <2>1, <2>2, <2>3, <3>1 DEF RoundsApart
  <2>6. CASE c = Builder
    <3>1. \A d \in Call : at[d] \notin {"wait", "write", "read"}
      BY <2>4, <2>6 DEF Handshake
    <3>2. \A d \in Call : at'[d] \notin {"wait", "write", "read"}
      BY <2>2, <2>6, <3>1
    <3>3. at'[Builder] # "done" => stage' \notin {"ready", "failed"}
      <4>1. CASE Fails(Builder)
        BY <4>1, <1>t DEF Fails, Goto
      <4>2. CASE ReadMine(Builder)
        BY <4>2, <1>t DEF ReadMine, Goto
      <4>3. CASE UNCHANGED stage
        BY <2>4, <2>6, <4>3 DEF Handshake
      <4>4. CASE Write(Builder)
        BY <4>4, <4>3 DEF Write
      <4> QED  BY <1>2, <2>6, <4>1, <4>2, <4>3, <4>4 DEF Lock, WriteToNoReader,
                  ReadForeign, ReadBad, ReadEof, TimeOut
    <3> QED  BY <2>5, <3>2, <3>3 DEF Handshake
  <2>7. CASE c \in Call
    <3>1. stage = "ready"
      BY <2>4, <2>7 DEF Handshake
    <3>2. at[c] \in {"write", "read"} => asked[c] # 0
      BY <2>7 DEF Handshake
    <3>3. stage' = stage
      BY <1>2, <2>7, <3>2 DEF Lock, Write, WriteToNoReader, ReadMine, ReadForeign,
         ReadBad, ReadEof, TimeOut, Fails
    <3>4. at'[c] \in {"write", "read"} => asked'[c] # 0
      BY <1>2, <1>t, <3>1, <3>2 DEF Lock, Write, WriteToNoReader, ReadMine, ReadForeign,
         ReadBad, ReadEof, TimeOut, Fails, Goto
    <3>5. at'[Builder] = at[Builder] /\ at[Builder] = "done"
      BY <2>2, <2>7, <3>1 DEF Handshake
    <3> QED  BY <2>2, <2>5, <3>1, <3>3, <3>4, <3>5 DEF Handshake
  <2> QED  BY <1>u, <2>6, <2>7
<1>3. ASSUME NEW c \in Call, CallPlugin(c) \/ CallRefused(c) \/ CallMcp(c)
      PROVE  Handshake' /\ RoundsApart'
  <2>1. /\ UNCHANGED <<stage, asked, worker, batch>> /\ at[c] = "begun"
        /\ \A d \in Caller \ {c} : at'[d] = at[d]
        /\ \A d \in Call \ {c} : out'[d] = out[d]
        /\ at'[c] = "done" \/ (at'[c] = "wait" /\ stage = "ready")
    BY <1>3, <1>t DEF CallPlugin, CallRefused, CallMcp, Return, Goto, Registered, workerVars
  <2>2. c \in batch
    BY <2>1 DEF RoundsApart
  <2>3. c # Builder
    OBVIOUS
  <2> QED  BY <2>1, <2>2, <2>3 DEF Handshake, RoundsApart
<1>4. CASE AskTools
  <2>1. batch' \subseteq Call /\ \A c \in batch' : at[c] = "none"
    BY <1>4 DEF AskTools, NextCalls, Unmade
  <2>2. /\ UNCHANGED <<stage, asked, out>> /\ worker' = "gather" /\ batch = {}
        /\ \A c \in Caller : at'[c] = IF c \in batch' THEN "begun" ELSE at[c]
    BY <1>4 DEF AskTools, RoundsApart
  <2>3. Builder \notin batch'
    BY <2>1
  <2> QED  BY <2>1, <2>2, <2>3 DEF Handshake, RoundsApart
<1>5. CASE Gather
  <2>1. /\ UNCHANGED <<stage, asked, at>> /\ batch' = {} /\ out' = [c \in Call |-> Nothing]
        /\ \A c \in batch : at[c] = "done"
    BY <1>5 DEF Gather
  <2> QED  BY <2>1 DEF Handshake, RoundsApart
<1>6. CASE \/ ApiSwitch \/ Ignored \/ CommandMode \/ CommandSwitch \/ Receive
           \/ CommandPlugins \/ CommandUsage \/ UsageEnds
           \/ NotForPlugin \/ Dispatch \/ PluginHandles
           \/ Refuse \/ Begin \/ Answered \/ RequestFails
  <2>1. UNCHANGED <<mcpVars, batch>> /\ (worker' = "gather" <=> worker = "gather")
    BY <1>6 DEF ApiSwitch, Ignored, CommandMode, CommandSwitch, Receive, CommandPlugins,
       CommandUsage, UsageEnds, NotForPlugin, Dispatch, PluginHandles, Refuse, Begin, Take,
       Answered, RequestFails, workerVars
  <2> QED  BY <2>1 DEF Handshake, RoundsApart, mcpVars
<1> QED  BY <1>1, <1>2, <1>3, <1>4, <1>5, <1>6, Actions

\* One call goes from one phase to another.
LEMMA PhaseChange ==
    ASSUME McpTypes, NEW c \in Call,
           \A d \in Call \ {c} : at'[d] = at[d]
    PROVE  PhaseOf' = [PhaseOf EXCEPT ![c] = PhaseOf'[c]]
  BY DEF PhaseOf

LEMMA CallStep ==
    ASSUME IInv, IInv', Handshake, NEW c \in Call,
           \/ Lock(c) \/ Write(c) \/ WriteToNoReader(c)
           \/ ReadMine(c) \/ ReadForeign(c) \/ ReadBad(c) \/ ReadEof(c) \/ TimeOut(c)
    PROVE  [Abstract!Next]_(Abstract!vars)
<1> USE Constants
<1>0. McpTypes /\ Exclusive /\ OwnAnswer'
  BY DEF IInv, TypeInv
<1>t. /\ at \in [Caller -> {"none", "begun", "wait", "write", "read", "done"}]
      /\ out \in [Call -> Out] /\ c \in Caller
  BY <1>0 DEF McpTypes
<1>1. CASE Lock(c)
  <2>1. \A d \in Call : PhaseOf[d] # "served"
    BY <1>0, <1>1, <1>t DEF Lock, Free, Exclusive, PhaseOf
  <2>2. PhaseOf[c] = "asked" /\ PhaseOf'[c] = "served" /\ out' = out
    BY <1>1, <1>t DEF Lock, Goto, PhaseOf
  <2>3. PhaseOf' = [PhaseOf EXCEPT ![c] = "served"]
    BY <1>0, <1>1, <1>t, <2>2, PhaseChange DEF Lock, Goto
  <2>4. Abstract!Serve(c)
    BY <2>1, <2>2, <2>3 DEF Abstract!Serve
  <2> QED  BY <2>4 DEF Abstract!Next
<1>2. CASE Write(c) \/ WriteToNoReader(c) \/ ReadForeign(c)
  <2>1. asked[c] # 0 \/ ~ Write(c)
    BY DEF Handshake, Write
  <2>2. out' = out /\ \A d \in Call : at'[d] = at[d] \/ (d = c /\ at[d] = "write" /\ at'[d] = "read")
    BY <1>2, <1>t, <2>1 DEF Write, WriteToNoReader, ReadForeign, Goto
  <2>3. PhaseOf' = PhaseOf
    BY <2>2 DEF PhaseOf
  <2> QED  BY <2>2, <2>3 DEF Abstract!vars
<1>3. ASSUME NEW r \in {Abstract!Own(c), Abstract!Failure},
             at[c] = "read", at' = [at EXCEPT ![c] = "done"], out' = [out EXCEPT ![c] = r]
      PROVE  Abstract!Next
  <2>1. PhaseOf[c] = "served" /\ PhaseOf'[c] = "ended"
    BY <1>3, <1>t DEF PhaseOf
  <2>2. PhaseOf' = [PhaseOf EXCEPT ![c] = "ended"]
    BY <1>0, <1>3, <1>t, <2>1, PhaseChange
  <2>3. Abstract!Answer(c)
    BY <1>3, <2>1, <2>2 DEF Abstract!Answer, Abstract!End
  <2> QED  BY <2>3 DEF Abstract!Next
<1>4. CASE ReadMine(c)
  <2>1. /\ at[c] = "read" /\ at' = [at EXCEPT ![c] = "done"]
        /\ out' = [out EXCEPT ![c] = [kind |-> "result", from |-> Line.from]]
    BY <1>4 DEF ReadMine, Goto
  <2>2. out'[c].kind = "result" /\ out'[c].from = Line.from
    BY <1>t, <2>1
  <2>3. Line.from = c
    BY <1>0, <2>2 DEF OwnAnswer
  <2>4. [kind |-> "result", from |-> Line.from] = Abstract!Own(c)
    BY <2>3 DEF Abstract!Own
  <2> QED  BY <1>3, <2>1, <2>4
<1>5. CASE Fails(c) /\ at[c] = "read"
  <2>1. /\ at' = [at EXCEPT ![c] = "done"]
        /\ out' = [out EXCEPT ![c] = Abstract!Failure]
    BY <1>5 DEF Fails, Goto, Abstract!Failure
  <2> QED  BY <1>3, <1>5, <2>1
<1> QED  BY <1>1, <1>2, <1>4, <1>5 DEF ReadBad, ReadEof, TimeOut

\* A task that needs no exchange.
LEMMA TaskStep ==
    ASSUME IInv, NEW c \in Call, CallPlugin(c) \/ CallRefused(c) \/ CallMcp(c)
    PROVE  [Abstract!Next]_(Abstract!vars)
<1> USE Constants
<1>t. /\ at \in [Caller -> {"none", "begun", "wait", "write", "read", "done"}]
      /\ McpTypes /\ c \in Caller
  BY DEF IInv, TypeInv, McpTypes
<1>1. CASE CallMcp(c)
  <2>1. out' = out /\ \A d \in Call : at'[d] = at[d] \/ (at[d] = "begun" /\ at'[d] = "wait")
    BY <1>1, <1>t DEF CallMcp, Goto
  <2>2. PhaseOf' = PhaseOf
    BY <2>1 DEF PhaseOf
  <2> QED  BY <2>1, <2>2 DEF Abstract!vars
<1>2. CASE CallPlugin(c) \/ CallRefused(c)
  <2>1. PICK r \in Abstract!Elsewhere \cup {Abstract!Failure} : Return(c, r)
    BY <1>2 DEF CallPlugin, CallRefused, Abstract!Elsewhere, Abstract!Failure
  <2>2. at[c] = "begun" /\ at' = [at EXCEPT ![c] = "done"] /\ out' = [out EXCEPT ![c] = r]
    BY <1>2, <2>1 DEF CallPlugin, CallRefused, Return, Goto
  <2>3. PhaseOf[c] = "asked" /\ PhaseOf'[c] = "ended"
    BY <1>t, <2>2 DEF PhaseOf
  <2>4. PhaseOf' = [PhaseOf EXCEPT ![c] = "ended"]
    BY <1>t, <2>2, <2>3, PhaseChange
  <2>5. Abstract!Settle(c)
    BY <2>1, <2>2, <2>3, <2>4 DEF Abstract!Settle, Abstract!End
  <2> QED  BY <2>5 DEF Abstract!Next
<1> QED  BY <1>1, <1>2

\* Each step is one of the promised ones, or leaves the calls as they are.
LEMMA StepRefines ==
    ASSUME IInv, IInv', Handshake, RoundsApart, [Next]_vars
    PROVE  [Abstract!Next]_(Abstract!vars)
<1> USE Constants
<1>t. /\ at \in [Caller -> {"none", "begun", "wait", "write", "read", "done"}]
      /\ out \in [Call -> Out]
  BY DEF IInv, TypeInv, McpTypes
<1>0. ASSUME out' = out, \A d \in Call : at'[d] = at[d] PROVE UNCHANGED Abstract!vars
  BY <1>0 DEF PhaseOf, Abstract!vars
<1>1. CASE AskTools
  <2>1. /\ batch' \subseteq Call /\ out' = out /\ batch = {}
        /\ \A c \in batch' : at[c] = "none"
        /\ \A c \in Call : at'[c] = IF c \in batch' THEN "begun" ELSE at[c]
    BY <1>1 DEF AskTools, NextCalls, Unmade, RoundsApart
  <2>2. \A c \in Call : at[c] \in {"none", "done"} /\ out[c] = Nothing
    BY <2>1 DEF RoundsApart
  <2>3. PhaseOf' = [c \in Call |-> IF c \in batch' THEN "asked" ELSE PhaseOf[c]]
    BY <2>1 DEF PhaseOf
  <2>4. \A c \in Call : PhaseOf[c] \in {"none", "ended"} /\ (at[c] = "none" => PhaseOf[c] = "none")
    BY <2>2 DEF PhaseOf
  <2>5. batch' \in SUBSET {c \in Call : PhaseOf[c] = "none"}
    BY <2>1, <2>4
  <2>6. Abstract!Ask
    BY <2>1, <2>2, <2>3, <2>4, <2>5 DEF Abstract!Ask, Abstract!Settled, Abstract!NoResult, Nothing
  <2> QED  BY <2>6 DEF Abstract!Next
<1>2. CASE Gather
  <2>1. /\ at' = at /\ out' = [c \in Call |-> Nothing]
        /\ \A c \in batch : at[c] = "done"
    BY <1>2 DEF Gather
  <2>2. \A c \in Call : at[c] \in {"none", "done"}
    BY <2>1 DEF RoundsApart
  <2>3. PhaseOf' = PhaseOf /\ \A c \in Call : PhaseOf[c] \in {"none", "ended"}
    BY <2>1, <2>2 DEF PhaseOf
  <2>4. Abstract!Gather
    BY <2>1, <2>3 DEF Abstract!Gather, Abstract!Settled, Abstract!NoResult, Nothing
  <2> QED  BY <2>4 DEF Abstract!Next
<1>3. CASE (ServerRead \/ ServerAnswer \/ ServerSay \/ ServerExit) /\ Env
  BY <1>0, <1>3 DEF ServerRead, ServerAnswer, ServerSay, ServerExit
<1>4. ASSUME NEW c \in Caller, Env,
             \/ Lock(c) \/ Write(c) \/ WriteToNoReader(c)
             \/ ReadMine(c) \/ ReadForeign(c) \/ ReadBad(c) \/ ReadEof(c) \/ TimeOut(c)
      PROVE  [Abstract!Next]_(Abstract!vars)
  <2>1. CASE c \in Call
    BY <1>4, <2>1, CallStep
  <2>2. CASE c = Builder
    <3>1. out' = out /\ \A d \in Call : at'[d] = at[d]
      BY <1>4, <1>t, <2>2 DEF Lock, Write, WriteToNoReader, ReadMine, ReadForeign, ReadBad,
         ReadEof, TimeOut, Fails, Goto
    <3> QED  BY <1>0, <3>1
  <2> QED  BY <2>1, <2>2 DEF Caller
<1>5. ASSUME NEW c \in Call, CallPlugin(c) \/ CallRefused(c) \/ CallMcp(c)
      PROVE  [Abstract!Next]_(Abstract!vars)
  BY <1>5, TaskStep
<1>6. CASE \/ ApiSwitch \/ Ignored \/ CommandMode \/ CommandSwitch \/ Receive
           \/ CommandPlugins \/ CommandUsage \/ UsageEnds
           \/ NotForPlugin \/ Dispatch \/ PluginHandles
           \/ Refuse \/ Begin \/ Answered \/ RequestFails
  <2>1. UNCHANGED mcpVars
    BY <1>6 DEF ApiSwitch, Ignored, CommandMode, CommandSwitch, Receive, CommandPlugins,
       CommandUsage, UsageEnds, NotForPlugin, Dispatch, PluginHandles, Refuse, Begin, Answered,
       RequestFails
  <2> QED  BY <1>0, <2>1 DEF mcpVars
<1>7. CASE UNCHANGED vars
  BY <1>0, <1>7 DEF vars, mcpVars
<1> QED  BY <1>1, <1>2, <1>3, <1>4, <1>5, <1>6, <1>7, Actions

\* The tool calls of a turn are those SerialCalls promises: one served at a time,
\* each ended once with its own answer or without one, and no round before the last
\* one has ended (mcp_client.h:35-37, agent_controller.cpp:363-385).
THEOREM CallsSerial == Spec => ImplementsSerialCalls
<1>1. Init => Handshake /\ RoundsApart
  <2>1. Init => (at[Builder] # "done" => stage \notin {"ready", "failed"})
    BY Constants DEF Init, InitMcp
  <2>2. Init => batch = {} /\ \A c \in Call : at[c] = "none" /\ out[c] = Nothing
    BY Constants DEF Init, InitMcp
  <2> QED  BY <2>1, <2>2 DEF Handshake, RoundsApart
<1>2. Init => Abstract!Init
  BY Constants DEF Init, InitMcp, Abstract!Init, Abstract!NoResult, Nothing, PhaseOf
<1>3. IInv /\ Handshake /\ RoundsApart /\ [Next]_vars => (Handshake /\ RoundsApart)'
  <2> SUFFICES ASSUME IInv, Handshake, RoundsApart, [Next]_vars
               PROVE  Handshake' /\ RoundsApart'
    OBVIOUS
  <2>1. CASE Next
    <3>1. TypeInv
      BY DEF IInv
    <3> QED  BY <2>1, <3>1, HandshakeKept
  <2>2. CASE UNCHANGED vars
    BY <2>2 DEF vars, mcpVars, workerVars, Handshake, RoundsApart
  <2> QED  BY <2>1, <2>2
<1>4. IInv /\ IInv' /\ Handshake /\ RoundsApart /\ [Next]_vars
        => [Abstract!Next]_(Abstract!vars)
  BY StepRefines
<1> QED
  BY <1>1, <1>2, <1>3, <1>4, Invariance, PTL
     DEF Spec, ImplementsSerialCalls, Abstract!Spec
===============================================================================
