------------------------------ MODULE AgentTurn -------------------------------
(* One agent_controller from the message to the reply: handle_message() on the *)
(* session's thread (input check, commands, plugin, queue), the worker of one  *)
(* conversation with its tool loop, and the tool tasks of a round, which run   *)
(* in parallel and share one MCP client (McpClient).  Plugins are switched by  *)
(* commands and by the management API meanwhile; one plugin stands for all.    *)
(* What a turn stores is in ChatHistory, its budget in DailyBudget, the        *)
(* lifetime of the controller in AgentRegistry.                                *)
EXTENDS McpClient

CONSTANTS MaxMessage,     \* bound: messages received
          MaxBatch,       \* bound: calls the model asks for at once
          MaxSwitch,      \* bound: switches of the plugin
          SafetyLimit     \* k_safety_limit

ASSUME TurnAssumption ==
    {MaxMessage, MaxBatch, MaxSwitch, SafetyLimit} \subseteq Nat /\ SafetyLimit > 0

Tool == {"mcp", "plugin"}

VARIABLES
    io,         \* the session's thread: "idle", "usage", "dispatch", "plugin",
                \* or "hung" in a request that does not end
    received,   \* messages so far
    mode,       \* mode_
    queue,      \* messages enqueued for the worker
    worker,     \* "idle", "ask", "gather", or "hung"
    round,      \* model calls of this turn
    batch,      \* the calls of this round
    tool,       \* the tool of each call made
    off,        \* the plugin is in disabled_cache_
    row,        \* agent_plugins: the row says enabled, or there is none
    plugged,    \* the plugin's tools are registered with the controller
    switched,   \* history: the switch last acknowledged
    meant,      \* history: the plugin has been off since the message arrived
    switches    \* switches so far

ioVars == <<io, received, mode>>
workerVars == <<round, batch, tool>>
pluginVars == <<off, row, plugged, switched, switches>>
vars == <<mcpVars, ioVars, queue, worker, workerVars, pluginVars, meant>>

\* The constructor asks whether the plugin is enabled, which caches a refusal.
Init ==
    /\ InitMcp
    /\ io = "idle"
    /\ received = 0
    /\ mode \in {"agent", "plugin"}
    /\ queue = 0
    /\ worker = "idle"
    /\ round = 0
    /\ batch = {}
    /\ tool = [c \in Call |-> "mcp"]
    /\ row \in {"on", "off"}
    /\ off = (row = "off")
    /\ plugged = (row = "on")
    /\ switched = row
    /\ meant = FALSE
    /\ switches = 0

Built == stage \in {"ready", "failed"}
-------------------------------------------------------------------------------
(* plugin_manager over plugin_config_sqlite.                                   *)

\* The write to the database may fail, which nobody looks at.
Stored(s) == row' = s \/ row' = row

\* Mutant of Cached: the cache is filled by lookups only.
CachedByLookup(s) == IF s = "on" THEN FALSE ELSE off

Cached(s) == s = "off"

Switch(s) ==
    /\ off' = Cached(s)
    /\ Stored(s)
    /\ switched' = s
    /\ meant' = (meant /\ s = "off")
    /\ switches < MaxSwitch
    /\ switches' = switches + 1

\* is_plugin_enabled(): a disabled row is cached.
Enabled == ~ off /\ row = "on"
LookedUp == off' = ~ Enabled

ApiSwitch ==
    /\ Built
    /\ \E s \in {"on", "off"} : Switch(s)
    /\ UNCHANGED <<mcpVars, ioVars, queue, worker, workerVars, plugged>>
-------------------------------------------------------------------------------
(* handle_message().                                                           *)

Arrives ==
    /\ Built
    /\ io = "idle"
    /\ received < MaxMessage
    /\ received' = received + 1

\* The input check refuses it, or it is a command that its sender may not give.
Ignored ==
    /\ Arrives
    /\ UNCHANGED <<mcpVars, io, mode, queue, worker, workerVars, pluginVars, meant>>

\* A command on agents never finds the registry, which handle_message() does not
\* pass: it gets a reply and no more.
CommandAgents == Ignored

\* Without a registry no agent is seen running: the file of the conversations is
\* removed under the database that has it open, which goes on without it.
CommandDelete == Ignored

\* "plugin list" looks every plugin up.
CommandPlugins ==
    /\ Arrives
    /\ LookedUp
    /\ UNCHANGED <<mcpVars, io, mode, queue, worker, workerVars, row, plugged,
                   switched, switches, meant>>

\* The provider is asked on the session's thread.
CommandUsage ==
    /\ Arrives
    /\ io' = "usage"
    /\ UNCHANGED <<mcpVars, mode, queue, worker, workerVars, pluginVars, meant>>

\* web_api_get() answers, throws, or waits for ever.
UsageEnds ==
    /\ io = "usage"
    /\ io' \in {"idle", "hung"}
    /\ UNCHANGED <<mcpVars, received, mode, queue, worker, workerVars, pluginVars,
                   meant>>

CommandMode ==
    /\ Arrives
    /\ mode' \in {"agent", "plugin"}
    /\ UNCHANGED <<mcpVars, io, queue, worker, workerVars, pluginVars, meant>>

CommandSwitch ==
    /\ Arrives
    /\ \E s \in {"on", "off"} : Switch(s)
    /\ UNCHANGED <<mcpVars, io, mode, queue, worker, workerVars, plugged>>

Receive ==
    /\ Arrives
    /\ io' = "dispatch"
    /\ meant' = (switched = "off")
    /\ UNCHANGED <<mcpVars, mode, queue, worker, workerVars, pluginVars>>

\* Nothing else changes mode_, which is read under state_mutex_.
Enqueue ==
    /\ io' = "idle"
    /\ queue' = IF mode = "agent" THEN queue + 1 ELSE queue
    /\ meant' = FALSE

\* The plugin does not want the message, or is disabled for this user.
NotForPlugin ==
    /\ io = "dispatch"
    /\ Enqueue
    /\ UNCHANGED <<mcpVars, received, mode, worker, workerVars, pluginVars>>

\* The cache and the database are asked under config_mutex_, and the answer is
\* used without it.
Dispatch ==
    /\ io = "dispatch"
    /\ LookedUp
    /\ IF Enabled THEN io' = "plugin" /\ UNCHANGED <<queue, meant>> ELSE Enqueue
    /\ UNCHANGED <<mcpVars, received, mode, worker, workerVars, row, plugged,
                   switched, switches>>

\* It has handled the message, or not; one that throws has not.
PluginHandles ==
    /\ io = "plugin"
    /\ \/ io' = "idle" /\ meant' = FALSE /\ UNCHANGED queue
       \/ Enqueue
    /\ UNCHANGED <<mcpVars, received, mode, worker, workerVars, pluginVars>>
-------------------------------------------------------------------------------
(* process_agent_message() and tool_loop().                                    *)

Take ==
    /\ worker = "idle"
    /\ queue > 0
    /\ queue' = queue - 1

\* No model, or the budget or the rate is used up: a reply and no more.
Refuse ==
    /\ Take
    /\ UNCHANGED <<mcpVars, ioVars, worker, workerVars, pluginVars, meant>>

Begin ==
    /\ Take
    /\ worker' = "ask"
    /\ UNCHANGED <<mcpVars, ioVars, workerVars, pluginVars, meant>>

\* The model answers.
Answered ==
    /\ worker = "ask"
    /\ worker' = "idle"
    /\ round' = 0
    /\ UNCHANGED <<mcpVars, ioVars, queue, batch, tool, pluginVars, meant>>

\* The request throws, which ends the turn; or it waits for ever: nothing bounds
\* the handshake, and a blocking read of Asio goes on when the socket times out.
RequestFails ==
    /\ worker = "ask"
    /\ worker' \in {"idle", "hung"}
    /\ round' = 0
    /\ UNCHANGED <<mcpVars, ioVars, queue, batch, tool, pluginVars, meant>>

Offered == plugged \/ Registered

Unmade == {c \in Call : at[c] = "none"}
NextCalls(n) == {c \in Unmade : Cardinality({b \in Unmade : b <= c}) <= n}

\* The model asks for calls, of tools it was offered or not; a task starts each.
AskTools ==
    /\ worker = "ask"
    /\ Offered
    /\ \E n \in 1 .. MaxBatch :
          /\ n <= Cardinality(Unmade)
          /\ batch' = NextCalls(n)
    /\ \E t \in [batch' -> Tool] :
          tool' = [c \in Call |-> IF c \in batch' THEN t[c] ELSE tool[c]]
    /\ at' = [c \in Caller |-> IF c \in batch' THEN "begun" ELSE at[c]]
    /\ round' = round + 1
    /\ worker' = "gather"
    /\ UNCHANGED <<stage, connected, nextId, holder, asked, out, world, killed,
                   ioVars, queue, pluginVars, meant>>

Return(c, r) ==
    /\ out' = [out EXCEPT ![c] = r]
    /\ Goto(c, "done")
    /\ UNCHANGED <<stage, connected, nextId, holder, asked, world, killed, ioVars,
                   queue, worker, workerVars, pluginVars, meant>>

\* tool_registry::execute() finds the plugin, whose tool may throw.
CallPlugin(c) ==
    /\ at[c] = "begun"
    /\ tool[c] = "plugin" /\ plugged
    /\ \E k \in {"text", "thrown"} : Return(c, [kind |-> k])

\* No provider has the tool, or the MCP client has been given up.
CallRefused(c) ==
    /\ at[c] = "begun"
    /\ \/ tool[c] = "plugin" /\ ~ plugged
       \/ tool[c] = "mcp" /\ ~ (Registered /\ connected)
    /\ Return(c, [kind |-> "error"])

\* connected_ is read before the mutex is asked for.
CallMcp(c) ==
    /\ at[c] = "begun"
    /\ tool[c] = "mcp"
    /\ Registered /\ connected
    /\ Goto(c, "wait")
    /\ UNCHANGED <<stage, connected, nextId, holder, asked, out, world, killed,
                   ioVars, queue, worker, workerVars, pluginVars, meant>>

Thrown == \E c \in batch : out[c].kind = "thrown"

\* Mutant of RoundsLeft: the limit is not looked at.
RoundsUnlimited == TRUE

RoundsLeft == round < SafetyLimit

\* Every future is waited for, by get() or by its destructor.
Gather ==
    /\ worker = "gather"
    /\ \A c \in batch : at[c] = "done"
    /\ worker' = IF RoundsLeft /\ ~ Thrown THEN "ask" ELSE "idle"
    /\ batch' = {}
    /\ tool' = [c \in Call |-> "mcp"]
    /\ round' = IF worker' = "ask" THEN round ELSE 0
    /\ out' = [c \in Call |-> Nothing]
    /\ UNCHANGED <<stage, connected, nextId, holder, at, asked, world, killed,
                   ioVars, queue, pluginVars, meant>>
-------------------------------------------------------------------------------
Env == UNCHANGED <<ioVars, queue, worker, workerVars, pluginVars, meant>>

Io == Ignored \/ CommandAgents \/ CommandDelete \/ CommandPlugins \/ CommandUsage
         \/ UsageEnds \/ CommandMode \/ CommandSwitch \/ Receive \/ NotForPlugin \/ Dispatch \/ PluginHandles

Worker == Refuse \/ Begin \/ Answered \/ RequestFails \/ AskTools \/ Gather

Task(c) == CallPlugin(c) \/ CallRefused(c) \/ CallMcp(c)

Step(c) == (Exchange(c) /\ Env) \/ (c \in Call /\ Task(c))

ServerStep == Server /\ Env

Next ==
    /\ ~ killed
    /\ \/ ServerStep
       \/ \E c \in Caller : Step(c)
       \/ ApiSwitch \/ Io \/ Worker

\* Threads run, and a model request ends or hangs for good.  The server owes nothing.
Fairness ==
    /\ WF_vars(~ killed /\ Worker)
    /\ \A c \in Caller : WF_vars(~ killed /\ Step(c))

Spec == Init /\ [][Next]_vars /\ Fairness
-------------------------------------------------------------------------------
TypeOK ==
    /\ TypeOKMcp
    /\ io \in {"idle", "usage", "dispatch", "plugin", "hung"}
    /\ received \in 0 .. MaxMessage
    /\ mode \in {"agent", "plugin"}
    /\ queue \in 0 .. MaxMessage
    /\ worker \in {"idle", "ask", "gather", "hung"}
    /\ round \in 0 .. SafetyLimit
    /\ batch \subseteq Call
    /\ tool \in [Call -> Tool]
    /\ off \in BOOLEAN /\ row \in {"on", "off"} /\ plugged \in BOOLEAN
    /\ switched \in {"on", "off"} /\ meant \in BOOLEAN
    /\ switches \in 0 .. MaxSwitch

\* A plugin that has been off, as far as everybody was told, since a message
\* arrived does not handle it, even if the switch could not be written to the
\* database (plugin_manager.h:54-90, 128-130).
SwitchedOffIsOff == io = "plugin" => ~ meant

PhaseOf ==
    [c \in Call |-> IF at[c] = "none" THEN "none"
                    ELSE IF at[c] \in {"begun", "wait"} THEN "asked"
                    ELSE IF at[c] \in {"write", "read"} THEN "served"
                    ELSE "ended"]

Abstract == INSTANCE SerialCalls WITH phase <- PhaseOf, result <- out

\* The client serves one call at a time, however many tasks share it, each call
\* ends once with its own answer or an error, and no round begins or ends before
\* all calls of the last one have (mcp_client.h:35-37, agent_controller.cpp:363-385).
ImplementsSerialCalls == Abstract!Spec

\* A caller is inside write(), which has no deadline, and holds io_mutex_.
Blocked ==
    \E c \in Caller : at[c] = "write" /\ server = "up" /\ Len(toServer) = PipeCap

\* A server that is silent, exits between two answers, or says what nobody asked
\* for does not keep a turn from ending, whoever queues for the mutex before it
\* (mcp_client.cpp:360-405, agent_controller.cpp:335-385).  One that lives and no
\* longer reads does: no deadline covers the write (mcp_client.cpp:279), so what is
\* claimed supposes that the pipe is not full for good.  A write to a server that is
\* gone ends the bot, and a request to the model may hang for good.
TurnEnds ==
    []<>(~ Blocked)
        => ((worker # "idle") ~> (worker \in {"idle", "hung"} \/ killed))
===============================================================================
