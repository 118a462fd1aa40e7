------------------------------ MODULE McpClient -------------------------------
(* One client::mcp_client: a subprocess that speaks JSON-RPC over a pair of    *)
(* pipes, shared by the tool tasks of all turns.  Each task writes a request   *)
(* and reads lines until its answer comes, its deadline passes or the server's *)
(* output ends; io_mutex_ admits one of them at a time.  The build modelled is *)
(* the POSIX one.  A module that composes it gives the tasks their work.       *)
EXTENDS Naturals, FiniteSets, Sequences

CONSTANTS MaxCall,    \* bound: tool calls of the whole run
          PipeCap,    \* requests the pipe to the server holds
          MaxNoise    \* bound: lines of the server that answer nothing

ASSUME McpAssumption == {MaxCall, PipeCap, MaxNoise} \subseteq Nat /\ PipeCap > 0

Call == 1 .. MaxCall
Builder == 0                    \* the thread that runs the constructor
Caller == Call \cup {Builder}
NoOne == MaxCall + 1
Nothing == [kind |-> "none"]

VARIABLES
    stage,      \* the constructor: "initialize", "initialized", "list",
                \* "ready", "failed"
    connected,  \* connected_
    nextId,     \* next_id_
    holder,     \* the caller that holds io_mutex_
    at,         \* where each caller is: "none", "begun", "wait", "write",
                \* "read", "done"
    asked,      \* the id of each caller's request
    out,        \* what each call returned
    toServer,   \* the pipe to the server: [id, from]
    toClient,   \* and back: [kind, id, from], [kind]
    owed,       \* requests the server has read and not answered
    server,     \* "up", "gone"
    noise,      \* lines so far that answer nothing
    killed      \* the bot died of SIGPIPE

world == <<toServer, toClient, owed, server, noise>>
mcpVars == <<stage, connected, nextId, holder, at, asked, out, world, killed>>

\* The pipes and the subprocess; without them the client is never connected.
InitMcp ==
    /\ stage \in {"initialize", "failed"}
    /\ connected = FALSE
    /\ nextId = 1
    /\ holder = NoOne
    /\ at = [c \in Caller |-> IF c # Builder THEN "none"
                             ELSE IF stage = "failed" THEN "done" ELSE "wait"]
    /\ asked = [c \in Caller |-> 0]
    /\ out = [c \in Call |-> Nothing]
    /\ toServer = <<>>
    /\ toClient = <<>>
    /\ owed = {}
    /\ server = IF stage = "failed" THEN "gone" ELSE "up"
    /\ noise = 0
    /\ killed = FALSE

Registered == stage = "ready"
-------------------------------------------------------------------------------
(* The subprocess, which may be any program.                                   *)

ServerRead ==
    /\ server = "up"
    /\ toServer # <<>>
    /\ owed' = IF Head(toServer).id = 0 THEN owed ELSE owed \cup {Head(toServer)}
    /\ toServer' = Tail(toServer)
    /\ UNCHANGED <<stage, connected, nextId, holder, at, asked, out, toClient,
                   server, noise, killed>>

\* In any order, and as late as it likes.
ServerAnswer ==
    /\ server = "up"
    /\ \E r \in owed, k \in {"result", "error"} :
          /\ owed' = owed \ {r}
          /\ toClient' = Append(toClient, [kind |-> k, id |-> r.id, from |-> r.from])
    /\ UNCHANGED <<stage, connected, nextId, holder, at, asked, out, toServer,
                   server, noise, killed>>

\* A notification or a log line, which the client skips; or a line it cannot
\* take: an empty one, or JSON that is no object.  Standard error is the same pipe.
ServerSay ==
    /\ server = "up"
    /\ noise < MaxNoise
    /\ noise' = noise + 1
    /\ \E k \in {"note", "bad"} : toClient' = Append(toClient, [kind |-> k])
    /\ UNCHANGED <<stage, connected, nextId, holder, at, asked, out, toServer,
                   owed, server, killed>>

Exited ==
    /\ server' = "gone"
    /\ toServer' = <<>>
    /\ owed' = {}

\* What it has written can still be read.
ServerExit ==
    /\ server = "up"
    /\ Exited
    /\ UNCHANGED <<stage, connected, nextId, holder, at, asked, out, toClient,
                   noise, killed>>

Server == ServerRead \/ ServerAnswer \/ ServerSay \/ ServerExit
-------------------------------------------------------------------------------
(* send_request(), for every caller.                                           *)

Goto(c, l) == at' = [at EXCEPT ![c] = l]

\* Mutant of Free: the mutex is not waited for.
FreeAlways == TRUE

Free == holder = NoOne

Lock(c) ==
    /\ at[c] = "wait"
    /\ Free
    /\ holder' = c
    /\ asked' = [asked EXCEPT ![c] = IF stage = "initialized" THEN 0 ELSE nextId]
    /\ nextId' = IF stage = "initialized" THEN nextId ELSE nextId + 1
    /\ Goto(c, "write")
    /\ UNCHANGED <<stage, connected, out, world, killed>>

\* The notification of the handshake has no id and no answer.
Write(c) ==
    /\ at[c] = "write"
    /\ server = "up"
    /\ Len(toServer) < PipeCap
    /\ toServer' = Append(toServer, [id |-> asked[c], from |-> c])
    /\ IF asked[c] = 0
       THEN stage' = "list" /\ holder' = NoOne /\ Goto(c, "wait")
       ELSE UNCHANGED <<stage, holder>> /\ Goto(c, "read")
    /\ UNCHANGED <<connected, nextId, asked, out, toClient, owed, server, noise,
                   killed>>

\* Nothing ignores SIGPIPE: writing to a server that is gone ends the process
\* before write() can return the error that execute_tool() would report.
WriteToNoReader(c) ==
    /\ at[c] = "write"
    /\ server = "gone"
    /\ killed' = TRUE
    /\ UNCHANGED <<stage, connected, nextId, holder, at, asked, out, world>>

Line == Head(toClient)

\* Mutant of Mine: the id of the answer is not looked at.
MineUnchecked(c) == Line.kind = "result"

Mine(c) == Line.kind = "result" /\ Line.id = asked[c]

\* An error is taken for the caller's own whatever its id.
Bad == Line.kind \in {"error", "bad"}

\* The exception reaches execute_tool(), which gives the connection up for good,
\* or the handshake, which ends the server; the mutex is released.
Fails(c) ==
    /\ holder' = NoOne
    /\ Goto(c, "done")
    /\ connected' = FALSE
    /\ IF c = Builder THEN stage' = "failed" /\ UNCHANGED out
       ELSE /\ out' = [out EXCEPT ![c] = [kind |-> "error"]]
            /\ UNCHANGED stage
    /\ asked' = [asked EXCEPT ![c] = 0]
    /\ UNCHANGED <<nextId, noise, killed>>

Terminated(c) ==
    IF c = Builder THEN Exited /\ toClient' = <<>>
    ELSE UNCHANGED <<toServer, owed, server>>

ReadMine(c) ==
    /\ at[c] = "read"
    /\ toClient # <<>>
    /\ Mine(c)
    /\ toClient' = Tail(toClient)
    /\ holder' = NoOne
    /\ IF c = Builder
       THEN /\ stage' = IF stage = "list" THEN "ready" ELSE "initialized"
            /\ connected' = (stage = "list")
            /\ Goto(c, IF stage = "list" THEN "done" ELSE "wait")
            /\ UNCHANGED out
       ELSE /\ out' = [out EXCEPT ![c] = [kind |-> "result", from |-> Line.from]]
            /\ Goto(c, "done")
            /\ UNCHANGED <<stage, connected>>
    /\ asked' = [asked EXCEPT ![c] = 0]
    /\ UNCHANGED <<nextId, toServer, owed, server, noise, killed>>

\* The late answer to a call that timed out, a notification, a log line.
ReadForeign(c) ==
    /\ at[c] = "read"
    /\ toClient # <<>>
    /\ ~ Mine(c)
    /\ ~ Bad
    /\ toClient' = Tail(toClient)
    /\ UNCHANGED <<stage, connected, nextId, holder, at, asked, out, toServer,
                   owed, server, noise, killed>>

\* Also the caller's own result, if extract_content() or the handshake throws at
\* its form (mcp_client.cpp:409-443, 462-469, 489-503).
ReadBad(c) ==
    /\ at[c] = "read"
    /\ toClient # <<>>
    /\ Bad \/ Mine(c)
    /\ Fails(c)
    /\ IF c = Builder THEN Terminated(c)
       ELSE toClient' = Tail(toClient) /\ Terminated(c)

\* The end of the server's output.
ReadEof(c) ==
    /\ at[c] = "read"
    /\ toClient = <<>>
    /\ server = "gone"
    /\ Fails(c)
    /\ Terminated(c)
    /\ UNCHANGED toClient

\* Mutant of Deadline: a server that has not exited is waited for.
DeadlineNever == FALSE

\* call_timeout may pass at any time.
Deadline == TRUE

TimeOut(c) ==
    /\ at[c] = "read"
    /\ Deadline
    /\ Fails(c)
    /\ IF c = Builder THEN Terminated(c) ELSE Terminated(c) /\ UNCHANGED toClient

Exchange(c) ==
    \/ Lock(c) \/ Write(c) \/ WriteToNoReader(c)
    \/ ReadMine(c) \/ ReadForeign(c) \/ ReadBad(c) \/ ReadEof(c) \/ TimeOut(c)
-------------------------------------------------------------------------------
TypeOKMcp ==
    /\ stage \in {"initialize", "initialized", "list", "ready", "failed"}
    /\ connected \in BOOLEAN
    /\ nextId \in Nat \ {0}
    /\ holder \in Caller \cup {NoOne}
    /\ at \in [Caller -> {"none", "begun", "wait", "write", "read", "done"}]
    /\ holder # NoOne <=> \E c \in Caller : at[c] \in {"write", "read"}
    /\ \A c \in Caller : asked[c] < nextId
    /\ DOMAIN out = Call
    /\ Len(toServer) <= PipeCap
    /\ server \in {"up", "gone"}
    /\ noise \in 0 .. MaxNoise
    /\ killed \in BOOLEAN

\* However late, reordered or mixed with noise the server's lines are, the result
\* a call returns is the answer to its own request, not to one of another task
\* or of an earlier round (mcp_client.cpp:337-345, 394-404).
OwnAnswer == \A c \in Call : out[c].kind = "result" => out[c].from = c
===============================================================================
