------------------------------ MODULE AgentConfig ------------------------------
(* The configuration of the agents: the registry's copy, which the management  *)
(* API changes, the file it is persisted to, and what a restart reads back.    *)
(* The API is one thread that serves one connection at a time; agents_ is      *)
(* changed under the registry mutex, and persist takes it again.  What a start *)
(* or stop does to threads and controllers is in AgentRegistry; here an agent  *)
(* is live (starting or running) or not.                                       *)
EXTENDS Naturals, FiniteSets, Functions

CONSTANTS Agent,      \* ids
          MaxBoot,    \* bound: starts of the bot
          MaxFault    \* bound: crashes, and writes cut short

ASSUME ConfigAssumption == {MaxBoot, MaxFault} \subseteq Nat

\* A secret is given, missing, or the sentinel that stands for it in a file.
Secret == {"key", "", "***"}
Config == [enabled : BOOLEAN, secret : Secret]
Status == {"live", "stopped", "error"}
Request == [op : {"create", "config"}, id : Agent, enabled : BOOLEAN]
              \cup [op : {"remove", "start", "stop", "read"}, id : Agent]

VARIABLES
    phase,     \* main: "down", "up", "stopping"
    agents,    \* agents_: [cfg, status] of the agents the registry has
    jwt,       \* jwt_secret in memory
    file,      \* bot_config.json: [intact, agents, jwt], and as a history the
               \* start that saved it last
    pc,        \* the API thread: "off", "loop", "accept", "read", "handle",
               \* "open", "write", "reply"
    req,       \* the request it is serving
    ok,        \* whether its answer will say "ok"
    open,      \* the acceptor
    acked,     \* history: what the last answer "ok" about an agent left it as,
               \* and in which start
    boots, faults

disk == <<file, acked>>
vars == <<phase, agents, jwt, file, pc, req, ok, open, acked, boots, faults>>

Unknown == [known |-> FALSE]
Gone == [known |-> TRUE, there |-> FALSE]
Kept(c) == [known |-> TRUE, there |-> TRUE, enabled |-> c.enabled, start |-> boots]

NoRequest == [op |-> "none"]

\* The file an operator has written: some agents, every secret in it.
Init ==
    /\ phase = "down"
    /\ agents = <<>>
    /\ jwt = ""
    /\ \E ids \in (SUBSET Agent) \ {{}} :
          file = [intact |-> TRUE, jwt |-> "key", start |-> 0,
                  agents |-> [a \in ids |-> [enabled |-> TRUE, secret |-> "key"]]]
    /\ pc = "off"
    /\ req = NoRequest
    /\ ok = FALSE
    /\ open = FALSE
    /\ acked = [a \in Agent |-> Unknown]
    /\ boots = 0
    /\ faults = 0
-------------------------------------------------------------------------------
(* Reading and writing the file: safe_string() and to_json().                  *)

\* Mutant of Loaded: the sentinel is taken for a secret.
LoadedAsIs(s) == s

Loaded(s) == IF s = "***" THEN "" ELSE s

Written(s) == IF s = "" THEN "" ELSE "***"

LoadedConfig(c) == [c EXCEPT !.secret = Loaded(@)]
WrittenConfig(c) == [c EXCEPT !.secret = Written(@)]

\* load_bot_config() throws at a file that does not parse or has no agents.
Loadable == file.intact /\ DOMAIN file.agents # {}
-------------------------------------------------------------------------------
(* main and start_all().                                                       *)

\* Agents that are disabled are left out of the registry; one that cannot be
\* built stays in it.
StartAll(configs) ==
    \E st \in [{a \in DOMAIN configs : configs[a].enabled} -> {"live", "error"}] :
        agents' = [a \in DOMAIN st |->
                      [cfg |-> LoadedConfig(configs[a]), status |-> st[a]]]

\* The API is started only with a secret.
Boot ==
    /\ phase = "down"
    /\ boots < MaxBoot
    /\ Loadable
    /\ boots' = boots + 1
    /\ phase' = "up"
    /\ StartAll(file.agents)
    /\ jwt' = Loaded(file.jwt)
    /\ open' = (jwt' # "")
    /\ pc' = IF jwt' # "" THEN "loop" ELSE "off"
    /\ UNCHANGED <<disk, req, ok, faults>>

\* SIGTERM: main stops the API first, and waits for its thread.
Signal ==
    /\ phase = "up"
    /\ phase' = "stopping"
    /\ open' = FALSE
    /\ UNCHANGED <<agents, jwt, disk, pc, req, ok, boots, faults>>

Ended ==
    /\ phase' = "down"
    /\ agents' = <<>>
    /\ jwt' = ""
    /\ pc' = "off"
    /\ req' = NoRequest
    /\ ok' = FALSE
    /\ open' = FALSE
    /\ UNCHANGED <<disk, boots>>

\* The thread has been joined; stop_all() and the end of main.
Shutdown == phase = "stopping" /\ pc = "off" /\ Ended /\ UNCHANGED faults

Crash ==
    /\ phase # "down"
    /\ faults < MaxFault
    /\ faults' = faults + 1
    /\ Ended

\* The operator puts the secrets back into the file.
Restore ==
    /\ phase = "down"
    /\ file.intact
    /\ file' = [intact |-> TRUE, jwt |-> "key", start |-> file.start,
                agents |-> [a \in DOMAIN file.agents |->
                               [file.agents[a] EXCEPT !.secret = "key"]]]
    /\ UNCHANGED <<phase, agents, jwt, pc, req, ok, open, acked, boots, faults>>
-------------------------------------------------------------------------------
(* The API thread.                                                             *)

At(l) == pc = l
Goto(l) == pc' = l

\* Mutant of Listening: the loop does not look at the acceptor.
ListeningAlways == TRUE

Listening == open

LoopTest ==
    /\ At("loop")
    /\ Goto(IF Listening THEN "accept" ELSE "off")
    /\ UNCHANGED <<phase, agents, jwt, disk, req, ok, open, boots, faults>>

\* A connection; closing the acceptor does not end an accept that has begun.
Accept ==
    /\ At("accept")
    /\ Goto("read")
    /\ UNCHANGED <<phase, agents, jwt, disk, req, ok, open, boots, faults>>

ReadRequest ==
    /\ At("read")
    /\ req' \in Request
    /\ Goto("handle")
    /\ UNCHANGED <<phase, agents, jwt, disk, ok, open, boots, faults>>

\* The peer went away, or sent what is no request.
ReadFails ==
    /\ At("read")
    /\ Goto("loop")
    /\ UNCHANGED <<phase, agents, jwt, disk, req, ok, open, boots, faults>>

Answer(b) ==
    /\ ok' = b
    /\ Goto("reply")
    /\ UNCHANGED <<phase, jwt, file, req, open, boots, faults>>

\* The registry has been changed (agents' is given); persist is next.
Persist ==
    /\ acked' = [acked EXCEPT ![req.id] = Unknown]
    /\ Goto("open")
    /\ UNCHANGED <<phase, jwt, file, req, ok, open, boots, faults>>

Has(a) == a \in DOMAIN agents
Live(a) == agents[a].status = "live"
Put(a, c, st) == agents' = [b \in DOMAIN agents \cup {a} |->
                               IF b = a THEN [cfg |-> c, status |-> st] ELSE agents[b]]

\* Listing, health, and whatever else changes nothing.
HandleRead ==
    /\ At("handle")
    /\ req.op = "read"
    /\ Answer(TRUE)
    /\ UNCHANGED <<agents, acked>>

\* What the handlers and the registry refuse.
Refused ==
    \/ req.op = "create" /\ Has(req.id)
    \/ req.op \in {"remove", "start", "stop", "config"} /\ ~ Has(req.id)
    \/ req.op = "config" /\ Has(req.id) /\ Live(req.id)

\* That, or a request without a valid token or body, or for no route.
HandleRefused ==
    /\ At("handle")
    /\ Answer(FALSE)
    /\ UNCHANGED <<agents, acked>>

Accepted(op) == At("handle") /\ req.op = op /\ ~ Refused

Given == [enabled |-> req.enabled, secret |-> "key"]

HandleCreate ==
    /\ Accepted("create")
    /\ Put(req.id, Given, "live")
    /\ Persist

\* add_agent() keeps the agent it could not build, and throws past persist.
HandleCreateFails ==
    /\ Accepted("create")
    /\ Put(req.id, Given, "error")
    /\ acked' = [acked EXCEPT ![req.id] = Unknown]
    /\ Answer(FALSE)

HandleRemove ==
    /\ Accepted("remove")
    /\ agents' = Restrict(agents, DOMAIN agents \ {req.id})
    /\ Persist

\* An agent that is running already is left so, and all is persisted again.
HandleStart ==
    /\ Accepted("start")
    /\ Put(req.id, agents[req.id].cfg, "live")
    /\ Persist

\* It could not be built, or is only starting.
HandleStartFails ==
    /\ Accepted("start")
    /\ IF Live(req.id) THEN UNCHANGED agents
                       ELSE Put(req.id, agents[req.id].cfg, "error")
    /\ Answer(FALSE)
    /\ UNCHANGED acked

HandleStop ==
    /\ Accepted("stop")
    /\ Put(req.id, agents[req.id].cfg,
           IF Live(req.id) THEN "stopped" ELSE agents[req.id].status)
    /\ Persist

HandleConfig ==
    /\ Accepted("config")
    /\ Put(req.id, [agents[req.id].cfg EXCEPT !.enabled = req.enabled],
           agents[req.id].status)
    /\ Persist

\* The ofstream: opening it empties the file.
SaveOpen ==
    /\ At("open")
    /\ file' = [file EXCEPT !.intact = FALSE]
    /\ Goto("write")
    /\ UNCHANGED <<phase, agents, jwt, req, ok, open, acked, boots, faults>>

\* It cannot be opened: an error, although the registry has changed.
SaveFails ==
    /\ At("open")
    /\ faults < MaxFault
    /\ faults' = faults + 1
    /\ ok' = FALSE
    /\ Goto("reply")
    /\ UNCHANGED <<phase, agents, jwt, disk, req, open, boots>>

\* Mutant of Contents: only agents that are running are written.
ContentsLive ==
    [a \in {b \in DOMAIN agents : Live(b)} |-> WrittenConfig(agents[a].cfg)]

\* persist() collects the configurations of the registry.
Contents == [a \in DOMAIN agents |-> WrittenConfig(agents[a].cfg)]

SaveWrite ==
    /\ At("write")
    /\ file' = [intact |-> TRUE, agents |-> Contents, jwt |-> Written(jwt),
                start |-> boots]
    /\ ok' = TRUE
    /\ Goto("reply")
    /\ UNCHANGED <<phase, agents, jwt, req, open, acked, boots, faults>>

\* The disk is full: nobody looks at the stream.
SaveShort ==
    /\ At("write")
    /\ faults < MaxFault
    /\ faults' = faults + 1
    /\ ok' = TRUE
    /\ Goto("reply")
    /\ UNCHANGED <<phase, agents, jwt, disk, req, open, boots>>

\* to_json() throws, at text that is not UTF-8, when the file has been emptied.
SaveThrows ==
    /\ At("write")
    /\ faults < MaxFault
    /\ faults' = faults + 1
    /\ ok' = FALSE
    /\ Goto("reply")
    /\ UNCHANGED <<phase, agents, jwt, disk, req, open, boots>>

Reply ==
    /\ At("reply")
    /\ Goto("loop")
    /\ acked' = IF ok /\ req.op # "read"
                THEN [acked EXCEPT ![req.id] =
                         IF Has(req.id) THEN Kept(agents[req.id].cfg) ELSE Gone]
                ELSE acked
    /\ req' = NoRequest
    /\ UNCHANGED <<phase, agents, jwt, file, ok, open, boots, faults>>

Api ==
    \/ LoopTest \/ Accept \/ ReadRequest \/ ReadFails
    \/ HandleRead \/ HandleRefused
    \/ HandleCreate \/ HandleCreateFails \/ HandleRemove
    \/ HandleStart \/ HandleStartFails \/ HandleStop \/ HandleConfig
    \/ SaveOpen \/ SaveFails \/ SaveWrite \/ SaveShort \/ SaveThrows \/ Reply

Next == Boot \/ Signal \/ Shutdown \/ Crash \/ Restore \/ Api

\* In accept() and read() the thread waits for a peer.
Waiting == pc \in {"accept", "read"}

\* The thread runs unless it waits for a peer: no peer is obliged to connect, to
\* send its request or to go away.
Fairness == WF_vars(~ Waiting /\ Api) /\ WF_vars(Shutdown)

Spec == Init /\ [][Next]_vars /\ Fairness
-------------------------------------------------------------------------------
TypeOK ==
    /\ phase \in {"down", "up", "stopping"}
    /\ DOMAIN agents \subseteq Agent
    /\ \A a \in DOMAIN agents : agents[a] \in [cfg : Config, status : Status]
    /\ jwt \in {"key", ""}
    /\ file.intact \in BOOLEAN /\ file.jwt \in Secret /\ file.start \in 0 .. MaxBoot
    /\ DOMAIN file.agents \subseteq Agent
    /\ \A a \in DOMAIN file.agents : file.agents[a] \in Config
    /\ pc \in {"off", "loop", "accept", "read", "handle", "open", "write", "reply"}
    /\ req \in Request \cup {NoRequest}
    /\ ok \in BOOLEAN
    /\ open \in BOOLEAN
    /\ \A a \in Agent : acked[a] \in
          {Unknown, Gone} \cup [known : {TRUE}, there : {TRUE}, enabled : BOOLEAN,
                               start : 0 .. MaxBoot]
    /\ boots \in 0 .. MaxBoot
    /\ faults \in 0 .. MaxFault

Confirmed(a) == acked[a].known /\ acked[a].there

\* The file is written in place, not by a temporary file and a rename as
\* docs/REVIEW-2026-07-23.md:443 has it (bot_config.cpp:331-336), so it is cut while
\* it is written, and stays so after a crash or a failing write then; only then.
CutByFault == ~ file.intact => At("write") \/ faults > 0

\* What the API has answered "ok" to is in the file, through restarts, crashes and
\* later operations, failed ones included: a removed agent is gone from it, and any
\* other is there with enabled as confirmed.  Two things take it out: a fault that
\* cuts the file, and, of an agent confirmed as disabled, which the next start leaves
\* out of the registry, the first save of a later start; until then it is there
\* (management_api.cpp:357-406, agent_registry.cpp:103-106, 315-325).
AckedIsSaved ==
    /\ CutByFault
    /\ file.intact => \A a \in Agent :
          /\ acked[a] = Gone => a \notin DOMAIN file.agents
          /\ Confirmed(a) =>
                \/ a \in DOMAIN file.agents /\ file.agents[a].enabled = acked[a].enabled
                \/ ~ acked[a].enabled /\ acked[a].start < file.start

\* A shutdown ends if no peer holds the thread for ever: in accept() it is woken by
\* the next connection and then sees the closed acceptor (management_api.cpp:874,
\* 914-925; main.cpp:227-231).
ShutdownEnds == []<> ~ Waiting => ((phase = "stopping") ~> (phase = "down"))

\* bot_config.cpp:14-15 says that a sentinel is read as an empty string "so the
\* default/in-memory value is preserved": no agent has lost its secret.
SecretsPreserved == \A a \in DOMAIN agents : agents[a].cfg.secret = "key"
===============================================================================
