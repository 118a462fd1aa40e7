-------------------------- MODULE AgentConfig_proofs --------------------------
(* What the management API has confirmed is in the file, but for agents         *)
(* confirmed as disabled, once a later start has saved; for any agents, any    *)
(* number of starts and any number of crashes and failing writes.              *)
EXTENDS AgentConfig, TLAPS

Entry == [cfg : Config, status : Status]
Answered == {Unknown, Gone} \cup [known : {TRUE}, there : {TRUE}, enabled : BOOLEAN,
                                   start : 0 .. MaxBoot]

\* TypeOK, with the domains of the functions and records.
TypeInv ==
    /\ phase \in {"down", "up", "stopping"}
    /\ DOMAIN agents \subseteq Agent
    /\ \A a \in DOMAIN agents : agents[a] \in Entry
    /\ jwt \in {"key", ""}
    /\ file = [intact |-> file.intact, jwt |-> file.jwt, agents |-> file.agents,
               start |-> file.start]
    /\ file.intact \in BOOLEAN /\ file.jwt \in Secret /\ file.start \in 0 .. MaxBoot
    /\ DOMAIN file.agents \subseteq Agent
    /\ \A a \in DOMAIN file.agents : file.agents[a] \in Config
    /\ pc \in {"off", "loop", "accept", "read", "handle", "open", "write", "reply"}
    /\ req \in Request \cup {NoRequest}
    /\ ok \in BOOLEAN
    /\ open \in BOOLEAN
    /\ acked \in [Agent -> Answered]
    /\ boots \in 0 .. MaxBoot
    /\ faults \in 0 .. MaxFault

\* The thread serves a request, of a bot that runs.
Serving ==
    /\ phase = "down" => pc = "off"
    /\ pc \in {"handle", "open", "write", "reply"} => req \in Request

\* An agent is as it was confirmed where dom and enabled are, or was confirmed as
\* disabled before the start b.
Matches(a, dom, enabled, b) ==
    /\ acked[a] = Gone => a \notin dom
    /\ Confirmed(a) => \/ a \in dom /\ enabled = acked[a].enabled
                       \/ ~ acked[a].enabled /\ acked[a].start < b

\* The registry holds what was confirmed: persisting it anew, for whatever agent,
\* takes none of it back but what a start has left out.
Held ==
    phase # "down" =>
        \A a \in Agent : Matches(a, DOMAIN agents, agents[a].cfg.enabled, boots)

\* Nothing is confirmed of a start to come.
Past == \A a \in Agent : Confirmed(a) => acked[a].start <= boots

\* A file that is being written is not intact, and one that has been is what the
\* registry holds.
Saved ==
    /\ pc = "write" => ~ file.intact
    /\ pc = "reply" /\ ok /\ req.op # "read" /\ file.intact => file.agents = Contents

IInv == TypeInv /\ Serving /\ Held /\ Past /\ Saved /\ AckedIsSaved
-------------------------------------------------------------------------------
LEMMA Bounds == MaxBoot \in Nat /\ MaxFault \in Nat
  BY ConfigAssumption

LEMMA Counts == ASSUME TypeInv PROVE boots \in Nat /\ faults \in Nat
<1>1. boots \in 0 .. MaxBoot /\ faults \in 0 .. MaxFault
  BY DEF TypeInv
<1> QED  BY <1>1, Bounds

LEMMA Distinct ==
    /\ Unknown # Gone
    /\ Unknown \in Answered /\ Gone \in Answered
    /\ \A a \in Agent : acked[a] = Unknown \/ acked[a] = Gone => ~ Confirmed(a)
    /\ \A a \in Agent : acked'[a] = Unknown \/ acked'[a] = Gone => ~ Confirmed(a)'
<1>1. Unknown.known = FALSE /\ Gone.known = TRUE /\ Gone.there = FALSE
  BY DEF Unknown, Gone
<1>2. Unknown # Gone
  BY <1>1
<1> QED  BY <1>1, <1>2 DEF Answered, Confirmed

\* What is confirmed now, of a configuration.
LEMMA KeptFields ==
    ASSUME TypeInv, NEW c \in Config
    PROVE  /\ Kept(c) \in Answered /\ Kept(c) # Gone
           /\ Kept(c).known = TRUE /\ Kept(c).there = TRUE
           /\ Kept(c).enabled = c.enabled /\ Kept(c).start = boots
<1>1. c.enabled \in BOOLEAN /\ boots \in 0 .. MaxBoot
  BY DEF Config, TypeInv
<1>2. Kept(c) \in Answered
  BY <1>1 DEF Kept, Answered
<1>3. /\ Kept(c).known = TRUE /\ Kept(c).there = TRUE
      /\ Kept(c).enabled = c.enabled /\ Kept(c).start = boots
  BY DEF Kept
<1>4. Kept(c) # Gone
  <2>1. Gone.there = FALSE
    BY DEF Gone
  <2> QED  BY <1>3, <2>1
<1> QED  BY <1>2, <1>3, <1>4

LEMMA RequestFields ==
    ASSUME NEW r \in Request
    PROVE  r.id \in Agent /\ (r.op \in {"create", "config"} => r.enabled \in BOOLEAN)
  BY DEF Request

LEMMA ConfigFields ==
    /\ \A c \in Config : c.enabled \in BOOLEAN /\ c.secret \in Secret
    /\ \A e \in Entry : e.cfg \in Config /\ e.status \in Status
    /\ \A c \in Config : LoadedConfig(c) \in Config /\ LoadedConfig(c).enabled = c.enabled
    /\ \A c \in Config : WrittenConfig(c) \in Config /\ WrittenConfig(c).enabled = c.enabled
  BY DEF Config, Entry, LoadedConfig, WrittenConfig, Loaded, Written, Secret

\* An agent is put into the registry.
LEMMA PutTypes ==
    ASSUME TypeInv, NEW a \in Agent, NEW c \in Config, NEW st \in Status, Put(a, c, st)
    PROVE  /\ DOMAIN agents' \subseteq Agent
           /\ \A b \in DOMAIN agents' : agents'[b] \in Entry
           /\ DOMAIN agents' = DOMAIN agents \cup {a}
           /\ \A b \in DOMAIN agents : b # a => agents'[b] = agents[b]
           /\ agents'[a].cfg = c
  BY DEF Put, TypeInv, Entry

\* A step that changes neither the file nor the registry nor what is confirmed.
LEMMA NothingSaved ==
    ASSUME IInv, UNCHANGED <<phase, agents, file, acked, boots>>, TypeInv', Serving',
           Saved', CutByFault'
    PROVE  IInv'
<1>1. Held' /\ Past'
  BY DEF IInv, Held, Past, Matches, Confirmed
<1>2. AckedIsSaved'
  BY DEF IInv, AckedIsSaved, Confirmed
<1> QED  BY <1>1, <1>2 DEF IInv

-------------------------------------------------------------------------------
(* main.                                                                       *)

\* The agents of a start, with the choice of their outcomes put aside.
LEMMA Started ==
    ASSUME StartAll(file.agents)
    PROVE  /\ DOMAIN agents' = {a \in DOMAIN file.agents : file.agents[a].enabled}
           /\ \A a \in DOMAIN agents' : \E s \in {"live", "error"} :
                 agents'[a] = [cfg |-> LoadedConfig(file.agents[a]), status |-> s]
<1>1. PICK st \in [{a \in DOMAIN file.agents : file.agents[a].enabled} -> {"live", "error"}] :
         agents' = [a \in DOMAIN st |->
                      [cfg |-> LoadedConfig(file.agents[a]), status |-> st[a]]]
  BY DEF StartAll
<1> QED  BY <1>1

LEMMA EntryOf ==
    ASSUME NEW c \in Config, c.enabled = TRUE, NEW s \in {"live", "error"}, NEW e,
           e = [cfg |-> LoadedConfig(c), status |-> s]
    PROVE  e \in Entry /\ e.cfg.enabled = TRUE
<1>1. LoadedConfig(c) \in Config /\ LoadedConfig(c).enabled = c.enabled
  BY ConfigFields
<1>2. e \in Entry
  BY <1>1 DEF Entry, Status
<1>3. e.cfg = LoadedConfig(c)
  OBVIOUS
<1> QED  BY <1>1, <1>2, <1>3

LEMMA BootKeeps == ASSUME IInv, Boot PROVE IInv'
<1>0. /\ TypeInv /\ AckedIsSaved /\ Loadable /\ phase' = "up"
      /\ UNCHANGED <<file, acked, req, ok, faults>>
  BY DEF Boot, IInv, disk
<1>1. StartAll(file.agents)
  BY DEF Boot
<1>2. DOMAIN agents' = {a \in DOMAIN file.agents : file.agents[a].enabled}
  BY <1>1, Started
<1>3. \A a \in DOMAIN agents' : agents'[a] \in Entry /\ agents'[a].cfg.enabled = TRUE
  <2> SUFFICES ASSUME NEW a \in DOMAIN agents'
               PROVE  agents'[a] \in Entry /\ agents'[a].cfg.enabled = TRUE
    OBVIOUS
  <2>1. file.agents[a] \in Config /\ file.agents[a].enabled
    BY <1>0, <1>2 DEF TypeInv
  <2>2. file.agents[a].enabled = TRUE
    BY <2>1, ConfigFields
  <2>3. PICK s \in {"live", "error"} :
           agents'[a] = [cfg |-> LoadedConfig(file.agents[a]), status |-> s]
    BY <1>1, Started
  <2> QED  BY <2>1, <2>2, <2>3, EntryOf
<1>4. jwt' \in {"key", ""} /\ boots' \in 0 .. MaxBoot
  <2>1. jwt' \in {"key", ""}
    BY <1>0 DEF Boot, Loaded, TypeInv, Secret
  <2>2. boots \in 0 .. MaxBoot /\ boots < MaxBoot /\ boots' = boots + 1
    BY <1>0 DEF Boot, TypeInv
  <2>3. boots' \in 0 .. MaxBoot
    BY <2>2, Bounds
  <2> QED  BY <2>1, <2>3
<1>5. open' \in BOOLEAN /\ pc' \in {"loop", "off"}
  BY DEF Boot
<1>6. TypeInv'
  BY <1>0, <1>2, <1>3, <1>4, <1>5 DEF TypeInv
<1>7. Serving' /\ Saved'
  BY <1>0, <1>5 DEF Serving, Saved
<1>8. boots' = boots + 1 /\ boots \in Nat /\ file.intact
  BY <1>0, Counts DEF Boot, Loadable
<1>9. \A a \in Agent : Confirmed(a) => acked[a].enabled \in BOOLEAN /\ acked[a].start \in Nat
                                      /\ acked[a].start <= boots
  <2> SUFFICES ASSUME NEW a \in Agent, Confirmed(a)
               PROVE  acked[a].enabled \in BOOLEAN /\ acked[a].start \in Nat
                      /\ acked[a].start <= boots
    OBVIOUS
  <2>1. acked[a] \in Answered /\ acked[a] \notin {Unknown, Gone}
    BY <1>0, Distinct DEF TypeInv
  <2>2. acked[a].enabled \in BOOLEAN /\ acked[a].start \in 0 .. MaxBoot
    BY <2>1 DEF Answered
  <2> QED  BY <2>2, Bounds DEF IInv, Past
<1>10. Held' /\ Past' /\ AckedIsSaved'
  <2>1. ASSUME NEW a \in Agent
        PROVE  Matches(a, DOMAIN agents, agents[a].cfg.enabled, boots)'
    <3>1. /\ acked[a] = Gone => a \notin DOMAIN file.agents
          /\ Confirmed(a) => \/ a \in DOMAIN file.agents
                                /\ file.agents[a].enabled = acked[a].enabled
                             \/ ~ acked[a].enabled
      BY <1>0, <1>8 DEF AckedIsSaved
    <3>2. acked'[a] = Gone => a \notin DOMAIN agents'
      BY <1>0, <1>2, <3>1
    <3>3. ASSUME Confirmed(a)
          PROVE  \/ a \in DOMAIN agents' /\ agents'[a].cfg.enabled = acked[a].enabled
                 \/ ~ acked[a].enabled /\ acked[a].start < boots'
      <4>1. CASE acked[a].enabled = TRUE
        BY <1>2, <1>3, <3>1, <3>3, <4>1
      <4>2. CASE acked[a].enabled = FALSE
        BY <1>8, <1>9, <3>3, <4>2
      <4> QED  BY <1>9, <3>3, <4>1, <4>2
    <3> QED  BY <1>0, <3>2, <3>3 DEF Matches, Confirmed
  <2>2. Past'
    BY <1>0, <1>8, <1>9 DEF Past, Confirmed
  <2>3. CutByFault'
    BY <1>0, <1>8 DEF CutByFault
  <2> QED  BY <1>0, <2>1, <2>2, <2>3 DEF Held, AckedIsSaved, Confirmed
<1> QED  BY <1>6, <1>7, <1>10 DEF IInv

LEMMA SignalKeeps == ASSUME IInv, Signal PROVE IInv'
<1>1. /\ phase = "up" /\ phase' = "stopping" /\ open' = FALSE
      /\ UNCHANGED <<agents, jwt, file, acked, pc, req, ok, boots, faults>>
  BY DEF Signal, disk
<1>2. TypeInv'
  BY <1>1 DEF IInv, TypeInv
<1>3. Serving' /\ Saved'
  BY <1>1 DEF IInv, Serving, Saved, Contents
<1>4. Held' /\ Past'
  BY <1>1 DEF IInv, Held, Past, Matches, Confirmed
<1>5. AckedIsSaved'
  BY <1>1 DEF IInv, AckedIsSaved, Confirmed, CutByFault, At
<1> QED  BY <1>2, <1>3, <1>4, <1>5 DEF IInv

LEMMA EndKeeps == ASSUME IInv, Shutdown \/ Crash PROVE IInv'
<1>1. /\ phase' = "down" /\ agents' = <<>> /\ jwt' = "" /\ pc' = "off"
      /\ req' = NoRequest /\ ok' = FALSE /\ open' = FALSE
      /\ UNCHANGED <<file, acked, boots>>
  BY DEF Shutdown, Crash, Ended, disk
<1>2. faults' \in 0 .. MaxFault
  <2>1. faults \in 0 .. MaxFault
    BY DEF IInv, TypeInv
  <2>2. faults' = faults \/ (faults < MaxFault /\ faults' = faults + 1)
    BY DEF Shutdown, Crash
  <2> QED  BY <2>1, <2>2, Bounds
<1>3. DOMAIN agents' = {}
  <2>1. DOMAIN <<>> = {}
    OBVIOUS
  <2> QED  BY <1>1, <2>1
<1>4. TypeInv'
  BY <1>1, <1>2, <1>3 DEF IInv, TypeInv
<1>5. Serving' /\ Held' /\ Past' /\ Saved'
  BY <1>1 DEF IInv, Serving, Held, Past, Saved, Confirmed
<1>6. CutByFault'
  <2>1. faults \in Nat
    BY Counts DEF IInv
  <2>2. CASE Shutdown
    BY <1>1, <2>2 DEF Shutdown, IInv, AckedIsSaved, CutByFault, At
  <2>3. CASE Crash
    BY <2>1, <2>3 DEF Crash, CutByFault
  <2> QED  BY <2>2, <2>3
<1>7. AckedIsSaved'
  BY <1>1, <1>6 DEF IInv, AckedIsSaved, Confirmed
<1> QED  BY <1>4, <1>5, <1>7 DEF IInv

LEMMA RestoreKeeps == ASSUME IInv, Restore PROVE IInv'
<1>1. /\ phase = "down" /\ pc = "off" /\ file.intact
      /\ UNCHANGED <<phase, agents, jwt, pc, req, ok, open, acked, boots, faults>>
  BY DEF Restore, IInv, Serving
<1>2. file' = [intact |-> TRUE, jwt |-> "key", start |-> file.start,
               agents |-> [a \in DOMAIN file.agents |->
                              [file.agents[a] EXCEPT !.secret = "key"]]]
  BY DEF Restore
<1>3. /\ DOMAIN file'.agents = DOMAIN file.agents
      /\ \A a \in DOMAIN file.agents : file'.agents[a] = [file.agents[a] EXCEPT !.secret = "key"]
      /\ file'.intact = TRUE /\ file'.jwt = "key" /\ file'.start = file.start
      /\ file' = [intact |-> file'.intact, jwt |-> file'.jwt, agents |-> file'.agents,
                  start |-> file'.start]
  BY <1>2
<1>4. \A c \in Config : /\ [c EXCEPT !.secret = "key"] \in Config
                        /\ [c EXCEPT !.secret = "key"].enabled = c.enabled
  BY DEF Config, Secret
<1>5. \A a \in DOMAIN file.agents : file'.agents[a] \in Config
                                  /\ file'.agents[a].enabled = file.agents[a].enabled
  BY <1>3, <1>4 DEF IInv, TypeInv
<1>6. TypeInv'
  BY <1>1, <1>3, <1>5 DEF IInv, TypeInv, Secret
<1>7. Serving' /\ Held' /\ Past' /\ Saved'
  BY <1>1 DEF IInv, Serving, Held, Past, Saved, Confirmed
<1>8. AckedIsSaved'
  BY <1>1, <1>3, <1>5 DEF IInv, AckedIsSaved, Confirmed, CutByFault
<1> QED  BY <1>6, <1>7, <1>8 DEF IInv

-------------------------------------------------------------------------------
(* Requests that change nothing.                                               *)

\* The thread goes on, within its types.
LEMMA Quiet ==
    ASSUME IInv, UNCHANGED <<phase, agents, jwt, file, acked, open, boots, faults>>,
           phase # "down", pc # "write", req' \in Request \cup {NoRequest}, ok' \in BOOLEAN,
           \/ pc' \in {"loop", "accept", "read", "off"}
           \/ pc' = "handle" /\ req' \in Request
           \/ pc' = "reply" /\ req' \in Request /\ (ok' => req'.op = "read")
    PROVE  IInv'
<1>1. TypeInv'
  BY DEF IInv, TypeInv
<1>2. Serving'
  BY DEF IInv, Serving
<1>3. Saved'
  BY DEF Saved
<1>4. CutByFault'
  BY DEF IInv, AckedIsSaved, CutByFault, At
<1> QED  BY <1>1, <1>2, <1>3, <1>4, NothingSaved

LEMMA IdleKeeps == ASSUME IInv, LoopTest \/ Accept \/ ReadRequest \/ ReadFails PROVE IInv'
<1>1. UNCHANGED <<phase, agents, jwt, file, acked, ok, open, boots, faults>>
  BY DEF LoopTest, Accept, ReadRequest, ReadFails, disk
<1>2. pc \in {"loop", "accept", "read"}
  BY DEF LoopTest, Accept, ReadRequest, ReadFails, At
<1>3. phase # "down" /\ ok \in BOOLEAN /\ req \in Request \cup {NoRequest}
  BY <1>2 DEF IInv, Serving, TypeInv
<1>4. \/ req' = req /\ pc' \in {"loop", "accept", "read", "off"}
      \/ req' \in Request /\ pc' = "handle"
  BY DEF LoopTest, Accept, ReadRequest, ReadFails, Goto
<1> QED  BY <1>1, <1>2, <1>3, <1>4, Quiet

LEMMA AnsweredKeeps == ASSUME IInv, HandleRead \/ HandleRefused PROVE IInv'
<1>1. UNCHANGED <<phase, agents, jwt, file, acked, req, open, boots, faults>> /\ pc' = "reply"
  BY DEF HandleRead, HandleRefused, Answer, Goto
<1>2. phase # "down" /\ req \in Request /\ pc # "write"
  BY DEF HandleRead, HandleRefused, At, IInv, Serving
<1>3. ok' \in BOOLEAN /\ (ok' => req.op = "read")
  BY DEF HandleRead, HandleRefused, Answer
<1> QED  BY <1>1, <1>2, <1>3, Quiet
-------------------------------------------------------------------------------
(* Requests about an agent.                                                    *)

\* Whatever becomes of the agent of a request, once it counts as unknown the
\* others are as confirmed.
LEMMA Changed ==
    ASSUME IInv, phase # "down", pc # "write", req \in Request,
           DOMAIN agents' \subseteq Agent,
           \A b \in DOMAIN agents' : agents'[b] \in Entry,
           \A b \in Agent \ {req.id} : /\ b \in DOMAIN agents' <=> b \in DOMAIN agents
                                       /\ b \in DOMAIN agents => agents'[b] = agents[b],
           acked' = [acked EXCEPT ![req.id] = Unknown],
           UNCHANGED <<phase, jwt, file, req, open, boots, faults>>,
           \/ pc' = "open" /\ ok' = ok
           \/ pc' = "reply" /\ ok' = FALSE
    PROVE  IInv'
<1>1. req.id \in Agent
  BY RequestFields
<1>2. /\ acked' \in [Agent -> Answered]
      /\ acked'[req.id] = Unknown
      /\ \A b \in Agent \ {req.id} : acked'[b] = acked[b]
  BY <1>1, Distinct DEF IInv, TypeInv
<1>3. ok' \in BOOLEAN
  BY DEF IInv, TypeInv
<1>4. TypeInv'
  BY <1>2, <1>3 DEF IInv, TypeInv
<1>5. Serving' /\ Saved'
  BY DEF Serving, Saved
<1>6. Held'
  <2> SUFFICES ASSUME NEW a \in Agent
               PROVE  Matches(a, DOMAIN agents, agents[a].cfg.enabled, boots)'
    BY DEF Held
  <2>1. CASE a = req.id
    BY <2>1, <1>2, Distinct DEF Matches
  <2>2. CASE a # req.id
    <3>1. Matches(a, DOMAIN agents, agents[a].cfg.enabled, boots)
      BY DEF IInv, Held
    <3>2. CASE a \in DOMAIN agents
      BY <2>2, <3>1, <3>2, <1>2 DEF Matches, Confirmed
    <3>3. CASE a \notin DOMAIN agents
      BY <2>2, <3>1, <3>3, <1>2 DEF Matches, Confirmed
    <3> QED  BY <3>2, <3>3
  <2> QED  BY <2>1, <2>2
<1>7. AckedIsSaved'
  <2>1. \A a \in Agent : acked'[a] = Unknown \/ acked'[a] = acked[a]
    BY <1>2
  <2>2. \A a \in Agent : /\ acked'[a] = Gone => acked[a] = Gone
                         /\ Confirmed(a)' => Confirmed(a) /\ acked'[a] = acked[a]
    BY <2>1, Distinct DEF Confirmed
  <2>3. CutByFault'
    BY DEF IInv, AckedIsSaved, CutByFault, At
  <2> QED  BY <2>2, <2>3 DEF IInv, AckedIsSaved
<1>8. Past'
  BY <1>2, Distinct DEF IInv, Past, Confirmed
<1> QED  BY <1>4, <1>5, <1>6, <1>7, <1>8 DEF IInv

\* An agent is put into the registry and the registry is to be persisted, or an
\* error is answered.
LEMMA PutKeeps ==
    ASSUME IInv, At("handle"), NEW c \in Config, NEW st \in Status, Put(req.id, c, st),
           acked' = [acked EXCEPT ![req.id] = Unknown],
           UNCHANGED <<phase, jwt, file, req, open, boots, faults>>,
           \/ pc' = "open" /\ ok' = ok
           \/ pc' = "reply" /\ ok' = FALSE
    PROVE  IInv'
<1>1. phase # "down" /\ req \in Request /\ pc # "write"
  BY DEF At, IInv, Serving
<1>2. req.id \in Agent
  BY <1>1, RequestFields
<1>3. TypeInv
  BY DEF IInv
<1>4. /\ DOMAIN agents' \subseteq Agent
      /\ \A b \in DOMAIN agents' : agents'[b] \in Entry
      /\ DOMAIN agents' = DOMAIN agents \cup {req.id}
      /\ \A b \in DOMAIN agents : b # req.id => agents'[b] = agents[b]
  BY <1>2, <1>3, PutTypes
<1> QED  BY <1>1, <1>4, Changed

LEMMA GivenTypes == ASSUME req \in Request, req.op = "create" PROVE Given \in Config
  BY RequestFields DEF Given, Config, Secret

LEMMA KnownTypes ==
    ASSUME IInv, At("handle"), req.op \in {"remove", "start", "stop", "config"}, ~ Refused
    PROVE  /\ req \in Request /\ req.id \in Agent /\ req.id \in DOMAIN agents
           /\ agents[req.id] \in Entry
           /\ agents[req.id].cfg \in Config /\ agents[req.id].status \in Status
<1>1. req \in Request /\ req.id \in DOMAIN agents
  BY DEF At, IInv, Serving, Refused, Has
<1>2. agents[req.id] \in Entry
  BY <1>1 DEF IInv, TypeInv
<1> QED  BY <1>1, <1>2, ConfigFields, RequestFields

LEMMA CreateKeeps == ASSUME IInv, HandleCreate \/ HandleCreateFails PROVE IInv'
<1>1. At("handle") /\ req.op = "create" /\ req \in Request
  BY DEF HandleCreate, HandleCreateFails, Accepted, At, IInv, Serving
<1>2. Given \in Config
  BY <1>1, GivenTypes
<1>3. acked' = [acked EXCEPT ![req.id] = Unknown]
      /\ UNCHANGED <<phase, jwt, file, req, open, boots, faults>>
      /\ (\/ pc' = "open" /\ ok' = ok
          \/ pc' = "reply" /\ ok' = FALSE)
  BY DEF HandleCreate, HandleCreateFails, Persist, Answer, Goto
<1>4. Put(req.id, Given, "live") \/ Put(req.id, Given, "error")
  BY DEF HandleCreate, HandleCreateFails
<1>5. "live" \in Status /\ "error" \in Status
  BY DEF Status
<1> QED  BY <1>1, <1>2, <1>3, <1>4, <1>5, PutKeeps

LEMMA StartKeeps == ASSUME IInv, HandleStart \/ HandleStop \/ HandleConfig PROVE IInv'
<1>1. At("handle") /\ req.op \in {"start", "stop", "config"} /\ ~ Refused
  BY DEF HandleStart, HandleStop, HandleConfig, Accepted
<1>2. /\ req \in Request /\ agents[req.id].cfg \in Config /\ agents[req.id].status \in Status
  BY <1>1, KnownTypes
<1>3. Persist
  BY DEF HandleStart, HandleStop, HandleConfig
<1>4. /\ acked' = [acked EXCEPT ![req.id] = Unknown]
      /\ UNCHANGED <<phase, jwt, file, req, open, boots, faults>>
      /\ pc' = "open" /\ ok' = ok
  BY <1>3 DEF Persist, Goto
<1>5. "live" \in Status /\ "stopped" \in Status
  BY DEF Status
<1>6. CASE HandleStart
  <2>1. Put(req.id, agents[req.id].cfg, "live")
    BY <1>6 DEF HandleStart
  <2> QED  BY <1>1, <1>2, <1>4, <1>5, <2>1, PutKeeps
<1>7. CASE HandleStop
  <2>1. PICK st \in Status : Put(req.id, agents[req.id].cfg, st)
    BY <1>2, <1>5, <1>7 DEF HandleStop
  <2> QED  BY <1>1, <1>2, <1>4, <2>1, PutKeeps
<1>8. CASE HandleConfig
  <2>1. req.op = "config" /\ req.enabled \in BOOLEAN
    BY <1>2, <1>8, RequestFields DEF HandleConfig, Accepted
  <2>2. [agents[req.id].cfg EXCEPT !.enabled = req.enabled] \in Config
    BY <1>2, <2>1 DEF Config
  <2>3. Put(req.id, [agents[req.id].cfg EXCEPT !.enabled = req.enabled],
            agents[req.id].status)
    BY <1>8 DEF HandleConfig
  <2> QED  BY <1>1, <1>2, <1>4, <2>2, <2>3, PutKeeps
<1> QED  BY <1>6, <1>7, <1>8

LEMMA RemoveKeeps == ASSUME IInv, HandleRemove PROVE IInv'
<1>1. At("handle") /\ req.op = "remove" /\ ~ Refused
  BY DEF HandleRemove, Accepted
<1>2. req \in Request /\ phase # "down" /\ pc # "write"
  BY <1>1 DEF At, IInv, Serving
<1>3. /\ acked' = [acked EXCEPT ![req.id] = Unknown]
      /\ UNCHANGED <<phase, jwt, file, req, open, boots, faults>>
      /\ pc' = "open" /\ ok' = ok
  BY DEF HandleRemove, Persist, Goto
<1>4. agents' = [b \in DOMAIN agents \cap (DOMAIN agents \ {req.id}) |-> agents[b]]
  BY DEF HandleRemove, Restrict
<1>5. /\ DOMAIN agents' = DOMAIN agents \ {req.id}
      /\ \A b \in DOMAIN agents' : agents'[b] = agents[b]
  BY <1>4
<1>6. DOMAIN agents' \subseteq Agent /\ \A b \in DOMAIN agents' : agents'[b] \in Entry
  BY <1>5 DEF IInv, TypeInv
<1> QED  BY <1>2, <1>3, <1>5, <1>6, Changed

LEMMA StartFailsKeeps == ASSUME IInv, HandleStartFails PROVE IInv'
<1>1. At("handle") /\ req.op = "start" /\ ~ Refused
  BY DEF HandleStartFails, Accepted
<1>2. /\ req \in Request /\ req.id \in Agent /\ req.id \in DOMAIN agents
      /\ agents[req.id].cfg \in Config /\ phase # "down" /\ pc = "handle"
  BY <1>1, KnownTypes DEF At, IInv, Serving
<1>3. /\ UNCHANGED <<phase, jwt, file, acked, req, open, boots, faults>>
      /\ pc' = "reply" /\ ok' = FALSE
  BY DEF HandleStartFails, Answer, Goto
<1>4. CASE UNCHANGED agents
  BY <1>2, <1>3, <1>4, Quiet
<1>5. CASE Put(req.id, agents[req.id].cfg, "error")
  <2>1. "error" \in Status /\ TypeInv
    BY DEF Status, IInv
  <2>2. /\ DOMAIN agents' \subseteq Agent
        /\ \A b \in DOMAIN agents' : agents'[b] \in Entry
        /\ DOMAIN agents' = DOMAIN agents \cup {req.id}
        /\ \A b \in DOMAIN agents : b # req.id => agents'[b] = agents[b]
        /\ agents'[req.id].cfg = agents[req.id].cfg
    BY <1>2, <1>5, <2>1, PutTypes
  <2>3. TypeInv'
    BY <1>3, <2>2 DEF IInv, TypeInv
  <2>4. Serving' /\ Saved'
    BY <1>2, <1>3 DEF Serving, Saved
  <2>5. DOMAIN agents' = DOMAIN agents
    BY <1>2, <2>2
  <2>6. \A b \in DOMAIN agents : agents'[b].cfg = agents[b].cfg
    BY <2>2
  <2>7. Held'
    <3> SUFFICES ASSUME NEW a \in Agent
                 PROVE  Matches(a, DOMAIN agents, agents[a].cfg.enabled, boots)'
      BY DEF Held
    <3>1. Matches(a, DOMAIN agents, agents[a].cfg.enabled, boots)
      BY <1>2 DEF IInv, Held
    <3> QED  BY <1>3, <2>5, <2>6, <3>1 DEF Matches, Confirmed
  <2>8. AckedIsSaved'
    BY <1>2, <1>3 DEF IInv, AckedIsSaved, Confirmed, CutByFault, At
  <2>9. Past'
    BY <1>3 DEF IInv, Past, Confirmed
  <2> QED  BY <2>3, <2>4, <2>7, <2>8, <2>9 DEF IInv
<1> QED  BY <1>4, <1>5 DEF HandleStartFails
-------------------------------------------------------------------------------
(* Persisting.                                                                 *)

LEMMA FaultKeeps ==
    ASSUME IInv, faults < MaxFault, faults' = faults + 1
    PROVE  faults' \in 0 .. MaxFault /\ faults' > 0
<1>1. faults \in 0 .. MaxFault
  BY DEF IInv, TypeInv
<1> QED  BY <1>1, Bounds

LEMMA OpenKeeps == ASSUME IInv, SaveOpen \/ SaveFails PROVE IInv'
<1>1. pc = "open" /\ UNCHANGED <<phase, agents, jwt, req, open, acked, boots>>
  BY DEF SaveOpen, SaveFails, At, disk
<1>2. CASE SaveOpen
  <2>1. file' = [file EXCEPT !.intact = FALSE] /\ pc' = "write" /\ ok' = ok /\ faults' = faults
    BY <1>2 DEF SaveOpen, Goto
  <2>2. file' = [intact |-> FALSE, jwt |-> file.jwt, agents |-> file.agents,
                 start |-> file.start]
    BY <2>1 DEF IInv, TypeInv
  <2>3. TypeInv'
    BY <1>1, <2>1, <2>2 DEF IInv, TypeInv
  <2>4. Serving' /\ Saved' /\ AckedIsSaved'
    BY <1>1, <2>1, <2>2 DEF IInv, Serving, Saved, AckedIsSaved, CutByFault, At
  <2>5. Held' /\ Past'
    BY <1>1 DEF IInv, Held, Past, Matches, Confirmed
  <2> QED  BY <2>3, <2>4, <2>5 DEF IInv
<1>3. CASE SaveFails
  <2>1. pc' = "reply" /\ ok' = FALSE /\ file' = file
    BY <1>3 DEF SaveFails, Goto, disk
  <2>2. faults' \in 0 .. MaxFault /\ CutByFault'
    BY <1>3, FaultKeeps DEF SaveFails, CutByFault
  <2>3. TypeInv'
    BY <1>1, <2>1, <2>2 DEF IInv, TypeInv
  <2>4. Serving' /\ Saved'
    BY <1>1, <2>1 DEF IInv, Serving, Saved
  <2> QED  BY <1>1, <2>1, <2>2, <2>3, <2>4, NothingSaved
<1> QED  BY <1>2, <1>3

\* What is written are the agents of the registry, enabled as they are there.
LEMMA WhatIsWritten ==
    ASSUME TypeInv
    PROVE  /\ DOMAIN Contents = DOMAIN agents
           /\ \A a \in DOMAIN Contents : /\ Contents[a] \in Config
                                         /\ Contents[a].enabled = agents[a].cfg.enabled
<1> SUFFICES ASSUME NEW a \in DOMAIN agents
             PROVE  /\ WrittenConfig(agents[a].cfg) \in Config
                    /\ WrittenConfig(agents[a].cfg).enabled = agents[a].cfg.enabled
  BY DEF Contents
<1>1. agents[a].cfg \in Config
  BY ConfigFields DEF TypeInv
<1> QED  BY <1>1, ConfigFields

LEMMA WriteKeeps == ASSUME IInv, SaveWrite \/ SaveShort \/ SaveThrows PROVE IInv'
<1>1. /\ pc = "write" /\ pc' = "reply" /\ ok' \in BOOLEAN
      /\ UNCHANGED <<phase, agents, jwt, req, open, acked, boots>>
  BY DEF SaveWrite, SaveShort, SaveThrows, At, Goto, disk
<1>2. ~ file.intact /\ phase # "down" /\ req \in Request
  BY <1>1 DEF IInv, Saved, Serving
<1>3. CASE SaveWrite
  <2>1. /\ file' = [intact |-> TRUE, agents |-> Contents, jwt |-> Written(jwt),
                    start |-> boots]
        /\ faults' = faults
    BY <1>3 DEF SaveWrite
  <2>2. /\ file'.intact = TRUE /\ file'.agents = Contents /\ file'.jwt = Written(jwt)
        /\ file'.start = boots
        /\ file' = [intact |-> file'.intact, jwt |-> file'.jwt, agents |-> file'.agents,
                    start |-> file'.start]
    BY <2>1
  <2>3. TypeInv
    BY DEF IInv
  <2>4. file'.jwt \in Secret
    BY <2>2 DEF Written, Secret
  <2>5. DOMAIN file'.agents = DOMAIN agents
    BY <2>2, <2>3, WhatIsWritten
  <2>6. \A a \in DOMAIN file'.agents : /\ file'.agents[a] \in Config
                                       /\ file'.agents[a].enabled = agents[a].cfg.enabled
    BY <2>2, <2>3, WhatIsWritten
  <2>7. TypeInv'
    BY <1>1, <2>1, <2>2, <2>4, <2>5, <2>6 DEF IInv, TypeInv
  <2>8. Serving'
    BY <1>1, <1>2 DEF Serving
  <2>9. Contents' = Contents
    BY <1>1 DEF Contents
  <2>10. Saved'
    BY <1>1, <2>2, <2>9 DEF Saved
  <2>11. \A a \in Agent : Matches(a, DOMAIN agents, agents[a].cfg.enabled, boots)
    BY <1>2 DEF IInv, Held
  <2>12. Held' /\ Past'
    BY <1>1, <2>11 DEF IInv, Held, Past, Matches, Confirmed
  <2>13. AckedIsSaved'
    BY <1>1, <2>2, <2>5, <2>6, <2>11 DEF AckedIsSaved, CutByFault, Matches, Confirmed
  <2> QED  BY <2>7, <2>8, <2>10, <2>12, <2>13 DEF IInv
<1>4. CASE SaveShort \/ SaveThrows
  <2>1. file' = file
    BY <1>4 DEF SaveShort, SaveThrows, disk
  <2>2. faults' \in 0 .. MaxFault /\ CutByFault'
    BY <1>4, FaultKeeps DEF SaveShort, SaveThrows, CutByFault
  <2>3. TypeInv'
    BY <1>1, <2>1, <2>2 DEF IInv, TypeInv
  <2>4. Serving' /\ Saved'
    BY <1>1, <1>2, <2>1 DEF Serving, Saved
  <2> QED  BY <1>1, <2>1, <2>2, <2>3, <2>4, NothingSaved
<1> QED  BY <1>3, <1>4

\* What is confirmed now is what the registry holds, and with it the file.
LEMMA ReplyKeeps == ASSUME IInv, Reply PROVE IInv'
<1>1. /\ pc = "reply" /\ pc' = "loop" /\ req' = NoRequest
      /\ UNCHANGED <<phase, agents, jwt, file, ok, open, boots, faults>>
  BY DEF Reply, At, Goto
<1>2. req \in Request /\ req.id \in Agent /\ phase # "down" /\ TypeInv
  BY <1>1, RequestFields DEF IInv, Serving
<1>3. CASE ~ (ok /\ req.op # "read")
  <2>1. acked' = acked
    BY <1>3 DEF Reply
  <2> QED  BY <1>1, <1>2, <2>1, Quiet DEF TypeInv
<1>4. CASE ok /\ req.op # "read"
  <2> DEFINE new == IF Has(req.id) THEN Kept(agents[req.id].cfg) ELSE Gone
  <2>1. acked' = [acked EXCEPT ![req.id] = new]
    BY <1>4 DEF Reply
  <2>2. new \in Answered
    <3>1. CASE Has(req.id)
      <4>1. agents[req.id].cfg \in Config
        BY <1>2, <3>1, ConfigFields DEF TypeInv, Has
      <4> QED  BY <1>2, <3>1, <4>1, KeptFields
    <3>2. CASE ~ Has(req.id)
      BY <3>2, Distinct
    <3> QED  BY <3>1, <3>2
  <2>3. \/ new = Gone /\ req.id \notin DOMAIN agents
        \/ /\ new # Gone /\ req.id \in DOMAIN agents
           /\ new.enabled = agents[req.id].cfg.enabled /\ new.start = boots
    <3>1. CASE Has(req.id)
      <4>1. agents[req.id].cfg \in Config
        BY <1>2, <3>1, ConfigFields DEF TypeInv, Has
      <4> QED  BY <1>2, <3>1, <4>1, KeptFields DEF Has
    <3>2. CASE ~ Has(req.id)
      BY <3>2 DEF Has
    <3> QED  BY <3>1, <3>2
  <2> HIDE DEF new
  <2>4. /\ acked' \in [Agent -> Answered]
        /\ acked'[req.id] = new
        /\ \A a \in Agent \ {req.id} : acked'[a] = acked[a]
    BY <1>2, <2>1, <2>2 DEF TypeInv
  <2>5. TypeInv'
    BY <1>1, <1>2, <2>4 DEF TypeInv
  <2>6. Serving' /\ Saved'
    BY <1>1, <1>2 DEF Serving, Saved
  <2>7. ASSUME NEW a \in Agent
        PROVE  Matches(a, DOMAIN agents, agents[a].cfg.enabled, boots)'
    <3>1. CASE a = req.id
      BY <1>1, <1>2, <2>3, <2>4, <3>1, Distinct DEF Matches
    <3>2. CASE a # req.id
      <4>1. Matches(a, DOMAIN agents, agents[a].cfg.enabled, boots)
        BY <1>2 DEF IInv, Held
      <4> QED  BY <1>1, <2>4, <3>2, <4>1 DEF Matches, Confirmed
    <3> QED  BY <3>1, <3>2
  <2>8. Held'
    BY <2>7 DEF Held
  <2>9. AckedIsSaved'
    <3>1. CutByFault'
      BY <1>1 DEF IInv, AckedIsSaved, CutByFault, At
    <3>2. ASSUME file.intact, NEW a \in Agent
          PROVE  /\ acked'[a] = Gone => a \notin DOMAIN file.agents
                 /\ Confirmed(a)' =>
                       \/ /\ a \in DOMAIN file.agents
                          /\ file.agents[a].enabled = acked'[a].enabled
                       \/ ~ acked'[a].enabled /\ acked'[a].start < file.start
      <4>1. CASE a = req.id
        <5>1. file.agents = Contents
          BY <1>1, <1>4, <3>2 DEF IInv, Saved
        <5> QED  BY <1>2, <2>3, <2>4, <4>1, <5>1, WhatIsWritten, Distinct
      <4>2. CASE a # req.id
        BY <2>4, <3>2, <4>2 DEF IInv, AckedIsSaved, Confirmed
      <4> QED  BY <4>1, <4>2
    <3> QED  BY <1>1, <3>1, <3>2 DEF AckedIsSaved
  <2>10. Past'
    <3>1. boots \in Nat
      BY <1>2, Counts
    <3> QED  BY <1>1, <2>3, <2>4, <3>1, Distinct DEF IInv, Past, Confirmed
  <2> QED  BY <2>5, <2>6, <2>8, <2>9, <2>10 DEF IInv
<1> QED  BY <1>3, <1>4
-------------------------------------------------------------------------------
(* The invariant and what follows from it.                                     *)

LEMMA Initially == Init => IInv
<1> SUFFICES ASSUME Init PROVE IInv
  OBVIOUS
<1>1. PICK ids \in (SUBSET Agent) \ {{}} :
          file = [intact |-> TRUE, jwt |-> "key", start |-> 0,
                  agents |-> [a \in ids |-> [enabled |-> TRUE, secret |-> "key"]]]
  BY DEF Init
<1>2. /\ file = [intact |-> file.intact, jwt |-> file.jwt, agents |-> file.agents,
                 start |-> file.start]
      /\ file.intact = TRUE /\ file.jwt = "key" /\ file.start = 0
      /\ DOMAIN file.agents \subseteq Agent
      /\ \A a \in DOMAIN file.agents : file.agents[a] \in Config
  BY <1>1 DEF Config, Secret
<1>3. DOMAIN agents = {}
  <2>1. DOMAIN <<>> = {}
    OBVIOUS
  <2> QED  BY <2>1 DEF Init
<1>4. acked \in [Agent -> Answered] /\ \A a \in Agent : acked[a] = Unknown
  BY Distinct DEF Init
<1>5. boots \in 0 .. MaxBoot /\ faults \in 0 .. MaxFault
  <2>1. boots = 0 /\ faults = 0
    BY DEF Init
  <2> QED  BY <2>1, Bounds
<1>6. /\ phase = "down" /\ jwt = "" /\ pc = "off" /\ req = NoRequest
      /\ ok = FALSE /\ open = FALSE
  BY DEF Init
<1>7. TypeInv
  <2>1. file.start \in 0 .. MaxBoot
    BY <1>2, Bounds
  <2> QED  BY <1>2, <1>3, <1>4, <1>5, <1>6, <2>1 DEF TypeInv, Secret
<1>8. Serving /\ Held /\ Past /\ Saved
  BY <1>4, <1>6, Distinct DEF Serving, Held, Past, Saved
<1>9. AckedIsSaved
  BY <1>2, <1>4, Distinct DEF AckedIsSaved, CutByFault
<1> QED  BY <1>7, <1>8, <1>9 DEF IInv

LEMMA Inductive == IInv /\ [Next]_vars => IInv'
<1> SUFFICES ASSUME IInv, [Next]_vars PROVE IInv'
  OBVIOUS
<1>1. CASE Boot
  BY <1>1, BootKeeps
<1>2. CASE Signal
  BY <1>2, SignalKeeps
<1>3. CASE Shutdown \/ Crash
  BY <1>3, EndKeeps
<1>4. CASE Restore
  BY <1>4, RestoreKeeps
<1>5. CASE LoopTest \/ Accept \/ ReadRequest \/ ReadFails
  BY <1>5, IdleKeeps
<1>6. CASE HandleRead \/ HandleRefused
  BY <1>6, AnsweredKeeps
<1>7. CASE HandleCreate \/ HandleCreateFails
  BY <1>7, CreateKeeps
<1>8. CASE HandleStart \/ HandleStop \/ HandleConfig
  BY <1>8, StartKeeps
<1>9. CASE HandleRemove
  BY <1>9, RemoveKeeps
<1>10. CASE HandleStartFails
  BY <1>10, StartFailsKeeps
<1>11. CASE SaveOpen \/ SaveFails
  BY <1>11, OpenKeeps
<1>12. CASE SaveWrite \/ SaveShort \/ SaveThrows
  BY <1>12, WriteKeeps
<1>13. CASE Reply
  BY <1>13, ReplyKeeps
<1>14. CASE UNCHANGED vars
  <2>1. TypeInv' /\ Serving'
    BY <1>14 DEF vars, disk, IInv, TypeInv, Serving
  <2>2. Held' /\ Past' /\ AckedIsSaved'
    BY <1>14 DEF vars, disk, IInv, Held, Past, Matches, Confirmed, AckedIsSaved, CutByFault, At
  <2>3. Saved'
    BY <1>14 DEF vars, disk, IInv, Saved, Contents
  <2> QED  BY <2>1, <2>2, <2>3 DEF IInv
<1> QED  BY <1>1, <1>2, <1>3, <1>4, <1>5, <1>6, <1>7, <1>8, <1>9, <1>10, <1>11, <1>12,
            <1>13, <1>14 DEF Next, Api

\* The inductive invariant: types, what the thread serves, and that registry and
\* file both hold what the API has confirmed, so that the next persist of any
\* agent, and the next start, keep it.
THEOREM Invariance == Spec => []IInv
  BY Initially, Inductive, PTL DEF Spec

\* The registry's copy, the file and the API thread stay within their types
\* (bot_config.h, management_api.cpp).
THEOREM TypeCorrect == Spec => []TypeOK
<1>1. IInv => TypeOK
  BY DEF IInv, TypeInv, TypeOK, Entry, Answered
<1> QED  BY <1>1, Invariance, PTL

\* A file is cut only while it is written or by a fault, and an intact one has every
\* agent as the API last confirmed it, through restarts, crashes and saves that fail:
\* a removed one not at all, any other with enabled as confirmed, but for one
\* confirmed as disabled in a start before the one that saved last
\* (management_api.cpp:357-406, agent_registry.cpp:103-106, 315-325).
THEOREM AckedKept == Spec => []AckedIsSaved
<1>1. IInv => AckedIsSaved
  BY DEF IInv
<1> QED  BY <1>1, Invariance, PTL
===============================================================================
