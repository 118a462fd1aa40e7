# A TLA+ verification project for aestival

aestival is a QQ chat bot: C++ agents that receive messages over a websocket,
answer them with a language model that may call tools, and keep their
conversations in SQLite, plus a TypeScript backend and frontend for
administration. The repository has no test suite, so this project is where its
concurrent and stateful behaviour is written down and checked.

Paths below are relative to the repository root.

## 1. Inventory

### Components, their state and operations

| component | state | operations |
|---|---|---|
| `worker_pool` (core/src/worker_pool.cpp) | a slot per conversation: queue, mutex, condition variable, thread, stopping flag; `stopping_` | `start`, `enqueue`, `worker_loop`, `stop` |
| `agent_registry`, `agent_instance` (core/src/agent_registry.cpp) | map of agents: status, session, adapter, shared controller, alive flag | `start_all`, `stop_all`, `add_agent`, `remove_agent`, `start_agent`, `stop_agent`, `update_agent_config`, `persist` |
| `agent_controller` (core/src/agent_controller.cpp) | mode, administrators, tools, MCP clients, policy, context manager, pool | `handle_message` (I/O thread), `process_agent_message` and `tool_loop` (workers), asynchronous tool tasks, `notify_startup` (detached thread), destructor |
| `chat_context_manager`, `sqlite_backend` | the rows of each conversation, ordered by time stamp and id | `append_*`, `get_messages`, `summarize_with_model`, `summarize_if_needed`, `clear` |
| `policy_engine` | rate-limit map under a mutex; two atomics for the day's tokens | `check_input`, `check_llm_call`, `record_tokens`, `filter_output` |
| QQ session (platform/src/qq) | token and its refresh timer, session id, last sequence number, connection flags | coroutines `run`, `login_async`, `token_refresh_timer_loop`, `run_websocket_async`, `heartbeat_loop`; `start`, `stop` |
| `mcp_client` (core/src/mcp_client.cpp) | child process, two pipes, `io_mutex_`, next request id, `connected_` | `launch`, `perform_handshake`, `send_request`, `read_response`, `execute_tool` |
| `plugin_manager`, `plugin_config_sqlite`, `tool_registry` | registered plugins, `disabled_cache_` over a table; the tools a controller was built with | `dispatch_message`, enable and disable, `build_tools_json`, `execute` |
| `system_command_handler` | none of its own | the administrator's commands |
| `self_iteration_engine` (core/src/self_iteration.cpp) | nothing between runs; the files of the workspace and its repository, which the agents share unless configured apart | `run`, `dry_run`: sample, evaluate, plan, apply, commit |
| `management_api` (core/src/management_api.cpp) | listening socket, one thread, one connection at a time | HTTP routes over the registry, the plugins and the databases; `stop` |
| `bot_config` (core/config/bot_config.cpp) | `bot_config.json` | `load_bot_config`, `save_bot_config` |
| `main` (app/main.cpp) | the order of start and shutdown | load, `start_all`, API, wait for a signal, stop |
| webui backend: accounts (webui/backend/src) | SQLite tables of users, OAuth accounts, credentials; the nonces consumed, in memory; session cookies and state tokens outside | register, log in, OAuth with two providers, link, merge, unlink, set password, preset at boot |
| webui backend: the rest | nothing | proxy to the management API; log streaming; conversations |
| `http_client`, model clients, REST API, logging, monitor, frontend | connections, files | one request or report each |

### How they interact

* Each agent's session owns an I/O thread. Its coroutines call
  `on_message`, which converts the event and calls `handle_message` on a
  controller it has locked from a weak pointer. `handle_message` runs the
  policy, the commands and the plugins, then hands the message to the pool.
* A worker of the pool runs `process_agent_message`: append, summarise, ask the
  policy, `tool_loop` (which launches one asynchronous task per tool call and
  waits for all), append what came of it, reply through the adapter.
* Registry operations come from the accept loop of the management API, or from
  `main`; they hold the registry mutex and destroy and build the objects the
  other threads use. A detached thread announces a start three seconds later.
* Every confirmed change through the management API is persisted: the registry's
  configurations are written over `bot_config.json`, which the next start reads.
* The web backend sends its users' requests to the management API and repeats those
  that fail; it keeps its own database of accounts.
* The context manager is shared by the workers and by the I/O thread (command
  `clear`); the policy by all workers; the plugin manager by all agents.

### What is hard

Lifetimes (raw pointers and references next to one reference-counted object);
a destructor that joins threads and may run on any of them; a mutex given up in
the middle of an operation; time stamps that run ahead of the clock; two atomics
that must change together; condition variables with a flag set outside their
mutex; timers, retries and late answers in the session and the MCP client; a file that is
overwritten in place; requests that wait in an `await` while what they read is merged
away. The
full list is under `hazards` in `PROJECT.json`, each entry at its line with the
properties that would catch it, or a note saying why none does.

### What makes each component correct

* pool: every message once, in order, one at a time per conversation; nobody
  sleeps on work; `stop` drains and returns.
* registry: objects outlive their users; one session per agent; a controller
  dies with its messages processed; operations return.
* history: a `clear` wins over a summary in progress; one summary, in front;
  nothing forgotten by the fallback; the latest message survives.
* policy: what is added in a day is bounded, also when a reset erases it; each day starts
  from zero; the rate is bounded.
* self-iteration: a sample is a question and its answer; edits stay inside the
  whitelist, and none is lost on the way to the commit that reports it.
* session: a resume only with a session that was given and not rejected; every
  event dispatched once, in order, and in the end; a token that something will
  renew; a connection that comes back.
* turn: every call gets its own answer, whatever the server sends; one call is served
  at a time and a round waits for all of the last one; a plugin switched off handles
  nothing more; a turn ends.
* configuration: what the API has confirmed is in the file, through restarts and failed
  operations; a shutdown ends. Two exceptions are the code's: a fault during a save cuts
  the file, and a disabled agent is dropped by the first save of the next start.
* accounts: every user can log in; nothing belongs to a user that is gone; an identity
  changes hands only in a merge or an unlink by its owner.

## 2. Modules

| module | models |
|---|---|
| `SerialDelivery` | what worker_pool.h:23-33 promises, with neither threads nor locks |
| `WorkerPool` | worker_pool.cpp, and its refinement of `SerialDelivery` |
| `WorkerPool_proofs` | theorems about `WorkerPool`, with proofs |
| `AgentRegistry` | agent_registry.cpp with the threads it starts and the reference count |
| `AgentRegistry_proofs` | theorems about `AgentRegistry` and `SelfIteration`, with proofs |
| `ChatHistory` | chat_context_manager.cpp over chat_storage_sqlite.h, one conversation |
| `ChatHistory_proofs` | theorems about `ChatHistory`, with proofs |
| `DailyBudget` | the two atomics of policy_engine.cpp |
| `RateLimit` | the rate-limit map of policy_engine.cpp |
| `PolicyEngine` | `check_llm_call` over both, and the turns it admits |
| `Policy_proofs` | theorems about `PolicyEngine` and its halves, with proofs |
| `SerialCalls` | what mcp_client.h:35-37 and the tool loop promise about calls, with neither pipes, ids nor mutex |
| `McpClient` | one mcp_client: handshake, requests, lines, deadlines, against any server |
| `AgentTurn` | agent_controller from the message to the reply, with plugins, tools and `McpClient`, and its refinement of `SerialCalls` |
| `AgentTurn_proofs` | theorems about `AgentTurn`, with proofs |
| `SelfIteration` | the self_iteration_engine of each agent over the workspace they share |
| `AgentConfig` | the configuration: registry table, management API thread, file, restarts |
| `AgentConfig_proofs` | theorems about `AgentConfig`, with proofs |
| `WebAccounts` | users, identities, passwords and sessions of the web backend |
| `WebAccounts_proofs` | theorems about `WebAccounts`, with proofs |
| `QqSession` | run.cpp, auth.cpp, transport.cpp and stop() of session.cpp, against a gateway |
| `QqSession_proofs` | theorems about `QqSession`, with proofs |
| `MC*` | the instances TLC checks |

`map` in `PROJECT.json` gives the lines each definition stands for.

### WorkerPool

An action is what happens between two points where another thread can
intervene. `enqueue` is `EnqueueFind` or `EnqueueCreate` (under `map_mutex_`),
`EnqueuePush` (under the slot mutex) and `EnqueueNotify`; a worker is
`WorkerSleep`, `WorkerTake`, `WorkerDone`, `WorkerExit`; `stop` is `StopFlag`,
one `StopSignal` per slot and `StopJoin`. Slot objects have identities, so a
stale pointer and a second thread for a conversation can be expressed.
`accepted` and `processed` are history variables no action reads.

`stop` begins when no `enqueue` is under way (`NoCaller`). The code grants it: it is
called from `~agent_controller`, and who calls `enqueue` holds a reference to the
controller. `AgentRegistry` has that reference count and checks it
(`DestroyedOnlyUnused`).

Abstracted: the contents of messages, spurious wakeups (a woken worker tests the
condition again, so they add only stuttering), the read-only counters, and a
`std::thread` constructor that throws.

### AgentRegistry

One agent, built at most `MaxGen` times; a *generation* is the set of objects one
`build_agent` makes. `refs[g]` is the set of threads holding a `shared_ptr` to
the controller, the instance's own counted as `"api"`. `Release` is the heart of
the module: the last reference dropped puts its thread into the destructor
(`ctl[g] = "joining"`), where it stays until the pool's worker has drained its
queue and left. `api` is the registry operation under way, with the points where
it waits: the reset of the controller and the join of the I/O thread.

One worker with at most one tool task at a time stands for the pool (more workers
wait side by side and meet nothing new), and `backlog` for its queue.
A thread that joins itself (the worker in the destructor) would end the program
with an exception; here it stays in the destructor, which is what
`ResetSafeForAsyncUsers` looks for.

Registry operations do not interleave with each other: they hold the registry
mutex for their whole length.

### ChatHistory

A row is a record of its kind, the turn it belongs to, its size, its time stamp
and two history fields (the number of clears when it was stored, for a summary
when its prompt was read, and the set of messages its text covers; a reply that the
model began before a clear and the worker stores after it therefore counts as new, and
`ClearWins` does not speak of it). Helpers speak of positions: `Bytes(s, I)` and
`Covered(s, I)` are what the rows of `s` at the positions `I` amount to and carry, and
`At(s, I)` is those rows in their order; none of them recurses, so that proofs can
use them. `Inserted` is what an append followed by an ordered
load gives; `Saved` gives the i-th row the stamp `clock + i`. Every locked region
is one action; `summarize_with_model` is `Snapshot` and then `SaveSummary`,
`EmptySummary` or `SaveTruncated`, with the I/O thread's `Clear` between.
The turn's later appends are one `Store` each. The system clock may stand still
between two actions but is assumed not to go back.

Abstracted: texts (a size, and what they cover), user-defined system rows (the
code never stores one), the one tool result per round.

### DailyBudget, RateLimit, PolicyEngine

`DailyBudget` has an action per load, compare-exchange, store and addition, the
clock's day moving on between any two. `added` is a history: the tokens added since
midnight, whether a late reset has erased them from the counter or not; what is claimed
of a day (`SpentBounded`) is about it and not about the counter. `RateLimit` has an action per call, since the mutex covers it; it includes
the sweep and the fact that a refused call is counted. Both take the code's constants
as CONSTANTS.

`PolicyEngine` puts them together as `check_llm_call` does: a worker asks for the
budget, and only if that is not used up for the actor's rate (`CheckExhausted`,
`CheckAllowed`, `CheckLimited`). The rate is taken in the same step as the load of the
counter. In the code it follows a moment later, but between the two the worker touches
nothing others see, so every order of their effects is still a behaviour of the model.

### QqSession

All coroutines of a session share one I/O thread, so an action is the code between
two `co_await`s. `pc` says where `run()` waits (`"head"` is the loop test at
transport.cpp:51, `"pause"` any of its three delays), `hb` where the heartbeat loop
does, and `loops[g]` where the refresh loop of generation `g` does.
`close_websocket()` is synchronous: while `pc = "closing"` the thread runs nothing
else. `stop()` sets the flags on its own thread at once (`Stop`) and the rest follows
on the I/O thread (`Teardown`, `Halted`).

The gateway is external: `log[s]` is what the numbered frames of session `s` were,
`inbox` the frames on their way, `att` the session the connection belongs to. It may
have given a session up at any time, which only the answer to a Resume shows, so it is
decided there. A connection that is lost is reset (`"down"`) or falls silent; a silent
one fails only if bytes of the session wait for an acknowledgement (`unacked`), since
nothing else makes TCP give up. `handled`, `rejected` and `failed` are histories.

`Retry` waits until what was queued before its delay of three seconds or more has
run: the first step of a refresh loop, the failure of a heartbeat that `close()` cut
off. The io_context runs handlers in the order they become ready.

Abstracted: the lengths of delays and intervals, the token's text, the second Hello no
gateway sends, `is_open()` in the heartbeat loop (false only once the reader has seen
the failure too), an unusable gateway URL (the delay that follows is the same). The
registry starts a session object once, so `last_sequence_` and the session id begin
empty. Nothing calls `send_heartbeat`, `last_sequence` outside, or `is_connected`.

### McpClient, AgentTurn

`McpClient` has one caller per tool call and one, `Builder`, for the constructor's
handshake. `at[c]` says where a caller is: waiting for `io_mutex_`, writing, reading.
`Lock` takes the mutex and an id, `Write` puts the request into the pipe (a full pipe
blocks, with the mutex held and no deadline), and each line read is `ReadMine`,
`ReadForeign` or `ReadBad`, which also takes the caller's own result when it is not of
the form expected; `ReadEof` and `TimeOut` end the connection for good, as `Fails` does. The
server is any program: it answers in any order and as late as it likes, says things
nobody asked for, or exits. `from` in a message names the call it belongs to, which no
action of the client reads. Writing to a server that has exited raises SIGPIPE, which
nothing ignores: `killed`. `InitMcp` is what `launch()` leaves, failures included.

`AgentTurn` extends it with the controller: on the session's thread `Receive`, the
commands, `Dispatch` to the plugin and `Enqueue`; on the worker `Begin`, `AskTools`,
one task per call, `Gather` and `Answered`. Two requests to a provider are made with
nothing to end them for certain, the model's (`RequestFails`) and the one of the
command that asks for the usage (`UsageEnds`): "hung" is where their thread then
stays. `off` is the plugin's entry in `disabled_cache_`, `row` the database's,
`plugged` whether its tools were registered when the controller was built. `switched`
and `meant` are histories. The commands on agents find no registry, because
`handle_message` passes none (agent_controller.cpp:199), and only reply, "delete
database" too.

`SerialCalls` is the promise: calls are asked in rounds, one at a time is served, each
ends once, with its own answer, with what another kind of tool returned, or with an
error, and neither is a round gathered nor the next one asked before all have ended.
Under `PhaseOf` a call is asked from `AskTools` on, served from the moment it holds
`io_mutex_`, and ended when its task returns; the handshake is a stutter.

Abstracted: what a model says, tool schemas and results, the order of several plugins
(one stands for all), the second conversation (its tool calls queue for the same mutex
as those of the first).

### SelfIteration

`pc[e]` is where the engine `e` is in its run: sampling, verdict, plan, then for each
edit the reading of the file (`ReadFile`), the opening that empties it (`OpenFile`)
and the write (`WriteFile`), and the git commands: the files of the
workspace are added, then `bot_config.json` (`GitAddConfig`), which no edit touches, then
come the commit and the reading of the head. Nothing is locked from one to
the next, so the run of another agent comes between any two, over the same files
`ws`, `index` and `head`. `plan` is what is left to apply and `count` what the report
will say. Any read or write may fail (`MaxFault`), and so may git, which nobody
looks at. `mine` and `alone` are histories: the texts a run has put into each file, and
the files no other run has touched since it began and nothing has failed in.

`Samples` is the scan of the history: `Pass[i]` is the list built and the question
still open after the first `i` rows, as the loop's variables are. `Allowed` is the
parser's whitelist and `Place` where an edit's text is found.

Abstracted: a text is a token, an edit looks for one token and puts another (or
nothing, or at the end), and the rows and what `claude` says are any.

### AgentConfig

`agents` is the registry's table and `file` what `bot_config.json` holds: whether it is
whole, each agent's `enabled`, one secret per agent and the API's own. `pc` is the
API thread from the loop test over `accept` and the request to the answer; persisting
is `SaveOpen`, which empties the file, and `SaveWrite`, so that a crash, a file that
cannot be opened, a full disk and a text that cannot be written come in between
(`MaxFault`). `Loaded` and `Written`
are what `safe_string()` and `to_json()` do to a secret. `Boot`, `Signal` and
`Shutdown` are main. `acked` is a history: what the last answer "ok" about an agent
said of it and in which start, forgotten when the next operation on that agent begins;
`file.start` is one too, the start that wrote the file. The operator may
put the secrets back into the file between two runs (`Restore`).

Abstracted: the other fields of a configuration, tokens and paths (a refused request
is any), what a start does to threads (`AgentRegistry`).

### WebAccounts

Node runs a handler up to its next `await`, so an action is the code between two of
them, and `req[b]` what the waiting request keeps. One request per browser is enough:
two browsers may be the same person. User ids are numbered in the order they are given
out; names share one base, which is where they collide. Cookies are kept by the browsers,
through restarts and through the merge of the user they name. A state token is good for
ten minutes, at the callback of either provider and from any browser, since nothing
compares what it says of its provider; it is consumed by its first use (`Verified`), but
the nonces consumed are in memory and a restart makes it good again (`Forgotten`).
`cut` is a history: users whose second insert failed.

Abstracted: hashes, tokens and profiles; which row of a provider an unlink takes (the
code leaves the order open, so any).

## 3. Runs

| run | instance | shows |
|---|---|---|
| `worker_pool` | 2 conversations, 3 messages, 2 callers, 3 slots | order, exclusion, wakeups, draining, refinement with liveness |
| `agent_registry` | the agent built twice, one message queued at a time | lifetimes, one session, every operation returns |
| `chat_history` | 3 turns, one clear, sizes 1 and 3, threshold 4, two rows kept | summaries against clears and time stamps |
| `policy_engine` | 2 workers, 2 actors, budget 1, limit 1, window 2, one midnight, sweep from the second entry | the rate under the sweep, whichever of the two limits refuses; what is added in a day, erased or not; the reset |
| `self_iteration` | 2 engines, 2 runs, 3 rows of 2 conversations, 2 edits, one fault | samples, the whitelist, edits lost between files and commit |
| `qq_session` | two faults, one refresh, two events | resumes, dispatch, refreshes, reconnects |
| `web_accounts` | 2 browsers, 3 identities at two providers, 2 users, one state token at a time, one restart | references, logins, who owns an identity |
| `agent_config` | 2 agents, 3 starts, one fault | what is confirmed is in the file, but for cut files and disabled agents; the shutdown ends if no peer holds the thread |
| `agent_turn` | 3 calls, at most 2 at once, 2 rounds, 2 messages, one switch, one line of noise | own answers, the plugin switch, refinement of `SerialCalls`, the end of a turn if the server does not stop reading for good |
| `registry_reset`, `chat_question`, `config_secrets` | equal or smaller | the disagreements of section 6 |

Why the bounds are enough: two conversations and a message without a key make the pool
share nothing and everything; three messages let one wait behind one in progress; a
third slot object would be used only by an incorrect pool. Two generations are what a
stale thread needs to meet new objects; `backlog` of one keeps the worker busy while
the destructor waits. Three turns are the least in which a summary is summarised
again, with two rows kept of more. Two workers and a midnight let one that is late set
the day back, and both are past the check of a budget of one; two actors pass the
sweep's threshold while both are inside windows, and five seconds pass two windows and
the stale limit. Larger budgets, limits and more days are what the theorems are for.
Three rows are a question, its answer and a row of another conversation between them;
with two edits a run reads back what it wrote itself, and two runs go side by side or
one after the other. Two faults let a reconnect or a replay be cut off in turn, and
two events make order and gaps visible; a refresh meets the login of a reconnect. Two
browsers are what it takes for a merge to pass under a waiting request; with two users
one is merged into the other, and with three identities two of them are at one
provider and one elsewhere; one state token at a time lets two logins wait for their
providers side by side, since it is consumed before that, and the proofs are for any
number of tokens. Two agents are one that is changed and one that must stay
as it was; three starts are a start, one that reads back what was saved, and one after
a fault. Three calls are a round of two in parallel and a later one that finds a late
answer; a pipe of one request makes writers wait; one switch is enough for a cache to
differ from its table. Every action fires in these instances, and every property is
violated by some mutated definition (listed under `mutants`).

Deadlock is not checked: the pool stops, agents may be left stopped, and the
bounded clocks and turns end. The liveness properties say what must not stop.

### Fairness

* `WorkerPool`: weak fairness of every thread's step once begun. That the processor
  returns is an assumption: tool calls have deadlines, but a model request may hang
  (`AgentTurn`). Nothing obliges messages
  to arrive or `stop` to be called.
* `AgentRegistry`: weak fairness of each thread; strong fairness of `WorkerReply`,
  because `tool_loop` is bounded by `k_safety_limit` and so a worker cannot choose
  another round for ever (with the same assumption about a single request); strong
  fairness of `IoEnd`, because the posted end of
  the I/O context is queued behind finitely many handlers. The platform and the
  administrator are not fair.
* `QqSession`: weak fairness of the ready steps of the I/O thread, of requests and
  connections that do not hang, of the gateway's answers and of TCP giving up. A
  request that hangs is an action of its own (`Hang`), since no request has a deadline,
  and `Reconnects` excepts that state by name. Faults are bounded in number, so that
  what is checked is the code's recovery and not the network's mercy; the refresh
  timer, events and `stop()` are not fair.
* `AgentConfig`: weak fairness of the API thread outside `accept()` and `read()`, and of
  the shutdown. Those two wait for a peer (`Waiting`), and no peer is obliged to anything:
  the acceptor is closed at the shutdown, which does not wake a thread that is inside
  `accept()`, and a connection that stays silent is read from without a limit. So
  `ShutdownEnds` supposes that the thread is outside them again and again; with the web
  backend running it is, because that polls the API and gives each request up after
  fifteen seconds (proxy.ts:300-308). Signals, crashes and starts are not fair.
* `AgentTurn`: weak fairness of the worker, whose request to the model ends or is hung
  for good (the timeout is set after the handshake, and Asio goes on with a blocking
  read that timed out; `TurnEnds` excepts that state by name), and of every caller,
  whose deadline is one of its steps. The server is not fair in anything: it may be
  silent, and it may stop reading, which blocks the caller that writes into the full pipe
  with `io_mutex_` held (`Blocked`), for ever if the server lives (mcp_client.cpp:279).
  `TurnEnds` supposes that this is never for good; without that hypothesis TLC finds the
  turn that does not end. Messages and switches are not fair.
* The other modules state safety only.

## 4. Proofs

`WorkerPool_proofs` proves, for every set of conversations, messages, callers and
slots and every assignment of keys that satisfies `PoolAssumption`:

* `Invariance`: `Safety => []IInv`, the inductive invariant;
* `TypeCorrect`, `ExactlyOnceInOrder`, `PointersValid`, `WakeupsKept`: its conjuncts
  that runs check;
* `SerialPerConversation`, and `StopDrainsQueues` (`StopDrains`, which no run checks by
  itself: the refinement and `Accounted` imply it), consequences of it;
* `Implements`: `Safety => Abstract!Safety`, the refinement of `SerialDelivery`.

Neither exclusion nor draining is inductive. That two threads never process one
conversation needs: a live slot's thread was started for its conversation and has
not left (`SlotHome`), a slot outside `slots_` is unused or joined and empty
(`NoOrphan`), a thread holds a message exactly when busy and leaves only when
drained (`ThreadState`). That pointers stay valid needs: once stopping, nobody is
inside `enqueue` (`StopState`). The order of messages (`Accounted`) then follows
step by step: the lemmas `PushView`, `TakeView`, `DoneView` and `JoinView` say
what each step does to the queue and the message in progress as seen from outside,
and both `Accounted` and the refinement use them. `NoLostWakeup` is inductive given
the rest: whoever makes a sleeper's condition true is bound to notify it.

`AgentTurn_proofs` proves, for any number of calls, messages, rounds and switches and
any pipe: `TypeCorrect`, `AnswersAreOwn` (`OwnAnswer`) and `SwitchesObeyed`
(`SwitchedOffIsOff`). That an answer is the caller's own is not inductive. It needs
that one caller at a time writes or reads and that it is the one holding the mutex
(`Exclusive`); that ids are below the next one, that nothing in a pipe or with the
server has the id of a request still to be written, and that what has the id a caller
reads for is about that caller's request (`Ids`). The type invariant is as little
inductive: that `round` stays within the limit needs that the worker asks only while
rounds are left (`Rounds`), that a queue holds no more than was received needs
`Counted`. `Switches` says what the histories know about cache and table.

`CallsSerial` (`ImplementsSerialCalls`) is the refinement of `SerialCalls`: `StepRefines`
maps every step to one of the promised ones or to none. That only one call is served is
`Exclusive` again. Two facts are added to the invariant, and TLC checked both on the
run's instance first: calls enter the client only once the handshake is over, and those
that write or read have an id (`Handshake`), or the release of the mutex after the
handshake's notification would be one in the middle of a call; and a call outside the
round in progress has no task and no result, the round being empty unless the worker
waits for it (`RoundsApart`). Steps of the server change nothing the promise speaks of.

`AgentConfig_proofs` proves, for any agents, any number of starts and any number of
faults: `TypeCorrect` and `AckedKept` (`AckedIsSaved`): a file is cut only by a fault; a
whole one has no agent confirmed as removed, and has every other confirmed agent with
`enabled` as it was confirmed, except one confirmed as disabled in an earlier start than
the one that saved it. The file alone does not carry the argument, because each persist
writes all agents anew: the registry must hold what was confirmed too (`Held`), or
persisting one agent would take back another. `Saved` adds that a file being written is
not whole, and that one just written, for an answer not yet given, is what the registry
holds; `Past`, that nothing is confirmed of a start to come. A start keeps `Held` because
an agent left enabled is loaded from the file, and one left disabled was confirmed before
it. The lemma `Changed` is the common core of the six handlers that change the table.

`WebAccounts_proofs` proves, for any browsers and identities and any number of users and
restarts: `TypeCorrect`, which includes that nothing refers to a user that is not there,
`LoginsKept` (`EveryoneCanLogIn`) and `IdentitiesKept` (`IdentityStays`), whatever number
of state tokens is about.

`AgentRegistry_proofs` proves, for any number of builds and messages: `TypeCorrect`,
`DestructionSafe` (`DestroyedOnlyUnused`), `SessionsApart` (`OneSession`) and
`PointersHold` (`HandlersHaveObjects`). The invariant says of every generation who holds
which reference, read off where each thread is (`Held`); that a controller with a
reference is alive, and one that is gone has a worker that has left with nothing
queued (`Lives`); that a task runs only while the worker waits for it (`Waits`); and
that an I/O thread runs only for the generation the instance points to (`Serves`),
so that there is one session at most. `Registry` says the same of the operation under
way, and `Fresh` that a generation not yet built has nothing.

Its second part proves of `SelfIteration`, for any engines, files, texts, whitelist and
rows and any number of edits, runs and faults: `IterationTypeCorrect`, `EditsStay`
(`EditsKept`) and `SamplesPaired` (`SamplesAreExchanges`). That the edits are in what a
run commits is not inductive: between the write and the commit they are in turn in the
text the run is about to write, in the file, in git's index and in the head.
`IterationInv` follows them there for the files the run has alone (`OwnEdits`), with what
has been counted (`Counted`); `StepBeside` says what a step of another engine leaves of
that, and `OthersKeep` that it is enough. TLC checked `IterationInv` on the instance of
the run `self_iteration` before it was proved. That samples pair
a question with its answer is a statement about every row of a scan, which the library's
induction cannot give; it follows from the least row that would break it
(`LeastNatural`, `PassExists`, `TakeSound`).

`QqSession_proofs` proves, for any number of faults, refreshes and events: `TypeCorrect`,
`EventsDispatchedOnce` (`EventsOnce`), `ResumesLive` (`ResumeOnlyLive`) and
`RefreshContinues` (`RefreshAlive`). That events are dispatched once and in order has
nothing inductive about it: it rests on what is on the wire. Frames and requests travel
only on a connection that is read (`Carries`), a request speaks for the session as it is
and nothing precedes its answer (`Asks`, `Opens`, `Took`), a connection that is bound to
a session brings its frames in order from the one after the last taken and leaves
out no event (`Bound`, `Stream`), and so what is dispatched of any session is exactly
its events up to some number (`Caught`, `Known`).

`Policy_proofs` proves, for any finite set of workers, any actors, budget, limits,
rounds and days: `Halves`, every behaviour of `PolicySpec` is one of `DailyBudget` and
one of `RateLimit`, and from the invariants of the halves `TypeCorrect`, `RateKept`
(`RateBounded`), `BudgetKept` (`SpentBounded`) and `DaysApart` (`NothingCarriedOver`).
For the rate, an entry says how many of the calls allowed fall into its window and into
the one before (`Fits`), and an actor without an entry, never called or swept, has
only calls older than a window (`Past`); that is where `Stale >= 2 * Window` is needed.
For the budget, nobody is ahead of the calendar (`NotAhead`), what is counted from
before the mark has a worker about to erase it (`Renewed`), and what was counted beyond
the budget is paid for by rounds already spent, so that the counter never holds more than
`Overshoot` (over the set `Spent`). What was added in a day is what the counter holds and
what resets have erased of it, at most `Overshoot` each (`Erased`), so it remains to bound
the resets of a day. A worker that is behind the calendar may set the mark back and so
cost two, its own and the one that follows; one about to store costs one (`Owed`). The
day's own reset apart, a worker that begins within the day owes nothing, because an
exchange is tried only where the mark differs from the day that was read (`Differs`).
`Settled` is what is no longer owed, and `LessOwed` that a step which settles nothing new
costs nothing. Hence the factor of two for every worker, and two more. The bound is not the least: in
the instance a day adds at most half of it.

`ChatHistory_proofs` proves, for any sizes, limits and numbers of turns and clears:
`TypeCorrect`, `ClearStays` (`ClearWins`), `SummaryStaysFirst` (`SummaryFirst`) and two
action properties, `NothingForgotten` (`FallbackForgetsNothing`) and `EndStays`
(`EndKept`). Beside the properties the invariant needs that the first row is never
stamped with a time to come (`FirstPast`), or a message could sort before the summary,
and that while the model works the rows of the snapshot are all there or cleared
(`Snapped`), or its summary could be of something else than what it replaces. The
lemmas say what the operators do to any history: `InOrderLists` and `AtRows` (the rows
at given positions), `InsertedKeeps`, `SavedKeeps`, `ReducedIs`, `ShortenedIs` and
`FittingLast`.

What is assumed is the named assumptions on the constants, which TLC evaluates in the
runs: naturals as bounds, a pipe that holds something, a limit of at least one round,
finitely many identities or workers, a truncated summary below the threshold.

Model-checked only: liveness (`RegistryReturns`, `Reconnects`, `EventsArrive`,
`ShutdownEnds`, `TurnEnds` and the liveness part of `ImplementsSerialDelivery`), which
is beyond the prover.

## 5. Not modelled

* Texts: prompts, replies, patterns of `check_input`, filtering, formatting, JSON, HTTP.
* `http_client`, REST API: an outside call answers or fails. Of the model clients, what
  they send and read. Log, monitor, console, agent-reach, the proxy and the frontend
  only report or pass on.
* `should_run_auto` of the self-iteration engine, which nothing calls, and its reports.
* Database errors (except a failed write of a plugin switch and a cut user creation) and
  crashes of the bot outside `AgentConfig`; a thread that cannot be created.
* Two context managers on one database after a restart, several agents on one database,
  and what "delete database" leaves of it.
* What `dispatch_event` parses, the lengths of the session's delays, an expired token.
* Which tool messages belong together in a history.
* The Windows build of `mcp_client` and its destructor.

## 6. Where the code and its comments disagree

* `registry_reset` (agent_registry.cpp:136): a reset is not safe for every
  asynchronous user: the tool task that drops the last reference waits for the
  worker that waits for it.
* `chat_question` (chat_storage_sqlite.h:149, chat_context_manager.cpp:19): a
  message appended within milliseconds of a save sorts before the saved rows,
  and the next summary may drop it, the latest of all.
* `config_secrets` (bot_config.cpp:15, 233): saving writes a sentinel over every secret
  in the only file that has them. The comment speaks of a value in memory that is
  preserved, but the next start begins with an empty configuration, so agents have no
  secret and the management API is not started.

Seen while modelling, not stated as a run:

* docs/REVIEW-2026-07-23.md:443 lists atomic configuration writes (a temporary file, then
  a rename) as kept; the file is opened, and so emptied, in place, and a fault before the
  write has ended leaves the next start without a configuration (bot_config.cpp:331-336).
  `AckedIsSaved` says that nothing but such a fault cuts the file (`CutByFault`).
* policy_engine.h:50 has the budget enforced before every API call; it is asked for once
  per message, and the rounds of the tool loop go on beyond it (agent_controller.cpp:260,
  335-347). `Overshoot` counts those rounds.
* The announcing thread keeps the controller alive but sends through the adapter, which
  a removal or a restart destroys (agent_registry.cpp:407-411).
* Tokens added between the winner's compare-exchange and its store are erased
  (policy_engine.cpp:24, 31). The day may then spend up to the bound again.
* Saving drops the timeouts of MCP servers, which are read but never written
  (bot_config.cpp:287-303), and a text that is not UTF-8 makes the save throw after the
  file was emptied: the answer is an error and the file is cut (`SaveThrows`). A full disk
  cuts it too, and the answer is ok (`SaveShort`).
* An MCP server that lives and does not read what is written to it holds the caller, the
  mutex and the turn for ever (mcp_client.cpp:279).
* A state token names its provider and nothing compares it; after a restart of the backend
  a token already used is accepted again for the rest of its ten minutes (oauth.ts:32,
  62-82).
* The heartbeat that is to replace a read timeout starts only after Hello, and keepalive
  is never switched on; a peer that vanishes before is waited for without end
  (ws_client.cpp:51-52).
* A refresh login that fails is not repeated (auth.cpp:139-140); the count of reconnects
  is never reset (run.cpp:55).
* The command `stop` leaves the status `running`, so the agent starts again only after a
  stop through the API. The token budget counts neither summaries nor completions
  without tools.
* A write to an MCP server that has exited ends the bot (SIGPIPE); an empty line, a line
  that is no object or the error of another request ends the connection for good
  (mcp_client.cpp:279, 387, 466-469).
* Callers with a cache are to update it after every successful write
  (plugin_config_sqlite.h:28-29); the plugin manager updates it first, and a write that
  fails is only logged (plugin_manager.h:76-90). In `AgentTurn` the switch then holds
  until the restart (`Stored`).
* The command that switches a plugin does so for the agent "default", whichever agent
  got it (system_command_handler.cpp:381).
* Storing a plugin's configuration answers ok and stores nothing
  (management_api.cpp:786-796).
* When the tool loop ends without an answer, the reply is the last one of an earlier turn
  (agent_controller.cpp:283).
* `start_all` leaves disabled agents out of the registry, and the next persist drops them
  from the file (agent_registry.cpp:103).
* "delete database" asks a registry it is never given, and unlinks the file under open
  connections; "self-iterate" runs on the session's I/O thread until it has finished
  (system_command_handler.cpp:225, 264).
* The rejection of the preset's password, when its user has been merged away meanwhile,
  ends the backend process (credentials.ts:180, index.ts:139-146).
* The sampling takes any row of the assistant for the reply, also one that only calls
  tools, and then drops the reply itself (self_iteration.cpp:162,
  chat_context_manager.cpp:67); with conversations interleaved it loses pairs, since
  there is one pending slot for all (147-180).
* An evaluation that is missing or cannot be read counts as four zeros, and so leads to
  an improvement (self_iteration.cpp:396-442).
* Two agents with the default workspace lose each other's edits; a write that fails
  leaves an empty file, which is committed; the hash reported is that of the head, also
  if the commit failed (self_iteration.cpp:595-601).
* `http_utils.h` and deepseek.cpp:44 say their timeout prevents a thread from blocking
  indefinitely. It is set after the handshake, and it does not end a blocking read of
  Asio, which waits again.
* A merge takes as its source any user the request names (accounts.ts:255).

## 7. Plan

Done: everything listed under modules, with the proofs of section 4. Left, in order:

1. Two context managers on one database after a restart (`ChatHistory` composed with
   the generations of `AgentRegistry`), with database errors, and "delete database".
2. `ChatHistory` with the identity of calls and results, for what a clear or a cut
   between them leaves behind.
