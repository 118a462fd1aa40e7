------------------------------ MODULE DailyBudget ------------------------------
(* The daily token budget of policy_engine: tokens_used_today_ and             *)
(* token_check_day_, two atomics the workers of a pool read and write without  *)
(* a lock.  Each load, compare_exchange, store and fetch_add is an action.  A  *)
(* worker asks check_llm_call() once per message and then records the tokens   *)
(* of every round of that message's tool loop.                                 *)
EXTENDS Naturals, FiniteSets

CONSTANTS Worker,
          Budget,      \* daily_token_budget, > 0
          MaxRounds,   \* k_safety_limit: rounds of one message
          MaxTokens,   \* bound: most tokens one round uses
          MaxDay       \* bound: the last day of the year looked at

ASSUME BudgetAssumption ==
    /\ IsFiniteSet(Worker)
    /\ Budget \in Nat \ {0}
    /\ {MaxRounds, MaxTokens, MaxDay} \subseteq Nat \ {0}

VARIABLES
    day,        \* the calendar's day of the year
    checkDay,   \* token_check_day_
    used,       \* tokens_used_today_
    op,         \* what each worker is about: "check" or "record"
    pc,         \* "idle", "clock", "load", "cas", "store", "act", "turn"
    today,      \* atomic_day_reset: today
    expected,   \* atomic_day_reset: expected
    left,       \* rounds the worker's message may still take
    added       \* history: tokens added since midnight

vars == <<day, checkDay, used, op, pc, today, expected, left, added>>

Init ==
    /\ day \in {0, 1}
    /\ checkDay = 0
    /\ used = 0
    /\ op = [w \in Worker |-> "check"]
    /\ pc = [w \in Worker |-> "idle"]
    /\ today = [w \in Worker |-> 0]
    /\ expected = [w \in Worker |-> 0]
    /\ left = [w \in Worker |-> 0]
    /\ added = 0

Goto(w, label) == pc' = [pc EXCEPT ![w] = label]
-------------------------------------------------------------------------------
(* atomic_day_reset().                                                         *)

\* Its locals end with it.
Return(w) ==
    /\ Goto(w, "act")
    /\ today' = [today EXCEPT ![w] = 0]
    /\ expected' = [expected EXCEPT ![w] = 0]

ReadClock(w) ==
    /\ pc[w] = "clock"
    /\ today' = [today EXCEPT ![w] = day]
    /\ Goto(w, "load")
    /\ UNCHANGED <<day, checkDay, used, op, expected, left, added>>

Fresh(w) == checkDay = today[w]

LoadDay(w) ==
    /\ pc[w] = "load"
    /\ IF Fresh(w)
       THEN Return(w)
       ELSE /\ expected' = [expected EXCEPT ![w] = checkDay]
            /\ Goto(w, "cas")
            /\ UNCHANGED today
    /\ UNCHANGED <<day, checkDay, used, op, left, added>>

\* compare_exchange_strong: the loser goes on without the reset.
CompareExchange(w) ==
    /\ pc[w] = "cas"
    /\ IF checkDay = expected[w]
       THEN checkDay' = today[w] /\ Goto(w, "store") /\ UNCHANGED <<today, expected>>
       ELSE UNCHANGED checkDay /\ Return(w)
    /\ UNCHANGED <<day, used, op, left, added>>

\* Mutant of AfterStore: the winner does not store.
StoreForgotten(n) == n

AfterStore(n) == 0

StoreZero(w) ==
    /\ pc[w] = "store"
    /\ used' = AfterStore(used)
    /\ Return(w)
    /\ UNCHANGED <<day, checkDay, op, left, added>>
-------------------------------------------------------------------------------
(* check_llm_call(), tool_loop() and record_tokens().                          *)

\* A message reaches the worker's check.
BeginCheck(w) ==
    /\ pc[w] = "idle"
    /\ op' = [op EXCEPT ![w] = "check"]
    /\ Goto(w, "clock")
    /\ UNCHANGED <<day, checkDay, used, today, expected, left, added>>

Exhausted == used >= Budget

Asked(w) == pc[w] = "act" /\ op[w] = "check"

Admit(w) ==
    /\ Asked(w)
    /\ ~ Exhausted
    /\ left' = [left EXCEPT ![w] = MaxRounds]
    /\ Goto(w, "turn")
    /\ UNCHANGED <<day, checkDay, used, op, today, expected, added>>

\* The budget is used up, or the rate limit, asked next, refuses (PolicyEngine).
Reject(w) ==
    /\ Asked(w)
    /\ Goto(w, "idle")
    /\ UNCHANGED <<day, checkDay, used, op, today, expected, left, added>>

\* Mutant of RoundsLeft: the loop has no limit.
RoundsUnlimited(w) == TRUE

RoundsLeft(w) == left[w] > 0

\* Mutant of OneLess: the loop does not count its rounds.
OneLessNever(n) == n

OneLess(n) == n - 1

\* The model has answered; its usage is recorded.
BeginRecord(w) ==
    /\ pc[w] = "turn"
    /\ RoundsLeft(w)
    /\ op' = [op EXCEPT ![w] = "record"]
    /\ left' = [left EXCEPT ![w] = OneLess(@)]
    /\ Goto(w, "clock")
    /\ UNCHANGED <<day, checkDay, used, today, expected, added>>

\* tokens_used_today_.fetch_add().
Add(w, n) ==
    /\ pc[w] = "act"
    /\ op[w] = "record"
    /\ used' = used + n
    /\ added' = added + n
    /\ op' = [op EXCEPT ![w] = "check"]
    /\ Goto(w, "turn")
    /\ UNCHANGED <<day, checkDay, today, expected, left>>

\* The message is done, after any number of rounds.
EndTurn(w) ==
    /\ pc[w] = "turn"
    /\ left' = [left EXCEPT ![w] = 0]
    /\ Goto(w, "idle")
    /\ UNCHANGED <<day, checkDay, used, op, today, expected, added>>

Midnight ==
    /\ day < MaxDay
    /\ day' = day + 1
    /\ added' = 0
    /\ UNCHANGED <<checkDay, used, op, pc, today, expected, left>>

Next ==
    \/ Midnight
    \/ \E w \in Worker :
          \/ ReadClock(w) \/ LoadDay(w) \/ CompareExchange(w) \/ StoreZero(w)
          \/ BeginCheck(w) \/ Admit(w) \/ Reject(w) \/ BeginRecord(w) \/ EndTurn(w)
          \/ \E n \in 1 .. MaxTokens : Add(w, n)

Spec == Init /\ [][Next]_vars
-------------------------------------------------------------------------------
TypeOK ==
    /\ day \in 0 .. MaxDay
    /\ checkDay \in 0 .. MaxDay
    /\ used \in Nat
    /\ op \in [Worker -> {"check", "record"}]
    /\ pc \in [Worker -> {"idle", "clock", "load", "cas", "store", "act", "turn"}]
    /\ today \in [Worker -> 0 .. MaxDay]
    /\ expected \in [Worker -> 0 .. MaxDay]
    /\ left \in [Worker -> 0 .. MaxRounds]
    /\ added \in Nat

\* Check and record are apart, so the counter can pass the budget by what the
\* messages already past the check can use.
Overshoot == (Budget - 1) + Cardinality(Worker) * MaxRounds * MaxTokens

\* What is added from one midnight to the next, erased or not, stays bounded
\* however loads, exchanges and stores of the workers fall.  A reset erases what
\* the counter holds, at most Overshoot, and then workers are admitted again; but
\* a day has few: each worker may be inside since before midnight, and set the
\* day back, after which one more call resets, and the day has one of its own
\* (policy_engine.cpp:26-35, 143-151, 241-244; agent_controller.cpp:260, 335-338).
SpentBounded == added <= (2 * Cardinality(Worker) + 2) * Overshoot

Quiet == \A w \in Worker : pc[w] \in {"idle", "turn"}

\* No day starts with the tokens of the one before: once the day is marked as
\* reset and no worker is inside, nothing is counted that was not added since
\* midnight (policy_engine.cpp:26-35).
NothingCarriedOver == Quiet /\ checkDay = day => used <= added
===============================================================================
