------------------------------ MODULE ChatHistory ------------------------------
(* The stored history of one conversation: chat_context_manager over           *)
(* sqlite_backend, as the conversation's worker (agent_controller::            *)
(* process_agent_message) and the I/O thread (the command "clear") use it.     *)
(*                                                                             *)
(* Every call on the manager holds its mutex, so it is one action; only        *)
(* summarize_with_model gives the mutex up, while the model writes the         *)
(* summary.  A row is [kind, turn, size, at, epoch, covers]: what it is, the   *)
(* turn of the worker that made it, its size in units, its created_at, and two *)
(* history fields no code reads: how many clears had happened when it was      *)
(* stored (a summary: when its prompt was read), and the messages it carries.  *)
EXTENDS Naturals, Sequences, FiniteSets

CONSTANTS Size,        \* sizes of a message or of a model's summary
          Threshold,   \* kMaxTotalBytes
          PromptMax,   \* kConcatMaxBytes
          KeepLast,    \* kKeepLast
          TruncMax,    \* k_summary_truncate_bytes
          MaxTurn, MaxClear, MaxClock   \* bounds

ASSUME HistoryAssumption ==
    /\ Size \subseteq Nat \ {0}
    /\ {Threshold, PromptMax, KeepLast, TruncMax, MaxTurn, MaxClear, MaxClock} \subseteq Nat
    /\ KeepLast > 0 /\ TruncMax < Threshold

VARIABLES
    rows,      \* the conversation's rows, ORDER BY created_at, id
    clock,     \* the system clock, in milliseconds; assumed not to go back
    clears,    \* clears so far
    pc,        \* the worker: "idle", "summarise", "model", "ready", "storing"
    turn,      \* the worker's current turn
    before,    \* msg_count_before
    promptOf,  \* [epoch, covers] of the prompt the model summarises
    pending    \* kinds of the messages the turn has yet to store

vars == <<rows, clock, clears, pc, turn, before, promptOf, pending>>

\* What a turn may leave to store: nothing (an exception, a refusal, no answer),
\* an answer, the tool messages of a round (answer silent or filtered), or both.
Outcome == { <<>>, <<"reply">>, <<"call", "tool">>, <<"call", "tool", "reply">> }

Init ==
    /\ rows = <<>>
    /\ clock = 0
    /\ clears = 0
    /\ pc = "idle"
    /\ turn = 0
    /\ before = 0
    /\ promptOf = [epoch |-> 0, covers |-> {}]
    /\ pending = <<>>
-------------------------------------------------------------------------------
(* sqlite_backend.                                                             *)

Row(kind, n, size) ==
    [kind |-> kind, turn |-> n, size |-> size, at |-> clock, epoch |-> clears,
     covers |-> {<<kind, n>>}]

\* The positions of a set, from the least to the greatest.
InOrder(S) ==
    [k \in 1 .. Cardinality(S) |-> CHOOSE n \in S : Cardinality({m \in S : m <= n}) = k]

\* The rows of s at the positions I, in their order.
At(s, I) ==
    LET order == InOrder(I)
    IN  [k \in DOMAIN order |-> s[order[k]]]

\* Mutant of Inserted: load() orders by id alone.
InsertedById(s, r) == Append(s, r)

\* append_message(): stamped now; load() sorts it after every row not younger.
Inserted(s, r) ==
    At(s, {i \in DOMAIN s : s[i].at <= r.at}) \o <<r>> \o At(s, {i \in DOMAIN s : s[i].at > r.at})

\* save(): every row written again, the i-th stamped now + i.
Saved(s) == [i \in DOMAIN s |-> [s[i] EXCEPT !.at = clock + i - 1]]
-------------------------------------------------------------------------------
(* chat_context_manager.                                                       *)

Messages(s) == {i \in DOMAIN s : s[i].kind # "summary"}
Summaries(s) == DOMAIN s \ Messages(s)

\* The sizes of the rows of s at the positions I added up, and what they carry.
Bytes(s, I) == Cardinality(UNION {{i} \X (1 .. s[i].size) : i \in I})
Covered(s, I) == UNION {s[i].covers : i \in I}

Summary(size, epoch, covers) ==
    [kind |-> "summary", turn |-> 0, size |-> size, at |-> clock, epoch |-> epoch,
     covers |-> covers]

\* The row whose text goes in front: the last summary there is, if any.
Previous(s) == {i \in Summaries(s) : \A j \in Summaries(s) : j <= i}

\* What the model reads: the previous summary and the first messages, as far as
\* the one that takes the prompt past PromptMax.
Prompt(s) ==
    Previous(s) \cup
        {i \in Messages(s) : Bytes(s, Previous(s) \cup {j \in Messages(s) : j < i}) <= PromptMax}

\* The first row kept, counting from 0, of n.
KeepStart(n) == IF n > KeepLast THEN n - KeepLast ELSE 0

\* Mutant of Kept: the oldest messages are kept, not the latest.
KeptFirst(s, n) == At(s, {i \in Messages(s) : i <= n /\ i <= KeepLast})

\* The messages among the last KeepLast of the first n rows.
Kept(s, n) == At(s, {i \in Messages(s) : KeepStart(n) < i /\ i <= n})

\* Mutant of Reduced: the new summary is pushed behind what is kept.
SummaryPushedLast(s, n, size) ==
    Kept(s, n) \o <<Summary(size, promptOf.epoch, promptOf.covers)>>
    \o SubSeq(s, n + 1, Len(s))

\* What the model's summary of the first n rows of s leaves of s.
Reduced(s, n, size) ==
    <<Summary(size, promptOf.epoch, promptOf.covers)>> \o Kept(s, n)
    \o SubSeq(s, n + 1, Len(s))

\* The first messages that fit in TruncMax, behind the rows at the positions I.
Fitting(s, I) ==
    {i \in Messages(s) : Bytes(s, I \cup {j \in Messages(s) : j <= i}) <= TruncMax}

\* The rows at the positions text run together, the messages that are left behind them.
Shortened(s, text) ==
    IF Bytes(s, DOMAIN s) <= Threshold \/ text = {}
    THEN s
    ELSE <<Summary(Bytes(s, text), clears, Covered(s, text))>> \o At(s, Messages(s) \ text)

\* Mutant of Truncated: the summary that is there is not taken over.
TruncatedAnew(s) == Shortened(s, Fitting(s, {}))

\* summarize_if_needed(): the previous summary and the first messages, as many
\* as fit in TruncMax, run together; no model.
Truncated(s) == Shortened(s, Previous(s) \cup Fitting(s, Previous(s)))
-------------------------------------------------------------------------------
(* The worker's turn.                                                          *)

AppendUser(size) ==
    /\ pc = "idle"
    /\ turn < MaxTurn
    /\ turn' = turn + 1
    /\ rows' = Inserted(rows, Row("user", turn + 1, size))
    /\ pc' = "summarise"
    /\ UNCHANGED <<clock, clears, before, promptOf, pending>>

\* Below the threshold; or the snapshot is taken and the mutex released.
Snapshot ==
    /\ pc = "summarise"
    /\ IF Bytes(rows, DOMAIN rows) <= Threshold
       THEN pc' = "ready" /\ UNCHANGED <<before, promptOf>>
       ELSE /\ pc' = "model"
            /\ before' = Len(rows)
            /\ promptOf' = [epoch |-> clears, covers |-> Covered(rows, Prompt(rows))]
    /\ UNCHANGED <<rows, clock, clears, turn, pending>>

\* Mutant of Shrunk: the history is not looked at again.
NeverShrunk == FALSE

\* "clear happened".
Shrunk == Len(rows) < before

\* The model has answered: an empty summary, or one that is saved unless the
\* history shrank meanwhile.
SaveSummary(size) ==
    /\ pc = "model"
    /\ rows' = IF Shrunk THEN rows ELSE Saved(Reduced(rows, before, size))
    /\ pc' = "ready"
    /\ UNCHANGED <<clock, clears, turn, before, promptOf, pending>>

EmptySummary ==
    /\ pc = "model"
    /\ pc' = "ready"
    /\ UNCHANGED <<rows, clock, clears, turn, before, promptOf, pending>>

\* The model failed: the rows of the snapshot are truncated, later ones kept.
SaveTruncated ==
    /\ pc = "model"
    /\ rows' = IF Len(rows) > before
               THEN Saved(Truncated(SubSeq(rows, 1, before)) \o SubSeq(rows, before + 1, Len(rows)))
               ELSE Saved(Truncated(rows))
    /\ pc' = "ready"
    /\ UNCHANGED <<clock, clears, turn, before, promptOf, pending>>

\* build_message_list, then check_llm_call and tool_loop: what the turn stores.
Answer(out) ==
    /\ pc = "ready"
    /\ pending' = out
    /\ pc' = "storing"
    /\ UNCHANGED <<rows, clock, clears, turn, before, promptOf>>

\* One append for each message, the mutex taken anew each time; a message that
\* calls tools has no content.
Store(size) ==
    /\ pc = "storing"
    /\ pending # <<>>
    /\ Head(pending) = "call" <=> size = 0
    /\ rows' = Inserted(rows, Row(Head(pending), turn, size))
    /\ pending' = Tail(pending)
    /\ UNCHANGED <<clock, clears, pc, turn, before, promptOf>>

EndTurn ==
    /\ pc = "storing"
    /\ pending = <<>>
    /\ pc' = "idle"
    /\ UNCHANGED <<rows, clock, clears, turn, before, promptOf, pending>>
-------------------------------------------------------------------------------
\* The command "clear", on the I/O thread.
Clear ==
    /\ clears < MaxClear
    /\ rows' = <<>>
    /\ clears' = clears + 1
    /\ UNCHANGED <<clock, pc, turn, before, promptOf, pending>>

Tick ==
    /\ clock < MaxClock
    /\ clock' = clock + 1
    /\ UNCHANGED <<rows, clears, pc, turn, before, promptOf, pending>>

Next ==
    \/ \E size \in Size : AppendUser(size) \/ SaveSummary(size)
    \/ \E size \in Size \cup {0} : Store(size)
    \/ Snapshot
    \/ EmptySummary
    \/ SaveTruncated
    \/ \E out \in Outcome : Answer(out)
    \/ EndTurn
    \/ Clear
    \/ Tick

Spec == Init /\ [][Next]_vars
-------------------------------------------------------------------------------
Kind == {"user", "call", "tool", "reply"}
Message == Kind \X (1 .. MaxTurn)
RowType == [kind : Kind \cup {"summary"}, turn : 0 .. MaxTurn, size : Nat, at : Nat,
            epoch : 0 .. MaxClear, covers : SUBSET Message]

TypeOK ==
    /\ rows \in Seq(RowType)
    /\ clock \in 0 .. MaxClock
    /\ clears \in 0 .. MaxClear
    /\ pc \in {"idle", "summarise", "model", "ready", "storing"}
    /\ turn \in 0 .. MaxTurn
    /\ before \in Nat
    /\ promptOf \in [epoch : 0 .. MaxClear, covers : SUBSET Message]
    /\ pending \in Outcome \cup {<<"tool">>, <<"tool", "reply">>}
    /\ \A i, j \in DOMAIN rows : i < j => rows[i].at <= rows[j].at

\* Nothing stored before a "clear" comes back, neither as a row nor in a summary
\* that was being written meanwhile (chat_context_manager.cpp:82-83).  A reply
\* that the model began before the clear and the worker stores after it is new.
ClearWins == \A i \in DOMAIN rows : rows[i].epoch = clears

\* There is at most one summary and the model reads it first, although every
\* save stamps its rows with times that are still to come
\* (chat_context_manager.cpp:87-88, chat_storage_sqlite.h:84, 149).
SummaryFirst == \A i \in DOMAIN rows : rows[i].kind = "summary" => i = 1

\* When the model fails to summarise, nothing is forgotten: what leaves the
\* rows is in the summary, earlier summaries included
\* (chat_context_manager.cpp:165-182, 203-209).
FallbackForgetsNothing ==
    [][SaveTruncated => Covered(rows, DOMAIN rows) \subseteq Covered(rows', DOMAIN rows')]_vars

\* Summarising, in either way, never takes away the message the history ends
\* with (chat_context_manager.cpp:152-162, 221-232).
EndKept ==
    [][pc = "model" /\ pc' = "ready" /\ rows # <<>> =>
          rows' # <<>> /\ rows'[Len(rows')].covers = rows[Len(rows)].covers]_vars

\* chat_context_manager.cpp:19 calls kKeepLast the "recent messages to retain":
\* the message a turn is about, the most recent of all, is among those the model
\* is given, unless a "clear" removed it.  But a save stamps its rows with times
\* still to come, so a message that follows at once sorts before them.
QuestionKept ==
    pc = "ready" => \/ \E i \in DOMAIN rows : rows[i].kind = "user" /\ rows[i].turn = turn
                    \/ rows = <<>>
===============================================================================
