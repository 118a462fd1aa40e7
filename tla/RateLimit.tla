------------------------------- MODULE RateLimit -------------------------------
(* The rate limit of policy_engine::check_llm_call: a fixed window per actor   *)
(* in the map rate_limits_, under rate_mutex_, with a sweep of old entries     *)
(* when the map has grown.  Each call is one action.  Time is in seconds since *)
(* the epoch of the steady clock; `now` may start inside the first window.     *)
EXTENDS Naturals, Sequences, FiniteSets, Functions

CONSTANTS Actor,
          Limit,         \* max_messages_per_minute, > 0
          Window,        \* kRateWindowSeconds
          Stale,         \* kRateGcStaleSeconds
          GcThreshold,   \* kRateGcThreshold
          MaxNow,        \* bound: when the clock stops
          MaxCount       \* bound: calls counted in one window

ASSUME RateAssumption ==
    /\ {Limit, Window} \subseteq Nat \ {0}
    /\ {Stale, GcThreshold, MaxNow, MaxCount} \subseteq Nat
    /\ Stale >= 2 * Window

VARIABLES
    now,
    rate,      \* rate_limits_: [start, count] of the actors that have an entry
    allowed    \* history: when calls were allowed

rateVars == <<now, rate, allowed>>

RateInit ==
    /\ now = 0
    /\ rate = <<>>
    /\ allowed = [a \in Actor |-> <<>>]
-------------------------------------------------------------------------------
\* operator[]: an actor without an entry gets one whose window starts at the
\* clock's epoch.
Entry(a) == IF a \in DOMAIN rate THEN rate[a] ELSE [start |-> 0, count |-> 0]

\* Mutant of Counted: every call begins a window of its own.
CountedAlone(e) == [start |-> now, count |-> 1]

\* The call is the first of a new window, or one more of the old.
Counted(e) ==
    IF now - e.start >= Window
    THEN [start |-> now, count |-> 1]
    ELSE [e EXCEPT !.count = @ + 1]

With(a, e) == [b \in DOMAIN rate \cup {a} |-> IF b = a THEN e ELSE rate[b]]

Old(e) == e.start + Stale < now

\* The sweep.
Swept(r) ==
    IF Cardinality(DOMAIN r) > GcThreshold
    THEN Restrict(r, {a \in DOMAIN r : ~ Old(r[a])})
    ELSE r

OverLimit(e) == e.count > Limit

Allow(a) ==
    LET e == Counted(Entry(a))
    IN  /\ ~ OverLimit(e)
        /\ rate' = Swept(With(a, e))
        /\ allowed' = [allowed EXCEPT ![a] = Append(@, now)]
        /\ UNCHANGED now

\* A refused call has been counted all the same, and sweeps nothing.
Refuse(a) ==
    LET e == Counted(Entry(a))
    IN  /\ OverLimit(e)
        /\ e.count <= MaxCount
        /\ rate' = With(a, e)
        /\ UNCHANGED <<now, allowed>>

Tick ==
    /\ now < MaxNow
    /\ now' = now + 1
    /\ UNCHANGED <<rate, allowed>>

RateNext == Tick \/ \E a \in Actor : Allow(a) \/ Refuse(a)

RateSpec == RateInit /\ [][RateNext]_rateVars
-------------------------------------------------------------------------------
RateTypeOK ==
    /\ now \in 0 .. MaxNow
    /\ DOMAIN rate \subseteq Actor
    /\ \A a \in DOMAIN rate : rate[a] \in [start : 0 .. now, count : Nat \ {0}]
    /\ allowed \in [Actor -> Seq(0 .. now)]

\* In any stretch of Window seconds, wherever it begins and whatever was swept,
\* an actor is allowed at most twice Limit calls
\* (policy_engine.cpp:160-172, 175-183).
RateBounded ==
    \A a \in Actor : \A i \in DOMAIN allowed[a] :
        i + 2 * Limit \in DOMAIN allowed[a] =>
            allowed[a][i + 2 * Limit] >= allowed[a][i] + Window
===============================================================================
