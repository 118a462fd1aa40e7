---------------------------- MODULE Policy_proofs ----------------------------
(* What policy_engine's limits keep: of the rate limit, for any actors, limits *)
(* and clock; of the token budget, for any finite set of workers, any budget   *)
(* and any number of rounds and tokens.                                        *)
EXTENDS PolicyEngine, FiniteSetTheorems, TLAPS
-------------------------------------------------------------------------------
(* The rate limit.                                                             *)

Entries == [start : 0 .. now, count : Nat \ {0}]

\* How many calls of its window an entry stands for: refused ones are counted
\* past the limit.
Passed(e) == IF e.count < Limit THEN e.count ELSE Limit

\* The calls s allowed so far, as an entry e sees them: none after its window,
\* none but the last Passed(e) in it, and none but Limit more in the Window
\* before it.
Fits(e, s) ==
    \A i \in DOMAIN s :
        /\ s[i] < e.start + Window
        /\ i + Passed(e) <= Len(s) => s[i] < e.start
        /\ i + Passed(e) + Limit <= Len(s) => s[i] + Window <= e.start

\* All calls are at least a Window old.
Past(s) == \A i \in DOMAIN s : s[i] + Window <= now

\* What the map says of the calls, and what the lack of an entry says.
Accounted(a) == IF a \in DOMAIN rate THEN Fits(rate[a], allowed[a]) ELSE Past(allowed[a])

RateInv ==
    /\ RateTypeOK
    /\ \A a \in Actor : Accounted(a)
    /\ RateBounded
-------------------------------------------------------------------------------
\* The limits are numbers.
LEMMA Numbers ==
    /\ Limit \in Nat /\ Limit > 0 /\ Window \in Nat /\ Window > 0
    /\ Stale \in Nat /\ Stale >= 2 * Window /\ MaxNow \in Nat
  BY RateAssumption

\* Counting a call gives an entry, whatever was there.
LEMMA CountedType ==
    ASSUME RateTypeOK, NEW a \in Actor
    PROVE  /\ Entry(a).start \in 0 .. now /\ Entry(a).count \in Nat
           /\ Entry(a) = [start |-> Entry(a).start, count |-> Entry(a).count]
           /\ Counted(Entry(a)) \in Entries
<1>0. now \in Nat
  BY Numbers DEF RateTypeOK
<1>1. CASE a \in DOMAIN rate
  <2>1. Entry(a) \in Entries
    BY <1>1 DEF Entry, RateTypeOK, Entries
  <2> QED  BY <1>0, <2>1 DEF Entries, Counted
<1>2. CASE a \notin DOMAIN rate
  <2>1. Entry(a) = [start |-> 0, count |-> 0]
    BY <1>2 DEF Entry
  <2> QED  BY <1>0, <2>1 DEF Entries, Counted
<1> QED  BY <1>1, <1>2

\* What an entry makes of one more call, made now.
LEMMA FitsAppend ==
    ASSUME now \in Nat, NEW s \in Seq(0 .. now), NEW e \in Entries,
           now < e.start + Window,
           \A i \in 1 .. Len(s) :
              /\ s[i] < e.start + Window
              /\ i + Passed(e) <= Len(s) + 1 => s[i] < e.start
              /\ i + Passed(e) + Limit <= Len(s) + 1 => s[i] + Window <= e.start
    PROVE  Fits(e, Append(s, now))
<1> DEFINE t == Append(s, now)
<1>1. /\ Len(t) = Len(s) + 1 /\ Len(s) \in Nat
      /\ DOMAIN t = 1 .. Len(s) + 1 /\ t[Len(s) + 1] = now
      /\ \A i \in 1 .. Len(s) : t[i] = s[i]
  OBVIOUS
<1>2. Passed(e) \in Nat /\ Passed(e) > 0
  BY Numbers DEF Passed, Entries
<1> HIDE DEF t
<1>4. e.start \in Nat
  BY DEF Entries
<1>3. Fits(e, t)
  <2> SUFFICES ASSUME NEW i \in 1 .. Len(s) + 1
               PROVE  /\ t[i] < e.start + Window
                      /\ i + Passed(e) <= Len(s) + 1 => t[i] < e.start
                      /\ i + Passed(e) + Limit <= Len(s) + 1 => t[i] + Window <= e.start
    BY <1>1 DEF Fits
  <2>1. CASE i = Len(s) + 1
    BY <2>1, <1>1, <1>2, <1>4, Numbers
  <2>2. CASE i \in 1 .. Len(s)
    BY <2>2, <1>1
  <2> QED  BY <2>1, <2>2, <1>1
<1> QED  BY <1>3 DEF t

\* An allowed call leaves an entry that fits the calls, and comes at least a
\* Window after the one 2 * Limit calls before it.
LEMMA CountAllowed ==
    ASSUME RateTypeOK, NEW a \in Actor, Accounted(a), ~ OverLimit(Counted(Entry(a)))
    PROVE  /\ Fits(Counted(Entry(a)), Append(allowed[a], now))
           /\ \A i \in DOMAIN allowed[a] :
                i + 2 * Limit = Len(allowed[a]) + 1 => allowed[a][i] + Window <= now
<1> DEFINE s == allowed[a]
<1>0. now \in Nat /\ s \in Seq(0 .. now)
  BY Numbers DEF RateTypeOK
<1>1. /\ Len(s) \in Nat /\ DOMAIN s = 1 .. Len(s)
      /\ \A i \in 1 .. Len(s) : s[i] \in 0 .. now
  BY <1>0
<1> PICK e : e = Counted(Entry(a))
  OBVIOUS
<1>2. e \in Entries /\ ~ OverLimit(e)
  BY CountedType
<1> HIDE DEF s
<1> SUFFICES Fits(e, Append(s, now))
             /\ \A i \in 1 .. Len(s) : i + 2 * Limit = Len(s) + 1 => s[i] + Window <= now
  BY <1>1 DEF s
<1>3. CASE a \in DOMAIN rate
  <2>1. Fits(Entry(a), s) /\ Entry(a) \in Entries
    BY <1>3 DEF Accounted, Entry, RateTypeOK, Entries, s
  <2>2. PICK x \in 0 .. now, c \in Nat \ {0} : Entry(a) = [start |-> x, count |-> c]
    BY <2>1 DEF Entries
  <2>3. PICK k \in 1 .. Limit : k = Passed(Entry(a))
    BY <2>2, Numbers DEF Passed
  <2>4. \A i \in 1 .. Len(s) : /\ s[i] < x + Window
                               /\ i + k <= Len(s) => s[i] < x
                               /\ i + k + Limit <= Len(s) => s[i] + Window <= x
    BY <1>1, <2>1, <2>2, <2>3 DEF Fits
  <2>5. CASE now - x >= Window
    <3>1. e.start = now /\ Passed(e) = 1
      BY <2>2, <2>5, Numbers DEF Counted, Passed
    <3>2. \A i \in 1 .. Len(s) : s[i] < now
      BY <1>0, <1>1, <2>4, <2>5, Numbers
    <3>3. \A i \in 1 .. Len(s) : i + Limit <= Len(s) => s[i] + Window <= now
      <4> SUFFICES ASSUME NEW i \in 1 .. Len(s), i + Limit <= Len(s)
                   PROVE  s[i] + Window <= now
        OBVIOUS
      <4>1. i + k <= Len(s)
        BY <1>1, Numbers
      <4>2. s[i] < x
        BY <2>4, <4>1
      <4>3. s[i] \in Nat
        BY <1>0, <1>1
      <4> QED  BY <1>0, <2>5, <4>2, <4>3, Numbers
    <3>4. Fits(e, Append(s, now))
      <4>1. e.start = now /\ now < e.start + Window
        BY <1>0, <3>1, Numbers
      <4>2. ASSUME NEW i \in 1 .. Len(s)
            PROVE  /\ s[i] < e.start + Window
                   /\ i + Passed(e) <= Len(s) + 1 => s[i] < e.start
                   /\ i + Passed(e) + Limit <= Len(s) + 1 => s[i] + Window <= e.start
        <5>1. s[i] < now /\ s[i] \in Nat
          BY <1>0, <1>1, <3>2
        <5>2. i + 1 + Limit <= Len(s) + 1 => i + Limit <= Len(s)
          BY <1>1, Numbers
        <5>3. s[i] < now + Window
          BY <1>0, <5>1, Numbers
        <5> QED  BY <3>1, <3>3, <5>1, <5>2, <5>3
      <4> QED  BY <1>0, <1>2, <4>1, <4>2, FitsAppend
    <3>5. \A i \in 1 .. Len(s) : i + 2 * Limit = Len(s) + 1 => i + Limit <= Len(s)
      BY <1>1, Numbers
    <3> QED  BY <3>3, <3>4, <3>5
  <2>6. CASE ~ (now - x >= Window)
    <3>1. e = [start |-> x, count |-> c + 1]
      BY <2>2, <2>6 DEF Counted
    <3>2. c + 1 <= Limit
      BY <1>2, <3>1, Numbers DEF OverLimit
    <3>3. Passed(e) = c + 1 /\ k = c
      BY <3>1, <3>2, <2>2, <2>3, Numbers DEF Passed
    <3>4. Fits(e, Append(s, now))
      <4>1. e.start = x /\ e.start \in Nat /\ now < e.start + Window
        BY <1>0, <2>6, <3>1, Numbers
      <4>2. ASSUME NEW i \in 1 .. Len(s)
            PROVE  /\ s[i] < e.start + Window
                   /\ i + Passed(e) <= Len(s) + 1 => s[i] < e.start
                   /\ i + Passed(e) + Limit <= Len(s) + 1 => s[i] + Window <= e.start
        <5>1. /\ i + (c + 1) <= Len(s) + 1 => i + c <= Len(s)
              /\ i + (c + 1) + Limit <= Len(s) + 1 => i + c + Limit <= Len(s)
          BY <1>1, Numbers
        <5> QED  BY <2>4, <3>3, <4>1, <5>1
      <4> QED  BY <1>0, <1>2, <4>1, <4>2, FitsAppend
    <3>5. \A i \in 1 .. Len(s) : i + 2 * Limit = Len(s) + 1 => i + k + Limit <= Len(s)
      BY <1>1, <3>2, <3>3, Numbers
    <3>6. \A i \in 1 .. Len(s) : i + k + Limit <= Len(s) => s[i] + Window <= now
      BY <1>0, <1>1, <2>4, Numbers
    <3> QED  BY <3>4, <3>5, <3>6
  <2> QED  BY <2>5, <2>6
<1>4. CASE a \notin DOMAIN rate
  <2>1. Past(s) /\ Entry(a) = [start |-> 0, count |-> 0]
    BY <1>4 DEF Accounted, Entry, s
  <2>2. /\ Passed(e) = 1 /\ e.start \in 0 .. now
        /\ now < e.start + Window
        /\ e.start = now \/ now < Window
    BY <1>0, <2>1, Numbers DEF Counted, Passed
  <2>3. \A i \in 1 .. Len(s) : s[i] + Window <= now
    BY <1>1, <2>1 DEF Past
  <2>4. \A i \in 1 .. Len(s) : s[i] + Window <= e.start
    BY <1>0, <1>1, <2>2, <2>3, Numbers
  <2>5. \A i \in 1 .. Len(s) :
           /\ s[i] < e.start + Window
           /\ i + Passed(e) <= Len(s) + 1 => s[i] < e.start
           /\ i + Passed(e) + Limit <= Len(s) + 1 => s[i] + Window <= e.start
    BY <1>0, <1>1, <2>2, <2>4, Numbers
  <2>6. Fits(e, Append(s, now))
    BY <1>0, <1>2, <2>2, <2>5, FitsAppend
  <2> QED  BY <2>3, <2>6
<1> QED  BY <1>3, <1>4

\* A refused call leaves an entry that fits the calls still: its window held
\* Limit of them already.
LEMMA CountRefused ==
    ASSUME RateTypeOK, NEW a \in Actor, Accounted(a), OverLimit(Counted(Entry(a)))
    PROVE  Fits(Counted(Entry(a)), allowed[a])
<1>0. now \in Nat
  BY Numbers DEF RateTypeOK
<1>1. a \in DOMAIN rate
  BY <1>0, Numbers DEF Entry, Counted, OverLimit
<1>2. Fits(Entry(a), allowed[a]) /\ Entry(a) \in Entries
  BY <1>1 DEF Accounted, Entry, RateTypeOK, Entries
<1>3. PICK x \in 0 .. now, c \in Nat \ {0} : Entry(a) = [start |-> x, count |-> c]
  BY <1>2 DEF Entries
<1>4. Counted(Entry(a)) = [start |-> x, count |-> c + 1] /\ c + 1 > Limit
  BY <1>0, <1>3, Numbers DEF Counted, OverLimit
<1>5. Passed(Counted(Entry(a))) = Limit /\ Passed(Entry(a)) = Limit
  BY <1>3, <1>4, Numbers DEF Passed
<1> QED  BY <1>2, <1>3, <1>4, <1>5 DEF Fits

\* The calls of an entry that may be swept are a Window old.
LEMMA OldIsPast ==
    ASSUME now \in Nat, NEW e \in Entries, NEW s \in Seq(0 .. now), Fits(e, s), Old(e)
    PROVE  Past(s)
<1>1. \A i \in DOMAIN s : s[i] \in 0 .. now
  OBVIOUS
<1>2. e.start \in 0 .. now
  BY DEF Entries
<1>3. e.start + Stale < now
  BY DEF Old
<1> SUFFICES ASSUME NEW i \in DOMAIN s PROVE s[i] + Window <= now
  BY DEF Past
<1>4. s[i] < e.start + Window /\ s[i] \in Nat
  BY <1>1 DEF Fits
<1> QED  BY <1>2, <1>3, <1>4, Numbers

-------------------------------------------------------------------------------
LEMMA RateInitially == RateInit => RateInv
<1> SUFFICES ASSUME RateInit PROVE RateInv
  OBVIOUS
<1>1. rate = <<>> /\ DOMAIN rate = {} /\ now = 0
  BY DEF RateInit
<1>2. \A a \in Actor : allowed[a] = <<>> /\ DOMAIN allowed[a] = {}
  BY DEF RateInit
<1>3. allowed \in [Actor -> Seq(0 .. now)]
  BY DEF RateInit
<1>4. RateTypeOK
  BY <1>1, <1>3, Numbers DEF RateTypeOK
<1> QED  BY <1>1, <1>2, <1>4 DEF RateInv, Accounted, Past, RateBounded

\* The shape of the map after an entry is set.
LEMMA WithType ==
    ASSUME RateTypeOK, NEW a \in Actor, NEW e \in Entries
    PROVE  /\ DOMAIN With(a, e) = DOMAIN rate \cup {a} /\ DOMAIN With(a, e) \subseteq Actor
           /\ With(a, e)[a] = e
           /\ \A b \in DOMAIN rate : b # a => With(a, e)[b] = rate[b]
           /\ \A b \in DOMAIN With(a, e) : With(a, e)[b] \in Entries
<1>1. DOMAIN rate \subseteq Actor /\ \A b \in DOMAIN rate : rate[b] \in Entries
  BY DEF RateTypeOK, Entries
<1> QED  BY <1>1 DEF With

\* The sweep takes old entries and changes none.
LEMMA SweptShape ==
    ASSUME NEW r
    PROVE  /\ DOMAIN Swept(r) \subseteq DOMAIN r
           /\ \A b \in DOMAIN Swept(r) : Swept(r)[b] = r[b]
           /\ \A b \in DOMAIN r : b \notin DOMAIN Swept(r) => Old(r[b])
  BY DEF Swept, Restrict

LEMMA AllowStep ==
    ASSUME RateInv, NEW a \in Actor, Allow(a)
    PROVE  RateInv'
<1> DEFINE e == Counted(Entry(a))
           r == With(a, e)
           h(b) == IF b = a THEN Append(allowed[a], now) ELSE allowed[b]
<1>0. RateTypeOK /\ Accounted(a) /\ now \in Nat /\ now' = now /\ e \in Entries
  BY CountedType, Numbers DEF RateInv, RateTypeOK, Allow
<1>1. rate' = Swept(r) /\ ~ OverLimit(e)
  BY DEF Allow
<1>2. /\ allowed' = [allowed EXCEPT ![a] = Append(allowed[a], now)]
      /\ allowed \in [Actor -> Seq(0 .. now)]
  BY <1>0 DEF Allow, RateTypeOK
<1>3. \A b \in Actor : allowed'[b] = h(b) /\ h(b) \in Seq(0 .. now)
  <2>1. Append(allowed[a], now) \in Seq(0 .. now)
    BY <1>0, <1>2
  <2>2. \A b \in Actor : h(b) \in Seq(0 .. now)
    BY <1>2, <2>1
  <2>3. \A b \in Actor : allowed'[b] = h(b)
    BY <1>2
  <2> QED  BY <2>2, <2>3
<1>4. Fits(e, h(a)) /\ \A i \in DOMAIN allowed[a] :
             i + 2 * Limit = Len(allowed[a]) + 1 => allowed[a][i] + Window <= now
  BY <1>0, <1>1, CountAllowed
<1>5. /\ DOMAIN r \subseteq Actor /\ \A b \in DOMAIN r : r[b] \in Entries
      /\ DOMAIN r = DOMAIN rate \cup {a}
      /\ \A b \in DOMAIN rate : b # a => r[b] = rate[b]
      /\ r[a] = e
  BY <1>0, WithType
<1>6. /\ DOMAIN rate' \subseteq DOMAIN r
      /\ \A b \in DOMAIN rate' : rate'[b] = r[b]
      /\ \A b \in DOMAIN r : b \notin DOMAIN rate' => Old(r[b])
  BY <1>1, SweptShape
<1>7. \A b \in Actor : IF b \in DOMAIN r THEN Fits(r[b], h(b)) ELSE Past(h(b))
  BY <1>4, <1>5 DEF RateInv, Accounted
<1> HIDE DEF e, r, h
<1>8. RateTypeOK'
  <2>1. \A b \in DOMAIN rate' : rate'[b] \in [start : 0 .. now', count : Nat \ {0}]
    BY <1>0, <1>5, <1>6 DEF Entries
  <2>2. allowed' \in [Actor -> Seq(0 .. now')]
    BY <1>0, <1>2
  <2> QED  BY <2>1, <2>2, <1>0, <1>5, <1>6 DEF RateTypeOK
<1>9. ASSUME NEW b \in Actor PROVE Accounted(b)'
  <2>1. CASE b \in DOMAIN rate'
    <3>1. Fits(rate'[b], h(b))
      BY <2>1, <1>6, <1>7
    <3> QED  BY <2>1, <3>1, <1>3 DEF Accounted, Fits, Passed
  <2>2. CASE b \notin DOMAIN rate'
    <3>1. Past(h(b))
      BY <2>2, <1>0, <1>3, <1>5, <1>6, <1>7, OldIsPast
    <3> QED  BY <2>2, <3>1, <1>0, <1>3 DEF Accounted, Past
  <2> QED  BY <2>1, <2>2
<1>10. RateBounded'
  <2> SUFFICES ASSUME NEW b \in Actor, NEW i \in DOMAIN allowed'[b],
                      i + 2 * Limit \in DOMAIN allowed'[b]
               PROVE  allowed'[b][i + 2 * Limit] >= allowed'[b][i] + Window
    BY DEF RateBounded
  <2>1. CASE b # a
    <3>1. allowed'[b] = allowed[b]
      BY <2>1, <1>3 DEF h
    <3> QED  BY <3>1 DEF RateInv, RateBounded
  <2>2. CASE b = a
    <3>1. allowed'[b] = Append(allowed[a], now) /\ allowed[a] \in Seq(0 .. now)
      BY <2>2, <1>2, <1>3 DEF h
    <3>2. /\ DOMAIN allowed'[b] = 1 .. Len(allowed[a]) + 1 /\ Len(allowed[a]) \in Nat
          /\ DOMAIN allowed[a] = 1 .. Len(allowed[a])
          /\ allowed'[b][Len(allowed[a]) + 1] = now
          /\ \A j \in 1 .. Len(allowed[a]) : allowed'[b][j] = allowed[a][j]
      BY <3>1
    <3>3. i \in 1 .. Len(allowed[a])
      BY <3>2, Numbers
    <3>4. CASE i + 2 * Limit = Len(allowed[a]) + 1
      BY <3>1, <3>2, <3>3, <3>4, <1>0, <1>4, Numbers
    <3>5. CASE i + 2 * Limit # Len(allowed[a]) + 1
      <4>1. i + 2 * Limit \in 1 .. Len(allowed[a])
        BY <3>2, <3>5, Numbers
      <4> QED  BY <4>1, <3>2, <3>3 DEF RateInv, RateBounded
    <3> QED  BY <3>4, <3>5
  <2> QED  BY <2>1, <2>2
<1> QED  BY <1>8, <1>9, <1>10 DEF RateInv

LEMMA RefuseStep ==
    ASSUME RateInv, NEW a \in Actor, Refuse(a)
    PROVE  RateInv'
<1> DEFINE e == Counted(Entry(a))
<1>0. RateTypeOK /\ Accounted(a) /\ now' = now /\ allowed' = allowed /\ e \in Entries
  BY CountedType DEF RateInv, Refuse
<1>1. rate' = With(a, e) /\ Fits(e, allowed[a])
  BY <1>0, CountRefused DEF Refuse
<1> HIDE DEF e
<1>2. /\ DOMAIN rate' \subseteq Actor /\ \A b \in DOMAIN rate' : rate'[b] \in Entries
      /\ DOMAIN rate' = DOMAIN rate \cup {a}
      /\ \A b \in DOMAIN rate : b # a => rate'[b] = rate[b]
      /\ rate'[a] = e
  BY <1>0, <1>1, WithType
<1>3. RateTypeOK'
  BY <1>0, <1>2 DEF RateTypeOK, Entries
<1>4. ASSUME NEW b \in Actor PROVE Accounted(b)'
  <2>1. IF b \in DOMAIN rate' THEN Fits(rate'[b], allowed[b]) ELSE Past(allowed[b])
    BY <1>1, <1>2 DEF RateInv, Accounted
  <2> QED  BY <2>1, <1>0 DEF Accounted, Fits, Passed, Past
<1> QED  BY <1>0, <1>3, <1>4 DEF RateInv, RateBounded

LEMMA TickStep ==
    ASSUME RateInv, Tick
    PROVE  RateInv'
<1>0. now \in Nat /\ now' = now + 1 /\ rate' = rate /\ allowed' = allowed /\ now' \in 0 .. MaxNow
  BY Numbers DEF RateInv, RateTypeOK, Tick
<1>1. RateTypeOK'
  <2>1. allowed' \in [Actor -> Seq(0 .. now')]
    <3>1. \A s \in Seq(0 .. now) : s \in Seq(0 .. now')
      BY <1>0
    <3> QED  BY <3>1, <1>0 DEF RateInv, RateTypeOK
  <2>2. \A a \in DOMAIN rate : rate[a] \in [start : 0 .. now', count : Nat \ {0}]
    BY <1>0 DEF RateInv, RateTypeOK
  <2> QED  BY <1>0, <2>1, <2>2 DEF RateInv, RateTypeOK
<1>2. ASSUME NEW a \in Actor PROVE Accounted(a)'
  <2>1. \A i \in DOMAIN allowed[a] : allowed[a][i] \in 0 .. now
    BY DEF RateInv, RateTypeOK
  <2>2. Past(allowed[a]) => Past(allowed[a])'
    BY <1>0, <2>1, Numbers DEF Past
  <2> QED  BY <1>0, <2>2 DEF RateInv, Accounted, Fits, Passed
<1> QED  BY <1>0, <1>1, <1>2 DEF RateInv, RateBounded

LEMMA RateInductive == RateInv /\ [RateNext]_rateVars => RateInv'
<1> SUFFICES ASSUME RateInv, [RateNext]_rateVars PROVE RateInv'
  OBVIOUS
<1>1. CASE UNCHANGED rateVars
  BY <1>1 DEF rateVars, RateInv, RateTypeOK, Accounted, Fits, Passed, Past, RateBounded
<1>2. CASE Tick
  BY <1>2, TickStep
<1>3. ASSUME NEW a \in Actor, Allow(a) PROVE RateInv'
  BY <1>3, AllowStep
<1>4. ASSUME NEW a \in Actor, Refuse(a) PROVE RateInv'
  BY <1>4, RefuseStep
<1> QED  BY <1>1, <1>2, <1>3, <1>4 DEF RateNext

\* The inductive invariant of the rate limit (policy_engine.cpp:153-187).
THEOREM RateInvariance == RateSpec => []RateInv
  BY RateInitially, RateInductive, PTL DEF RateSpec

-------------------------------------------------------------------------------
(* The token budget.                                                           *)

\* Nobody has seen a later day than the calendar's.
NotAhead == checkDay <= day /\ \A w \in Worker : today[w] <= day

\* The day is marked as reset before the count is: until the winner of the
\* exchange has stored, it may still be yesterday's.
Renewed == checkDay = day => used <= added \/ \E w \in Worker : pc[w] = "store"

\* Between the answer of the model and the addition of its tokens.
Recording(w) == op[w] = "record" /\ pc[w] \in {"clock", "load", "cas", "store", "act"}

\* The rounds whose tokens worker w may still add under the check it has passed.
Open(w) == left[w] + (IF Recording(w) THEN 1 ELSE 0)

\* The rounds, of all the workers could ever have open, that are not.
Spent == {x \in Worker \X (1 .. MaxRounds) : x[2] > Open(x[1])}

\* What was added past the check was added by rounds that are spent.
Overrun == used <= (Budget - 1) + Cardinality(Spent) * MaxTokens

\* Who exchanges has seen another day than its own marked.
Differs == \A w \in Worker : pc[w] = "cas" => expected[w] # today[w]

\* Inside the reset with the date of a day gone by: such a worker can still set
\* the day back.
Behind(w) == pc[w] \in {"load", "cas"} /\ today[w] # day

\* The resets of this day still to come because of worker w: its own store, and,
\* if it sets the day back, the one that sets it right again.
Owed(w) == IF Behind(w) THEN {1, 2} ELSE IF pc[w] = "store" THEN {1} ELSE {}

\* The resets that may have happened since midnight, but for the day's own.
Settled == {x \in Worker \X {1, 2} : x[2] \notin Owed(x[1])}

\* With the day's own, which marks the day.
Resets == Cardinality(Settled) + (IF checkDay = day THEN 1 ELSE 0)

\* What the counter no longer holds of this day was erased by those.
Erased == added <= used + Resets * Overshoot

BudgetInv ==
    /\ TypeOK
    /\ NotAhead
    /\ Renewed
    /\ \A w \in Worker : Open(w) <= MaxRounds
    /\ Overrun
    /\ Differs
    /\ Erased

LEMMA Amounts ==
    /\ Budget \in Nat /\ Budget > 0 /\ MaxRounds \in Nat /\ MaxRounds > 0
    /\ MaxTokens \in Nat /\ MaxDay \in Nat /\ MaxDay > 0 /\ IsFiniteSet(Worker)
  BY BudgetAssumption

LEMMA AllRounds ==
    /\ IsFiniteSet(Worker \X (1 .. MaxRounds))
    /\ Cardinality(Worker \X (1 .. MaxRounds)) = Cardinality(Worker) * MaxRounds
    /\ Cardinality(Worker) \in Nat
<1>1. IsFiniteSet(1 .. MaxRounds) /\ Cardinality(1 .. MaxRounds) = MaxRounds
  BY Amounts, FS_Interval
<1> QED  BY <1>1, Amounts, FS_Product, FS_CardinalityType

LEMMA SpentFinite ==
    /\ IsFiniteSet(Spent) /\ Cardinality(Spent) \in Nat
    /\ Cardinality(Spent) <= Cardinality(Worker) * MaxRounds
<1>1. Spent \in SUBSET (Worker \X (1 .. MaxRounds))
  BY DEF Spent
<1> QED  BY <1>1, AllRounds, FS_Subset, FS_CardinalityType

\* Products keep the order.
LEMMA TimesKeeps ==
    ASSUME NEW a \in Nat, NEW b \in Nat, NEW c \in Nat, a <= b
    PROVE  a * c <= b * c
<1>1. PICK d \in Nat : b = a + d
  <2>1. b - a \in Nat /\ b = a + (b - a)
    OBVIOUS
  <2> QED  BY <2>1
<1>2. b * c = a * c + d * c
  BY <1>1
<1>3. d * c \in Nat /\ a * c \in Nat
  BY <1>1
<1> QED  BY <1>2, <1>3

\* More spent rounds allow more tokens.
LEMMA SpentGrows ==
    ASSUME Spent \subseteq Spent'
    PROVE  Cardinality(Spent) * MaxTokens <= Cardinality(Spent') * MaxTokens
<1>1. Spent' \in SUBSET (Worker \X (1 .. MaxRounds))
  BY DEF Spent
<1>2. IsFiniteSet(Spent') /\ Cardinality(Spent') \in Nat
  BY <1>1, AllRounds, FS_Subset, FS_CardinalityType
<1>3. Cardinality(Spent) <= Cardinality(Spent')
  BY <1>2, FS_Subset
<1> QED  BY <1>2, <1>3, SpentFinite, Amounts, TimesKeeps
-------------------------------------------------------------------------------
\* How far the counter can go: every round is spent.
LEMMA Overshot ==
    ASSUME TypeOK, Overrun
    PROVE  Overshoot \in Nat /\ used <= Overshoot
<1>1. Cardinality(Spent) * MaxTokens <= (Cardinality(Worker) * MaxRounds) * MaxTokens
  <2>1. Cardinality(Worker) * MaxRounds \in Nat
    BY AllRounds, Amounts
  <2> QED  BY <2>1, SpentFinite, Amounts, TimesKeeps
<1>2. used \in Nat /\ used <= (Budget - 1) + Cardinality(Spent) * MaxTokens
  BY DEF TypeOK, Overrun
<1>3. Cardinality(Spent) * MaxTokens \in Nat
      /\ (Cardinality(Worker) * MaxRounds) * MaxTokens \in Nat
  BY SpentFinite, AllRounds, Amounts
<1> QED  BY <1>1, <1>2, <1>3, Amounts DEF Overshoot

LEMMA OvershootType == Overshoot \in Nat
<1>1. Cardinality(Worker) * MaxRounds \in Nat
  BY AllRounds, Amounts
<1>2. (Cardinality(Worker) * MaxRounds) * MaxTokens \in Nat
  BY <1>1, Amounts
<1> QED  BY <1>2, Amounts DEF Overshoot

LEMMA Two == IsFiniteSet({1, 2}) /\ Cardinality({1, 2}) = 2
<1>1. IsFiniteSet({}) /\ Cardinality({}) = 0
  BY FS_EmptySet
<1>2. IsFiniteSet({} \cup {1}) /\ Cardinality({} \cup {1}) = 1
  BY <1>1, FS_AddElement
<1>3. {} \cup {1} = {1} /\ {1} \cup {2} = {1, 2} /\ 2 \notin {1}
  OBVIOUS
<1>4. IsFiniteSet({1} \cup {2}) /\ Cardinality({1} \cup {2}) = 2
  BY <1>2, <1>3, FS_AddElement
<1> QED  BY <1>3, <1>4, Zenon

\* There are two resets for each worker, and the day's own.
LEMMA SettledFinite ==
    /\ IsFiniteSet(Settled) /\ Cardinality(Settled) \in Nat
    /\ Cardinality(Settled) <= Cardinality(Worker) * 2
<1>1. IsFiniteSet(Worker \X {1, 2}) /\ Cardinality(Worker \X {1, 2}) = Cardinality(Worker) * 2
  BY Two, Amounts, FS_Product
<1>2. Settled \in SUBSET (Worker \X {1, 2})
  BY DEF Settled
<1> QED  BY <1>1, <1>2, FS_Subset, FS_CardinalityType

LEMMA SettledNext ==
    /\ IsFiniteSet(Settled') /\ Cardinality(Settled') \in Nat
<1>1. IsFiniteSet(Worker \X {1, 2})
  BY Two, Amounts, FS_Product
<1>2. Settled' \in SUBSET (Worker \X {1, 2})
  BY DEF Settled
<1> QED  BY <1>1, <1>2, FS_Subset, FS_CardinalityType

\* A step that only adds to the resets that may have happened.
LEMMA MoreResets ==
    ASSUME BudgetInv, TypeOK', Resets \in Nat, Resets' \in Nat, Resets <= Resets',
           used' - used = added' - added
    PROVE  Erased'
<1>1. used \in Nat /\ added \in Nat /\ used' \in Nat /\ added' \in Nat
  BY DEF BudgetInv, TypeOK
<1>0. PICK before \in Nat, after \in Nat : before = Resets /\ after = Resets'
  OBVIOUS
<1>2. before * Overshoot <= after * Overshoot
  BY <1>0, OvershootType, TimesKeeps
<1>3. before * Overshoot \in Nat /\ after * Overshoot \in Nat
  BY OvershootType
<1>4. added <= used + before * Overshoot
  BY <1>0 DEF BudgetInv, Erased
<1>5. added' <= used' + after * Overshoot
  BY <1>1, <1>2, <1>3, <1>4
<1>6. Overshoot' = Overshoot
  BY DEF Overshoot
<1> QED  BY <1>0, <1>5, <1>6 DEF Erased

\* If nobody owes more than before, and the mark stays as it is.
LEMMA LessOwed ==
    ASSUME BudgetInv, TypeOK', UNCHANGED <<day, checkDay>>, used' - used = added' - added,
           \A w \in Worker : Owed(w)' \subseteq Owed(w)
    PROVE  Erased'
<1>1. Settled \subseteq Settled'
  BY DEF Settled
<1>2. Cardinality(Settled) <= Cardinality(Settled')
  BY <1>1, SettledNext, FS_Subset
<1>3. Resets \in Nat /\ Resets' \in Nat /\ Resets <= Resets'
  BY <1>2, SettledFinite, SettledNext DEF Resets
<1> QED  BY <1>3, MoreResets

LEMMA BudgetInitially == Init => BudgetInv
<1> SUFFICES ASSUME Init PROVE BudgetInv
  OBVIOUS
<1>1. TypeOK
  BY Amounts DEF Init, TypeOK
<1>2. NotAhead /\ Renewed
  BY DEF Init, NotAhead, Renewed
<1>3. \A w \in Worker : Open(w) = 0
  BY DEF Init, Open, Recording
<1>4. Overrun
  <2>1. Cardinality(Spent) * MaxTokens \in Nat
    BY SpentFinite, Amounts
  <2> QED  BY <2>1, Amounts DEF Init, Overrun
<1>5. Differs
  BY DEF Init, Differs
<1>6. Erased
  <2>1. Resets \in Nat
    BY SettledFinite DEF Resets
  <2>2. Resets * Overshoot \in Nat
    BY <2>1, OvershootType
  <2> QED  BY <2>2 DEF Init, Erased
<1> QED  BY <1>1, <1>2, <1>3, <1>4, <1>5, <1>6, Amounts DEF BudgetInv

\* Open rounds are naturals.
LEMMA OpenType ==
    ASSUME TypeOK, NEW w \in Worker
    PROVE  Open(w) \in Nat
  BY Amounts DEF TypeOK, Open

\* A step that opens no round of anybody and adds no tokens.
LEMMA NothingAdded ==
    ASSUME BudgetInv, TypeOK', used' <= used,
           \A w \in Worker : Open(w)' <= Open(w)
    PROVE  Overrun' /\ \A w \in Worker : Open(w)' <= MaxRounds
<1>1. \A w \in Worker : Open(w) \in Nat /\ Open(w)' \in Nat
  BY Amounts DEF BudgetInv, TypeOK, Open
<1>2. Spent \subseteq Spent'
  BY <1>1, Amounts DEF Spent
<1>3. Cardinality(Spent) * MaxTokens \in Nat /\ Cardinality(Spent') * MaxTokens \in Int
  <2>1. Spent' \in SUBSET (Worker \X (1 .. MaxRounds))
    BY DEF Spent
  <2>2. Cardinality(Spent') \in Nat
    BY <2>1, AllRounds, FS_Subset, FS_CardinalityType
  <2> QED  BY <2>2, SpentFinite, Amounts
<1>4. used \in Nat /\ used' \in Nat
  BY DEF BudgetInv, TypeOK
<1>5. Overrun'
  <2>1. used <= (Budget - 1) + Cardinality(Spent) * MaxTokens
    BY DEF BudgetInv, Overrun
  <2>2. used' <= (Budget - 1) + Cardinality(Spent') * MaxTokens
    BY <2>1, <1>2, <1>3, <1>4, SpentGrows, Amounts
  <2> QED  BY <2>2 DEF Overrun
<1> QED  BY <1>1, <1>5, Amounts DEF BudgetInv

\* What the steps of worker w leave alone.
LEMMA Elsewhere ==
    ASSUME NEW w \in Worker,
           \A v \in Worker \ {w} : op'[v] = op[v] /\ pc'[v] = pc[v] /\ left'[v] = left[v]
    PROVE  \A v \in Worker \ {w} : Open(v)' = Open(v)
  BY DEF Open, Recording

\* A step of worker w that only moves it, without a day or a count being changed.
LEMMA Moves ==
    ASSUME BudgetInv, NEW w \in Worker, NEW label \in {"idle", "clock", "load", "cas", "act", "turn"},
           Goto(w, label), pc[w] # "store",
           UNCHANGED <<day, checkDay, used, added>>,
           TypeOK', \A v \in Worker : today'[v] <= day,
           \A v \in Worker \ {w} : op'[v] = op[v] /\ left'[v] = left[v],
           \A v \in Worker \ {w} : today'[v] = today[v] /\ expected'[v] = expected[v],
           label = "cas" => expected'[w] # today'[w],
           Behind(w)' => Behind(w),
           Open(w)' <= Open(w)
    PROVE  BudgetInv'
<1>1. pc \in [Worker -> {"idle", "clock", "load", "cas", "store", "act", "turn"}]
      /\ pc' = [pc EXCEPT ![w] = label]
  BY DEF BudgetInv, TypeOK, Goto
<1>2. \A v \in Worker \ {w} : pc'[v] = pc[v]
  BY <1>1
<1>3. \A v \in Worker : Open(v) \in Nat
  BY OpenType DEF BudgetInv
<1>4. \A v \in Worker : Open(v)' <= Open(v)
  BY <1>2, <1>3, Elsewhere
<1>5. used' <= used
  BY DEF BudgetInv, TypeOK
<1>6. Overrun' /\ \A v \in Worker : Open(v)' <= MaxRounds
  BY <1>4, <1>5, NothingAdded
<1>7. NotAhead'
  BY DEF BudgetInv, NotAhead
<1>8. Renewed'
  <2>1. (\E v \in Worker : pc[v] = "store") => \E v \in Worker : pc'[v] = "store"
    BY <1>2
  <2> QED  BY <2>1 DEF BudgetInv, Renewed
<1>9. Differs'
  BY <1>1, <1>2 DEF BudgetInv, Differs
<1>10. Erased'
  <2>1. \A v \in Worker \ {w} : Owed(v)' = Owed(v)
    BY <1>2 DEF Owed, Behind
  <2>2. Owed(w)' \subseteq Owed(w)
    BY <1>1 DEF Owed
  <2>3. used' - used = added' - added
    BY DEF BudgetInv, TypeOK
  <2> QED  BY <2>1, <2>2, <2>3, LessOwed
<1> QED  BY <1>6, <1>7, <1>8, <1>9, <1>10 DEF BudgetInv

LEMMA ReadClockStep ==
    ASSUME BudgetInv, NEW w \in Worker, ReadClock(w)
    PROVE  BudgetInv'
<1>1. TypeOK'
  BY DEF BudgetInv, TypeOK, ReadClock, Goto
<1>2. \A v \in Worker : today'[v] <= day
  BY DEF BudgetInv, TypeOK, NotAhead, ReadClock
<1>3. Open(w)' = Open(w)
  BY DEF BudgetInv, TypeOK, ReadClock, Goto, Open, Recording
<1>4. Open(w) \in Nat
  BY OpenType DEF BudgetInv
<1>5. ~ Behind(w)'
  BY DEF BudgetInv, TypeOK, ReadClock, Behind
<1>6. \A v \in Worker \ {w} : today'[v] = today[v] /\ expected'[v] = expected[v]
  BY DEF BudgetInv, TypeOK, ReadClock
<1> QED  BY <1>1, <1>2, <1>3, <1>4, <1>5, <1>6, Moves DEF ReadClock

\* Leaving the reset, or never having had to enter it: the locals are gone.
LEMMA Returned ==
    ASSUME BudgetInv, NEW w \in Worker, Return(w)
    PROVE  /\ today' \in [Worker -> 0 .. MaxDay] /\ expected' \in [Worker -> 0 .. MaxDay]
           /\ pc' \in [Worker -> {"idle", "clock", "load", "cas", "store", "act", "turn"}]
           /\ pc'[w] = "act"
           /\ \A v \in Worker : today'[v] <= day
           /\ \A v \in Worker \ {w} : /\ today'[v] = today[v] /\ expected'[v] = expected[v]
                                      /\ pc'[v] = pc[v]
<1>1. /\ today \in [Worker -> 0 .. MaxDay] /\ expected \in [Worker -> 0 .. MaxDay]
      /\ pc \in [Worker -> {"idle", "clock", "load", "cas", "store", "act", "turn"}]
      /\ 0 \in 0 .. MaxDay /\ day \in Nat
  BY Amounts DEF BudgetInv, TypeOK
<1>2. \A v \in Worker : today[v] <= day
  BY DEF BudgetInv, NotAhead
<1> QED  BY <1>1, <1>2 DEF Return, Goto

LEMMA LoadDayStep ==
    ASSUME BudgetInv, NEW w \in Worker, LoadDay(w)
    PROVE  BudgetInv'
<1> DEFINE label == IF Fresh(w) THEN "act" ELSE "cas"
<1>1. TypeOK'
  <2>1. CASE Fresh(w)
    BY <2>1, Returned DEF BudgetInv, TypeOK, LoadDay
  <2>2. CASE ~ Fresh(w)
    BY <2>2 DEF BudgetInv, TypeOK, LoadDay, Goto
  <2> QED  BY <2>1, <2>2
<1>2. \A v \in Worker : today'[v] <= day
  BY Returned DEF BudgetInv, NotAhead, LoadDay
<1>3. Open(w)' = Open(w)
  <2>1. pc[w] = "load" /\ pc'[w] \in {"act", "cas"} /\ op' = op /\ left' = left
    BY DEF BudgetInv, TypeOK, LoadDay, Return, Goto
  <2> QED  BY <2>1 DEF Open, Recording
<1>4. Open(w) \in Nat
  BY OpenType DEF BudgetInv
<1>5. Goto(w, label) /\ label \in {"act", "cas"}
  BY DEF LoadDay, Return
<1>6. Behind(w)' => Behind(w)
  <2>1. CASE Fresh(w)
    <3>1. pc'[w] = "act"
      BY <2>1, Returned DEF LoadDay
    <3> QED  BY <3>1 DEF Behind
  <2>2. CASE ~ Fresh(w)
    BY <2>2 DEF LoadDay, Behind
  <2> QED  BY <2>1, <2>2
<1>7. label = "cas" => expected'[w] # today'[w]
  BY DEF BudgetInv, TypeOK, LoadDay, Fresh
<1>8. \A v \in Worker \ {w} : today'[v] = today[v] /\ expected'[v] = expected[v]
  BY Returned DEF BudgetInv, TypeOK, LoadDay
<1> HIDE DEF label
<1> QED  BY <1>1, <1>2, <1>3, <1>4, <1>5, <1>6, <1>7, <1>8, Moves DEF LoadDay

\* The winner marks the day, and has yet to store: it is the one Renewed names.
LEMMA CompareExchangeStep ==
    ASSUME BudgetInv, NEW w \in Worker, CompareExchange(w)
    PROVE  BudgetInv'
<1>1. TypeOK'
  <2>1. CASE checkDay = expected[w]
    BY <2>1 DEF BudgetInv, TypeOK, CompareExchange, Goto
  <2>2. CASE checkDay # expected[w]
    BY <2>2, Returned DEF BudgetInv, TypeOK, CompareExchange
  <2> QED  BY <2>1, <2>2
<1>2. Open(w)' = Open(w) /\ Open(w) \in Nat
  <2>1. Open(w)' = Open(w)
    <3>1. pc[w] = "cas" /\ pc'[w] \in {"act", "store"} /\ op' = op /\ left' = left
      BY DEF BudgetInv, TypeOK, CompareExchange, Return, Goto
    <3> QED  BY <3>1 DEF Open, Recording
  <2> QED  BY <2>1, OpenType DEF BudgetInv
<1>3. CASE checkDay = expected[w]
  <2>1. checkDay' = today[w] /\ day' = day /\ today' = today /\ expected' = expected
        /\ pc' = [pc EXCEPT ![w] = "store"] /\ used' = used
    BY <1>3 DEF CompareExchange, Goto
  <2>2. NotAhead'
    BY <2>1 DEF BudgetInv, NotAhead
  <2>3. Renewed'
    BY <2>1 DEF BudgetInv, TypeOK, Renewed
  <2>4. \A v \in Worker \ {w} : op'[v] = op[v] /\ pc'[v] = pc[v] /\ left'[v] = left[v]
    BY <2>1 DEF BudgetInv, TypeOK, CompareExchange
  <2>5. \A v \in Worker : Open(v)' <= Open(v)
    BY <1>2, <2>4, Elsewhere, OpenType DEF BudgetInv
  <2>6. used' <= used
    BY <2>1 DEF BudgetInv, TypeOK
  <2>7. Differs'
    BY <2>1 DEF BudgetInv, TypeOK, Differs
  <2>8. pc[w] = "cas" /\ pc'[w] = "store" /\ checkDay # today[w]
    BY <1>3, <2>1 DEF BudgetInv, TypeOK, Differs, CompareExchange
  <2>9. \A v \in Worker \ {w} : Owed(v)' = Owed(v)
    BY <2>1, <2>4 DEF Owed, Behind
  <2>10. Owed(w)' = {1}
    BY <2>8 DEF Owed, Behind
  <2>11. used' - used = added' - added
    BY DEF CompareExchange, BudgetInv, TypeOK
  <2>12. Erased'
    <3>1. CASE today[w] = day
      <4>1. Owed(w) = {}
        BY <2>8, <3>1 DEF Owed, Behind
      <4>2. <<w, 1>> \in Settled /\ Settled' = Settled \ {<<w, 1>>}
        BY <2>9, <2>10, <4>1 DEF Settled
      <4>3. Cardinality(Settled') = Cardinality(Settled) - 1
        BY <4>2, SettledFinite, FS_RemoveElement
      <4>4. Resets \in Nat /\ Resets' \in Nat /\ Resets <= Resets'
        BY <2>1, <2>8, <3>1, <4>3, SettledFinite, SettledNext DEF Resets
      <4> QED  BY <1>1, <2>11, <4>4, MoreResets
    <3>2. CASE today[w] # day
      <4>1. Owed(w) = {1, 2}
        BY <2>8, <3>2 DEF Owed, Behind
      <4>2. <<w, 2>> \notin Settled /\ Settled' = Settled \cup {<<w, 2>>}
        BY <2>9, <2>10, <4>1 DEF Settled
      <4>3. Cardinality(Settled') = Cardinality(Settled) + 1
        BY <4>2, SettledFinite, FS_AddElement
      <4>4. Resets \in Nat /\ Resets' \in Nat /\ Resets <= Resets'
        BY <4>3, SettledFinite, SettledNext DEF Resets
      <4> QED  BY <1>1, <2>11, <4>4, MoreResets
    <3> QED  BY <3>1, <3>2
  <2> QED  BY <1>1, <2>2, <2>3, <2>5, <2>6, <2>7, <2>12, NothingAdded DEF BudgetInv
<1>4. CASE checkDay # expected[w]
  <2>0. Return(w) /\ pc[w] = "cas" /\ UNCHANGED <<day, checkDay, used, op, left, added>>
    BY <1>4 DEF CompareExchange
  <2>1. /\ \A v \in Worker : today'[v] <= day
        /\ \A v \in Worker \ {w} : today'[v] = today[v] /\ expected'[v] = expected[v]
        /\ pc'[w] = "act"
    BY <2>0, Returned
  <2>2. ~ Behind(w)'
    BY <2>1 DEF Behind
  <2>3. Goto(w, "act")
    BY <2>0 DEF Return
  <2> QED  BY <1>1, <1>2, <2>0, <2>1, <2>2, <2>3, Moves
<1> QED  BY <1>3, <1>4

LEMMA StoreZeroStep ==
    ASSUME BudgetInv, NEW w \in Worker, StoreZero(w)
    PROVE  BudgetInv'
<1>1. TypeOK'
  BY Returned DEF BudgetInv, TypeOK, StoreZero, AfterStore
<1>2. used' = 0 /\ used' <= used /\ added' \in Nat
  BY <1>1 DEF BudgetInv, TypeOK, StoreZero, AfterStore
<1>3. NotAhead'
  BY Returned DEF BudgetInv, NotAhead, StoreZero
<1>4. Renewed'
  BY <1>2 DEF Renewed
<1>5. \A v \in Worker \ {w} : op'[v] = op[v] /\ pc'[v] = pc[v] /\ left'[v] = left[v]
  BY Returned DEF StoreZero
<1>6. Open(w)' = Open(w)
  BY Returned DEF StoreZero, Open, Recording
<1>7. \A v \in Worker : Open(v)' <= Open(v)
  BY <1>5, <1>6, Elsewhere, OpenType DEF BudgetInv
<1>8. Differs'
  BY Returned DEF BudgetInv, Differs, StoreZero
<1>9. Erased'
  <2>1. pc[w] = "store" /\ pc'[w] = "act"
    BY Returned DEF StoreZero
  <2>2. Owed(w) = {1} /\ Owed(w)' = {}
    BY <2>1 DEF Owed, Behind
  <2>3. \A v \in Worker \ {w} : Owed(v)' = Owed(v)
    BY <1>5, Returned DEF Owed, Behind, StoreZero
  <2>4. <<w, 1>> \notin Settled /\ Settled' = Settled \cup {<<w, 1>>}
    BY <2>2, <2>3 DEF Settled
  <2>5. Cardinality(Settled') = Cardinality(Settled) + 1
    BY <2>4, SettledFinite, FS_AddElement
  <2>6. Resets \in Nat /\ Resets' = Resets + 1
    BY <2>5, SettledFinite DEF Resets, StoreZero
  <2>7. Resets' * Overshoot = Resets * Overshoot + Overshoot
    BY <2>6, OvershootType
  <2>8. Resets * Overshoot \in Nat
    BY <2>6, OvershootType
  <2>9. used <= Overshoot /\ added <= used + Resets * Overshoot /\ used \in Nat
        /\ added \in Nat
    BY Overshot DEF BudgetInv, Erased, TypeOK
  <2>10. added' <= used' + Resets' * Overshoot
    BY <1>2, <2>7, <2>8, <2>9, OvershootType DEF StoreZero
  <2>11. Overshoot' = Overshoot
    BY DEF Overshoot
  <2> QED  BY <2>10, <2>11 DEF Erased
<1> QED  BY <1>1, <1>2, <1>3, <1>4, <1>7, <1>8, <1>9, NothingAdded DEF BudgetInv

LEMMA BeginCheckStep ==
    ASSUME BudgetInv, NEW w \in Worker, BeginCheck(w)
    PROVE  BudgetInv'
<1>1. TypeOK'
  BY DEF BudgetInv, TypeOK, BeginCheck, Goto
<1>2. \A v \in Worker : today'[v] <= day
  BY DEF BudgetInv, NotAhead, BeginCheck
<1>3. Open(w)' = Open(w)
  BY DEF BudgetInv, TypeOK, BeginCheck, Goto, Open, Recording
<1>4. \A v \in Worker \ {w} : op'[v] = op[v]
  BY DEF BudgetInv, TypeOK, BeginCheck
<1>5. Open(w) \in Nat
  BY OpenType DEF BudgetInv
<1>6. ~ Behind(w)'
  BY DEF BudgetInv, TypeOK, BeginCheck, Goto, Behind
<1> QED  BY <1>1, <1>2, <1>3, <1>4, <1>5, <1>6, Moves DEF BeginCheck

\* Passing the check opens all rounds of a message, but only below the budget.
LEMMA AdmitStep ==
    ASSUME BudgetInv, NEW w \in Worker, Admit(w)
    PROVE  BudgetInv'
<1>1. TypeOK'
  BY Amounts DEF BudgetInv, TypeOK, Admit, Goto
<1>2. NotAhead'
  BY DEF BudgetInv, NotAhead, Admit
<1>3. Renewed'
  <2>1. \A v \in Worker : pc[v] = "store" => pc'[v] = "store"
    BY DEF BudgetInv, TypeOK, Admit, Asked, Goto
  <2> QED  BY <2>1 DEF BudgetInv, Renewed, Admit
<1>4. \A v \in Worker \ {w} : op'[v] = op[v] /\ pc'[v] = pc[v] /\ left'[v] = left[v]
  BY DEF BudgetInv, TypeOK, Admit, Goto
<1>5. \A v \in Worker \ {w} : Open(v)' = Open(v)
  BY <1>4, Elsewhere
<1>6. Open(w)' = MaxRounds
  BY Amounts DEF BudgetInv, TypeOK, Admit, Asked, Goto, Open, Recording
<1>7. \A v \in Worker : Open(v)' <= MaxRounds
  BY <1>5, <1>6, Amounts DEF BudgetInv
<1>8. used' <= Budget - 1
  BY Amounts DEF BudgetInv, TypeOK, Admit, Exhausted
<1>9. Cardinality(Spent') \in Nat
  <2>1. Spent' \in SUBSET (Worker \X (1 .. MaxRounds))
    BY DEF Spent
  <2> QED  BY <2>1, AllRounds, FS_Subset, FS_CardinalityType
<1>10. Cardinality(Spent') * MaxTokens \in Nat
  BY <1>9, Amounts
<1>11. Overrun'
  BY <1>1, <1>8, <1>10, Amounts DEF Overrun, TypeOK
<1>12. Differs'
  BY DEF BudgetInv, TypeOK, Differs, Admit, Goto
<1>13. Erased'
  <2>1. \A v \in Worker : Owed(v)' \subseteq Owed(v)
    BY <1>4 DEF BudgetInv, TypeOK, Owed, Behind, Admit, Goto
  <2> QED  BY <1>1, <2>1, LessOwed DEF Admit, BudgetInv, TypeOK
<1> QED  BY <1>1, <1>2, <1>3, <1>7, <1>11, <1>12, <1>13 DEF BudgetInv

\* A message that is refused opens nothing, whoever refuses it.
LEMMA RejectStep ==
    ASSUME BudgetInv, NEW w \in Worker, Reject(w)
    PROVE  BudgetInv'
<1>1. TypeOK'
  BY DEF BudgetInv, TypeOK, Reject, Goto
<1>2. \A v \in Worker : today'[v] <= day
  BY DEF BudgetInv, NotAhead, Reject
<1>3. Open(w)' = Open(w)
  BY DEF BudgetInv, TypeOK, Reject, Asked, Goto, Open, Recording
<1>4. \A v \in Worker \ {w} : op'[v] = op[v]
  BY DEF Reject
<1>5. Open(w) \in Nat
  BY OpenType DEF BudgetInv
<1>6. ~ Behind(w)'
  BY DEF BudgetInv, TypeOK, Reject, Goto, Behind
<1> QED  BY <1>1, <1>2, <1>3, <1>4, <1>5, <1>6, Moves DEF Reject, Asked

LEMMA BeginRecordStep ==
    ASSUME BudgetInv, NEW w \in Worker, BeginRecord(w)
    PROVE  BudgetInv'
<1>1. TypeOK'
  BY Amounts DEF BudgetInv, TypeOK, BeginRecord, RoundsLeft, OneLess, Goto
<1>2. \A v \in Worker : today'[v] <= day
  BY DEF BudgetInv, NotAhead, BeginRecord
<1>3. Open(w)' = Open(w)
  <2>1. pc'[w] = "clock" /\ op'[w] = "record" /\ left'[w] = left[w] - 1
        /\ pc[w] = "turn" /\ left[w] \in Nat
    BY Amounts DEF BudgetInv, TypeOK, BeginRecord, OneLess, Goto
  <2> QED  BY <2>1 DEF Open, Recording
<1>4. \A v \in Worker \ {w} : op'[v] = op[v] /\ left'[v] = left[v]
  BY DEF BudgetInv, TypeOK, BeginRecord
<1>5. Open(w) \in Nat
  BY OpenType DEF BudgetInv
<1>6. ~ Behind(w)'
  BY DEF BudgetInv, TypeOK, BeginRecord, Goto, Behind
<1> QED  BY <1>1, <1>2, <1>3, <1>4, <1>5, <1>6, Moves DEF BeginRecord

LEMMA EndTurnStep ==
    ASSUME BudgetInv, NEW w \in Worker, EndTurn(w)
    PROVE  BudgetInv'
<1>1. TypeOK'
  BY Amounts DEF BudgetInv, TypeOK, EndTurn, Goto
<1>2. \A v \in Worker : today'[v] <= day
  BY DEF BudgetInv, NotAhead, EndTurn
<1>3. Open(w)' = 0
  BY DEF BudgetInv, TypeOK, EndTurn, Goto, Open, Recording
<1>4. \A v \in Worker \ {w} : op'[v] = op[v] /\ left'[v] = left[v]
  BY DEF BudgetInv, TypeOK, EndTurn
<1>5. Open(w) \in Nat
  BY OpenType DEF BudgetInv
<1>6. Open(w)' <= Open(w)
  BY <1>3, <1>5
<1>7. ~ Behind(w)'
  BY DEF BudgetInv, TypeOK, EndTurn, Goto, Behind
<1> QED  BY <1>1, <1>2, <1>4, <1>6, <1>7, Moves DEF EndTurn

\* The tokens of one round are added, and that round is spent.
LEMMA AddStep ==
    ASSUME BudgetInv, NEW w \in Worker, NEW n \in 1 .. MaxTokens, Add(w, n)
    PROVE  BudgetInv'
<1>0. used \in Nat /\ added \in Nat /\ n \in Nat /\ n <= MaxTokens
  BY Amounts DEF BudgetInv, TypeOK
<1>1. TypeOK'
  BY <1>0 DEF BudgetInv, TypeOK, Add, Goto
<1>2. NotAhead'
  BY DEF BudgetInv, NotAhead, Add
<1>3. Renewed'
  <2>1. \A v \in Worker : pc[v] = "store" => pc'[v] = "store"
    BY DEF BudgetInv, TypeOK, Add, Goto
  <2>2. used <= added => used' <= added'
    BY <1>0 DEF Add
  <2> QED  BY <2>1, <2>2 DEF BudgetInv, Renewed, Add
<1>4. \A v \in Worker \ {w} : op'[v] = op[v] /\ pc'[v] = pc[v] /\ left'[v] = left[v]
  BY DEF BudgetInv, TypeOK, Add, Goto
<1>5. \A v \in Worker \ {w} : Open(v)' = Open(v)
  BY <1>4, Elsewhere
<1>6. Open(w) = left[w] + 1 /\ Open(w)' = left[w] /\ left[w] \in Nat
  BY Amounts DEF BudgetInv, TypeOK, Add, Goto, Open, Recording
<1>7. Open(w) <= MaxRounds
  BY DEF BudgetInv
<1>8. \A v \in Worker : Open(v)' <= MaxRounds
  BY <1>5, <1>6, <1>7, Amounts DEF BudgetInv
<1>9. Spent' = Spent \cup {<<w, left[w] + 1>>} /\ <<w, left[w] + 1>> \notin Spent
  <2>1. <<w, left[w] + 1>> \in Worker \X (1 .. MaxRounds)
    BY <1>6, <1>7, Amounts
  <2>2. <<w, left[w] + 1>> \notin Spent
    BY <1>6 DEF Spent
  <2>3. ASSUME NEW v \in Worker, NEW r \in 1 .. MaxRounds
        PROVE  r > Open(v)' <=> r > Open(v) \/ <<v, r>> = <<w, left[w] + 1>>
    <3>1. CASE v # w
      BY <3>1, <1>5
    <3>2. CASE v = w
      BY <3>2, <1>6
    <3> QED  BY <3>1, <3>2
  <2> QED  BY <2>1, <2>2, <2>3 DEF Spent
<1>10. Cardinality(Spent') = Cardinality(Spent) + 1
  BY <1>9, SpentFinite, FS_AddElement
<1>11. Cardinality(Spent') * MaxTokens = Cardinality(Spent) * MaxTokens + MaxTokens
  BY <1>10, SpentFinite, Amounts
<1>12. Cardinality(Spent) * MaxTokens \in Nat
  BY SpentFinite, Amounts
<1>13. Overrun'
  <2>1. used <= (Budget - 1) + Cardinality(Spent) * MaxTokens
    BY DEF BudgetInv, Overrun
  <2>2. used' <= (Budget - 1) + Cardinality(Spent') * MaxTokens
    BY <1>0, <1>11, <1>12, <2>1, Amounts DEF Add
  <2> QED  BY <2>2 DEF Overrun
<1>14. Differs'
  BY DEF BudgetInv, TypeOK, Differs, Add, Goto
<1>15. Erased'
  <2>1. \A v \in Worker : Owed(v)' \subseteq Owed(v)
    BY <1>4 DEF BudgetInv, TypeOK, Owed, Behind, Add, Goto
  <2>2. used' - used = added' - added
    BY <1>0 DEF Add
  <2> QED  BY <1>1, <2>1, <2>2, LessOwed DEF Add
<1> QED  BY <1>1, <1>2, <1>3, <1>8, <1>13, <1>14, <1>15 DEF BudgetInv

\* A new day: it is not marked as reset, because no worker can have seen it.
LEMMA MidnightStep ==
    ASSUME BudgetInv, Midnight
    PROVE  BudgetInv'
<1>1. TypeOK'
  BY Amounts DEF BudgetInv, TypeOK, Midnight
<1>2. /\ day' = day + 1 /\ day \in Nat /\ checkDay \in Nat /\ checkDay <= day
      /\ UNCHANGED <<checkDay, used, op, pc, today, left>>
      /\ \A w \in Worker : today[w] \in Nat /\ today[w] <= day
  BY Amounts DEF BudgetInv, TypeOK, NotAhead, Midnight
<1>3. NotAhead' /\ Renewed'
  BY <1>2 DEF NotAhead, Renewed
<1>4. \A w \in Worker : Open(w)' = Open(w)
  BY <1>2 DEF Open, Recording
<1>5. Spent' = Spent
  BY <1>4 DEF Spent
<1>6. Differs'
  BY DEF BudgetInv, Differs, Midnight
<1>7. Erased'
  <2>1. Resets' \in Nat
    BY SettledNext DEF Resets
  <2>2. Resets' * Overshoot' \in Nat
    BY <2>1, OvershootType DEF Overshoot
  <2> QED  BY <1>1, <2>2 DEF Erased, Midnight, TypeOK
<1> QED  BY <1>1, <1>2, <1>3, <1>4, <1>5, <1>6, <1>7 DEF BudgetInv, Overrun

LEMMA BudgetInductive == BudgetInv /\ [Next]_vars => BudgetInv'
<1> SUFFICES ASSUME BudgetInv, [Next]_vars PROVE BudgetInv'
  OBVIOUS
<1>1. CASE UNCHANGED vars
  BY <1>1 DEF vars, BudgetInv, TypeOK, NotAhead, Renewed, Open, Recording, Overrun, Spent,
     Differs, Erased, Resets, Settled, Owed, Behind
<1>2. CASE Midnight
  BY <1>2, MidnightStep
<1>3. ASSUME NEW w \in Worker,
             \/ ReadClock(w) \/ LoadDay(w) \/ CompareExchange(w) \/ StoreZero(w)
             \/ BeginCheck(w) \/ Admit(w) \/ Reject(w) \/ BeginRecord(w) \/ EndTurn(w)
      PROVE  BudgetInv'
  BY <1>3, ReadClockStep, LoadDayStep, CompareExchangeStep, StoreZeroStep, BeginCheckStep,
     AdmitStep, RejectStep, BeginRecordStep, EndTurnStep
<1>4. ASSUME NEW w \in Worker, NEW n \in 1 .. MaxTokens, Add(w, n)
      PROVE  BudgetInv'
  BY <1>4, AddStep
<1> QED  BY <1>1, <1>2, <1>3, <1>4 DEF Next

\* The inductive invariant of the token budget (policy_engine.cpp:26-35, 143-151,
\* 241-244).
THEOREM BudgetInvariance == Spec => []BudgetInv
  BY BudgetInitially, BudgetInductive, PTL DEF Spec

-------------------------------------------------------------------------------
(* The engine: its steps are steps of its halves.                              *)

LEMMA BudgetHalf == [PolicyNext]_policyVars => [Next]_vars
<1> SUFFICES ASSUME PolicyNext PROVE [Next]_vars
  BY DEF policyVars
<1>1. CASE Midnight
  BY <1>1 DEF Next
<1>2. CASE Tick /\ UNCHANGED vars
  BY <1>2
<1>3. ASSUME NEW w \in Worker, Admit(w) \/ Reject(w)
      PROVE  Next
  BY <1>3 DEF Next
<1>4. ASSUME NEW w \in Worker, OtherStep(w)
      PROVE  Next
  BY <1>4 DEF Next, OtherStep
<1> QED
  BY <1>1, <1>2, <1>3, <1>4 DEF PolicyNext, CheckExhausted, CheckAllowed, CheckLimited

LEMMA RateHalf == [PolicyNext]_policyVars => [RateNext]_rateVars
  BY DEF policyVars, PolicyNext, RateNext, CheckExhausted, CheckAllowed, CheckLimited,
         OtherStep

\* A message passes both limits in one call, and each of them sees calls and days
\* it could see alone (policy_engine.cpp:136-187).
THEOREM Halves == PolicySpec => Spec /\ RateSpec
<1>1. PolicyInit => Init /\ RateInit
  BY DEF PolicyInit
<1> QED  BY <1>1, BudgetHalf, RateHalf, PTL DEF PolicySpec, Spec, RateSpec

\* So each half keeps what it keeps alone.
THEOREM Invariance == PolicySpec => [](RateInv /\ BudgetInv)
  BY Halves, RateInvariance, BudgetInvariance, PTL

\* Counters, registers, entries and histories keep their shape; no entry counts
\* nothing (policy_engine.h:72-84).
THEOREM TypeCorrect == PolicySpec => []PolicyTypeOK
<1>1. RateInv /\ BudgetInv => PolicyTypeOK
  BY DEF RateInv, BudgetInv, PolicyTypeOK
<1> QED  BY <1>1, Invariance, PTL

\* However calls, windows and sweeps fall, no stretch of Window seconds holds more
\* than twice Limit calls of one actor (policy_engine.cpp:160-172, 175-183).
THEOREM RateKept == PolicySpec => []RateBounded
<1>1. RateInv /\ BudgetInv => RateBounded
  BY DEF RateInv
<1> QED  BY <1>1, Invariance, PTL

\* However the steps of the reset and of the additions fall, what is added from one
\* midnight to the next, erased or not, stays bounded: by what the counter can hold
\* at the end and at each of the at most two resets of a worker and the day's own,
\* for any number of workers (policy_engine.cpp:26-35, 143-151, 241-244;
\* agent_controller.cpp:260, 335-338).
THEOREM BudgetKept == PolicySpec => []SpentBounded
<1>1. RateInv /\ BudgetInv => SpentBounded
  <2> SUFFICES ASSUME BudgetInv PROVE SpentBounded
    OBVIOUS
  <2> DEFINE n == Cardinality(Worker)
  <2>1. n \in Nat /\ Resets \in Nat /\ Resets <= 2 * n + 1
    BY SettledFinite, AllRounds DEF Resets
  <2>2. Resets * Overshoot <= (2 * n + 1) * Overshoot
    BY <2>1, OvershootType, TimesKeeps
  <2>3. (2 * n + 2) * Overshoot = (2 * n + 1) * Overshoot + Overshoot
    BY <2>1, OvershootType
  <2>4. Resets * Overshoot \in Nat /\ (2 * n + 1) * Overshoot \in Nat
    BY <2>1, OvershootType
  <2>5. used \in Nat /\ added \in Nat /\ used <= Overshoot
        /\ added <= used + Resets * Overshoot
    BY Overshot DEF BudgetInv, TypeOK, Erased
  <2> HIDE DEF n
  <2>6. added <= (2 * n + 2) * Overshoot
    BY <2>2, <2>3, <2>4, <2>5, OvershootType
  <2> QED  BY <2>6 DEF SpentBounded, n
<1> QED  BY <1>1, Invariance, PTL

\* A day counts nothing of the one before: a count older than the mark is still to
\* be erased by the worker that set it (policy_engine.cpp:26-35).
THEOREM DaysApart == PolicySpec => []NothingCarriedOver
<1>1. RateInv /\ BudgetInv => NothingCarriedOver
  <2>1. Quiet => ~ \E w \in Worker : pc[w] = "store"
    BY DEF Quiet
  <2> QED  BY <2>1 DEF BudgetInv, Renewed, NothingCarriedOver
<1> QED  BY <1>1, Invariance, PTL
===============================================================================
