--------------------------- MODULE ChatHistory_proofs ---------------------------
(* What the history of a conversation keeps, for any sizes, limits and number  *)
(* of turns.                                                                   *)
EXTENDS ChatHistory, FiniteSetTheorems, SequenceTheorems, WellFoundedInduction, TLAPS
-------------------------------------------------------------------------------
(* The invariant.                                                              *)

\* Messages are made in turns.
Begun == pc # "idle" => turn > 0

\* Saved rows may be stamped with times to come, but never the first one.
FirstPast == rows # <<>> => rows[1].at <= clock

\* While the model works the worker adds nothing: what was read is there, or cleared.
Snapped ==
    pc = "model" =>
        /\ before > 0
        /\ rows # <<>> => /\ Len(rows) = before
                          /\ promptOf = [epoch |-> clears, covers |-> Covered(rows, Prompt(rows))]

IInv == TypeOK /\ Begun /\ ClearWins /\ SummaryFirst /\ FirstPast /\ Snapped
-------------------------------------------------------------------------------
(* Numbers in order.                                                           *)

\* Every set of naturals that is not empty has a least element.
LEMMA Least ==
    ASSUME NEW T, T \subseteq Nat, T # {}
    PROVE  \E m \in T : \A k \in T : m <= k
<1>1. PICK m \in T : \A k \in T : <<k, m>> \notin OpToRel(<, Nat)
  BY NatLessThanWellFounded, WFMin
<1>2. \A k \in T : ~ (k < m)
  BY <1>1 DEF OpToRel
<1> QED  BY <1>2

\* How many elements of S do not exceed n.
Rank(S, n) == Cardinality({m \in S : m <= n})

\* The rank counts the elements passed.
Counts(N, S) ==
    /\ IsFiniteSet(S)
    /\ \A n \in Nat : Rank(S, n) \in Nat
    /\ Rank(S, 0) = 0 /\ Rank(S, N) = Cardinality(S)
    /\ \A n \in Nat : Rank(S, n + 1) = IF n + 1 \in S THEN Rank(S, n) + 1 ELSE Rank(S, n)
    /\ \A m \in S, n \in S : m < n => Rank(S, m) < Rank(S, n)

LEMMA RankGrows == ASSUME NEW N \in Nat, NEW S, S \subseteq 1 .. N PROVE Counts(N, S)
<1>0. \A m \in S : m \in Nat /\ m >= 1 /\ m <= N
  OBVIOUS
<1>1. IsFiniteSet(1 .. N)
  BY FS_Interval
<1>2. IsFiniteSet(S)
  BY <1>1, FS_Subset
<1>3. \A n \in Nat : IsFiniteSet({m \in S : m <= n}) /\ Rank(S, n) \in Nat
  BY <1>2, FS_Subset, FS_CardinalityType DEF Rank
<1>4. Rank(S, 0) = 0 /\ Rank(S, N) = Cardinality(S)
  <2>1. {m \in S : m <= 0} = {} /\ {m \in S : m <= N} = S
    <3>1. \A m \in S : ~ (m <= 0)
      BY <1>0
    <3> QED  BY <1>0, <3>1
  <2> QED  BY <2>1, FS_EmptySet DEF Rank
<1>5. ASSUME NEW n \in Nat
      PROVE  Rank(S, n + 1) = IF n + 1 \in S THEN Rank(S, n) + 1 ELSE Rank(S, n)
  <2> DEFINE A == {m \in S : m <= n}
             B == {m \in S : m <= n + 1}
  <2>1. CASE n + 1 \in S
    <3>0. \A m \in S : m <= n + 1 <=> (m <= n \/ m = n + 1)
      BY <1>0
    <3>1. B = A \cup {n + 1} /\ n + 1 \notin A
      <4>1. ~ (n + 1 <= n) /\ n + 1 <= n + 1
        OBVIOUS
      <4> QED  BY <2>1, <3>0, <4>1
    <3>2. Cardinality(B) = Cardinality(A) + 1
      BY <1>3, <3>1, FS_AddElement
    <3> QED  BY <2>1, <3>2 DEF Rank
  <2>2. CASE n + 1 \notin S
    <3>0. \A m \in S : m <= n + 1 <=> (m <= n \/ m = n + 1)
      BY <1>0
    <3>1. B = A
      BY <2>2, <3>0
    <3> QED  BY <2>2, <3>1 DEF Rank
  <2> QED  BY <2>1, <2>2
<1>6. ASSUME NEW m \in S, NEW n \in S, m < n PROVE Rank(S, m) < Rank(S, n)
  <2> DEFINE A == {k \in S : k <= m}
             B == {k \in S : k <= n}
  <2>1. m \in Nat /\ n \in Nat
    BY <1>0
  <2>2. A \subseteq B /\ n \in B /\ n \notin A
    <3>1. \A k \in S : k <= m => k <= n
      BY <1>0, <1>6
    <3>2. n <= n /\ ~ (n <= m)
      BY <1>6, <2>1
    <3> QED  BY <3>1, <3>2
  <2>3. IsFiniteSet(B) /\ Cardinality(A) \in Nat /\ Cardinality(B) \in Nat
    BY <1>3, <2>1 DEF Rank
  <2>4. Cardinality(A) <= Cardinality(B) /\ Cardinality(A) # Cardinality(B)
    BY <2>2, <2>3, FS_Subset
  <2>5. Cardinality(A) < Cardinality(B)
    BY <2>3, <2>4
  <2> QED  BY <2>5 DEF Rank
<1> QED  BY <1>2, <1>3, <1>4, <1>5, <1>6 DEF Counts

\* Every rank up to the number of elements is taken.
LEMMA RankTaken ==
    ASSUME NEW N \in Nat, NEW S, S \subseteq 1 .. N, NEW i \in 1 .. Cardinality(S)
    PROVE  \E n \in S : Rank(S, n) = i
<1>0. Counts(N, S)
  BY RankGrows
<1>1. /\ \A n \in Nat : Rank(S, n) \in Nat
      /\ Rank(S, 0) = 0 /\ Rank(S, N) = Cardinality(S)
      /\ \A n \in Nat : Rank(S, n + 1) = IF n + 1 \in S THEN Rank(S, n) + 1 ELSE Rank(S, n)
  BY <1>0, Zenon DEF Counts
<1>2. Cardinality(S) \in Nat /\ i \in Nat /\ i >= 1 /\ i <= Cardinality(S)
  BY <1>1
<1> DEFINE T == {n \in Nat : Rank(S, n) >= i}
<1>3. N \in T
  BY <1>1, <1>2
<1>4. PICK n \in T : \A k \in T : n <= k
  <2>1. T \subseteq Nat /\ T # {}
    BY <1>3
  <2> HIDE DEF T
  <2> QED  BY <2>1, Least
<1>5. n \in Nat /\ Rank(S, n) >= i /\ Rank(S, n) \in Nat
  BY <1>1
<1>6. n # 0
  BY <1>1, <1>2, <1>5
<1>7. PICK m \in Nat : n = m + 1
  <2>1. n - 1 \in Nat /\ n = (n - 1) + 1
    BY <1>5, <1>6
  <2> QED  BY <2>1
<1>8. Rank(S, m) < i /\ Rank(S, m) \in Nat
  <2>1. m \notin T
    <3> HIDE DEF T
    <3> QED  BY <1>4, <1>7
  <2> QED  BY <1>1, <1>2, <2>1
<1>9. Rank(S, n) = IF n \in S THEN Rank(S, m) + 1 ELSE Rank(S, m)
  BY <1>1, <1>7
<1> QED  BY <1>2, <1>5, <1>8, <1>9

\* InOrder lists each element once, from the least to the greatest.
LEMMA InOrderLists ==
    ASSUME NEW N \in Nat, NEW S, S \subseteq 1 .. N
    PROVE  /\ Cardinality(S) \in Nat /\ DOMAIN InOrder(S) = 1 .. Cardinality(S)
           /\ InOrder(S) \in Seq(S) /\ Len(InOrder(S)) = Cardinality(S)
           /\ \A i \in DOMAIN InOrder(S) : InOrder(S)[i] \in S
           /\ \A i, j \in DOMAIN InOrder(S) : i < j => InOrder(S)[i] < InOrder(S)[j]
           /\ \A n \in S : \E i \in DOMAIN InOrder(S) : InOrder(S)[i] = n
<1> DEFINE o == InOrder(S)
           d == 1 .. Cardinality(S)
<1>c. Counts(N, S)
  BY RankGrows
<1>0. /\ IsFiniteSet(S) /\ \A n \in Nat : Rank(S, n) \in Nat
      /\ Rank(S, N) = Cardinality(S)
      /\ \A m \in S, n \in S : m < n => Rank(S, m) < Rank(S, n)
  BY <1>c, Zenon DEF Counts
<1>1. Cardinality(S) \in Nat /\ \A m \in S : m \in Nat /\ m <= N
  BY <1>0
<1>2. DOMAIN o = d
  BY DEF InOrder
<1>3. \A i \in d : o[i] \in S /\ Rank(S, o[i]) = i
  <2> SUFFICES ASSUME NEW i \in d PROVE o[i] \in S /\ Rank(S, o[i]) = i
    OBVIOUS
  <2>1. \E n \in S : Cardinality({m \in S : m <= n}) = i
    <3>1. PICK n \in S : Rank(S, n) = i
      BY RankTaken
    <3> QED  BY <3>1 DEF Rank
  <2>2. o[i] = CHOOSE n \in S : Cardinality({m \in S : m <= n}) = i
    BY DEF InOrder
  <2> QED  BY <2>1, <2>2 DEF Rank
<1> HIDE DEF o
<1>4. o \in Seq(S) /\ Len(o) = Cardinality(S)
  <2>1. o \in [1 .. Cardinality(S) -> S]
    <3>1. o = [i \in d |-> o[i]]
      BY DEF o, InOrder
    <3> QED  BY <1>3, <3>1
  <2> QED  BY <1>1, <1>2, <2>1
<1>5. \A i, j \in d : i < j => o[i] < o[j]
  <2> SUFFICES ASSUME NEW i \in d, NEW j \in d, i < j PROVE o[i] < o[j]
    OBVIOUS
  <2>1. /\ o[i] \in S /\ o[j] \in S /\ Rank(S, o[i]) = i /\ Rank(S, o[j]) = j
        /\ o[i] \in Nat /\ o[j] \in Nat
    BY <1>1, <1>3
  <2>2. o[j] < o[i] => j < i
    BY <1>0, <2>1
  <2>3. o[j] # o[i]
    BY <2>1
  <2> QED  BY <1>1, <2>1, <2>2, <2>3
<1>6. \A n \in S : \E i \in d : o[i] = n
  <2> SUFFICES ASSUME NEW n \in S PROVE \E i \in d : o[i] = n
    OBVIOUS
  <2>1. n \in Nat /\ n <= N /\ Rank(S, n) \in Nat
    BY <1>0, <1>1
  <2>2. Rank(S, n) \in d
    <3>1. n \in {m \in S : m <= n} /\ {m \in S : m <= n} \subseteq S
      BY <2>1
    <3>2. Rank(S, n) # 0 /\ Rank(S, n) <= Cardinality(S)
      BY <1>0, <3>1, FS_Subset, FS_EmptySet DEF Rank
    <3> QED  BY <1>1, <2>1, <3>2
  <2>3. PICK m \in S : m = o[Rank(S, n)] /\ Rank(S, m) = Rank(S, n)
    BY <1>3, <2>2
  <2>4. ~ (m < n) /\ ~ (n < m)
    <3>1. Rank(S, m) = Rank(S, n)
      BY <2>3
    <3> QED  BY <1>0, <2>1, <3>1
  <2>5. m = n
    BY <1>1, <2>1, <2>4
  <2> QED  BY <2>2, <2>3, <2>5
<1> QED  BY <1>1, <1>2, <1>3, <1>4, <1>5, <1>6 DEF o

-------------------------------------------------------------------------------
(* Rows.                                                                       *)

\* The rows at some positions, in their order.
LEMMA AtRows ==
    ASSUME NEW A, NEW s \in Seq(A), NEW I \in SUBSET (DOMAIN s)
    PROVE  /\ Cardinality(I) \in Nat /\ At(s, I) \in Seq(A)
           /\ Len(At(s, I)) = Cardinality(I) /\ DOMAIN At(s, I) = 1 .. Cardinality(I)
           /\ \A k \in 1 .. Cardinality(I) :
                 InOrder(I)[k] \in I /\ InOrder(I)[k] \in Nat /\ At(s, I)[k] = s[InOrder(I)[k]]
           /\ \A j, k \in 1 .. Cardinality(I) : j < k => InOrder(I)[j] < InOrder(I)[k]
           /\ \A i \in I : \E k \in 1 .. Cardinality(I) : InOrder(I)[k] = i
<1>1. Len(s) \in Nat /\ I \subseteq 1 .. Len(s) /\ DOMAIN s = 1 .. Len(s)
  OBVIOUS
<1>2. /\ Cardinality(I) \in Nat /\ DOMAIN InOrder(I) = 1 .. Cardinality(I)
      /\ \A k \in DOMAIN InOrder(I) : InOrder(I)[k] \in I
      /\ \A j, k \in DOMAIN InOrder(I) : j < k => InOrder(I)[j] < InOrder(I)[k]
      /\ \A i \in I : \E k \in DOMAIN InOrder(I) : InOrder(I)[k] = i
  BY <1>1, InOrderLists
<1>3. At(s, I) = [k \in 1 .. Cardinality(I) |-> s[InOrder(I)[k]]]
  BY <1>2 DEF At
<1>4. \A k \in 1 .. Cardinality(I) : InOrder(I)[k] \in Nat /\ s[InOrder(I)[k]] \in A
  BY <1>1, <1>2
<1>5. At(s, I) \in [1 .. Cardinality(I) -> A]
  BY <1>3, <1>4
<1>6. At(s, I) \in Seq(A) /\ Len(At(s, I)) = Cardinality(I)
  BY <1>2, <1>5
<1> QED  BY <1>2, <1>3, <1>4, <1>5, <1>6

\* A first position comes first.
LEMMA AtFirst ==
    ASSUME NEW A, NEW s \in Seq(A), NEW I \in SUBSET (DOMAIN s),
           NEW k \in 1 .. Cardinality(I), InOrder(I)[k] = 1
    PROVE  k = 1
<1>1. Cardinality(I) \in Nat
  BY AtRows
<1>2. SUFFICES ASSUME k # 1 PROVE FALSE
  OBVIOUS
<1>3. 1 \in 1 .. Cardinality(I) /\ 1 < k
  BY <1>1, <1>2
<1>4. InOrder(I)[1] < 1 /\ InOrder(I)[1] \in I
  BY <1>3, AtRows
<1>5. InOrder(I)[1] \in 1 .. Len(s)
  BY <1>4
<1> QED  BY <1>4, <1>5

\* A last position comes last.
LEMMA AtLast ==
    ASSUME NEW A, NEW s \in Seq(A), NEW I \in SUBSET (DOMAIN s), NEW n \in I, \A i \in I : i <= n
    PROVE  Cardinality(I) \in 1 .. Cardinality(I) /\ At(s, I)[Cardinality(I)] = s[n]
<1>1. Cardinality(I) \in Nat
  BY AtRows
<1>2. PICK k \in 1 .. Cardinality(I) : InOrder(I)[k] = n
  BY AtRows
<1>3. Cardinality(I) \in 1 .. Cardinality(I)
  BY <1>1, <1>2
<1>4. InOrder(I)[Cardinality(I)] \in I /\ InOrder(I)[Cardinality(I)] \in Nat /\ n \in Nat
  BY <1>2, <1>3, AtRows
<1>5. k < Cardinality(I) => n < InOrder(I)[Cardinality(I)]
  BY <1>2, <1>3, AtRows
<1>6. k = Cardinality(I)
  BY <1>1, <1>2, <1>4, <1>5
<1> QED  BY <1>2, <1>3, <1>6, AtRows

\* A row between two sequences of rows.
LEMMA Joined ==
    ASSUME NEW A, NEW a \in Seq(A), NEW r \in A, NEW b \in Seq(A), NEW t, t = a \o <<r>> \o b
    PROVE  /\ t \in Seq(A) /\ Len(t) = Len(a) + 1 + Len(b)
           /\ Len(a) \in Nat /\ Len(b) \in Nat /\ DOMAIN t = 1 .. Len(a) + 1 + Len(b)
           /\ \A k \in 1 .. Len(a) : t[k] = a[k]
           /\ t[Len(a) + 1] = r
           /\ \A k \in 1 .. Len(b) : t[Len(a) + 1 + k] = b[k]
<1>1. <<r>> \in Seq(A) /\ Len(<<r>>) = 1 /\ <<r>>[1] = r
  OBVIOUS
<1>2. /\ a \o <<r>> \in Seq(A) /\ Len(a \o <<r>>) = Len(a) + 1
      /\ Len(a) \in Nat /\ Len(b) \in Nat
  BY <1>1
<1>3. \A k \in 1 .. Len(a) : (a \o <<r>>)[k] = a[k]
  BY <1>1
<1>4. (a \o <<r>>)[Len(a) + 1] = r
  BY <1>1, <1>2
<1> DEFINE c == a \o <<r>>
<1>5. c \in Seq(A) /\ Len(c) = Len(a) + 1
  BY <1>2
<1> HIDE DEF c
<1>6. c \o b \in Seq(A) /\ Len(c \o b) = Len(c) + Len(b)
  BY <1>5, ConcatProperties
<1>7. \A k \in 1 .. Len(c) : (c \o b)[k] = c[k]
  BY <1>5
<1>8. \A k \in 1 .. Len(b) : (c \o b)[Len(c) + k] = b[k]
  BY <1>5
<1>9. t = c \o b
  BY DEF c
<1>10. t \in Seq(A) /\ Len(t) = Len(a) + 1 + Len(b) /\ DOMAIN t = 1 .. Len(a) + 1 + Len(b)
  BY <1>2, <1>5, <1>6, <1>9
<1>11. \A k \in 1 .. Len(a) : t[k] = a[k]
  BY <1>2, <1>3, <1>5, <1>7, <1>9 DEF c
<1>12. t[Len(a) + 1] = r
  BY <1>2, <1>4, <1>5, <1>7, <1>9 DEF c
<1>13. \A k \in 1 .. Len(b) : t[Len(a) + 1 + k] = b[k]
  BY <1>2, <1>5, <1>8, <1>9
<1> QED  BY <1>2, <1>10, <1>11, <1>12, <1>13

\* The sizes of some rows add up to a number.
LEMMA BytesType ==
    ASSUME NEW s \in Seq(RowType), NEW I \in SUBSET (DOMAIN s)
    PROVE  Bytes(s, I) \in Nat
<1> DEFINE U == {{i} \X (1 .. s[i].size) : i \in I}
<1>1. IsFiniteSet(I) /\ I \subseteq 1 .. Len(s) /\ Len(s) \in Nat
  <2>1. Len(s) \in Nat /\ DOMAIN s = 1 .. Len(s)
    OBVIOUS
  <2>2. IsFiniteSet(1 .. Len(s))
    BY <2>1, FS_Interval
  <2> QED  BY <2>1, <2>2, FS_Subset
<1>2. ASSUME NEW i \in I PROVE IsFiniteSet({i} \X (1 .. s[i].size))
  <2>1. s[i] \in RowType
    BY <1>1
  <2>2. s[i].size \in Nat
    BY <2>1 DEF RowType
  <2>3. IsFiniteSet(1 .. s[i].size) /\ IsFiniteSet({i})
    <3>1. IsFiniteSet(1 .. s[i].size)
      BY <2>2, FS_Interval
    <3> QED  BY <3>1, FS_Singleton
  <2> QED  BY <2>3, FS_Product
<1>3. IsFiniteSet(U)
  <2> DEFINE f == [i \in I |-> {i} \X (1 .. s[i].size)]
  <2>1. f \in Surjection(I, U)
    BY DEF Surjection
  <2> HIDE DEF f, U
  <2> QED  BY <1>1, <2>1, FS_Surjection
<1>4. IsFiniteSet(UNION U)
  BY <1>2, <1>3, FS_UNION
<1> QED  BY <1>4, FS_CardinalityType DEF Bytes

\* Rows of this epoch, the summary first if there is one.
Proper(s) ==
    /\ s \in Seq(RowType)
    /\ \A i \in DOMAIN s : s[i].epoch = clears
    /\ \A i \in DOMAIN s : s[i].kind = "summary" => i = 1

\* What append_message() leaves when a message is stamped now.
LEMMA InsertedKeeps ==
    ASSUME TypeOK, Proper(rows), FirstPast, NEW r \in RowType,
           r.at = clock, r.epoch = clears, r.kind # "summary", NEW t, t = Inserted(rows, r)
    PROVE  /\ Proper(t) /\ t # <<>> /\ t[1].at <= clock
           /\ \A i, j \in DOMAIN t : i < j => t[i].at <= t[j].at
<1> DEFINE I == {i \in DOMAIN rows : rows[i].at <= r.at}
           J == {i \in DOMAIN rows : rows[i].at > r.at}
           a == At(rows, I)
           b == At(rows, J)
<1>1. clock \in Nat /\ rows \in Seq(RowType) /\ DOMAIN rows = 1 .. Len(rows) /\ Len(rows) \in Nat
  <2>1. clock \in Nat
    BY HistoryAssumption DEF TypeOK
  <2>2. rows \in Seq(RowType)
    BY DEF TypeOK
  <2> QED  BY <2>1, <2>2
<1>2. \A i \in DOMAIN rows : rows[i] \in RowType /\ rows[i].at \in Nat
  <2>1. \A i \in DOMAIN rows : rows[i] \in RowType
    BY <1>1
  <2> QED  BY <2>1 DEF RowType
<1>3. I \in SUBSET (DOMAIN rows) /\ J \in SUBSET (DOMAIN rows)
  OBVIOUS
<1>4. /\ \A i \in I : rows[i].at <= clock
      /\ \A i \in J : rows[i].at > clock
  OBVIOUS
<1>5. t = a \o <<r>> \o b
  BY DEF Inserted
<1> HIDE DEF I, J
<1>6. /\ a \in Seq(RowType) /\ Len(a) = Cardinality(I)
      /\ \A k \in 1 .. Len(a) : InOrder(I)[k] \in I /\ a[k] = rows[InOrder(I)[k]]
      /\ \A j, k \in 1 .. Len(a) : j < k => InOrder(I)[j] < InOrder(I)[k]
      /\ \A k \in 1 .. Len(a) : InOrder(I)[k] = 1 => k = 1
  BY <1>1, <1>3, AtRows, AtFirst
<1>7. /\ b \in Seq(RowType) /\ Len(b) = Cardinality(J)
      /\ \A k \in 1 .. Len(b) : InOrder(J)[k] \in J /\ b[k] = rows[InOrder(J)[k]]
      /\ \A j, k \in 1 .. Len(b) : j < k => InOrder(J)[j] < InOrder(J)[k]
  BY <1>1, <1>3, AtRows
<1> HIDE DEF a, b
<1>8. /\ t \in Seq(RowType) /\ Len(t) = Len(a) + 1 + Len(b)
      /\ Len(a) \in Nat /\ Len(b) \in Nat /\ DOMAIN t = 1 .. Len(a) + 1 + Len(b)
      /\ \A k \in 1 .. Len(a) : t[k] = a[k]
      /\ t[Len(a) + 1] = r
      /\ \A k \in 1 .. Len(b) : t[Len(a) + 1 + k] = b[k]
  <2>1. a \in Seq(RowType) /\ b \in Seq(RowType)
    BY <1>6, <1>7
  <2> QED  BY <1>5, <2>1, Joined
<1>9. ASSUME NEW k \in 1 .. Len(a)
      PROVE  \E i \in DOMAIN rows : /\ i = InOrder(I)[k] /\ t[k] = rows[i] /\ t[k].at <= clock
                                    /\ i = 1 => k = 1
  BY <1>3, <1>4, <1>6, <1>8
<1>10. ASSUME NEW k \in Len(a) + 2 .. Len(t)
       PROVE  \E i \in DOMAIN rows : /\ i = InOrder(J)[k - Len(a) - 1] /\ t[k] = rows[i]
                                     /\ t[k].at > clock /\ i # 1
  <2>1. k - Len(a) - 1 \in 1 .. Len(b) /\ k = Len(a) + 1 + (k - Len(a) - 1)
    BY <1>8
  <2> DEFINE m == k - Len(a) - 1
             i == InOrder(J)[m]
  <2> HIDE DEF m
  <2>2. m \in 1 .. Len(b) /\ k = Len(a) + 1 + m
    BY <2>1 DEF m
  <2>3. i \in J /\ b[m] = rows[i] /\ t[k] = b[m]
    BY <1>7, <1>8, <2>2
  <2> HIDE DEF i
  <2>4. i \in DOMAIN rows /\ rows[i].at > clock
    BY <1>3, <1>4, <2>3
  <2>5. i # 1
    <3>1. rows # <<>> /\ rows[1].at \in Nat
      BY <1>1, <1>2, <2>4
    <3>2. rows[1].at <= clock
      BY <3>1 DEF FirstPast
    <3> QED  BY <1>1, <2>4, <3>1, <3>2
  <2> QED  BY <2>3, <2>4, <2>5 DEF i, m
<1>11. \A k \in DOMAIN t : k \in 1 .. Len(a) \/ k = Len(a) + 1 \/ k \in Len(a) + 2 .. Len(t)
  BY <1>8
<1>12. \A k \in DOMAIN t : t[k].epoch = clears /\ (t[k].kind = "summary" => k = 1)
  <2> SUFFICES ASSUME NEW k \in DOMAIN t
               PROVE  t[k].epoch = clears /\ (t[k].kind = "summary" => k = 1)
    OBVIOUS
  <2>1. CASE k \in 1 .. Len(a)
    BY <1>9, <2>1 DEF Proper
  <2>2. CASE k = Len(a) + 1
    BY <1>8, <2>2
  <2>3. CASE k \in Len(a) + 2 .. Len(t)
    BY <1>10, <2>3 DEF Proper
  <2> QED  BY <1>11, <2>1, <2>2, <2>3
<1>13. \A i, j \in DOMAIN t : i < j => t[i].at <= t[j].at
  <2> SUFFICES ASSUME NEW i \in DOMAIN t, NEW j \in DOMAIN t, i < j PROVE t[i].at <= t[j].at
    OBVIOUS
  <2>0. t[i] \in RowType /\ t[j] \in RowType /\ t[i].at \in Nat /\ t[j].at \in Nat
    <3>1. t[i] \in RowType /\ t[j] \in RowType
      BY <1>8
    <3> QED  BY <3>1 DEF RowType
  <2>1. CASE j \in 1 .. Len(a)
    <3>1. i \in 1 .. Len(a)
      BY <1>8, <2>1
    <3>2. InOrder(I)[i] < InOrder(I)[j] /\ InOrder(I)[i] \in DOMAIN rows /\ InOrder(I)[j] \in DOMAIN rows
      BY <1>3, <1>6, <2>1, <3>1
    <3>3. t[i] = rows[InOrder(I)[i]] /\ t[j] = rows[InOrder(I)[j]]
      BY <1>6, <1>8, <2>1, <3>1
    <3> QED  BY <3>2, <3>3 DEF TypeOK
  <2>2. CASE j = Len(a) + 1
    <3>1. i \in 1 .. Len(a)
      BY <1>8, <2>2
    <3>2. t[i].at <= clock
      BY <1>9, <3>1
    <3> QED  BY <1>8, <2>2, <3>2
  <2>3. CASE j \in Len(a) + 2 .. Len(t)
    <3>1. t[j].at > clock
      BY <1>10, <2>3
    <3>2. CASE i \in 1 .. Len(a)
      <4>1. t[i].at <= clock
        BY <1>9, <3>2
      <4> QED  BY <1>1, <2>0, <3>1, <4>1
    <3>3. CASE i = Len(a) + 1
      <4>1. t[i].at = clock
        BY <1>8, <3>3
      <4> QED  BY <1>1, <2>0, <3>1, <4>1
    <3>4. CASE i \in Len(a) + 2 .. Len(t)
      <4>1. PICK x \in DOMAIN rows : x = InOrder(J)[i - Len(a) - 1] /\ t[i] = rows[x]
        BY <1>10, <3>4
      <4>2. PICK y \in DOMAIN rows : y = InOrder(J)[j - Len(a) - 1] /\ t[j] = rows[y]
        BY <1>10, <2>3
      <4>3. /\ i - Len(a) - 1 \in 1 .. Len(b) /\ j - Len(a) - 1 \in 1 .. Len(b)
            /\ i - Len(a) - 1 < j - Len(a) - 1
        BY <1>8, <2>3, <3>4
      <4>4. x < y
        BY <1>7, <4>1, <4>2, <4>3
      <4> QED  BY <4>1, <4>2, <4>4 DEF TypeOK
    <3> QED  BY <1>11, <3>2, <3>3, <3>4
  <2> QED  BY <1>11, <2>1, <2>2, <2>3
<1>14. t # <<>> /\ t[1].at <= clock
  <2>1. t # <<>> /\ 1 \in DOMAIN t
    <3>1. 1 \in DOMAIN t /\ Len(t) # 0
      BY <1>8
    <3> QED  BY <3>1
  <2>2. CASE 1 \in 1 .. Len(a)
    BY <1>9, <2>1, <2>2
  <2>3. CASE 1 = Len(a) + 1
    BY <1>1, <1>8, <2>1, <2>3
  <2>4. ~ (1 \in Len(a) + 2 .. Len(t))
    BY <1>8
  <2>5. t[1].at <= clock
    BY <1>11, <2>1, <2>2, <2>3, <2>4
  <2> QED  BY <2>1, <2>5
<1> QED  BY <1>8, <1>12, <1>13, <1>14 DEF Proper

\* What save() leaves.
LEMMA SavedKeeps ==
    ASSUME clock \in Nat, NEW s, Proper(s), NEW t, t = Saved(s)
    PROVE  /\ Proper(t) /\ Len(t) = Len(s) /\ DOMAIN t = DOMAIN s
           /\ \A i \in DOMAIN s : t[i].covers = s[i].covers
           /\ t # <<>> => t[1].at <= clock
           /\ \A i, j \in DOMAIN t : i < j => t[i].at <= t[j].at
<1>1. s \in Seq(RowType) /\ DOMAIN s = 1 .. Len(s) /\ Len(s) \in Nat
  <2>1. s \in Seq(RowType)
    BY DEF Proper
  <2> QED  BY <2>1
<1>2. t = [i \in DOMAIN s |-> [s[i] EXCEPT !.at = clock + i - 1]]
  BY DEF Saved
<1>3. ASSUME NEW i \in DOMAIN s
      PROVE  /\ t[i] \in RowType /\ t[i].at = clock + i - 1 /\ t[i].covers = s[i].covers
             /\ t[i].epoch = s[i].epoch /\ t[i].kind = s[i].kind
  <2>1. s[i] \in RowType /\ clock + i - 1 \in Nat
    BY <1>1
  <2>2. t[i] = [s[i] EXCEPT !.at = clock + i - 1]
    BY <1>2
  <2> QED  BY <2>1, <2>2 DEF RowType
<1>4. t \in Seq(RowType) /\ Len(t) = Len(s) /\ DOMAIN t = DOMAIN s
  <2>1. t \in [1 .. Len(s) -> RowType]
    BY <1>1, <1>2, <1>3
  <2> QED  BY <1>1, <2>1
<1>5. Proper(t)
  BY <1>3, <1>4 DEF Proper
<1>6. t # <<>> => t[1].at <= clock
  <2>1. t # <<>> => 1 \in DOMAIN s
    BY <1>1, <1>4
  <2> QED  BY <1>3, <2>1
<1>7. \A i, j \in DOMAIN t : i < j => t[i].at <= t[j].at
  <2> SUFFICES ASSUME NEW i \in DOMAIN t, NEW j \in DOMAIN t, i < j PROVE t[i].at <= t[j].at
    OBVIOUS
  <2>1. t[i].at = clock + i - 1 /\ t[j].at = clock + j - 1 /\ i \in Nat /\ j \in Nat
    BY <1>1, <1>3, <1>4
  <2> QED  BY <2>1
<1> QED  BY <1>3, <1>4, <1>5, <1>6, <1>7

\* t is a row and behind it the rows of s at the positions I.
Behind(s, I, t) == \A k \in 1 .. Cardinality(I) : t[k + 1] = At(s, I)[k]

\* t is in order, with h in front of the rows of s at the positions I.
Headed(s, I, h, t) ==
    /\ Proper(t) /\ Cardinality(I) \in Nat /\ Len(t) = Cardinality(I) + 1 /\ t[1] = h
    /\ Behind(s, I, t)

\* A summary in front of some of the messages.
LEMMA HeadedKeeps ==
    ASSUME NEW s, Proper(s), NEW I \in SUBSET Messages(s), NEW h \in RowType, h.epoch = clears,
           NEW t, t = <<h>> \o At(s, I)
    PROVE  Headed(s, I, h, t)
<1>1. s \in Seq(RowType) /\ I \in SUBSET (DOMAIN s)
  BY DEF Proper, Messages
<1> DEFINE a == At(s, I)
           c == Cardinality(I)
<1>2. /\ c \in Nat /\ a \in Seq(RowType) /\ Len(a) = c /\ DOMAIN a = 1 .. c
      /\ \A k \in 1 .. c : InOrder(I)[k] \in I /\ a[k] = s[InOrder(I)[k]]
  BY <1>1, AtRows
<1>3. \A k \in 1 .. c : a[k].epoch = clears /\ a[k].kind # "summary"
  BY <1>1, <1>2 DEF Proper, Messages
<1> HIDE DEF a, c
<1> DEFINE g == <<h>>
<1>4. g \in Seq(RowType) /\ Len(g) = 1 /\ g[1] = h
  OBVIOUS
<1>5. t = g \o a
  BY DEF a
<1> HIDE DEF g
<1>6. /\ t \in Seq(RowType) /\ Len(t) = c + 1 /\ DOMAIN t = 1 .. c + 1
      /\ t[1] = h
      /\ \A k \in 1 .. c : t[k + 1] = a[k]
  <2>1. /\ t \in Seq(RowType) /\ Len(t) = Len(g) + Len(a)
        /\ \A k \in 1 .. Len(g) + Len(a) : t[k] = IF k <= Len(g) THEN g[k] ELSE a[k - Len(g)]
    <3>1. /\ g \o a \in Seq(RowType) /\ Len(g \o a) = Len(g) + Len(a)
          /\ \A k \in 1 .. Len(g) + Len(a) :
                (g \o a)[k] = IF k <= Len(g) THEN g[k] ELSE a[k - Len(g)]
      BY <1>2, <1>4, ConcatProperties
    <3> QED  BY <1>5, <3>1, Zenon
  <2>2. t \in Seq(RowType) /\ Len(t) = c + 1
    <3>1. 1 + c = c + 1
      BY <1>2
    <3> QED  BY <1>2, <1>4, <2>1, <3>1
  <2>3. \A k \in 1 .. c + 1 : t[k] = IF k <= 1 THEN g[k] ELSE a[k - 1]
    <3>1. 1 + c = c + 1
      BY <1>2
    <3> QED  BY <1>2, <1>4, <2>1, <3>1
  <2>4. t[1] = h
    BY <1>2, <1>4, <2>3
  <2>5. \A k \in 1 .. c : k + 1 \in 1 .. c + 1 /\ ~ (k + 1 <= 1) /\ (k + 1) - 1 = k
    BY <1>2
  <2>6. \A k \in 1 .. c : t[k + 1] = a[k]
    BY <2>3, <2>5
  <2>7. DOMAIN t = 1 .. c + 1
    BY <2>2
  <2> QED  BY <2>2, <2>4, <2>6, <2>7
<1>7. ASSUME NEW k \in DOMAIN t PROVE t[k].epoch = clears /\ (t[k].kind = "summary" => k = 1)
  <2>1. CASE k = 1
    BY <1>6, <2>1
  <2>2. CASE k # 1
    <3>1. k - 1 \in 1 .. c /\ (k - 1) + 1 = k
      BY <1>2, <1>6, <2>2
    <3>2. t[k] = a[k - 1]
      BY <1>6, <3>1
    <3> QED  BY <1>3, <3>1, <3>2
  <2> QED  BY <2>1, <2>2
<1>8. Proper(t)
  BY <1>6, <1>7 DEF Proper
<1>9. Behind(s, I, t)
  BY <1>6 DEF Behind, a, c
<1> QED  BY <1>2, <1>6, <1>8, <1>9 DEF c, Headed

\* What rows carry are messages.
LEMMA CoveredType ==
    ASSUME NEW s \in Seq(RowType), NEW I \in SUBSET (DOMAIN s)
    PROVE  Covered(s, I) \in SUBSET Message
<1>1. ASSUME NEW i \in I PROVE s[i].covers \in SUBSET Message
  <2>1. s[i] \in RowType
    OBVIOUS
  <2> QED  BY <2>1 DEF RowType
<1> QED  BY <1>1 DEF Covered

\* A summary is a row.
LEMMA SummaryType ==
    ASSUME TypeOK, NEW size \in Nat, NEW e \in 0 .. MaxClear, NEW c \in SUBSET Message,
           NEW h, h = Summary(size, e, c)
    PROVE  h \in RowType /\ h.epoch = e /\ h.covers = c
<1>1. clock \in Nat /\ 0 \in 0 .. MaxTurn
  BY HistoryAssumption DEF TypeOK
<1>2. h = [kind |-> "summary", turn |-> 0, size |-> size, at |-> clock, epoch |-> e, covers |-> c]
  BY DEF Summary
<1>3. h \in RowType
  BY <1>1, <1>2 DEF RowType
<1> QED  BY <1>2, <1>3

\* The summary there is, is the first row and the one that goes in front.
LEMMA PreviousIs ==
    ASSUME NEW s, Proper(s)
    PROVE  /\ Previous(s) \in SUBSET (DOMAIN s) /\ Summaries(s) \subseteq Previous(s)
           /\ DOMAIN s = Messages(s) \cup Summaries(s)
<1>1. \A i \in Summaries(s) : i = 1
  BY DEF Proper, Summaries, Messages
<1>2. \A i, j \in Summaries(s) : j <= i
  BY <1>1
<1> QED  BY <1>2 DEF Previous, Summaries, Messages

\* The rows of s at the positions text are run together, the messages left behind them.
RunTogether(s, text, t) ==
    LET I == Messages(s) \ text
    IN  /\ ~ (Bytes(s, DOMAIN s) <= Threshold)
        /\ Cardinality(I) \in Nat /\ Len(t) = Cardinality(I) + 1
        /\ t[1].covers = Covered(s, text)
        /\ \A k \in 1 .. Cardinality(I) : t[k + 1] = At(s, I)[k]

\* What the text of some rows in front of the messages left is.
LEMMA ShortenedIs ==
    ASSUME TypeOK, NEW s, Proper(s), NEW text \in SUBSET (DOMAIN s),
           NEW t, t = Shortened(s, text)
    PROVE  /\ Proper(t) /\ (s # <<>> => t # <<>>)
           /\ t = s \/ RunTogether(s, text, t)
<1>1. CASE Bytes(s, DOMAIN s) <= Threshold \/ text = {}
  BY <1>1 DEF Shortened
<1>2. CASE ~ (Bytes(s, DOMAIN s) <= Threshold \/ text = {})
  <2>h. PICK h : h = Summary(Bytes(s, text), clears, Covered(s, text))
    OBVIOUS
  <2>i. PICK I : I = Messages(s) \ text
    OBVIOUS
  <2>0. s \in Seq(RowType)
    BY DEF Proper
  <2>1. Bytes(s, text) \in Nat /\ Covered(s, text) \in SUBSET Message
    BY <2>0, BytesType, CoveredType
  <2>2. clears \in 0 .. MaxClear
    BY DEF TypeOK
  <2>3. h \in RowType /\ h.epoch = clears /\ h.covers = Covered(s, text)
    BY <2>h, <2>1, <2>2, SummaryType
  <2>4. t = <<h>> \o At(s, I) /\ I \in SUBSET Messages(s)
    BY <1>2, <2>h, <2>i DEF Shortened
  <2>5. /\ Proper(t) /\ Cardinality(I) \in Nat /\ Len(t) = Cardinality(I) + 1 /\ t[1] = h
        /\ Behind(s, I, t)
    <3>1. h \in RowType /\ h.epoch = clears /\ I \in SUBSET Messages(s) /\ t = <<h>> \o At(s, I)
      BY <2>3, <2>4
    <3>2. Headed(s, I, h, t)
      BY <3>1, HeadedKeeps
    <3> QED  BY <3>2 DEF Headed
  <2>6. t # <<>>
    BY <2>5
  <2>7. RunTogether(s, text, t)
    BY <1>2, <2>i, <2>3, <2>5 DEF RunTogether, Behind
  <2> QED  BY <2>5, <2>6, <2>7
<1> QED  BY <1>1, <1>2

\* Truncating runs rows of s together, the previous summary among them.
LEMMA TextIs ==
    ASSUME NEW s, Proper(s), NEW text, text = Previous(s) \cup Fitting(s, Previous(s))
    PROVE  text \in SUBSET (DOMAIN s) /\ Summaries(s) \subseteq text
           /\ Truncated(s) = Shortened(s, text)
<1>1. Previous(s) \in SUBSET (DOMAIN s) /\ Summaries(s) \subseteq Previous(s)
  BY PreviousIs
<1>2. Fitting(s, Previous(s)) \subseteq DOMAIN s
  BY DEF Fitting, Messages
<1> QED  BY <1>1, <1>2 DEF Truncated

\* Every text of the rows of s is carried by a row of t.
Carried(s, t) == \A i \in DOMAIN s : \E k \in DOMAIN t : s[i].covers \subseteq t[k].covers

\* Truncating forgets no message.
LEMMA ShortenedCovers ==
    ASSUME TypeOK, NEW s, Proper(s), NEW text \in SUBSET (DOMAIN s), Summaries(s) \subseteq text,
           NEW t, t = Shortened(s, text)
    PROVE  Carried(s, t)
<1>0. Proper(t)
  BY ShortenedIs
<1>1. CASE t = s
  BY <1>1 DEF Carried
<1>2. CASE t # s
  <2> DEFINE I == Messages(s) \ text
  <2>1. /\ Cardinality(I) \in Nat /\ Len(t) = Cardinality(I) + 1
        /\ t[1].covers = Covered(s, text)
        /\ \A k \in 1 .. Cardinality(I) : t[k + 1] = At(s, I)[k]
    <3>1. RunTogether(s, text, t)
      BY <1>2, ShortenedIs
    <3> QED  BY <3>1 DEF RunTogether
  <2>2. I \in SUBSET (DOMAIN s) /\ s \in Seq(RowType)
    BY DEF Messages, Proper
  <2>3. DOMAIN t = 1 .. Cardinality(I) + 1
    <3>1. t \in Seq(RowType)
      BY <1>0 DEF Proper
    <3> QED  BY <2>1, <3>1
  <2>4. DOMAIN s = text \cup I
    BY PreviousIs
  <2> HIDE DEF I
  <2>5. ASSUME NEW i \in text PROVE \E k \in DOMAIN t : s[i].covers \subseteq t[k].covers
    <3>1. s[i].covers \subseteq t[1].covers
      BY <2>1 DEF Covered
    <3>2. 1 \in DOMAIN t
      BY <2>1, <2>3
    <3> QED  BY <3>1, <3>2
  <2>6. ASSUME NEW i \in I PROVE \E k \in DOMAIN t : s[i].covers \subseteq t[k].covers
    <3>1. PICK k \in 1 .. Cardinality(I) : InOrder(I)[k] = i /\ At(s, I)[k] = s[i]
      BY <2>2, AtRows
    <3>2. k + 1 \in DOMAIN t
      BY <2>1, <2>3
    <3>3. t[k + 1] = s[i]
      BY <2>1, <3>1
    <3> QED  BY <3>2, <3>3
  <2> QED  BY <2>4, <2>5, <2>6 DEF Carried
<1> QED  BY <1>1, <1>2

\* When the last row fits as a message, everything does.
LEMMA FittingLast ==
    ASSUME NEW s, Proper(s), Len(s) \in Fitting(s, Previous(s))
    PROVE  Bytes(s, DOMAIN s) <= Threshold
<1>0. s \in Seq(RowType) /\ DOMAIN s = 1 .. Len(s)
  <2>1. s \in Seq(RowType)
    BY DEF Proper
  <2> QED  BY <2>1
<1>1. Bytes(s, Previous(s) \cup {j \in Messages(s) : j <= Len(s)}) <= TruncMax
  BY DEF Fitting
<1>2. Previous(s) \cup {j \in Messages(s) : j <= Len(s)} = DOMAIN s
  <2>1. \A j \in Messages(s) : j <= Len(s)
    BY <1>0 DEF Messages
  <2>2. {j \in Messages(s) : j <= Len(s)} = Messages(s)
    BY <2>1
  <2> QED  BY <2>2, PreviousIs
<1>3. Bytes(s, DOMAIN s) \in Nat /\ Bytes(s, DOMAIN s) <= TruncMax
  BY <1>0, <1>1, <1>2, BytesType
<1>4. Threshold \in Nat /\ TruncMax \in Nat /\ TruncMax < Threshold
  BY HistoryAssumption
<1> QED  BY <1>3, <1>4

\* Truncating leaves the text the rows end with at their end.
LEMMA ShortenedEnds ==
    ASSUME TypeOK, NEW s, Proper(s), s # <<>>,
           NEW text \in SUBSET (DOMAIN s), Summaries(s) \subseteq text,
           Len(s) \in Messages(s) \cap text => Bytes(s, DOMAIN s) <= Threshold,
           NEW t, t = Shortened(s, text)
    PROVE  t[Len(t)].covers = s[Len(s)].covers
<1>0. /\ s \in Seq(RowType) /\ Len(s) \in Nat /\ DOMAIN s = 1 .. Len(s) /\ Len(s) \in DOMAIN s
  <2>1. s \in Seq(RowType)
    BY DEF Proper
  <2> QED  BY <2>1
<1>1. CASE t = s
  BY <1>1
<1>2. CASE t # s
  <2> DEFINE I == Messages(s) \ text
             n == Len(s)
  <2>1. /\ ~ (Bytes(s, DOMAIN s) <= Threshold)
        /\ Cardinality(I) \in Nat /\ Len(t) = Cardinality(I) + 1
        /\ t[1].covers = Covered(s, text)
        /\ \A k \in 1 .. Cardinality(I) : t[k + 1] = At(s, I)[k]
    <3>1. RunTogether(s, text, t)
      BY <1>2, ShortenedIs
    <3> QED  BY <3>1 DEF RunTogether
  <2>2. CASE n \in I
    <3>1. \A i \in I : i <= n
      BY <1>0 DEF Messages
    <3>2. I \in SUBSET (DOMAIN s)
      BY <1>0 DEF Messages
    <3> HIDE DEF I, n
    <3>3. Cardinality(I) \in 1 .. Cardinality(I) /\ At(s, I)[Cardinality(I)] = s[n]
      BY <1>0, <2>2, <3>1, <3>2, AtLast
    <3>4. t[Cardinality(I) + 1] = s[n]
      BY <2>1, <3>3
    <3> QED  BY <2>1, <3>4 DEF n
  <2>3. CASE n \notin I
    <3>1. n \in text
      BY <1>0, <2>3, PreviousIs
    <3>3. n \in Summaries(s)
      BY <1>0, <2>1, <3>1, PreviousIs
    <3>4. n = 1
      BY <3>3 DEF Proper, Summaries, Messages
    <3>5. DOMAIN s = {1}
      BY <1>0, <3>4
    <3>6. I = {} /\ text = {1}
      BY <1>0, <3>1, <3>4, <3>5 DEF Messages
    <3>7. Len(t) = 1
      <4>1. Cardinality(I) = 0
        BY <3>6, FS_EmptySet
      <4> HIDE DEF I
      <4> QED  BY <2>1, <4>1
    <3>8. Covered(s, text) = s[1].covers
      BY <3>6 DEF Covered
    <3> QED  BY <2>1, <3>4, <3>7, <3>8
  <2> QED  BY <2>2, <2>3
<1> QED  BY <1>1, <1>2

\* What the model's summary leaves is in order and ends with what was last.
LEMMA ReducedIs ==
    ASSUME TypeOK, Proper(rows), rows # <<>>, before = Len(rows),
           promptOf = [epoch |-> clears, covers |-> Covered(rows, Prompt(rows))],
           NEW size \in Nat, NEW t, t = Reduced(rows, before, size)
    PROVE  Proper(t) /\ t # <<>> /\ t[Len(t)].covers = rows[Len(rows)].covers
<1>0. /\ rows \in Seq(RowType) /\ Len(rows) \in Nat /\ DOMAIN rows = 1 .. Len(rows)
      /\ Len(rows) > 0
  <2>1. rows \in Seq(RowType)
    BY DEF Proper
  <2> QED  BY <2>1
<1>1. PICK h : h = Summary(size, promptOf.epoch, promptOf.covers)
  OBVIOUS
<1>2. h \in RowType /\ h.epoch = clears /\ h.covers = Covered(rows, Prompt(rows))
  <2>1. promptOf.epoch \in 0 .. MaxClear /\ promptOf.covers \in SUBSET Message
    BY DEF TypeOK
  <2>2. h \in RowType /\ h.epoch = promptOf.epoch /\ h.covers = promptOf.covers
    BY <1>1, <2>1, SummaryType
  <2> QED  BY <2>2
<1>3. PICK I : I = {i \in Messages(rows) : KeepStart(Len(rows)) < i /\ i <= Len(rows)}
  OBVIOUS
<1>4. I \in SUBSET Messages(rows) /\ I \in SUBSET (DOMAIN rows)
  BY <1>3 DEF Messages
<1>5. t = <<h>> \o At(rows, I)
  <2>1. PICK u : u = <<h>> \o At(rows, I)
    OBVIOUS
  <2>2. t = u \o SubSeq(rows, Len(rows) + 1, Len(rows))
    BY <1>1, <1>3, <2>1 DEF Reduced, Kept
  <2>3. SubSeq(rows, Len(rows) + 1, Len(rows)) = <<>>
    BY <1>0
  <2>4. At(rows, I) \in Seq(RowType) /\ <<h>> \in Seq(RowType)
    BY <1>0, <1>2, <1>4, AtRows
  <2>5. u \in Seq(RowType)
    BY <2>1, <2>4
  <2>6. u \o <<>> = u
    BY <2>5, ConcatEmptySeq
  <2> QED  BY <2>1, <2>2, <2>3, <2>6
<1>h. Headed(rows, I, h, t)
  BY <1>2, <1>4, <1>5, HeadedKeeps
<1>6. Proper(t)
  BY <1>h DEF Headed
<1>7. Cardinality(I) \in Nat /\ Len(t) = Cardinality(I) + 1 /\ t[1] = h
  BY <1>h DEF Headed
<1>8. \A k \in 1 .. Cardinality(I) : t[k + 1] = At(rows, I)[k]
  <2>1. Behind(rows, I, t)
    BY <1>h DEF Headed
  <2> QED  BY <2>1 DEF Behind
<1>9. t # <<>>
  BY <1>7
<1>10. CASE Len(rows) \in Messages(rows)
  <2>1. KeepStart(Len(rows)) < Len(rows)
    <3>1. KeepLast \in Nat /\ KeepLast > 0
      BY HistoryAssumption
    <3> QED  BY <1>0, <3>1 DEF KeepStart
  <2>2. Len(rows) \in I /\ \A i \in I : i <= Len(rows)
    BY <1>0, <1>3, <1>10, <2>1
  <2>3. Cardinality(I) \in 1 .. Cardinality(I) /\ At(rows, I)[Cardinality(I)] = rows[Len(rows)]
    BY <1>0, <1>4, <2>2, AtLast
  <2>4. t[Len(t)] = rows[Len(rows)]
    BY <1>7, <1>8, <2>3
  <2> QED  BY <1>6, <1>9, <2>4
<1>11. CASE Len(rows) \notin Messages(rows)
  <2>1. Len(rows) \in Summaries(rows)
    BY <1>0, <1>11 DEF Summaries
  <2>2. Len(rows) = 1
    BY <2>1 DEF Proper, Summaries, Messages
  <2>3. Messages(rows) = {} /\ Summaries(rows) = {1}
    BY <1>0, <1>11, <2>1, <2>2 DEF Messages, Summaries
  <2>4. I = {} /\ Prompt(rows) = {1}
    <3>1. Prompt(rows) = Previous(rows) /\ Previous(rows) = {1}
      BY <2>3 DEF Prompt, Previous
    <3> QED  BY <1>4, <2>3, <3>1
  <2>5. h.covers = rows[1].covers
    BY <1>2, <2>4 DEF Covered
  <2>6. Len(t) = 1
    <3>1. Cardinality(I) = 0
      BY <2>4, FS_EmptySet
    <3> QED  BY <1>7, <3>1
  <2> QED  BY <1>6, <1>7, <1>9, <2>2, <2>5, <2>6
<1> QED  BY <1>10, <1>11
-------------------------------------------------------------------------------
(* The steps.                                                                  *)

LEMMA ProperRows == IInv => Proper(rows)
  BY DEF IInv, TypeOK, ClearWins, SummaryFirst, Proper

\* The rows' part of the invariant.
LEMMA WithRows ==
    ASSUME NEW t, Proper(t), t # <<>> => t[1].at <= clock,
           \A i, j \in DOMAIN t : i < j => t[i].at <= t[j].at,
           rows' = t, UNCHANGED <<clock, clears>>
    PROVE  /\ rows' \in Seq(RowType)
           /\ \A i, j \in DOMAIN rows' : i < j => rows'[i].at <= rows'[j].at
           /\ ClearWins' /\ SummaryFirst' /\ FirstPast'
<1>1. rows' \in Seq(RowType) /\ ClearWins' /\ SummaryFirst'
  BY DEF Proper, ClearWins, SummaryFirst
<1>2. FirstPast'
  BY DEF FirstPast
<1> QED  BY <1>1, <1>2

LEMMA Initially == Init => IInv
<1> SUFFICES ASSUME Init PROVE IInv
  OBVIOUS
<1>1. {MaxTurn, MaxClear, MaxClock} \subseteq Nat
  BY HistoryAssumption
<1>2. 0 \in 0 .. MaxTurn /\ 0 \in 0 .. MaxClear /\ 0 \in 0 .. MaxClock
  BY <1>1
<1>3. rows = <<>> /\ rows \in Seq(RowType) /\ DOMAIN rows = {}
  BY DEF Init
<1>4. promptOf \in [epoch : 0 .. MaxClear, covers : SUBSET Message]
  BY <1>2 DEF Init
<1>5. pending \in Outcome
  BY DEF Init, Outcome
<1>6. TypeOK
  BY <1>2, <1>3, <1>4, <1>5 DEF Init, TypeOK
<1>7. Begun /\ FirstPast /\ Snapped
  BY DEF Init, Begun, FirstPast, Snapped
<1>8. ClearWins /\ SummaryFirst
  BY <1>3 DEF ClearWins, SummaryFirst
<1> QED  BY <1>6, <1>7, <1>8 DEF IInv

\* The messages a turn has yet to store.
LEMMA PendingTail ==
    ASSUME NEW p \in Outcome \cup {<<"tool">>, <<"tool", "reply">>}, p # <<>>
    PROVE  Head(p) \in Kind /\ Tail(p) \in Outcome \cup {<<"tool">>, <<"tool", "reply">>}
<1>1. CASE p = <<"reply">>
  BY <1>1 DEF Kind, Outcome
<1>2. CASE p = <<"call", "tool">>
  <2>1. Tail(p) = <<"tool">>
    BY <1>2
  <2> QED  BY <1>2, <2>1 DEF Kind
<1>3. CASE p = <<"call", "tool", "reply">>
  <2>1. Tail(p) = <<"tool", "reply">>
    BY <1>3
  <2> QED  BY <1>3, <2>1 DEF Kind
<1>4. CASE p = <<"tool">>
  BY <1>4 DEF Kind, Outcome
<1>5. CASE p = <<"tool", "reply">>
  BY <1>5 DEF Kind, Outcome
<1> QED  BY <1>1, <1>2, <1>3, <1>4, <1>5 DEF Outcome

\* A message of the worker's is a row.
LEMMA RowIs ==
    ASSUME TypeOK, NEW kind \in Kind, NEW n \in 1 .. MaxTurn, NEW size \in Nat,
           NEW r, r = Row(kind, n, size)
    PROVE  r \in RowType /\ r.at = clock /\ r.epoch = clears /\ r.kind # "summary"
<1>1. clock \in Nat /\ clears \in 0 .. MaxClear /\ n \in 0 .. MaxTurn
  BY HistoryAssumption DEF TypeOK
<1>2. r = [kind |-> kind, turn |-> n, size |-> size, at |-> clock, epoch |-> clears,
           covers |-> {<<kind, n>>}]
  BY DEF Row
<1>3. {<<kind, n>>} \in SUBSET Message
  BY DEF Message
<1>4. r \in RowType
  BY <1>1, <1>2, <1>3 DEF RowType
<1> QED  BY <1>2, <1>4 DEF Kind

LEMMA AppendUserStep ==
    ASSUME IInv, NEW size \in Size, AppendUser(size) PROVE IInv'
<1>1. TypeOK /\ Proper(rows) /\ FirstPast /\ turn \in Nat
  BY ProperRows, HistoryAssumption DEF IInv, TypeOK
<1>2. turn + 1 \in 1 .. MaxTurn /\ turn' = turn + 1 /\ turn' \in 0 .. MaxTurn
  BY <1>1, HistoryAssumption DEF AppendUser
<1>3. PICK r : r = Row("user", turn + 1, size)
  OBVIOUS
<1>4. r \in RowType /\ r.at = clock /\ r.epoch = clears /\ r.kind # "summary"
  <2>1. size \in Nat /\ "user" \in Kind
    BY HistoryAssumption DEF Kind
  <2> QED  BY <1>1, <1>2, <1>3, <2>1, RowIs
<1>5. PICK t : t = Inserted(rows, r) /\ rows' = t
  BY <1>3 DEF AppendUser
<1>6. UNCHANGED <<clock, clears, before, promptOf, pending>> /\ pc' = "summarise"
  BY DEF AppendUser
<1>7. /\ Proper(t) /\ t # <<>> /\ t[1].at <= clock
      /\ \A i, j \in DOMAIN t : i < j => t[i].at <= t[j].at
  BY <1>1, <1>4, <1>5, InsertedKeeps
<1>8. /\ rows' \in Seq(RowType)
      /\ \A i, j \in DOMAIN rows' : i < j => rows'[i].at <= rows'[j].at
      /\ ClearWins' /\ SummaryFirst' /\ FirstPast'
  BY <1>5, <1>6, <1>7, WithRows
<1>9. TypeOK'
  BY <1>1, <1>2, <1>6, <1>8 DEF TypeOK
<1>10. Begun' /\ Snapped'
  BY <1>1, <1>2, <1>6 DEF Begun, Snapped
<1> QED  BY <1>8, <1>9, <1>10 DEF IInv

LEMMA StoreStep ==
    ASSUME IInv, NEW size \in Size \cup {0}, Store(size) PROVE IInv'
<1>1. TypeOK /\ Proper(rows) /\ FirstPast
  BY ProperRows DEF IInv
<1>2. pc = "storing" /\ pc' = pc /\ turn' = turn /\ turn \in 1 .. MaxTurn
  BY HistoryAssumption DEF IInv, TypeOK, Begun, Store
<1>3. /\ Head(pending) \in Kind
      /\ Tail(pending) \in Outcome \cup {<<"tool">>, <<"tool", "reply">>}
  BY <1>1, PendingTail DEF TypeOK, Store
<1>4. PICK r : r = Row(Head(pending), turn, size)
  OBVIOUS
<1>5. r \in RowType /\ r.at = clock /\ r.epoch = clears /\ r.kind # "summary"
  <2>1. size \in Nat
    BY HistoryAssumption
  <2> QED  BY <1>1, <1>2, <1>3, <1>4, <2>1, RowIs
<1>6. PICK t : t = Inserted(rows, r) /\ rows' = t
  BY <1>4 DEF Store
<1>7. UNCHANGED <<clock, clears, before, promptOf>> /\ pending' = Tail(pending)
  BY DEF Store
<1>8. /\ Proper(t) /\ t # <<>> /\ t[1].at <= clock
      /\ \A i, j \in DOMAIN t : i < j => t[i].at <= t[j].at
  BY <1>1, <1>5, <1>6, InsertedKeeps
<1>9. /\ rows' \in Seq(RowType)
      /\ \A i, j \in DOMAIN rows' : i < j => rows'[i].at <= rows'[j].at
      /\ ClearWins' /\ SummaryFirst' /\ FirstPast'
  BY <1>6, <1>7, <1>8, WithRows
<1>10. TypeOK'
  BY <1>1, <1>2, <1>3, <1>7, <1>9 DEF TypeOK
<1>11. Begun' /\ Snapped'
  BY <1>2 DEF IInv, Begun, Snapped
<1> QED  BY <1>9, <1>10, <1>11 DEF IInv

\* The threshold is passed only by rows that are there.
LEMMA NotEmpty ==
    ASSUME ~ (Bytes(rows, DOMAIN rows) <= Threshold) PROVE rows # <<>>
<1> SUFFICES ASSUME rows = <<>> PROVE FALSE
  OBVIOUS
<1>1. DOMAIN rows = {}
  OBVIOUS
<1>2. UNION {{i} \X (1 .. rows[i].size) : i \in DOMAIN rows} = {}
  BY <1>1
<1>3. Bytes(rows, DOMAIN rows) = 0
  BY <1>2, FS_EmptySet DEF Bytes
<1>4. Threshold \in Nat
  BY HistoryAssumption
<1> QED  BY <1>3, <1>4

LEMMA SnapshotStep == ASSUME IInv, Snapshot PROVE IInv'
<1>1. TypeOK /\ Proper(rows) /\ rows \in Seq(RowType) /\ turn > 0
  BY ProperRows DEF IInv, TypeOK, Begun, Snapshot
<1>2. UNCHANGED <<rows, clock, clears, turn, pending>>
  BY DEF Snapshot
<1>3. CASE Bytes(rows, DOMAIN rows) <= Threshold
  <2>1. pc' = "ready" /\ UNCHANGED <<before, promptOf>>
    BY <1>3 DEF Snapshot
  <2>2. TypeOK'
    BY <1>1, <1>2, <2>1 DEF TypeOK
  <2>3. Begun' /\ ClearWins' /\ SummaryFirst' /\ FirstPast' /\ Snapped'
    BY <1>1, <1>2, <2>1 DEF IInv, Begun, ClearWins, SummaryFirst, FirstPast, Snapped
  <2> QED  BY <2>2, <2>3 DEF IInv
<1>4. CASE ~ (Bytes(rows, DOMAIN rows) <= Threshold)
  <2>1. /\ pc' = "model" /\ before' = Len(rows)
        /\ promptOf' = [epoch |-> clears, covers |-> Covered(rows, Prompt(rows))]
    BY <1>4 DEF Snapshot
  <2>2. Len(rows) \in Nat /\ Len(rows) > 0
    <3>1. rows # <<>>
      BY <1>4, NotEmpty
    <3> QED  BY <1>1, <3>1
  <2>3. promptOf' \in [epoch : 0 .. MaxClear, covers : SUBSET Message]
    <3>1. Prompt(rows) \in SUBSET (DOMAIN rows)
      BY <1>1, PreviousIs DEF Prompt, Messages
    <3>2. PICK c : c = Covered(rows, Prompt(rows))
      OBVIOUS
    <3>3. c \in SUBSET Message
      BY <1>1, <3>1, <3>2, CoveredType
    <3>4. clears \in 0 .. MaxClear
      BY <1>1 DEF TypeOK
    <3> QED  BY <2>1, <3>2, <3>3, <3>4
  <2>4. TypeOK'
    BY <1>1, <1>2, <2>1, <2>2, <2>3 DEF TypeOK
  <2>5. Begun' /\ ClearWins' /\ SummaryFirst' /\ FirstPast'
    BY <1>1, <1>2, <2>1 DEF IInv, Begun, ClearWins, SummaryFirst, FirstPast
  <2>6. Covered(rows, Prompt(rows))' = Covered(rows, Prompt(rows))
    BY <1>2 DEF Covered, Prompt, Previous, Summaries, Messages, Bytes
  <2>7. Snapped'
    BY <1>2, <2>1, <2>2, <2>6 DEF Snapped
  <2> QED  BY <2>4, <2>5, <2>7 DEF IInv
<1> QED  BY <1>3, <1>4

\* A save ends the model's part of the turn.
LEMMA SavedStep ==
    ASSUME IInv, pc = "model", NEW t, Proper(t), rows' = Saved(t), pc' = "ready",
           UNCHANGED <<clock, clears, turn, before, promptOf, pending>>
    PROVE  IInv'
<1>1. TypeOK /\ clock \in Nat
  BY HistoryAssumption DEF IInv, TypeOK
<1>2. PICK u : u = Saved(t)
  OBVIOUS
<1>3. /\ Proper(u) /\ (u # <<>> => u[1].at <= clock)
      /\ \A i, j \in DOMAIN u : i < j => u[i].at <= u[j].at
  BY <1>1, <1>2, SavedKeeps
<1>4. /\ rows' \in Seq(RowType)
      /\ \A i, j \in DOMAIN rows' : i < j => rows'[i].at <= rows'[j].at
      /\ ClearWins' /\ SummaryFirst' /\ FirstPast'
  BY <1>2, <1>3, WithRows
<1>5. TypeOK'
  BY <1>1, <1>4 DEF TypeOK
<1>6. Begun' /\ Snapped'
  BY DEF IInv, Begun, Snapped
<1> QED  BY <1>4, <1>5, <1>6 DEF IInv

\* What is saved when the model has answered.
LEMMA SummarySaved ==
    ASSUME IInv, rows # <<>>, NEW size \in Size, SaveSummary(size)
    PROVE  \E t : /\ Proper(t) /\ rows' = Saved(t)
                  /\ t # <<>> /\ t[Len(t)].covers = rows[Len(rows)].covers
<1>1. TypeOK /\ Proper(rows) /\ size \in Nat
  BY ProperRows, HistoryAssumption DEF IInv
<1>2. before = Len(rows) /\ promptOf = [epoch |-> clears, covers |-> Covered(rows, Prompt(rows))]
  BY DEF IInv, Snapped, SaveSummary
<1>3. ~ Shrunk
  <2>1. Len(rows) \in Nat
    BY <1>1 DEF Proper
  <2> QED  BY <1>2, <2>1 DEF Shrunk
<1>4. PICK t : t = Reduced(rows, before, size)
  OBVIOUS
<1>5. Proper(t) /\ t # <<>> /\ t[Len(t)].covers = rows[Len(rows)].covers
  BY <1>1, <1>2, <1>4, ReducedIs
<1>6. rows' = Saved(t)
  BY <1>3, <1>4 DEF SaveSummary
<1> QED  BY <1>5, <1>6

\* What is saved when the model has failed.
LEMMA TruncatedSaved ==
    ASSUME IInv, SaveTruncated
    PROVE  \E t : /\ Proper(t) /\ rows' = Saved(t)
                  /\ rows # <<>> => t # <<>> /\ t[Len(t)].covers = rows[Len(rows)].covers
                  /\ Carried(rows, t)
<1>1. TypeOK /\ Proper(rows) /\ Len(rows) \in Nat
  BY ProperRows DEF IInv, Proper
<1>2. ~ (Len(rows) > before)
  <2>1. rows # <<>> => before = Len(rows)
    BY DEF IInv, Snapped, SaveTruncated
  <2>2. before > 0 /\ before \in Nat
    BY DEF IInv, TypeOK, Snapped, SaveTruncated
  <2> QED  BY <1>1, <2>1, <2>2
<1>3. rows' = Saved(Truncated(rows))
  BY <1>2 DEF SaveTruncated
<1>4. PICK s : s = rows
  OBVIOUS
<1>5. PICK text : text = Previous(s) \cup Fitting(s, Previous(s))
  OBVIOUS
<1>6. Proper(s) /\ text \in SUBSET (DOMAIN s) /\ Summaries(s) \subseteq text
  BY <1>1, <1>4, <1>5, TextIs
<1>7. PICK t : t = Shortened(s, text) /\ t = Truncated(rows)
  BY <1>1, <1>4, <1>5, TextIs
<1>8. Proper(t) /\ (s # <<>> => t # <<>>)
  BY <1>1, <1>6, <1>7, ShortenedIs
<1>9. Carried(s, t)
  BY <1>1, <1>6, <1>7, ShortenedCovers
<1>10. s # <<>> => t[Len(t)].covers = s[Len(s)].covers
  <2>1. Len(s) \in Messages(s) \cap text => Len(s) \in Fitting(s, Previous(s))
    BY <1>5 DEF Previous, Summaries
  <2>2. Len(s) \in Messages(s) \cap text => Bytes(s, DOMAIN s) <= Threshold
    BY <1>6, <2>1, FittingLast
  <2> QED  BY <1>1, <1>6, <1>7, <2>2, ShortenedEnds
<1> QED  BY <1>3, <1>4, <1>7, <1>8, <1>9, <1>10

LEMMA SaveSummaryStep ==
    ASSUME IInv, NEW size \in Size, SaveSummary(size) PROVE IInv'
<1>1. /\ pc = "model" /\ pc' = "ready"
      /\ UNCHANGED <<clock, clears, turn, before, promptOf, pending>>
  BY DEF SaveSummary
<1>2. CASE rows # <<>>
  <2>1. PICK t : Proper(t) /\ rows' = Saved(t)
    BY <1>2, SummarySaved
  <2> QED  BY <1>1, <2>1, SavedStep
<1>3. CASE rows = <<>>
  <2>1. Shrunk
    <3>1. before \in Nat /\ before > 0 /\ Len(rows) = 0
      BY <1>1, <1>3 DEF IInv, TypeOK, Snapped
    <3> QED  BY <3>1 DEF Shrunk
  <2>2. rows' = rows
    BY <2>1 DEF SaveSummary
  <2>3. TypeOK'
    BY <1>1, <2>2 DEF IInv, TypeOK
  <2> QED  BY <1>1, <2>2, <2>3
           DEF IInv, Begun, ClearWins, SummaryFirst, FirstPast, Snapped
<1> QED  BY <1>2, <1>3

LEMMA SaveTruncatedStep == ASSUME IInv, SaveTruncated PROVE IInv'
<1>1. /\ pc = "model" /\ pc' = "ready"
      /\ UNCHANGED <<clock, clears, turn, before, promptOf, pending>>
  BY DEF SaveTruncated
<1>2. PICK t : Proper(t) /\ rows' = Saved(t)
  BY TruncatedSaved
<1> QED  BY <1>1, <1>2, SavedStep

LEMMA ClearStep == ASSUME IInv, Clear PROVE IInv'
<1>1. rows' = <<>> /\ clears' = clears + 1 /\ UNCHANGED <<clock, pc, turn, before, promptOf, pending>>
  BY DEF Clear
<1>2. clears' \in 0 .. MaxClear
  BY <1>1, HistoryAssumption DEF IInv, TypeOK, Clear
<1>3. rows' \in Seq(RowType) /\ DOMAIN rows' = {}
  BY <1>1
<1>4. TypeOK'
  BY <1>1, <1>2, <1>3 DEF IInv, TypeOK
<1>5. Begun' /\ ClearWins' /\ SummaryFirst' /\ FirstPast' /\ Snapped'
  BY <1>1, <1>3 DEF IInv, Begun, ClearWins, SummaryFirst, FirstPast, Snapped
<1> QED  BY <1>4, <1>5 DEF IInv

\* What leaves the rows and the clears alone, and takes the worker nowhere near the model.
LEMMA OtherStep ==
    ASSUME IInv, UNCHANGED <<rows, clears, turn, before, promptOf>>,
           EmptySummary \/ (\E out \in Outcome : Answer(out)) \/ EndTurn \/ Tick \/ UNCHANGED vars
    PROVE  IInv'
<1>1. clock' \in 0 .. MaxClock /\ clock' >= clock
  <2>1. clock \in Nat /\ MaxClock \in Nat /\ clock <= MaxClock
    BY HistoryAssumption DEF IInv, TypeOK
  <2> QED  BY <2>1 DEF EmptySummary, Answer, EndTurn, Tick, vars
<1>2. /\ pc' \in {"idle", "summarise", "model", "ready", "storing"}
      /\ pc' = "model" => pc = "model"
      /\ pc' # "idle" => pc # "idle"
  BY DEF IInv, TypeOK, EmptySummary, Answer, EndTurn, Tick, vars
<1>3. pending' \in Outcome \cup {<<"tool">>, <<"tool", "reply">>}
  BY DEF IInv, TypeOK, EmptySummary, Answer, EndTurn, Tick, vars
<1>4. TypeOK'
  BY <1>1, <1>2, <1>3 DEF IInv, TypeOK
<1>5. FirstPast'
  <2>1. rows # <<>> => rows[1].at \in Nat
    <3>1. rows \in Seq(RowType)
      BY DEF IInv, TypeOK
    <3>2. rows # <<>> => rows[1] \in RowType
      BY <3>1
    <3> QED  BY <3>2 DEF RowType
  <2>2. clock \in Nat /\ clock' \in Nat
    BY <1>1, HistoryAssumption DEF IInv, TypeOK
  <2> QED  BY <1>1, <2>1, <2>2 DEF IInv, FirstPast
<1>6. Begun' /\ ClearWins' /\ SummaryFirst'
  BY <1>2 DEF IInv, Begun, ClearWins, SummaryFirst
<1>7. Snapped'
  <2>1. Covered(rows, Prompt(rows))' = Covered(rows, Prompt(rows))
    BY DEF Covered, Prompt, Previous, Summaries, Messages, Bytes
  <2> QED  BY <1>2, <2>1 DEF IInv, Snapped
<1> QED  BY <1>4, <1>5, <1>6, <1>7 DEF IInv

LEMMA Inductive == IInv /\ [Next]_vars => IInv'
<1> SUFFICES ASSUME IInv, [Next]_vars PROVE IInv'
  OBVIOUS
<1>1. ASSUME NEW size \in Size, AppendUser(size) PROVE IInv'
  BY <1>1, AppendUserStep
<1>2. ASSUME NEW size \in Size, SaveSummary(size) PROVE IInv'
  BY <1>2, SaveSummaryStep
<1>3. ASSUME NEW size \in Size \cup {0}, Store(size) PROVE IInv'
  BY <1>3, StoreStep
<1>4. CASE Snapshot
  BY <1>4, SnapshotStep
<1>5. CASE EmptySummary
  <2>1. UNCHANGED <<rows, clears, turn, before, promptOf>>
    BY <1>5 DEF EmptySummary
  <2> QED  BY <1>5, <2>1, OtherStep
<1>6. CASE SaveTruncated
  BY <1>6, SaveTruncatedStep
<1>7. CASE \E out \in Outcome : Answer(out)
  <2>1. UNCHANGED <<rows, clears, turn, before, promptOf>>
    BY <1>7 DEF Answer
  <2> QED  BY <1>7, <2>1, OtherStep
<1>8. CASE EndTurn
  <2>1. UNCHANGED <<rows, clears, turn, before, promptOf>>
    BY <1>8 DEF EndTurn
  <2> QED  BY <1>8, <2>1, OtherStep
<1>9. CASE Clear
  BY <1>9, ClearStep
<1>10. CASE Tick
  <2>1. UNCHANGED <<rows, clears, turn, before, promptOf>>
    BY <1>10 DEF Tick
  <2> QED  BY <1>10, <2>1, OtherStep
<1>11. CASE UNCHANGED vars
  <2>1. UNCHANGED <<rows, clears, turn, before, promptOf>>
    BY <1>11 DEF vars
  <2> QED  BY <1>11, <2>1, OtherStep
<1> QED  BY <1>1, <1>2, <1>3, <1>4, <1>5, <1>6, <1>7, <1>8, <1>9, <1>10, <1>11 DEF Next
-------------------------------------------------------------------------------
(* The theorems.                                                               *)

\* The invariant holds throughout.
THEOREM Invariance == Spec => []IInv
<1>1. Init => IInv
  BY Initially
<1>2. IInv /\ [Next]_vars => IInv'
  BY Inductive
<1> QED  BY <1>1, <1>2, PTL DEF Spec

\* The rows stay in the order load() returns them in (sqlite_backend::load()).
THEOREM TypeCorrect == Spec => []TypeOK
<1>1. IInv => TypeOK
  BY DEF IInv
<1> QED  BY <1>1, Invariance, PTL

\* A "clear" that falls into a summary is not undone by saving it: the snapshot
\* is not empty and nothing is added while the model works, so that the history
\* is shorter than it was exactly when it was cleared.
THEOREM ClearStays == Spec => []ClearWins
<1>1. IInv => ClearWins
  BY DEF IInv
<1> QED  BY <1>1, Invariance, PTL

\* The summary stays the first row: messages are stamped later than the first
\* row of any save, whatever the times of the other rows.
THEOREM SummaryStaysFirst == Spec => []SummaryFirst
<1>1. IInv => SummaryFirst
  BY DEF IInv
<1> QED  BY <1>1, Invariance, PTL

\* When the model fails, what was in the history still is, in the rows or in
\* the text run together from them.
THEOREM NothingForgotten == Spec => FallbackForgetsNothing
<1>1. IInv /\ [Next]_vars =>
          [SaveTruncated => Covered(rows, DOMAIN rows) \subseteq Covered(rows', DOMAIN rows')]_vars
  <2> SUFFICES ASSUME IInv, SaveTruncated
               PROVE  Covered(rows, DOMAIN rows) \subseteq Covered(rows', DOMAIN rows')
    OBVIOUS
  <2>1. PICK t : Proper(t) /\ rows' = Saved(t) /\ Carried(rows, t)
    BY TruncatedSaved
  <2>2. PICK u : u = Saved(t) /\ rows' = u
    BY <2>1
  <2>3. DOMAIN u = DOMAIN t /\ \A k \in DOMAIN t : u[k].covers = t[k].covers
    <3>1. clock \in Nat
      BY HistoryAssumption DEF IInv, TypeOK
    <3> QED  BY <2>1, <2>2, <3>1, SavedKeeps
  <2>4. \A i \in DOMAIN rows : \E k \in DOMAIN u : rows[i].covers \subseteq u[k].covers
    BY <2>1, <2>3 DEF Carried
  <2> QED  BY <2>2, <2>4 DEF Covered
<1> QED  BY <1>1, Invariance, PTL DEF Spec, FallbackForgetsNothing

\* However the summary ends, the history ends with the message it ended with.
THEOREM EndStays == Spec => EndKept
<1>1. IInv /\ [Next]_vars =>
          [pc = "model" /\ pc' = "ready" /\ rows # <<>> =>
              rows' # <<>> /\ rows'[Len(rows')].covers = rows[Len(rows)].covers]_vars
  <2> SUFFICES ASSUME IInv, [Next]_vars, pc = "model", pc' = "ready", rows # <<>>
               PROVE  rows' # <<>> /\ rows'[Len(rows')].covers = rows[Len(rows)].covers
    OBVIOUS
  <2>1. EmptySummary \/ SaveTruncated \/ \E size \in Size : SaveSummary(size)
    BY DEF Next, AppendUser, Store, Snapshot, Answer, EndTurn, Clear, Tick, vars
  <2>2. CASE EmptySummary
    BY <2>2 DEF EmptySummary
  <2>3. CASE SaveTruncated \/ \E size \in Size : SaveSummary(size)
    <3>1. PICK t : /\ Proper(t) /\ rows' = Saved(t)
                   /\ t # <<>> /\ t[Len(t)].covers = rows[Len(rows)].covers
      BY <2>3, SummarySaved, TruncatedSaved
    <3>2. PICK u : u = Saved(t) /\ rows' = u
      BY <3>1
    <3>3. Len(u) = Len(t) /\ \A k \in DOMAIN t : u[k].covers = t[k].covers
      <4>1. clock \in Nat
        BY HistoryAssumption DEF IInv, TypeOK
      <4> QED  BY <3>1, <3>2, <4>1, SavedKeeps
    <3>4. Len(t) \in DOMAIN t /\ Len(t) > 0
      <4>1. t \in Seq(RowType)
        BY <3>1 DEF Proper
      <4> QED  BY <3>1, <4>1
    <3>5. u # <<>> /\ u[Len(u)].covers = t[Len(t)].covers
      BY <3>3, <3>4
    <3> QED  BY <3>1, <3>2, <3>5
  <2> QED  BY <2>1, <2>2, <2>3
<1> QED  BY <1>1, Invariance, PTL DEF Spec, EndKept
===============================================================================
