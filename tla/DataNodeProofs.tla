--------------------------- MODULE DataNodeProofs ---------------------------
(***************************************************************************)
(* Proofs about DataNode, for any requests, any snapshot threshold and any *)
(* combination of faults: types, the compaction point, and, with one       *)
(* handler at a time, that the engine's database is what the files say and *)
(* that the node implements ReplicaLog.                                    *)
(***************************************************************************)
EXTENDS DataNode, TLAPS, FiniteSetTheorems, SequenceTheorems, WellFoundedInduction

-----------------------------------------------------------------------------
(* Numbers                                                                 *)

(* A set of numbers with an upper bound has a largest element. *)
LEMMA MaxIsMember ==
  ASSUME NEW b \in Nat, NEW S \in SUBSET (0 .. b), S # {}
  PROVE  Max(S) \in S /\ \A x \in S : x <= Max(S)
<1> DEFINE R == {b - x : x \in S}
<1>1. R \subseteq Nat /\ R # {} /\ S \subseteq Nat
  OBVIOUS
<1>2. PICK r \in R : \A y \in R : ~(<<y, r>> \in OpToRel(<, Nat))
  BY <1>1, WFMin, NatLessThanWellFounded
<1>3. PICK m \in S : r = b - m
  BY <1>2
<1>4. ASSUME NEW x \in S PROVE x <= m
  <2> SUFFICES ASSUME x > m PROVE FALSE
    BY <1>1
  <2>1. b - x \in R /\ b - x \in Nat /\ r \in Nat /\ b - x < r
    BY <1>1, <1>3
  <2>2. <<b - x, r>> \in OpToRel(<, Nat)
    BY <2>1 DEF OpToRel
  <2> QED BY <1>2, <2>1, <2>2
<1>5. \E m2 \in S : \A y \in S : m2 >= y
  BY <1>1, <1>4
<1>6. Max(S) \in S /\ \A y \in S : Max(S) >= y
  BY <1>5 DEF Max
<1> QED
  BY <1>1, <1>6

-----------------------------------------------------------------------------
(* Parts of the log                                                        *)

(* A log in the order of its sequences, none of them above n. *)
Ordered(entries, n) ==
  /\ entries \in Seq(WalEntry)
  /\ \A i \in 1 .. Len(entries) : entries[i].sequence \in 1 .. n
  /\ \A i, j \in 1 .. Len(entries) : i < j => entries[i].sequence < entries[j].sequence

(* The entries below a sequence are the first ones. *)
LEMMA CountBelowIs ==
  ASSUME NEW entries, NEW n \in Nat, Ordered(entries, n), NEW s \in Nat
  PROVE  /\ CountBelow(entries, s) \in 0 .. Len(entries)
         /\ \A i \in 1 .. Len(entries) : entries[i].sequence < s <=> i <= CountBelow(entries, s)
<1> DEFINE D == {i \in 1 .. Len(entries) : entries[i].sequence < s}
           N == Len(entries)
<1>1. N \in Nat /\ DOMAIN entries = 1 .. N
  BY LenProperties DEF Ordered
<1>2. CountBelow(entries, s) = Cardinality(D)
  BY <1>1 DEF CountBelow
<1>3. \E k \in 0 .. N : D = 1 .. k
  <2>1. CASE D = {}
    <3>1. D = 1 .. 0
      BY <2>1
    <3> QED BY <1>1, <3>1
  <2>2. CASE D # {}
    <3>1. D \in SUBSET (0 .. N)
      BY <1>1
    <3>2. Max(D) \in D /\ \A x \in D : x <= Max(D)
      BY <1>1, <2>2, <3>1, MaxIsMember
    <3>3. PICK k \in D : \A x \in D : x <= k
      BY <3>2
    <3>4. ASSUME NEW i \in 1 .. k PROVE i \in D
      <4>1. i \in 1 .. N /\ k \in 1 .. N
        BY <1>1
      <4>2. entries[i].sequence \in Nat /\ entries[k].sequence \in Nat /\ entries[k].sequence < s
        BY <4>1 DEF Ordered
      <4>3. i < k \/ i = k
        BY <1>1, <4>1
      <4>4. entries[i].sequence <= entries[k].sequence
        BY <4>1, <4>2, <4>3 DEF Ordered
      <4> QED BY <4>1, <4>2, <4>4
    <3>5. D = 1 .. k
      BY <1>1, <3>3, <3>4
    <3> QED BY <1>1, <3>5
  <2> QED BY <2>1, <2>2
<1>4. PICK k \in 0 .. N : D = 1 .. k
  BY <1>3
<1>5. Cardinality(1 .. k) = k
  <2>1. Cardinality(1 .. k) = IF 1 > k THEN 0 ELSE k - 1 + 1
    BY FS_Interval
  <2> QED BY <1>1, <2>1
<1>6. CountBelow(entries, s) = k
  BY <1>2, <1>4, <1>5
<1>7. \A i \in 1 .. N : i \in D <=> i <= k
  BY <1>1, <1>4
<1> QED
  BY <1>6, <1>7

(* The count is determined by where it cuts the log. *)
LEMMA CountBelowUnique ==
  ASSUME NEW entries, NEW n \in Nat, Ordered(entries, n), NEW s \in Nat, NEW k \in 0 .. Len(entries),
         \A i \in 1 .. Len(entries) : entries[i].sequence < s <=> i <= k
  PROVE  CountBelow(entries, s) = k
<1> DEFINE c == CountBelow(entries, s)
           N == Len(entries)
<1>1. N \in Nat
  BY LenProperties DEF Ordered
<1>2. c \in 0 .. N /\ \A i \in 1 .. N : entries[i].sequence < s <=> i <= c
  BY CountBelowIs
<1> HIDE DEF c
<1>3. \A i \in 1 .. N : i <= c <=> i <= k
  BY <1>2
<1>4. ~(c < k)
  <2> SUFFICES ASSUME c < k PROVE FALSE
    OBVIOUS
  <2>1. k \in 1 .. N /\ k <= k /\ ~(k <= c)
    BY <1>1, <1>2
  <2> QED BY <1>3, <2>1
<1>5. ~(k < c)
  <2> SUFFICES ASSUME k < c PROVE FALSE
    OBVIOUS
  <2>1. c \in 1 .. N /\ c <= c /\ ~(c <= k)
    BY <1>1, <1>2
  <2> QED BY <1>3, <2>1
<1> QED
  BY <1>1, <1>2, <1>4, <1>5 DEF c

(* A larger bound cuts later. *)
LEMMA CountBelowMono ==
  ASSUME NEW entries, NEW n \in Nat, Ordered(entries, n), NEW r \in Nat, NEW s \in Nat, r <= s
  PROVE  CountBelow(entries, r) <= CountBelow(entries, s)
<1> DEFINE c == CountBelow(entries, r)
           d == CountBelow(entries, s)
           N == Len(entries)
<1>1. N \in Nat /\ \A i \in 1 .. N : entries[i].sequence \in Nat
  BY LenProperties DEF Ordered
<1>2. /\ c \in 0 .. N /\ \A i \in 1 .. N : entries[i].sequence < r <=> i <= c
      /\ d \in 0 .. N /\ \A i \in 1 .. N : entries[i].sequence < s <=> i <= d
  BY CountBelowIs
<1> HIDE DEF c, d
<1> SUFFICES ASSUME d < c PROVE FALSE
  BY <1>1, <1>2 DEF c, d
<1>3. c \in 1 .. N /\ c <= c /\ ~(c <= d)
  BY <1>1, <1>2
<1>4. entries[c].sequence < r /\ ~(entries[c].sequence < s) /\ entries[c].sequence \in Nat
  BY <1>1, <1>2, <1>3
<1> QED
  BY <1>4

(* The statements between two sequences, by position. *)
Part(entries, first, last) == [i \in 1 .. last - first |-> entries[first + i].requestId]

LEMMA SqlBetweenIs ==
  ASSUME NEW entries, NEW n \in Nat, Ordered(entries, n), NEW a \in Nat, NEW b \in Nat
  PROVE  SqlBetween(entries, a, b) =
           Part(entries, CountBelow(entries, a + 1), CountBelow(entries, b))
<1> DEFINE first == CountBelow(entries, a + 1)
           last == CountBelow(entries, b)
<1>1. first \in Nat /\ last \in Nat /\ (~(a < b) => last <= first)
  <2>1. a + 1 \in Nat /\ (~(a < b) => b <= a + 1)
    OBVIOUS
  <2>2. first \in 0 .. Len(entries)
    BY <2>1, CountBelowIs
  <2>3. last \in 0 .. Len(entries)
    BY CountBelowIs
  <2>4. ~(a < b) => last <= first
    BY <2>1, CountBelowMono
  <2>5. Len(entries) \in Nat
    BY LenProperties DEF Ordered
  <2> HIDE DEF first, last
  <2> QED BY <2>2, <2>3, <2>4, <2>5
<1>2. CASE a < b
  BY <1>2 DEF SqlBetween, Part
<1>3. CASE ~(a < b)
  <2>1. SqlBetween(entries, a, b) = [i \in 1 .. first - first |-> entries[first + i].requestId]
    BY <1>3 DEF SqlBetween
  <2> HIDE DEF first, last
  <2>2. 1 .. first - first = {} /\ 1 .. last - first = {}
    BY <1>1, <1>3
  <2>3. SqlBetween(entries, a, b) = Part(entries, first, last)
    BY <2>1, <2>2 DEF Part
  <2> QED BY <2>3 DEF first, last
<1> QED
  BY <1>2, <1>3

LEMMA SqlBetweenType ==
  ASSUME NEW entries, NEW n \in Nat, Ordered(entries, n), NEW a \in Nat, NEW b \in Nat
  PROVE  SqlBetween(entries, a, b) \in Seq(RequestIds)
<1> DEFINE first == CountBelow(entries, a + 1)
           last == CountBelow(entries, b)
<1>1. first \in 0 .. Len(entries) /\ last \in 0 .. Len(entries) /\ Len(entries) \in Nat
  <2>1. a + 1 \in Nat
    OBVIOUS
  <2>2. first \in 0 .. Len(entries)
    BY <2>1, CountBelowIs
  <2>3. last \in 0 .. Len(entries)
    BY CountBelowIs
  <2>4. Len(entries) \in Nat
    BY LenProperties DEF Ordered
  <2> HIDE DEF first, last
  <2> QED BY <2>2, <2>3, <2>4
<1> HIDE DEF first, last
<1>2. SqlBetween(entries, a, b) = [i \in 1 .. last - first |-> entries[first + i].requestId]
  <2>1. SqlBetween(entries, a, b) = Part(entries, first, last)
    BY SqlBetweenIs DEF first, last
  <2> QED BY <2>1 DEF Part
<1>3. ASSUME NEW i \in 1 .. last - first PROVE entries[first + i].requestId \in RequestIds
  <2>1. first + i \in 1 .. Len(entries)
    BY <1>1
  <2>2. entries \in [1 .. Len(entries) -> WalEntry]
    BY LenProperties DEF Ordered
  <2>3. entries[first + i] \in WalEntry
    BY <2>1, <2>2
  <2> QED BY <2>3 DEF WalEntry
<1>4. [i \in 1 .. last - first |-> entries[first + i].requestId] \in [1 .. last - first -> RequestIds]
  BY <1>3
<1>5. CASE last - first \in Nat
  BY <1>2, <1>4, <1>5
<1>6. CASE last - first \notin Nat
  <2>1. 1 .. last - first = {} /\ 1 .. 0 = {}
    BY <1>1, <1>6
  <2>2. SqlBetween(entries, a, b) \in [1 .. 0 -> RequestIds]
    BY <1>2, <1>4, <2>1
  <2> QED BY <2>2
<1> QED
  BY <1>5, <1>6

(* Two adjacent parts of the log. *)
LEMMA SqlBetweenSplit ==
  ASSUME NEW entries, NEW n \in Nat, Ordered(entries, n),
         NEW a \in Nat, NEW b \in Nat, NEW c \in Nat, a <= b, b < c
  PROVE  SqlBetween(entries, a, b + 1) \o SqlBetween(entries, b, c) = SqlBetween(entries, a, c)
<1> DEFINE i1 == CountBelow(entries, a + 1)
           i2 == CountBelow(entries, b + 1)
           i3 == CountBelow(entries, c)
           N == Len(entries)
           left == SqlBetween(entries, a, b + 1)
           right == SqlBetween(entries, b, c)
           whole == SqlBetween(entries, a, c)
<1>1. /\ N \in Nat /\ i1 \in 0 .. N /\ i2 \in 0 .. N /\ i3 \in 0 .. N
      /\ i1 <= i2 /\ i2 <= i3
  <2>1. a + 1 \in Nat /\ b + 1 \in Nat /\ a + 1 <= b + 1 /\ b + 1 <= c
    OBVIOUS
  <2>2. i1 \in 0 .. N /\ i2 \in 0 .. N /\ i3 \in 0 .. N
    BY <2>1, CountBelowIs
  <2>3. i1 <= i2 /\ i2 <= i3
    BY <2>1, CountBelowMono
  <2>4. N \in Nat
    BY LenProperties DEF Ordered
  <2> HIDE DEF i1, i2, i3, N
  <2> QED BY <2>2, <2>3, <2>4
<1>2. /\ left = [i \in 1 .. i2 - i1 |-> entries[i1 + i].requestId]
      /\ right = [i \in 1 .. i3 - i2 |-> entries[i2 + i].requestId]
      /\ whole = [i \in 1 .. i3 - i1 |-> entries[i1 + i].requestId]
  BY DEF SqlBetween
<1>3. left \in Seq(RequestIds) /\ right \in Seq(RequestIds) /\ whole \in Seq(RequestIds)
  <2>1. b + 1 \in Nat
    OBVIOUS
  <2> QED BY <2>1, SqlBetweenType
<1> HIDE DEF i1, i2, i3, left, right, whole
<1>4. Len(left) = i2 - i1 /\ Len(right) = i3 - i2 /\ Len(whole) = i3 - i1
  BY <1>1, <1>2, <1>3
<1> DEFINE r == left \o right
<1>5. /\ r \in Seq(RequestIds) /\ Len(r) = Len(left) + Len(right)
      /\ \A i \in 1 .. Len(left) + Len(right) :
           r[i] = IF i <= Len(left) THEN left[i] ELSE right[i - Len(left)]
  BY <1>3, ConcatProperties
<1> HIDE DEF r
<1>6. Len(r) = Len(whole)
  BY <1>1, <1>4, <1>5
<1>7. ASSUME NEW i \in 1 .. Len(whole) PROVE r[i] = whole[i]
  <2>1. i \in 1 .. i3 - i1 /\ whole[i] = entries[i1 + i].requestId
    BY <1>2, <1>4
  <2>2. CASE i <= i2 - i1
    <3>1. i \in 1 .. i2 - i1 /\ i \in 1 .. Len(left) + Len(right) /\ i <= Len(left)
      BY <1>1, <1>4, <2>1, <2>2
    <3> QED BY <1>2, <1>5, <2>1, <3>1
  <2>3. CASE ~(i <= i2 - i1)
    <3>1. /\ i - (i2 - i1) \in 1 .. i3 - i2 /\ i2 + (i - (i2 - i1)) = i1 + i
          /\ i \in 1 .. Len(left) + Len(right) /\ ~(i <= Len(left))
      BY <1>1, <1>4, <2>1, <2>3
    <3>2. right[i - (i2 - i1)] = entries[i1 + i].requestId
      BY <1>2, <3>1
    <3> QED BY <1>4, <1>5, <2>1, <3>1, <3>2
  <2> QED BY <2>2, <2>3
<1>8. r = whole
  BY <1>3, <1>5, <1>6, <1>7, SeqEqual
<1> QED
  BY <1>8 DEF r, left, right, whole

(* Nothing lies above the last sequence. *)
LEMMA SqlBetweenEnd ==
  ASSUME NEW entries, NEW n \in Nat, Ordered(entries, n), NEW a \in Nat, NEW b \in Nat, NEW c \in Nat,
         n < b, n < c
  PROVE  SqlBetween(entries, a, b) = SqlBetween(entries, a, c)
<1>1. Len(entries) \in Nat /\ \A i \in 1 .. Len(entries) : entries[i].sequence \in 1 .. n
  BY LenProperties DEF Ordered
<1>2. Len(entries) \in 0 .. Len(entries) /\ \A i \in 1 .. Len(entries) : i <= Len(entries)
  BY <1>1
<1>3. CountBelow(entries, b) = Len(entries)
  <2>1. \A i \in 1 .. Len(entries) : entries[i].sequence < b <=> i <= Len(entries)
    BY <1>1, <1>2
  <2> QED BY <1>2, <2>1, CountBelowUnique
<1>4. CountBelow(entries, c) = Len(entries)
  <2>1. \A i \in 1 .. Len(entries) : entries[i].sequence < c <=> i <= Len(entries)
    BY <1>1, <1>2
  <2> QED BY <1>2, <2>1, CountBelowUnique
<1> QED
  <2>1. SqlBetween(entries, a, b) = Part(entries, CountBelow(entries, a + 1), Len(entries))
    BY <1>3, SqlBetweenIs
  <2>2. SqlBetween(entries, a, c) = Part(entries, CountBelow(entries, a + 1), Len(entries))
    BY <1>4, SqlBetweenIs
  <2> QED BY <2>1, <2>2

(* Nothing lies below the first sequence. *)
LEMMA SqlBetweenStart ==
  ASSUME NEW entries, NEW n \in Nat, Ordered(entries, n), NEW a \in Nat, NEW b \in Nat,
         \A i \in 1 .. Len(entries) : entries[i].sequence > a
  PROVE  SqlBetween(entries, 0, b) = SqlBetween(entries, a, b)
<1>1. Len(entries) \in Nat /\ \A i \in 1 .. Len(entries) : entries[i].sequence \in 1 .. n
  BY LenProperties DEF Ordered
<1>2. 0 \in 0 .. Len(entries) /\ \A i \in 1 .. Len(entries) : ~(i <= 0)
  BY <1>1
<1>3. CountBelow(entries, 0 + 1) = 0
  <2>1. \A i \in 1 .. Len(entries) : entries[i].sequence < 0 + 1 <=> i <= 0
    BY <1>1, <1>2
  <2> QED BY <1>2, <2>1, CountBelowUnique
<1>4. CountBelow(entries, a + 1) = 0
  <2>1. \A i \in 1 .. Len(entries) : entries[i].sequence < a + 1 <=> i <= 0
    BY <1>1, <1>2
  <2> QED BY <1>2, <2>1, CountBelowUnique
<1> QED
  BY <1>3, <1>4, SqlBetweenIs

(* A part that holds no entry. *)
LEMMA SqlBetweenNone ==
  ASSUME NEW entries, NEW n \in Nat, Ordered(entries, n), NEW a \in Nat, NEW b \in Nat, n <= a
  PROVE  SqlBetween(entries, a, b) = <<>>
<1>1. Len(entries) \in Nat /\ \A i \in 1 .. Len(entries) : entries[i].sequence \in 1 .. n
  BY LenProperties DEF Ordered
<1>2. Len(entries) \in 0 .. Len(entries) /\ \A i \in 1 .. Len(entries) : i <= Len(entries)
  BY <1>1
<1>3. CountBelow(entries, a + 1) = Len(entries)
  <2>1. a + 1 \in Nat /\ \A i \in 1 .. Len(entries) : entries[i].sequence < a + 1 <=> i <= Len(entries)
    BY <1>1, <1>2
  <2> QED BY <1>2, <2>1, CountBelowUnique
<1>4. CountBelow(entries, b) \in 0 .. Len(entries)
  BY CountBelowIs
<1>5. SqlBetween(entries, a, b) \in Seq(RequestIds)
  BY SqlBetweenType
<1>6. DOMAIN SqlBetween(entries, a, b) = {}
  <2>1. SqlBetween(entries, a, b) = Part(entries, Len(entries), CountBelow(entries, b))
    BY <1>3, SqlBetweenIs
  <2> QED BY <1>1, <1>4, <2>1 DEF Part
<1> QED
  BY <1>5, <1>6, EmptySeq, LenProperties

(* An entry is appended to the log. *)
LEMMA OrderedAppend ==
  ASSUME NEW entries, NEW n \in Nat, Ordered(entries, n), NEW id \in RequestIds,
         NEW q \in Nat, n < q
  PROVE  LET new == Append(entries, [sequence |-> q, requestId |-> id]) IN
         /\ Ordered(new, q) /\ Len(new) = Len(entries) + 1
         /\ new[Len(entries) + 1] = [sequence |-> q, requestId |-> id]
         /\ \A i \in 1 .. Len(entries) : new[i] = entries[i]
<1> DEFINE e == [sequence |-> q, requestId |-> id]
           new == Append(entries, e)
           N == Len(entries)
<1>1. e \in WalEntry /\ e.sequence = q /\ entries \in Seq(WalEntry)
  BY DEF WalEntry, Ordered
<1> HIDE DEF e
<1>2. /\ new \in Seq(WalEntry) /\ Len(new) = N + 1 /\ N \in Nat
      /\ \A i \in 1 .. N : new[i] = entries[i]
      /\ new[N + 1] = e
  BY <1>1, AppendProperties, LenProperties
<1> HIDE DEF new
<1>3. \A i \in 1 .. N : entries[i].sequence \in 1 .. n
  BY DEF Ordered
<1>4. \A i \in 1 .. N + 1 : new[i].sequence \in 1 .. q
  <2> SUFFICES ASSUME NEW i \in 1 .. N + 1 PROVE new[i].sequence \in 1 .. q
    OBVIOUS
  <2>1. CASE i = N + 1
    BY <1>1, <1>2, <2>1
  <2>2. CASE i # N + 1
    <3>1. i \in 1 .. N
      BY <1>2, <2>2
    <3> QED BY <1>2, <1>3, <3>1
  <2> QED BY <2>1, <2>2
<1>5. ASSUME NEW i \in 1 .. N + 1, NEW j \in 1 .. N + 1, i < j PROVE new[i].sequence < new[j].sequence
  <2>1. i \in 1 .. N
    BY <1>2, <1>5
  <2>2. CASE j = N + 1
    BY <1>1, <1>2, <1>3, <2>1, <2>2
  <2>3. CASE j # N + 1
    <3>1. j \in 1 .. N
      BY <1>2, <2>3
    <3> QED BY <1>2, <1>5, <2>1, <3>1 DEF Ordered
  <2> QED BY <2>2, <2>3
<1>6. Ordered(new, q)
  BY <1>2, <1>4, <1>5 DEF Ordered
<1> QED
  BY <1>2, <1>6 DEF new, e

LEMMA SqlBetweenAppend ==
  ASSUME NEW entries, NEW n \in Nat, Ordered(entries, n), NEW id \in RequestIds,
         NEW q \in Nat, n < q, NEW a \in Nat, NEW b \in Nat, a <= n
  PROVE  LET new == Append(entries, [sequence |-> q, requestId |-> id]) IN
         SqlBetween(new, a, b) = IF q < b THEN Append(SqlBetween(entries, a, b), id)
                                 ELSE SqlBetween(entries, a, b)
<1> DEFINE new == Append(entries, [sequence |-> q, requestId |-> id])
           N == Len(entries)
           i1 == CountBelow(entries, a + 1)
           i2 == CountBelow(entries, b)
           old == SqlBetween(entries, a, b)
<1>1. /\ Ordered(new, q) /\ Len(new) = N + 1
      /\ new[N + 1].sequence = q /\ new[N + 1].requestId = id
      /\ \A i \in 1 .. N : new[i] = entries[i]
  <2>1. [sequence |-> q, requestId |-> id].sequence = q /\ [sequence |-> q, requestId |-> id].requestId = id
    OBVIOUS
  <2> QED BY <2>1, OrderedAppend
<1>2. /\ N \in Nat /\ i1 \in 0 .. N /\ i2 \in 0 .. N
      /\ \A i \in 1 .. N : entries[i].sequence < a + 1 <=> i <= i1
      /\ \A i \in 1 .. N : entries[i].sequence < b <=> i <= i2
      /\ \A i \in 1 .. N : entries[i].sequence \in 1 .. n
  <2>1. a + 1 \in Nat
    OBVIOUS
  <2>2. i1 \in 0 .. N /\ \A i \in 1 .. N : entries[i].sequence < a + 1 <=> i <= i1
    BY <2>1, CountBelowIs
  <2>3. i2 \in 0 .. N /\ \A i \in 1 .. N : entries[i].sequence < b <=> i <= i2
    BY CountBelowIs
  <2>4. N \in Nat /\ \A i \in 1 .. N : entries[i].sequence \in 1 .. n
    BY LenProperties DEF Ordered
  <2> HIDE DEF i1, i2, N
  <2> QED BY <2>2, <2>3, <2>4
<1>3. old = [i \in 1 .. i2 - i1 |-> entries[i1 + i].requestId] /\ old \in Seq(RequestIds)
  <2>1. old = Part(entries, i1, i2)
    BY SqlBetweenIs
  <2> QED BY <2>1, SqlBetweenType DEF Part
<1> HIDE DEF new, i1, i2, old
<1>4. CountBelow(new, a + 1) = i1
  <2>1. i1 \in 0 .. N + 1 /\ ~(N + 1 <= i1) /\ a + 1 \in Nat
    BY <1>2
  <2>2. ASSUME NEW i \in 1 .. N + 1 PROVE new[i].sequence < a + 1 <=> i <= i1
    <3>1. CASE i = N + 1
      BY <1>1, <2>1, <3>1
    <3>2. CASE i # N + 1
      <4>1. i \in 1 .. N
        BY <1>2, <3>2
      <4> QED BY <1>1, <1>2, <4>1
    <3> QED BY <3>1, <3>2
  <2> QED BY <1>1, <2>1, <2>2, CountBelowUnique
<1>5. CASE q < b
  <2>1. i2 = N
    <3> SUFFICES ASSUME i2 # N PROVE FALSE
      OBVIOUS
    <3>1. N \in 1 .. N /\ ~(N <= i2)
      BY <1>2
    <3>2. ~(entries[N].sequence < b) /\ entries[N].sequence \in 1 .. n
      BY <1>2, <3>1
    <3> QED BY <1>5, <3>2
  <2>2. CountBelow(new, b) = N + 1
    <3>1. N + 1 \in 0 .. N + 1
      BY <1>2
    <3>2. ASSUME NEW i \in 1 .. N + 1 PROVE new[i].sequence < b <=> i <= N + 1
      <4>1. CASE i = N + 1
        BY <1>1, <1>5, <4>1
      <4>2. CASE i # N + 1
        <5>1. i \in 1 .. N
          BY <1>2, <4>2
        <5> QED BY <1>1, <1>2, <2>1, <5>1
      <4> QED BY <4>1, <4>2
    <3> QED BY <1>1, <3>1, <3>2, CountBelowUnique
  <2>3. SqlBetween(new, a, b) = [i \in 1 .. (N + 1) - i1 |-> new[i1 + i].requestId]
    <3>1. SqlBetween(new, a, b) = Part(new, i1, N + 1)
      BY <1>1, <1>4, <2>2, SqlBetweenIs
    <3> QED BY <3>1 DEF Part
  <2>4. SqlBetween(new, a, b) \in Seq(RequestIds)
    BY <1>1, SqlBetweenType
  <2>5. Len(old) = N - i1
    BY <1>2, <1>3, <2>1
  <2>6. /\ Append(old, id) \in Seq(RequestIds) /\ Len(Append(old, id)) = (N - i1) + 1
        /\ \A i \in 1 .. N - i1 : Append(old, id)[i] = old[i]
        /\ Append(old, id)[(N - i1) + 1] = id
    <3>1. /\ Append(old, id) \in Seq(RequestIds) /\ Len(Append(old, id)) = Len(old) + 1
          /\ \A i \in 1 .. Len(old) : Append(old, id)[i] = old[i]
          /\ Append(old, id)[Len(old) + 1] = id
      <4>1. old \in Seq(RequestIds)
        BY <1>3
      <4> QED BY <4>1, AppendProperties
    <3> QED BY <2>5, <3>1
  <2>7. Len(SqlBetween(new, a, b)) = (N - i1) + 1
    BY <1>2, <2>3, <2>4
  <2>8. ASSUME NEW i \in 1 .. (N - i1) + 1 PROVE SqlBetween(new, a, b)[i] = Append(old, id)[i]
    <3>1. SqlBetween(new, a, b)[i] = new[i1 + i].requestId
      BY <1>2, <2>3
    <3>2. CASE i = (N - i1) + 1
      <4>1. i1 + i = N + 1
        BY <1>2, <3>2
      <4> QED BY <1>1, <2>6, <3>1, <3>2, <4>1
    <3>3. CASE i # (N - i1) + 1
      <4> HIDE DEF N
      <4>1. i \in 1 .. N - i1 /\ i1 + i \in 1 .. N
        BY <1>2, <3>3
      <4> QED BY <1>1, <1>3, <2>1, <2>6, <3>1, <4>1
    <3> QED BY <3>2, <3>3
  <2>9. SqlBetween(new, a, b) = Append(old, id)
    BY <2>4, <2>6, <2>7, <2>8, SeqEqual
  <2> QED BY <1>5, <2>9 DEF new, old
<1>6. CASE ~(q < b)
  <2>1. CountBelow(new, b) = i2
    <3>1. i2 \in 0 .. N + 1 /\ ~(N + 1 <= i2)
      BY <1>2
    <3>2. ASSUME NEW i \in 1 .. N + 1 PROVE new[i].sequence < b <=> i <= i2
      <4>1. CASE i = N + 1
        BY <1>1, <1>6, <3>1, <4>1
      <4>2. CASE i # N + 1
        <5>1. i \in 1 .. N
          BY <1>2, <4>2
        <5> QED BY <1>1, <1>2, <5>1
      <4> QED BY <4>1, <4>2
    <3> QED BY <1>1, <3>1, <3>2, CountBelowUnique
  <2>2. SqlBetween(new, a, b) = [i \in 1 .. i2 - i1 |-> new[i1 + i].requestId]
    <3>1. SqlBetween(new, a, b) = Part(new, i1, i2)
      BY <1>1, <1>4, <2>1, SqlBetweenIs
    <3> QED BY <3>1 DEF Part
  <2>3. \A i \in 1 .. i2 - i1 : new[i1 + i].requestId = entries[i1 + i].requestId
    <3> SUFFICES ASSUME NEW i \in 1 .. i2 - i1 PROVE new[i1 + i].requestId = entries[i1 + i].requestId
      OBVIOUS
    <3>1. i1 + i \in 1 .. N
      BY <1>2
    <3> QED BY <1>1, <3>1
  <2>4. SqlBetween(new, a, b) = old
    BY <1>3, <2>2, <2>3
  <2> QED BY <1>6, <2>4 DEF new, old
<1> QED
  BY <1>5, <1>6

(* compactThrough keeps the order. *)
LEMMA OrderedCompact ==
  ASSUME NEW entries, NEW n \in Nat, Ordered(entries, n), NEW s \in Nat
  PROVE  LET kept == SubSeq(entries, CountBelow(entries, s + 1) + 1, Len(entries)) IN
         /\ Ordered(kept, n)
         /\ \A i \in 1 .. Len(kept) : \E j \in 1 .. Len(entries) : kept[i] = entries[j]
         /\ n <= s => kept = <<>>
<1> DEFINE k == CountBelow(entries, s + 1)
           N == Len(entries)
           kept == SubSeq(entries, k + 1, N)
<1>1. N \in Nat /\ k \in 0 .. N /\ entries \in Seq(WalEntry) /\ entries \in [1 .. N -> WalEntry]
  <2>1. s + 1 \in Nat
    OBVIOUS
  <2>2. k \in 0 .. N
    BY <2>1, CountBelowIs
  <2>3. N \in Nat /\ entries \in Seq(WalEntry) /\ entries \in [1 .. N -> WalEntry]
    BY LenProperties DEF Ordered
  <2> HIDE DEF k, N
  <2> QED BY <2>2, <2>3
<1>k. n <= s => k = N
  <2>1. N \in 0 .. N /\ \A i \in 1 .. N : i <= N
    BY <1>1
  <2>2. n <= s => \A i \in 1 .. N : entries[i].sequence < s + 1 <=> i <= N
    BY <2>1 DEF Ordered
  <2>3. s + 1 \in Nat
    OBVIOUS
  <2> QED BY <2>1, <2>2, <2>3, CountBelowUnique
<1> HIDE DEF k
<1>2. /\ kept \in Seq(WalEntry) /\ Len(kept) = N - k
      /\ \A i \in 1 .. N - k : kept[i] = entries[k + i]
  <2>1. k + 1 \in Int /\ N \in Int /\ \A i \in k + 1 .. N : entries[i] \in WalEntry
    BY <1>1
  <2> HIDE DEF N
  <2>2. /\ SubSeq(entries, k + 1, N) \in Seq(WalEntry)
        /\ Len(SubSeq(entries, k + 1, N)) = IF k + 1 <= N THEN N - (k + 1) + 1 ELSE 0
        /\ \A i \in 1 .. N - (k + 1) + 1 : SubSeq(entries, k + 1, N)[i] = entries[(k + 1) + i - 1]
    BY <2>1, SubSeqProperties
  <2>3. kept \in Seq(WalEntry) /\ Len(kept) = N - k
    BY <1>1, <2>2
  <2>4. ASSUME NEW i \in 1 .. N - k PROVE kept[i] = entries[k + i]
    <3>1. i \in 1 .. N - (k + 1) + 1 /\ (k + 1) + i - 1 = k + i
      BY <1>1
    <3> QED BY <2>2, <3>1
  <2> QED BY <2>3, <2>4
<1> HIDE DEF kept
<1>3. ASSUME NEW i \in 1 .. N - k PROVE k + i \in 1 .. N
  BY <1>1
<1>4. Ordered(kept, n)
  <2>1. \A i \in 1 .. N - k : kept[i].sequence \in 1 .. n
    BY <1>2, <1>3 DEF Ordered
  <2>2. ASSUME NEW i \in 1 .. N - k, NEW j \in 1 .. N - k, i < j
        PROVE  kept[i].sequence < kept[j].sequence
    <3>1. k + i \in 1 .. N /\ k + j \in 1 .. N /\ k + i < k + j
      BY <1>1, <1>3, <2>2
    <3> QED BY <1>2, <3>1 DEF Ordered
  <2> QED BY <1>2, <2>1, <2>2 DEF Ordered
<1>5. \A i \in 1 .. Len(kept) : \E j \in 1 .. N : kept[i] = entries[j]
  BY <1>2, <1>3
<1>6. n <= s => kept = <<>>
  BY <1>1, <1>2, <1>k, EmptySeq
<1> QED
  BY <1>4, <1>5, <1>6 DEF kept, k

-----------------------------------------------------------------------------
(* The inductive invariants                                                *)

Requests == {"write", "read", "cli"}

(* What the monitor is held for, by the step that comes next. *)
OpAt(label, l) ==
  /\ label \in {"sync", "run"} => l.op \in Requests
  /\ label = "replay" => l.op \in Requests \cup {"start"}
  /\ label \in {"recover", "fullsync"} => l.op = "start"
  /\ l.installing => l.op = "start"
  /\ l.op = "write" => l.sql \in RequestIds

OpOK == OpAt(pc["exec"], local["exec"])

(* start() runs before there are handlers, and nothing runs in a dead process. *)
StartOK ==
  /\ local["snapshot"].op # "start" /\ local["refresh"].op # "start"
  /\ local["exec"].op = "start" => pc["snapshot"] = "idle" /\ pc["refresh"] = "idle"
  /\ replicaState = "DOWN" => \A t \in Threads : pc[t] = "idle"

NodeInv == TypeOK /\ Ordered(wal, lastSequence) /\ OpOK /\ StartOK

(* The log has reached s, or will when a running handler advances it. *)
Reached(s) ==
  \/ s <= lastSequence
  \/ \E t \in Threads : pc[t] = "advance" /\ s <= local[t].compacted

AheadInv ==
  /\ "peer" \notin faults => \A t \in Threads : ~local[t].installing /\ pc[t] # "advance"
  /\ ~({"kill", "peer"} \subseteq faults) =>
       /\ Reached(manifestFile) /\ Reached(snapshotManifest)
       /\ \A t \in Threads : \/ Reached(local[t].compacted)
                             \/ local[t].installing /\ pc[t] \in {"writesql", "manifest"}

(* One handler at a time, and where each of them can be. *)
OneHandler ==
  /\ \A t, u \in Threads : t # u => pc[t] = "idle" \/ pc[u] = "idle"
  /\ \A t \in Threads : pc[t] = "idle" => local[t] = NoLocal
  /\ pc["exec"] # "readlast"
  /\ pc["snapshot"] \in {"idle", "readwal", "readlast", "writesql", "manifest", "compact",
                         "invalidate"}
  /\ pc["refresh"] \in {"idle", "recover", "fullsync", "replay", "setseq"}
  /\ pc["refresh"] # "idle" => local["refresh"].op = "refresh"

Files == snapshotSql \o SqlBetween(wal, manifestFile, NoBound)

(* The files between them hold every request once. *)
FilesOK ==
  /\ replicaState # "DOWN" => snapshotManifest = manifestFile
  /\ requestIds = Elements(LogicalLog)
  /\ \A i \in 1 .. Len(wal) : wal[i].requestId \in requestIds
  /\ acked \subseteq requestIds
  /\ (\A t \in Threads : pc[t] # "compact") =>
       \A i \in 1 .. Len(wal) : wal[i].sequence > manifestFile

(* What a handler has read is not stale when it uses it. *)
ReadAt(t) ==
  /\ pc[t] = "readwal" => /\ local[t].list = snapshotSql
                          /\ t = "exec" => local[t].compacted = lastSequence
  /\ pc[t] \in {"readlast", "writesql"} => local[t].list = Files
  /\ pc[t] \in {"writesql", "manifest", "compact"} => local[t].compacted = lastSequence
  /\ pc[t] = "compact" => manifestFile = lastSequence
  /\ pc[t] = "marked" => local[t].compacted = snapshotManifest
  /\ pc[t] = "replay" => /\ local[t].list = snapshotSql
                         /\ local[t].compacted = snapshotManifest
  /\ local[t].op = "write" => local[t].sql \in requestIds
  /\ pc[t] \in {"sync", "replay", "run"} /\ local[t].op \in Requests =>
       local[t].written = lastSequence
  /\ pc[t] \in {"sync", "replay", "run"} /\ local[t].op = "write" =>
       /\ Len(wal) > 0
       /\ wal[Len(wal)] = [sequence |-> lastSequence, requestId |-> local[t].sql]

(* What a rebuilt database holds up to a sequence. *)
Db(to) == snapshotSql \o SqlBetween(wal, snapshotManifest, to)

Current == engine.ready /\ engine.compactedWal = snapshotManifest

(* Steps that find the engine, the snapshot and the log at different points. *)
Between == {"run", "setseq", "manifest", "compact", "invalidate"}

(* The database of the engine, by the step the handler is at. *)
EngineOK ==
  /\ replicaState = "DOWN" => ~engine.ready
  /\ Current =>
     /\ (\A t \in Threads : pc[t] \notin Between) =>
          /\ snapshotManifest <= engine.walSequence
          /\ engine.walSequence <= lastSequence
          /\ engine.db = Db(engine.walSequence + 1)
     /\ pc["exec"] = "sync" /\ local["exec"].op = "write" => engine.walSequence < lastSequence
     /\ pc["exec"] = "run" => engine.db = Db(Exclusive("exec"))
     /\ (\E t \in Threads : pc[t] = "setseq") => engine.db = Db(NoBound)

AloneOK == OneHandler /\ FilesOK /\ \A t \in Threads : ReadAt(t)

AloneInv == Alone => AloneOK /\ ("cli" \notin faults => EngineOK)

-----------------------------------------------------------------------------
(* Types, and the order of the log                                         *)

(* A request enters the log. *)
Logs(id) ==
  /\ Find(id) = {}
  /\ lastSequence' \in lastSequence + 1 .. MaxSequence
  /\ wal' = Append(wal, [sequence |-> lastSequence', requestId |-> id])
  /\ requestIds' = requestIds \cup {id}

(* The steps that change the log. *)
LEMMA LogChanges ==
  ASSUME [Next]_vars, lastSequence \in Nat, MaxSequence \in Nat
  PROVE  \/ UNCHANGED logVars
         \/ \E id \in RequestIds : Logs(id)
         \/ \E t \in Threads : Compact(t) \/ AdvanceLastSequence(t)
<1> USE DEF logVars
<1>1. ASSUME NEW id \in RequestIds, NEW t, NEW op, NEW next, LogRequest(id, t, op, next)
      PROVE  UNCHANGED logVars \/ Logs(id)
  <2>1. CASE Find(id) # {}
    BY <1>1, <2>1 DEF LogRequest
  <2>2. CASE Find(id) = {}
    <3>1. /\ lastSequence < MaxSequence /\ lastSequence' = lastSequence + 1
          /\ wal' = Append(wal, [sequence |-> lastSequence + 1, requestId |-> id])
          /\ requestIds' = requestIds \cup {id}
      BY <1>1, <2>2 DEF LogRequest
    <3>2. lastSequence' \in lastSequence + 1 .. MaxSequence
      BY <3>1
    <3> QED BY <2>2, <3>1, <3>2 DEF Logs
  <2> QED BY <2>1, <2>2
<1>2. ASSUME NEW id \in RequestIds, Write(id) \/ Replay(id) \/ ReplayDuplicate(id)
      PROVE  UNCHANGED logVars \/ Logs(id)
  BY <1>1, <1>2 DEF Write, Replay, ReplayDuplicate
<1>3. ASSUME Read \/ Cli \/ AdminSnapshot \/ RefreshShards \/ Start \/ EngineDies \/ Crash
      PROVE  UNCHANGED logVars
  BY <1>3 DEF Read, Cli, AdminSnapshot, RefreshShards, Start, EngineDies, Crash
<1>4. ASSUME ExecStep \/ AdminReadLast PROVE UNCHANGED logVars
  BY <1>4 DEF ExecStep, AdminReadLast, FullSyncBegin, ReadSnapshotSql, CatchUp, RunStatement,
              StatementFails, MarkBegin, MarkApplied, SkipSnapshot, MaybeSnapshot, Reply
<1>5. ASSUME NEW t \in Threads, ThreadStep(t)
      PROVE  \/ UNCHANGED logVars
             \/ \E id \in RequestIds : Logs(id)
             \/ Compact(t) \/ AdvanceLastSequence(t)
  <2>1. ASSUME NEW id \in RequestIds, RecoverEntry(t, id) PROVE Logs(id)
    BY <2>1 DEF RecoverEntry, Logs, containsRequestId
  <2>2. ASSUME ResetAndReplay(t) \/ ReplayFails(t) \/ ReadWal(t) \/ WriteSnapshotSql(t)
                 \/ SaveManifest(t) \/ Invalidate(t) \/ InstallPeerSnapshot(t)
                 \/ ApplyPendingWal(t) \/ SyncEngineFull(t) \/ SetServing(t)
        PROVE  UNCHANGED logVars
    BY <2>2 DEF ResetAndReplay, ReplayFails, ReadWal, WriteSnapshotSql, SaveManifest, Invalidate,
                InstallPeerSnapshot, ApplyPendingWal, SyncEngineFull, ReadSnapshotSql, SetServing
  <2> QED BY <1>5, <2>1, <2>2 DEF ThreadStep
<1>6. CASE UNCHANGED vars
  BY <1>6 DEF vars
<1> QED
  BY <1>2, <1>3, <1>4, <1>5, <1>6 DEF Next, Step, Request, Progress

LEMMA LogStep ==
  ASSUME NodeInv, [Next]_vars
  PROVE  /\ wal' \in Seq(WalEntry) /\ lastSequence' \in 0 .. MaxSequence
         /\ requestIds' \subseteq RequestIds
         /\ Ordered(wal, lastSequence)' /\ lastSequence <= lastSequence'
<1> USE DataNodeAssumption
<1>0. /\ wal \in Seq(WalEntry) /\ lastSequence \in 0 .. MaxSequence /\ lastSequence \in Nat
      /\ requestIds \subseteq RequestIds /\ Ordered(wal, lastSequence)
      /\ local \in [Threads -> Locals]
  BY DEF NodeInv, TypeOK
<1>1. CASE UNCHANGED logVars
  BY <1>0, <1>1 DEF logVars, Ordered
<1>2. ASSUME NEW id \in RequestIds, Logs(id)
      PROVE  /\ lastSequence' \in 0 .. MaxSequence /\ requestIds' \subseteq RequestIds
             /\ Ordered(wal, lastSequence)' /\ lastSequence <= lastSequence'
  <2>0. PICK q \in Nat : q = lastSequence' /\ lastSequence < q /\ q <= MaxSequence
    BY <1>0, <1>2 DEF Logs
  <2>1. Ordered(Append(wal, [sequence |-> q, requestId |-> id]), q)
    BY <1>0, <2>0, OrderedAppend
  <2>2. Ordered(wal', lastSequence')
    BY <1>2, <2>0, <2>1 DEF Logs
  <2> QED BY <1>0, <1>2, <2>0, <2>2 DEF Logs, Ordered
<1>3. ASSUME NEW t \in Threads, Compact(t)
      PROVE  /\ lastSequence' \in 0 .. MaxSequence /\ requestIds' \subseteq RequestIds
             /\ Ordered(wal, lastSequence)' /\ lastSequence <= lastSequence'
  <2> DEFINE through == IF t = "snapshot" THEN lastSequence ELSE local[t].compacted
  <2>1. through \in Nat
    BY <1>0 DEF Locals
  <2>2. wal' = SubSeq(wal, CountBelow(wal, through + 1) + 1, Len(wal)) /\ UNCHANGED <<lastSequence, requestIds>>
    BY <1>3 DEF Compact
  <2> HIDE DEF through
  <2>3. Ordered(SubSeq(wal, CountBelow(wal, through + 1) + 1, Len(wal)), lastSequence)
    BY <1>0, <2>1, OrderedCompact
  <2>4. Ordered(wal', lastSequence')
    BY <2>2, <2>3
  <2> QED BY <1>0, <2>2, <2>4 DEF Ordered
<1>4. ASSUME NEW t \in Threads, AdvanceLastSequence(t)
      PROVE  /\ lastSequence' \in 0 .. MaxSequence /\ requestIds' \subseteq RequestIds
             /\ Ordered(wal, lastSequence)' /\ lastSequence <= lastSequence'
  <2>1. local[t].compacted \in 0 .. MaxSequence
    BY <1>0 DEF Locals
  <2>2. UNCHANGED <<wal, requestIds>> /\ lastSequence' = Max({lastSequence, local[t].compacted})
    BY <1>4 DEF AdvanceLastSequence
  <2>3. lastSequence' \in {lastSequence, local[t].compacted} /\ lastSequence <= lastSequence'
    <3>1. {lastSequence, local[t].compacted} \in SUBSET (0 .. MaxSequence)
      BY <1>0, <2>1
    <3> QED BY <2>2, <3>1, MaxIsMember
  <2>4. lastSequence' \in 0 .. MaxSequence
    BY <1>0, <2>1, <2>3
  <2>5. Ordered(wal', lastSequence')
    BY <1>0, <2>2, <2>3, <2>4 DEF Ordered
  <2> QED BY <1>0, <2>2, <2>3, <2>4, <2>5 DEF Ordered
<1>5. Ordered(wal, lastSequence)' => wal' \in Seq(WalEntry)
  BY DEF Ordered
<1> QED
  BY <1>0, <1>1, <1>2, <1>3, <1>4, <1>5, LogChanges

(* The steps that change the snapshot and its manifests. *)
LEMMA SnapChanges ==
  ASSUME [Next]_vars
  PROVE  \/ UNCHANGED snapVars
         \/ \E t \in Threads : WriteSnapshotSql(t) \/ SaveManifest(t) \/ ApplyPendingWal(t)
         \/ MarkApplied \/ Start \/ Crash
<1> USE DEF snapVars
<1>1. ASSUME NEW id \in RequestIds, Write(id) \/ Replay(id) \/ ReplayDuplicate(id)
      PROVE  UNCHANGED snapVars
  BY <1>1 DEF Write, Replay, ReplayDuplicate
<1>2. ASSUME Read \/ Cli \/ AdminSnapshot \/ RefreshShards \/ EngineDies
      PROVE  UNCHANGED snapVars
  BY <1>2 DEF Read, Cli, AdminSnapshot, RefreshShards, EngineDies
<1>3. ASSUME ExecStep \/ AdminReadLast PROVE UNCHANGED snapVars \/ MarkApplied
  BY <1>3 DEF ExecStep, AdminReadLast, FullSyncBegin, ReadSnapshotSql, CatchUp, RunStatement,
              StatementFails, MarkBegin, SkipSnapshot, MaybeSnapshot, Reply
<1>4. ASSUME NEW t \in Threads, ThreadStep(t)
      PROVE  UNCHANGED snapVars \/ WriteSnapshotSql(t) \/ SaveManifest(t) \/ ApplyPendingWal(t)
  <2>1. ASSUME NEW id \in RequestIds, RecoverEntry(t, id) PROVE UNCHANGED snapVars
    BY <2>1 DEF RecoverEntry
  <2>2. ASSUME ResetAndReplay(t) \/ ReplayFails(t) \/ ReadWal(t) \/ Compact(t) \/ Invalidate(t)
                 \/ InstallPeerSnapshot(t) \/ AdvanceLastSequence(t) \/ SyncEngineFull(t)
                 \/ SetServing(t)
        PROVE  UNCHANGED snapVars
    BY <2>2 DEF ResetAndReplay, ReplayFails, ReadWal, Compact, Invalidate, InstallPeerSnapshot,
                AdvanceLastSequence, SyncEngineFull, ReadSnapshotSql, SetServing
  <2> QED BY <1>4, <2>1, <2>2 DEF ThreadStep
<1>5. CASE UNCHANGED vars
  BY <1>5 DEF vars
<1> QED
  BY <1>1, <1>2, <1>3, <1>4, <1>5 DEF Next, Step, Request, Progress

LEMMA SnapStep ==
  ASSUME NodeInv, [Next]_vars
  PROVE  /\ snapshotSql' \in Seq(RequestIds)
         /\ manifestFile' \in 0 .. MaxSequence /\ snapshotManifest' \in 0 .. MaxSequence
<1> USE DataNodeAssumption
<1>0. /\ snapshotSql \in Seq(RequestIds)
      /\ manifestFile \in 0 .. MaxSequence /\ snapshotManifest \in 0 .. MaxSequence
      /\ local \in [Threads -> Locals]
  BY DEF NodeInv, TypeOK
<1>1. \A t \in Threads : local[t].list \in Seq(RequestIds) /\ local[t].compacted \in 0 .. MaxSequence
  BY <1>0 DEF Locals
<1>2. "exec" \in Threads /\ 0 \in 0 .. MaxSequence
  BY DEF Threads
<1>3. CASE UNCHANGED snapVars
  BY <1>0, <1>3 DEF snapVars
<1>4. ASSUME NEW t \in Threads, WriteSnapshotSql(t)
      PROVE  snapshotSql' \in Seq(RequestIds) /\ UNCHANGED <<manifestFile, snapshotManifest>>
  BY <1>1, <1>4 DEF WriteSnapshotSql
<1>5. ASSUME NEW t \in Threads, SaveManifest(t) \/ ApplyPendingWal(t)
      PROVE  /\ UNCHANGED snapshotSql
             /\ manifestFile' \in 0 .. MaxSequence /\ snapshotManifest' \in 0 .. MaxSequence
  BY <1>0, <1>1, <1>5 DEF SaveManifest, ApplyPendingWal
<1>6. ASSUME MarkApplied \/ Start \/ Crash
      PROVE  /\ UNCHANGED snapshotSql
             /\ manifestFile' \in 0 .. MaxSequence /\ snapshotManifest' \in 0 .. MaxSequence
  BY <1>0, <1>1, <1>2, <1>6 DEF MarkApplied, Start, Crash
<1> QED
  BY <1>0, <1>3, <1>4, <1>5, <1>6, SnapChanges

(* The steps that change the engine. *)
LEMMA EngineChanges ==
  ASSUME [Next]_vars
  PROVE  \/ UNCHANGED engine
         \/ engine' = NoEngine
         \/ CatchUp \/ RunStatement
         \/ \E t \in Threads : ResetAndReplay(t) \/ SetServing(t)
<1>1. ASSUME NEW id \in RequestIds, Write(id) \/ Replay(id) \/ ReplayDuplicate(id)
      PROVE  UNCHANGED engine
  BY <1>1 DEF Write, Replay, ReplayDuplicate
<1>2. ASSUME Read \/ Cli \/ AdminSnapshot \/ RefreshShards \/ Start
      PROVE  UNCHANGED engine
  BY <1>2 DEF Read, Cli, AdminSnapshot, RefreshShards, Start
<1>3. ASSUME EngineDies \/ Crash PROVE engine' = NoEngine
  BY <1>3 DEF EngineDies, Crash
<1>4. ASSUME ExecStep \/ AdminReadLast PROVE UNCHANGED engine \/ CatchUp \/ RunStatement
  BY <1>4 DEF ExecStep, AdminReadLast, FullSyncBegin, ReadSnapshotSql, StatementFails, MarkBegin,
              MarkApplied, SkipSnapshot, MaybeSnapshot, Reply
<1>5. ASSUME NEW t \in Threads, ThreadStep(t)
      PROVE  UNCHANGED engine \/ engine' = NoEngine \/ ResetAndReplay(t) \/ SetServing(t)
  <2>1. ASSUME NEW id \in RequestIds, RecoverEntry(t, id) PROVE UNCHANGED engine
    BY <2>1 DEF RecoverEntry
  <2>2. ASSUME ReplayFails(t) \/ Invalidate(t) PROVE engine' = NoEngine
    BY <2>2 DEF ReplayFails, Invalidate
  <2>3. ASSUME ReadWal(t) \/ WriteSnapshotSql(t) \/ SaveManifest(t) \/ Compact(t)
                 \/ InstallPeerSnapshot(t) \/ AdvanceLastSequence(t) \/ ApplyPendingWal(t)
                 \/ SyncEngineFull(t)
        PROVE  UNCHANGED engine
    BY <2>3 DEF ReadWal, WriteSnapshotSql, SaveManifest, Compact, InstallPeerSnapshot,
                AdvanceLastSequence, ApplyPendingWal, SyncEngineFull, ReadSnapshotSql
  <2> QED BY <1>5, <2>1, <2>2, <2>3 DEF ThreadStep
<1>6. CASE UNCHANGED vars
  BY <1>6 DEF vars
<1> QED
  BY <1>1, <1>2, <1>3, <1>4, <1>5, <1>6 DEF Next, Step, Request, Progress

Engines == [ready : BOOLEAN, db : Seq(Statements), where : Seq(Databases), selected : Databases,
            walSequence : 0 .. MaxSequence, compactedWal : 0 .. MaxSequence]

(* A sequence up to which the log was executed. *)
LEMMA ThroughType ==
  ASSUME NEW S, NEW from \in 0 .. MaxSequence, NEW to \in 0 .. NoBound
  PROVE  Max((S \cap (from + 1 .. to - 1)) \cup {from}) \in 0 .. MaxSequence
<1> DEFINE T == (S \cap (from + 1 .. to - 1)) \cup {from}
<1>1. T \in SUBSET (0 .. MaxSequence) /\ T # {}
  BY DataNodeAssumption DEF NoBound
<1>2. Max(T) \in T
  BY <1>1, MaxIsMember, DataNodeAssumption
<1> HIDE DEF T
<1>3. Max(T) \in 0 .. MaxSequence
  BY <1>1, <1>2
<1> QED
  BY <1>3 DEF T

LEMMA ConcatType ==
  ASSUME NEW S, NEW s \in Seq(S), NEW u \in Seq(S)
  PROVE  s \o u \in Seq(S)
BY ConcatProperties

LEMMA SeqWider ==
  ASSUME NEW S, NEW T, S \subseteq T, NEW s \in Seq(S)
  PROVE  s \in Seq(T)
<1>1. Len(s) \in Nat /\ s \in [1 .. Len(s) -> S]
  BY LenProperties
<1>2. s \in [1 .. Len(s) -> T]
  BY <1>1
<1> QED
  BY <1>1, <1>2

(* Where a list of statements is executed. *)
LEMMA PlaceType ==
  ASSUME NEW sql, NEW selected \in Databases
  PROVE  Place(sql, selected) \in Databases
BY DEF Place, Databases

LEMMA ReplayedType ==
  ASSUME NEW S, NEW list \in Seq(S)
  PROVE  Replayed(list) \in Seq(Databases) /\ DOMAIN Replayed(list) = DOMAIN list
<1>1. Len(list) \in Nat /\ DOMAIN list = 1 .. Len(list)
  BY LenProperties
<1>2. \A i \in 1 .. Len(list) : Replayed(list)[i] \in Databases
  BY <1>1 DEF Replayed, Place, Databases
<1>3. Replayed(list) \in [1 .. Len(list) -> Databases]
  BY <1>1, <1>2 DEF Replayed
<1> QED
  BY <1>1, <1>3

LEMMA PlacesType ==
  ASSUME NEW S, NEW list \in Seq(S), NEW selected \in Databases
  PROVE  [i \in DOMAIN list |-> Place(list[i], selected)] \in Seq(Databases)
<1>1. Len(list) \in Nat /\ DOMAIN list = 1 .. Len(list)
  BY LenProperties
<1>2. [i \in DOMAIN list |-> Place(list[i], selected)] \in [1 .. Len(list) -> Databases]
  BY <1>1, PlaceType
<1> QED
  BY <1>1, <1>2

LEMMA EngineStep ==
  ASSUME NodeInv, [Next]_vars
  PROVE  engine' \in Engines
<1> USE DataNodeAssumption
<1>0. /\ engine \in Engines /\ local \in [Threads -> Locals]
      /\ lastSequence \in 0 .. MaxSequence /\ lastSequence \in Nat
      /\ Ordered(wal, lastSequence) /\ snapshotManifest \in Nat
      /\ "exec" \in Threads
  BY DEF NodeInv, TypeOK, Engines, Threads
<1>1. /\ engine.ready \in BOOLEAN /\ engine.db \in Seq(Statements)
      /\ engine.walSequence \in 0 .. MaxSequence /\ engine.compactedWal \in 0 .. MaxSequence
      /\ engine.walSequence \in Nat
  BY <1>0 DEF Engines
<1>w. engine.where \in Seq(Databases) /\ engine.selected \in Databases
  BY <1>0 DEF Engines
<1>2. \A t \in Threads : /\ local[t].written \in 0 .. MaxSequence /\ local[t].sql \in Statements
                         /\ local[t].list \in Seq(RequestIds) /\ local[t].compacted \in 0 .. MaxSequence
                         /\ Exclusive(t) \in 0 .. NoBound /\ Exclusive(t) \in Nat
  BY <1>0 DEF Locals, Exclusive, NoBound
<1>3. \A s : s \in Seq(RequestIds) => s \in Seq(Statements)
  BY SeqWider DEF Statements
<1>4. CASE UNCHANGED engine
  BY <1>0, <1>4
<1>5. CASE engine' = NoEngine
  <2>1. <<>> \in Seq(Statements) /\ <<>> \in Seq(Databases)
    OBVIOUS
  <2> QED BY <1>5, <2>1 DEF NoEngine, Engines, Databases
<1>6. CASE CatchUp
  <2>1. SqlBetween(wal, engine.walSequence, Exclusive("exec")) \in Seq(Statements)
    BY <1>0, <1>1, <1>2, <1>3, SqlBetweenType
  <2>2. engine.db \o SqlBetween(wal, engine.walSequence, Exclusive("exec")) \in Seq(Statements)
    BY <1>1, <2>1, ConcatType
  <2> DEFINE S == {wal[i].sequence : i \in DOMAIN wal}
  <2>3. Max((S \cap (engine.walSequence + 1 .. Exclusive("exec") - 1)) \cup {engine.walSequence}) \in 0 .. MaxSequence
    <3> HIDE DEF S
    <3> QED BY <1>0, <1>1, <1>2, ThroughType
  <2> DEFINE new == SqlBetween(wal, engine.walSequence, Exclusive("exec"))
             where == engine.where \o [i \in DOMAIN new |-> Place(new[i], engine.selected)]
  <2>4. engine' = [engine EXCEPT
                     !.db = engine.db \o new, !.where = where,
                     !.walSequence = Max((S \cap (engine.walSequence + 1 .. Exclusive("exec") - 1)) \cup {engine.walSequence})]
    BY <1>6 DEF CatchUp
  <2>5. where \in Seq(Databases)
    <3> HIDE DEF new
    <3>1. [i \in DOMAIN new |-> Place(new[i], engine.selected)] \in Seq(Databases)
      BY <1>w, <2>1, PlacesType DEF new
    <3> QED BY <1>w, <3>1, ConcatType
  <2> HIDE DEF where
  <2> QED BY <1>0, <2>2, <2>3, <2>4, <2>5 DEF Engines
<1>7. CASE RunStatement
  <2>1. Append(engine.db, local["exec"].sql) \in Seq(Statements)
    BY <1>0, <1>1, <1>2
  <2>w. Append(engine.where, Place(local["exec"].sql, engine.selected)) \in Seq(Databases)
    BY <1>w, PlaceType
  <2>2. PICK db \in Seq(Statements), where \in Seq(Databases), selected \in Databases :
          engine' = [engine EXCEPT !.db = db, !.where = where, !.selected = selected,
                                   !.walSequence = local["exec"].written]
    <3> DEFINE x == Append(engine.db, local["exec"].sql)
               y == Append(engine.where, Place(local["exec"].sql, engine.selected))
    <3>1. PICK selected \in {engine.selected, "default", "other"} :
            engine' = [engine EXCEPT !.db = IF local["exec"].op = "read" THEN engine.db ELSE x,
                                     !.where = IF local["exec"].op = "read" THEN engine.where ELSE y,
                                     !.selected = selected, !.walSequence = local["exec"].written]
      BY <1>7, Zenon DEF RunStatement, AppliedSequence
    <3>2. selected \in Databases
      BY <1>w, <3>1 DEF Databases
    <3>3. x \in Seq(Statements) /\ y \in Seq(Databases)
      BY <2>1, <2>w
    <3> HIDE DEF x, y
    <3> QED BY <1>1, <1>w, <3>1, <3>2, <3>3
  <2> QED BY <1>0, <1>1, <1>2, <2>2 DEF Engines
<1>8. ASSUME NEW t \in Threads, ResetAndReplay(t) PROVE engine' \in Engines
  <2> DEFINE db == local[t].list \o SqlBetween(wal, snapshotManifest, Exclusive(t))
  <2>1. db \in Seq(Statements)
    BY <1>0, <1>2, <1>3, SqlBetweenType, ConcatType
  <2> DEFINE S == {e.sequence : e \in {wal[i] : i \in DOMAIN wal}}
             through == Max((S \cap (local[t].compacted + 1 .. Exclusive(t) - 1)) \cup {local[t].compacted})
  <2>2. through \in 0 .. MaxSequence
    <3> HIDE DEF S
    <3> QED BY <1>2, ThroughType
  <2>3. engine' = [ready |-> TRUE, db |-> db, where |-> Replayed(db), selected |-> SelectedAfter(db),
                   walSequence |-> through, compactedWal |-> local[t].compacted]
    BY <1>8 DEF ResetAndReplay, ReplaySql
  <2> HIDE DEF db, through
  <2>4. Replayed(db) \in Seq(Databases) /\ SelectedAfter(db) \in Databases
    BY <2>1, ReplayedType DEF SelectedAfter, Databases
  <2> QED BY <1>2, <2>1, <2>2, <2>3, <2>4 DEF Engines
<1>9. ASSUME NEW t \in Threads, SetServing(t) PROVE engine' \in Engines
  BY <1>0, <1>9 DEF SetServing, Engines
<1> QED
  BY <1>4, <1>5, <1>6, <1>7, <1>8, <1>9, EngineChanges

(* Thread t goes to a label with the local variables l. *)
Moves(t, label, l) ==
  /\ pc' = [pc EXCEPT ![t] = label]
  /\ local' = [local EXCEPT ![t] = l]

ControlOK ==
  /\ pc \in [Threads -> Labels] /\ local \in [Threads -> Locals]
  /\ replicaState \in {"DOWN", "RECOVERING", "SERVING"}
  /\ OpOK /\ StartOK

(* A move keeps the control of the node in order. *)
LEMMA MoveKeeps ==
  ASSUME ControlOK, NEW t \in Threads, NEW label \in Labels, NEW l \in Locals, Moves(t, label, l),
         t = "exec" => OpAt(label, l),
         t # "exec" => l.op # "start",
         t # "exec" /\ local["exec"].op = "start" => label = "idle",
         l.op = "start" => local[t].op = "start" \/ replicaState = "DOWN",
         replicaState' \in {"DOWN", "RECOVERING", "SERVING"},
         replicaState' = "DOWN" => label = "idle" /\ t = "exec" /\ local["exec"].op = "start"
  PROVE  ControlOK'
<1>1. pc' \in [Threads -> Labels] /\ local' \in [Threads -> Locals]
  BY DEF ControlOK, Moves
<1>2. pc'[t] = label /\ local'[t] = l /\ \A u \in Threads : u # t => pc'[u] = pc[u] /\ local'[u] = local[u]
  BY DEF ControlOK, Moves
<1>3. OpOK'
  <2>1. OpAt(pc'["exec"], local'["exec"])
    BY <1>2 DEF ControlOK, OpOK, Threads
  <2> QED BY <2>1 DEF OpOK, OpAt
<1>4. StartOK'
  BY <1>2 DEF ControlOK, StartOK, Threads
<1> QED
  BY <1>1, <1>3, <1>4 DEF ControlOK

(* A handler that has begun is not start(), unless it is the thread of start(). *)
LEMMA BusyThread ==
  ASSUME ControlOK, NEW t \in Threads, pc[t] # "idle"
  PROVE  /\ t # "exec" => local[t].op # "start" /\ local["exec"].op # "start"
         /\ replicaState # "DOWN"
BY DEF ControlOK, StartOK, Threads

LEMMA NoLocalType == NoLocal \in Locals
<1>1. CliSql \in Statements /\ 0 \in 0 .. MaxSequence /\ <<>> \in Seq(RequestIds)
  BY DataNodeAssumption DEF Statements
<1> QED
  BY <1>1 DEF NoLocal, Locals

(* What a peer's snapshot holds are requests. *)
LEMMA PeerSnapshotType ==
  ASSUME NEW c, NEW sql \in PeerSnapshots(c)
  PROVE  sql \in Seq(RequestIds)
<1>1. PICK S \in SUBSET RequestIds : IsFiniteSet(S) /\ sql = SetToSeq(S)
  BY DEF PeerSnapshots
<1>2. Cardinality(S) \in Nat /\ ExistsBijection(1 .. Cardinality(S), S)
  BY <1>1, FS_CardinalityType
<1>3. \E f \in [1 .. Cardinality(S) -> S] : IsInjective(f)
  BY <1>2 DEF ExistsBijection, Bijection, Injection
<1>4. SetToSeq(S) \in [1 .. Cardinality(S) -> S]
  BY <1>3 DEF SetToSeq
<1>5. SetToSeq(S) \in Seq(S)
  BY <1>2, <1>4
<1> QED
  BY <1>1, <1>5, SeqWider

(* Where each step of a handler leads and what it remembers. *)
LEMMA ExecMoves ==
  ASSUME ControlOK
  PROVE  LET e == local["exec"] IN
         /\ \A id \in RequestIds : Write(id) \/ Replay(id) =>
              \E w \in {wal[i].sequence : i \in Find(id)} \cup {lastSequence + 1} :
                 Moves("exec", "sync", [NoLocal EXCEPT !.op = "write", !.sql = id, !.written = w])
         /\ Read => Moves("exec", "sync", [NoLocal EXCEPT !.op = "read", !.written = lastSequence])
         /\ Cli => Moves("exec", "sync", [NoLocal EXCEPT !.op = "cli", !.written = lastSequence])
         /\ FullSyncBegin => Moves("exec", "replay", [e EXCEPT !.list = snapshotSql,
                                                               !.compacted = snapshotManifest])
         /\ CatchUp => Moves("exec", "run", e)
         /\ StatementFails => \/ Moves("exec", "sync", [e EXCEPT !.retried = TRUE])
                              \/ Moves("exec", "idle", NoLocal)
         /\ MarkBegin => Moves("exec", "marked", [e EXCEPT !.compacted = snapshotManifest])
         /\ MarkApplied => Moves("exec", "threshold", [e EXCEPT !.compacted = 0])
         /\ SkipSnapshot => Moves("exec", AfterSnapshot("exec"), e)
         /\ MaybeSnapshot => Moves("exec", "readwal", [e EXCEPT !.compacted = lastSequence,
                                                                !.list = snapshotSql])
         /\ Reply => Moves("exec", "idle", NoLocal)
         /\ Start => Moves("exec", "recover", [NoLocal EXCEPT !.op = "start"])
<1> USE DEF Moves, Goto
<1>1. local \in [Threads -> Locals] /\ pc \in [Threads -> Labels] /\ "exec" \in Threads
  BY DEF ControlOK, Threads
<1>2. [local EXCEPT !["exec"] = local["exec"]] = local
  BY <1>1
<1>3. ASSUME NEW id \in RequestIds, Write(id) \/ Replay(id)
      PROVE  \E w \in {wal[i].sequence : i \in Find(id)} \cup {lastSequence + 1} :
                 Moves("exec", "sync", [NoLocal EXCEPT !.op = "write", !.sql = id, !.written = w])
  <2>1. LogRequest(id, "exec", "write", "sync")
    BY <1>3 DEF Write, Replay
  <2>2. CASE Find(id) # {}
    BY <2>1, <2>2 DEF LogRequest
  <2>3. CASE Find(id) = {}
    <3>1. [sequence |-> lastSequence + 1, requestId |-> id].sequence = lastSequence + 1
      OBVIOUS
    <3> QED BY <2>1, <2>3, <3>1 DEF LogRequest
  <2> QED BY <2>2, <2>3
<1>4. Read => Moves("exec", "sync", [NoLocal EXCEPT !.op = "read", !.written = lastSequence])
  BY DEF Read
<1>5. Cli => Moves("exec", "sync", [NoLocal EXCEPT !.op = "cli", !.written = lastSequence])
  BY DEF Cli
<1>6. FullSyncBegin => Moves("exec", "replay", [local["exec"] EXCEPT !.list = snapshotSql,
                                                                     !.compacted = snapshotManifest])
  BY <1>1 DEF FullSyncBegin, ReadSnapshotSql, Locals
<1>7. CatchUp => Moves("exec", "run", local["exec"])
  BY <1>2 DEF CatchUp
<1>8. StatementFails => \/ Moves("exec", "sync", [local["exec"] EXCEPT !.retried = TRUE])
                        \/ Moves("exec", "idle", NoLocal)
  BY <1>1 DEF StatementFails, Finish
<1>9. MarkBegin => Moves("exec", "marked", [local["exec"] EXCEPT !.compacted = snapshotManifest])
  BY <1>1 DEF MarkBegin
<1>10. MarkApplied => Moves("exec", "threshold", [local["exec"] EXCEPT !.compacted = 0])
  BY <1>1 DEF MarkApplied
<1>11. SkipSnapshot => Moves("exec", AfterSnapshot("exec"), local["exec"])
  BY <1>2 DEF SkipSnapshot
<1>12. MaybeSnapshot => Moves("exec", "readwal", [local["exec"] EXCEPT !.compacted = lastSequence,
                                                                       !.list = snapshotSql])
  BY <1>1 DEF MaybeSnapshot, Locals
<1>13. Reply => Moves("exec", "idle", NoLocal)
  BY DEF Reply, Finish
<1>14. Start => Moves("exec", "recover", [NoLocal EXCEPT !.op = "start"])
  BY DEF Start
<1> QED
  BY <1>3, <1>4, <1>5, <1>6, <1>7, <1>8, <1>9, <1>10, <1>11, <1>12, <1>13, <1>14

LEMMA RunMoves ==
  ASSUME ControlOK, RunStatement
  PROVE  \/ local["exec"].op = "write" /\ Moves("exec", "mark", local["exec"])
         \/ local["exec"].op = "read" /\ Moves("exec", "threshold", local["exec"])
         \/ local["exec"].op = "cli" /\ Moves("exec", "reply", local["exec"])
<1>1. local \in [Threads -> Locals] /\ pc \in [Threads -> Labels] /\ "exec" \in Threads
  BY DEF ControlOK, Threads
<1>2. [local EXCEPT !["exec"] = local["exec"]] = local
  BY <1>1
<1>3. local["exec"].op \in Requests
  BY DEF ControlOK, OpOK, OpAt, RunStatement
<1> QED
  BY <1>2, <1>3 DEF RunStatement, Goto, Moves, Requests

LEMMA ThreadMoves ==
  ASSUME ControlOK, NEW t \in Threads
  PROVE  LET l == local[t] IN
         /\ ResetAndReplay(t) =>
              Moves(t, IF t = "exec" /\ l.op # "start" THEN "run" ELSE "setseq",
                    [l EXCEPT !.list = <<>>, !.compacted = 0])
         /\ ReplayFails(t) => \/ /\ t = "exec" /\ l.op # "start"
                                 /\ Moves(t, "sync", [l EXCEPT !.retried = TRUE])
                              \/ Moves(t, "idle", NoLocal)
         /\ ReadWal(t) =>
              Moves(t, IF t = "snapshot" THEN "readlast" ELSE "writesql",
                    [l EXCEPT !.list = l.list \o SqlBetween(wal, 0, IF t = "snapshot" THEN NoBound
                                                                    ELSE l.compacted + 1)])
         /\ WriteSnapshotSql(t) => Moves(t, "manifest", l)
         /\ SaveManifest(t) => Moves(t, IF l.installing THEN "advance" ELSE "compact", l)
         /\ Compact(t) => Moves(t, "invalidate", l)
         /\ Invalidate(t) =>
              Moves(t, AfterSnapshot(t), IF t = "snapshot" THEN NoLocal
                                         ELSE [l EXCEPT !.installing = FALSE, !.list = <<>>,
                                                        !.compacted = 0])
         /\ AdvanceLastSequence(t) => Moves(t, "invalidate", l)
         /\ ApplyPendingWal(t) => Moves(t, IF t = "exec" THEN "threshold" ELSE "fullsync", l)
         /\ SyncEngineFull(t) => Moves(t, "replay", [l EXCEPT !.list = snapshotSql,
                                                              !.compacted = snapshotManifest])
         /\ SetServing(t) => Moves(t, "idle", NoLocal)
         /\ InstallPeerSnapshot(t) =>
              \E c \in snapshotManifest + 1 .. MaxSequence : \E sql \in PeerSnapshots(c) :
                 Moves(t, "writesql", [l EXCEPT !.list = sql, !.compacted = c, !.installing = TRUE])
<1> USE DEF Moves, Goto
<1>1. local \in [Threads -> Locals] /\ pc \in [Threads -> Labels]
  BY DEF ControlOK
<1>2. [local EXCEPT ![t] = local[t]] = local
  BY <1>1
<1>3. ResetAndReplay(t) => Moves(t, IF t = "exec" /\ local[t].op # "start" THEN "run" ELSE "setseq",
                                 [local[t] EXCEPT !.list = <<>>, !.compacted = 0])
  BY <1>1 DEF ResetAndReplay, Locals
<1>4. ReplayFails(t) => \/ /\ t = "exec" /\ local[t].op # "start"
                           /\ Moves(t, "sync", [local[t] EXCEPT !.retried = TRUE])
                        \/ Moves(t, "idle", NoLocal)
  BY <1>1 DEF ReplayFails, Finish
<1>5. ReadWal(t) => Moves(t, IF t = "snapshot" THEN "readlast" ELSE "writesql",
                          [local[t] EXCEPT !.list = local[t].list \o
                             SqlBetween(wal, 0, IF t = "snapshot" THEN NoBound ELSE local[t].compacted + 1)])
  BY <1>1 DEF ReadWal
<1>6. WriteSnapshotSql(t) => Moves(t, "manifest", local[t])
  BY <1>2 DEF WriteSnapshotSql
<1>7. SaveManifest(t) => Moves(t, IF local[t].installing THEN "advance" ELSE "compact", local[t])
  BY <1>2 DEF SaveManifest
<1>8. Compact(t) => Moves(t, "invalidate", local[t])
  BY <1>2 DEF Compact
<1>9. Invalidate(t) =>
        Moves(t, AfterSnapshot(t), IF t = "snapshot" THEN NoLocal
                                   ELSE [local[t] EXCEPT !.installing = FALSE, !.list = <<>>,
                                                         !.compacted = 0])
  BY <1>1 DEF Invalidate
<1>10. AdvanceLastSequence(t) => Moves(t, "invalidate", local[t])
  BY <1>2 DEF AdvanceLastSequence
<1>11. ApplyPendingWal(t) => Moves(t, IF t = "exec" THEN "threshold" ELSE "fullsync", local[t])
  BY <1>2 DEF ApplyPendingWal
<1>12. SyncEngineFull(t) => Moves(t, "replay", [local[t] EXCEPT !.list = snapshotSql,
                                                                !.compacted = snapshotManifest])
  BY <1>1 DEF SyncEngineFull, ReadSnapshotSql, Locals
<1>13. SetServing(t) => Moves(t, "idle", NoLocal)
  BY DEF SetServing, Finish
<1>14. ASSUME InstallPeerSnapshot(t)
       PROVE  \E c \in snapshotManifest + 1 .. MaxSequence : \E sql \in PeerSnapshots(c) :
                 Moves(t, "writesql", [local[t] EXCEPT !.list = sql, !.compacted = c, !.installing = TRUE])
  <2>1. PICK c \in snapshotManifest + 1 .. MaxSequence : \E sql \in PeerSnapshots(c) :
          local' = [local EXCEPT ![t].list = sql, ![t].compacted = c, ![t].installing = TRUE]
    BY <1>14 DEF InstallPeerSnapshot
  <2>2. PICK sql \in PeerSnapshots(c) :
          local' = [local EXCEPT ![t].list = sql, ![t].compacted = c, ![t].installing = TRUE]
    BY <2>1
  <2>3. local' = [local EXCEPT ![t] = [local[t] EXCEPT !.list = sql, !.compacted = c, !.installing = TRUE]]
    BY <1>1, <2>2 DEF Locals
  <2>4. pc' = [pc EXCEPT ![t] = "writesql"]
    BY <1>14 DEF InstallPeerSnapshot
  <2> QED BY <2>3, <2>4
<1> QED
  BY <1>3, <1>4, <1>5, <1>6, <1>7, <1>8, <1>9, <1>10, <1>11, <1>12, <1>13, <1>14

LEMMA AdminMoves ==
  ASSUME ControlOK
  PROVE  /\ AdminSnapshot => Moves("snapshot", "readwal", [local["snapshot"] EXCEPT !.list = snapshotSql])
         /\ AdminReadLast => Moves("snapshot", "writesql",
                                   [local["snapshot"] EXCEPT !.compacted = lastSequence])
         /\ RefreshShards => Moves("refresh", "recover", [NoLocal EXCEPT !.op = "refresh"])
<1>1. local \in [Threads -> Locals] /\ "snapshot" \in Threads
  BY DEF ControlOK, Threads
<1> QED
  BY <1>1 DEF AdminSnapshot, AdminReadLast, RefreshShards, Moves, Goto

(* Every step keeps the control of the node in order. *)
LEMMA ControlStep ==
  ASSUME NodeInv, [Next]_vars
  PROVE  ControlOK'
<1> USE DataNodeAssumption
<1>0. ControlOK
  BY DEF NodeInv, TypeOK, ControlOK
<1>t. /\ local \in [Threads -> Locals] /\ pc \in [Threads -> Labels]
      /\ lastSequence \in 0 .. MaxSequence /\ snapshotManifest \in 0 .. MaxSequence
      /\ snapshotSql \in Seq(RequestIds) /\ Ordered(wal, lastSequence)
      /\ replicaState \in {"DOWN", "RECOVERING", "SERVING"}
      /\ "exec" \in Threads /\ "snapshot" \in Threads /\ "refresh" \in Threads
  BY DEF NodeInv, TypeOK, Threads
<1>l. \A t \in Threads : local[t] \in Locals
  BY <1>t
<1>o. OpAt(pc["exec"], local["exec"])
  BY <1>0 DEF ControlOK, OpOK
<1>1. CASE UNCHANGED <<pc, local, replicaState>>
  BY <1>0, <1>1 DEF ControlOK, OpOK, OpAt, StartOK
(* Requests *)
<1>2. ASSUME NEW l \in Locals, Moves("exec", "sync", l), l.op \in Requests, ~l.installing,
             l.op = "write" => l.sql \in RequestIds, MayBegin("exec"), UNCHANGED replicaState
      PROVE  ControlOK'
  <2>1. "sync" \in Labels /\ OpAt("sync", l) /\ l.op # "start" /\ replicaState' # "DOWN"
    BY <1>2 DEF Labels, OpAt, Requests, MayBegin, HttpUp
  <2> QED BY <1>0, <1>t, <1>2, <2>1, MoveKeeps
<1>3. ASSUME NEW id \in RequestIds, Write(id) \/ Replay(id) PROVE ControlOK'
  <2>1. PICK w \in {wal[i].sequence : i \in Find(id)} \cup {lastSequence + 1} :
          Moves("exec", "sync", [NoLocal EXCEPT !.op = "write", !.sql = id, !.written = w])
    BY <1>0, <1>3, ExecMoves
  <2>2. w \in 0 .. MaxSequence
    <3>1. \A i \in Find(id) : wal[i].sequence \in 0 .. MaxSequence
      <4>1. DOMAIN wal = 1 .. Len(wal)
        BY <1>t, LenProperties DEF Ordered
      <4> QED BY <1>t, <4>1 DEF Ordered, Find
    <3>2. LogRequest(id, "exec", "write", "sync") /\ MayBegin("exec") /\ pc["exec"] = "idle"
      BY <1>3 DEF Write, Replay, MayBegin
    <3>3. CASE Find(id) = {}
      BY <1>t, <2>1, <3>2, <3>3 DEF LogRequest
    <3>4. CASE Find(id) # {}
      <4>1. PICK i \in Find(id) : local' = [local EXCEPT !["exec"] =
              [NoLocal EXCEPT !.op = "write", !.sql = id, !.written = wal[i].sequence]]
        BY <3>2, <3>4 DEF LogRequest
      <4>2. local'["exec"] = [NoLocal EXCEPT !.op = "write", !.sql = id, !.written = w]
        BY <1>t, <2>1 DEF Moves
      <4>3. local'["exec"] = [NoLocal EXCEPT !.op = "write", !.sql = id, !.written = wal[i].sequence]
        BY <1>t, <4>1
      <4>a. local'["exec"].written = w
        BY <4>2 DEF NoLocal
      <4>b. local'["exec"].written = wal[i].sequence
        BY <4>3 DEF NoLocal
      <4>4. w = wal[i].sequence
        BY <4>a, <4>b
      <4> QED BY <3>1, <4>4
    <3> QED BY <3>3, <3>4
  <2> DEFINE l == [NoLocal EXCEPT !.op = "write", !.sql = id, !.written = w]
  <2>3. l \in Locals /\ l.op \in Requests /\ ~l.installing /\ l.sql \in RequestIds
    BY <2>2, NoLocalType DEF NoLocal, Locals, Statements, Requests
  <2>4. MayBegin("exec") /\ UNCHANGED replicaState
    BY <1>3 DEF Write, Replay
  <2> HIDE DEF l
  <2> QED BY <1>2, <2>1, <2>3, <2>4 DEF l
<1>4. CASE Read
  <2> DEFINE l == [NoLocal EXCEPT !.op = "read", !.written = lastSequence]
  <2>1. l \in Locals /\ l.op \in Requests /\ ~l.installing /\ l.op # "write"
    BY <1>t, NoLocalType DEF NoLocal, Locals, Requests
  <2>2. Moves("exec", "sync", l)
    BY <1>0, <1>4, ExecMoves
  <2>3. MayBegin("exec") /\ UNCHANGED replicaState
    BY <1>4 DEF Read
  <2> HIDE DEF l
  <2> QED BY <1>2, <2>1, <2>2, <2>3
<1>5. CASE Cli
  <2> DEFINE l == [NoLocal EXCEPT !.op = "cli", !.written = lastSequence]
  <2>1. l \in Locals /\ l.op \in Requests /\ ~l.installing /\ l.op # "write"
    BY <1>t, NoLocalType DEF NoLocal, Locals, Requests
  <2>2. Moves("exec", "sync", l)
    BY <1>0, <1>5, ExecMoves
  <2>3. MayBegin("exec") /\ UNCHANGED replicaState
    BY <1>5 DEF Cli
  <2> HIDE DEF l
  <2> QED BY <1>2, <2>1, <2>2, <2>3
(* Steps of a thread that has begun and goes on with the same purpose *)
<1>6. ASSUME NEW t \in Threads, pc[t] # "idle", NEW label \in Labels, NEW l \in Locals,
             Moves(t, label, l), l.op = local[t].op, t = "exec" => OpAt(label, l),
             replicaState' \in {replicaState, "SERVING"}
      PROVE  ControlOK'
  <2>1. /\ t # "exec" => l.op # "start" /\ local["exec"].op # "start"
        /\ replicaState # "DOWN"
    BY <1>0, <1>6, BusyThread
  <2>2. replicaState' # "DOWN" /\ replicaState' \in {"DOWN", "RECOVERING", "SERVING"}
    BY <1>t, <1>6, <2>1
  <2> QED BY <1>0, <1>6, <2>1, <2>2, MoveKeeps
(* Steps that end a handler *)
<1>7. ASSUME NEW t \in Threads, pc[t] # "idle", Moves(t, "idle", NoLocal),
             replicaState' \in {"DOWN", "RECOVERING", "SERVING"},
             replicaState' = "DOWN" => local[t].op = "start"
      PROVE  ControlOK'
  <2>1. /\ "idle" \in Labels /\ OpAt("idle", NoLocal) /\ NoLocal.op # "start"
        /\ t # "exec" => local[t].op # "start"
    BY <1>0, <1>7, BusyThread DEF Labels, OpAt, NoLocal
  <2> QED BY <1>0, <1>7, <2>1, NoLocalType, MoveKeeps
<1>8. CASE ExecStep
  <2>0. pc["exec"] # "idle" /\ UNCHANGED replicaState
    BY <1>8 DEF ExecStep, FullSyncBegin, ReadSnapshotSql, CatchUp, RunStatement, StatementFails,
                MarkBegin, MarkApplied, SkipSnapshot, MaybeSnapshot, Reply
  <2>a. ASSUME NEW label \in Labels, NEW l \in Locals, Moves("exec", label, l),
               l.op = local["exec"].op, OpAt(label, l)
        PROVE  ControlOK'
    BY <1>6, <1>t, <2>0, <2>a
  <2>b. local["exec"] \in Locals
    BY <1>l, <1>t
  <2>1. CASE FullSyncBegin
    <3> DEFINE l == [local["exec"] EXCEPT !.list = snapshotSql, !.compacted = snapshotManifest]
    <3>1. l \in Locals /\ l.op = local["exec"].op /\ l.installing = local["exec"].installing
          /\ l.sql = local["exec"].sql
      BY <1>t, <2>b DEF Locals
    <3>2. "replay" \in Labels /\ OpAt("replay", l)
      BY <1>o, <2>1, <3>1 DEF Labels, OpAt, FullSyncBegin
    <3>3. Moves("exec", "replay", l)
      BY <1>0, <2>1, ExecMoves
    <3> HIDE DEF l
    <3> QED BY <2>a, <3>1, <3>2, <3>3
  <2>2. CASE CatchUp
    <3>1. "run" \in Labels /\ OpAt("run", local["exec"]) /\ Moves("exec", "run", local["exec"])
      BY <1>0, <1>o, <2>2, ExecMoves DEF Labels, OpAt, CatchUp
    <3> QED BY <2>a, <2>b, <3>1
  <2>3. CASE RunStatement
    <3>1. \E label \in {"mark", "threshold", "reply"} : Moves("exec", label, local["exec"])
      BY <1>0, <2>3, RunMoves
    <3>2. \A label \in {"mark", "threshold", "reply"} : label \in Labels /\ OpAt(label, local["exec"])
      BY <1>o DEF Labels, OpAt
    <3> QED BY <2>a, <2>b, <3>1, <3>2
  <2>4. CASE StatementFails
    <3> DEFINE l == [local["exec"] EXCEPT !.retried = TRUE]
    <3>1. l \in Locals /\ l.op = local["exec"].op /\ l.installing = local["exec"].installing
          /\ l.sql = local["exec"].sql
      BY <2>b DEF Locals
    <3>2. "sync" \in Labels /\ OpAt("sync", l)
      BY <1>o, <2>4, <3>1 DEF Labels, OpAt, StatementFails
    <3>3. Moves("exec", "sync", l) \/ Moves("exec", "idle", NoLocal)
      BY <1>0, <2>4, ExecMoves
    <3>4. replicaState' # "DOWN"
      BY <1>0, <1>t, <2>0, BusyThread
    <3> HIDE DEF l
    <3> QED BY <1>7, <1>t, <2>0, <2>a, <3>1, <3>2, <3>3, <3>4
  <2>5. CASE MarkBegin
    <3> DEFINE l == [local["exec"] EXCEPT !.compacted = snapshotManifest]
    <3>1. l \in Locals /\ l.op = local["exec"].op /\ l.installing = local["exec"].installing
          /\ l.sql = local["exec"].sql
      BY <1>t, <2>b DEF Locals
    <3>2. "marked" \in Labels /\ OpAt("marked", l)
      BY <1>o, <3>1 DEF Labels, OpAt
    <3>3. Moves("exec", "marked", l)
      BY <1>0, <2>5, ExecMoves
    <3> HIDE DEF l
    <3> QED BY <2>a, <3>1, <3>2, <3>3
  <2>6. CASE MarkApplied
    <3> DEFINE l == [local["exec"] EXCEPT !.compacted = 0]
    <3>1. l \in Locals /\ l.op = local["exec"].op /\ l.installing = local["exec"].installing
          /\ l.sql = local["exec"].sql
      BY <2>b DEF Locals
    <3>2. "threshold" \in Labels /\ OpAt("threshold", l)
      BY <1>o, <3>1 DEF Labels, OpAt
    <3>3. Moves("exec", "threshold", l)
      BY <1>0, <2>6, ExecMoves
    <3> HIDE DEF l
    <3> QED BY <2>a, <3>1, <3>2, <3>3
  <2>7. CASE SkipSnapshot
    <3>1. AfterSnapshot("exec") \in Labels /\ OpAt(AfterSnapshot("exec"), local["exec"])
      BY <1>o DEF AfterSnapshot, Labels, OpAt
    <3>2. Moves("exec", AfterSnapshot("exec"), local["exec"])
      BY <1>0, <2>7, ExecMoves
    <3> QED BY <2>a, <2>b, <3>1, <3>2
  <2>8. CASE MaybeSnapshot
    <3> DEFINE l == [local["exec"] EXCEPT !.compacted = lastSequence, !.list = snapshotSql]
    <3>1. l \in Locals /\ l.op = local["exec"].op /\ l.installing = local["exec"].installing
          /\ l.sql = local["exec"].sql
      BY <1>t, <2>b DEF Locals
    <3>2. "readwal" \in Labels /\ OpAt("readwal", l)
      BY <1>o, <3>1 DEF Labels, OpAt
    <3>3. Moves("exec", "readwal", l)
      BY <1>0, <2>8, ExecMoves
    <3> HIDE DEF l
    <3> QED BY <2>a, <3>1, <3>2, <3>3
  <2>9. CASE Reply
    <3>1. replicaState' # "DOWN"
      BY <1>0, <1>t, <2>0, BusyThread
    <3> QED BY <1>0, <1>7, <1>t, <2>0, <2>9, <3>1, ExecMoves
  <2> QED BY <1>8, <2>1, <2>2, <2>3, <2>4, <2>5, <2>6, <2>7, <2>8, <2>9 DEF ExecStep
<1>9. CASE AdminSnapshot \/ AdminReadLast
  <2>1. PICK label \in {"readwal", "writesql"}, l \in Locals :
          Moves("snapshot", label, l) /\ l.op = local["snapshot"].op
    <3>1. local["snapshot"] \in Locals
      BY <1>l, <1>t
    <3>2. ASSUME NEW l, \/ l = [local["snapshot"] EXCEPT !.list = snapshotSql]
                        \/ l = [local["snapshot"] EXCEPT !.compacted = lastSequence]
          PROVE  l \in Locals /\ l.op = local["snapshot"].op
      BY <1>t, <3>1, <3>2 DEF Locals
    <3> QED BY <1>0, <1>9, <3>2, AdminMoves
  <2>2. local["exec"].op # "start" /\ UNCHANGED replicaState /\ replicaState # "DOWN"
    BY <1>0, <1>9, <1>t, BusyThread DEF AdminSnapshot, AdminReadLast, MayBegin, HttpUp
  <2>3. label \in Labels /\ local["snapshot"].op # "start"
    BY <1>0 DEF Labels, ControlOK, StartOK
  <2> QED BY <1>0, <1>t, <2>1, <2>2, <2>3, MoveKeeps
<1>10. CASE RefreshShards
  <2> DEFINE l == [NoLocal EXCEPT !.op = "refresh"]
  <2>1. l \in Locals /\ l.op = "refresh"
    BY NoLocalType DEF Locals, NoLocal
  <2>2. local["exec"].op # "start" /\ replicaState' = "RECOVERING" /\ "recover" \in Labels
    BY <1>10 DEF RefreshShards, MayBegin, HttpUp, Labels
  <2>3. Moves("refresh", "recover", l)
    BY <1>0, <1>10, AdminMoves
  <2> HIDE DEF l
  <2> QED BY <1>0, <1>t, <2>1, <2>2, <2>3, MoveKeeps
<1>11. CASE Start
  <2> DEFINE l == [NoLocal EXCEPT !.op = "start"]
  <2>1. l \in Locals /\ OpAt("recover", l) /\ "recover" \in Labels
    BY NoLocalType DEF Locals, NoLocal, OpAt, Labels
  <2>2. replicaState = "DOWN" /\ replicaState' = "RECOVERING"
    BY <1>11 DEF Start
  <2>3. Moves("exec", "recover", l)
    BY <1>0, <1>11, ExecMoves
  <2> HIDE DEF l
  <2> QED BY <1>0, <1>t, <2>1, <2>2, <2>3, MoveKeeps
<1>12. CASE Crash
  <2>1. pc' = [t \in Threads |-> "idle"] /\ local' = [t \in Threads |-> NoLocal] /\ replicaState' = "DOWN"
    BY <1>12 DEF Crash
  <2>2. pc' \in [Threads -> Labels] /\ local' \in [Threads -> Locals]
    BY <2>1, NoLocalType DEF Labels
  <2>3. \A t \in Threads : pc'[t] = "idle" /\ local'[t] = NoLocal
    BY <2>1
  <2> QED BY <1>t, <2>1, <2>2, <2>3 DEF ControlOK, OpOK, OpAt, StartOK, NoLocal
<1>13. ASSUME NEW t \in Threads, ThreadStep(t) PROVE ControlOK'
  <2>0. pc[t] # "idle" /\ local[t] \in Locals
    BY <1>13, <1>l DEF ThreadStep, ResetAndReplay, ReplayFails, ReadWal, WriteSnapshotSql, SaveManifest,
              Compact, Invalidate, RecoverEntry, InstallPeerSnapshot, AdvanceLastSequence,
              ApplyPendingWal, SyncEngineFull, SetServing
  <2>e. <<>> \in Seq(RequestIds) /\ 0 \in 0 .. MaxSequence
    OBVIOUS
  <2>n. replicaState # "DOWN"
    BY <1>0, <2>0, BusyThread
  <2>o. t = "exec" => OpAt(pc[t], local[t])
    BY <1>o
  <2>a. ASSUME NEW label \in Labels, NEW l \in Locals, Moves(t, label, l),
               l.op = local[t].op, t = "exec" => OpAt(label, l), UNCHANGED replicaState
        PROVE  ControlOK'
    BY <1>6, <2>0, <2>a
  <2>1. CASE ResetAndReplay(t)
    <3> DEFINE l == [local[t] EXCEPT !.list = <<>>, !.compacted = 0]
               label == IF t = "exec" /\ local[t].op # "start" THEN "run" ELSE "setseq"
    <3>1. l \in Locals /\ l.op = local[t].op /\ l.installing = local[t].installing /\ l.sql = local[t].sql
      BY <2>0, <2>e DEF Locals
    <3>2. label \in Labels /\ (t = "exec" => OpAt(label, l))
      BY <2>o, <2>1, <3>1 DEF Labels, OpAt, ResetAndReplay
    <3>3. Moves(t, label, l) /\ UNCHANGED replicaState
      BY <1>0, <2>1, ThreadMoves DEF ResetAndReplay
    <3> HIDE DEF l, label
    <3> QED BY <2>a, <3>1, <3>2, <3>3
  <2>2. CASE ReplayFails(t)
    <3> DEFINE l == [local[t] EXCEPT !.retried = TRUE]
    <3>1. l \in Locals /\ l.op = local[t].op /\ l.installing = local[t].installing /\ l.sql = local[t].sql
      BY <2>0 DEF Locals
    <3>2. \/ t = "exec" /\ local[t].op # "start" /\ Moves(t, "sync", l)
          \/ Moves(t, "idle", NoLocal)
      BY <1>0, <2>2, ThreadMoves
    <3>3. /\ replicaState' = IF local[t].op = "start" THEN "DOWN" ELSE replicaState
          /\ pc[t] = "replay"
      BY <2>2 DEF ReplayFails
    <3>4. CASE t = "exec" /\ local[t].op # "start" /\ Moves(t, "sync", l)
      <4>1. "sync" \in Labels /\ OpAt("sync", l)
        BY <2>o, <3>1, <3>3, <3>4 DEF Labels, OpAt
      <4> HIDE DEF l
      <4> QED BY <2>a, <3>1, <3>3, <3>4, <4>1
    <3>5. CASE Moves(t, "idle", NoLocal)
      BY <1>7, <1>t, <2>0, <2>n, <3>3, <3>5
    <3> QED BY <3>2, <3>4, <3>5
  <2>3. CASE ReadWal(t)
    <3> DEFINE to == IF t = "snapshot" THEN NoBound ELSE local[t].compacted + 1
               l == [local[t] EXCEPT !.list = local[t].list \o SqlBetween(wal, 0, to)]
               label == IF t = "snapshot" THEN "readlast" ELSE "writesql"
    <3>1. to \in Nat
      BY <2>0 DEF Locals, NoBound
    <3>2. local[t].list \o SqlBetween(wal, 0, to) \in Seq(RequestIds)
      <4>1. SqlBetween(wal, 0, to) \in Seq(RequestIds)
        <5> HIDE DEF to
        <5>1. lastSequence \in Nat /\ 0 \in Nat
          BY <1>t
        <5> QED BY <1>t, <3>1, <5>1, SqlBetweenType
      <4>2. local[t].list \in Seq(RequestIds)
        BY <2>0 DEF Locals
      <4> QED BY <4>1, <4>2, ConcatType
    <3>3. Moves(t, label, l) /\ UNCHANGED replicaState
      BY <1>0, <2>3, ThreadMoves DEF ReadWal
    <3>4. l \in Locals /\ l.op = local[t].op /\ l.installing = local[t].installing /\ l.sql = local[t].sql
      BY <2>0, <3>2 DEF Locals
    <3> HIDE DEF l
    <3>5. label \in Labels /\ (t = "exec" => OpAt(label, l))
      BY <2>o, <3>4 DEF Labels, OpAt
    <3> HIDE DEF label
    <3> QED BY <2>a, <3>3, <3>4, <3>5
  <2>4. CASE WriteSnapshotSql(t) \/ SaveManifest(t) \/ Compact(t) \/ AdvanceLastSequence(t)
    <3>1. \E label \in {"manifest", "advance", "compact", "invalidate"} : Moves(t, label, local[t])
      BY <1>0, <2>4, ThreadMoves
    <3>2. \A label \in {"manifest", "advance", "compact", "invalidate"} :
            label \in Labels /\ (t = "exec" => OpAt(label, local[t]))
      BY <2>o DEF Labels, OpAt
    <3>3. UNCHANGED replicaState
      BY <2>4 DEF WriteSnapshotSql, SaveManifest, Compact, AdvanceLastSequence
    <3> QED BY <2>0, <2>a, <3>1, <3>2, <3>3
  <2>5. CASE Invalidate(t)
    <3>1. CASE t = "snapshot"
      <4>1. AfterSnapshot(t) = "idle" /\ UNCHANGED replicaState
        BY <2>5, <3>1 DEF AfterSnapshot, Invalidate
      <4> QED BY <1>0, <1>7, <1>t, <2>0, <2>5, <2>n, <3>1, <4>1, ThreadMoves
    <3>2. CASE t # "snapshot"
      <4> DEFINE l == [local[t] EXCEPT !.installing = FALSE, !.list = <<>>, !.compacted = 0]
      <4>1. l \in Locals /\ l.op = local[t].op /\ l.sql = local[t].sql /\ ~l.installing
        BY <2>0, <2>e DEF Locals
      <4>2. Moves(t, AfterSnapshot(t), l) /\ UNCHANGED replicaState
        BY <1>0, <2>5, <3>2, ThreadMoves DEF Invalidate
      <4> HIDE DEF l
      <4>3. AfterSnapshot(t) \in Labels /\ (t = "exec" => OpAt(AfterSnapshot(t), l))
        BY <2>o, <3>2, <4>1 DEF AfterSnapshot, Labels, OpAt
      <4> QED BY <2>a, <4>1, <4>2, <4>3
    <3> QED BY <3>1, <3>2
  <2>6. ASSUME NEW id \in RequestIds, RecoverEntry(t, id) PROVE ControlOK'
    BY <1>1, <2>6 DEF RecoverEntry
  <2>7. CASE InstallPeerSnapshot(t)
    <3>1. PICK c \in snapshotManifest + 1 .. MaxSequence, sql \in Seq(RequestIds) :
            Moves(t, "writesql", [local[t] EXCEPT !.list = sql, !.compacted = c, !.installing = TRUE])
      BY <1>0, <2>7, ThreadMoves, PeerSnapshotType
    <3> DEFINE l == [local[t] EXCEPT !.list = sql, !.compacted = c, !.installing = TRUE]
    <3>2. l \in Locals /\ l.op = local[t].op /\ l.sql = local[t].sql
      <4>1. c \in 0 .. MaxSequence
        BY <1>t
      <4> QED BY <2>0, <4>1 DEF Locals
    <3>3. pc[t] = "recover" /\ UNCHANGED replicaState
      BY <2>7 DEF InstallPeerSnapshot
    <3> HIDE DEF l
    <3>4. "writesql" \in Labels /\ (t = "exec" => OpAt("writesql", l))
      BY <2>o, <3>2, <3>3 DEF Labels, OpAt
    <3> QED BY <2>a, <3>1, <3>2, <3>3, <3>4 DEF l
  <2>8. CASE ApplyPendingWal(t)
    <3> DEFINE label == IF t = "exec" THEN "threshold" ELSE "fullsync"
    <3>1. Moves(t, label, local[t]) /\ UNCHANGED replicaState
      BY <1>0, <2>8, ThreadMoves DEF ApplyPendingWal
    <3>2. label \in Labels /\ (t = "exec" => OpAt(label, local[t]))
      BY <2>o DEF Labels, OpAt
    <3> HIDE DEF label
    <3> QED BY <2>0, <2>a, <3>1, <3>2
  <2>9. CASE SyncEngineFull(t)
    <3> DEFINE l == [local[t] EXCEPT !.list = snapshotSql, !.compacted = snapshotManifest]
    <3>1. l \in Locals /\ l.op = local[t].op /\ l.installing = local[t].installing /\ l.sql = local[t].sql
      BY <1>t, <2>0 DEF Locals
    <3>2. pc[t] = "fullsync" /\ UNCHANGED replicaState
      BY <2>9 DEF SyncEngineFull, ReadSnapshotSql
    <3>3. Moves(t, "replay", l)
      BY <1>0, <2>9, ThreadMoves
    <3> HIDE DEF l
    <3>4. "replay" \in Labels /\ (t = "exec" => OpAt("replay", l))
      BY <2>o, <3>1, <3>2 DEF Labels, OpAt
    <3> QED BY <2>a, <3>1, <3>2, <3>3, <3>4
  <2>10. CASE SetServing(t)
    <3>1. Moves(t, "idle", NoLocal) /\ replicaState' = "SERVING"
      BY <1>0, <2>10, ThreadMoves DEF SetServing
    <3> QED BY <1>7, <2>0, <3>1
  <2> QED BY <1>13, <2>1, <2>2, <2>3, <2>4, <2>5, <2>6, <2>7, <2>8, <2>9, <2>10 DEF ThreadStep
<1>14. ASSUME NEW id \in RequestIds, ReplayDuplicate(id) PROVE ControlOK'
  BY <1>1, <1>14 DEF ReplayDuplicate
<1>15. CASE EngineDies
  BY <1>1, <1>15 DEF EngineDies
<1>16. CASE UNCHANGED vars
  BY <1>1, <1>16 DEF vars
<1> QED
  BY <1>3, <1>4, <1>5, <1>8, <1>9, <1>10, <1>11, <1>12, <1>13, <1>14, <1>15, <1>16
  DEF Next, Step, Request, Progress

(* The steps that answer. *)
LEMMA AckedChanges ==
  ASSUME [Next]_vars
  PROVE  \/ UNCHANGED acked
         \/ Reply
         \/ \E id \in RequestIds : ReplayDuplicate(id)
<1>1. ASSUME NEW id \in RequestIds, Write(id) \/ Replay(id) PROVE UNCHANGED acked
  BY <1>1 DEF Write, Replay
<1>2. ASSUME Read \/ Cli \/ AdminSnapshot \/ RefreshShards \/ Start \/ EngineDies \/ Crash
      PROVE  UNCHANGED acked
  BY <1>2 DEF Read, Cli, AdminSnapshot, RefreshShards, Start, EngineDies, Crash
<1>3. ASSUME ExecStep \/ AdminReadLast PROVE UNCHANGED acked \/ Reply
  BY <1>3 DEF ExecStep, AdminReadLast, FullSyncBegin, ReadSnapshotSql, CatchUp, RunStatement,
              StatementFails, MarkBegin, MarkApplied, SkipSnapshot, MaybeSnapshot
<1>4. ASSUME NEW t \in Threads, ThreadStep(t) PROVE UNCHANGED acked
  <2>1. ASSUME NEW id \in RequestIds, RecoverEntry(t, id) PROVE UNCHANGED acked
    BY <2>1 DEF RecoverEntry
  <2> QED
    BY <1>4, <2>1 DEF ThreadStep, ResetAndReplay, ReplayFails, ReadWal, WriteSnapshotSql,
              SaveManifest, Compact, Invalidate, InstallPeerSnapshot, AdvanceLastSequence,
              ApplyPendingWal, SyncEngineFull, ReadSnapshotSql, SetServing
<1>5. CASE UNCHANGED vars
  BY <1>5 DEF vars
<1> QED
  BY <1>1, <1>2, <1>3, <1>4, <1>5 DEF Next, Step, Request, Progress

LEMMA NodeInit == ASSUME Init PROVE NodeInv
<1> USE DataNodeAssumption
<1>1. pc \in [Threads -> Labels] /\ local \in [Threads -> Locals]
  BY NoLocalType DEF Init, Labels
<1>2. \A t \in Threads : pc[t] = "idle" /\ local[t] = NoLocal
  BY DEF Init
<1>3. "exec" \in Threads /\ "snapshot" \in Threads /\ "refresh" \in Threads
  BY DEF Threads
<1>4. OpOK /\ StartOK
  BY <1>2, <1>3 DEF OpOK, OpAt, StartOK, NoLocal
<1>5. /\ wal \in Seq(WalEntry) /\ snapshotSql \in Seq(RequestIds) /\ Len(wal) = 0
      /\ engine.db \in Seq(Statements) /\ engine.where \in Seq(Databases)
  BY EmptySeq DEF Init, NoEngine
<1>6. Ordered(wal, lastSequence)
  BY <1>5 DEF Init, Ordered
<1>7. engine \in Engines
  BY <1>5 DEF Init, NoEngine, Engines, Databases
<1> QED
  BY <1>1, <1>4, <1>5, <1>6, <1>7 DEF NodeInv, TypeOK, Init, Engines

LEMMA NodeStep == ASSUME NodeInv, [Next]_vars PROVE NodeInv'
<1>1. acked' \subseteq RequestIds
  <2>1. acked \subseteq RequestIds /\ OpAt(pc["exec"], local["exec"])
    BY DEF NodeInv, TypeOK, OpOK
  <2>2. CASE Reply
    BY <2>1, <2>2 DEF Reply, OpAt
  <2>3. ASSUME NEW id \in RequestIds, ReplayDuplicate(id) PROVE acked' \subseteq RequestIds
    BY <2>1, <2>3 DEF ReplayDuplicate
  <2> QED BY <2>1, <2>2, <2>3, AckedChanges
<1>2. faults' \in FaultSets
  BY DEF NodeInv, TypeOK, Next, vars
<1>3. TypeOK'
  BY <1>1, <1>2, LogStep, SnapStep, EngineStep, ControlStep DEF TypeOK, Engines, ControlOK
<1> QED
  BY <1>3, LogStep, ControlStep DEF NodeInv, ControlOK

(* NodeInv holds in every state of the node, whatever the faults. *)
THEOREM NodeInvariance == Spec => []NodeInv
BY NodeInit, NodeStep, PTL DEF Spec

-----------------------------------------------------------------------------
(* The log and the compaction point                                        *)

LEMMA ReachedKept ==
  ASSUME lastSequence \in Nat, lastSequence' \in Nat, lastSequence <= lastSequence',
         \A t \in Threads : local[t].compacted \in Nat,
         \A t \in Threads : pc[t] = "advance" =>
            \/ pc'[t] = "advance" /\ local'[t] = local[t]
            \/ local[t].compacted <= lastSequence',
         NEW s \in Nat, Reached(s)
  PROVE  s <= lastSequence' \/ \E t \in Threads : pc'[t] = "advance" /\ s <= local'[t].compacted
<1>1. CASE s <= lastSequence
  BY <1>1
<1>2. ASSUME NEW t \in Threads, pc[t] = "advance", s <= local[t].compacted
      PROVE  s <= lastSequence' \/ \E u \in Threads : pc'[u] = "advance" /\ s <= local'[u].compacted
  <2>1. CASE local[t].compacted <= lastSequence'
    BY <1>2, <2>1
  <2>2. CASE pc'[t] = "advance" /\ local'[t] = local[t]
    BY <1>2, <2>2
  <2> QED BY <1>2, <2>1, <2>2
<1> QED
  BY <1>1, <1>2 DEF Reached

(* s is reached after thread t has gone to label with l. *)
ReachedBy(s, label, l) ==
  Reached(s) \/ (label = "advance" /\ s <= l.compacted) \/ s <= lastSequence'

LEMMA AheadMove ==
  ASSUME NodeInv, NodeInv', AheadInv, lastSequence <= lastSequence', UNCHANGED faults,
         NEW t \in Threads, NEW label \in Labels, NEW l \in Locals, Moves(t, label, l),
         pc[t] = "advance" => local[t].compacted <= lastSequence',
         "peer" \notin faults => ~l.installing /\ label # "advance",
         ~({"kill", "peer"} \subseteq faults) =>
           /\ ReachedBy(manifestFile', label, l) /\ ReachedBy(snapshotManifest', label, l)
           /\ ReachedBy(l.compacted, label, l) \/ (l.installing /\ label \in {"writesql", "manifest"})
  PROVE  AheadInv'
<1>0. /\ local \in [Threads -> Locals] /\ pc \in [Threads -> Labels]
      /\ lastSequence \in Nat /\ lastSequence' \in Nat
      /\ manifestFile' \in Nat /\ snapshotManifest' \in Nat
  BY DataNodeAssumption DEF NodeInv, TypeOK
<1>1. pc'[t] = label /\ local'[t] = l /\ \A u \in Threads : u # t => pc'[u] = pc[u] /\ local'[u] = local[u]
  BY <1>0 DEF Moves
<1>2. /\ \A u \in Threads : local[u].compacted \in Nat
      /\ l.compacted \in Nat
  BY <1>0, DataNodeAssumption DEF Locals
<1>3. ASSUME NEW s \in Nat, Reached(s)
      PROVE  s <= lastSequence' \/ \E u \in Threads : pc'[u] = "advance" /\ s <= local'[u].compacted
  <2>1. \A u \in Threads : pc[u] = "advance" =>
            \/ pc'[u] = "advance" /\ local'[u] = local[u]
            \/ local[u].compacted <= lastSequence'
    BY <1>1
  <2> QED BY <1>0, <1>2, <1>3, <2>1, ReachedKept
<1>4. ASSUME NEW s \in Nat, ReachedBy(s, label, l)
      PROVE  s <= lastSequence' \/ \E u \in Threads : pc'[u] = "advance" /\ s <= local'[u].compacted
  BY <1>1, <1>3, <1>4 DEF ReachedBy
<1>5. faults' = faults
  OBVIOUS
<1>6. "peer" \notin faults' => \A u \in Threads : ~local'[u].installing /\ pc'[u] # "advance"
  BY <1>1, <1>5 DEF AheadInv
<1>7. ASSUME ~({"kill", "peer"} \subseteq faults)
      PROVE  /\ Reached(manifestFile)' /\ Reached(snapshotManifest)'
             /\ \A u \in Threads : \/ Reached(local[u].compacted)'
                                   \/ local'[u].installing /\ pc'[u] \in {"writesql", "manifest"}
  <2>1. Reached(manifestFile)' /\ Reached(snapshotManifest)'
    BY <1>0, <1>4, <1>7 DEF Reached
  <2>2. ASSUME NEW u \in Threads
        PROVE  \/ Reached(local[u].compacted)'
               \/ local'[u].installing /\ pc'[u] \in {"writesql", "manifest"}
    <3>1. CASE u = t
      BY <1>1, <1>2, <1>4, <1>7, <3>1 DEF Reached
    <3>2. CASE u # t
      <4>1. local'[u] = local[u] /\ pc'[u] = pc[u]
        BY <1>1, <3>2
      <4>2. \/ Reached(local[u].compacted)
            \/ local[u].installing /\ pc[u] \in {"writesql", "manifest"}
        BY <1>7 DEF AheadInv
      <4>3. CASE Reached(local[u].compacted)
        BY <1>2, <1>3, <4>1, <4>3 DEF Reached
      <4> QED BY <4>1, <4>2, <4>3
    <3> QED BY <3>1, <3>2
  <2> QED BY <2>1, <2>2
<1> QED
  BY <1>5, <1>6, <1>7 DEF AheadInv

LEMMA AheadStep ==
  ASSUME NodeInv, AheadInv, [Next]_vars
  PROVE  AheadInv'
<1> USE DataNodeAssumption
<1>0. /\ local \in [Threads -> Locals] /\ pc \in [Threads -> Labels]
      /\ lastSequence \in Nat /\ lastSequence' \in Nat /\ lastSequence <= lastSequence'
      /\ manifestFile \in Nat /\ snapshotManifest \in Nat
      /\ UNCHANGED faults /\ NodeInv' /\ ControlOK
      /\ "exec" \in Threads /\ "snapshot" \in Threads /\ "refresh" \in Threads
  <2>1. UNCHANGED faults
    BY DEF Next, vars
  <2>2. lastSequence' \in Nat /\ lastSequence <= lastSequence' /\ NodeInv'
    BY NodeStep, LogStep
  <2>3. ControlOK
    BY DEF NodeInv, TypeOK, ControlOK
  <2> QED BY <2>1, <2>2, <2>3 DEF NodeInv, TypeOK, Threads
<1>l. \A t \in Threads : local[t] \in Locals
  BY <1>0
<1>n. local' \in [Threads -> Locals] /\ pc' \in [Threads -> Labels]
  BY <1>0 DEF NodeInv, TypeOK
<1>f. ~({"kill", "peer"} \subseteq faults) => Reached(manifestFile) /\ Reached(snapshotManifest)
  BY DEF AheadInv
(* The form in which the moves below use AheadMove *)
<1>m. ASSUME NEW t \in Threads, NEW label, NEW l, Moves(t, label, l),
             pc[t] = "advance" => local[t].compacted <= lastSequence',
             "peer" \notin faults => ~l.installing /\ label # "advance",
             ~({"kill", "peer"} \subseteq faults) =>
               /\ ReachedBy(manifestFile', label, l) /\ ReachedBy(snapshotManifest', label, l)
               /\ ReachedBy(l.compacted, label, l) \/ (l.installing /\ label \in {"writesql", "manifest"})
      PROVE  AheadInv'
  <2>1. label \in Labels /\ l \in Locals
    <3>1. pc'[t] = label /\ local'[t] = l
      BY <1>0, <1>m DEF Moves
    <3> QED BY <1>n, <3>1
  <2> QED BY <1>0, <1>m, <2>1, AheadMove
(* Moves of a handler that leave the manifests alone and forget or keep the
   compaction point *)
<1>k. ASSUME NEW t \in Threads, NEW label, NEW l, Moves(t, label, l), label # "advance",
             pc[t] # "advance", UNCHANGED <<manifestFile, snapshotManifest>>,
             l.installing => local[t].installing,
             \/ l.compacted = 0 \/ l.compacted = snapshotManifest \/ l.compacted = lastSequence
             \/ l.compacted = local[t].compacted /\ pc[t] \notin {"writesql", "manifest"}
             \/ l = local[t] /\ label \in {"writesql", "manifest"}
      PROVE  AheadInv'
  <2>1. ~({"kill", "peer"} \subseteq faults) =>
           /\ ReachedBy(manifestFile', label, l) /\ ReachedBy(snapshotManifest', label, l)
           /\ ReachedBy(l.compacted, label, l) \/ (l.installing /\ label \in {"writesql", "manifest"})
    <3> SUFFICES ASSUME ~({"kill", "peer"} \subseteq faults)
                 PROVE  /\ ReachedBy(manifestFile', label, l) /\ ReachedBy(snapshotManifest', label, l)
                        /\ ReachedBy(l.compacted, label, l) \/ (l.installing /\ label \in {"writesql", "manifest"})
      OBVIOUS
    <3>1. Reached(0) /\ Reached(lastSequence)
      BY <1>0 DEF Reached
    <3>2. \/ Reached(local[t].compacted)
          \/ local[t].installing /\ pc[t] \in {"writesql", "manifest"}
      BY DEF AheadInv
    <3>3. manifestFile' = manifestFile /\ snapshotManifest' = snapshotManifest
      BY <1>k
    <3> QED BY <1>f, <1>k, <3>1, <3>2, <3>3 DEF ReachedBy
  <2>2. "peer" \notin faults => ~l.installing
    BY <1>k DEF AheadInv
  <2> QED BY <1>k, <1>m, <2>1, <2>2
(* Steps that leave the threads alone *)
<1>1. ASSUME UNCHANGED <<pc, local, manifestFile, snapshotManifest>> PROVE AheadInv'
  <2>1. Moves("exec", pc["exec"], local["exec"])
    BY <1>0, <1>1 DEF Moves
  <2>2. ASSUME ~({"kill", "peer"} \subseteq faults)
        PROVE  /\ Reached(manifestFile)' /\ Reached(snapshotManifest)'
               /\ \A u \in Threads : \/ Reached(local[u].compacted)'
                                     \/ local'[u].installing /\ pc'[u] \in {"writesql", "manifest"}
    <3>1. \A u \in Threads : local[u].compacted \in Nat
      BY <1>l DEF Locals
    <3>2. pc' = pc /\ local' = local /\ manifestFile' = manifestFile /\ snapshotManifest' = snapshotManifest
      BY <1>1
    <3>3. ASSUME NEW s \in Nat, Reached(s)
          PROVE  s <= lastSequence' \/ \E u \in Threads : pc'[u] = "advance" /\ s <= local'[u].compacted
      <4>1. \A u \in Threads : pc[u] = "advance" => pc'[u] = "advance" /\ local'[u] = local[u]
        BY <3>2
      <4> QED BY <1>0, <3>1, <3>3, <4>1, ReachedKept
    <3>4. Reached(manifestFile)' /\ Reached(snapshotManifest)'
      BY <1>0, <1>f, <2>2, <3>2, <3>3 DEF Reached
    <3>5. ASSUME NEW u \in Threads
          PROVE  \/ Reached(local[u].compacted)'
                 \/ local'[u].installing /\ pc'[u] \in {"writesql", "manifest"}
      <4>1. \/ Reached(local[u].compacted)
            \/ local[u].installing /\ pc[u] \in {"writesql", "manifest"}
        BY <2>2 DEF AheadInv
      <4>2. CASE Reached(local[u].compacted)
        BY <3>1, <3>2, <3>3, <4>2 DEF Reached
      <4> QED BY <3>2, <4>1, <4>2
    <3> QED BY <3>4, <3>5
  <2> QED BY <1>0, <1>1, <2>2 DEF AheadInv
<1>c. NoLocal.compacted = 0 /\ ~NoLocal.installing
  BY DEF NoLocal
<1>2. ASSUME NEW id \in RequestIds, Write(id) \/ Replay(id) PROVE AheadInv'
  <2>1. PICK w : Moves("exec", "sync", [NoLocal EXCEPT !.op = "write", !.sql = id, !.written = w])
    BY <1>0, <1>2, ExecMoves
  <2>2. pc["exec"] = "idle" /\ UNCHANGED <<manifestFile, snapshotManifest>>
    BY <1>2 DEF Write, Replay, MayBegin, snapVars
  <2> DEFINE l == [NoLocal EXCEPT !.op = "write", !.sql = id, !.written = w]
  <2>3. l.compacted = 0 /\ ~l.installing
    BY DEF NoLocal
  <2>4. Moves("exec", "sync", l)
    BY <2>1
  <2> HIDE DEF l
  <2> QED BY <1>0, <1>k, <2>2, <2>3, <2>4
<1>3. CASE Read \/ Cli
  <2>1. PICK l : Moves("exec", "sync", l) /\ l.compacted = 0 /\ ~l.installing
    <3>1. /\ [NoLocal EXCEPT !.op = "read", !.written = lastSequence].compacted = 0
          /\ ~[NoLocal EXCEPT !.op = "read", !.written = lastSequence].installing
          /\ [NoLocal EXCEPT !.op = "cli", !.written = lastSequence].compacted = 0
          /\ ~[NoLocal EXCEPT !.op = "cli", !.written = lastSequence].installing
      BY DEF NoLocal
    <3> QED BY <1>0, <1>3, <3>1, ExecMoves
  <2>2. pc["exec"] = "idle" /\ UNCHANGED <<manifestFile, snapshotManifest>>
    BY <1>3 DEF Read, Cli, MayBegin, snapVars
  <2> QED BY <1>0, <1>k, <2>1, <2>2
<1>4. CASE ExecStep
  <2>l. local["exec"] \in Locals
    BY <1>0
  <2>1. CASE FullSyncBegin
    <3> DEFINE l == [local["exec"] EXCEPT !.list = snapshotSql, !.compacted = snapshotManifest]
    <3>1. Moves("exec", "replay", l)
      BY <1>0, <2>1, ExecMoves
    <3>2. l.compacted = snapshotManifest /\ (l.installing => local["exec"].installing)
      BY <2>l DEF Locals
    <3>3. pc["exec"] # "advance" /\ UNCHANGED <<manifestFile, snapshotManifest>>
      BY <2>1 DEF FullSyncBegin, ReadSnapshotSql, snapVars
    <3> HIDE DEF l
    <3> QED BY <1>0, <1>k, <3>1, <3>2, <3>3
  <2>2. CASE CatchUp \/ RunStatement \/ SkipSnapshot
    <3>1. \E label \in {"run", "mark", "threshold", "reply", "recover", "fullsync"} :
            Moves("exec", label, local["exec"])
      <4>1. AfterSnapshot("exec") \in {"reply", "recover", "fullsync"}
        BY DEF AfterSnapshot
      <4> QED BY <1>0, <2>2, <4>1, ExecMoves, RunMoves
    <3>2. pc["exec"] \notin {"advance", "writesql", "manifest"} /\ UNCHANGED <<manifestFile, snapshotManifest>>
      BY <2>2 DEF CatchUp, RunStatement, SkipSnapshot, snapVars
    <3> QED BY <1>0, <1>k, <3>1, <3>2
  <2>3. CASE StatementFails
    <3> DEFINE l == [local["exec"] EXCEPT !.retried = TRUE]
    <3>1. Moves("exec", "sync", l) \/ Moves("exec", "idle", NoLocal)
      BY <1>0, <2>3, ExecMoves
    <3>2. l.compacted = local["exec"].compacted /\ (l.installing => local["exec"].installing)
      BY <2>l DEF Locals
    <3>3. pc["exec"] \notin {"advance", "writesql", "manifest"} /\ UNCHANGED <<manifestFile, snapshotManifest>>
      BY <2>3 DEF StatementFails, snapVars
    <3> HIDE DEF l
    <3> QED BY <1>0, <1>k, <1>c, <3>1, <3>2, <3>3
  <2>4. CASE MarkBegin
    <3> DEFINE l == [local["exec"] EXCEPT !.compacted = snapshotManifest]
    <3>1. Moves("exec", "marked", l)
      BY <1>0, <2>4, ExecMoves
    <3>2. l.compacted = snapshotManifest /\ (l.installing => local["exec"].installing)
      BY <2>l DEF Locals
    <3>3. pc["exec"] # "advance" /\ UNCHANGED <<manifestFile, snapshotManifest>>
      BY <2>4 DEF MarkBegin, snapVars
    <3> HIDE DEF l
    <3> QED BY <1>0, <1>k, <3>1, <3>2, <3>3
  <2>5. CASE MarkApplied
    <3> DEFINE l == [local["exec"] EXCEPT !.compacted = 0]
    <3>1. Moves("exec", "threshold", l)
      BY <1>0, <2>5, ExecMoves
    <3>2. l.compacted = 0 /\ (l.installing => local["exec"].installing)
      BY <2>l DEF Locals
    <3>3. /\ pc["exec"] = "marked" /\ manifestFile' = local["exec"].compacted
          /\ snapshotManifest' = local["exec"].compacted
      BY <2>5 DEF MarkApplied
    <3>4. ~({"kill", "peer"} \subseteq faults) => Reached(local["exec"].compacted)
      BY <1>0, <3>3 DEF AheadInv
    <3>5. 0 <= lastSequence'
      BY <1>0
    <3> HIDE DEF l
    <3>6. "peer" \notin faults => ~l.installing
      BY <1>0, <3>2 DEF AheadInv
    <3>7. ~({"kill", "peer"} \subseteq faults) =>
            /\ ReachedBy(manifestFile', "threshold", l) /\ ReachedBy(snapshotManifest', "threshold", l)
            /\ ReachedBy(l.compacted, "threshold", l)
      BY <3>2, <3>3, <3>4, <3>5 DEF ReachedBy
    <3>8. pc["exec"] # "advance"
      BY <3>3
    <3> QED BY <1>0, <1>m, <3>1, <3>6, <3>7, <3>8
  <2>6. CASE MaybeSnapshot
    <3> DEFINE l == [local["exec"] EXCEPT !.compacted = lastSequence, !.list = snapshotSql]
    <3>1. Moves("exec", "readwal", l)
      BY <1>0, <2>6, ExecMoves
    <3>2. l.compacted = lastSequence /\ (l.installing => local["exec"].installing)
      BY <2>l DEF Locals
    <3>3. pc["exec"] # "advance" /\ UNCHANGED <<manifestFile, snapshotManifest>>
      BY <2>6 DEF MaybeSnapshot, snapVars
    <3> HIDE DEF l
    <3> QED BY <1>0, <1>k, <3>1, <3>2, <3>3
  <2>7. CASE Reply
    <3>1. Moves("exec", "idle", NoLocal)
      BY <1>0, <2>7, ExecMoves
    <3>2. pc["exec"] # "advance" /\ UNCHANGED <<manifestFile, snapshotManifest>>
      BY <2>7 DEF Reply, snapVars
    <3> QED BY <1>0, <1>c, <1>k, <3>1, <3>2
  <2> QED BY <1>4, <2>1, <2>2, <2>3, <2>4, <2>5, <2>6, <2>7 DEF ExecStep
<1>5. CASE AdminSnapshot \/ AdminReadLast
  <2>l. local["snapshot"] \in Locals
    BY <1>0
  <2>1. CASE AdminSnapshot
    <3> DEFINE l == [local["snapshot"] EXCEPT !.list = snapshotSql]
    <3>1. Moves("snapshot", "readwal", l)
      BY <1>0, <2>1, AdminMoves
    <3>2. l.compacted = local["snapshot"].compacted /\ (l.installing => local["snapshot"].installing)
      BY <2>l DEF Locals
    <3>3. pc["snapshot"] = "idle" /\ UNCHANGED <<manifestFile, snapshotManifest>>
      BY <2>1 DEF AdminSnapshot, MayBegin, snapVars
    <3> HIDE DEF l
    <3> QED BY <1>0, <1>k, <3>1, <3>2, <3>3
  <2>2. CASE AdminReadLast
    <3> DEFINE l == [local["snapshot"] EXCEPT !.compacted = lastSequence]
    <3>1. Moves("snapshot", "writesql", l)
      BY <1>0, <2>2, AdminMoves
    <3>2. l.compacted = lastSequence /\ (l.installing => local["snapshot"].installing)
      BY <2>l DEF Locals
    <3>3. pc["snapshot"] # "advance" /\ UNCHANGED <<manifestFile, snapshotManifest>>
      BY <2>2 DEF AdminReadLast, snapVars
    <3> HIDE DEF l
    <3> QED BY <1>0, <1>k, <3>1, <3>2, <3>3
  <2> QED BY <1>5, <2>1, <2>2
<1>6. CASE RefreshShards
  <2> DEFINE l == [NoLocal EXCEPT !.op = "refresh"]
  <2>1. Moves("refresh", "recover", l)
    BY <1>0, <1>6, AdminMoves
  <2>2. l.compacted = 0 /\ ~l.installing
    BY DEF NoLocal
  <2>3. pc["refresh"] # "advance" /\ UNCHANGED <<manifestFile, snapshotManifest>>
    BY <1>6 DEF RefreshShards, MayBegin, snapVars
  <2> HIDE DEF l
  <2> QED BY <1>0, <1>k, <2>1, <2>2, <2>3
<1>7. CASE Start
  <2> DEFINE l == [NoLocal EXCEPT !.op = "start"]
  <2>1. Moves("exec", "recover", l)
    BY <1>0, <1>7, ExecMoves
  <2>2. l.compacted = 0 /\ ~l.installing
    BY DEF NoLocal
  <2>3. pc["exec"] # "advance" /\ manifestFile' = manifestFile /\ snapshotManifest' = manifestFile
    BY <1>0, <1>7 DEF Start, ControlOK, StartOK
  <2> HIDE DEF l
  <2>4. ~({"kill", "peer"} \subseteq faults) =>
            /\ ReachedBy(manifestFile', "recover", l) /\ ReachedBy(snapshotManifest', "recover", l)
            /\ ReachedBy(l.compacted, "recover", l)
    BY <1>0, <1>f, <2>2, <2>3 DEF ReachedBy
  <2> QED BY <1>0, <1>m, <2>1, <2>2, <2>3, <2>4
<1>8. CASE Crash
  <2>1. /\ pc' = [t \in Threads |-> "idle"] /\ local' = [t \in Threads |-> NoLocal]
        /\ manifestFile' = manifestFile /\ snapshotManifest' = 0 /\ lastSequence' = lastSequence
        /\ "kill" \in faults \/ \A t \in Threads : pc[t] = "idle"
    BY <1>8 DEF Crash, logVars
  <2>2. \A t \in Threads : pc'[t] = "idle" /\ local'[t].compacted = 0 /\ ~local'[t].installing
    BY <1>c, <2>1
  <2>3. ~({"kill", "peer"} \subseteq faults) => \A t \in Threads : pc[t] # "advance"
    BY <2>1 DEF AheadInv
  <2>4. ~({"kill", "peer"} \subseteq faults) => manifestFile' <= lastSequence'
    BY <1>f, <2>1, <2>3 DEF Reached
  <2>5. 0 <= lastSequence'
    BY <1>0
  <2> QED BY <1>0, <2>1, <2>2, <2>4, <2>5 DEF AheadInv, Reached
<1>9. ASSUME NEW t \in Threads, ThreadStep(t) PROVE AheadInv'
  <2>l. local[t] \in Locals
    BY <1>0
  <2>1. CASE ResetAndReplay(t)
    <3> DEFINE l == [local[t] EXCEPT !.list = <<>>, !.compacted = 0]
               label == IF t = "exec" /\ local[t].op # "start" THEN "run" ELSE "setseq"
    <3>1. Moves(t, label, l)
      BY <1>0, <2>1, ThreadMoves
    <3>2. l.compacted = 0 /\ (l.installing => local[t].installing) /\ label # "advance"
      BY <2>l DEF Locals
    <3>3. pc[t] # "advance" /\ UNCHANGED <<manifestFile, snapshotManifest>>
      BY <2>1 DEF ResetAndReplay, snapVars
    <3> HIDE DEF l, label
    <3> QED BY <1>k, <3>1, <3>2, <3>3
  <2>2. CASE ReplayFails(t)
    <3> DEFINE l == [local[t] EXCEPT !.retried = TRUE]
    <3>1. Moves(t, "sync", l) \/ Moves(t, "idle", NoLocal)
      BY <1>0, <2>2, ThreadMoves
    <3>2. l.compacted = local[t].compacted /\ (l.installing => local[t].installing)
      BY <2>l DEF Locals
    <3>3. pc[t] = "replay" /\ UNCHANGED <<manifestFile, snapshotManifest>>
      BY <2>2 DEF ReplayFails, snapVars
    <3> HIDE DEF l
    <3> QED BY <1>c, <1>k, <3>1, <3>2, <3>3
  <2>3. CASE ReadWal(t)
    <3> DEFINE list == local[t].list \o SqlBetween(wal, 0, IF t = "snapshot" THEN NoBound
                                                           ELSE local[t].compacted + 1)
               l == [local[t] EXCEPT !.list = list]
               label == IF t = "snapshot" THEN "readlast" ELSE "writesql"
    <3>1. Moves(t, label, l)
      BY <1>0, <2>3, ThreadMoves
    <3> HIDE DEF list
    <3>2. l.compacted = local[t].compacted /\ (l.installing => local[t].installing) /\ label # "advance"
      BY <2>l DEF Locals
    <3>3. pc[t] = "readwal" /\ UNCHANGED <<manifestFile, snapshotManifest>>
      BY <2>3 DEF ReadWal, snapVars
    <3> HIDE DEF l, label
    <3> QED BY <1>k, <3>1, <3>2, <3>3
  <2>4. CASE WriteSnapshotSql(t)
    <3>1. Moves(t, "manifest", local[t]) /\ pc[t] # "advance" /\ UNCHANGED <<manifestFile, snapshotManifest>>
      BY <1>0, <2>4, ThreadMoves DEF WriteSnapshotSql
    <3> QED BY <1>k, <3>1
  <2>5. CASE SaveManifest(t)
    <3> DEFINE label == IF local[t].installing THEN "advance" ELSE "compact"
    <3>1. /\ Moves(t, label, local[t]) /\ pc[t] = "manifest"
          /\ manifestFile' = local[t].compacted /\ snapshotManifest' = local[t].compacted
      BY <1>0, <2>5, ThreadMoves DEF SaveManifest
    <3>2. local[t].compacted \in Nat
      BY <2>l DEF Locals
    <3>3. ~({"kill", "peer"} \subseteq faults) => ReachedBy(local[t].compacted, label, local[t])
      BY <3>2 DEF AheadInv, ReachedBy
    <3>4. "peer" \notin faults => ~local[t].installing /\ label # "advance"
      BY DEF AheadInv
    <3>5. pc[t] # "advance"
      BY <3>1
    <3> HIDE DEF label
    <3> QED BY <1>m, <3>1, <3>3, <3>4, <3>5
  <2>6. CASE Compact(t)
    <3>1. Moves(t, "invalidate", local[t]) /\ pc[t] = "compact" /\ UNCHANGED <<manifestFile, snapshotManifest>>
      BY <1>0, <2>6, ThreadMoves DEF Compact, snapVars
    <3> QED BY <1>k, <3>1
  <2>7. CASE Invalidate(t)
    <3> DEFINE l == IF t = "snapshot" THEN NoLocal
                    ELSE [local[t] EXCEPT !.installing = FALSE, !.list = <<>>, !.compacted = 0]
    <3>1. Moves(t, AfterSnapshot(t), l)
      BY <1>0, <2>7, ThreadMoves
    <3>2. l.compacted = 0 /\ ~l.installing /\ AfterSnapshot(t) # "advance"
      BY <1>c, <2>l DEF Locals, AfterSnapshot
    <3>3. pc[t] = "invalidate" /\ UNCHANGED <<manifestFile, snapshotManifest>>
      BY <2>7 DEF Invalidate, snapVars
    <3> HIDE DEF l
    <3> QED BY <1>k, <3>1, <3>2, <3>3
  <2>8. ASSUME NEW id \in RequestIds, RecoverEntry(t, id) PROVE AheadInv'
    BY <1>1, <2>8 DEF RecoverEntry, snapVars
  <2>9. CASE InstallPeerSnapshot(t)
    <3>1. PICK c \in snapshotManifest + 1 .. MaxSequence : \E sql \in PeerSnapshots(c) :
            Moves(t, "writesql", [local[t] EXCEPT !.list = sql, !.compacted = c, !.installing = TRUE])
      BY <1>0, <2>9, ThreadMoves
    <3>2. PICK sql \in PeerSnapshots(c) :
            Moves(t, "writesql", [local[t] EXCEPT !.list = sql, !.compacted = c, !.installing = TRUE])
      BY <3>1
    <3> DEFINE l == [local[t] EXCEPT !.list = sql, !.compacted = c, !.installing = TRUE]
    <3>3. l.installing
      BY <2>l DEF Locals
    <3>4. Moves(t, "writesql", l)
      BY <3>2
    <3>5. "peer" \in faults /\ pc[t] = "recover" /\ UNCHANGED <<manifestFile, snapshotManifest>>
      BY <2>9 DEF InstallPeerSnapshot, snapVars
    <3> HIDE DEF l
    <3>6. ~({"kill", "peer"} \subseteq faults) =>
            ReachedBy(manifestFile', "writesql", l) /\ ReachedBy(snapshotManifest', "writesql", l)
      BY <1>f, <3>5 DEF ReachedBy
    <3> QED BY <1>m, <3>3, <3>4, <3>5, <3>6
  <2>10. CASE AdvanceLastSequence(t)
    <3>1. local[t].compacted \in 0 .. MaxSequence /\ lastSequence \in 0 .. MaxSequence
      BY <2>l DEF Locals, NodeInv, TypeOK
    <3>2. /\ Moves(t, "invalidate", local[t]) /\ pc[t] = "advance"
          /\ UNCHANGED <<manifestFile, snapshotManifest>>
          /\ lastSequence' = Max({lastSequence, local[t].compacted})
      BY <1>0, <2>10, ThreadMoves DEF AdvanceLastSequence, snapVars
    <3>3. local[t].compacted <= lastSequence'
      <4>1. {lastSequence, local[t].compacted} \in SUBSET (0 .. MaxSequence)
        BY <3>1
      <4> QED BY <3>2, <4>1, MaxIsMember
    <3>4. "peer" \notin faults => ~local[t].installing
      BY DEF AheadInv
    <3>5. ~({"kill", "peer"} \subseteq faults) =>
            /\ ReachedBy(manifestFile', "invalidate", local[t])
            /\ ReachedBy(snapshotManifest', "invalidate", local[t])
            /\ ReachedBy(local[t].compacted, "invalidate", local[t])
      BY <1>f, <3>2, <3>3 DEF ReachedBy
    <3> QED BY <1>m, <3>2, <3>3, <3>4, <3>5
  <2>11. CASE ApplyPendingWal(t)
    <3> DEFINE label == IF t = "exec" THEN "threshold" ELSE "fullsync"
    <3>1. /\ Moves(t, label, local[t]) /\ pc[t] = "recover"
          /\ manifestFile' \in {manifestFile, snapshotManifest} /\ snapshotManifest' = snapshotManifest
      BY <1>0, <2>11, ThreadMoves DEF ApplyPendingWal
    <3>2. ~({"kill", "peer"} \subseteq faults) => Reached(local[t].compacted)
      BY <3>1 DEF AheadInv
    <3>3. ~({"kill", "peer"} \subseteq faults) =>
            /\ ReachedBy(manifestFile', label, local[t])
            /\ ReachedBy(snapshotManifest', label, local[t])
            /\ ReachedBy(local[t].compacted, label, local[t])
      BY <1>f, <3>1, <3>2 DEF ReachedBy
    <3>4. ("peer" \notin faults => ~local[t].installing) /\ label # "advance"
      BY DEF AheadInv
    <3> HIDE DEF label
    <3> QED BY <1>m, <3>1, <3>3, <3>4
  <2>12. CASE SyncEngineFull(t)
    <3> DEFINE l == [local[t] EXCEPT !.list = snapshotSql, !.compacted = snapshotManifest]
    <3>1. Moves(t, "replay", l)
      BY <1>0, <2>12, ThreadMoves
    <3>2. l.compacted = snapshotManifest /\ (l.installing => local[t].installing)
      BY <2>l DEF Locals
    <3>3. pc[t] = "fullsync" /\ UNCHANGED <<manifestFile, snapshotManifest>>
      BY <2>12 DEF SyncEngineFull, ReadSnapshotSql, snapVars
    <3> HIDE DEF l
    <3> QED BY <1>k, <3>1, <3>2, <3>3
  <2>13. CASE SetServing(t)
    <3>1. Moves(t, "idle", NoLocal) /\ pc[t] = "setseq" /\ UNCHANGED <<manifestFile, snapshotManifest>>
      BY <1>0, <2>13, ThreadMoves DEF SetServing, snapVars
    <3> QED BY <1>c, <1>k, <3>1
  <2> QED BY <1>9, <2>1, <2>2, <2>3, <2>4, <2>5, <2>6, <2>7, <2>8, <2>9, <2>10, <2>11, <2>12, <2>13
          DEF ThreadStep
<1>10. ASSUME NEW id \in RequestIds, ReplayDuplicate(id) PROVE AheadInv'
  BY <1>1, <1>10 DEF ReplayDuplicate, snapVars
<1>11. CASE EngineDies
  BY <1>1, <1>11 DEF EngineDies, snapVars
<1>12. CASE UNCHANGED vars
  BY <1>1, <1>12 DEF vars
<1> QED
  BY <1>2, <1>3, <1>4, <1>5, <1>6, <1>7, <1>8, <1>9, <1>10, <1>11, <1>12
  DEF Next, Step, Request, Progress

LEMMA AheadInit == ASSUME Init PROVE AheadInv
<1>1. \A t \in Threads : pc[t] = "idle" /\ local[t] = NoLocal
  BY DEF Init
<1> QED
  BY <1>1 DEF Init, AheadInv, Reached, NoLocal

(* The log is never behind the compaction point of its node, for any number of
   requests and with overlapping handlers: whoever stores a compaction point
   has it from the log, or is the one that carries it over to the log. *)
THEOREM LogStaysAhead == Spec => []LogAheadOfSnapshot
<1>1. Init => AheadInv
  BY AheadInit
<1>2. NodeInv /\ AheadInv /\ [Next]_vars => AheadInv'
  BY AheadStep
<1>3. AheadInv => LogAheadOfSnapshot
  BY DEF AheadInv, LogAheadOfSnapshot, Reached, Compacted
<1> QED
  BY <1>1, <1>2, <1>3, NodeInvariance, PTL DEF Spec

-----------------------------------------------------------------------------
(* One handler at a time                                                   *)

LEMMA AloneFacts ==
  ASSUME NodeInv, AheadInv, Alone, AloneOK
  PROVE  /\ manifestFile <= lastSequence /\ snapshotManifest <= lastSequence
         /\ \A t \in Threads : ~local[t].installing /\ pc[t] # "advance"
         /\ LogicalLog = IF SnapshotHalfWritten THEN snapshotSql ELSE Files
         /\ "overlap" \notin faults /\ "kill" \notin faults /\ "late" \notin faults
         /\ "peer" \notin faults
<1>1. /\ "overlap" \notin faults /\ "kill" \notin faults /\ "late" \notin faults
      /\ "peer" \notin faults
  BY DEF Alone
<1>2. \A t \in Threads : ~local[t].installing /\ pc[t] # "advance"
  BY <1>1 DEF AheadInv
<1>3. Reached(manifestFile) /\ Reached(snapshotManifest)
  BY <1>1 DEF AheadInv
<1>4. Compacted = manifestFile
  BY DEF Compacted, AloneOK, FilesOK
<1>5. LogicalLog = IF SnapshotHalfWritten THEN snapshotSql ELSE Files
  BY <1>4 DEF LogicalLog, Files
<1> QED
  BY <1>1, <1>2, <1>3, <1>5 DEF Reached

NodeTypes ==
  /\ local \in [Threads -> Locals] /\ pc \in [Threads -> Labels]
  /\ lastSequence \in Nat /\ lastSequence <= MaxSequence /\ manifestFile \in Nat /\ snapshotManifest \in Nat
  /\ NoBound \in Nat /\ lastSequence < NoBound
  /\ snapshotSql \in Seq(RequestIds) /\ Ordered(wal, lastSequence)
  /\ engine.walSequence \in Nat /\ engine.db \in Seq(Statements)
  /\ ControlOK
  /\ "exec" \in Threads /\ "snapshot" \in Threads /\ "refresh" \in Threads

LEMMA NodeTyped == ASSUME NodeInv PROVE NodeTypes
<1>1. engine.walSequence \in Nat /\ engine.db \in Seq(Statements)
  BY DataNodeAssumption DEF NodeInv, TypeOK
<1>2. /\ lastSequence \in Nat /\ lastSequence <= MaxSequence /\ manifestFile \in Nat /\ snapshotManifest \in Nat
      /\ NoBound \in Nat /\ lastSequence < NoBound
  BY DataNodeAssumption DEF NodeInv, TypeOK, NoBound
<1> QED
  BY <1>1, <1>2 DEF NodeInv, TypeOK, NodeTypes, ControlOK, Threads

SnapshotLabels == {"idle", "readwal", "readlast", "writesql", "manifest", "compact", "invalidate"}
RefreshLabels == {"idle", "recover", "fullsync", "replay", "setseq"}

(* After a move of the one active thread all others are idle. *)
LEMMA AloneMove ==
  ASSUME NodeInv, Alone, OneHandler, NEW t \in Threads, NEW label, NEW l, Moves(t, label, l),
         pc[t] # "idle" \/ \A u \in Threads : pc[u] = "idle",
         label = "idle" => l = NoLocal,
         t = "exec" => label # "readlast",
         t = "snapshot" => label \in SnapshotLabels,
         t = "refresh" => label \in RefreshLabels /\ (label # "idle" => l.op = "refresh")
  PROVE  /\ OneHandler'
         /\ pc'[t] = label /\ local'[t] = l
         /\ \A u \in Threads : u # t => pc[u] = "idle" /\ pc'[u] = "idle" /\ local'[u] = NoLocal
<1>0. NodeTypes
  BY NodeTyped
<1>1. pc'[t] = label /\ local'[t] = l /\ \A u \in Threads : u # t => pc'[u] = pc[u] /\ local'[u] = local[u]
  BY <1>0 DEF Moves, NodeTypes
<1>2. \A u \in Threads : u # t => pc[u] = "idle" /\ local[u] = NoLocal
  BY DEF OneHandler
<1>3. \A u \in Threads : u # t => pc'[u] = "idle" /\ local'[u] = NoLocal
  BY <1>1, <1>2
<1>4. OneHandler'
  <2>1. \A u, v \in Threads : u # v => pc'[u] = "idle" \/ pc'[v] = "idle"
    BY <1>3
  <2>2. \A u \in Threads : pc'[u] = "idle" => local'[u] = NoLocal
    BY <1>1, <1>3
  <2>3. /\ pc'["exec"] # "readlast"
        /\ pc'["snapshot"] \in {"idle", "readwal", "readlast", "writesql", "manifest", "compact",
                                "invalidate"}
        /\ pc'["refresh"] \in {"idle", "recover", "fullsync", "replay", "setseq"}
        /\ pc'["refresh"] # "idle" => local'["refresh"].op = "refresh"
    BY <1>0, <1>1, <1>3 DEF NodeTypes, SnapshotLabels, RefreshLabels
  <2> QED BY <2>1, <2>2, <2>3 DEF OneHandler
<1> QED
  BY <1>1, <1>2, <1>3, <1>4

(* The other threads have nothing to be stale. *)
LEMMA OthersRead ==
  ASSUME NEW t \in Threads, ReadAt(t)',
         \A u \in Threads : u # t => pc'[u] = "idle" /\ local'[u] = NoLocal
  PROVE  \A u \in Threads : ReadAt(u)'
<1> SUFFICES ASSUME NEW u \in Threads, u # t PROVE ReadAt(u)'
  OBVIOUS
<1>1. pc'[u] = "idle" /\ local'[u].op = "none"
  BY DEF NoLocal
<1> QED
  BY <1>1 DEF ReadAt, Requests

(* A step that leaves the log and the files alone. *)
LEMMA QuietFiles ==
  ASSUME NodeInv, AheadInv, Alone, AloneOK, NodeInv', AheadInv', Alone',
         UNCHANGED <<wal, lastSequence, requestIds, snapshotSql, manifestFile>>,
         replicaState' # "DOWN" => snapshotManifest' = manifestFile,
         \A t \in Threads : pc'[t] = "manifest" <=> pc[t] = "manifest",
         \A t \in Threads : pc'[t] = "compact" <=> pc[t] = "compact",
         acked' \subseteq requestIds
  PROVE  FilesOK' /\ LogicalLog' = LogicalLog
<1>1. Compacted = manifestFile /\ Compacted' = manifestFile
  BY DEF Compacted, AloneOK, FilesOK
<1>2. SnapshotHalfWritten' = SnapshotHalfWritten
  BY DEF SnapshotHalfWritten
<1>3. SqlBetween(wal, Compacted, NoBound)' = SqlBetween(wal, Compacted, NoBound)
  BY <1>1 DEF SqlBetween, CountBelow
<1>4. LogicalLog' = LogicalLog
  BY <1>2, <1>3 DEF LogicalLog
<1>5. Elements(LogicalLog)' = Elements(LogicalLog)
  BY <1>4 DEF Elements
<1> QED
  BY <1>4, <1>5 DEF AloneOK, FilesOK

(* A request enters the log and with it the list the files stand for. *)
LEMMA LogsFiles ==
  ASSUME NodeInv, AheadInv, Alone, AloneOK, NEW id \in RequestIds, id \notin requestIds, Logs(id),
         UNCHANGED <<snapshotSql, manifestFile, snapshotManifest, acked, replicaState>>,
         \A t \in Threads : pc[t] \notin {"manifest", "compact"} /\ pc'[t] \notin {"manifest", "compact"}
  PROVE  /\ FilesOK' /\ LogicalLog' = Append(LogicalLog, id)
         /\ Len(wal)' > 0
         /\ wal'[Len(wal)'] = [sequence |-> lastSequence', requestId |-> id]
<1>0. NodeTypes /\ manifestFile <= lastSequence /\ LogicalLog = Files
  BY NodeTyped, AloneFacts DEF SnapshotHalfWritten
<1>q. PICK q \in Nat : q = lastSequence' /\ lastSequence < q /\ q <= MaxSequence
  BY <1>0 DEF Logs, NodeTypes
<1> DEFINE e == [sequence |-> q, requestId |-> id]
           new == Append(wal, e)
<1>1. /\ wal' = new /\ lastSequence' = q /\ requestIds' = requestIds \cup {id}
      /\ lastSequence < q /\ q <= MaxSequence
  BY <1>q DEF Logs
<1>2. /\ Len(new) = Len(wal) + 1 /\ new[Len(wal) + 1] = e
      /\ \A i \in 1 .. Len(wal) : new[i] = wal[i]
  BY <1>0, <1>1, OrderedAppend DEF NodeTypes
<1>3. Len(wal) \in Nat
  BY <1>0, LenProperties DEF NodeTypes, Ordered
<1>4. SqlBetween(new, manifestFile, NoBound) = Append(SqlBetween(wal, manifestFile, NoBound), id)
  <2>1. q < NoBound /\ NoBound \in Nat
    BY <1>0, <1>1, DataNodeAssumption DEF NodeTypes, NoBound
  <2> QED BY <1>0, <1>1, <2>1, SqlBetweenAppend DEF NodeTypes
<1> HIDE DEF new
<1>5. Compacted' = manifestFile /\ ~SnapshotHalfWritten'
  BY DEF Compacted, AloneOK, FilesOK, SnapshotHalfWritten
<1>6. LogicalLog' = snapshotSql \o SqlBetween(new, manifestFile, NoBound)
  <2>1. SqlBetween(wal, Compacted, NoBound)' = SqlBetween(new, manifestFile, NoBound)
    BY <1>1, <1>5 DEF SqlBetween, CountBelow, NoBound
  <2> QED BY <1>5, <2>1 DEF LogicalLog
<1>7. SqlBetween(wal, manifestFile, NoBound) \in Seq(RequestIds)
  BY <1>0, SqlBetweenType DEF NodeTypes
<1>8. LogicalLog' = Append(LogicalLog, id) /\ LogicalLog \in Seq(RequestIds)
  <2>1. snapshotSql \o Append(SqlBetween(wal, manifestFile, NoBound), id) = Append(Files, id)
    <3> DEFINE s == SqlBetween(wal, manifestFile, NoBound)
    <3> HIDE DEF s
    <3>1. snapshotSql \in Seq(RequestIds) /\ s \in Seq(RequestIds)
      BY <1>0, <1>7 DEF NodeTypes, s
    <3>2. snapshotSql \o Append(s, id) = Append(snapshotSql \o s, id)
      BY <3>1
    <3> QED BY <3>2 DEF Files, s
  <2>2. Files \in Seq(RequestIds)
    BY <1>0, <1>7, ConcatType DEF Files, NodeTypes
  <2> QED BY <1>0, <1>4, <1>6, <2>1, <2>2
<1>9. Elements(LogicalLog)' = Elements(LogicalLog) \cup {id}
  <2> DEFINE s == LogicalLog
             r == Append(LogicalLog, id)
  <2>1. /\ s \in Seq(RequestIds) /\ Len(s) \in Nat /\ DOMAIN s = 1 .. Len(s)
        /\ r \in Seq(RequestIds) /\ Len(r) = Len(s) + 1 /\ DOMAIN r = 1 .. Len(s) + 1
        /\ \A i \in 1 .. Len(s) : r[i] = s[i]
        /\ r[Len(s) + 1] = id
    BY <1>8, AppendProperties, LenProperties
  <2>2. LogicalLog' = r
    BY <1>8
  <2> HIDE DEF s, r
  <2>3. 1 .. Len(s) + 1 = (1 .. Len(s)) \cup {Len(s) + 1}
    BY <2>1
  <2>4. {r[i] : i \in DOMAIN r} = {s[i] : i \in DOMAIN s} \cup {id}
    BY <2>1, <2>3
  <2>5. Elements(LogicalLog)' = {r[i] : i \in DOMAIN r} /\ Elements(LogicalLog) = {s[i] : i \in DOMAIN s}
    BY <2>2 DEF Elements, s
  <2> QED BY <2>4, <2>5
<1>10. requestIds' = Elements(LogicalLog)'
  BY <1>1, <1>9 DEF AloneOK, FilesOK
<1>11. ASSUME NEW i \in 1 .. Len(wal') PROVE wal'[i].requestId \in requestIds' /\ wal'[i].sequence > manifestFile'
  <2>1. CASE i = Len(wal) + 1
    <3>1. wal'[i].requestId = id /\ wal'[i].sequence = q
      BY <1>1, <1>2, <2>1
    <3> QED BY <1>0, <1>1, <3>1 DEF NodeTypes
  <2>2. CASE i # Len(wal) + 1
    <3>1. i \in 1 .. Len(wal)
      BY <1>1, <1>2, <1>3, <2>2
    <3>2. wal[i].requestId \in requestIds /\ wal[i].sequence > manifestFile
      BY <3>1 DEF AloneOK, FilesOK
    <3> QED BY <1>1, <1>2, <3>1, <3>2
  <2> QED BY <2>1, <2>2
<1>12. FilesOK'
  BY <1>1, <1>10, <1>11 DEF AloneOK, FilesOK
<1>13. Len(wal') > 0 /\ wal'[Len(wal')] = [sequence |-> lastSequence', requestId |-> id]
  BY <1>1, <1>2, <1>3
<1> QED
  BY <1>8, <1>12, <1>13

(* A move of a handler that leaves the log and the files alone. *)
LEMMA QuietMove ==
  ASSUME NodeInv, AheadInv, Alone, AloneOK, NodeInv', AheadInv', Alone',
         NEW t \in Threads, NEW label, NEW l, Moves(t, label, l),
         pc[t] # "idle" \/ \A u \in Threads : pc[u] = "idle",
         label = "idle" => l = NoLocal,
         t = "exec" => label # "readlast",
         t = "snapshot" => label \in SnapshotLabels,
         t = "refresh" => label \in RefreshLabels /\ (label # "idle" => l.op = "refresh"),
         pc[t] \notin {"manifest", "compact"}, label \notin {"manifest", "compact"},
         UNCHANGED <<wal, lastSequence, requestIds, snapshotSql, manifestFile>>,
         replicaState' # "DOWN" => snapshotManifest' = manifestFile,
         acked' \subseteq requestIds,
         pc'[t] = label /\ local'[t] = l => ReadAt(t)'
  PROVE  AloneOK' /\ LogicalLog' = LogicalLog
<1>0. OneHandler
  BY DEF AloneOK
<1>1. /\ OneHandler'
      /\ pc'[t] = label /\ local'[t] = l
      /\ \A u \in Threads : u # t => pc[u] = "idle" /\ pc'[u] = "idle" /\ local'[u] = NoLocal
  BY <1>0, AloneMove
<1>2. \A u \in Threads : ReadAt(u)'
  BY <1>1, OthersRead
<1>3. /\ \A u \in Threads : pc'[u] = "manifest" <=> pc[u] = "manifest"
      /\ \A u \in Threads : pc'[u] = "compact" <=> pc[u] = "compact"
  BY <1>1
<1>4. FilesOK' /\ LogicalLog' = LogicalLog
  BY <1>3, QuietFiles
<1> QED
  BY <1>1, <1>2, <1>4 DEF AloneOK

LEMMA ExecAlone ==
  ASSUME NodeInv, AheadInv, Alone, AloneOK, NodeInv', AheadInv', Alone',
         Read \/ Cli \/ ExecStep
  PROVE  /\ AloneOK'
         /\ \/ LogicalLog' = LogicalLog /\ acked' = acked
            \/ /\ LogicalLog' = LogicalLog
               /\ \E id \in requestIds : acked' = acked \cup {id}
<1>0. /\ NodeTypes /\ ReadAt("exec") /\ OneHandler /\ FilesOK
      /\ local["exec"] \in Locals
  BY NodeTyped DEF AloneOK, NodeTypes
<1>s. requestIds = Elements(LogicalLog) /\ acked \subseteq requestIds
  BY <1>0 DEF FilesOK
<1>f. replicaState # "DOWN" => snapshotManifest = manifestFile
  BY <1>0 DEF FilesOK
<1>n. /\ \A t \in Threads : ~local[t].installing /\ pc[t] # "advance"
      /\ "overlap" \notin faults
  BY AloneFacts
<1>m. ASSUME NEW label, NEW l, Moves("exec", label, l),
             pc["exec"] # "idle" \/ \A u \in Threads : pc[u] = "idle",
             label = "idle" => l = NoLocal,
             label \notin {"readlast", "manifest", "compact"},
             pc["exec"] \notin {"manifest", "compact"},
             UNCHANGED <<wal, lastSequence, requestIds, snapshotSql, manifestFile>>,
             replicaState' # "DOWN" => snapshotManifest' = manifestFile,
             acked' \subseteq requestIds,
             pc'["exec"] = label /\ local'["exec"] = l => ReadAt("exec")'
      PROVE  AloneOK' /\ LogicalLog' = LogicalLog
  BY <1>m, <1>0, QuietMove DEF NodeTypes
(* Moves that change neither the files nor what was acknowledged *)
<1>q. ASSUME NEW label, NEW l, Moves("exec", label, l),
             pc["exec"] # "idle" \/ \A u \in Threads : pc[u] = "idle",
             label = "idle" => l = NoLocal,
             label \notin {"readlast", "manifest", "compact"},
             pc["exec"] \notin {"manifest", "compact"},
             UNCHANGED <<logVars, snapVars, replicaState, acked>>,
             pc'["exec"] = label /\ local'["exec"] = l => ReadAt("exec")'
      PROVE  AloneOK' /\ LogicalLog' = LogicalLog /\ acked' = acked
  <2>1. /\ UNCHANGED <<wal, lastSequence, requestIds, snapshotSql, manifestFile>>
        /\ replicaState' # "DOWN" => snapshotManifest' = manifestFile
        /\ acked' \subseteq requestIds /\ acked' = acked
    BY <1>f, <1>q, <1>s DEF logVars, snapVars
  <2> QED BY <1>m, <1>q, <2>1
<1>1. CASE Read \/ Cli
  <2>1. PICK l : /\ Moves("exec", "sync", l) /\ l.op # "write" /\ l.written = lastSequence
    <3>1. /\ [NoLocal EXCEPT !.op = "read", !.written = lastSequence].op # "write"
          /\ [NoLocal EXCEPT !.op = "read", !.written = lastSequence].written = lastSequence
          /\ [NoLocal EXCEPT !.op = "cli", !.written = lastSequence].op # "write"
          /\ [NoLocal EXCEPT !.op = "cli", !.written = lastSequence].written = lastSequence
      BY DEF NoLocal
    <3> QED BY <1>0, <1>1, <3>1, ExecMoves DEF NodeTypes
  <2>2. /\ \A u \in Threads : pc[u] = "idle"
        /\ UNCHANGED <<logVars, snapVars, replicaState, acked>>
    BY <1>1, <1>n DEF Read, Cli, MayBegin
  <2>3. pc'["exec"] = "sync" /\ local'["exec"] = l => ReadAt("exec")'
    BY <2>1, <2>2 DEF ReadAt, logVars
  <2>4. pc["exec"] = "idle"
    BY <1>0, <2>2 DEF NodeTypes
  <2> QED BY <1>q, <2>1, <2>2, <2>3, <2>4
<1>2. CASE FullSyncBegin
  <2>1. PICK l : l = [local["exec"] EXCEPT !.list = snapshotSql, !.compacted = snapshotManifest]
    OBVIOUS
  <2>2. Moves("exec", "replay", l)
    BY <1>0, <1>2, <2>1, ExecMoves DEF NodeTypes
  <2>3. /\ l.list = snapshotSql /\ l.compacted = snapshotManifest /\ l.op = local["exec"].op
        /\ l.sql = local["exec"].sql /\ l.written = local["exec"].written
    BY <1>0, <2>1 DEF Locals
  <2>4. pc["exec"] = "sync" /\ UNCHANGED <<logVars, snapVars, replicaState, acked>>
    BY <1>2 DEF FullSyncBegin, ReadSnapshotSql
  <2>5. pc'["exec"] = "replay" /\ local'["exec"] = l => ReadAt("exec")'
    BY <1>0, <2>3, <2>4 DEF ReadAt, logVars, snapVars
  <2> QED BY <1>q, <2>2, <2>4, <2>5
<1>3. CASE CatchUp
  <2>1. PICK l : l = local["exec"]
    OBVIOUS
  <2>2. Moves("exec", "run", l)
    BY <1>0, <1>3, <2>1, ExecMoves DEF NodeTypes
  <2>3. pc["exec"] = "sync" /\ UNCHANGED <<logVars, snapVars, replicaState, acked>>
    BY <1>3 DEF CatchUp
  <2>4. pc'["exec"] = "run" /\ local'["exec"] = l => ReadAt("exec")'
    BY <1>0, <2>1, <2>3 DEF ReadAt, logVars, snapVars
  <2> QED BY <1>q, <2>2, <2>3, <2>4
<1>4. CASE RunStatement
  <2>1. PICK l : l = local["exec"]
    OBVIOUS
  <2>2. PICK label \in {"mark", "threshold", "reply"} : Moves("exec", label, l)
    BY <1>0, <1>4, <2>1, RunMoves DEF NodeTypes
  <2>3. pc["exec"] = "run" /\ UNCHANGED <<logVars, snapVars, replicaState, acked>>
    BY <1>4 DEF RunStatement
  <2>4. pc'["exec"] = label /\ local'["exec"] = l => ReadAt("exec")'
    BY <1>0, <2>1, <2>2, <2>3 DEF ReadAt, logVars, snapVars
  <2> QED BY <1>q, <2>2, <2>3, <2>4
<1>5. CASE StatementFails
  <2>1. PICK l : l = [local["exec"] EXCEPT !.retried = TRUE]
    OBVIOUS
  <2>2. Moves("exec", "sync", l) \/ Moves("exec", "idle", NoLocal)
    BY <1>0, <1>5, <2>1, ExecMoves DEF NodeTypes
  <2>3. /\ l.op = local["exec"].op /\ l.sql = local["exec"].sql /\ l.written = local["exec"].written
    BY <1>0, <2>1 DEF Locals
  <2>4. pc["exec"] = "run" /\ UNCHANGED <<logVars, snapVars, replicaState, acked>>
    BY <1>5 DEF StatementFails
  <2>5. pc'["exec"] = "sync" /\ local'["exec"] = l => ReadAt("exec")'
    BY <1>0, <2>3, <2>4 DEF ReadAt, logVars, snapVars
  <2>6. pc'["exec"] = "idle" /\ local'["exec"] = NoLocal => ReadAt("exec")'
    BY DEF ReadAt, NoLocal
  <2> QED BY <1>q, <2>2, <2>4, <2>5, <2>6
<1>6. CASE MarkBegin
  <2>1. PICK l : l = [local["exec"] EXCEPT !.compacted = snapshotManifest]
    OBVIOUS
  <2>2. Moves("exec", "marked", l)
    BY <1>0, <1>6, <2>1, ExecMoves DEF NodeTypes
  <2>3. /\ l.op = local["exec"].op /\ l.sql = local["exec"].sql /\ l.compacted = snapshotManifest
    BY <1>0, <2>1 DEF Locals
  <2>4. pc["exec"] = "mark" /\ UNCHANGED <<logVars, snapVars, replicaState, acked>>
    BY <1>6 DEF MarkBegin
  <2>5. pc'["exec"] = "marked" /\ local'["exec"] = l => ReadAt("exec")'
    BY <1>0, <2>3, <2>4 DEF ReadAt, logVars, snapVars
  <2> QED BY <1>q, <2>2, <2>4, <2>5
<1>7. CASE MarkApplied
  <2>1. PICK l : l = [local["exec"] EXCEPT !.compacted = 0]
    OBVIOUS
  <2>2. Moves("exec", "threshold", l)
    BY <1>0, <1>7, <2>1, ExecMoves DEF NodeTypes
  <2>3. /\ l.op = local["exec"].op /\ l.sql = local["exec"].sql
    BY <1>0, <2>1 DEF Locals
  <2>4. /\ pc["exec"] = "marked" /\ UNCHANGED <<logVars, snapshotSql, replicaState, acked>>
        /\ manifestFile' = local["exec"].compacted /\ snapshotManifest' = local["exec"].compacted
    BY <1>7 DEF MarkApplied
  <2>5. local["exec"].compacted = manifestFile
    <3>1. replicaState # "DOWN"
      BY <1>0, <2>4, BusyThread DEF NodeTypes
    <3> QED BY <1>0, <1>f, <2>4, <3>1 DEF ReadAt
  <2>6. pc'["exec"] = "threshold" /\ local'["exec"] = l => ReadAt("exec")'
    BY <1>0, <2>3, <2>4 DEF ReadAt, logVars
  <2>7. /\ UNCHANGED <<wal, lastSequence, requestIds, snapshotSql, manifestFile>>
        /\ snapshotManifest' = manifestFile /\ acked' \subseteq requestIds /\ acked' = acked
    BY <1>s, <2>4, <2>5 DEF logVars
  <2>8. pc["exec"] \notin {"idle", "manifest", "compact"}
    BY <2>4
  <2> QED BY <1>m, <2>2, <2>6, <2>7, <2>8
<1>8. CASE SkipSnapshot
  <2>1. PICK l : l = local["exec"]
    OBVIOUS
  <2>2. PICK label \in {"reply", "fullsync"} : Moves("exec", label, l)
    <3>1. AfterSnapshot("exec") \in {"reply", "fullsync"}
      BY <1>0, <1>n DEF AfterSnapshot, NodeTypes
    <3> QED BY <1>0, <1>8, <2>1, <3>1, ExecMoves DEF NodeTypes
  <2>3. pc["exec"] = "threshold" /\ UNCHANGED <<logVars, snapVars, replicaState, acked>>
    BY <1>8 DEF SkipSnapshot
  <2>4. pc'["exec"] = label /\ local'["exec"] = l => ReadAt("exec")'
    BY <1>0, <2>1, <2>2, <2>3 DEF ReadAt, logVars, snapVars
  <2> QED BY <1>q, <2>2, <2>3, <2>4
<1>9. CASE MaybeSnapshot
  <2>1. PICK l : l = [local["exec"] EXCEPT !.compacted = lastSequence, !.list = snapshotSql]
    OBVIOUS
  <2>2. Moves("exec", "readwal", l)
    BY <1>0, <1>9, <2>1, ExecMoves DEF NodeTypes
  <2>3. /\ l.op = local["exec"].op /\ l.sql = local["exec"].sql
        /\ l.compacted = lastSequence /\ l.list = snapshotSql
    BY <1>0, <2>1 DEF Locals
  <2>4. pc["exec"] = "threshold" /\ UNCHANGED <<logVars, snapVars, replicaState, acked>>
    BY <1>9 DEF MaybeSnapshot
  <2>5. pc'["exec"] = "readwal" /\ local'["exec"] = l => ReadAt("exec")'
    BY <1>0, <2>3, <2>4 DEF ReadAt, logVars, snapVars
  <2> QED BY <1>q, <2>2, <2>4, <2>5
<1>10. CASE Reply
  <2>1. Moves("exec", "idle", NoLocal)
    BY <1>0, <1>10, ExecMoves DEF NodeTypes
  <2>2. /\ pc["exec"] = "reply" /\ UNCHANGED <<logVars, snapVars, replicaState>>
        /\ acked' = IF local["exec"].op = "write" THEN acked \cup {local["exec"].sql} ELSE acked
    BY <1>10 DEF Reply
  <2>3. local["exec"].op = "write" => local["exec"].sql \in requestIds
    BY <1>0 DEF ReadAt
  <2>4. /\ UNCHANGED <<wal, lastSequence, requestIds, snapshotSql, manifestFile>>
        /\ replicaState' # "DOWN" => snapshotManifest' = manifestFile
        /\ acked' \subseteq requestIds
    BY <1>f, <1>s, <2>2, <2>3 DEF logVars, snapVars
  <2>5. pc'["exec"] = "idle" /\ local'["exec"] = NoLocal => ReadAt("exec")'
    BY DEF ReadAt, NoLocal
  <2>6. pc["exec"] \notin {"idle", "manifest", "compact"}
    BY <2>2
  <2>7. AloneOK' /\ LogicalLog' = LogicalLog
    BY <1>m, <2>1, <2>4, <2>5, <2>6
  <2> QED BY <2>2, <2>3, <2>7
<1> QED
  BY <1>1, <1>2, <1>3, <1>4, <1>5, <1>6, <1>7, <1>8, <1>9, <1>10 DEF ExecStep

(* What the snapshot handler has after reading the log is what the files stand for. *)
LEMMA ReadWalList ==
  ASSUME NodeInv, AheadInv, Alone, AloneOK, NEW t \in Threads, pc[t] = "readwal"
  PROVE  local[t].list \o SqlBetween(wal, 0, IF t = "snapshot" THEN NoBound
                                             ELSE local[t].compacted + 1) = Files
<1>0. NodeTypes /\ ReadAt(t) /\ OneHandler /\ FilesOK
  BY NodeTyped DEF AloneOK
<1>1. t \in {"exec", "snapshot"}
  BY <1>0 DEF OneHandler, Threads
<1> DEFINE to == IF t = "snapshot" THEN NoBound ELSE local[t].compacted + 1
<1>2. to \in Nat /\ lastSequence < to
  BY <1>0, <1>1 DEF ReadAt, NodeTypes
<1>3. \A i \in 1 .. Len(wal) : wal[i].sequence > manifestFile
  <2>1. \A u \in Threads : pc[u] # "compact"
    BY <1>0 DEF OneHandler
  <2> QED BY <1>0, <2>1 DEF FilesOK
<1> HIDE DEF to
<1>4. SqlBetween(wal, 0, to) = SqlBetween(wal, manifestFile, to)
  BY <1>0, <1>2, <1>3, SqlBetweenStart DEF NodeTypes
<1>5. SqlBetween(wal, manifestFile, to) = SqlBetween(wal, manifestFile, NoBound)
  BY <1>0, <1>2, SqlBetweenEnd DEF NodeTypes
<1>6. local[t].list = snapshotSql
  BY <1>0 DEF ReadAt
<1> QED
  BY <1>4, <1>5, <1>6 DEF Files, to

(* snapshot.sql is replaced by what the files stand for, ... *)
LEMMA WriteSqlAlone ==
  ASSUME NodeInv, AheadInv, Alone, AloneOK, NodeInv', AheadInv', Alone',
         NEW t \in Threads, WriteSnapshotSql(t)
  PROVE  AloneOK' /\ LogicalLog' = LogicalLog /\ acked' = acked
<1>0. NodeTypes /\ ReadAt(t) /\ OneHandler /\ FilesOK
  BY NodeTyped DEF AloneOK
<1>1. PICK l : l = local[t]
  OBVIOUS
<1>2. /\ Moves(t, "manifest", l) /\ pc[t] = "writesql" /\ snapshotSql' = local[t].list
      /\ UNCHANGED <<wal, lastSequence, requestIds, manifestFile, snapshotManifest, replicaState, acked>>
  BY <1>0, <1>1, ThreadMoves DEF WriteSnapshotSql, logVars, NodeTypes
<1>3. t # "refresh"
  BY <1>0, <1>2 DEF OneHandler
<1>4. /\ OneHandler'
      /\ pc'[t] = "manifest" /\ local'[t] = l
      /\ \A u \in Threads : u # t => pc[u] = "idle" /\ pc'[u] = "idle" /\ local'[u] = NoLocal
  BY <1>0, <1>2, <1>3, AloneMove DEF SnapshotLabels
<1>5. ReadAt(t)'
  BY <1>0, <1>1, <1>2, <1>4 DEF ReadAt
<1>6. \A u \in Threads : ReadAt(u)'
  BY <1>4, <1>5, OthersRead
<1>7. LogicalLog' = LogicalLog
  <2>1. SnapshotHalfWritten' /\ ~SnapshotHalfWritten
    BY <1>2, <1>4 DEF SnapshotHalfWritten
  <2>2. LogicalLog' = snapshotSql'
    BY <2>1 DEF LogicalLog
  <2>3. LogicalLog = Files
    BY <2>1, AloneFacts
  <2>4. local[t].list = Files
    BY <1>0, <1>2 DEF ReadAt
  <2> QED BY <1>2, <2>2, <2>3, <2>4
<1>8. FilesOK'
  <2>1. Elements(LogicalLog)' = Elements(LogicalLog)
    BY <1>7 DEF Elements
  <2>2. (\A u \in Threads : pc[u] # "compact")
    BY <1>2, <1>4
  <2> QED BY <1>0, <1>2, <2>1, <2>2 DEF FilesOK
<1> QED
  BY <1>2, <1>4, <1>6, <1>7, <1>8 DEF AloneOK

(* ... the manifest follows, and the log is part of the snapshot from then on, ... *)
LEMMA SaveManifestAlone ==
  ASSUME NodeInv, AheadInv, Alone, AloneOK, NodeInv', AheadInv', Alone',
         NEW t \in Threads, SaveManifest(t)
  PROVE  AloneOK' /\ LogicalLog' = LogicalLog /\ acked' = acked
<1>0. NodeTypes /\ ReadAt(t) /\ OneHandler /\ FilesOK
  BY NodeTyped DEF AloneOK
<1>1. PICK l : l = local[t]
  OBVIOUS
<1>i. ~local[t].installing
  BY AloneFacts
<1>2. /\ Moves(t, "compact", l) /\ pc[t] = "manifest" /\ manifestFile' = local[t].compacted
      /\ snapshotManifest' = local[t].compacted
      /\ UNCHANGED <<wal, lastSequence, requestIds, snapshotSql, replicaState, acked>>
  BY <1>0, <1>1, <1>i, ThreadMoves DEF SaveManifest, logVars, NodeTypes
<1>3. t # "refresh" /\ local[t].compacted = lastSequence
  BY <1>0, <1>2 DEF OneHandler, ReadAt
<1>4. /\ OneHandler'
      /\ pc'[t] = "compact" /\ local'[t] = l
      /\ \A u \in Threads : u # t => pc[u] = "idle" /\ pc'[u] = "idle" /\ local'[u] = NoLocal
  BY <1>0, <1>2, <1>3, AloneMove DEF SnapshotLabels
<1>5. ReadAt(t)'
  BY <1>0, <1>1, <1>2, <1>3, <1>4 DEF ReadAt
<1>6. \A u \in Threads : ReadAt(u)'
  BY <1>4, <1>5, OthersRead
<1>7. LogicalLog' = LogicalLog
  <2>1. SnapshotHalfWritten /\ ~SnapshotHalfWritten'
    BY <1>2, <1>4 DEF SnapshotHalfWritten
  <2>2. LogicalLog = snapshotSql
    BY <2>1 DEF LogicalLog
  <2>3. Compacted' = lastSequence
    BY <1>2, <1>3 DEF Compacted
  <2>4. SqlBetween(wal, lastSequence, NoBound) = <<>>
    BY <1>0, SqlBetweenNone DEF NodeTypes
  <2>5. SqlBetween(wal, Compacted, NoBound)' = <<>>
    BY <1>2, <2>3, <2>4 DEF SqlBetween, CountBelow, NoBound
  <2>6. LogicalLog' = snapshotSql \o <<>>
    BY <1>2, <2>1, <2>5 DEF LogicalLog
  <2> QED BY <1>0, <2>2, <2>6, ConcatEmptySeq DEF NodeTypes
<1>8. FilesOK'
  <2>1. Elements(LogicalLog)' = Elements(LogicalLog)
    BY <1>7 DEF Elements
  <2> QED BY <1>0, <1>2, <1>4, <2>1 DEF FilesOK
<1> QED
  BY <1>2, <1>4, <1>6, <1>7, <1>8 DEF AloneOK

(* ... so that the compaction drops nothing that the files stand for. *)
LEMMA CompactAlone ==
  ASSUME NodeInv, AheadInv, Alone, AloneOK, NodeInv', AheadInv', Alone',
         NEW t \in Threads, Compact(t)
  PROVE  AloneOK' /\ LogicalLog' = LogicalLog /\ acked' = acked
<1>0. NodeTypes /\ ReadAt(t) /\ OneHandler /\ FilesOK
  BY NodeTyped DEF AloneOK
<1>1. PICK l : l = local[t]
  OBVIOUS
<1>2. /\ Moves(t, "invalidate", l) /\ pc[t] = "compact"
      /\ UNCHANGED <<lastSequence, requestIds, snapshotSql, manifestFile, snapshotManifest,
                     replicaState, acked>>
  BY <1>0, <1>1, ThreadMoves DEF Compact, snapVars, NodeTypes
<1>3. t # "refresh" /\ local[t].compacted = lastSequence /\ manifestFile = lastSequence
  BY <1>0, <1>2 DEF OneHandler, ReadAt
<1>w. wal' = <<>>
  <2>1. wal' = SubSeq(wal, CountBelow(wal, lastSequence + 1) + 1, Len(wal))
    BY <1>3 DEF Compact
  <2>2. SubSeq(wal, CountBelow(wal, lastSequence + 1) + 1, Len(wal)) = <<>>
    <3>1. lastSequence \in Nat /\ lastSequence <= lastSequence /\ Ordered(wal, lastSequence)
      BY <1>0 DEF NodeTypes
    <3> QED BY <3>1, OrderedCompact
  <2> QED BY <2>1, <2>2
<1>4. /\ OneHandler'
      /\ pc'[t] = "invalidate" /\ local'[t] = l
      /\ \A u \in Threads : u # t => pc[u] = "idle" /\ pc'[u] = "idle" /\ local'[u] = NoLocal
  BY <1>0, <1>2, <1>3, AloneMove DEF SnapshotLabels
<1>5. ReadAt(t)'
  BY <1>0, <1>1, <1>2, <1>3, <1>4 DEF ReadAt
<1>6. \A u \in Threads : ReadAt(u)'
  BY <1>4, <1>5, OthersRead
<1>7. LogicalLog' = LogicalLog
  <2>1. ~SnapshotHalfWritten /\ ~SnapshotHalfWritten'
    BY <1>2, <1>4 DEF SnapshotHalfWritten
  <2>2. LogicalLog = Files
    BY <2>1, AloneFacts
  <2>3. SqlBetween(wal, manifestFile, NoBound) = <<>>
    BY <1>0, <1>3, SqlBetweenNone DEF NodeTypes
  <2>4. Compacted' = lastSequence
    BY <1>0, <1>2, <1>3 DEF Compacted, FilesOK
  <2>5. SqlBetween(wal, Compacted, NoBound)' = <<>>
    <3>1. Ordered(wal', lastSequence)
      BY <1>2, NodeTyped DEF NodeInv
    <3>2. SqlBetween(wal', lastSequence, NoBound) = <<>>
      BY <1>0, <3>1, SqlBetweenNone DEF NodeTypes
    <3> QED BY <2>4, <3>2 DEF SqlBetween, CountBelow, NoBound
  <2>6. LogicalLog' = snapshotSql \o <<>>
    BY <1>2, <2>1, <2>5 DEF LogicalLog
  <2> QED BY <2>2, <2>3, <2>6 DEF Files
<1>8. FilesOK'
  <2>1. Elements(LogicalLog)' = Elements(LogicalLog)
    BY <1>7 DEF Elements
  <2>2. Len(wal') = 0
    BY <1>w
  <2> QED BY <1>0, <1>2, <2>1, <2>2 DEF FilesOK
<1> QED
  BY <1>2, <1>4, <1>6, <1>7, <1>8 DEF AloneOK

(* A write, a replicated write and an entry of a peer are logged. *)
LEMMA WriteAlone ==
  ASSUME NodeInv, AheadInv, Alone, AloneOK, NodeInv', AheadInv', Alone',
         NEW id \in RequestIds, Write(id) \/ Replay(id)
  PROVE  /\ AloneOK' /\ LogicalLog' = Append(LogicalLog, id) /\ acked' = acked
         /\ id \notin requestIds /\ Logs(id) /\ local'["exec"].written = lastSequence'
<1>0. NodeTypes /\ OneHandler /\ FilesOK
  BY NodeTyped DEF AloneOK
<1>1. /\ ~containsRequestId(id) /\ \A u \in Threads : pc[u] = "idle"
      /\ LogRequest(id, "exec", "write", "sync")
      /\ UNCHANGED <<snapshotSql, manifestFile, snapshotManifest, replicaState, acked>>
  BY AloneFacts DEF Write, Replay, MayBegin, snapVars
<1>2. Find(id) = {} /\ id \notin requestIds
  BY <1>1 DEF containsRequestId
<1>3. Logs(id)
  <2>1. lastSequence \in Nat /\ MaxSequence \in Nat
    BY <1>0, DataNodeAssumption DEF NodeTypes
  <2> QED BY <1>1, <1>2, <2>1 DEF LogRequest, Logs
<1>4. PICK w \in {wal[i].sequence : i \in Find(id)} \cup {lastSequence + 1} :
        Moves("exec", "sync", [NoLocal EXCEPT !.op = "write", !.sql = id, !.written = w])
  BY <1>0, ExecMoves DEF NodeTypes
<1>5. w = lastSequence + 1
  BY <1>2, <1>4
<1>6. PICK l : l = [NoLocal EXCEPT !.op = "write", !.sql = id, !.written = lastSequence + 1]
  OBVIOUS
<1>7. l.op = "write" /\ l.sql = id /\ l.written = lastSequence + 1
  BY <1>6 DEF NoLocal
<1>8. /\ OneHandler'
      /\ pc'["exec"] = "sync" /\ local'["exec"] = l
      /\ \A u \in Threads : u # "exec" => pc[u] = "idle" /\ pc'[u] = "idle" /\ local'[u] = NoLocal
  <2>1. Moves("exec", "sync", l)
    BY <1>4, <1>5, <1>6
  <2> QED BY <1>0, <1>1, <2>1, AloneMove DEF NodeTypes
<1>9. \A u \in Threads : pc[u] \notin {"manifest", "compact"} /\ pc'[u] \notin {"manifest", "compact"}
  BY <1>1, <1>8
<1>10. /\ FilesOK' /\ LogicalLog' = Append(LogicalLog, id)
       /\ Len(wal)' > 0
       /\ wal'[Len(wal)'] = [sequence |-> lastSequence', requestId |-> id]
  BY <1>1, <1>2, <1>3, <1>9, LogsFiles
<1>11. lastSequence' = lastSequence + 1 /\ id \in requestIds'
  BY <1>1, <1>2 DEF LogRequest
<1>12. ReadAt("exec")'
  BY <1>7, <1>8, <1>10, <1>11 DEF ReadAt
<1>13. \A u \in Threads : ReadAt(u)'
  BY <1>0, <1>8, <1>12, OthersRead DEF NodeTypes
<1> QED
  BY <1>1, <1>2, <1>3, <1>7, <1>8, <1>10, <1>11, <1>13 DEF AloneOK

LEMMA RecoverAlone ==
  ASSUME NodeInv, AheadInv, Alone, AloneOK, NodeInv', AheadInv', Alone',
         NEW t \in Threads, NEW id \in RequestIds, RecoverEntry(t, id)
  PROVE  /\ AloneOK' /\ LogicalLog' = Append(LogicalLog, id) /\ acked' = acked
         /\ id \notin requestIds /\ Logs(id)
<1>0. NodeTypes /\ OneHandler /\ FilesOK /\ ReadAt(t)
  BY NodeTyped DEF AloneOK
<1>1. /\ id \notin requestIds /\ Logs(id) /\ pc[t] = "recover"
      /\ UNCHANGED <<snapshotSql, manifestFile, snapshotManifest, replicaState, acked, pc, local>>
  BY DEF RecoverEntry, containsRequestId, Logs, snapVars
<1>2. \A u \in Threads : u # t => pc[u] = "idle" /\ local[u] = NoLocal
  BY <1>0, <1>1 DEF OneHandler
<1>3. \A u \in Threads : pc[u] \notin {"manifest", "compact"} /\ pc'[u] \notin {"manifest", "compact"}
  BY <1>1, <1>2
<1>4. FilesOK' /\ LogicalLog' = Append(LogicalLog, id)
  BY <1>1, <1>3, LogsFiles
<1>5. requestIds \subseteq requestIds'
  BY <1>1 DEF Logs
<1>6. ReadAt(t)'
  BY <1>0, <1>1, <1>5 DEF ReadAt
<1>7. \A u \in Threads : ReadAt(u)'
  BY <1>1, <1>2, <1>6, OthersRead
<1>8. OneHandler'
  BY <1>0, <1>1 DEF OneHandler
<1> QED
  BY <1>1, <1>4, <1>7, <1>8 DEF AloneOK

LEMMA ThreadAlone ==
  ASSUME NodeInv, AheadInv, Alone, AloneOK, NodeInv', AheadInv', Alone',
         NEW t \in Threads,
         \/ ResetAndReplay(t) \/ ReplayFails(t) \/ ReadWal(t) \/ Invalidate(t)
         \/ ApplyPendingWal(t) \/ SyncEngineFull(t) \/ SetServing(t)
  PROVE  AloneOK' /\ LogicalLog' = LogicalLog /\ acked' = acked
<1>0. /\ NodeTypes /\ ReadAt(t) /\ OneHandler /\ FilesOK /\ local[t] \in Locals
  BY NodeTyped DEF AloneOK, NodeTypes
<1>s. acked \subseteq requestIds
  BY <1>0 DEF FilesOK
<1>b. pc[t] # "idle"
  BY DEF ResetAndReplay, ReplayFails, ReadWal, Invalidate, ApplyPendingWal, SyncEngineFull, SetServing
<1>f. snapshotManifest = manifestFile /\ replicaState # "DOWN"
  <2>1. replicaState # "DOWN"
    BY <1>0, <1>b, BusyThread DEF NodeTypes
  <2> QED BY <1>0, <2>1 DEF FilesOK
<1>n. ~local[t].installing
  BY AloneFacts
<1>o. /\ t = "refresh" => local[t].op = "refresh" /\ pc[t] \in {"recover", "fullsync", "replay", "setseq"}
      /\ t = "snapshot" => pc[t] \in SnapshotLabels
      /\ t = "exec" => OpAt(pc[t], local[t])
  BY <1>0, <1>b DEF OneHandler, SnapshotLabels, NodeTypes, ControlOK, OpOK
<1>q. ASSUME NEW label, NEW l, Moves(t, label, l),
             label = "idle" => l = NoLocal,
             t = "exec" => label # "readlast",
             t = "snapshot" => label \in SnapshotLabels,
             t = "refresh" => label \in RefreshLabels /\ (label # "idle" => l.op = "refresh"),
             pc[t] \notin {"manifest", "compact"}, label \notin {"manifest", "compact"},
             UNCHANGED <<logVars, snapshotSql, snapshotManifest, acked>>, manifestFile' = manifestFile,
             pc'[t] = label /\ local'[t] = l => ReadAt(t)'
      PROVE  AloneOK' /\ LogicalLog' = LogicalLog /\ acked' = acked
  <2>1. /\ UNCHANGED <<wal, lastSequence, requestIds, snapshotSql, manifestFile>>
        /\ snapshotManifest' = manifestFile
        /\ acked' \subseteq requestIds /\ acked' = acked
    BY <1>f, <1>q, <1>s DEF logVars
  <2> QED BY <1>b, <1>q, <2>1, QuietMove
<1>i. pc'[t] = "idle" /\ local'[t] = NoLocal => ReadAt(t)'
  BY DEF ReadAt, NoLocal
<1>1. CASE ResetAndReplay(t)
  <2>1. PICK l : l = [local[t] EXCEPT !.list = <<>>, !.compacted = 0]
    OBVIOUS
  <2>2. PICK label : label = IF t = "exec" /\ local[t].op # "start" THEN "run" ELSE "setseq"
    OBVIOUS
  <2>3. Moves(t, label, l)
    BY <1>0, <1>1, <2>1, <2>2, ThreadMoves DEF NodeTypes
  <2>4. l.op = local[t].op /\ l.sql = local[t].sql /\ l.written = local[t].written
    BY <1>0, <2>1 DEF Locals
  <2>5. /\ pc[t] = "replay" /\ UNCHANGED <<logVars, snapVars, acked>>
    BY <1>1 DEF ResetAndReplay
  <2>6. t # "snapshot" /\ (t = "refresh" => l.op = "refresh" /\ label = "setseq")
    BY <1>o, <2>2, <2>4, <2>5 DEF SnapshotLabels
  <2>7. pc'[t] = label /\ local'[t] = l => ReadAt(t)'
    BY <1>0, <2>2, <2>4, <2>5 DEF ReadAt, logVars
  <2>8. label \in {"run", "setseq"} /\ UNCHANGED <<logVars, snapshotSql, snapshotManifest, acked>> /\ manifestFile' = manifestFile
    BY <2>2, <2>5 DEF snapVars
  <2> QED BY <1>q, <2>3, <2>5, <2>6, <2>7, <2>8 DEF RefreshLabels
<1>2. CASE ReplayFails(t)
  <2>1. PICK l : l = [local[t] EXCEPT !.retried = TRUE]
    OBVIOUS
  <2>2. (t = "exec" /\ Moves(t, "sync", l)) \/ Moves(t, "idle", NoLocal)
    BY <1>0, <1>2, <2>1, ThreadMoves DEF NodeTypes
  <2>3. l.op = local[t].op /\ l.sql = local[t].sql /\ l.written = local[t].written
    BY <1>0, <2>1 DEF Locals
  <2>4. pc[t] = "replay" /\ UNCHANGED <<logVars, snapVars, acked>>
    BY <1>2 DEF ReplayFails
  <2>5. pc'[t] = "sync" /\ local'[t] = l => ReadAt(t)'
    BY <1>0, <2>3, <2>4 DEF ReadAt, logVars
  <2>6. UNCHANGED <<logVars, snapshotSql, snapshotManifest, acked>> /\ manifestFile' = manifestFile
    BY <2>4 DEF snapVars
  <2>7. CASE t = "exec" /\ Moves(t, "sync", l)
    BY <1>q, <2>4, <2>5, <2>6, <2>7
  <2>8. CASE Moves(t, "idle", NoLocal)
    BY <1>i, <1>q, <2>4, <2>6, <2>8 DEF SnapshotLabels, RefreshLabels
  <2> QED BY <2>2, <2>7, <2>8
<1>3. CASE ReadWal(t)
  <2>1. PICK l : l = [local[t] EXCEPT !.list = local[t].list \o SqlBetween(wal, 0,
                        IF t = "snapshot" THEN NoBound ELSE local[t].compacted + 1)]
    OBVIOUS
  <2>2. PICK label : label = IF t = "snapshot" THEN "readlast" ELSE "writesql"
    OBVIOUS
  <2>3. Moves(t, label, l)
    BY <1>0, <1>3, <2>1, <2>2, ThreadMoves DEF NodeTypes
  <2>4. pc[t] = "readwal" /\ UNCHANGED <<logVars, snapVars, acked>>
    BY <1>3 DEF ReadWal
  <2>5. /\ l.op = local[t].op /\ l.sql = local[t].sql /\ l.compacted = local[t].compacted
        /\ l.list = Files
    <3>1. local[t].list \o SqlBetween(wal, 0, IF t = "snapshot" THEN NoBound
                                              ELSE local[t].compacted + 1) = Files
      BY <2>4, ReadWalList
    <3>2. l = [local[t] EXCEPT !.list = Files]
      BY <2>1, <3>1
    <3> QED BY <1>0, <3>2 DEF Locals
  <2>6. UNCHANGED <<logVars, snapshotSql, snapshotManifest, acked>> /\ manifestFile' = manifestFile
    BY <2>4 DEF snapVars
  <2>7. Files' = Files
    BY <2>6 DEF Files, SqlBetween, CountBelow, NoBound, logVars
  <2>8. t # "refresh" /\ (t # "snapshot" => t = "exec")
    BY <1>o, <2>4 DEF Threads
  <2>9. pc'[t] = label /\ local'[t] = l => ReadAt(t)'
    BY <1>0, <2>2, <2>4, <2>5, <2>6, <2>7, <2>8 DEF ReadAt, logVars
  <2>10. label \in {"readlast", "writesql"} /\ (t = "exec" => label # "readlast")
    BY <2>2
  <2> QED BY <1>q, <2>3, <2>4, <2>6, <2>8, <2>9, <2>10 DEF SnapshotLabels
<1>4. CASE Invalidate(t)
  <2>1. PICK l : l = IF t = "snapshot" THEN NoLocal
                     ELSE [local[t] EXCEPT !.installing = FALSE, !.list = <<>>, !.compacted = 0]
    OBVIOUS
  <2>2. PICK label : label = AfterSnapshot(t)
    OBVIOUS
  <2>3. Moves(t, label, l)
    BY <1>0, <1>4, <2>1, <2>2, ThreadMoves DEF NodeTypes
  <2>4. pc[t] = "invalidate" /\ UNCHANGED <<logVars, snapVars, acked>>
    BY <1>4 DEF Invalidate
  <2>5. t # "refresh" /\ (t # "snapshot" => t = "exec")
    BY <1>o, <2>4 DEF Threads
  <2>6. UNCHANGED <<logVars, snapshotSql, snapshotManifest, acked>> /\ manifestFile' = manifestFile
    BY <2>4 DEF snapVars
  <2>7. CASE t = "snapshot"
    <3>1. label = "idle" /\ l = NoLocal
      BY <2>1, <2>2, <2>7 DEF AfterSnapshot
    <3> QED BY <1>i, <1>q, <2>3, <2>4, <2>5, <2>6, <2>7, <3>1 DEF SnapshotLabels
  <2>8. CASE t = "exec"
    <3>1. label \in {"reply", "fullsync"}
      BY <1>n, <2>2, <2>8 DEF AfterSnapshot
    <3>2. l.op = local[t].op /\ l.sql = local[t].sql
      BY <1>0, <2>1, <2>8 DEF Locals
    <3>3. pc'[t] = label /\ local'[t] = l => ReadAt(t)'
      BY <1>0, <2>4, <3>1, <3>2 DEF ReadAt, logVars
    <3> QED BY <1>q, <2>3, <2>4, <2>6, <2>8, <3>1, <3>3
  <2> QED BY <2>5, <2>7, <2>8
<1>5. CASE ApplyPendingWal(t)
  <2>1. PICK l : l = local[t]
    OBVIOUS
  <2>2. PICK label : label = IF t = "exec" THEN "threshold" ELSE "fullsync"
    OBVIOUS
  <2>3. Moves(t, label, l)
    BY <1>0, <1>5, <2>1, <2>2, ThreadMoves DEF NodeTypes
  <2>4. /\ pc[t] = "recover" /\ UNCHANGED <<logVars, snapshotSql, snapshotManifest, acked>>
        /\ manifestFile' \in {manifestFile, snapshotManifest}
    BY <1>5 DEF ApplyPendingWal
  <2>5. manifestFile' = manifestFile
    BY <1>f, <2>4
  <2>6. t # "snapshot" /\ (t = "refresh" => l.op = "refresh" /\ label = "fullsync")
    BY <1>o, <2>1, <2>2, <2>4 DEF SnapshotLabels
  <2>7. pc'[t] = label /\ local'[t] = l => ReadAt(t)'
    BY <1>0, <2>1, <2>2, <2>4 DEF ReadAt, logVars
  <2>8. label \in {"threshold", "fullsync"}
    BY <2>2
  <2> QED BY <1>q, <2>3, <2>4, <2>5, <2>6, <2>7, <2>8 DEF RefreshLabels
<1>6. CASE SyncEngineFull(t)
  <2>1. PICK l : l = [local[t] EXCEPT !.list = snapshotSql, !.compacted = snapshotManifest]
    OBVIOUS
  <2>2. Moves(t, "replay", l)
    BY <1>0, <1>6, <2>1, ThreadMoves DEF NodeTypes
  <2>3. /\ l.list = snapshotSql /\ l.compacted = snapshotManifest /\ l.op = local[t].op
        /\ l.sql = local[t].sql
    BY <1>0, <2>1 DEF Locals
  <2>4. pc[t] = "fullsync" /\ UNCHANGED <<logVars, snapVars, acked>>
    BY <1>6 DEF SyncEngineFull, ReadSnapshotSql
  <2>5. UNCHANGED <<logVars, snapshotSql, snapshotManifest, acked>> /\ manifestFile' = manifestFile
    BY <2>4 DEF snapVars
  <2>6. t # "snapshot" /\ l.op \in {"start", "refresh"} /\ (t = "refresh" => l.op = "refresh")
    BY <1>o, <2>3, <2>4 DEF SnapshotLabels, OpAt, Threads
  <2>7. pc'[t] = "replay" /\ local'[t] = l => ReadAt(t)'
    BY <1>0, <2>3, <2>5, <2>6 DEF ReadAt, Requests
  <2> QED BY <1>q, <2>2, <2>4, <2>5, <2>6, <2>7 DEF RefreshLabels
<1>7. CASE SetServing(t)
  <2>1. Moves(t, "idle", NoLocal)
    BY <1>0, <1>7, ThreadMoves DEF NodeTypes
  <2>2. pc[t] = "setseq" /\ UNCHANGED <<logVars, snapVars, acked>>
    BY <1>7 DEF SetServing
  <2>3. UNCHANGED <<logVars, snapshotSql, snapshotManifest, acked>> /\ manifestFile' = manifestFile
    BY <2>2 DEF snapVars
  <2> QED BY <1>i, <1>q, <2>1, <2>2, <2>3 DEF SnapshotLabels, RefreshLabels
<1> QED
  BY <1>1, <1>2, <1>3, <1>4, <1>5, <1>6, <1>7

LEMMA AdminAlone ==
  ASSUME NodeInv, AheadInv, Alone, AloneOK, NodeInv', AheadInv', Alone',
         AdminSnapshot \/ AdminReadLast \/ RefreshShards \/ Start
  PROVE  AloneOK' /\ LogicalLog' = LogicalLog /\ acked' = acked
<1>0. NodeTypes /\ OneHandler /\ FilesOK /\ ReadAt("snapshot") /\ local["snapshot"] \in Locals
  BY NodeTyped DEF AloneOK, NodeTypes
<1>s. acked \subseteq requestIds
  BY <1>0 DEF FilesOK
<1>f. replicaState # "DOWN" => snapshotManifest = manifestFile
  BY <1>0 DEF FilesOK
<1>o. "overlap" \notin faults
  BY AloneFacts
<1>1. CASE AdminSnapshot
  <2>1. PICK l : l = [local["snapshot"] EXCEPT !.list = snapshotSql]
    OBVIOUS
  <2>2. Moves("snapshot", "readwal", l)
    BY <1>0, <1>1, <2>1, AdminMoves DEF NodeTypes
  <2>3. /\ \A u \in Threads : pc[u] = "idle"
        /\ UNCHANGED <<wal, lastSequence, requestIds, snapshotSql, manifestFile, snapshotManifest,
                       replicaState, acked>>
    BY <1>1, <1>o DEF AdminSnapshot, MayBegin, logVars, snapVars
  <2>4. l.op = "none" /\ l.list = snapshotSql
    <3>1. local["snapshot"] = NoLocal
      BY <1>0, <2>3 DEF OneHandler, NodeTypes
    <3> QED BY <1>0, <2>1, <3>1 DEF NoLocal, Locals
  <2>5. pc'["snapshot"] = "readwal" /\ local'["snapshot"] = l => ReadAt("snapshot")'
    BY <2>3, <2>4 DEF ReadAt, Requests
  <2>6. pc["snapshot"] \notin {"manifest", "compact"}
    BY <1>0, <2>3 DEF NodeTypes
  <2>7. /\ replicaState' # "DOWN" => snapshotManifest' = manifestFile
        /\ acked' \subseteq requestIds /\ acked' = acked
    BY <1>f, <1>s, <2>3
  <2> QED BY <1>0, <2>2, <2>3, <2>5, <2>6, <2>7, QuietMove DEF SnapshotLabels, NodeTypes
<1>2. CASE AdminReadLast
  <2>1. PICK l : l = [local["snapshot"] EXCEPT !.compacted = lastSequence]
    OBVIOUS
  <2>2. Moves("snapshot", "writesql", l)
    BY <1>0, <1>2, <2>1, AdminMoves DEF NodeTypes
  <2>3. /\ pc["snapshot"] = "readlast"
        /\ UNCHANGED <<wal, lastSequence, requestIds, snapshotSql, manifestFile, snapshotManifest,
                       replicaState, acked>>
    BY <1>2 DEF AdminReadLast, logVars, snapVars
  <2>4. /\ l.op = local["snapshot"].op /\ l.sql = local["snapshot"].sql
        /\ l.list = local["snapshot"].list /\ l.compacted = lastSequence
    BY <1>0, <2>1 DEF Locals
  <2>5. Files' = Files
    BY <2>3 DEF Files, SqlBetween, CountBelow, NoBound
  <2>6. pc'["snapshot"] = "writesql" /\ local'["snapshot"] = l => ReadAt("snapshot")'
    BY <1>0, <2>3, <2>4, <2>5 DEF ReadAt
  <2>7. pc["snapshot"] \notin {"idle", "manifest", "compact"}
    BY <2>3
  <2>8. /\ replicaState' # "DOWN" => snapshotManifest' = manifestFile
        /\ acked' \subseteq requestIds /\ acked' = acked
    BY <1>f, <1>s, <2>3
  <2> QED BY <1>0, <2>2, <2>3, <2>6, <2>7, <2>8, QuietMove DEF SnapshotLabels, NodeTypes
<1>3. CASE RefreshShards
  <2>1. PICK l : l = [NoLocal EXCEPT !.op = "refresh"]
    OBVIOUS
  <2>2. Moves("refresh", "recover", l)
    BY <1>0, <1>3, <2>1, AdminMoves DEF NodeTypes
  <2>3. /\ \A u \in Threads : pc[u] = "idle"
        /\ UNCHANGED <<wal, lastSequence, requestIds, snapshotSql, manifestFile, snapshotManifest, acked>>
        /\ replicaState # "DOWN"
    BY <1>3, <1>o DEF RefreshShards, MayBegin, HttpUp, logVars, snapVars
  <2>4. l.op = "refresh"
    BY <2>1 DEF NoLocal
  <2>5. pc'["refresh"] = "recover" /\ local'["refresh"] = l => ReadAt("refresh")'
    BY <2>4 DEF ReadAt
  <2>6. pc["refresh"] \notin {"manifest", "compact"}
    BY <1>0, <2>3 DEF NodeTypes
  <2>7. snapshotManifest' = manifestFile /\ acked' \subseteq requestIds /\ acked' = acked
    BY <1>f, <1>s, <2>3
  <2> QED BY <1>0, <2>2, <2>3, <2>4, <2>5, <2>6, <2>7, QuietMove DEF RefreshLabels, NodeTypes
<1>4. CASE Start
  <2>1. PICK l : l = [NoLocal EXCEPT !.op = "start"]
    OBVIOUS
  <2>2. Moves("exec", "recover", l)
    BY <1>0, <1>4, <2>1, ExecMoves DEF NodeTypes
  <2>3. /\ UNCHANGED <<wal, lastSequence, requestIds, snapshotSql, manifestFile, acked>>
        /\ replicaState = "DOWN" /\ snapshotManifest' = manifestFile
    BY <1>4 DEF Start, logVars
  <2>4. \A u \in Threads : pc[u] = "idle"
    BY <1>0, <2>3 DEF NodeTypes, ControlOK, StartOK
  <2>5. l.op = "start"
    BY <2>1 DEF NoLocal
  <2>6. pc'["exec"] = "recover" /\ local'["exec"] = l => ReadAt("exec")'
    BY <2>5 DEF ReadAt
  <2>7. pc["exec"] \notin {"manifest", "compact"}
    BY <1>0, <2>4 DEF NodeTypes
  <2>8. acked' \subseteq requestIds /\ acked' = acked
    BY <1>s, <2>3
  <2> QED BY <1>0, <2>2, <2>3, <2>4, <2>6, <2>7, <2>8, QuietMove DEF NodeTypes
<1> QED
  BY <1>1, <1>2, <1>3, <1>4

LEMMA StillAlone ==
  ASSUME NodeInv, AheadInv, Alone, AloneOK, NodeInv', AheadInv', Alone',
         \/ Crash \/ EngineDies \/ UNCHANGED vars
         \/ \E id \in RequestIds : ReplayDuplicate(id)
  PROVE  /\ AloneOK' /\ LogicalLog' = LogicalLog
         /\ acked' = acked \/ \E id \in requestIds : acked' = acked \cup {id}
<1>0. NodeTypes /\ OneHandler /\ FilesOK /\ \A t \in Threads : ReadAt(t)
  BY NodeTyped DEF AloneOK
<1>1. ASSUME UNCHANGED <<pc, local, logVars, snapVars, replicaState>>,
             acked' = acked \/ \E id \in requestIds : acked' = acked \cup {id}
      PROVE  AloneOK' /\ LogicalLog' = LogicalLog
  <2>1. UNCHANGED <<wal, lastSequence, requestIds, snapshotSql, manifestFile, snapshotManifest>>
    BY <1>1 DEF logVars, snapVars
  <2>2. acked' \subseteq requestIds /\ (replicaState' # "DOWN" => snapshotManifest' = manifestFile)
    BY <1>0, <1>1, <2>1 DEF FilesOK
  <2>3. FilesOK' /\ LogicalLog' = LogicalLog
    BY <1>1, <2>1, <2>2, QuietFiles
  <2>4. Files' = Files
    BY <2>1 DEF Files, SqlBetween, CountBelow, NoBound
  <2>5. pc' = pc /\ local' = local
    BY <1>1
  <2>6. \A t \in Threads : ReadAt(t)'
    BY <1>0, <2>1, <2>4, <2>5 DEF ReadAt
  <2>7. OneHandler'
    BY <1>0, <2>5 DEF OneHandler
  <2> QED BY <2>3, <2>6, <2>7 DEF AloneOK
<1>2. ASSUME NEW id \in RequestIds, ReplayDuplicate(id)
      PROVE  AloneOK' /\ LogicalLog' = LogicalLog /\ \E i \in requestIds : acked' = acked \cup {i}
  <2>1. id \in requestIds
    <3>1. DOMAIN wal = 1 .. Len(wal)
      BY <1>0, LenProperties DEF NodeTypes, Ordered
    <3> QED BY <1>0, <1>2, <3>1 DEF ReplayDuplicate, containsRequestId, Find, FilesOK
  <2>2. UNCHANGED <<pc, local, logVars, snapVars, replicaState>> /\ acked' = acked \cup {id}
    BY <1>2 DEF ReplayDuplicate
  <2> QED BY <1>1, <2>1, <2>2
<1>3. CASE EngineDies \/ UNCHANGED vars
  <2>1. UNCHANGED <<pc, local, logVars, snapVars, replicaState>> /\ acked' = acked
    BY <1>3 DEF EngineDies, vars, logVars, snapVars
  <2> QED BY <1>1, <2>1
<1>4. CASE Crash
  <2>1. /\ pc' = [t \in Threads |-> "idle"] /\ local' = [t \in Threads |-> NoLocal]
        /\ UNCHANGED <<wal, lastSequence, requestIds, snapshotSql, manifestFile, acked>>
        /\ replicaState' = "DOWN"
        /\ \A t \in Threads : pc[t] = "idle"
    BY <1>4, AloneFacts DEF Crash, logVars
  <2>2. \A t \in Threads : pc'[t] = "idle" /\ local'[t] = NoLocal
    BY <2>1
  <2>3. /\ \A t \in Threads : pc'[t] = "manifest" <=> pc[t] = "manifest"
        /\ \A t \in Threads : pc'[t] = "compact" <=> pc[t] = "compact"
    BY <2>1, <2>2
  <2>4. acked' \subseteq requestIds
    BY <1>0, <2>1 DEF FilesOK
  <2>5. FilesOK' /\ LogicalLog' = LogicalLog
    BY <2>1, <2>3, <2>4, QuietFiles
  <2>6. \A t \in Threads : ReadAt(t)'
    BY <2>2 DEF ReadAt, NoLocal, Requests
  <2>7. OneHandler'
    BY <1>0, <2>2 DEF OneHandler, NodeTypes
  <2> QED BY <2>1, <2>5, <2>6, <2>7 DEF AloneOK
<1> QED
  BY <1>2, <1>3, <1>4

(* Every step keeps the files in order and logs, answers or does neither. *)
LEMMA AloneStep ==
  ASSUME NodeInv, AheadInv, Alone, AloneOK, [Next]_vars
  PROVE  /\ AloneOK'
         /\ \/ LogicalLog' = LogicalLog /\ acked' = acked
            \/ LogicalLog' = LogicalLog /\ \E id \in requestIds : acked' = acked \cup {id}
            \/ /\ acked' = acked
               /\ \E id \in RequestIds : id \notin requestIds /\ LogicalLog' = Append(LogicalLog, id)
<1>0. NodeInv' /\ AheadInv' /\ Alone'
  <2>1. faults' = faults
    BY DEF Next, vars
  <2> QED BY <2>1, NodeStep, AheadStep DEF Alone
<1>n. "peer" \notin faults /\ \A t \in Threads : pc[t] # "advance"
  BY AloneFacts
<1>1. ASSUME NEW id \in RequestIds, Write(id) \/ Replay(id)
      PROVE  AloneOK' /\ acked' = acked /\ id \notin requestIds /\ LogicalLog' = Append(LogicalLog, id)
  BY <1>0, <1>1, WriteAlone
<1>2. ASSUME NEW t \in Threads, NEW id \in RequestIds, RecoverEntry(t, id)
      PROVE  AloneOK' /\ acked' = acked /\ id \notin requestIds /\ LogicalLog' = Append(LogicalLog, id)
  BY <1>0, <1>2, RecoverAlone
<1>3. ASSUME Read \/ Cli \/ ExecStep
      PROVE  /\ AloneOK' /\ LogicalLog' = LogicalLog
             /\ acked' = acked \/ \E id \in requestIds : acked' = acked \cup {id}
  BY <1>0, <1>3, ExecAlone
<1>4. ASSUME AdminSnapshot \/ AdminReadLast \/ RefreshShards \/ Start
      PROVE  AloneOK' /\ LogicalLog' = LogicalLog /\ acked' = acked
  BY <1>0, <1>4, AdminAlone
<1>5. ASSUME \/ Crash \/ EngineDies \/ UNCHANGED vars
             \/ \E id \in RequestIds : ReplayDuplicate(id)
      PROVE  /\ AloneOK' /\ LogicalLog' = LogicalLog
             /\ acked' = acked \/ \E id \in requestIds : acked' = acked \cup {id}
  BY <1>0, <1>5, StillAlone
<1>6. ASSUME NEW t \in Threads,
             \/ ResetAndReplay(t) \/ ReplayFails(t) \/ ReadWal(t) \/ Invalidate(t)
             \/ ApplyPendingWal(t) \/ SyncEngineFull(t) \/ SetServing(t)
             \/ WriteSnapshotSql(t) \/ SaveManifest(t) \/ Compact(t)
      PROVE  AloneOK' /\ LogicalLog' = LogicalLog /\ acked' = acked
  BY <1>0, <1>6, ThreadAlone, WriteSqlAlone, SaveManifestAlone, CompactAlone
<1>7. ASSUME NEW t \in Threads, InstallPeerSnapshot(t) \/ AdvanceLastSequence(t)
      PROVE  FALSE
  BY <1>7, <1>n DEF InstallPeerSnapshot, AdvanceLastSequence
<1> QED
  BY <1>1, <1>2, <1>3, <1>4, <1>5, <1>6, <1>7 DEF Next, Step, Request, Progress, ThreadStep

LEMMA AloneInit == ASSUME Init, NodeInv, AheadInv, Alone PROVE AloneOK /\ LogicalLog = <<>> /\ acked = {}
<1>0. NodeTypes
  BY NodeTyped
<1>1. \A t \in Threads : pc[t] = "idle" /\ local[t] = NoLocal
  BY DEF Init
<1>2. LogicalLog = <<>>
  <2>1. SqlBetween(wal, 0, NoBound) = <<>>
    <3>1. lastSequence <= 0 /\ 0 \in Nat
      BY DEF Init
    <3> QED BY <1>0, <3>1, SqlBetweenNone DEF NodeTypes
  <2>2. Compacted = 0 /\ ~SnapshotHalfWritten /\ snapshotSql = <<>>
    BY <1>1 DEF Init, Compacted, SnapshotHalfWritten
  <2>3. LogicalLog = <<>> \o <<>>
    BY <2>1, <2>2 DEF LogicalLog
  <2> QED BY <2>3
<1>3. Elements(LogicalLog) = {} /\ Len(wal) = 0
  BY <1>2 DEF Elements, Init
<1>4. FilesOK
  BY <1>3 DEF FilesOK, Init
<1>5. OneHandler
  BY <1>0, <1>1 DEF OneHandler, NodeTypes
<1>6. \A t \in Threads : ReadAt(t)
  BY <1>1 DEF ReadAt, NoLocal, Requests
<1> QED
  BY <1>2, <1>4, <1>5, <1>6 DEF AloneOK, Init

FilesInv == NodeInv /\ AheadInv /\ (Alone => AloneOK)

(* With one handler at a time the files between them hold every request once, and
   what a handler has read of them is not stale when it is used. *)
THEOREM FilesInvariance == Spec => []FilesInv
<1>1. Init => FilesInv
  BY NodeInit, AheadInit, AloneInit DEF FilesInv
<1>2. FilesInv /\ [Next]_vars => FilesInv'
  <2> SUFFICES ASSUME FilesInv, [Next]_vars PROVE FilesInv'
    OBVIOUS
  <2>1. Alone' => Alone
    BY DEF Next, vars, Alone
  <2> QED BY <2>1, NodeStep, AheadStep, AloneStep DEF FilesInv
<1> QED
  BY <1>1, <1>2, PTL DEF Spec

(* With one handler at a time and crashes between handlers the node implements
   ReplicaLog: whatever snapshots, compactions, engine failures and restarts do,
   the files stand for one list that only grows, each request is in it once, and
   a request is answered only when it is in it. *)
THEOREM NodeImplementsReplicaLog == Spec => ImplementsReplicaLogAlone
<1> DEFINE rlog == IF Alone THEN LogicalLog ELSE <<>>
           racked == IF Alone THEN acked ELSE {}
<1>1. Init => Replica!Init
  <2> SUFFICES ASSUME Init PROVE Replica!Init
    OBVIOUS
  <2>1. Alone => LogicalLog = <<>> /\ acked = {}
    BY NodeInit, AheadInit, AloneInit
  <2> QED BY <2>1 DEF Replica!Init
<1>2. FilesInv /\ [Next]_vars => [Replica!Next]_<<rlog, racked>>
  <2> SUFFICES ASSUME FilesInv, [Next]_vars PROVE [Replica!Next]_<<rlog, racked>>
    OBVIOUS
  <2>1. Alone' <=> Alone
    BY DEF Next, vars, Alone
  <2>2. CASE ~Alone
    BY <2>1, <2>2
  <2>3. CASE Alone
    <3>0. AloneOK /\ rlog = LogicalLog /\ racked = acked /\ rlog' = LogicalLog' /\ racked' = acked'
      BY <2>1, <2>3 DEF FilesInv
    <3>1. requestIds = Replica!Logged /\ requestIds \subseteq RequestIds
      BY <2>3, <3>0 DEF AloneOK, FilesOK, Elements, Replica!Logged, FilesInv, NodeInv, TypeOK
    <3>2. CASE LogicalLog' = LogicalLog /\ acked' = acked
      BY <3>0, <3>2
    <3>3. ASSUME LogicalLog' = LogicalLog, NEW id \in requestIds, acked' = acked \cup {id}
          PROVE  Replica!Next
      <4>1. Replica!Ack(id)
        BY <2>1, <2>3, <3>1, <3>3 DEF Replica!Ack
      <4> QED BY <3>1, <4>1 DEF Replica!Next
    <3>4. ASSUME acked' = acked, NEW id \in RequestIds, id \notin requestIds, LogicalLog' = Append(LogicalLog, id)
          PROVE  Replica!Next
      <4>1. Replica!Log(id)
        BY <2>1, <2>3, <3>1, <3>4 DEF Replica!Log
      <4> QED BY <4>1 DEF Replica!Next
    <3> QED BY <2>3, <3>0, <3>2, <3>3, <3>4, AloneStep DEF FilesInv
  <2> QED BY <2>2, <2>3
<1> QED
  BY <1>1, <1>2, FilesInvariance, PTL DEF Spec, ImplementsReplicaLogAlone, Replica!Spec

-----------------------------------------------------------------------------
(* The engine's database                                                   *)

(* The last entry of the log is the last statement of any part that reaches it. *)
LEMMA SqlBetweenLast ==
  ASSUME NEW entries, NEW n \in Nat, Ordered(entries, n), NEW id, Len(entries) > 0,
         entries[Len(entries)] = [sequence |-> n, requestId |-> id], NEW a \in Nat, a < n
  PROVE  SqlBetween(entries, a, n + 1) = Append(SqlBetween(entries, a, n), id)
<1> DEFINE N == Len(entries)
           k == CountBelow(entries, a + 1)
           whole == SqlBetween(entries, a, n + 1)
           part == SqlBetween(entries, a, n)
<1>1. N \in Nat /\ N > 0 /\ \A i \in 1 .. N : entries[i].sequence \in 1 .. n
  BY LenProperties DEF Ordered
<1>2. entries[N].sequence = n /\ entries[N].requestId = id
  OBVIOUS
<1>3. \A i \in 1 .. N : i < N => entries[i].sequence < n
  <2>1. N \in 1 .. N
    BY <1>1
  <2> QED BY <1>2, <2>1 DEF Ordered
<1>4. CountBelow(entries, n + 1) = N
  <2>1. n + 1 \in Nat /\ N \in 0 .. N /\ \A i \in 1 .. N : entries[i].sequence < n + 1 <=> i <= N
    BY <1>1
  <2> QED BY <2>1, CountBelowUnique
<1>5. CountBelow(entries, n) = N - 1
  <2>1. N - 1 \in 0 .. N
    BY <1>1
  <2>2. \A i \in 1 .. N : entries[i].sequence < n <=> i <= N - 1
    <3> SUFFICES ASSUME NEW i \in 1 .. N PROVE entries[i].sequence < n <=> i <= N - 1
      OBVIOUS
    <3>1. i = N \/ i < N
      BY <1>1
    <3>2. CASE i = N
      <4>1. ~(n < n) /\ ~(N <= N - 1)
        BY <1>1
      <4> QED BY <1>2, <3>2, <4>1
    <3>3. CASE i < N
      <4>1. i <= N - 1
        BY <1>1, <3>3
      <4> QED BY <1>3, <3>3, <4>1
    <3> QED BY <3>1, <3>2, <3>3
  <2> QED BY <2>1, <2>2, CountBelowUnique
<1>6. k \in 0 .. N - 1
  <2>1. a + 1 \in Nat /\ a + 1 <= n
    OBVIOUS
  <2>2. k \in 0 .. N
    BY <2>1, CountBelowIs
  <2>3. k <= CountBelow(entries, n)
    BY <2>1, CountBelowMono
  <2> HIDE DEF k
  <2> QED BY <1>1, <1>5, <2>2, <2>3
<1>7. /\ whole = [i \in 1 .. N - k |-> entries[k + i].requestId]
      /\ part = [i \in 1 .. (N - 1) - k |-> entries[k + i].requestId]
  BY <1>4, <1>5 DEF SqlBetween
<1>8. whole \in Seq(RequestIds) /\ part \in Seq(RequestIds)
  <2>1. n + 1 \in Nat
    OBVIOUS
  <2> QED BY <2>1, SqlBetweenType
<1>9. id \in RequestIds
  <2>1. N \in 1 .. N /\ entries \in [1 .. N -> WalEntry]
    BY <1>1, LenProperties DEF Ordered
  <2>2. entries[N] \in WalEntry
    BY <2>1
  <2> QED BY <1>2, <2>2 DEF WalEntry
<1> HIDE DEF k, whole, part
<1>10. Len(whole) = N - k /\ Len(part) = (N - 1) - k
  BY <1>1, <1>6, <1>7, <1>8
<1>11. /\ Append(part, id) \in Seq(RequestIds) /\ Len(Append(part, id)) = Len(part) + 1
       /\ \A i \in 1 .. Len(part) : Append(part, id)[i] = part[i]
       /\ Append(part, id)[Len(part) + 1] = id
  BY <1>8, <1>9, AppendProperties
<1>12. Len(Append(part, id)) = Len(whole)
  BY <1>1, <1>6, <1>10, <1>11
<1>13. ASSUME NEW i \in 1 .. Len(whole) PROVE whole[i] = Append(part, id)[i]
  <2>0. i \in 1 .. N - k /\ whole[i] = entries[k + i].requestId
    BY <1>7, <1>10
  <2>1. CASE i = N - k
    <3>1. k + i = N /\ i = Len(part) + 1
      BY <1>1, <1>6, <1>10, <2>1
    <3> QED BY <1>2, <1>11, <2>0, <3>1
  <2>2. CASE i # N - k
    <3>1. i \in 1 .. (N - 1) - k /\ i \in 1 .. Len(part)
      BY <1>1, <1>6, <1>10, <2>0, <2>2
    <3>2. part[i] = entries[k + i].requestId
      BY <1>7, <3>1
    <3> QED BY <1>11, <2>0, <3>1, <3>2
  <2> QED BY <2>1, <2>2
<1>14. whole = Append(part, id)
  BY <1>8, <1>11, <1>12, <1>13, SeqEqual
<1> QED
  BY <1>14 DEF whole, part

(* Where the one active thread is after its move. *)
LEMMA MovedTo ==
  ASSUME NodeInv, OneHandler, NEW t \in Threads, NEW label, NEW l, Moves(t, label, l),
         pc[t] # "idle" \/ \A u \in Threads : pc[u] = "idle"
  PROVE  /\ pc'[t] = label /\ local'[t] = l
         /\ \A u \in Threads : u # t => pc[u] = "idle" /\ pc'[u] = "idle"
<1>0. NodeTypes
  BY NodeTyped
<1>1. pc'[t] = label /\ local'[t] = l /\ \A u \in Threads : u # t => pc'[u] = pc[u]
  BY <1>0 DEF Moves, NodeTypes
<1> QED
  BY <1>1 DEF OneHandler

LEMMA EngineGone ==
  ASSUME ~engine'.ready
  PROVE  EngineOK'
BY DEF EngineOK, Current

(* A step between two points at which the database is the one of the log. *)
LEMMA EngineQuiet ==
  ASSUME EngineOK, UNCHANGED <<engine, wal, lastSequence, snapshotSql, snapshotManifest>>,
         \A t \in Threads : pc[t] \notin Between,
         pc'["exec"] # "run", \A t \in Threads : pc'[t] # "setseq",
         pc'["exec"] = "sync" => local'["exec"].op # "write",
         replicaState' = "DOWN" => replicaState = "DOWN"
  PROVE  EngineOK'
<1>1. Current' => Current
  BY DEF Current
<1>2. \A to : Db(to)' = Db(to)
  BY DEF Db
<1>3. Current => /\ snapshotManifest <= engine.walSequence
                 /\ engine.walSequence <= lastSequence
                 /\ engine.db = Db(engine.walSequence + 1)
  BY DEF EngineOK
<1>4. Current' => engine'.db = snapshotSql' \o SqlBetween(wal', snapshotManifest', engine'.walSequence + 1)
  BY <1>1, <1>3 DEF Db
<1>5. replicaState' = "DOWN" => ~engine'.ready
  BY DEF EngineOK
<1> QED
  BY <1>1, <1>3, <1>4, <1>5 DEF EngineOK, Db

(* A step into the stretch in which a snapshot is installed. *)
LEMMA EngineBetween ==
  ASSUME NEW t \in Threads, pc'[t] \in {"manifest", "compact", "invalidate"},
         \A u \in Threads : u # t => pc'[u] = "idle", replicaState' # "DOWN"
  PROVE  EngineOK'
<1>1. pc'["exec"] \notin {"sync", "run"} /\ \A u \in Threads : pc'[u] # "setseq"
  BY DEF Threads
<1>2. ~(\A u \in Threads : pc'[u] \notin Between)
  BY DEF Between
<1> QED
  BY <1>1, <1>2 DEF EngineOK

(* A longer log changes nothing before its new entry. *)
LEMMA EngineLogs ==
  ASSUME NodeInv, AheadInv, Alone, AloneOK, EngineOK, NEW id \in RequestIds, Logs(id),
         UNCHANGED <<engine, snapshotSql, snapshotManifest, replicaState>>,
         \A t \in Threads : pc[t] \notin Between,
         pc'["exec"] # "run", \A t \in Threads : pc'[t] # "setseq"
  PROVE  EngineOK'
<1>0. NodeTypes /\ snapshotManifest <= lastSequence
  BY NodeTyped, AloneFacts
<1>1. Current' => Current
  BY DEF Current
<1>2. Current => /\ snapshotManifest <= engine.walSequence
                 /\ engine.walSequence <= lastSequence
                 /\ engine.db = Db(engine.walSequence + 1)
  BY DEF EngineOK
<1>3. PICK q \in Nat : q = lastSequence' /\ lastSequence < q
  BY <1>0 DEF Logs, NodeTypes
<1>4. Current => SqlBetween(wal', snapshotManifest, engine.walSequence + 1) =
                 SqlBetween(wal, snapshotManifest, engine.walSequence + 1)
  <2> SUFFICES ASSUME Current
               PROVE  SqlBetween(wal', snapshotManifest, engine.walSequence + 1) =
                      SqlBetween(wal, snapshotManifest, engine.walSequence + 1)
    OBVIOUS
  <2>1. engine.walSequence + 1 \in Nat /\ ~(q < engine.walSequence + 1)
    BY <1>0, <1>2, <1>3 DEF NodeTypes
  <2>2. wal' = Append(wal, [sequence |-> q, requestId |-> id])
    BY <1>3 DEF Logs
  <2> QED BY <1>0, <1>3, <2>1, <2>2, SqlBetweenAppend DEF NodeTypes
<1>5. Current' => engine'.db = snapshotSql' \o SqlBetween(wal', snapshotManifest', engine'.walSequence + 1)
  BY <1>1, <1>2, <1>4 DEF Db
<1>6. Current' => /\ snapshotManifest' <= engine'.walSequence
                  /\ engine'.walSequence <= lastSequence' /\ engine'.walSequence < lastSequence'
  BY <1>0, <1>1, <1>2, <1>3 DEF NodeTypes
<1>7. replicaState' = "DOWN" => ~engine'.ready
  BY DEF EngineOK
<1> QED
  BY <1>5, <1>6, <1>7 DEF EngineOK, Db

(* A move of the one handler that leaves the engine, the snapshot and the log alone. *)
LEMMA EngineMove ==
  ASSUME NodeInv, OneHandler, EngineOK, NEW t \in Threads, NEW label, NEW l, Moves(t, label, l),
         pc[t] # "idle" \/ \A u \in Threads : pc[u] = "idle",
         pc[t] \notin Between, label \notin {"run", "setseq"}, label = "sync" => l.op # "write",
         UNCHANGED <<engine, wal, lastSequence, snapshotSql, snapshotManifest>>,
         replicaState' # "DOWN"
  PROVE  EngineOK'
<1>1. /\ pc'[t] = label /\ local'[t] = l
      /\ \A u \in Threads : u # t => pc[u] = "idle" /\ pc'[u] = "idle"
  BY MovedTo
<1>2. \A u \in Threads : pc[u] \notin Between
  BY <1>1 DEF Between
<1>3. /\ pc'["exec"] # "run" /\ \A u \in Threads : pc'[u] # "setseq"
      /\ pc'["exec"] = "sync" => local'["exec"].op # "write"
  BY <1>1 DEF Threads
<1> QED
  BY <1>2, <1>3, EngineQuiet

(* The steps that read, answer, or go on without touching the engine. *)
LEMMA EngineQuietSteps ==
  ASSUME NodeInv, AheadInv, Alone, AloneOK, EngineOK,
         \/ Read \/ AdminSnapshot \/ AdminReadLast \/ RefreshShards
         \/ FullSyncBegin \/ MarkBegin \/ MarkApplied \/ SkipSnapshot \/ MaybeSnapshot \/ Reply
         \/ \E t \in Threads : ReadWal(t) \/ ApplyPendingWal(t) \/ SyncEngineFull(t)
  PROVE  EngineOK'
<1>0. /\ NodeTypes /\ OneHandler /\ ControlOK /\ \A t \in Threads : ReadAt(t)
      /\ "exec" \in Threads /\ "snapshot" \in Threads /\ "refresh" \in Threads
  BY NodeTyped DEF AloneOK, NodeTypes
<1>n. "overlap" \notin faults /\ \A t \in Threads : ~local[t].installing
  BY AloneFacts
<1>b. ASSUME NEW t \in Threads, pc[t] # "idle" PROVE replicaState # "DOWN"
  BY <1>0, <1>b, BusyThread
<1>u. ASSUME NEW t \in Threads, NEW label, NEW l, Moves(t, label, l),
             pc[t] # "idle" \/ \A u \in Threads : pc[u] = "idle",
             pc[t] \notin Between, label \notin {"run", "setseq"}, label = "sync" => l.op # "write",
             UNCHANGED <<engine, wal, lastSequence, snapshotSql, snapshotManifest>>,
             replicaState' # "DOWN"
      PROVE  EngineOK'
  BY <1>0, <1>u, EngineMove
<1>1. CASE Read
  <2>1. PICK l : l = [NoLocal EXCEPT !.op = "read", !.written = lastSequence]
    OBVIOUS
  <2>2. Moves("exec", "sync", l) /\ l.op # "write"
    <3>1. l.op = "read"
      BY <2>1 DEF NoLocal
    <3> QED BY <1>0, <1>1, <2>1, <3>1, ExecMoves
  <2>3. /\ \A u \in Threads : pc[u] = "idle"
        /\ UNCHANGED <<engine, wal, lastSequence, snapshotSql, snapshotManifest>>
        /\ replicaState' # "DOWN"
    BY <1>1, <1>n DEF Read, MayBegin, HttpUp, logVars, snapVars
  <2>4. pc["exec"] \notin Between
    BY <1>0, <2>3 DEF Between
  <2> QED BY <1>0, <1>u, <2>2, <2>3, <2>4
<1>2. CASE AdminSnapshot
  <2>1. PICK l : l = [local["snapshot"] EXCEPT !.list = snapshotSql]
    OBVIOUS
  <2>2. Moves("snapshot", "readwal", l)
    BY <1>0, <1>2, <2>1, AdminMoves
  <2>3. /\ \A u \in Threads : pc[u] = "idle"
        /\ UNCHANGED <<engine, wal, lastSequence, snapshotSql, snapshotManifest>>
        /\ replicaState' # "DOWN"
    BY <1>2, <1>n DEF AdminSnapshot, MayBegin, HttpUp, logVars, snapVars
  <2>4. pc["snapshot"] \notin Between
    BY <1>0, <2>3 DEF Between
  <2> QED BY <1>0, <1>u, <2>2, <2>3, <2>4
<1>3. CASE AdminReadLast
  <2>1. PICK l : l = [local["snapshot"] EXCEPT !.compacted = lastSequence]
    OBVIOUS
  <2>2. Moves("snapshot", "writesql", l)
    BY <1>0, <1>3, <2>1, AdminMoves
  <2>3. /\ pc["snapshot"] = "readlast"
        /\ UNCHANGED <<engine, wal, lastSequence, snapshotSql, snapshotManifest, replicaState>>
    BY <1>3 DEF AdminReadLast, logVars, snapVars
  <2>4. replicaState' # "DOWN"
    BY <1>0, <1>b, <2>3
  <2>5. pc["snapshot"] \notin Between
    BY <2>3 DEF Between
  <2> QED BY <1>0, <1>u, <2>2, <2>3, <2>4, <2>5
<1>4. CASE RefreshShards
  <2>1. PICK l : l = [NoLocal EXCEPT !.op = "refresh"]
    OBVIOUS
  <2>2. Moves("refresh", "recover", l)
    BY <1>0, <1>4, <2>1, AdminMoves
  <2>3. /\ \A u \in Threads : pc[u] = "idle"
        /\ UNCHANGED <<engine, wal, lastSequence, snapshotSql, snapshotManifest>>
        /\ replicaState' # "DOWN"
    BY <1>4, <1>n DEF RefreshShards, MayBegin, logVars, snapVars
  <2>4. pc["refresh"] \notin Between
    BY <1>0, <2>3 DEF Between
  <2> QED BY <1>0, <1>u, <2>2, <2>3, <2>4
<1>5. ASSUME NEW label, NEW l, Moves("exec", label, l),
             pc["exec"] \in {"sync", "mark", "marked", "threshold", "reply"},
             label \notin {"run", "setseq", "sync"},
             UNCHANGED <<engine, wal, lastSequence, snapshotSql, snapshotManifest, replicaState>>
      PROVE  EngineOK'
  <2>1. pc["exec"] \notin Between /\ pc["exec"] # "idle"
    BY <1>5 DEF Between
  <2>2. replicaState' # "DOWN"
    BY <1>0, <1>5, <1>b, <2>1
  <2> QED BY <1>0, <1>5, <1>u, <2>1, <2>2
<1>6. CASE FullSyncBegin
  <2>1. PICK l : l = [local["exec"] EXCEPT !.list = snapshotSql, !.compacted = snapshotManifest]
    OBVIOUS
  <2>2. Moves("exec", "replay", l)
    BY <1>0, <1>6, <2>1, ExecMoves
  <2>3. /\ pc["exec"] = "sync"
        /\ UNCHANGED <<engine, wal, lastSequence, snapshotSql, snapshotManifest, replicaState>>
    BY <1>6 DEF FullSyncBegin, ReadSnapshotSql, logVars, snapVars
  <2> QED BY <1>5, <2>2, <2>3
<1>7. CASE MarkBegin
  <2>1. PICK l : l = [local["exec"] EXCEPT !.compacted = snapshotManifest]
    OBVIOUS
  <2>2. Moves("exec", "marked", l)
    BY <1>0, <1>7, <2>1, ExecMoves
  <2>3. /\ pc["exec"] = "mark"
        /\ UNCHANGED <<engine, wal, lastSequence, snapshotSql, snapshotManifest, replicaState>>
    BY <1>7 DEF MarkBegin, logVars, snapVars
  <2> QED BY <1>5, <2>2, <2>3
<1>8. CASE MarkApplied
  <2>1. PICK l : l = [local["exec"] EXCEPT !.compacted = 0]
    OBVIOUS
  <2>2. Moves("exec", "threshold", l)
    BY <1>0, <1>8, <2>1, ExecMoves
  <2>3. pc["exec"] = "marked" /\ local["exec"].compacted = snapshotManifest
    BY <1>0, <1>8 DEF MarkApplied, ReadAt
  <2>4. UNCHANGED <<engine, wal, lastSequence, snapshotSql, snapshotManifest, replicaState>>
    BY <1>8, <2>3 DEF MarkApplied, logVars
  <2> QED BY <1>5, <2>2, <2>3, <2>4
<1>9. CASE SkipSnapshot
  <2>1. PICK label, l : label = AfterSnapshot("exec") /\ l = local["exec"]
    OBVIOUS
  <2>2. Moves("exec", label, l)
    BY <1>0, <1>9, <2>1, ExecMoves
  <2>3. /\ pc["exec"] = "threshold"
        /\ UNCHANGED <<engine, wal, lastSequence, snapshotSql, snapshotManifest, replicaState>>
    BY <1>9 DEF SkipSnapshot, logVars, snapVars
  <2>4. label \notin {"run", "setseq", "sync"}
    BY <2>1 DEF AfterSnapshot
  <2> QED BY <1>5, <2>2, <2>3, <2>4
<1>10. CASE MaybeSnapshot
  <2>1. PICK l : l = [local["exec"] EXCEPT !.compacted = lastSequence, !.list = snapshotSql]
    OBVIOUS
  <2>2. Moves("exec", "readwal", l)
    BY <1>0, <1>10, <2>1, ExecMoves
  <2>3. /\ pc["exec"] = "threshold"
        /\ UNCHANGED <<engine, wal, lastSequence, snapshotSql, snapshotManifest, replicaState>>
    BY <1>10 DEF MaybeSnapshot, logVars, snapVars
  <2> QED BY <1>5, <2>2, <2>3
<1>11. CASE Reply
  <2>1. PICK l : l = NoLocal
    OBVIOUS
  <2>2. Moves("exec", "idle", l)
    BY <1>0, <1>11, <2>1, ExecMoves
  <2>3. /\ pc["exec"] = "reply"
        /\ UNCHANGED <<engine, wal, lastSequence, snapshotSql, snapshotManifest, replicaState>>
    BY <1>11 DEF Reply, logVars, snapVars
  <2> QED BY <1>5, <2>2, <2>3
<1>12. ASSUME NEW t \in Threads, ReadWal(t) \/ ApplyPendingWal(t) \/ SyncEngineFull(t)
       PROVE  EngineOK'
  <2>1. PICK label, l : Moves(t, label, l) /\ label \in {"readlast", "writesql", "threshold", "fullsync", "replay"}
    BY <1>0, <1>12, ThreadMoves
  <2>2. /\ pc[t] \in {"readwal", "recover", "fullsync"}
        /\ UNCHANGED <<engine, wal, lastSequence, snapshotSql, snapshotManifest, replicaState>>
    BY <1>12 DEF ReadWal, ApplyPendingWal, SyncEngineFull, ReadSnapshotSql, logVars, snapVars
  <2>3. pc[t] \notin Between /\ pc[t] # "idle"
    BY <2>2 DEF Between
  <2>4. replicaState' # "DOWN"
    BY <1>b, <2>2, <2>3
  <2> QED BY <1>u, <2>1, <2>2, <2>3, <2>4
<1> QED
  BY <1>1, <1>2, <1>3, <1>4, <1>6, <1>7, <1>8, <1>9, <1>10, <1>11, <1>12

(* The steps that log a request. *)
LEMMA EngineLogSteps ==
  ASSUME NodeInv, AheadInv, Alone, AloneOK, EngineOK, NEW id \in RequestIds,
         Write(id) \/ Replay(id) \/ \E t \in Threads : RecoverEntry(t, id)
  PROVE  EngineOK'
<1>0. /\ NodeTypes /\ OneHandler /\ ControlOK /\ "exec" \in Threads
  BY NodeTyped DEF AloneOK, NodeTypes
<1>n. "overlap" \notin faults /\ "late" \notin faults
  BY AloneFacts
<1>1. CASE Write(id) \/ Replay(id)
  <2>1. /\ \A u \in Threads : pc[u] = "idle"
        /\ ~containsRequestId(id)
        /\ LogRequest(id, "exec", "write", "sync")
        /\ UNCHANGED <<engine, snapshotSql, snapshotManifest, replicaState>>
    BY <1>1, <1>n DEF Write, Replay, MayBegin, snapVars
  <2>2. Logs(id)
    <3>1. lastSequence \in Nat /\ MaxSequence \in Nat
      BY <1>0, DataNodeAssumption DEF NodeTypes
    <3>2. Find(id) = {}
      BY <2>1 DEF containsRequestId
    <3>3. /\ lastSequence < MaxSequence /\ lastSequence' = lastSequence + 1
          /\ wal' = Append(wal, [sequence |-> lastSequence + 1, requestId |-> id])
          /\ requestIds' = requestIds \cup {id}
      BY <2>1, <3>2 DEF LogRequest
    <3>4. lastSequence' \in lastSequence + 1 .. MaxSequence
      BY <3>1, <3>3
    <3> QED BY <3>2, <3>3, <3>4 DEF Logs
  <2>3. PICK l : Moves("exec", "sync", l)
    BY <1>0, <1>1, ExecMoves
  <2>4. /\ pc'["exec"] = "sync" /\ \A u \in Threads : u # "exec" => pc'[u] = "idle"
    BY <1>0, <2>1, <2>3, MovedTo
  <2>5. /\ \A u \in Threads : pc[u] \notin Between
        /\ pc'["exec"] # "run" /\ \A u \in Threads : pc'[u] # "setseq"
    BY <2>1, <2>4 DEF Between
  <2> QED BY <2>1, <2>2, <2>5, EngineLogs
<1>2. ASSUME NEW t \in Threads, RecoverEntry(t, id) PROVE EngineOK'
  <2>1. Logs(id)
    BY <1>2 DEF RecoverEntry, Logs, containsRequestId
  <2>2. pc[t] = "recover" /\ pc' = pc /\ UNCHANGED <<engine, snapshotSql, snapshotManifest, replicaState>>
    BY <1>2 DEF RecoverEntry, snapVars
  <2>3. \A u \in Threads : pc[u] \notin Between /\ pc'[u] \notin Between
    BY <1>0, <2>2 DEF OneHandler, Between
  <2>4. pc'["exec"] # "run" /\ \A u \in Threads : pc'[u] # "setseq"
    BY <1>0, <2>3 DEF Between
  <2> QED BY <2>1, <2>2, <2>3, <2>4, EngineLogs
<1> QED
  BY <1>1, <1>2

(* The engine is at a point of the log again. *)
LEMMA EngineSettled ==
  ASSUME UNCHANGED <<wal, lastSequence, snapshotSql, snapshotManifest>>,
         pc'["exec"] \notin {"sync", "run"}, \A t \in Threads : pc'[t] # "setseq",
         replicaState' # "DOWN",
         Current' => /\ snapshotManifest <= engine'.walSequence
                     /\ engine'.walSequence <= lastSequence
                     /\ engine'.db = snapshotSql \o SqlBetween(wal, snapshotManifest, engine'.walSequence + 1)
  PROVE  EngineOK'
BY DEF EngineOK, Db

(* The database of a rebuild grows by what is logged after a sequence. *)
LEMMA DbSplit ==
  ASSUME NodeInv, NEW s \in Nat, NEW to \in Nat, snapshotManifest <= s, s < to
  PROVE  Db(s + 1) \o SqlBetween(wal, s, to) = Db(to)
<1>0. NodeTypes
  BY NodeTyped
<1>1. s + 1 \in Nat /\ snapshotManifest \in Nat /\ lastSequence \in Nat /\ Ordered(wal, lastSequence)
      /\ snapshotSql \in Seq(RequestIds)
  BY <1>0 DEF NodeTypes
<1>2. PICK a, b : a = SqlBetween(wal, snapshotManifest, s + 1) /\ b = SqlBetween(wal, s, to)
  OBVIOUS
<1>3. a \in Seq(RequestIds) /\ b \in Seq(RequestIds)
  BY <1>1, <1>2, SqlBetweenType
<1>4. a \o b = SqlBetween(wal, snapshotManifest, to)
  BY <1>1, <1>2, SqlBetweenSplit
<1>5. (snapshotSql \o a) \o b = snapshotSql \o (a \o b)
  BY <1>1, <1>3, ConcatAssociative
<1> QED
  BY <1>2, <1>4, <1>5 DEF Db

(* The database of a rebuild ends with the last entry of the log. *)
LEMMA DbLast ==
  ASSUME NodeInv, snapshotManifest < lastSequence, NEW id, Len(wal) > 0,
         wal[Len(wal)] = [sequence |-> lastSequence, requestId |-> id]
  PROVE  Append(Db(lastSequence), id) = Db(lastSequence + 1)
<1>0. NodeTypes
  BY NodeTyped
<1>1. /\ lastSequence + 1 \in Nat /\ snapshotManifest \in Nat /\ lastSequence \in Nat
      /\ Ordered(wal, lastSequence) /\ snapshotSql \in Seq(RequestIds)
  BY <1>0 DEF NodeTypes
<1>2. PICK a : a = SqlBetween(wal, snapshotManifest, lastSequence)
  OBVIOUS
<1>3. a \in Seq(RequestIds)
  BY <1>1, <1>2, SqlBetweenType
<1>4. id \in RequestIds
  <2>1. Len(wal) \in 1 .. Len(wal) /\ wal \in [1 .. Len(wal) -> WalEntry]
    BY <1>1, LenProperties DEF Ordered
  <2>2. wal[Len(wal)] \in WalEntry
    BY <2>1
  <2>3. wal[Len(wal)].requestId = id
    OBVIOUS
  <2> QED BY <2>2, <2>3 DEF WalEntry
<1>5. SqlBetween(wal, snapshotManifest, lastSequence + 1) = Append(a, id)
  BY <1>1, <1>2, SqlBetweenLast
<1>6. Append(a, id) = a \o <<id>> /\ <<id>> \in Seq(RequestIds)
  BY <1>3, <1>4, AppendIsConcat
<1>7. snapshotSql \o a \in Seq(RequestIds)
  BY <1>1, <1>3, ConcatType
<1>8. Append(snapshotSql \o a, id) = (snapshotSql \o a) \o <<id>>
  BY <1>4, <1>7, AppendIsConcat
<1>9. (snapshotSql \o a) \o <<id>> = snapshotSql \o (a \o <<id>>)
  <2>1. PICK b : b = <<id>>
    OBVIOUS
  <2>2. snapshotSql \in Seq(RequestIds) /\ a \in Seq(RequestIds) /\ b \in Seq(RequestIds)
    BY <1>1, <1>3, <1>6, <2>1
  <2>3. (snapshotSql \o a) \o b = snapshotSql \o (a \o b)
    BY <2>2, ConcatAssociative
  <2> QED BY <2>1, <2>3
<1> QED
  BY <1>2, <1>5, <1>6, <1>8, <1>9 DEF Db

LEMMA DbEnd ==
  ASSUME NodeInv
  PROVE  Db(NoBound) = Db(lastSequence + 1)
<1>0. NodeTypes
  BY NodeTyped
<1>1. /\ lastSequence + 1 \in Nat /\ snapshotManifest \in Nat /\ lastSequence \in Nat
      /\ Ordered(wal, lastSequence) /\ NoBound \in Nat /\ lastSequence < NoBound
      /\ lastSequence < lastSequence + 1
  BY <1>0 DEF NodeTypes
<1>2. SqlBetween(wal, snapshotManifest, NoBound) = SqlBetween(wal, snapshotManifest, lastSequence + 1)
  BY <1>1, SqlBetweenEnd
<1> QED
  BY <1>2 DEF Db

LEMMA CatchUpAlone ==
  ASSUME NodeInv, AheadInv, Alone, AloneOK, EngineOK, CatchUp
  PROVE  EngineOK'
<1>0. /\ NodeTypes /\ OneHandler /\ ControlOK /\ ReadAt("exec") /\ "exec" \in Threads
      /\ engine \in Engines /\ local["exec"] \in Locals
  BY NodeTyped DEF AloneOK, NodeTypes, NodeInv, TypeOK, Engines
<1>1. /\ pc["exec"] = "sync" /\ Current
      /\ UNCHANGED <<wal, lastSequence, snapshotSql, snapshotManifest, replicaState, local>>
  BY DEF CatchUp, NeedsFullSync, Current, logVars, snapVars
<1>2. Moves("exec", "run", local["exec"])
  BY <1>0, ExecMoves
<1>3. pc'["exec"] = "run" /\ \A u \in Threads : u # "exec" => pc[u] = "idle" /\ pc'[u] = "idle"
  <2>1. PICK l : l = local["exec"]
    OBVIOUS
  <2>2. Moves("exec", "run", l)
    BY <1>2, <2>1
  <2> QED BY <1>0, <1>1, <2>2, MovedTo
<1>4. \A u \in Threads : pc[u] \notin Between
  BY <1>1, <1>3 DEF Between
<1>5. /\ snapshotManifest <= engine.walSequence /\ engine.walSequence <= lastSequence
      /\ engine.db = Db(engine.walSequence + 1)
      /\ local["exec"].op = "write" => engine.walSequence < lastSequence
  BY <1>1, <1>4 DEF EngineOK
<1>6. local["exec"].op \in Requests
  BY <1>0, <1>1 DEF ControlOK, OpOK, OpAt
<1>7. local["exec"].op = "write" => local["exec"].written = lastSequence
  BY <1>0, <1>1, <1>6 DEF ReadAt
<1>8. Exclusive("exec") \in Nat /\ engine.walSequence < Exclusive("exec") /\ engine.walSequence \in Nat
  <2>1. engine.walSequence \in Nat /\ lastSequence \in Nat /\ NoBound \in Nat /\ lastSequence < NoBound
    BY <1>0 DEF NodeTypes
  <2>2. CASE local["exec"].op = "write"
    BY <1>5, <1>7, <2>1, <2>2 DEF Exclusive
  <2>3. CASE local["exec"].op # "write"
    BY <1>5, <2>1, <2>3 DEF Exclusive
  <2> QED BY <2>1, <2>2, <2>3
<1>9. Db(engine.walSequence + 1) \o SqlBetween(wal, engine.walSequence, Exclusive("exec")) = Db(Exclusive("exec"))
  BY <1>5, <1>8, DbSplit
<1>10. engine'.db = Db(Exclusive("exec"))
  <2>1. engine'.db = engine.db \o SqlBetween(wal, engine.walSequence, Exclusive("exec"))
    BY <1>0 DEF CatchUp, Engines
  <2> QED BY <1>5, <1>9, <2>1
<1>11. Exclusive("exec")' = Exclusive("exec")
  BY <1>1 DEF Exclusive, NoBound
<1>12. engine'.db = snapshotSql' \o SqlBetween(wal', snapshotManifest', Exclusive("exec")')
  BY <1>1, <1>10, <1>11 DEF Db
<1>13. replicaState' # "DOWN"
  BY <1>0, <1>1, BusyThread
<1>14. /\ ~(\A u \in Threads : pc'[u] \notin Between) /\ pc'["exec"] # "sync"
       /\ \A u \in Threads : pc'[u] # "setseq"
  BY <1>0, <1>3 DEF Between
<1> QED
  BY <1>12, <1>13, <1>14 DEF EngineOK, Db

LEMMA RunAlone ==
  ASSUME NodeInv, AheadInv, Alone, AloneOK, EngineOK, local["exec"].op # "cli", RunStatement
  PROVE  EngineOK'
<1>0. /\ NodeTypes /\ OneHandler /\ ControlOK /\ ReadAt("exec") /\ "exec" \in Threads
      /\ engine \in Engines /\ local["exec"] \in Locals /\ FilesOK
  BY NodeTyped DEF AloneOK, NodeTypes, NodeInv, TypeOK, Engines
<1>1. /\ pc["exec"] = "run"
      /\ UNCHANGED <<wal, lastSequence, snapshotSql, snapshotManifest, replicaState>>
  BY DEF RunStatement, logVars, snapVars
<1>2. PICK label, l : Moves("exec", label, l) /\ label \in {"mark", "threshold"}
  BY <1>0, RunMoves
<1>3. pc'["exec"] \in {"mark", "threshold"} /\ \A u \in Threads : u # "exec" => pc[u] = "idle" /\ pc'[u] = "idle"
  BY <1>0, <1>1, <1>2, MovedTo
<1>4. replicaState # "DOWN" /\ local["exec"].written = lastSequence
  <2>1. local["exec"].op \in Requests
    BY <1>0, <1>1 DEF ControlOK, OpOK, OpAt
  <2> QED BY <1>0, <1>1, <2>1, BusyThread DEF ReadAt
<1>5. /\ engine'.walSequence = lastSequence /\ engine'.compactedWal = engine.compactedWal
      /\ engine'.ready = engine.ready
      /\ engine'.db = IF local["exec"].op = "read" THEN engine.db ELSE Append(engine.db, local["exec"].sql)
  BY <1>0, <1>4 DEF RunStatement, AppliedSequence, Engines
<1>6. ASSUME Current PROVE engine'.db = Db(lastSequence + 1)
  <2>1. engine.db = Db(Exclusive("exec"))
    BY <1>1, <1>6 DEF EngineOK
  <2>2. CASE local["exec"].op = "read"
    BY <1>5, <2>1, <2>2, DbEnd DEF Exclusive
  <2>3. CASE local["exec"].op = "write"
    <3>1. /\ Len(wal) > 0 /\ wal[Len(wal)] = [sequence |-> lastSequence, requestId |-> local["exec"].sql]
      BY <1>0, <1>1, <2>3 DEF ReadAt
    <3>2. snapshotManifest < lastSequence
      <4>1. \A u \in Threads : pc[u] # "compact"
        BY <1>1, <1>3
      <4>2. Len(wal) \in 1 .. Len(wal)
        BY <1>0, <3>1, LenProperties DEF NodeTypes, Ordered
      <4>3. wal[Len(wal)].sequence > manifestFile /\ snapshotManifest = manifestFile
        BY <1>0, <1>4, <4>1, <4>2 DEF FilesOK
      <4> QED BY <1>0, <3>1, <4>3 DEF NodeTypes
    <3>3. Append(Db(lastSequence), local["exec"].sql) = Db(lastSequence + 1)
      BY <3>1, <3>2, DbLast
    <3> QED BY <1>4, <1>5, <2>1, <2>3, <3>3 DEF Exclusive
  <2> QED BY <1>0, <1>1, <2>2, <2>3 DEF ControlOK, OpOK, OpAt, Requests
<1>7. Current' => Current
  BY <1>1, <1>5 DEF Current
<1>8. snapshotManifest <= lastSequence /\ lastSequence <= lastSequence
  BY <1>0, AloneFacts DEF NodeTypes
<1>9. /\ pc'["exec"] \notin {"sync", "run"} /\ \A t \in Threads : pc'[t] # "setseq"
      /\ replicaState' # "DOWN"
  BY <1>1, <1>3, <1>4
<1> QED
  BY <1>1, <1>5, <1>6, <1>7, <1>8, <1>9, EngineSettled DEF Db

LEMMA ResetAlone ==
  ASSUME NodeInv, AheadInv, Alone, AloneOK, EngineOK, NEW t \in Threads, ResetAndReplay(t)
  PROVE  EngineOK'
<1>0. /\ NodeTypes /\ OneHandler /\ ControlOK /\ ReadAt(t) /\ "exec" \in Threads /\ local[t] \in Locals
  BY NodeTyped DEF AloneOK, NodeTypes
<1>1. /\ pc[t] = "replay"
      /\ UNCHANGED <<wal, lastSequence, snapshotSql, snapshotManifest, replicaState>>
  BY DEF ResetAndReplay, logVars, snapVars
<1>2. engine'.db = Db(Exclusive(t))
  <2>1. local[t].list = snapshotSql
    BY <1>0, <1>1 DEF ReadAt
  <2>2. engine'.db = local[t].list \o SqlBetween(wal, snapshotManifest, Exclusive(t))
    BY DEF ResetAndReplay, ReplaySql
  <2> QED BY <2>1, <2>2 DEF Db
<1>3. replicaState' # "DOWN"
  BY <1>0, <1>1, BusyThread
<1>4. PICK label, l : /\ label = IF t = "exec" /\ local[t].op # "start" THEN "run" ELSE "setseq"
                      /\ l = [local[t] EXCEPT !.list = <<>>, !.compacted = 0]
  OBVIOUS
<1>5. Moves(t, label, l)
  BY <1>0, <1>4, ThreadMoves
<1>6. pc'[t] = label /\ local'[t] = l /\ \A u \in Threads : u # t => pc[u] = "idle" /\ pc'[u] = "idle"
  BY <1>0, <1>1, <1>5, MovedTo
<1>7. CASE t = "exec" /\ local[t].op # "start"
  <2>1. pc'["exec"] = "run" /\ local'["exec"].op = local["exec"].op
        /\ local'["exec"].written = local["exec"].written
    <3>1. local'["exec"] = [local["exec"] EXCEPT !.list = <<>>, !.compacted = 0] /\ pc'["exec"] = "run"
      BY <1>4, <1>6, <1>7
    <3>2. local["exec"] \in Locals
      BY <1>0, <1>7
    <3> QED BY <3>1, <3>2 DEF Locals
  <2>2. Exclusive("exec")' = Exclusive("exec")
    BY <2>1 DEF Exclusive, NoBound
  <2>3. engine'.db = snapshotSql' \o SqlBetween(wal', snapshotManifest', Exclusive("exec")')
    BY <1>1, <1>2, <1>7, <2>2 DEF Db
  <2>4. /\ ~(\A u \in Threads : pc'[u] \notin Between) /\ pc'["exec"] # "sync"
        /\ \A u \in Threads : pc'[u] # "setseq"
    BY <1>0, <1>6, <1>7, <2>1 DEF Between
  <2> QED BY <1>3, <2>3, <2>4 DEF EngineOK, Db
<1>8. CASE ~(t = "exec" /\ local[t].op # "start")
  <2>1. pc'[t] = "setseq"
    BY <1>4, <1>6, <1>8
  <2>2. local[t].op # "write"
    BY <1>0, <1>1, <1>8 DEF OneHandler, Threads
  <2>3. Db(Exclusive(t)) = Db(NoBound)
    BY <2>2 DEF Exclusive
  <2>4. engine'.db = snapshotSql' \o SqlBetween(wal', snapshotManifest', NoBound)
    BY <1>1, <1>2, <2>3 DEF Db
  <2>5. /\ ~(\A u \in Threads : pc'[u] \notin Between) /\ pc'["exec"] \notin {"sync", "run"}
    BY <1>0, <1>6, <2>1 DEF Between
  <2>6. NoBound' = NoBound
    BY DEF NoBound
  <2> QED BY <1>3, <2>4, <2>5, <2>6 DEF EngineOK, Db
<1> QED
  BY <1>7, <1>8

LEMMA ServingAlone ==
  ASSUME NodeInv, AheadInv, Alone, AloneOK, EngineOK, NEW t \in Threads, SetServing(t)
  PROVE  EngineOK'
<1>0. /\ NodeTypes /\ OneHandler /\ ControlOK /\ "exec" \in Threads /\ engine \in Engines
  BY NodeTyped DEF AloneOK, NodeTypes, NodeInv, TypeOK, Engines
<1>1. /\ pc[t] = "setseq" /\ replicaState' # "DOWN"
      /\ UNCHANGED <<wal, lastSequence, snapshotSql, snapshotManifest>>
  BY DEF SetServing, logVars, snapVars
<1>2. /\ engine'.walSequence = lastSequence /\ engine'.compactedWal = engine.compactedWal
      /\ engine'.ready = engine.ready /\ engine'.db = engine.db
  BY <1>0 DEF SetServing, Engines
<1>3. Current' => Current
  BY <1>1, <1>2 DEF Current
<1>4. Current => engine.db = Db(lastSequence + 1)
  BY <1>1, DbEnd DEF EngineOK
<1>5. PICK l : Moves(t, "idle", l)
  BY <1>0, ThreadMoves
<1>6. \A u \in Threads : pc'[u] = "idle"
  BY <1>0, <1>1, <1>5, MovedTo
<1>7. snapshotManifest <= lastSequence /\ lastSequence <= lastSequence
  BY <1>0, AloneFacts DEF NodeTypes
<1>8. pc'["exec"] \notin {"sync", "run"} /\ \A u \in Threads : pc'[u] # "setseq"
  BY <1>0, <1>6
<1> QED
  BY <1>1, <1>2, <1>3, <1>4, <1>7, <1>8, EngineSettled DEF Db

(* Nothing is typed at the CLI. *)
NoCli == "cli" \notin faults => local["exec"].op # "cli"

LEMMA NoCliStep ==
  ASSUME NodeInv, NoCli, [Next]_vars
  PROVE  NoCli'
<1>0. /\ NodeTypes /\ ControlOK /\ local \in [Threads -> Locals] /\ "exec" \in Threads
      /\ "snapshot" \in Threads /\ "refresh" \in Threads
  BY NodeTyped DEF NodeTypes
<1>f. faults' = faults
  BY DEF Next, vars
<1>n. NoLocal.op = "none"
  BY DEF NoLocal
<1>k. ASSUME NEW t \in Threads, NEW label, NEW l, Moves(t, label, l), t = "exec" => l.op # "cli" \/ l.op = local["exec"].op
      PROVE  NoCli'
  <2>1. local'["exec"] = IF t = "exec" THEN l ELSE local["exec"]
    BY <1>0, <1>k DEF Moves
  <2> QED BY <1>f, <1>k, <2>1 DEF NoCli
<1>1. ASSUME NEW id \in RequestIds, Write(id) \/ Replay(id) PROVE NoCli'
  <2>1. PICK w : Moves("exec", "sync", [NoLocal EXCEPT !.op = "write", !.sql = id, !.written = w])
    BY <1>0, <1>1, ExecMoves
  <2>2. PICK l : l = [NoLocal EXCEPT !.op = "write", !.sql = id, !.written = w]
    OBVIOUS
  <2>3. l.op = "write"
    BY <2>2 DEF NoLocal
  <2> QED BY <1>0, <1>k, <2>1, <2>2, <2>3
<1>2. CASE Read
  <2>1. PICK l : l = [NoLocal EXCEPT !.op = "read", !.written = lastSequence]
    OBVIOUS
  <2>2. l.op = "read"
    BY <2>1 DEF NoLocal
  <2>3. Moves("exec", "sync", l)
    BY <1>0, <1>2, <2>1, ExecMoves
  <2> QED BY <1>0, <1>k, <2>2, <2>3
<1>3. CASE Cli
  BY <1>3, <1>f DEF Cli, NoCli
<1>4. CASE Start
  <2>1. PICK l : l = [NoLocal EXCEPT !.op = "start"]
    OBVIOUS
  <2>2. l.op = "start"
    BY <2>1 DEF NoLocal
  <2>3. Moves("exec", "recover", l)
    BY <1>0, <1>4, <2>1, ExecMoves
  <2> QED BY <1>0, <1>k, <2>2, <2>3
<1>5. CASE AdminSnapshot \/ AdminReadLast \/ RefreshShards
  <2>1. PICK t \in {"snapshot", "refresh"} : \E label, l : Moves(t, label, l)
    BY <1>0, <1>5, AdminMoves
  <2> QED BY <1>0, <1>k, <2>1
<1>6. CASE ExecStep
  <2>1. CASE RunStatement
    <3>1. local' = local
      BY <2>1 DEF RunStatement
    <3> QED BY <1>f, <3>1 DEF NoCli
  <2>2. CASE StatementFails
    <3>1. local["exec"] \in Locals
      BY <1>0
    <3>2. PICK l : l = [local["exec"] EXCEPT !.retried = TRUE]
      OBVIOUS
    <3>3. l.op = local["exec"].op
      BY <3>1, <3>2 DEF Locals
    <3>4. Moves("exec", "sync", l) \/ Moves("exec", "idle", NoLocal)
      BY <1>0, <2>2, <3>2, ExecMoves
    <3> QED BY <1>0, <1>k, <1>n, <3>3, <3>4
  <2>3. ASSUME FullSyncBegin \/ CatchUp \/ MarkBegin \/ MarkApplied \/ SkipSnapshot \/ MaybeSnapshot
        PROVE  NoCli'
    <3>1. local'["exec"].op = local["exec"].op
      BY <1>0, <2>3 DEF FullSyncBegin, ReadSnapshotSql, CatchUp, MarkBegin, MarkApplied, SkipSnapshot,
                        MaybeSnapshot, Locals
    <3> QED BY <1>f, <3>1 DEF NoCli
  <2>4. CASE Reply
    BY <1>0, <1>k, <1>n, <2>4, ExecMoves
  <2> QED BY <1>6, <2>1, <2>2, <2>3, <2>4 DEF ExecStep
<1>7. ASSUME NEW t \in Threads, ThreadStep(t) PROVE NoCli'
  <2>0. local[t] \in Locals
    BY <1>0
  <2>1. CASE WriteSnapshotSql(t) \/ SaveManifest(t) \/ Compact(t) \/ AdvanceLastSequence(t)
             \/ ApplyPendingWal(t) \/ \E id \in RequestIds : RecoverEntry(t, id)
    <3>1. local' = local
      BY <2>1 DEF WriteSnapshotSql, SaveManifest, Compact, AdvanceLastSequence, ApplyPendingWal, RecoverEntry
    <3> QED BY <1>f, <3>1 DEF NoCli
  <2>2. CASE SetServing(t)
    BY <1>0, <1>k, <1>n, <2>2, ThreadMoves
  <2>3. CASE ReplayFails(t)
    <3>2. PICK l : l = [local[t] EXCEPT !.retried = TRUE]
      OBVIOUS
    <3>3. l.op = local[t].op
      BY <2>0, <3>2 DEF Locals
    <3>4. Moves(t, "sync", l) \/ Moves(t, "idle", NoLocal)
      BY <1>0, <2>3, <3>2, ThreadMoves
    <3> QED BY <1>0, <1>k, <1>n, <3>3, <3>4
  <2>4. CASE ResetAndReplay(t) \/ ReadWal(t) \/ SyncEngineFull(t) \/ InstallPeerSnapshot(t)
    <3>1. local'["exec"].op = local["exec"].op
      <4>1. CASE ResetAndReplay(t)
        <5>1. local' = [local EXCEPT ![t].list = <<>>, ![t].compacted = 0]
          BY <4>1 DEF ResetAndReplay
        <5> QED BY <1>0, <5>1 DEF Locals
      <4>3. CASE ReadWal(t)
        <5>1. PICK list : local' = [local EXCEPT ![t].list = list]
          BY <4>3 DEF ReadWal
        <5> QED BY <1>0, <5>1 DEF Locals
      <4>4. CASE SyncEngineFull(t)
        <5>1. PICK list, c : local' = [local EXCEPT ![t].list = list, ![t].compacted = c]
          BY <4>4 DEF SyncEngineFull, ReadSnapshotSql
        <5> QED BY <1>0, <5>1 DEF Locals
      <4>2. CASE InstallPeerSnapshot(t)
        <5>1. PICK c, sql : local' = [local EXCEPT ![t].list = sql, ![t].compacted = c, ![t].installing = TRUE]
          BY <4>2 DEF InstallPeerSnapshot
        <5> QED BY <1>0, <5>1 DEF Locals
      <4> QED BY <2>4, <4>1, <4>2, <4>3, <4>4
    <3> QED BY <1>f, <3>1 DEF NoCli
  <2>5. CASE Invalidate(t)
    <3>2. PICK label, l : /\ l = IF t = "snapshot" THEN NoLocal
                                 ELSE [local[t] EXCEPT !.installing = FALSE, !.list = <<>>, !.compacted = 0]
                          /\ label = AfterSnapshot(t)
      OBVIOUS
    <3>3. t # "snapshot" => l.op = local[t].op
      BY <2>0, <3>2 DEF Locals
    <3>4. Moves(t, label, l)
      BY <1>0, <2>5, <3>2, ThreadMoves
    <3> QED BY <1>k, <3>3, <3>4
  <2> QED BY <1>7, <2>1, <2>2, <2>3, <2>4, <2>5 DEF ThreadStep
<1>8. CASE Crash
  <2>1. local'["exec"] = NoLocal
    BY <1>0, <1>8 DEF Crash
  <2> QED BY <1>n, <2>1 DEF NoCli
<1>9. CASE EngineDies \/ UNCHANGED vars \/ \E id \in RequestIds : ReplayDuplicate(id)
  <2>1. local' = local
    BY <1>9 DEF EngineDies, vars, ReplayDuplicate
  <2> QED BY <1>f, <2>1 DEF NoCli
<1> QED
  BY <1>1, <1>2, <1>3, <1>4, <1>5, <1>6, <1>7, <1>8, <1>9 DEF Next, Step, Request, Progress

(* Every step leaves the engine with the database its files say it has. *)
LEMMA EngineAlone ==
  ASSUME NodeInv, AheadInv, Alone, AloneOK, NoCli, "cli" \notin faults, EngineOK, [Next]_vars
  PROVE  EngineOK'
<1>0. NodeTypes /\ OneHandler /\ ControlOK /\ "exec" \in Threads
  BY NodeTyped DEF AloneOK, NodeTypes
<1>n. /\ "peer" \notin faults /\ \A t \in Threads : ~local[t].installing /\ pc[t] # "advance"
  BY AloneFacts
<1>1. ASSUME NEW id \in RequestIds, Write(id) \/ Replay(id) PROVE EngineOK'
  BY <1>1, EngineLogSteps
<1>2. ASSUME \/ Read \/ AdminSnapshot \/ AdminReadLast \/ RefreshShards
             \/ FullSyncBegin \/ MarkBegin \/ MarkApplied \/ SkipSnapshot \/ MaybeSnapshot \/ Reply
      PROVE  EngineOK'
  BY <1>2, EngineQuietSteps
<1>3. CASE EngineDies \/ Crash
  <2>1. ~engine'.ready
    BY <1>3 DEF EngineDies, Crash, NoEngine
  <2> QED BY <2>1, EngineGone
<1>4. CASE StatementFails \/ Start
  <2>1. ~engine'.ready
    BY <1>4 DEF StatementFails, Start, EngineOK
  <2> QED BY <2>1, EngineGone
<1>5. CASE CatchUp
  BY <1>5, CatchUpAlone
<1>6. CASE RunStatement
  BY <1>6, RunAlone DEF NoCli
<1>7. CASE Cli
  BY <1>7 DEF Cli
<1>8. CASE UNCHANGED vars \/ \E id \in RequestIds : ReplayDuplicate(id)
  <2>1. UNCHANGED <<engine, wal, lastSequence, snapshotSql, snapshotManifest, replicaState, pc, local>>
    BY <1>8 DEF vars, ReplayDuplicate, logVars, snapVars
  <2>2. pc' = pc /\ local' = local /\ engine' = engine /\ replicaState' = replicaState
    BY <2>1
  <2>3. Current' = Current /\ Exclusive("exec")' = Exclusive("exec")
    BY <2>1 DEF Current, Exclusive, NoBound
  <2>4. ASSUME NEW to PROVE snapshotSql' \o SqlBetween(wal', snapshotManifest', to) = Db(to)
    BY <2>1 DEF Db
  <2>5. /\ snapshotSql' \o SqlBetween(wal', snapshotManifest', Exclusive("exec")') = Db(Exclusive("exec"))
        /\ snapshotSql' \o SqlBetween(wal', snapshotManifest', NoBound') = Db(NoBound)
        /\ snapshotSql' \o SqlBetween(wal', snapshotManifest', engine'.walSequence + 1) = Db(engine.walSequence + 1)
    BY <2>2, <2>3, <2>4 DEF NoBound
  <2>6. Db(Exclusive("exec"))' = Db(Exclusive("exec")) /\ Db(NoBound)' = Db(NoBound)
        /\ Db(engine.walSequence + 1)' = Db(engine.walSequence + 1)
    BY <2>5 DEF Db
  <2> QED BY <2>1, <2>2, <2>3, <2>6 DEF EngineOK
<1>9. ASSUME NEW t \in Threads, ThreadStep(t) PROVE EngineOK'
  <2>1. ASSUME NEW id \in RequestIds, RecoverEntry(t, id) PROVE EngineOK'
    BY <2>1, EngineLogSteps
  <2>2. ASSUME ReadWal(t) \/ ApplyPendingWal(t) \/ SyncEngineFull(t) PROVE EngineOK'
    BY <2>2, EngineQuietSteps
  <2>3. CASE ResetAndReplay(t)
    BY <2>3, ResetAlone
  <2>4. CASE SetServing(t)
    BY <2>4, ServingAlone
  <2>5. CASE ReplayFails(t) \/ Invalidate(t)
    <3>1. ~engine'.ready
      BY <2>5 DEF ReplayFails, Invalidate, NoEngine
    <3> QED BY <3>1, EngineGone
  <2>6. CASE WriteSnapshotSql(t) \/ SaveManifest(t) \/ Compact(t)
    <3>1. PICK label, l : Moves(t, label, l) /\ label \in {"manifest", "compact", "invalidate"}
      BY <1>0, <1>n, <2>6, ThreadMoves
    <3>2. pc[t] \in {"writesql", "manifest", "compact"} /\ replicaState' = replicaState
      BY <2>6 DEF WriteSnapshotSql, SaveManifest, Compact
    <3>3. replicaState' # "DOWN"
      BY <1>0, <3>2, BusyThread
    <3>4. pc'[t] \in {"manifest", "compact", "invalidate"} /\ \A u \in Threads : u # t => pc'[u] = "idle"
      BY <1>0, <3>1, <3>2, MovedTo
    <3> QED BY <3>3, <3>4, EngineBetween
  <2>7. CASE InstallPeerSnapshot(t) \/ AdvanceLastSequence(t)
    BY <1>n, <2>7 DEF InstallPeerSnapshot, AdvanceLastSequence
  <2> QED BY <1>9, <2>1, <2>2, <2>3, <2>4, <2>5, <2>6, <2>7 DEF ThreadStep
<1> QED
  BY <1>1, <1>2, <1>3, <1>4, <1>5, <1>6, <1>7, <1>8, <1>9 DEF Next, Step, Request, Progress, ExecStep

(* Once the default database is selected, what is executed next runs where a
   rebuild would run it. *)
HasDatabase(list) == \E j \in DOMAIN list : list[j] \in DatabaseSql

SelectionOK == engine.selected = "default" => HasDatabase(engine.db) /\ RunsAsReplayed

LEMMA ReplayedMore ==
  ASSUME NEW S, NEW list \in Seq(S), NEW new \in Seq(S), HasDatabase(list)
  PROVE  /\ Replayed(list \o new) = Replayed(list) \o [i \in DOMAIN new |-> Place(new[i], "default")]
         /\ HasDatabase(list \o new)
<1> DEFINE places == [i \in DOMAIN new |-> Place(new[i], "default")]
           m == Len(list)
           n == Len(new)
<1>1. /\ m \in Nat /\ n \in Nat /\ DOMAIN list = 1 .. m /\ DOMAIN new = 1 .. n
      /\ list \o new \in Seq(S) /\ Len(list \o new) = m + n /\ DOMAIN (list \o new) = 1 .. m + n
      /\ \A i \in 1 .. m : (list \o new)[i] = list[i]
      /\ \A i \in 1 .. n : (list \o new)[m + i] = new[i]
  BY ConcatProperties, LenProperties
<1>2. /\ Replayed(list) \in Seq(Databases) /\ Len(Replayed(list)) = m
      /\ places \in Seq(Databases) /\ Len(places) = n
      /\ Replayed(list \o new) \in Seq(Databases) /\ Len(Replayed(list \o new)) = m + n
  <2>1. "default" \in Databases
    BY DEF Databases
  <2>2. places \in Seq(Databases) /\ DOMAIN places = 1 .. n
    BY <1>1, <2>1, PlacesType
  <2>3. /\ Replayed(list) \in Seq(Databases) /\ DOMAIN Replayed(list) = 1 .. m
        /\ Replayed(list \o new) \in Seq(Databases) /\ DOMAIN Replayed(list \o new) = 1 .. m + n
    BY <1>1, ReplayedType
  <2> HIDE DEF places, m, n
  <2>4. ASSUME NEW s \in Seq(Databases), NEW k \in Nat, DOMAIN s = 1 .. k PROVE Len(s) = k
    <3>1. Len(s) \in Nat /\ DOMAIN s = 1 .. Len(s)
      BY LenProperties
    <3>2. 1 .. Len(s) = 1 .. k
      BY <2>4, <3>1
    <3>3. ~(Len(s) < k)
      <4> SUFFICES ASSUME Len(s) < k PROVE FALSE
        OBVIOUS
      <4>1. k \in 1 .. k /\ k \notin 1 .. Len(s)
        BY <3>1
      <4> QED BY <3>2, <4>1
    <3>4. ~(k < Len(s))
      <4> SUFFICES ASSUME k < Len(s) PROVE FALSE
        OBVIOUS
      <4>1. PICK j \in Nat : j = Len(s) /\ k < j
        BY <3>1
      <4>2. j \in 1 .. j /\ j \notin 1 .. k
        BY <4>1
      <4> QED BY <3>2, <4>1, <4>2
    <3>5. Len(s) \in Nat
      BY <3>1
    <3> QED BY <3>3, <3>4, <3>5
  <2>5. m + n \in Nat
    BY <1>1
  <2>6. Len(places) = n
    BY <1>1, <2>2, <2>4
  <2>7. Len(Replayed(list)) = m
    BY <1>1, <2>3, <2>4
  <2>8. Len(Replayed(list \o new)) = m + n
    BY <2>3, <2>4, <2>5
  <2> QED BY <2>2, <2>3, <2>6, <2>7, <2>8
<1>3. /\ Replayed(list) \o places \in Seq(Databases) /\ Len(Replayed(list) \o places) = m + n
      /\ \A i \in 1 .. m : (Replayed(list) \o places)[i] = Replayed(list)[i]
      /\ \A i \in 1 .. n : (Replayed(list) \o places)[m + i] = places[i]
  <2> HIDE DEF places, m, n
  <2>1. PICK a \in Seq(Databases), b \in Seq(Databases) :
          a = Replayed(list) /\ b = places /\ Len(a) = m /\ Len(b) = n
    BY <1>2
  <2>2. /\ a \o b \in Seq(Databases) /\ Len(a \o b) = Len(a) + Len(b)
        /\ \A i \in 1 .. Len(a) : (a \o b)[i] = a[i]
        /\ \A i \in 1 .. Len(b) : (a \o b)[Len(a) + i] = b[i]
    BY ConcatProperties
  <2> QED BY <2>1, <2>2
<1>4. PICK j \in 1 .. m : list[j] \in DatabaseSql
  BY <1>1 DEF HasDatabase
<1>5. \A i \in 1 .. n : places[i] = Place(new[i], "default")
  BY <1>1
<1> HIDE DEF places, m, n
<1>6. ASSUME NEW i \in 1 .. m + n PROVE Replayed(list \o new)[i] = (Replayed(list) \o places)[i]
  <2>1. Replayed(list \o new)[i] =
          Place((list \o new)[i], IF \E k \in 1 .. i - 1 : (list \o new)[k] \in DatabaseSql
                                  THEN "default" ELSE "none")
    BY <1>1 DEF Replayed
  <2>2. CASE i \in 1 .. m
    <3>1. Replayed(list)[i] = Place(list[i], IF \E k \in 1 .. i - 1 : list[k] \in DatabaseSql
                                            THEN "default" ELSE "none")
      BY <1>1, <2>2 DEF Replayed
    <3>2. \A k \in 1 .. i - 1 : (list \o new)[k] = list[k]
      BY <1>1, <2>2
    <3> QED BY <1>1, <1>3, <2>1, <2>2, <3>1, <3>2
  <2>3. CASE i \notin 1 .. m
    <3>1. PICK k \in 1 .. n : i = m + k
      <4>1. i - m \in 1 .. n /\ i = m + (i - m)
        BY <1>1, <2>3
      <4> QED BY <4>1
    <3>2. j \in 1 .. i - 1 /\ (list \o new)[j] \in DatabaseSql
      BY <1>1, <1>4, <2>3
    <3>3. Replayed(list \o new)[i] = Place(new[k], "default")
      BY <1>1, <2>1, <3>1, <3>2
    <3> QED BY <1>3, <1>5, <3>1, <3>3
  <2> QED BY <2>2, <2>3
<1>7. Replayed(list \o new) = Replayed(list) \o places
  BY <1>2, <1>3, <1>6, SeqEqual
<1>8. HasDatabase(list \o new)
  <2>1. j \in DOMAIN (list \o new) /\ (list \o new)[j] \in DatabaseSql
    BY <1>1, <1>4
  <2> QED BY <2>1 DEF HasDatabase
<1> QED
  BY <1>7, <1>8 DEF places

LEMMA ReplayedNext ==
  ASSUME NEW S, NEW list \in Seq(S), NEW sql \in S, HasDatabase(list)
  PROVE  /\ Replayed(Append(list, sql)) = Append(Replayed(list), Place(sql, "default"))
         /\ HasDatabase(Append(list, sql))
<1> DEFINE new == <<sql>>
           places == [i \in DOMAIN new |-> Place(new[i], "default")]
<1>1. new \in Seq(S) /\ list \o new = Append(list, sql)
  OBVIOUS
<1>2. places = <<Place(sql, "default")>>
  OBVIOUS
<1>3. Replayed(list) \in Seq(Databases) /\ Place(sql, "default") \in Databases
  BY ReplayedType, PlaceType DEF Databases
<1>4. Replayed(list) \o <<Place(sql, "default")>> = Append(Replayed(list), Place(sql, "default"))
  BY <1>3
<1>5. Replayed(list \o new) = Replayed(list) \o places /\ HasDatabase(list \o new)
  <2> HIDE DEF new
  <2> QED BY <1>1, ReplayedMore
<1> QED
  BY <1>1, <1>2, <1>4, <1>5

(* A rebuild selects the default database if it could. *)
LEMMA ReplayedSelects ==
  ASSUME NEW S, NEW list \in Seq(S), SelectedAfter(list) = "default"
  PROVE  HasDatabase(list)
<1>1. PICK i \in DOMAIN list : Replayed(list)[i] = "default"
  BY DEF SelectedAfter
<1>2. \E j \in 1 .. i - 1 : list[j] \in DatabaseSql
  BY <1>1 DEF Replayed, Place
<1>3. Len(list) \in Nat /\ DOMAIN list = 1 .. Len(list)
  BY LenProperties
<1> QED
  BY <1>1, <1>2, <1>3 DEF HasDatabase

LEMMA SelectionStep ==
  ASSUME NodeInv, NoCli, "cli" \notin faults, SelectionOK, [Next]_vars
  PROVE  SelectionOK'
<1>0. /\ engine \in Engines /\ engine.db \in Seq(Statements) /\ local["exec"].sql \in Statements
      /\ local \in [Threads -> Locals] /\ Ordered(wal, lastSequence) /\ lastSequence \in Nat
      /\ engine.walSequence \in Nat /\ NoBound \in Nat /\ snapshotManifest \in Nat /\ "exec" \in Threads
  BY DataNodeAssumption DEF NodeInv, TypeOK, Engines, Locals, Threads, NoBound
<1>e. \A t \in Threads : Exclusive(t) \in Nat /\ local[t].list \in Seq(RequestIds)
  BY <1>0 DEF Exclusive, Locals
<1>1. CASE UNCHANGED engine
  BY <1>1 DEF SelectionOK, RunsAsReplayed
<1>2. CASE engine' = NoEngine
  BY <1>2 DEF SelectionOK, NoEngine
<1>3. CASE CatchUp
  <2> DEFINE new == SqlBetween(wal, engine.walSequence, Exclusive("exec"))
  <2>1. /\ engine'.db = engine.db \o new /\ engine'.selected = engine.selected
        /\ engine'.where = engine.where \o [i \in DOMAIN new |-> Place(new[i], engine.selected)]
    BY <1>0, <1>3 DEF CatchUp, Engines
  <2>2. new \in Seq(Statements)
    <3>1. new \in Seq(RequestIds)
      BY <1>0, <1>e, SqlBetweenType
    <3> QED BY <3>1, SeqWider DEF Statements
  <2> HIDE DEF new
  <2> SUFFICES ASSUME engine.selected = "default" PROVE HasDatabase(engine'.db) /\ engine'.where = Replayed(engine'.db)
    BY <2>1 DEF SelectionOK, RunsAsReplayed
  <2>3. HasDatabase(engine.db) /\ engine.where = Replayed(engine.db)
    BY DEF SelectionOK, RunsAsReplayed
  <2> QED BY <1>0, <2>1, <2>2, <2>3, ReplayedMore
<1>4. CASE RunStatement
  <2> DEFINE sql == local["exec"].sql
  <2>1. local["exec"].op # "cli"
    BY DEF NoCli
  <2>2. /\ engine'.selected = engine.selected
        /\ engine'.db = IF local["exec"].op = "read" THEN engine.db ELSE Append(engine.db, sql)
        /\ engine'.where = IF local["exec"].op = "read" THEN engine.where
                           ELSE Append(engine.where, Place(sql, engine.selected))
    BY <1>0, <1>4, <2>1 DEF RunStatement, Engines
  <2> SUFFICES ASSUME engine.selected = "default" PROVE HasDatabase(engine'.db) /\ engine'.where = Replayed(engine'.db)
    BY <2>2 DEF SelectionOK, RunsAsReplayed
  <2>3. HasDatabase(engine.db) /\ engine.where = Replayed(engine.db)
    BY DEF SelectionOK, RunsAsReplayed
  <2>4. CASE local["exec"].op = "read"
    BY <2>2, <2>3, <2>4
  <2>5. CASE local["exec"].op # "read"
    BY <1>0, <2>2, <2>3, <2>5, ReplayedNext
  <2> QED BY <2>4, <2>5
<1>5. ASSUME NEW t \in Threads, ResetAndReplay(t) PROVE SelectionOK'
  <2>1. /\ engine'.db = ReplaySql(t) /\ engine'.where = Replayed(ReplaySql(t))
        /\ engine'.selected = SelectedAfter(ReplaySql(t))
    BY <1>5 DEF ResetAndReplay
  <2>2. ReplaySql(t) \in Seq(RequestIds)
    BY <1>0, <1>e, SqlBetweenType, ConcatType DEF ReplaySql
  <2>3. SelectedAfter(ReplaySql(t)) = "default" => HasDatabase(ReplaySql(t))
    BY <2>2, ReplayedSelects
  <2> QED BY <2>1, <2>3 DEF SelectionOK, RunsAsReplayed
<1>6. ASSUME NEW t \in Threads, SetServing(t) PROVE SelectionOK'
  <2>1. engine'.db = engine.db /\ engine'.where = engine.where /\ engine'.selected = engine.selected
    BY <1>0, <1>6 DEF SetServing, Engines
  <2> QED BY <2>1 DEF SelectionOK, RunsAsReplayed
<1> QED
  BY <1>1, <1>2, <1>3, <1>4, <1>5, <1>6, EngineChanges

(* Whenever no handler is between its steps and runOnEngine would take the engine
   for current, it was given the snapshot followed by the log up to
   engineWalSequence; and if the default database is selected in it, every
   statement ran where resetAndReplay would run it. *)
THEOREM EngineMatches == Spec => []EngineMatchesLogAlone
<1> DEFINE Inv == FilesInv /\ NoCli /\ AloneInv /\ ("cli" \notin faults => SelectionOK)
<1>1. Init => Inv
  <2> SUFFICES ASSUME Init PROVE Inv
    OBVIOUS
  <2>1. FilesInv
    BY NodeInit, AheadInit, AloneInit DEF FilesInv
  <2>2. NoCli
    BY DEF Init, NoCli, NoLocal, Threads
  <2>3. EngineOK
    BY DEF Init, EngineOK, Current, NoEngine
  <2>4. SelectionOK
    BY DEF Init, NoEngine, SelectionOK
  <2> QED BY <2>1, <2>2, <2>3, <2>4 DEF FilesInv, AloneInv
<1>2. Inv /\ [Next]_vars => Inv'
  <2> SUFFICES ASSUME Inv, [Next]_vars PROVE Inv'
    OBVIOUS
  <2>1. (Alone' <=> Alone) /\ faults' = faults
    BY DEF Next, vars, Alone
  <2>2. NodeInv' /\ AheadInv' /\ NoCli'
    BY NodeStep, AheadStep, NoCliStep DEF FilesInv
  <2>3. Alone => AloneOK'
    BY AloneStep DEF FilesInv
  <2>4. Alone /\ "cli" \notin faults => EngineOK'
    BY EngineAlone DEF FilesInv, AloneInv
  <2>5. "cli" \notin faults => SelectionOK'
    BY SelectionStep DEF FilesInv
  <2> QED BY <2>1, <2>2, <2>3, <2>4, <2>5 DEF FilesInv, AloneInv
<1>3. Inv => EngineMatchesLogAlone
  <2> SUFFICES ASSUME Inv PROVE EngineMatchesLogAlone
    OBVIOUS
  <2>1. TypeOK
    BY DEF FilesInv, NodeInv
  <2>2. ASSUME Alone, "cli" \notin faults PROVE EngineMatchesLog
    <3>1. EngineOK
      BY <2>2 DEF AloneInv
    <3>2. pc["exec"] \in {"idle", "mark", "marked", "threshold", "reply"} /\ pc["refresh"] = "idle"
          /\ pc["snapshot"] = "idle" => \A t \in Threads : pc[t] \notin Between
      BY DEF Threads, Between
    <3>3. EngineCurrent => engine.db = snapshotSql \o SqlBetween(wal, snapshotManifest, engine.walSequence + 1)
      BY <3>1, <3>2 DEF EngineCurrent, EngineOK, Current, Db
    <3>4. engine.selected = "default" => RunsAsReplayed
      BY <2>2 DEF SelectionOK
    <3> QED BY <3>3, <3>4 DEF EngineMatchesLog
  <2> QED BY <2>1, <2>2 DEF EngineMatchesLogAlone
<1> QED
  BY <1>1, <1>2, <1>3, PTL DEF Spec
=============================================================================
