---------------------------- MODULE ClusterProofs ----------------------------
(***************************************************************************)
(* Proofs about Cluster, for any replicas, writers, requests, snapshot     *)
(* threshold and faults.  First what one node does to its files; then what *)
(* survives all faults; then the shard as a whole while one node at a time *)
(* is away.                                                                *)
(***************************************************************************)
EXTENDS Cluster, TLAPS, FiniteSetTheorems, SequenceTheorems, WellFoundedInduction

-----------------------------------------------------------------------------
(* Numbers                                                                 *)

(* A set of numbers has a smallest one. *)
LEMMA Smallest ==
  ASSUME NEW S \in SUBSET Nat, S # {}
  PROVE  \E x \in S : \A y \in S : x <= y
<1>1. PICK x \in S : \A y \in S : ~ (<<y, x>> \in OpToRel(<, Nat))
  BY NatLessThanWellFounded, WFMin
<1>2. ASSUME NEW y \in S PROVE x <= y
  <2> SUFFICES ASSUME ~(x <= y) PROVE FALSE
    OBVIOUS
  <2>1. y < x /\ y \in Nat /\ x \in Nat
    BY SMT
  <2>2. <<y, x>> \in OpToRel(<, Nat)
    BY <2>1 DEF OpToRel
  <2> QED BY <1>1, <2>2
<1> QED
  BY <1>2

LEMMA FirstIsMember ==
  ASSUME NEW S \in SUBSET Nat, S # {}
  PROVE  First(S) \in S
BY Smallest DEF First

(* A set of numbers that goes down from each of its members is an initial  *)
(* interval. *)
LEMMA InitialInterval ==
  ASSUME NEW N \in Nat, NEW D \in SUBSET (1 .. N),
         \A i, j \in 1 .. N : i < j /\ j \in D => i \in D
  PROVE  \E k \in 0 .. N : D = 1 .. k
<1> DEFINE R == {i \in 1 .. N + 1 : i \notin D}
<1>1. R \in SUBSET Nat /\ N + 1 \in R
  OBVIOUS
<1>2. PICK x \in R : \A y \in R : x <= y
  BY <1>1, Smallest
<1>3. x \in Nat /\ x \in 1 .. N + 1 /\ x \notin D
  OBVIOUS
<1>4. PICK k : k = x - 1
  OBVIOUS
<1>5. k \in 0 .. N /\ x = k + 1
  BY <1>3, <1>4
<1>6. ASSUME NEW i \in 1 .. k PROVE i \in D
  BY <1>2, <1>3, <1>5
<1>7. ASSUME NEW i \in D PROVE i \in 1 .. k
  BY <1>3, <1>5
<1>8. D = 1 .. k
  BY <1>6, <1>7
<1> QED
  BY <1>5, <1>8

LEMMA UpTo ==
  ASSUME NEW k \in Nat
  PROVE  IsFiniteSet(1 .. k) /\ Cardinality(1 .. k) = k
<1>1. Cardinality(1 .. k) = IF 1 > k THEN 0 ELSE k - 1 + 1
  BY FS_Interval
<1>2. IsFiniteSet(1 .. k)
  BY FS_Interval
<1> QED BY <1>1, <1>2

-----------------------------------------------------------------------------
(* The files of one node                                                   *)

(* Sequences grow along the log and stay at or below last, no request is   *)
(* in the log twice, the index has every request of the log, and without a *)
(* compaction there is no snapshot. *)
LogOK(nd) ==
  /\ nd \in NodeStates
  /\ \A i \in 1 .. Len(nd.wal) : nd.wal[i].sequence <= nd.last
  /\ \A i, j \in 1 .. Len(nd.wal) : i < j => nd.wal[i].sequence < nd.wal[j].sequence
  /\ \A i, j \in 1 .. Len(nd.wal) : nd.wal[i].requestId = nd.wal[j].requestId => i = j
  /\ \A i \in 1 .. Len(nd.wal) : nd.wal[i].requestId \in nd.ids
  /\ nd.compacted <= nd.last
  /\ nd.compacted = 0 => nd.snap = <<>>

LEMMA Concats ==
  ASSUME NEW S, NEW c \in Seq(S), NEW t \in Seq(S)
  PROVE  /\ c \o t \in Seq(S) /\ Len(c) \in Nat /\ Len(t) \in Nat /\ Len(c \o t) = Len(c) + Len(t)
         /\ \A i \in 1 .. Len(c) : (c \o t)[i] = c[i]
         /\ \A i \in 1 .. Len(t) : (c \o t)[Len(c) + i] = t[i]
<1>1. /\ c \o t \in Seq(S) /\ Len(c \o t) = Len(c) + Len(t) /\ Len(c) \in Nat /\ Len(t) \in Nat
      /\ \A i \in 1 .. Len(c) + Len(t) :
            (c \o t)[i] = IF i <= Len(c) THEN c[i] ELSE t[i - Len(c)]
  BY ConcatProperties, LenProperties
<1>2. \A i \in 1 .. Len(c) : i \in 1 .. Len(c) + Len(t) /\ i <= Len(c)
  BY <1>1
<1>3. \A i \in 1 .. Len(t) : Len(c) + i \in 1 .. Len(c) + Len(t)
                             /\ ~(Len(c) + i <= Len(c)) /\ (Len(c) + i) - Len(c) = i
  BY <1>1
<1> QED
  BY <1>1, <1>2, <1>3

LEMMA NodeFields ==
  ASSUME NEW nd \in NodeStates
  PROVE  /\ nd.wal \in Seq(Entries) /\ Len(nd.wal) \in Nat /\ DOMAIN nd.wal = 1 .. Len(nd.wal)
         /\ nd.snap \in Seq(RequestIds) /\ nd.last \in Nat /\ nd.compacted \in Nat
         /\ nd.ids \subseteq RequestIds /\ nd.state \in States
         /\ \A i \in 1 .. Len(nd.wal) :
               nd.wal[i].sequence \in Nat \ {0} /\ nd.wal[i].requestId \in RequestIds
<1>1. nd.wal \in Seq(Entries) /\ nd.snap \in Seq(RequestIds) /\ nd.last \in Nat
      /\ nd.compacted \in Nat /\ nd.ids \subseteq RequestIds /\ nd.state \in States
  BY DEF NodeStates
<1>2. Len(nd.wal) \in Nat /\ DOMAIN nd.wal = 1 .. Len(nd.wal)
  BY <1>1, LenProperties
<1>3. \A i \in 1 .. Len(nd.wal) : nd.wal[i] \in Entries
  BY <1>1, <1>2, ElementOfSeq
<1> QED
  BY <1>1, <1>2, <1>3 DEF Entries

(* Covered cuts the log at the compaction point. *)
LEMMA CoveredIs ==
  ASSUME NEW nd, LogOK(nd)
  PROVE  /\ Covered(nd) \in 0 .. Len(nd.wal)
         /\ \A i \in 1 .. Len(nd.wal) : nd.wal[i].sequence <= nd.compacted <=> i <= Covered(nd)
<1> DEFINE N == Len(nd.wal)
           D == {i \in 1 .. N : nd.wal[i].sequence <= nd.compacted}
<1>1. N \in Nat /\ DOMAIN nd.wal = 1 .. N /\ nd.compacted \in Nat
      /\ \A i \in 1 .. N : nd.wal[i].sequence \in Nat
  BY NodeFields DEF LogOK
<1>2. \A i, j \in 1 .. N : i < j => nd.wal[i].sequence < nd.wal[j].sequence
  BY DEF LogOK
<1>3. \A i, j \in 1 .. N : i < j /\ j \in D => i \in D
  BY <1>1, <1>2
<1>4. D \in SUBSET (1 .. N)
  OBVIOUS
<1>5. PICK k \in 0 .. N : D = 1 .. k
  BY <1>1, <1>3, <1>4, InitialInterval
<1>6. Covered(nd) = Cardinality(D)
  BY <1>1 DEF Covered
<1>7. Cardinality(D) = k
  <2>1. k \in Nat
    BY <1>1
  <2>2. Cardinality(1 .. k) = k
    BY <2>1, UpTo
  <2> QED BY <1>5, <2>2
<1>8. \A i \in 1 .. N : i \in D <=> i <= k
  BY <1>1, <1>5
<1> QED
  BY <1>6, <1>7, <1>8

LEMMA SqlIs ==
  ASSUME NEW nd \in NodeStates
  PROVE  /\ Sql(nd.wal) \in Seq(RequestIds) /\ Len(Sql(nd.wal)) = Len(nd.wal)
         /\ \A i \in 1 .. Len(nd.wal) : Sql(nd.wal)[i] = nd.wal[i].requestId
<1>1. Len(nd.wal) \in Nat /\ DOMAIN nd.wal = 1 .. Len(nd.wal)
      /\ \A i \in 1 .. Len(nd.wal) : nd.wal[i].requestId \in RequestIds
  BY NodeFields
<1>2. Sql(nd.wal) = [i \in 1 .. Len(nd.wal) |-> nd.wal[i].requestId]
  BY <1>1 DEF Sql
<1>3. Sql(nd.wal) \in [1 .. Len(nd.wal) -> RequestIds]
  BY <1>1, <1>2
<1> QED
  BY <1>1, <1>2, <1>3

(* Content, position by position. *)
LEMMA ContentIs ==
  ASSUME NEW nd, LogOK(nd)
  PROVE  /\ Content(nd) \in Seq(RequestIds)
         /\ Len(Content(nd)) = Len(nd.snap) + (Len(nd.wal) - Covered(nd))
         /\ \A i \in 1 .. Len(nd.snap) : Content(nd)[i] = nd.snap[i]
         /\ \A i \in 1 .. Len(nd.wal) - Covered(nd) :
               Content(nd)[Len(nd.snap) + i] = nd.wal[Covered(nd) + i].requestId
<1>1. nd \in NodeStates
  BY DEF LogOK
<1>2. PICK k : k = Covered(nd)
  OBVIOUS
<1>3. PICK s : s = Sql(nd.wal)
  OBVIOUS
<1>4. PICK N : N = Len(nd.wal)
  OBVIOUS
<1>5. N \in Nat /\ k \in 0 .. N /\ nd.snap \in Seq(RequestIds)
  BY <1>1, <1>2, <1>4, NodeFields, CoveredIs
<1>6. s \in Seq(RequestIds) /\ Len(s) = N /\ \A i \in 1 .. N : s[i] = nd.wal[i].requestId
  BY <1>1, <1>3, <1>4, SqlIs
<1>7. PICK t : t = SubSeq(s, k + 1, N)
  OBVIOUS
<1>8. t \in Seq(RequestIds) /\ Len(t) = N - k /\ \A i \in 1 .. N - k : t[i] = s[k + i]
  <2>1. PICK m : m = k + 1
    OBVIOUS
  <2>2. m \in Int /\ N \in Int /\ N - m + 1 = N - k /\ (~(m <= N) => N - k = 0)
        /\ \A i \in 1 .. N - k : m + i - 1 = k + i
    BY <1>5, <2>1
  <2>3. \A i \in m .. N : s[i] \in RequestIds
    BY <1>5, <1>6, <2>1, ElementOfSeq
  <2>4. /\ SubSeq(s, m, N) \in Seq(RequestIds)
        /\ Len(SubSeq(s, m, N)) = IF m <= N THEN N - m + 1 ELSE 0
        /\ \A i \in 1 .. N - m + 1 : SubSeq(s, m, N)[i] = s[m + i - 1]
    BY <2>2, <2>3, SubSeqProperties
  <2>5. t = SubSeq(s, m, N)
    BY <1>7, <2>1
  <2> QED BY <2>2, <2>4, <2>5
<1>9. Content(nd) = nd.snap \o t
  BY <1>2, <1>3, <1>4, <1>7 DEF Content
<1>10. PICK c : c = nd.snap
  OBVIOUS
<1>11. /\ c \o t \in Seq(RequestIds) /\ Len(c \o t) = Len(c) + Len(t) /\ Len(c) \in Nat
       /\ \A i \in 1 .. Len(c) : (c \o t)[i] = c[i]
       /\ \A i \in 1 .. Len(t) : (c \o t)[Len(c) + i] = t[i]
  <2>1. c \in Seq(RequestIds) /\ t \in Seq(RequestIds)
    BY <1>5, <1>8, <1>10
  <2>2. /\ c \o t \in Seq(RequestIds) /\ Len(c \o t) = Len(c) + Len(t)
        /\ Len(c) \in Nat /\ Len(t) \in Nat
        /\ \A i \in 1 .. Len(c) + Len(t) :
              (c \o t)[i] = IF i <= Len(c) THEN c[i] ELSE t[i - Len(c)]
    BY <2>1, ConcatProperties, LenProperties
  <2>3. \A i \in 1 .. Len(c) : i \in 1 .. Len(c) + Len(t) /\ i <= Len(c)
    BY <2>2
  <2>4. \A i \in 1 .. Len(t) : Len(c) + i \in 1 .. Len(c) + Len(t)
                               /\ ~(Len(c) + i <= Len(c)) /\ (Len(c) + i) - Len(c) = i
    BY <2>2
  <2> QED BY <2>2, <2>3, <2>4
<1>12. \A i \in 1 .. N - k : k + i \in 1 .. N
  BY <1>5
<1> QED
  BY <1>2, <1>4, <1>6, <1>8, <1>9, <1>10, <1>11, <1>12

(* What a node has executed: its snapshot, and the entries of its log above *)
(* the compaction point. *)
LEMMA ExecutedIs ==
  ASSUME NEW nd, LogOK(nd)
  PROVE  Executed(nd) = {nd.snap[i] : i \in 1 .. Len(nd.snap)}
            \cup {nd.wal[i].requestId : i \in {j \in 1 .. Len(nd.wal) : nd.wal[j].sequence > nd.compacted}}
<1> DEFINE S == {nd.snap[i] : i \in 1 .. Len(nd.snap)}
           F == {j \in 1 .. Len(nd.wal) : nd.wal[j].sequence > nd.compacted}
           W == {nd.wal[i].requestId : i \in F}
           c == Content(nd)
           k == Covered(nd)
           N == Len(nd.wal)
           L == Len(nd.snap)
<1>1. N \in Nat /\ nd.snap \in Seq(RequestIds) /\ L \in Nat /\ nd.compacted \in Nat
      /\ \A i \in 1 .. N : nd.wal[i].sequence \in Nat
  BY NodeFields, LenProperties DEF LogOK
<1>2. k \in 0 .. N /\ \A i \in 1 .. N : nd.wal[i].sequence <= nd.compacted <=> i <= k
  BY CoveredIs
<1>3. /\ c \in Seq(RequestIds) /\ Len(c) = L + (N - k)
      /\ \A i \in 1 .. L : c[i] = nd.snap[i]
      /\ \A i \in 1 .. N - k : c[L + i] = nd.wal[k + i].requestId
  BY ContentIs
<1>4. DOMAIN c = 1 .. L + (N - k)
  BY <1>3, LenProperties
<1>5. Executed(nd) = {c[i] : i \in 1 .. L + (N - k)}
  BY <1>4 DEF Executed, Elements
<1>a. N \in Nat /\ L \in Nat /\ k \in 0 .. N
  BY <1>1, <1>2
<1> HIDE DEF c, k, N, L
<1>6. ASSUME NEW x \in Executed(nd) PROVE x \in S \cup W
  <2>1. PICK i \in 1 .. L + (N - k) : x = c[i]
    BY <1>5
  <2>2. CASE i <= L
    <3>1. i \in 1 .. L
      BY <1>a, <2>2
    <3> QED BY <1>3, <2>1, <3>1 DEF L
  <2>3. CASE i > L
    <3>1. PICK j : j = i - L
      OBVIOUS
    <3>2. j \in 1 .. N - k /\ L + j = i /\ k + j \in 1 .. N /\ ~(k + j <= k)
      BY <1>a, <2>3, <3>1
    <3>3. k + j \in F
      BY <1>1, <1>2, <3>2 DEF N
    <3>4. c[i] = nd.wal[k + j].requestId
      BY <1>3, <3>2
    <3> QED BY <2>1, <3>3, <3>4
  <2> QED BY <1>a, <2>2, <2>3
<1>7. ASSUME NEW x \in S PROVE x \in Executed(nd)
  <2>1. PICK i \in 1 .. L : x = nd.snap[i]
    BY DEF L
  <2>2. i \in 1 .. L + (N - k)
    BY <1>a
  <2>3. c[i] = x
    BY <1>3, <2>1
  <2> QED BY <1>5, <2>2, <2>3
<1>8. ASSUME NEW x \in W PROVE x \in Executed(nd)
  <2>1. PICK i \in F : x = nd.wal[i].requestId
    OBVIOUS
  <2>2. PICK j : j = i - k
    OBVIOUS
  <2>a. i \in 1 .. N /\ nd.wal[i].sequence > nd.compacted
    BY DEF N
  <2>3. i \in 1 .. N /\ ~(i <= k)
    BY <1>1, <1>2, <2>a
  <2>4. j \in 1 .. N - k /\ k + j = i /\ L + j \in 1 .. L + (N - k)
    BY <1>a, <2>2, <2>3
  <2>5. c[L + j] = x
    BY <1>3, <2>1, <2>4
  <2> QED BY <1>5, <2>4, <2>5
<1> QED
  BY <1>6, <1>7, <1>8

-----------------------------------------------------------------------------
(* What an operation does to the files                                     *)

(* r is nd with one more entry at the end of its log. *)
OneMore(nd, r, id, q) ==
  /\ r \in NodeStates /\ r.state = nd.state /\ r.snap = nd.snap /\ r.compacted = nd.compacted
  /\ r.last = q /\ r.ids = nd.ids \cup {id}
  /\ Len(r.wal) = Len(nd.wal) + 1
  /\ \A i \in 1 .. Len(nd.wal) : r.wal[i] = nd.wal[i]
  /\ r.wal[Len(nd.wal) + 1].sequence = q /\ r.wal[Len(nd.wal) + 1].requestId = id

LEMMA LoggedIs ==
  ASSUME NEW nd \in NodeStates, NEW id \in RequestIds, NEW s \in Nat
  PROVE  /\ InWal(nd, id) => Logged(nd, id, s) = nd
         /\ ~InWal(nd, id) => OneMore(nd, Logged(nd, id, s), id, MaxOf(nd.last + 1, s))
<1>1. InWal(nd, id) => Logged(nd, id, s) = nd
  BY DEF Logged
<1>2. ASSUME ~InWal(nd, id) PROVE OneMore(nd, Logged(nd, id, s), id, MaxOf(nd.last + 1, s))
  <2>1. PICK q : q = MaxOf(nd.last + 1, s)
    OBVIOUS
  <2>2. q \in Nat \ {0}
    BY <2>1, NodeFields DEF MaxOf
  <2>3. PICK e : e = [sequence |-> q, requestId |-> id]
    OBVIOUS
  <2>4. e \in Entries /\ e.sequence = q /\ e.requestId = id
    BY <2>2, <2>3 DEF Entries
  <2>5. PICK r : r = [nd EXCEPT !.wal = Append(@, e), !.last = q, !.ids = @ \cup {id}]
    OBVIOUS
  <2>6. Logged(nd, id, s) = r
    BY <1>2, <2>1, <2>3, <2>5 DEF Logged
  <2>7. nd.wal \in Seq(Entries) /\ Len(nd.wal) \in Nat
    BY NodeFields
  <2>8. PICK l : l = nd.wal
    OBVIOUS
  <2>9. /\ Append(l, e) \in Seq(Entries) /\ Len(Append(l, e)) = Len(l) + 1
        /\ \A i \in 1 .. Len(l) : Append(l, e)[i] = l[i]
        /\ Append(l, e)[Len(l) + 1] = e
    BY <2>4, <2>7, <2>8, AppendProperties
  <2>10. /\ r \in NodeStates /\ r.state = nd.state /\ r.snap = nd.snap /\ r.compacted = nd.compacted
         /\ r.last = q /\ r.ids = nd.ids \cup {id} /\ r.wal = Append(l, e)
    BY <2>2, <2>5, <2>8, <2>9 DEF NodeStates
  <2>11. OneMore(nd, r, id, q)
    BY <2>4, <2>8, <2>9, <2>10 DEF OneMore
  <2> QED BY <2>1, <2>6, <2>11
<1> QED
  BY <1>1, <1>2

LEMMA NotInWal ==
  ASSUME NEW nd \in NodeStates, NEW id
  PROVE  InWal(nd, id) <=> \E i \in 1 .. Len(nd.wal) : nd.wal[i].requestId = id
BY NodeFields DEF InWal

(* One more entry, above all sequences, keeps the log in order. *)
LEMMA OneMoreOK ==
  ASSUME NEW nd, LogOK(nd), NEW id \in RequestIds, NEW q \in Nat, q > nd.last,
         NEW r, OneMore(nd, r, id, q), ~InWal(nd, id)
  PROVE  LogOK(r)
<1>1. nd \in NodeStates /\ Len(nd.wal) \in Nat /\ nd.last \in Nat /\ nd.compacted \in Nat
      /\ \A i \in 1 .. Len(nd.wal) : nd.wal[i].sequence \in Nat
  BY NodeFields DEF LogOK
<1>2. PICK N : N = Len(nd.wal)
  OBVIOUS
<1>3. N \in Nat /\ Len(r.wal) = N + 1
  BY <1>1, <1>2 DEF OneMore
<1>4. \A i \in 1 .. N + 1 : i = N + 1 \/ i \in 1 .. N
  BY <1>3
<1>5. \A i \in 1 .. N : r.wal[i] = nd.wal[i]
  BY <1>2 DEF OneMore
<1>6. r.wal[N + 1].sequence = q /\ r.wal[N + 1].requestId = id /\ r.last = q
      /\ r.ids = nd.ids \cup {id} /\ r.compacted = nd.compacted /\ r.snap = nd.snap /\ r \in NodeStates
  BY <1>2 DEF OneMore
<1>7. /\ \A i \in 1 .. N : nd.wal[i].sequence <= nd.last /\ nd.wal[i].sequence \in Nat
      /\ \A i, j \in 1 .. N : i < j => nd.wal[i].sequence < nd.wal[j].sequence
      /\ \A i, j \in 1 .. N : nd.wal[i].requestId = nd.wal[j].requestId => i = j
      /\ \A i \in 1 .. N : nd.wal[i].requestId \in nd.ids
      /\ nd.compacted <= nd.last
      /\ nd.compacted = 0 => nd.snap = <<>>
  BY <1>1, <1>2 DEF LogOK
<1>8. \A i \in 1 .. N : nd.wal[i].requestId # id
  BY <1>1, <1>2, NotInWal
<1>9. \A i \in 1 .. N + 1 : r.wal[i].sequence <= r.last
  BY <1>1, <1>4, <1>5, <1>6, <1>7
<1>10. ASSUME NEW i \in 1 .. N + 1, NEW j \in 1 .. N + 1, i < j
       PROVE  r.wal[i].sequence < r.wal[j].sequence
  <2>1. i \in 1 .. N
    BY <1>3, <1>10
  <2>2. CASE j = N + 1
    BY <1>1, <1>5, <1>6, <1>7, <2>1, <2>2
  <2>3. CASE j \in 1 .. N
    BY <1>5, <1>7, <1>10, <2>1, <2>3
  <2> QED BY <1>4, <2>2, <2>3
<1>11. ASSUME NEW i \in 1 .. N + 1, NEW j \in 1 .. N + 1, r.wal[i].requestId = r.wal[j].requestId
       PROVE  i = j
  BY <1>4, <1>5, <1>6, <1>7, <1>8, <1>11
<1>12. \A i \in 1 .. N + 1 : r.wal[i].requestId \in r.ids
  BY <1>4, <1>5, <1>6, <1>7
<1>13. r.compacted <= r.last /\ (r.compacted = 0 => r.snap = <<>>)
  BY <1>1, <1>6, <1>7
<1> QED
  BY <1>3, <1>6, <1>9, <1>10, <1>11, <1>12, <1>13 DEF LogOK

LEMMA MaxAbove ==
  ASSUME NEW a \in Nat, NEW s \in Nat
  PROVE  MaxOf(a + 1, s) \in Nat /\ MaxOf(a + 1, s) > a
BY DEF MaxOf

LEMMA LoggedOK ==
  ASSUME NEW nd, LogOK(nd), NEW id \in RequestIds, NEW s \in Nat
  PROVE  LogOK(Logged(nd, id, s))
<1>1. nd \in NodeStates /\ nd.last \in Nat
  BY NodeFields DEF LogOK
<1>2. PICK q : q = MaxOf(nd.last + 1, s)
  OBVIOUS
<1>3. q \in Nat /\ q > nd.last
  BY <1>1, <1>2, MaxAbove
<1>4. PICK r : r = Logged(nd, id, s)
  OBVIOUS
<1>5. CASE InWal(nd, id)
  BY <1>1, <1>5, LoggedIs
<1>6. CASE ~InWal(nd, id)
  <2>1. OneMore(nd, r, id, q)
    BY <1>1, <1>2, <1>4, <1>6, LoggedIs
  <2>2. LogOK(r)
    BY <1>3, <1>6, <2>1, OneMoreOK
  <2> QED BY <1>4, <2>2
<1> QED
  BY <1>5, <1>6

(* Nothing that was executed is lost by logging a request, and the request *)
(* is executed if it was not in the log. *)
LEMMA LoggedKeeps ==
  ASSUME NEW nd, LogOK(nd), NEW id \in RequestIds, NEW s \in Nat
  PROVE  /\ Executed(nd) \subseteq Executed(Logged(nd, id, s))
         /\ ~InWal(nd, id) => id \in Executed(Logged(nd, id, s))
<1>1. nd \in NodeStates /\ nd.last \in Nat /\ nd.compacted \in Nat /\ nd.compacted <= nd.last
  BY NodeFields DEF LogOK
<1>2. PICK q : q = MaxOf(nd.last + 1, s)
  OBVIOUS
<1>3. q \in Nat /\ q > nd.last
  BY <1>1, <1>2, MaxAbove
<1>4. PICK r : r = Logged(nd, id, s)
  OBVIOUS
<1>5. CASE InWal(nd, id)
  BY <1>1, <1>5, LoggedIs
<1>6. CASE ~InWal(nd, id)
  <2>1. OneMore(nd, r, id, q)
    BY <1>1, <1>2, <1>4, <1>6, LoggedIs
  <2>2. LogOK(r)
    BY <1>3, <1>6, <2>1, OneMoreOK
  <2>3. PICK N : N = Len(nd.wal)
    OBVIOUS
  <2>4. N \in Nat /\ Len(r.wal) = N + 1 /\ r.snap = nd.snap /\ r.compacted = nd.compacted
        /\ r.wal[N + 1].sequence = q /\ r.wal[N + 1].requestId = id
        /\ \A i \in 1 .. N : r.wal[i] = nd.wal[i]
    BY <1>1, <2>1, <2>3, NodeFields DEF OneMore
  <2>5. /\ Executed(nd) = {nd.snap[i] : i \in 1 .. Len(nd.snap)}
              \cup {nd.wal[i].requestId : i \in {j \in 1 .. N : nd.wal[j].sequence > nd.compacted}}
        /\ Executed(r) = {r.snap[i] : i \in 1 .. Len(r.snap)}
              \cup {r.wal[i].requestId : i \in {j \in 1 .. N + 1 : r.wal[j].sequence > r.compacted}}
    BY <2>2, <2>3, <2>4, ExecutedIs
  <2>6. N + 1 \in 1 .. N + 1 /\ q > r.compacted /\ \A i \in 1 .. N : i \in 1 .. N + 1
    BY <1>1, <1>3, <2>4
  <2>7. id \in Executed(r)
    BY <2>4, <2>5, <2>6
  <2>8. Executed(nd) \subseteq Executed(r)
    BY <2>4, <2>5, <2>6
  <2> QED BY <1>4, <2>7, <2>8
<1> QED
  BY <1>5, <1>6

(* Only the state of the process differs. *)
SameFiles(nd, r) ==
  /\ r \in NodeStates
  /\ r.wal = nd.wal /\ r.last = nd.last /\ r.ids = nd.ids /\ r.snap = nd.snap
  /\ r.compacted = nd.compacted

LEMMA SameFilesOK ==
  ASSUME NEW nd, LogOK(nd), NEW r, SameFiles(nd, r)
  PROVE  /\ LogOK(r) /\ Content(r) = Content(nd) /\ Executed(r) = Executed(nd)
         /\ KnownIds(r) = KnownIds(nd)
<1>1. Covered(r) = Covered(nd)
  BY DEF Covered, SameFiles
<1>2. Content(r) = Content(nd)
  BY <1>1 DEF Content, SameFiles
<1>3. LogOK(r)
  BY DEF LogOK, SameFiles
<1> QED
  BY <1>2, <1>3 DEF Executed, KnownIds, SameFiles

LEMMA StateChange ==
  ASSUME NEW nd, LogOK(nd), NEW st \in States
  PROVE  SameFiles(nd, [nd EXCEPT !.state = st]) /\ [nd EXCEPT !.state = st].state = st
BY DEF SameFiles, LogOK, NodeStates

(* r is nd after a snapshot of its own. *)
OwnSnapshot(nd, r) ==
  /\ r \in NodeStates /\ r.state = nd.state /\ r.last = nd.last /\ r.ids = nd.ids
  /\ r.wal = <<>> /\ Len(r.wal) = 0 /\ r.compacted = nd.last
  /\ r.snap = nd.snap \o Sql(nd.wal)

LEMMA SnapshotIs ==
  ASSUME NEW nd \in NodeStates
  PROVE  /\ nd.last - nd.compacted < SnapshotThreshold => maybeSnapshot(nd) = nd
         /\ ~(nd.last - nd.compacted < SnapshotThreshold) => OwnSnapshot(nd, maybeSnapshot(nd))
<1>1. nd.last - nd.compacted < SnapshotThreshold => maybeSnapshot(nd) = nd
  BY DEF maybeSnapshot
<1>2. ASSUME ~(nd.last - nd.compacted < SnapshotThreshold)
      PROVE  OwnSnapshot(nd, maybeSnapshot(nd))
  <2>1. PICK t : t = nd.snap \o Sql(nd.wal)
    OBVIOUS
  <2>2. t \in Seq(RequestIds)
    BY <2>1, NodeFields, SqlIs, ConcatProperties
  <2>3. <<>> \in Seq(Entries) /\ Len(<<>>) = 0
    BY EmptySeq
  <2>4. PICK r : r = [nd EXCEPT !.snap = t, !.compacted = nd.last, !.wal = <<>>]
    OBVIOUS
  <2>5. maybeSnapshot(nd) = r
    BY <1>2, <2>1, <2>4 DEF maybeSnapshot
  <2>6. /\ r \in NodeStates /\ r.state = nd.state /\ r.last = nd.last /\ r.ids = nd.ids
        /\ r.wal = <<>> /\ r.compacted = nd.last /\ r.snap = t
    BY <2>2, <2>3, <2>4 DEF NodeStates
  <2>7. OwnSnapshot(nd, r)
    BY <2>1, <2>3, <2>6 DEF OwnSnapshot
  <2> QED BY <2>5, <2>7
<1> QED
  BY <1>1, <1>2

LEMMA SnapshotOK ==
  ASSUME NEW nd, LogOK(nd)
  PROVE  LogOK(maybeSnapshot(nd)) /\ Executed(nd) \subseteq Executed(maybeSnapshot(nd))
<1>1. nd \in NodeStates /\ nd.last \in Nat /\ nd.compacted \in Nat /\ nd.compacted <= nd.last
  BY NodeFields DEF LogOK
<1>2. CASE nd.last - nd.compacted < SnapshotThreshold
  BY <1>1, <1>2, SnapshotIs
<1>3. CASE ~(nd.last - nd.compacted < SnapshotThreshold)
  <2>1. PICK r : r = maybeSnapshot(nd)
    OBVIOUS
  <2>2. OwnSnapshot(nd, r)
    BY <1>1, <1>3, <2>1, SnapshotIs
  <2>3. r.compacted = nd.last /\ r.last = nd.last /\ Len(r.wal) = 0 /\ r \in NodeStates
        /\ r.snap = nd.snap \o Sql(nd.wal)
    BY <2>2 DEF OwnSnapshot
  <2>4. nd.last # 0
    BY <1>1, <1>3, ClusterAssumption
  <2>5. LogOK(r)
    BY <1>1, <2>3, <2>4 DEF LogOK
  <2>6. PICK a : a = nd.snap
    OBVIOUS
  <2>7. PICK b : b = Sql(nd.wal)
    OBVIOUS
  <2>8. a \in Seq(RequestIds) /\ b \in Seq(RequestIds) /\ Len(b) = Len(nd.wal)
        /\ \A i \in 1 .. Len(b) : b[i] = nd.wal[i].requestId
    BY <1>1, <2>6, <2>7, NodeFields, SqlIs
  <2>9. /\ Len(a \o b) = Len(a) + Len(b) /\ Len(a) \in Nat /\ Len(b) \in Nat
        /\ \A i \in 1 .. Len(a) : (a \o b)[i] = a[i]
        /\ \A i \in 1 .. Len(b) : (a \o b)[Len(a) + i] = b[i]
    <3>1. a \in Seq(RequestIds) /\ b \in Seq(RequestIds)
      BY <2>8
    <3> QED BY <3>1, Concats
  <2>10. r.snap = a \o b
    BY <2>3, <2>6, <2>7
  <2>11. PICK c : c = a \o b
    OBVIOUS
  <2>12. Executed(r) = {c[i] : i \in 1 .. Len(c)}
    <3>1. Executed(r) = {r.snap[i] : i \in 1 .. Len(r.snap)}
             \cup {r.wal[i].requestId : i \in {j \in 1 .. Len(r.wal) : r.wal[j].sequence > r.compacted}}
      BY <2>5, ExecutedIs
    <3>2. {j \in 1 .. Len(r.wal) : r.wal[j].sequence > r.compacted} = {}
      BY <2>3
    <3>3. {r.wal[i].requestId : i \in {j \in 1 .. Len(r.wal) : r.wal[j].sequence > r.compacted}} = {}
      BY <3>2
    <3> QED BY <2>10, <2>11, <3>1, <3>3
  <2>13. Executed(nd) = {a[i] : i \in 1 .. Len(a)}
            \cup {nd.wal[i].requestId : i \in {j \in 1 .. Len(b) : nd.wal[j].sequence > nd.compacted}}
    BY <2>6, <2>8, ExecutedIs
  <2>14. ASSUME NEW x \in Executed(nd) PROVE x \in Executed(r)
    <3>1. CASE x \in {a[i] : i \in 1 .. Len(a)}
      <4>1. PICK i \in 1 .. Len(a) : x = a[i]
        BY <3>1
      <4>2. i \in 1 .. Len(c) /\ c[i] = x
        BY <2>9, <2>11, <4>1
      <4> QED BY <2>12, <4>2
    <3>2. CASE x \in {nd.wal[i].requestId : i \in {j \in 1 .. Len(b) : nd.wal[j].sequence > nd.compacted}}
      <4>1. PICK i \in 1 .. Len(b) : x = nd.wal[i].requestId
        BY <3>2
      <4>2. Len(a) + i \in 1 .. Len(c)
        BY <2>9, <2>11
      <4>3. c[Len(a) + i] = x
        BY <2>8, <2>9, <2>11, <4>1
      <4> QED BY <2>12, <4>2, <4>3
    <3> QED BY <2>13, <3>1, <3>2
  <2> QED BY <2>1, <2>5, <2>14
<1> QED
  BY <1>2, <1>3

(* r is nd after it installed the snapshot of peer. *)
Installed(nd, peer, r) ==
  /\ r \in NodeStates /\ r.state = nd.state /\ r.wal = nd.wal /\ r.ids = nd.ids
  /\ r.snap = peer.snap /\ r.compacted = peer.compacted
  /\ r.last = MaxOf(nd.last, peer.compacted)

LEMMA InstallIs ==
  ASSUME NEW nd \in NodeStates, NEW peer \in NodeStates
  PROVE  /\ peer.compacted <= nd.compacted => installPeerSnapshotIfNewer(nd, peer) = nd
         /\ ~(peer.compacted <= nd.compacted) =>
               Installed(nd, peer, installPeerSnapshotIfNewer(nd, peer))
<1>1. peer.compacted <= nd.compacted => installPeerSnapshotIfNewer(nd, peer) = nd
  BY DEF installPeerSnapshotIfNewer
<1>2. ASSUME ~(peer.compacted <= nd.compacted)
      PROVE  Installed(nd, peer, installPeerSnapshotIfNewer(nd, peer))
  <2>1. PICK q : q = MaxOf(nd.last, peer.compacted)
    OBVIOUS
  <2>2. q \in Nat /\ peer.snap \in Seq(RequestIds) /\ peer.compacted \in Nat
    BY <2>1, NodeFields DEF MaxOf
  <2>3. PICK r : r = [nd EXCEPT !.snap = peer.snap, !.compacted = peer.compacted, !.last = q]
    OBVIOUS
  <2>4. installPeerSnapshotIfNewer(nd, peer) = r
    BY <1>2, <2>1, <2>3 DEF installPeerSnapshotIfNewer
  <2>5. /\ r \in NodeStates /\ r.state = nd.state /\ r.wal = nd.wal /\ r.ids = nd.ids
        /\ r.snap = peer.snap /\ r.compacted = peer.compacted /\ r.last = q
    BY <2>2, <2>3 DEF NodeStates
  <2> QED BY <2>1, <2>4, <2>5 DEF Installed
<1> QED
  BY <1>1, <1>2

LEMMA InstallOK ==
  ASSUME NEW nd, LogOK(nd), NEW peer, LogOK(peer)
  PROVE  LogOK(installPeerSnapshotIfNewer(nd, peer))
<1>1. /\ nd \in NodeStates /\ peer \in NodeStates
      /\ nd.last \in Nat /\ nd.compacted \in Nat /\ peer.compacted \in Nat
      /\ \A i \in 1 .. Len(nd.wal) : nd.wal[i].sequence \in Nat
  BY NodeFields DEF LogOK
<1>2. CASE peer.compacted <= nd.compacted
  BY <1>1, <1>2, InstallIs
<1>3. CASE ~(peer.compacted <= nd.compacted)
  <2>1. PICK r : r = installPeerSnapshotIfNewer(nd, peer)
    OBVIOUS
  <2>2. Installed(nd, peer, r)
    BY <1>1, <1>3, <2>1, InstallIs
  <2>3. r.last \in Nat /\ r.last >= nd.last /\ r.last >= peer.compacted
    BY <1>1, <2>2 DEF Installed, MaxOf
  <2>4. LogOK(r)
    BY <1>1, <1>3, <2>2, <2>3 DEF LogOK, Installed
  <2> QED BY <2>1, <2>4
<1> QED
  BY <1>2, <1>3

LEMMA ExecuteOK ==
  ASSUME NEW nd, LogOK(nd), NEW id \in RequestIds
  PROVE  /\ LogOK(Execute(nd, id)) /\ Executed(nd) \subseteq Executed(Execute(nd, id))
         /\ ~InWal(nd, id) => id \in Executed(Execute(nd, id))
<1>1. PICK r : r = Logged(nd, id, 0)
  OBVIOUS
<1>2. LogOK(r) /\ Executed(nd) \subseteq Executed(r) /\ (~InWal(nd, id) => id \in Executed(r))
  BY <1>1, LoggedOK, LoggedKeeps
<1>3. LogOK(maybeSnapshot(r)) /\ Executed(r) \subseteq Executed(maybeSnapshot(r))
  BY <1>2, SnapshotOK
<1> QED
  BY <1>1, <1>2, <1>3 DEF Execute

LEMMA KeepState ==
  ASSUME NEW nd, LogOK(nd)
  PROVE  /\ \A id \in RequestIds, s \in Nat : /\ Logged(nd, id, s).state = nd.state
                                              /\ Logged(nd, id, s).compacted = nd.compacted
         /\ maybeSnapshot(nd).state = nd.state /\ maybeSnapshot(nd).compacted >= nd.compacted
         /\ \A id \in RequestIds : /\ Execute(nd, id).state = nd.state
                                   /\ Execute(nd, id).compacted >= nd.compacted
         /\ \A peer : LogOK(peer) =>
               /\ installPeerSnapshotIfNewer(nd, peer).state = nd.state
               /\ installPeerSnapshotIfNewer(nd, peer).compacted >= nd.compacted
<1>1. nd \in NodeStates /\ nd.compacted \in Nat
  BY NodeFields DEF LogOK
<1>2. ASSUME NEW id \in RequestIds, NEW s \in Nat
      PROVE  Logged(nd, id, s).state = nd.state /\ Logged(nd, id, s).compacted = nd.compacted
  BY <1>1, LoggedIs DEF OneMore
<1>3. ASSUME NEW r, LogOK(r)
      PROVE  maybeSnapshot(r).state = r.state /\ maybeSnapshot(r).compacted >= r.compacted
  <2>1. r \in NodeStates /\ r.compacted \in Nat /\ r.last \in Nat /\ r.compacted <= r.last
    BY <1>3, NodeFields DEF LogOK
  <2>2. CASE r.last - r.compacted < SnapshotThreshold
    BY <2>1, <2>2, SnapshotIs
  <2>3. CASE ~(r.last - r.compacted < SnapshotThreshold)
    <3>1. OwnSnapshot(r, maybeSnapshot(r))
      BY <2>1, <2>3, SnapshotIs
    <3> QED BY <2>1, <3>1 DEF OwnSnapshot
  <2> QED BY <2>2, <2>3
<1>4. ASSUME NEW id \in RequestIds
      PROVE  Execute(nd, id).state = nd.state /\ Execute(nd, id).compacted >= nd.compacted
  <2>1. PICK r : r = Logged(nd, id, 0)
    OBVIOUS
  <2>2. LogOK(r) /\ r.state = nd.state /\ r.compacted = nd.compacted
    BY <1>2, <2>1, LoggedOK
  <2>3. Execute(nd, id) = maybeSnapshot(r)
    BY <2>1 DEF Execute
  <2> QED BY <1>3, <2>2, <2>3
<1>5. ASSUME NEW peer, LogOK(peer)
      PROVE  /\ installPeerSnapshotIfNewer(nd, peer).state = nd.state
             /\ installPeerSnapshotIfNewer(nd, peer).compacted >= nd.compacted
  <2>1. peer \in NodeStates /\ peer.compacted \in Nat
    BY <1>5, NodeFields DEF LogOK
  <2>2. CASE peer.compacted <= nd.compacted
    BY <1>1, <2>1, <2>2, InstallIs
  <2>3. CASE ~(peer.compacted <= nd.compacted)
    <3>1. Installed(nd, peer, installPeerSnapshotIfNewer(nd, peer))
      BY <1>1, <2>1, <2>3, InstallIs
    <3>2. installPeerSnapshotIfNewer(nd, peer).compacted = peer.compacted
          /\ installPeerSnapshotIfNewer(nd, peer).state = nd.state
      BY <3>1 DEF Installed
    <3> QED BY <1>1, <2>1, <2>3, <3>2
  <2> QED BY <2>2, <2>3
<1> QED
  BY <1>2, <1>3, <1>4, <1>5

-----------------------------------------------------------------------------
(* Types                                                                   *)

(* A write under way has an identifier of its own. *)
WritesOK ==
  /\ \A w \in Writers : write[w].pc = "sending" =>
        /\ write[w].id \in used
        /\ write[w].kind = "shard" => write[w].quorum = quorumSize(Cardinality(Nodes))
        /\ write[w].kind \in {"shard", "broadcast"}
        /\ write[w].quorum # 0
  /\ \A v, w \in Writers :
        write[v].pc = "sending" /\ write[w].pc = "sending" /\ write[v].id = write[w].id => v = w

NodesOK == \A n \in Nodes : LogOK(node[n])

(* Only a node in state RECOVERING has a recovery under way; without quick *)
(* restarts a process that runs has its own znode, with the state it is in.*)
Settled(n) ==
  /\ recovery[n].kind = "none" \/ node[n].state = "RECOVERING"
  /\ "quick" \in faults \/ node[n].state = "DOWN" \/ registered[n] = node[n].state

RegisteredOK ==
  /\ "quick" \in faults \/ stale = {}
  /\ \A n \in Nodes : Settled(n)

BaseInv == TypeOK /\ NodesOK /\ WritesOK /\ RegisteredOK

LEMMA NodesFacts == Nodes \subseteq Nat /\ Nodes # {} /\ IsFiniteSet(Nodes) /\ Cardinality(Nodes) \in Nat
BY ClusterAssumption, FS_CardinalityType

LEMMA Quorums ==
  ASSUME NEW n \in Nat
  PROVE  quorumSize(n) \in Nat /\ quorumSize(n) # 0
BY DEF quorumSize

LEMMA LiveFacts ==
  ASSUME NEW live \in SUBSET Nodes
  PROVE  IsFiniteSet(live) /\ Cardinality(live) \in Nat
BY NodesFacts, FS_Subset, FS_CardinalityType

LEMMA BaseInit == ASSUME Init PROVE BaseInv
<1>1. First(Nodes) \in Nodes
  BY NodesFacts, FirstIsMember
<1>2. PICK e : e = [EmptyNode EXCEPT !.state = "SERVING"]
  OBVIOUS
<1>3. e \in NodeStates /\ e.wal = <<>> /\ e.last = 0 /\ e.compacted = 0 /\ e.snap = <<>>
  BY <1>2, EmptySeq DEF EmptyNode, NodeStates, States
<1>4. \A n \in Nodes : node[n] = e
  BY <1>2 DEF Init
<1>5. Len(e.wal) = 0
  BY <1>3
<1>6. LogOK(e)
  BY <1>3, <1>5 DEF LogOK
<1>7. NodesOK
  BY <1>4, <1>6 DEF NodesOK
<1>8. node \in [Nodes -> NodeStates]
  BY <1>2, <1>3 DEF Init
<1>9. write \in [Writers -> Writes] /\ recovery \in [Nodes -> Recoveries]
  BY EmptySeq DEF Init, NoWrite, NoRecovery, Writes, Recoveries
<1>10. TypeOK
  <2>1. registered \in [Nodes -> {"GONE", "RECOVERING", "SERVING"}]
    BY DEF Init
  <2>2. shard \in [primary : Nodes, term : Nat \ {0}]
    BY <1>1 DEF Init
  <2>3. faults \subseteq FaultKinds
    BY ClusterAssumption DEF Init
  <2>4. used = {} /\ committed = {} /\ created = {} /\ installed = {} /\ stale = {}
    BY DEF Init
  <2> QED BY <1>8, <1>9, <2>1, <2>2, <2>3, <2>4 DEF TypeOK
<1>11. WritesOK
  BY DEF Init, NoWrite, WritesOK
<1>12. RegisteredOK
  BY DEF Init, EmptyNode, NoRecovery, RegisteredOK, Settled
<1> QED
  BY <1>7, <1>10, <1>11, <1>12 DEF BaseInv

LEMMA ElectType ==
  ASSUME TypeOK, ServingNodes # {}
  PROVE  electPrimary \in [primary : Nodes, term : Nat \ {0}]
<1>1. ServingNodes \in SUBSET Nat /\ ServingNodes \subseteq Nodes
  BY NodesFacts DEF ServingNodes
<1>2. First(ServingNodes) \in Nodes
  BY <1>1, FirstIsMember
<1> QED
  BY <1>2 DEF electPrimary, TypeOK

LEMMA NewIdIs ==
  ASSUME RequestIds \ used # {}
  PROVE  NewId \in RequestIds /\ NewId \notin used
BY DEF NewId

LEMMA NextReplicaIs ==
  ASSUME TypeOK, NEW w \in Writers, write[w].todo # {}
  PROVE  NextReplica(w) \in write[w].todo /\ NextReplica(w) \in Nodes
<1>1. write[w].todo \subseteq Nodes
  BY DEF TypeOK, Writes
<1>2. First(write[w].todo) \in write[w].todo
  BY <1>1, NodesFacts, FirstIsMember
<1> QED
  BY <1>1, <1>2 DEF NextReplica

LEMMA NextPeerIs ==
  ASSUME TypeOK, NEW n \in Nodes, recovery[n].todo # {}
  PROVE  First(recovery[n].todo) \in recovery[n].todo /\ First(recovery[n].todo) \in Nodes
<1>1. recovery[n].todo \subseteq Nodes
  BY DEF TypeOK, Recoveries
<1> QED
  BY <1>1, NodesFacts, FirstIsMember

(* Two ways to begin a write. *)
Begins(w) ==
  /\ write[w].pc = "idle" /\ NewId \in RequestIds /\ NewId \notin used
  /\ used' = used \cup {NewId}
  /\ write' \in [Writers -> Writes]
  /\ \A v \in Writers \ {w} : write'[v] = write[v]
  /\ write'[w].pc = "sending" /\ write'[w].id = NewId /\ write'[w].oks = 0
  /\ write'[w].kind \in {"shard", "broadcast"} /\ write'[w].quorum # 0
  /\ write'[w].kind = "shard" => /\ write'[w].quorum = quorumSize(Cardinality(Nodes))
                                 /\ write'[w].primary = shard'.primary
                                 /\ write'[w].term = shard'.term
                                 /\ shard' = electPrimary
  /\ write'[w].kind = "broadcast" => shard' = shard
  /\ ServingNodes \subseteq write'[w].todo
  /\ shard' \in [primary : Nodes, term : Nat \ {0}]
  /\ "overlap" \in faults \/ ~Recovering
  /\ UNCHANGED <<node, registered, stale, recovery, committed, created, installed>>

LEMMA BeginWriteIs ==
  ASSUME BaseInv, NEW w \in Writers, BeginWrite(w)
  PROVE  Begins(w)
<1>1. NewId \in RequestIds /\ NewId \notin used /\ ServingNodes # {} /\ ServingNodes \subseteq Nodes
  BY NewIdIs DEF BeginWrite, MayWrite, ServingNodes
<1>2. PICK m : m = electPrimary
  OBVIOUS
<1>3. m \in [primary : Nodes, term : Nat \ {0}] /\ m.primary \in Nat /\ m.term \in Nat
  BY <1>1, <1>2, ElectType, NodesFacts DEF BaseInv
<1>4. quorumSize(Cardinality(Nodes)) \in Nat \ {0}
  BY NodesFacts, Quorums
<1>5. PICK x : x = [pc |-> "sending", kind |-> "shard", id |-> NewId, term |-> m.term,
                    primary |-> m.primary, todo |-> ServingNodes,
                    quorum |-> quorumSize(Cardinality(Nodes)), oks |-> 0]
  OBVIOUS
<1>6. x \in Writes
  BY <1>1, <1>3, <1>4, <1>5 DEF Writes
<1>7. write' = [write EXCEPT ![w] = x] /\ shard' = m
  BY <1>2, <1>5 DEF BeginWrite
<1>8. write \in [Writers -> Writes]
  BY DEF BaseInv, TypeOK
<1>9. write' \in [Writers -> Writes] /\ write'[w] = x /\ \A v \in Writers \ {w} : write'[v] = write[v]
  BY <1>6, <1>7, <1>8
<1>10. /\ x.pc = "sending" /\ x.id = NewId /\ x.oks = 0 /\ x.kind = "shard"
       /\ x.quorum = quorumSize(Cardinality(Nodes)) /\ x.primary = m.primary /\ x.term = m.term
       /\ x.todo = ServingNodes
  BY <1>5
<1> QED
  BY <1>1, <1>2, <1>3, <1>4, <1>7, <1>9, <1>10 DEF BeginWrite, MayWrite, Begins

LEMMA BeginBroadcastIs ==
  ASSUME BaseInv, NEW w \in Writers, BeginBroadcast(w)
  PROVE  Begins(w)
<1>1. PICK live : live = {n \in Nodes : registered[n] # "GONE"}
  OBVIOUS
<1>2. NewId \in RequestIds /\ NewId \notin used /\ live \subseteq Nodes /\ ServingNodes \subseteq live
  BY <1>1, NewIdIs DEF BeginBroadcast, MayWrite, ServingNodes
<1>3. quorumSize(Cardinality(live)) \in Nat \ {0}
  BY <1>2, LiveFacts, Quorums
<1>4. PICK x : x = [pc |-> "sending", kind |-> "broadcast", id |-> NewId, term |-> 0,
                    primary |-> 0, todo |-> live,
                    quorum |-> quorumSize(Cardinality(live)), oks |-> 0]
  OBVIOUS
<1>5. x \in Writes
  BY <1>2, <1>3, <1>4 DEF Writes
<1>6. write' = [write EXCEPT ![w] = x] /\ shard' = shard
  BY <1>1, <1>4 DEF BeginBroadcast
<1>7. write \in [Writers -> Writes] /\ shard \in [primary : Nodes, term : Nat \ {0}]
  BY DEF BaseInv, TypeOK
<1>8. write' \in [Writers -> Writes] /\ write'[w] = x /\ \A v \in Writers \ {w} : write'[v] = write[v]
  BY <1>5, <1>6, <1>7
<1>9. /\ x.pc = "sending" /\ x.id = NewId /\ x.oks = 0 /\ x.kind = "broadcast"
      /\ x.quorum = quorumSize(Cardinality(live)) /\ x.todo = live
  BY <1>4
<1> QED
  BY <1>2, <1>3, <1>6, <1>7, <1>8, <1>9 DEF BeginBroadcast, MayWrite, Begins

(* One answer, or none, from the replica whose turn it is. *)
Answers(w, n, ok) ==
  /\ write[w].pc = "sending" /\ n \in write[w].todo /\ n \in Nodes /\ ok \in {0, 1}
  /\ write' \in [Writers -> Writes]
  /\ \A v \in Writers \ {w} : write'[v] = write[v]
  /\ write'[w].pc = "sending" /\ write'[w].id = write[w].id /\ write'[w].kind = write[w].kind
  /\ write'[w].quorum = write[w].quorum /\ write'[w].primary = write[w].primary
  /\ write'[w].term = write[w].term
  /\ write'[w].todo = write[w].todo \ {n} /\ write'[w].oks = write[w].oks + ok
  /\ registered' \in [Nodes -> {"GONE", "RECOVERING", "SERVING"}]
  /\ "quick" \in faults \/ registered' = registered
  /\ UNCHANGED <<stale, shard, recovery, used, committed, created, installed>>

LEMMA AnswersIs ==
  ASSUME TypeOK, NEW w \in Writers, NEW n, NEW ok \in {0, 1},
         write[w].pc = "sending", n \in write[w].todo, n \in Nodes,
         write' = [write EXCEPT ![w].todo = @ \ {n}, ![w].oks = @ + ok],
         registered' \in [Nodes -> {"GONE", "RECOVERING", "SERVING"}],
         "quick" \in faults \/ registered' = registered,
         UNCHANGED <<stale, shard, recovery, used, committed, created, installed>>
  PROVE  Answers(w, n, ok)
<1>1. write \in [Writers -> Writes]
  BY DEF TypeOK
<1>2. PICK x : x = write[w]
  OBVIOUS
<1>3. x \in Writes /\ x.oks \in Nat /\ x.todo \subseteq Nodes
  BY <1>1, <1>2 DEF Writes
<1>4. PICK y : y = [x EXCEPT !.todo = @ \ {n}, !.oks = @ + ok]
  OBVIOUS
<1>5. /\ y \in Writes /\ y.todo = x.todo \ {n} /\ y.oks = x.oks + ok /\ y.pc = x.pc /\ y.id = x.id
      /\ y.kind = x.kind /\ y.quorum = x.quorum /\ y.primary = x.primary /\ y.term = x.term
  <2>1. PICK o : o = x.oks + ok
    OBVIOUS
  <2>2. PICK t : t = x.todo \ {n}
    OBVIOUS
  <2>3. o \in Nat /\ t \subseteq Nodes
    BY <1>3, <2>1, <2>2
  <2>4. y = [x EXCEPT !.todo = t, !.oks = o]
    BY <1>4, <2>1, <2>2
  <2>5. /\ y \in Writes /\ y.todo = t /\ y.oks = o /\ y.pc = x.pc /\ y.id = x.id
        /\ y.kind = x.kind /\ y.quorum = x.quorum /\ y.primary = x.primary /\ y.term = x.term
    BY <1>3, <2>3, <2>4 DEF Writes
  <2> QED BY <2>1, <2>2, <2>5
<1>6. write'[w] = y /\ \A v \in Writers \ {w} : write'[v] = write[v]
  BY <1>1, <1>2, <1>4
<1>7. write' \in [Writers -> Writes]
  BY <1>1, <1>2, <1>4, <1>5
<1> QED
  BY <1>2, <1>5, <1>6, <1>7 DEF Answers

(* The replica executes the request, or knows it. *)
Delivers(w, n, ok) ==
  /\ Answers(w, n, ok) /\ write[w].todo # {}
  /\ HttpUp(n) /\ ~Stale(w, n)
  /\ write[w].id \in RequestIds
  /\ \/ node' = node /\ write[w].id \in KnownIds(node[n])
     \/ node' = [node EXCEPT ![n] = Execute(node[n], write[w].id)]
  /\ "lost" \notin faults => ok = 1

LEMMA DeliverIs ==
  ASSUME BaseInv, NEW w \in Writers, Deliver(w)
  PROVE  \E n \in Nodes, ok \in {0, 1} : n = NextReplica(w) /\ Delivers(w, n, ok)
<1>1. PICK n : n = NextReplica(w)
  OBVIOUS
<1>2. write[w].pc = "sending" /\ write[w].todo # {} /\ write[w].id \in RequestIds /\ TypeOK
  BY DEF Deliver, BaseInv, WritesOK, TypeOK
<1>3. n \in write[w].todo /\ n \in Nodes
  BY <1>1, <1>2, NextReplicaIs
<1>4. PICK ok \in IF "lost" \in faults THEN {0, 1} ELSE {1} :
         write' = [write EXCEPT ![w].todo = @ \ {n}, ![w].oks = @ + ok]
  BY <1>1 DEF Deliver
<1>5. ok \in {0, 1} /\ ("lost" \notin faults => ok = 1)
  BY <1>4
<1>a. /\ node[n] \in NodeStates /\ registered \in [Nodes -> {"GONE", "RECOVERING", "SERVING"}]
      /\ HttpUp(n) /\ node[n].state \in {"RECOVERING", "SERVING"}
      /\ UNCHANGED <<stale, shard, recovery, used, committed, created, installed>>
  <2>1. node[n] \in NodeStates /\ registered \in [Nodes -> {"GONE", "RECOVERING", "SERVING"}]
    BY <1>2, <1>3 DEF TypeOK
  <2>2. HttpUp(n) /\ UNCHANGED <<stale, shard, recovery, used, committed, created, installed>>
    BY <1>1 DEF Deliver
  <2>3. node[n].state \in {"RECOVERING", "SERVING"}
    BY <1>3, <2>1, <2>2 DEF HttpUp, BaseInv, RegisteredOK, Settled
  <2> QED BY <2>1, <2>2, <2>3
<1>b. registered' = registered \/ registered' = [registered EXCEPT ![n] = node[n].state]
  BY <1>1 DEF Deliver, Registers
<1>c. registered' \in [Nodes -> {"GONE", "RECOVERING", "SERVING"}]
  BY <1>3, <1>a, <1>b
<1>d. "quick" \in faults \/ registered' = registered
  <2>1. CASE registered' = [registered EXCEPT ![n] = node[n].state] /\ "quick" \notin faults
    <3>1. registered[n] = node[n].state
      BY <1>3, <1>a, <2>1 DEF BaseInv, RegisteredOK, Settled
    <3> QED BY <1>3, <1>a, <2>1, <3>1
  <2> QED BY <1>b, <2>1
<1>6. Answers(w, n, ok)
  BY <1>2, <1>3, <1>4, <1>5, <1>a, <1>c, <1>d, AnswersIs
<1>7. /\ HttpUp(n) /\ ~Stale(w, n)
      /\ \/ node' = node /\ write[w].id \in KnownIds(node[n])
         \/ node' = [node EXCEPT ![n] = Execute(node[n], write[w].id)]
  BY <1>1 DEF Deliver
<1>8. Delivers(w, n, ok)
  BY <1>2, <1>5, <1>6, <1>7 DEF Delivers
<1> QED
  BY <1>1, <1>3, <1>5, <1>8

(* It does not. *)
Fails(w, n) ==
  /\ Answers(w, n, 0) /\ node' = node /\ registered' = registered
  /\ ~HttpUp(n) \/ Stale(w, n) \/ "lost" \in faults

LEMMA DeliveryFailsIs ==
  ASSUME BaseInv, NEW w \in Writers, DeliveryFails(w)
  PROVE  \E n \in Nodes : Fails(w, n)
<1>1. PICK n : n = NextReplica(w)
  OBVIOUS
<1>2. write[w].pc = "sending" /\ write[w].todo # {} /\ TypeOK /\ write \in [Writers -> Writes]
  BY DEF DeliveryFails, BaseInv, TypeOK
<1>3. n \in write[w].todo /\ n \in Nodes
  BY <1>1, <1>2, NextReplicaIs
<1>4. write' = [write EXCEPT ![w].todo = @ \ {n}]
  BY <1>1 DEF DeliveryFails
<1>5. PICK x : x = write[w]
  OBVIOUS
<1>6. x \in Writes /\ x.oks \in Nat
  BY <1>2, <1>5 DEF Writes
<1>7. PICK t : t = x.todo \ {n}
  OBVIOUS
<1>8. PICK y : y = [x EXCEPT !.todo = t]
  OBVIOUS
<1>9. Answers(w, n, 0)
  <2>1. /\ y \in Writes /\ y.todo = t /\ y.oks = x.oks /\ y.pc = x.pc /\ y.id = x.id
        /\ y.kind = x.kind /\ y.quorum = x.quorum /\ y.primary = x.primary /\ y.term = x.term
    BY <1>6, <1>7, <1>8 DEF Writes
  <2>2. write'[w] = y /\ \A v \in Writers \ {w} : write'[v] = write[v]
    BY <1>2, <1>4, <1>5, <1>7, <1>8
  <2>3. write' \in [Writers -> Writes]
    BY <1>2, <1>4, <1>5, <1>7, <1>8, <2>1
  <2>4. y.oks = x.oks + 0
    BY <1>6, <2>1
  <2>5. UNCHANGED <<registered, stale, shard, recovery, used, committed, created, installed>>
        /\ registered \in [Nodes -> {"GONE", "RECOVERING", "SERVING"}]
    BY <1>2 DEF DeliveryFails, TypeOK
  <2> QED BY <1>2, <1>3, <1>5, <1>7, <2>1, <2>2, <2>3, <2>4, <2>5 DEF Answers
<1>10. node' = node /\ registered' = registered /\ (~HttpUp(n) \/ Stale(w, n) \/ "lost" \in faults)
  BY <1>1 DEF DeliveryFails
<1> QED
  BY <1>3, <1>9, <1>10 DEF Fails

(* All answers are in. *)
Ends(w) ==
  /\ write[w].pc = "sending" /\ write[w].todo = {}
  /\ write' \in [Writers -> Writes] /\ write'[w].pc = "idle"
  /\ \A v \in Writers \ {w} : write'[v] = write[v]
  /\ \/ committed' = committed
     \/ /\ committed' = committed \cup {write[w].id}
        /\ write[w].oks >= write[w].quorum /\ write[w].kind = "shard"
  /\ \/ created' = created
     \/ /\ created' = created \cup {write[w].id}
        /\ write[w].oks >= write[w].quorum /\ write[w].kind = "broadcast"
  /\ UNCHANGED <<node, registered, stale, shard, recovery, used, installed>>

LEMMA EndWriteIs ==
  ASSUME BaseInv, NEW w \in Writers, EndWrite(w)
  PROVE  Ends(w)
<1>1. write \in [Writers -> Writes] /\ NoWrite \in Writes /\ NoWrite.pc = "idle"
  BY DEF BaseInv, TypeOK, NoWrite, Writes
<1>2. write' = [write EXCEPT ![w] = NoWrite]
  BY DEF EndWrite
<1>3. write' \in [Writers -> Writes] /\ write'[w] = NoWrite
      /\ \A v \in Writers \ {w} : write'[v] = write[v]
  BY <1>1, <1>2
<1> QED
  BY <1>1, <1>3 DEF EndWrite, Ends

(* A step of node n leaves the other nodes and the coordinator alone. *)
Only(n) ==
  /\ node' \in [Nodes -> NodeStates] /\ recovery' \in [Nodes -> Recoveries]
  /\ registered' \in [Nodes -> {"GONE", "RECOVERING", "SERVING"}]
  /\ \A m \in Nodes \ {n} : /\ node'[m] = node[m] /\ recovery'[m] = recovery[m]
                            /\ registered'[m] = registered[m]
  /\ stale' \subseteq Nodes /\ ("quick" \in faults \/ stale' = {})
  /\ UNCHANGED <<shard, write, used, committed, created>>

LEMMA NoRecoveryIs ==
  /\ NoRecovery \in Recoveries /\ NoRecovery.kind = "none" /\ NoRecovery.todo = {}
  /\ NoRecovery.entries = <<>>
BY EmptySeq DEF NoRecovery, Recoveries

LEMMA BaseNode ==
  ASSUME BaseInv, NEW n \in Nodes
  PROVE  /\ node \in [Nodes -> NodeStates] /\ recovery \in [Nodes -> Recoveries]
         /\ registered \in [Nodes -> {"GONE", "RECOVERING", "SERVING"}]
         /\ node[n] \in NodeStates /\ LogOK(node[n]) /\ recovery[n] \in Recoveries
         /\ recovery[n].todo \subseteq Nodes /\ recovery[n].entries \in Seq(PeerEntries)
         /\ stale \subseteq Nodes /\ ("quick" \in faults \/ stale = {})
BY DEF BaseInv, TypeOK, NodesOK, RegisteredOK, Recoveries

Crashes(n) ==
  /\ Only(n) /\ SameFiles(node[n], node'[n]) /\ node'[n].state = "DOWN"
  /\ node[n].state = "SERVING" \/ "again" \in faults
  /\ recovery'[n] = NoRecovery /\ registered' = registered /\ installed' = installed
  /\ "twodown" \in faults \/ \A m \in Nodes \ {n} : node[m].state = "SERVING"

LEMMA CrashIs ==
  ASSUME BaseInv, NEW n \in Nodes, Crash(n)
  PROVE  Crashes(n)
<1>1. PICK r : r = [node[n] EXCEPT !.state = "DOWN"]
  OBVIOUS
<1>2. SameFiles(node[n], r) /\ r.state = "DOWN" /\ r \in NodeStates
  BY <1>1, BaseNode, StateChange DEF SameFiles, States
<1>3. node' = [node EXCEPT ![n] = r] /\ recovery' = [recovery EXCEPT ![n] = NoRecovery]
  BY <1>1 DEF Crash
<1>4. node' \in [Nodes -> NodeStates] /\ node'[n] = r /\ \A m \in Nodes \ {n} : node'[m] = node[m]
  BY <1>2, <1>3, BaseNode
<1>5. recovery' \in [Nodes -> Recoveries] /\ recovery'[n] = NoRecovery
      /\ \A m \in Nodes \ {n} : recovery'[m] = recovery[m]
  BY <1>3, BaseNode, NoRecoveryIs
<1> QED
  BY <1>2, <1>4, <1>5, BaseNode DEF Crash, Only, Crashes

Expires(n) ==
  /\ Only(n) /\ node' = node /\ recovery' = recovery /\ installed' = installed
  /\ node[n].state = "DOWN" \/ "quick" \in faults
  /\ registered'[n] = "GONE"

LEMMA SessionExpiresIs ==
  ASSUME BaseInv, NEW n \in Nodes, SessionExpires(n)
  PROVE  Expires(n)
<1>1. registered' \in [Nodes -> {"GONE", "RECOVERING", "SERVING"}] /\ registered'[n] = "GONE"
      /\ \A m \in Nodes \ {n} : registered'[m] = registered[m]
  BY BaseNode DEF SessionExpires
<1>2. stale' \subseteq Nodes /\ ("quick" \in faults \/ stale' = {})
  BY BaseNode DEF SessionExpires
<1>3. node[n].state = "DOWN" \/ "quick" \in faults
  BY BaseNode DEF SessionExpires
<1> QED
  BY <1>1, <1>2, <1>3, BaseNode DEF SessionExpires, Only, Expires

Recovers(n) ==
  /\ Only(n) /\ SameFiles(node[n], node'[n]) /\ node'[n].state = "RECOVERING"
  /\ node[n].state = "DOWN" \/ "twodown" \in faults \/ \A m \in Nodes : node[m].state = "SERVING"
  /\ registered'[n] = "RECOVERING" /\ installed' = installed
  /\ recovery'[n].kind # "none" /\ recovery'[n].entries = <<>>
  /\ recovery'[n].todo = {m \in Nodes \ {n} : registered[m] # "GONE"}
  /\ "overlap" \in faults \/ ~Writing

LEMMA BeginRecoveryIs ==
  ASSUME BaseInv, NEW n \in Nodes, NEW kind \in {"start", "refresh"}, BeginRecovery(n, kind),
         node[n].state = "DOWN" \/ "twodown" \in faults \/ \A m \in Nodes : node[m].state = "SERVING",
         stale' \subseteq Nodes, "quick" \in faults \/ stale' = {}
  PROVE  Recovers(n)
<1>1. PICK r : r = [node[n] EXCEPT !.state = "RECOVERING"]
  OBVIOUS
<1>2. SameFiles(node[n], r) /\ r.state = "RECOVERING" /\ r \in NodeStates
  BY <1>1, BaseNode, StateChange DEF SameFiles, States
<1>3. PICK t : t = {m \in Nodes \ {n} : registered[m] # "GONE"}
  OBVIOUS
<1>4. PICK x : x = [NoRecovery EXCEPT !.kind = kind, !.todo = t]
  OBVIOUS
<1>5. x \in Recoveries /\ x.kind = kind /\ x.todo = t /\ x.entries = <<>>
  BY <1>3, <1>4, EmptySeq DEF NoRecovery, Recoveries
<1>6. node' = [node EXCEPT ![n] = r] /\ recovery' = [recovery EXCEPT ![n] = x]
      /\ registered' = [registered EXCEPT ![n] = "RECOVERING"]
  BY <1>1, <1>3, <1>4 DEF BeginRecovery, Registers
<1>7. node' \in [Nodes -> NodeStates] /\ node'[n] = r /\ \A m \in Nodes \ {n} : node'[m] = node[m]
  BY <1>2, <1>6, BaseNode
<1>8. recovery' \in [Nodes -> Recoveries] /\ recovery'[n] = x
      /\ \A m \in Nodes \ {n} : recovery'[m] = recovery[m]
  BY <1>5, <1>6, BaseNode
<1>9. registered' \in [Nodes -> {"GONE", "RECOVERING", "SERVING"}] /\ registered'[n] = "RECOVERING"
      /\ \A m \in Nodes \ {n} : registered'[m] = registered[m]
  BY <1>6, BaseNode
<1> QED
  BY <1>2, <1>3, <1>5, <1>7, <1>8, <1>9 DEF BeginRecovery, Only, Recovers

(* The answer of a peer, entry by entry *)
OfferedFrom(nd, peer, es) ==
  /\ es \in Seq(PeerEntries) /\ Len(es) = Len(peer.wal)
  /\ \A i \in 1 .. Len(peer.wal) :
        /\ es[i].sequence = peer.wal[i].sequence /\ es[i].requestId = peer.wal[i].requestId
        /\ es[i].known <=> peer.wal[i].requestId \in KnownIds(nd)

LEMMA OfferedIs ==
  ASSUME NEW nd, NEW peer \in NodeStates
  PROVE  OfferedFrom(nd, peer, Offered(nd, peer))
<1>1. PICK N : N = Len(peer.wal)
  OBVIOUS
<1>2. N \in Nat /\ DOMAIN peer.wal = 1 .. N
      /\ \A i \in 1 .. N : peer.wal[i].sequence \in Nat \ {0} /\ peer.wal[i].requestId \in RequestIds
  BY <1>1, NodeFields
<1>3. PICK es : es = Offered(nd, peer)
  OBVIOUS
<1>4. es = [i \in 1 .. N |-> [sequence  |-> peer.wal[i].sequence,
                              requestId |-> peer.wal[i].requestId,
                              known     |-> peer.wal[i].requestId \in KnownIds(nd)]]
  BY <1>2, <1>3 DEF Offered
<1>5. ASSUME NEW i \in 1 .. N
      PROVE  /\ es[i] \in PeerEntries
             /\ es[i].sequence = peer.wal[i].sequence /\ es[i].requestId = peer.wal[i].requestId
             /\ es[i].known <=> peer.wal[i].requestId \in KnownIds(nd)
  <2>1. PICK b \in BOOLEAN : b <=> peer.wal[i].requestId \in KnownIds(nd)
    OBVIOUS
  <2>2. es[i] = [sequence |-> peer.wal[i].sequence, requestId |-> peer.wal[i].requestId,
                 known |-> peer.wal[i].requestId \in KnownIds(nd)]
    BY <1>4
  <2>3. (peer.wal[i].requestId \in KnownIds(nd)) \in BOOLEAN
    OBVIOUS
  <2>4. es[i].sequence = peer.wal[i].sequence /\ es[i].requestId = peer.wal[i].requestId
        /\ es[i].known = (peer.wal[i].requestId \in KnownIds(nd))
    BY <2>2
  <2>5. es[i] \in PeerEntries
    BY <1>2, <2>2, <2>3 DEF PeerEntries
  <2> QED BY <2>4, <2>5
<1>6. es \in [1 .. N -> PeerEntries]
  BY <1>4, <1>5
<1>7. es \in Seq(PeerEntries) /\ Len(es) = N
  BY <1>2, <1>6
<1> QED
  BY <1>1, <1>3, <1>5, <1>7 DEF OfferedFrom

(* Peer m answered. *)
Fetches(n, m) ==
  /\ Only(n) /\ m \in recovery[n].todo /\ m \in Nodes /\ recovery[n].entries = <<>>
  /\ HttpUp(m)
  /\ node'[n] = installPeerSnapshotIfNewer(node[n], node[m])
  /\ installed' = IF node[m].compacted > node[n].compacted THEN installed \cup {n} ELSE installed
  /\ recovery'[n].kind = recovery[n].kind /\ recovery'[n].todo = recovery[n].todo \ {m}
  /\ OfferedFrom(node[n], node[m], recovery'[n].entries)
  /\ registered' = registered

LEMMA FetchPeerIs ==
  ASSUME BaseInv, NEW n \in Nodes, FetchPeer(n)
  PROVE  \E m \in Nodes : Fetches(n, m)
<1>1. PICK m : m = First(recovery[n].todo)
  OBVIOUS
<1>2. m \in recovery[n].todo /\ m \in Nodes
  BY <1>1, NextPeerIs DEF FetchPeer, BaseInv
<1>3. LogOK(node[n]) /\ LogOK(node[m]) /\ node[m] \in NodeStates
  BY <1>2, BaseNode
<1>4. PICK r : r = installPeerSnapshotIfNewer(node[n], node[m])
  OBVIOUS
<1>5. r \in NodeStates
  BY <1>3, <1>4, InstallOK DEF LogOK
<1>6. PICK es : es = Offered(node[n], node[m])
  OBVIOUS
<1>7. OfferedFrom(node[n], node[m], es) /\ es \in Seq(PeerEntries)
  BY <1>3, <1>6, OfferedIs DEF OfferedFrom
<1>8. PICK x : x = [recovery[n] EXCEPT !.todo = @ \ {m}, !.entries = es]
  OBVIOUS
<1>9. x \in Recoveries /\ x.kind = recovery[n].kind /\ x.todo = recovery[n].todo \ {m} /\ x.entries = es
  <2>1. PICK y : y = recovery[n]
    OBVIOUS
  <2>2. PICK t : t = y.todo \ {m}
    OBVIOUS
  <2>3. y \in Recoveries /\ t \subseteq Nodes
    BY <2>1, <2>2, BaseNode
  <2>4. x = [y EXCEPT !.todo = t, !.entries = es]
    BY <1>8, <2>1, <2>2
  <2>5. x \in Recoveries /\ x.kind = y.kind /\ x.todo = t /\ x.entries = es
    BY <1>7, <2>3, <2>4 DEF Recoveries
  <2> QED BY <2>1, <2>2, <2>5
<1>10. /\ node' = [node EXCEPT ![n] = r]
       /\ recovery' = [recovery EXCEPT ![n].todo = @ \ {m}, ![n].entries = es]
       /\ HttpUp(m) /\ recovery[n].entries = <<>> /\ registered' = registered
       /\ installed' = IF node[m].compacted > node[n].compacted THEN installed \cup {n} ELSE installed
       /\ UNCHANGED <<stale, shard, write, used, committed, created>>
  BY <1>1, <1>4, <1>6 DEF FetchPeer
<1>11. node' \in [Nodes -> NodeStates] /\ node'[n] = r /\ \A m1 \in Nodes \ {n} : node'[m1] = node[m1]
  BY <1>5, <1>10, BaseNode
<1>12. recovery' = [recovery EXCEPT ![n] = x]
  BY <1>8, <1>10, BaseNode
<1>13. recovery' \in [Nodes -> Recoveries] /\ recovery'[n] = x
       /\ \A m1 \in Nodes \ {n} : recovery'[m1] = recovery[m1]
  BY <1>9, <1>12, BaseNode
<1>14. Only(n)
  BY <1>10, <1>11, <1>13, BaseNode DEF Only
<1>15. Fetches(n, m)
  BY <1>2, <1>4, <1>7, <1>9, <1>10, <1>11, <1>13, <1>14 DEF Fetches
<1> QED
  BY <1>2, <1>15

(* Peer m did not answer. *)
Skips(n, m) ==
  /\ Only(n) /\ m \in recovery[n].todo /\ ~HttpUp(m)
  /\ recovery[n].entries = <<>> /\ recovery'[n].entries = <<>>
  /\ recovery'[n].kind = recovery[n].kind
  /\ recovery'[n].todo = recovery[n].todo \ {m}
  /\ node' = node /\ registered' = registered /\ installed' = installed

LEMMA SkipPeerIs ==
  ASSUME BaseInv, NEW n \in Nodes, SkipPeer(n)
  PROVE  \E m \in Nodes : Skips(n, m)
<1>1. PICK m : m = First(recovery[n].todo)
  OBVIOUS
<1>2. m \in recovery[n].todo /\ m \in Nodes
  BY <1>1, NextPeerIs DEF SkipPeer, BaseInv
<1>3. PICK y : y = recovery[n]
  OBVIOUS
<1>4. PICK t : t = y.todo \ {m}
  OBVIOUS
<1>5. y \in Recoveries /\ t \subseteq Nodes
  BY <1>3, <1>4, BaseNode
<1>6. PICK x : x = [y EXCEPT !.todo = t]
  OBVIOUS
<1>7. x \in Recoveries /\ x.kind = y.kind /\ x.todo = t /\ x.entries = y.entries
  BY <1>5, <1>6 DEF Recoveries
<1>8. recovery' = [recovery EXCEPT ![n] = x]
  BY <1>1, <1>3, <1>4, <1>6, BaseNode DEF SkipPeer
<1>9. recovery' \in [Nodes -> Recoveries] /\ recovery'[n] = x
       /\ \A m1 \in Nodes \ {n} : recovery'[m1] = recovery[m1]
  BY <1>7, <1>8, BaseNode
<1>10. Only(n)
  BY <1>9, BaseNode DEF SkipPeer, Only
<1> QED
  BY <1>1, <1>2, <1>3, <1>4, <1>7, <1>9, <1>10 DEF SkipPeer, Skips

(* The next entry e of the answer *)
Takes(n, e) ==
  /\ Only(n) /\ e \in PeerEntries /\ recovery[n].entries # <<>>
  /\ Len(recovery[n].entries) \in Nat \ {0} /\ e = recovery[n].entries[1]
  /\ IF e.known THEN node'[n] = node[n] ELSE node'[n] = Logged(node[n], e.requestId, e.sequence)
  /\ Len(recovery'[n].entries) = Len(recovery[n].entries) - 1
  /\ \A i \in 1 .. Len(recovery[n].entries) - 1 : recovery'[n].entries[i] = recovery[n].entries[i + 1]
  /\ recovery'[n].kind = recovery[n].kind /\ recovery'[n].todo = recovery[n].todo
  /\ registered' = registered /\ installed' = installed

LEMMA TakeEntryIs ==
  ASSUME BaseInv, NEW n \in Nodes, TakeEntry(n)
  PROVE  \E e \in PeerEntries : Takes(n, e)
<1>1. PICK es : es = recovery[n].entries
  OBVIOUS
<1>2. es \in Seq(PeerEntries) /\ es # <<>>
  BY <1>1, BaseNode DEF TakeEntry
<1>3. PICK t : t = Tail(es)
  OBVIOUS
<1>4. /\ t \in Seq(PeerEntries) /\ Len(es) \in Nat \ {0} /\ Len(t) = Len(es) - 1
      /\ \A i \in 1 .. Len(es) - 1 : t[i] = es[i + 1]
      /\ Head(es) = es[1] /\ es[1] \in PeerEntries
  BY <1>2, <1>3, HeadTailProperties, ElementOfSeq, LenProperties, EmptySeq
<1>5. PICK e : e = es[1]
  OBVIOUS
<1>6. e \in PeerEntries /\ e.requestId \in RequestIds /\ e.sequence \in Nat
  BY <1>4, <1>5 DEF PeerEntries
<1>7. PICK y : y = recovery[n]
  OBVIOUS
<1>8. PICK x : x = [y EXCEPT !.entries = t]
  OBVIOUS
<1>9. x \in Recoveries /\ x.kind = y.kind /\ x.todo = y.todo /\ x.entries = t
  BY <1>4, <1>7, <1>8, BaseNode DEF Recoveries
<1>10. recovery' = [recovery EXCEPT ![n] = x]
  BY <1>1, <1>3, <1>7, <1>8, BaseNode DEF TakeEntry
<1>11. recovery' \in [Nodes -> Recoveries] /\ recovery'[n] = x
       /\ \A m1 \in Nodes \ {n} : recovery'[m1] = recovery[m1]
  BY <1>9, <1>10, BaseNode
<1>12. node' = IF e.known THEN node ELSE [node EXCEPT ![n] = Logged(@, e.requestId, e.sequence)]
  BY <1>1, <1>4, <1>5 DEF TakeEntry
<1>13. LogOK(Logged(node[n], e.requestId, e.sequence))
  BY <1>6, BaseNode, LoggedOK
<1>14. PICK r : r = Logged(node[n], e.requestId, e.sequence)
  OBVIOUS
<1>15. r \in NodeStates
  BY <1>13, <1>14 DEF LogOK
<1>16. node' = IF e.known THEN node ELSE [node EXCEPT ![n] = r]
  BY <1>12, <1>14
<1>17. /\ node' \in [Nodes -> NodeStates] /\ \A m1 \in Nodes \ {n} : node'[m1] = node[m1]
       /\ IF e.known THEN node'[n] = node[n] ELSE node'[n] = r
  <2>1. CASE e.known
    BY <1>16, <2>1, BaseNode
  <2>2. CASE ~e.known
    BY <1>15, <1>16, <2>2, BaseNode
  <2> QED BY <2>1, <2>2
<1>18. Only(n)
  BY <1>11, <1>17, BaseNode DEF TakeEntry, Only
<1>19. Takes(n, e)
  BY <1>1, <1>2, <1>4, <1>5, <1>6, <1>7, <1>9, <1>11, <1>14, <1>17, <1>18 DEF Takes, TakeEntry
<1> QED
  BY <1>6, <1>19

(* The node serves again. *)
Serves(n) ==
  /\ Only(n) /\ recovery[n].kind # "none" /\ recovery[n].todo = {} /\ recovery[n].entries = <<>>
  /\ \/ SameFiles(node[n], node'[n])
     \/ SameFiles(maybeSnapshot(node[n]), node'[n])
  /\ node'[n].state = "SERVING" /\ registered'[n] = "SERVING"
  /\ recovery'[n] = NoRecovery /\ installed' = installed

LEMMA ServeIs ==
  ASSUME BaseInv, NEW n \in Nodes, Serve(n)
  PROVE  Serves(n)
<1>1. PICK nd : nd = IF recovery[n].kind = "start" THEN maybeSnapshot(node[n]) ELSE node[n]
  OBVIOUS
<1>2. LogOK(nd) /\ (nd = node[n] \/ nd = maybeSnapshot(node[n]))
  BY <1>1, BaseNode, SnapshotOK
<1>3. PICK r : r = [nd EXCEPT !.state = "SERVING"]
  OBVIOUS
<1>4. SameFiles(nd, r) /\ r.state = "SERVING" /\ r \in NodeStates
  BY <1>2, <1>3, StateChange DEF SameFiles, States
<1>5. /\ node' = [node EXCEPT ![n] = r] /\ recovery' = [recovery EXCEPT ![n] = NoRecovery]
      /\ registered' = [registered EXCEPT ![n] = "SERVING"]
  BY <1>1, <1>3 DEF Serve, Registers
<1>6. node' \in [Nodes -> NodeStates] /\ node'[n] = r /\ \A m \in Nodes \ {n} : node'[m] = node[m]
  BY <1>4, <1>5, BaseNode
<1>7. recovery' \in [Nodes -> Recoveries] /\ recovery'[n] = NoRecovery
      /\ \A m \in Nodes \ {n} : recovery'[m] = recovery[m]
  BY <1>5, BaseNode, NoRecoveryIs
<1>8. registered' \in [Nodes -> {"GONE", "RECOVERING", "SERVING"}] /\ registered'[n] = "SERVING"
      /\ \A m \in Nodes \ {n} : registered'[m] = registered[m]
  BY <1>5, BaseNode
<1>9. Only(n)
  BY <1>6, <1>7, <1>8, BaseNode DEF Serve, Only
<1> QED
  BY <1>2, <1>4, <1>6, <1>7, <1>8, <1>9 DEF Serve, Serves

(* What a step is, seen from the writer or the node that takes it *)
CoordinatorStep ==
  \E w \in Writers :
    \/ Begins(w)
    \/ \E n \in Nodes, ok \in {0, 1} : Delivers(w, n, ok)
    \/ \E n \in Nodes : Fails(w, n)
    \/ Ends(w)

ReplicaStep ==
  \E n \in Nodes :
    \/ Crashes(n)
    \/ Expires(n)
    \/ Recovers(n)
    \/ \E m \in Nodes : Fetches(n, m)
    \/ \E m \in Nodes : Skips(n, m)
    \/ \E e \in PeerEntries : Takes(n, e)
    \/ Serves(n)

LEMMA StepCases ==
  ASSUME BaseInv, Step
  PROVE  CoordinatorStep \/ ReplicaStep
<1>1. ASSUME NEW w \in Writers, BeginWrite(w) \/ BeginBroadcast(w) \/ WriterStep(w)
      PROVE  CoordinatorStep
  <2>1. CASE BeginWrite(w)
    BY <2>1, BeginWriteIs DEF CoordinatorStep
  <2>2. CASE BeginBroadcast(w)
    BY <2>2, BeginBroadcastIs DEF CoordinatorStep
  <2>3. CASE Deliver(w)
    <3>1. \E n \in Nodes, ok \in {0, 1} : Delivers(w, n, ok)
      BY <2>3, DeliverIs
    <3> QED BY <3>1 DEF CoordinatorStep
  <2>4. CASE DeliveryFails(w)
    <3>1. \E n \in Nodes : Fails(w, n)
      BY <2>4, DeliveryFailsIs
    <3> QED BY <3>1 DEF CoordinatorStep
  <2>5. CASE EndWrite(w)
    BY <2>5, EndWriteIs DEF CoordinatorStep
  <2> QED BY <1>1, <2>1, <2>2, <2>3, <2>4, <2>5 DEF WriterStep
<1>2. ASSUME NEW n \in Nodes, Crash(n) \/ SessionExpires(n) \/ Refresh(n) \/ NodeStep(n)
      PROVE  ReplicaStep
  <2>1. CASE Crash(n)
    BY <2>1, CrashIs DEF ReplicaStep
  <2>2. CASE SessionExpires(n)
    BY <2>2, SessionExpiresIs DEF ReplicaStep
  <2>3. CASE Refresh(n)
    <3>1. Recovers(n)
      BY <2>3, BaseNode, BeginRecoveryIs DEF Refresh
    <3> QED BY <3>1 DEF ReplicaStep
  <2>4. CASE Start(n)
    <3>a. stale' \subseteq Nodes /\ ("quick" \in faults \/ stale' = {})
      BY <2>4, BaseNode DEF Start
    <3>1. Recovers(n)
      BY <2>4, <3>a, BeginRecoveryIs DEF Start
    <3> QED BY <3>1 DEF ReplicaStep
  <2>5. CASE FetchPeer(n)
    <3>1. \E m \in Nodes : Fetches(n, m)
      BY <2>5, FetchPeerIs
    <3> QED BY <3>1 DEF ReplicaStep
  <2>6. CASE SkipPeer(n)
    <3>1. \E m \in Nodes : Skips(n, m)
      BY <2>6, SkipPeerIs
    <3> QED BY <3>1 DEF ReplicaStep
  <2>7. CASE TakeEntry(n)
    <3>1. \E e \in PeerEntries : Takes(n, e)
      BY <2>7, TakeEntryIs
    <3> QED BY <3>1 DEF ReplicaStep
  <2>8. CASE Serve(n)
    BY <2>8, ServeIs DEF ReplicaStep
  <2> QED BY <1>2, <2>1, <2>2, <2>3, <2>4, <2>5, <2>6, <2>7, <2>8 DEF NodeStep
<1> QED
  BY <1>1, <1>2 DEF Step

(* The files of node n after each kind of step: r is what becomes of nd. *)
LEMMA DeliversNode ==
  ASSUME BaseInv, NEW w \in Writers, NEW n \in Nodes, NEW ok \in {0, 1}, Delivers(w, n, ok)
  PROVE  /\ node' \in [Nodes -> NodeStates]
         /\ \A m \in Nodes \ {n} : node'[m] = node[m]
         /\ \/ node'[n] = node[n] /\ write[w].id \in KnownIds(node[n])
            \/ node'[n] = Execute(node[n], write[w].id)
         /\ LogOK(node'[n])
<1>1. LogOK(node[n]) /\ node \in [Nodes -> NodeStates]
  BY BaseNode
<1>2. CASE node' = node /\ write[w].id \in KnownIds(node[n])
  BY <1>1, <1>2
<1>3. CASE node' = [node EXCEPT ![n] = Execute(node[n], write[w].id)]
  <2>1. PICK r : r = Execute(node[n], write[w].id)
    OBVIOUS
  <2>a. write[w].id \in RequestIds
    BY DEF Delivers
  <2>b. LogOK(r)
    BY <1>1, <2>1, <2>a, ExecuteOK
  <2>2. LogOK(r) /\ r \in NodeStates
    BY <2>b DEF LogOK
  <2>3. node' = [node EXCEPT ![n] = r]
    BY <1>3, <2>1
  <2> QED BY <1>1, <2>1, <2>2, <2>3
<1> QED
  BY <1>2, <1>3 DEF Delivers

(* What Settled says of n after the step *)
Stays(n) ==
  /\ recovery'[n].kind = "none" \/ node'[n].state = "RECOVERING"
  /\ "quick" \in faults \/ node'[n].state = "DOWN" \/ registered'[n] = node'[n].state

LEMMA ReplicaFiles ==
  ASSUME BaseInv, ReplicaStep
  PROVE  \E n \in Nodes : Only(n) /\ LogOK(node'[n]) /\ Stays(n)
                          /\ (installed' = installed \/ installed' = installed \cup {n})
<1>1. PICK n \in Nodes : \/ Crashes(n) \/ Expires(n) \/ Recovers(n)
                         \/ \E m \in Nodes : Fetches(n, m)
                         \/ \E m \in Nodes : Skips(n, m)
                         \/ \E e \in PeerEntries : Takes(n, e)
                         \/ Serves(n)
  BY DEF ReplicaStep
<1>2. LogOK(node[n]) /\ Settled(n)
  BY BaseNode DEF BaseInv, RegisteredOK
<1>a. ASSUME registered' = registered, recovery'[n].kind = recovery[n].kind,
             node'[n].state = node[n].state
      PROVE  Stays(n)
  BY <1>2, <1>a DEF Settled, Stays
<1>3. CASE Crashes(n) \/ Recovers(n)
  <2>1. Stays(n)
    BY <1>3, NoRecoveryIs DEF Crashes, Recovers, Stays
  <2> QED BY <1>2, <1>3, <2>1, SameFilesOK DEF Crashes, Recovers
<1>4. CASE Expires(n)
  <2>1. Stays(n)
    BY <1>2, <1>4 DEF Expires, Settled, Stays
  <2> QED BY <1>2, <1>4, <2>1 DEF Expires
<1>5. CASE \E m \in Nodes : Fetches(n, m)
  <2>1. PICK m \in Nodes : Fetches(n, m)
    BY <1>5
  <2>2. LogOK(node[m])
    BY BaseNode
  <2>3. Stays(n)
    BY <1>2, <1>a, <2>1, <2>2, KeepState DEF Fetches
  <2> QED BY <1>2, <2>1, <2>2, <2>3, InstallOK DEF Fetches
<1>6. CASE \E m \in Nodes : Skips(n, m)
  <2>1. Stays(n)
    BY <1>6, <1>a DEF Skips
  <2> QED BY <1>2, <1>6, <2>1 DEF Skips
<1>7. CASE \E e \in PeerEntries : Takes(n, e)
  <2>1. PICK e \in PeerEntries : Takes(n, e)
    BY <1>7
  <2>2. e.requestId \in RequestIds /\ e.sequence \in Nat
    BY DEF PeerEntries
  <2>3. LogOK(Logged(node[n], e.requestId, e.sequence))
    BY <1>2, <2>2, LoggedOK
  <2>4. LogOK(node'[n])
    BY <1>2, <2>1, <2>3 DEF Takes
  <2>5. node'[n].state = node[n].state
    BY <1>2, <2>1, <2>2, KeepState DEF Takes
  <2>6. Stays(n)
    BY <1>a, <2>1, <2>5 DEF Takes
  <2> QED BY <2>1, <2>4, <2>6 DEF Takes
<1>8. CASE Serves(n)
  <2>1. LogOK(maybeSnapshot(node[n]))
    BY <1>2, SnapshotOK
  <2>2. LogOK(node'[n])
    BY <1>2, <1>8, <2>1, SameFilesOK DEF Serves
  <2>3. Stays(n)
    BY <1>8, NoRecoveryIs DEF Serves, Stays
  <2> QED BY <1>8, <2>2, <2>3 DEF Serves
<1> QED
  BY <1>1, <1>3, <1>4, <1>5, <1>6, <1>7, <1>8

LEMMA BaseStep ==
  ASSUME BaseInv, [Next]_vars
  PROVE  BaseInv'
<1>1. CASE UNCHANGED vars
  BY <1>1 DEF vars, BaseInv, TypeOK, NodesOK, WritesOK, RegisteredOK, Settled
<1>2. CASE CoordinatorStep /\ faults' = faults
  <2>0. /\ committed \subseteq used /\ created \subseteq used /\ used \subseteq RequestIds
        /\ faults' \subseteq FaultKinds /\ installed \subseteq Nodes /\ stale \subseteq Nodes
    BY <1>2 DEF BaseInv, TypeOK
  <2>1. PICK w \in Writers : \/ Begins(w)
                             \/ \E n \in Nodes, ok \in {0, 1} : Delivers(w, n, ok)
                             \/ \E n \in Nodes : Fails(w, n)
                             \/ Ends(w)
    BY <1>2 DEF CoordinatorStep
  <2>2. CASE Begins(w)
    <3>1. TypeOK'
      BY <2>0, <2>2 DEF Begins, BaseInv, TypeOK
    <3>2. NodesOK'
      BY <2>2 DEF Begins, BaseInv, NodesOK
    <3>3. \A v \in Writers : write[v].pc = "sending" => write[v].id # NewId
      BY <2>2 DEF Begins, BaseInv, WritesOK
    <3>4. WritesOK'
      BY <2>2, <3>3 DEF Begins, BaseInv, WritesOK
    <3>5. RegisteredOK'
      BY <1>2, <2>2 DEF Begins, BaseInv, RegisteredOK, Settled
    <3> QED BY <3>1, <3>2, <3>4, <3>5 DEF BaseInv
  <2>3. CASE \E n \in Nodes, ok \in {0, 1} : Delivers(w, n, ok)
    <3>1. PICK n \in Nodes, ok \in {0, 1} : Delivers(w, n, ok)
      BY <2>3
    <3>2. Answers(w, n, ok) /\ node' \in [Nodes -> NodeStates]
      BY <3>1, DeliversNode DEF Delivers
    <3>3. TypeOK'
      BY <2>0, <3>2 DEF Answers, BaseInv, TypeOK
    <3>4. NodesOK'
      BY <3>1, DeliversNode DEF BaseInv, NodesOK
    <3>5. WritesOK'
      BY <3>2 DEF Answers, BaseInv, WritesOK
    <3>6. LogOK(node[n]) /\ write[w].id \in RequestIds
      BY <3>1, BaseNode DEF Delivers
    <3>7. \A m \in Nodes : node'[m].state = node[m].state
      BY <3>1, <3>6, DeliversNode, KeepState
    <3>8. RegisteredOK'
      BY <1>2, <3>2, <3>7 DEF Answers, BaseInv, RegisteredOK, Settled
    <3> QED BY <3>3, <3>4, <3>5, <3>8 DEF BaseInv
  <2>4. CASE \E n \in Nodes : Fails(w, n)
    <3>1. PICK n \in Nodes : Fails(w, n)
      BY <2>4
    <3>2. Answers(w, n, 0) /\ node' = node
      BY <3>1 DEF Fails
    <3>3. TypeOK'
      BY <2>0, <3>2 DEF Answers, BaseInv, TypeOK
    <3>4. NodesOK'
      BY <3>2 DEF BaseInv, NodesOK
    <3>5. WritesOK'
      BY <3>2 DEF Answers, BaseInv, WritesOK
    <3>6. RegisteredOK'
      BY <1>2, <3>2 DEF Answers, BaseInv, RegisteredOK, Settled
    <3> QED BY <3>3, <3>4, <3>5, <3>6 DEF BaseInv
  <2>5. CASE Ends(w)
    <3>0. write[w].id \in used
      BY <2>5 DEF Ends, BaseInv, WritesOK
    <3>1. TypeOK'
      BY <2>0, <2>5, <3>0 DEF Ends, BaseInv, TypeOK
    <3>2. NodesOK'
      BY <2>5 DEF Ends, BaseInv, NodesOK
    <3>3. WritesOK'
      BY <2>5 DEF Ends, BaseInv, WritesOK
    <3>4. RegisteredOK'
      BY <1>2, <2>5 DEF Ends, BaseInv, RegisteredOK, Settled
    <3> QED BY <3>1, <3>2, <3>3, <3>4 DEF BaseInv
  <2> QED BY <2>1, <2>2, <2>3, <2>4, <2>5
<1>3. CASE ReplicaStep /\ faults' = faults
  <2>1. PICK n \in Nodes : /\ Only(n) /\ LogOK(node'[n]) /\ Stays(n)
                           /\ (installed' = installed \/ installed' = installed \cup {n})
    BY <1>3, ReplicaFiles
  <2>2. TypeOK'
    BY <1>3, <2>1 DEF Only, BaseInv, TypeOK
  <2>3. NodesOK'
    BY <2>1 DEF Only, BaseInv, NodesOK
  <2>4. WritesOK'
    BY <2>1 DEF Only, BaseInv, WritesOK
  <2>5. RegisteredOK'
    BY <1>3, <2>1 DEF Only, Stays, BaseInv, RegisteredOK, Settled
  <2> QED BY <2>2, <2>3, <2>4, <2>5 DEF BaseInv
<1> QED
  BY <1>1, <1>2, <1>3, StepCases DEF Next

(* Every behaviour, whatever fails, keeps the types, and on every node a   *)
(* log in the order of its sequences without a request twice (WalLog       *)
(* append and appendRecovered, installPeerSnapshotIfNewer).                *)
THEOREM ClusterTypes == Spec => [](TypeOK /\ NodesOK)
<1>1. Init => BaseInv
  BY BaseInit
<1>2. BaseInv /\ [Next]_vars => BaseInv'
  BY BaseStep
<1>3. BaseInv => TypeOK /\ NodesOK
  BY DEF BaseInv
<1> QED
  BY <1>1, <1>2, <1>3, PTL DEF Spec

-----------------------------------------------------------------------------
(* What survives all faults                                                *)

LEMMA KnownIdsIs ==
  ASSUME NEW nd, LogOK(nd)
  PROVE  KnownIds(nd) = nd.ids
<1>1. nd \in NodeStates
  BY DEF LogOK
<1>2. DOMAIN Sql(nd.wal) = 1 .. Len(nd.wal)
  BY <1>1, NodeFields DEF Sql
<1>3. \A i \in 1 .. Len(nd.wal) : Sql(nd.wal)[i] \in nd.ids
  BY <1>1, SqlIs DEF LogOK
<1> QED
  BY <1>2, <1>3 DEF KnownIds, Elements

(* The snapshot is the node's own: the whole log is above it, and what the *)
(* index knows is executed. *)
OwnFiles(nd) ==
  /\ \A i \in 1 .. Len(nd.wal) : nd.wal[i].sequence > nd.compacted
  /\ nd.ids \subseteq Executed(nd)

LEMMA LoggedOwn ==
  ASSUME NEW nd, LogOK(nd), OwnFiles(nd), NEW id \in RequestIds, NEW s \in Nat
  PROVE  OwnFiles(Logged(nd, id, s)) /\ id \in Executed(Logged(nd, id, s))
<1>1. nd \in NodeStates /\ nd.last \in Nat /\ nd.compacted \in Nat /\ nd.compacted <= nd.last
  BY NodeFields DEF LogOK
<1>2. CASE InWal(nd, id)
  <2>1. Logged(nd, id, s) = nd
    BY <1>1, <1>2, LoggedIs
  <2>2. id \in nd.ids
    BY <1>1, <1>2, NotInWal DEF LogOK
  <2> QED BY <2>1, <2>2 DEF OwnFiles
<1>3. CASE ~InWal(nd, id)
  <2>1. PICK q : q = MaxOf(nd.last + 1, s)
    OBVIOUS
  <2>2. q \in Nat /\ q > nd.last
    BY <1>1, <2>1, MaxAbove
  <2>3. PICK r : r = Logged(nd, id, s)
    OBVIOUS
  <2>4. OneMore(nd, r, id, q) /\ id \in Executed(r) /\ Executed(nd) \subseteq Executed(r)
    BY <1>1, <1>3, <2>1, <2>3, LoggedIs, LoggedKeeps
  <2>5. PICK N : N = Len(nd.wal)
    OBVIOUS
  <2>6. N \in Nat /\ Len(r.wal) = N + 1 /\ r.compacted = nd.compacted /\ r.ids = nd.ids \cup {id}
        /\ r.wal[N + 1].sequence = q /\ \A i \in 1 .. N : r.wal[i] = nd.wal[i]
    BY <1>1, <2>4, <2>5, NodeFields DEF OneMore
  <2>7. \A i \in 1 .. N + 1 : i = N + 1 \/ i \in 1 .. N
    BY <2>6
  <2>a. q > r.compacted
    BY <1>1, <2>2, <2>6
  <2>b. \A i \in 1 .. N : nd.wal[i].sequence > nd.compacted
    BY <2>5 DEF OwnFiles
  <2>8. q > r.compacted /\ \A i \in 1 .. N : r.wal[i].sequence > r.compacted
    BY <2>6, <2>a, <2>b
  <2>9. ASSUME NEW i \in 1 .. N + 1 PROVE r.wal[i].sequence > r.compacted
    <3>1. CASE i = N + 1
      BY <2>6, <2>8, <3>1
    <3>2. CASE i \in 1 .. N
      BY <2>8, <3>2
    <3> QED BY <2>7, <3>1, <3>2
  <2>10. r.ids \subseteq Executed(r)
    BY <2>4, <2>6 DEF OwnFiles
  <2> QED BY <2>3, <2>4, <2>6, <2>9, <2>10 DEF OwnFiles
<1> QED
  BY <1>2, <1>3

LEMMA SnapshotOwn ==
  ASSUME NEW nd, LogOK(nd), OwnFiles(nd)
  PROVE  OwnFiles(maybeSnapshot(nd))
<1>1. nd \in NodeStates
  BY DEF LogOK
<1>2. CASE nd.last - nd.compacted < SnapshotThreshold
  BY <1>1, <1>2, SnapshotIs
<1>3. CASE ~(nd.last - nd.compacted < SnapshotThreshold)
  <2>1. PICK r : r = maybeSnapshot(nd)
    OBVIOUS
  <2>2. Len(r.wal) = 0 /\ r.ids = nd.ids /\ Executed(nd) \subseteq Executed(r)
    BY <1>1, <1>3, <2>1, SnapshotIs, SnapshotOK DEF OwnSnapshot
  <2>3. \A i \in 1 .. Len(r.wal) : r.wal[i].sequence > r.compacted
    BY <2>2
  <2> QED BY <2>1, <2>2, <2>3 DEF OwnFiles
<1> QED
  BY <1>2, <1>3

LEMMA ExecuteOwn ==
  ASSUME NEW nd, LogOK(nd), OwnFiles(nd), NEW id \in RequestIds
  PROVE  OwnFiles(Execute(nd, id)) /\ id \in Executed(Execute(nd, id))
<1>1. PICK r : r = Logged(nd, id, 0)
  OBVIOUS
<1>2. LogOK(r) /\ OwnFiles(r) /\ id \in Executed(r)
  BY <1>1, LoggedOK, LoggedOwn
<1>3. OwnFiles(maybeSnapshot(r)) /\ id \in Executed(maybeSnapshot(r))
  BY <1>2, SnapshotOwn, SnapshotOK
<1> QED
  BY <1>1, <1>3 DEF Execute

LEMMA SameFilesOwn ==
  ASSUME NEW nd, LogOK(nd), OwnFiles(nd), NEW r, SameFiles(nd, r)
  PROVE  OwnFiles(r)
BY SameFilesOK DEF OwnFiles, SameFiles

(* Nodes whose snapshot is their own keep it so, and lose nothing. *)
LogInv == \A n \in Nodes \ installed : OwnFiles(node[n])

KeepsAll ==
  /\ installed \subseteq installed'
  /\ \A n \in Nodes \ installed' : Executed(node[n]) \subseteq Executed(node'[n]) /\ OwnFiles(node'[n])

LEMMA DeliversOwn ==
  ASSUME BaseInv, LogInv, NEW w \in Writers, NEW n \in Nodes, NEW ok \in {0, 1}, Delivers(w, n, ok)
  PROVE  KeepsAll /\ (n \notin installed' => write[w].id \in Executed(node'[n]))
<1>1. /\ \A m \in Nodes \ {n} : node'[m] = node[m]
      /\ \/ node'[n] = node[n] /\ write[w].id \in KnownIds(node[n])
         \/ node'[n] = Execute(node[n], write[w].id)
      /\ write[w].id \in RequestIds /\ installed' = installed
  BY DeliversNode DEF Delivers, Answers
<1>2. LogOK(node[n])
  BY BaseNode
<1>3. ASSUME n \notin installed
      PROVE  /\ Executed(node[n]) \subseteq Executed(node'[n]) /\ OwnFiles(node'[n])
             /\ write[w].id \in Executed(node'[n])
  <2>1. OwnFiles(node[n])
    BY <1>3 DEF LogInv
  <2>2. CASE node'[n] = node[n] /\ write[w].id \in KnownIds(node[n])
    BY <1>2, <2>1, <2>2, KnownIdsIs DEF OwnFiles
  <2>3. CASE node'[n] = Execute(node[n], write[w].id)
    BY <1>1, <1>2, <2>1, <2>3, ExecuteOwn, ExecuteOK
  <2> QED BY <1>1, <2>2, <2>3
<1> QED
  BY <1>1, <1>3 DEF KeepsAll, LogInv

LEMMA ReplicaOwn ==
  ASSUME BaseInv, LogInv, ReplicaStep
  PROVE  KeepsAll
<1>1. PICK n \in Nodes : \/ Crashes(n) \/ Expires(n) \/ Recovers(n)
                         \/ \E m \in Nodes : Fetches(n, m)
                         \/ \E m \in Nodes : Skips(n, m)
                         \/ \E e \in PeerEntries : Takes(n, e)
                         \/ Serves(n)
  BY DEF ReplicaStep
<1>2. LogOK(node[n])
  BY BaseNode
<1>a. SUFFICES /\ Only(n) /\ installed \subseteq installed'
               /\ n \notin installed' => /\ Executed(node[n]) \subseteq Executed(node'[n])
                                         /\ OwnFiles(node'[n])
  BY DEF Only, KeepsAll, LogInv
<1>b. n \notin installed => OwnFiles(node[n])
  BY DEF LogInv
<1>3. CASE Crashes(n) \/ Recovers(n)
  <2>1. Only(n) /\ SameFiles(node[n], node'[n]) /\ installed' = installed
    BY <1>3 DEF Crashes, Recovers
  <2> QED BY <1>2, <1>b, <2>1, SameFilesOK, SameFilesOwn
<1>4. CASE Expires(n)
  BY <1>b, <1>4 DEF Expires
<1>5. CASE \E m \in Nodes : Fetches(n, m)
  <2>1. PICK m \in Nodes : Fetches(n, m)
    BY <1>5
  <2>2. node[n] \in NodeStates /\ node[m] \in NodeStates
    BY BaseNode
  <2>3. node[n].compacted \in Nat /\ node[m].compacted \in Nat
    BY <2>2, NodeFields
  <2>4. ASSUME n \notin installed' PROVE node'[n] = node[n]
    <3>1. ~(node[m].compacted > node[n].compacted)
      BY <2>1, <2>4 DEF Fetches
    <3>2. node[m].compacted <= node[n].compacted
      BY <2>3, <3>1
    <3> QED BY <2>1, <2>2, <3>2, InstallIs DEF Fetches
  <2>5. Only(n) /\ installed \subseteq installed'
    BY <2>1 DEF Fetches
  <2> QED BY <1>b, <2>4, <2>5
<1>6. CASE \E m \in Nodes : Skips(n, m)
  BY <1>b, <1>6 DEF Skips
<1>7. CASE \E e \in PeerEntries : Takes(n, e)
  <2>1. PICK e \in PeerEntries : Takes(n, e)
    BY <1>7
  <2>2. e.requestId \in RequestIds /\ e.sequence \in Nat
    BY DEF PeerEntries
  <2>3. \/ node'[n] = node[n]
        \/ node'[n] = Logged(node[n], e.requestId, e.sequence)
    BY <2>1 DEF Takes
  <2>4. Only(n) /\ installed' = installed
    BY <2>1 DEF Takes
  <2> QED BY <1>2, <1>b, <2>2, <2>3, <2>4, LoggedKeeps, LoggedOwn
<1>8. CASE Serves(n)
  <2>1. LogOK(maybeSnapshot(node[n])) /\ Executed(node[n]) \subseteq Executed(maybeSnapshot(node[n]))
    BY <1>2, SnapshotOK
  <2>2. Executed(node[n]) \subseteq Executed(node'[n])
    BY <1>2, <1>8, <2>1, SameFilesOK DEF Serves
  <2>3. Only(n) /\ installed' = installed
    BY <1>8 DEF Serves
  <2>4. OwnFiles(node[n]) => OwnFiles(node'[n])
    BY <1>2, <1>8, <2>1, SnapshotOwn, SameFilesOwn DEF Serves
  <2> QED BY <1>b, <2>2, <2>3, <2>4
<1> QED
  BY <1>1, <1>3, <1>4, <1>5, <1>6, <1>7, <1>8

(* The replicas among S that executed id *)
Holders(S, id) == {n \in S : id \in Executed(node[n])}

(* As many replicas that were asked have executed the request as answered. *)
CountInv ==
  \A w \in Writers : write[w].pc = "sending" =>
      write[w].oks <= Cardinality(Holders(Nodes \ write[w].todo, write[w].id))

SurvivesInv == BaseInv /\ LogInv /\ (installed = {} => CountInv /\ CommittedOnQuorum)

LEMMA HoldersGrow ==
  ASSUME NEW A \in SUBSET Nodes, NEW B \in SUBSET Nodes, A \subseteq B
  PROVE  /\ IsFiniteSet(A) /\ IsFiniteSet(B) /\ Cardinality(A) \in Nat /\ Cardinality(B) \in Nat
         /\ Cardinality(A) <= Cardinality(B)
BY LiveFacts, FS_Subset

(* Counts only grow while nothing is lost. *)
LEMMA CountsKept ==
  ASSUME BaseInv, NEW S \in SUBSET Nodes, NEW T \in SUBSET Nodes, S \subseteq T, NEW id,
         NEW c \in Nat, c <= Cardinality(Holders(S, id)),
         \A n \in Nodes : Executed(node[n]) \subseteq Executed(node'[n])
  PROVE  c <= Cardinality({n \in T : id \in Executed(node'[n])})
<1>1. PICK A : A = Holders(S, id)
  OBVIOUS
<1>2. PICK B : B = {n \in T : id \in Executed(node'[n])}
  OBVIOUS
<1>3. A \subseteq B /\ A \subseteq Nodes /\ B \subseteq Nodes
  BY <1>1, <1>2 DEF Holders
<1>4. Cardinality(A) <= Cardinality(B) /\ Cardinality(A) \in Nat /\ Cardinality(B) \in Nat
  BY <1>3, HoldersGrow
<1>5. c <= Cardinality(B)
  BY <1>1, <1>4
<1> QED
  BY <1>2, <1>5

LEMMA CommittedKept ==
  ASSUME BaseInv, CommittedOnQuorum, committed' = committed,
         \A n \in Nodes : Executed(node[n]) \subseteq Executed(node'[n])
  PROVE  CommittedOnQuorum'
<1> SUFFICES ASSUME NEW id \in committed
             PROVE  Cardinality({n \in Nodes : id \in Executed(node'[n])})
                       >= quorumSize(Cardinality(Nodes))
  BY DEF CommittedOnQuorum
<1>1. PICK q : q = quorumSize(Cardinality(Nodes))
  OBVIOUS
<1>2. q \in Nat
  BY <1>1, NodesFacts, Quorums
<1>3. PICK c : c = Cardinality(Holders(Nodes, id))
  OBVIOUS
<1>4. Holders(Nodes, id) \subseteq Nodes
  BY DEF Holders
<1>5. c \in Nat
  BY <1>3, <1>4, LiveFacts
<1>6. c >= q
  BY <1>1, <1>3 DEF CommittedOnQuorum, Holders
<1>7. q <= Cardinality(Holders(Nodes, id))
  BY <1>2, <1>3, <1>5, <1>6
<1>8. q <= Cardinality({n \in Nodes : id \in Executed(node'[n])})
  <2>1. Nodes \in SUBSET Nodes
    OBVIOUS
  <2>2. \A T \in SUBSET Nodes : Nodes \subseteq T => q <= Cardinality({n \in T : id \in Executed(node'[n])})
    BY <1>2, <1>7, <2>1, CountsKept
  <2> QED BY <2>1, <2>2
<1>9. PICK d : d = Cardinality({n \in Nodes : id \in Executed(node'[n])})
  OBVIOUS
<1>10. d \in Nat
  BY <1>9, LiveFacts
<1> QED
  BY <1>1, <1>2, <1>8, <1>9, <1>10

LEMMA SurvivesInit == ASSUME Init PROVE SurvivesInv
<1>1. BaseInv
  BY BaseInit
<1>2. \A n \in Nodes : node[n].wal = <<>> /\ node[n].ids = {}
  BY DEF Init, EmptyNode
<1>3. \A n \in Nodes : Len(node[n].wal) = 0
  BY <1>2
<1>4. LogInv
  BY <1>2, <1>3 DEF LogInv, OwnFiles
<1>5. CountInv /\ CommittedOnQuorum
  BY DEF Init, NoWrite, CountInv, CommittedOnQuorum
<1> QED
  BY <1>1, <1>4, <1>5 DEF SurvivesInv

(* Counts and successes, while no node loses anything and whoever answers  *)
(* has executed the request *)
Answered ==
  \A w \in Writers, n \in Nodes, ok \in {0, 1} :
      Delivers(w, n, ok) => write[w].id \in Executed(node'[n])

LEMMA CountStep ==
  ASSUME BaseInv, CountInv, CommittedOnQuorum, [Next]_vars, Answered,
         \A n \in Nodes : Executed(node[n]) \subseteq Executed(node'[n])
  PROVE  CountInv' /\ CommittedOnQuorum'
<1>a. \A w \in Writers : /\ write[w].oks \in Nat /\ write[w].todo \subseteq Nodes
                         /\ Nodes \ write[w].todo \subseteq Nodes
  BY DEF BaseInv, TypeOK, Writes
<1>b. ASSUME NEW v \in Writers, write[v].pc = "sending"
      PROVE  write[v].oks <= Cardinality({m \in Nodes \ write[v].todo : write[v].id \in Executed(node'[m])})
  <2>1. write[v].oks <= Cardinality(Holders(Nodes \ write[v].todo, write[v].id))
    BY <1>b DEF CountInv
  <2>2. PICK c : c = write[v].oks
    OBVIOUS
  <2>3. PICK S : S = Nodes \ write[v].todo
    OBVIOUS
  <2>4. PICK id : id = write[v].id
    OBVIOUS
  <2>5. c \in Nat /\ S \subseteq Nodes /\ c <= Cardinality(Holders(S, id))
    BY <1>a, <2>1, <2>2, <2>3, <2>4
  <2>6. c <= Cardinality({m \in S : id \in Executed(node'[m])})
    <3>1. S \in SUBSET Nodes /\ S \subseteq S
      BY <2>5
    <3>2. \A T \in SUBSET Nodes : S \subseteq T => c <= Cardinality({m \in T : id \in Executed(node'[m])})
      BY <2>5, <3>1, CountsKept
    <3> QED BY <3>1, <3>2
  <2> QED BY <2>2, <2>3, <2>4, <2>6
<1>1. ASSUME write' = write, committed' = committed
      PROVE  CountInv' /\ CommittedOnQuorum'
  <2>1. CommittedOnQuorum'
    BY <1>1, CommittedKept
  <2>2. CountInv'
    BY <1>b, <1>1 DEF CountInv, Holders
  <2> QED BY <2>1, <2>2
<1>2. CASE UNCHANGED vars
  BY <1>1, <1>2 DEF vars
<1>3. CASE ReplicaStep
  BY <1>1, <1>3, ReplicaFiles DEF Only
<1>4. CASE CoordinatorStep
  <2>1. PICK w \in Writers : \/ Begins(w)
                             \/ \E n \in Nodes, ok \in {0, 1} : Delivers(w, n, ok)
                             \/ \E n \in Nodes : Fails(w, n)
                             \/ Ends(w)
    BY <1>4 DEF CoordinatorStep
  <2>2. ASSUME NEW n \in Nodes, NEW ok \in {0, 1}, Answers(w, n, ok),
               ok = 1 => write[w].id \in Executed(node'[n])
        PROVE  CountInv' /\ CommittedOnQuorum'
    <3>2. committed' = committed
      BY <2>2 DEF Answers
    <3>3. CommittedOnQuorum'
      BY <3>2, CommittedKept
    <3>5. PICK T : T = Nodes \ (write[w].todo \ {n})
      OBVIOUS
    <3>6. PICK S : S = Nodes \ write[w].todo
      OBVIOUS
    <3>7. PICK id : id = write[w].id
      OBVIOUS
    <3>8. S \subseteq T /\ T \subseteq Nodes /\ n \in T /\ n \notin S /\ S \subseteq Nodes
      BY <2>2, <3>5, <3>6 DEF Answers
    <3>9. write[w].oks <= Cardinality(Holders(S, id)) /\ write[w].oks \in Nat
      BY <1>a, <2>2, <3>6, <3>7 DEF Answers, CountInv
    <3>10. write[w].oks + ok <= Cardinality({m \in T : id \in Executed(node'[m])})
      <4>a. PICK A : A = {m \in S : id \in Executed(node'[m])}
        OBVIOUS
      <4>b. PICK B : B = {m \in T : id \in Executed(node'[m])}
        OBVIOUS
      <4>c. write[w].oks <= Cardinality(A)
        BY <1>b, <2>2, <3>6, <3>7, <4>a DEF Answers
      <4>d. A \subseteq B /\ A \subseteq Nodes /\ B \subseteq Nodes /\ n \notin A
        BY <3>8, <4>a, <4>b
      <4>e. Cardinality(A) <= Cardinality(B) /\ Cardinality(A) \in Nat /\ Cardinality(B) \in Nat
        BY <4>d, HoldersGrow
      <4>1. CASE ok = 0
        <5>1. write[w].oks + 0 <= Cardinality(B)
          BY <3>9, <4>c, <4>e
        <5> QED BY <4>1, <4>b, <5>1
      <4>2. CASE ok = 1
        <5>1. id \in Executed(node'[n])
          BY <2>2, <3>7, <4>2
        <5>2. A \cup {n} \subseteq B
          BY <3>8, <4>b, <4>d, <5>1
        <5>3. IsFiniteSet(A) /\ Cardinality(A \cup {n}) = Cardinality(A) + 1
          BY <4>d, LiveFacts, FS_AddElement
        <5>4. Cardinality(A \cup {n}) <= Cardinality(B)
          BY <4>d, <5>2, HoldersGrow
        <5>5. write[w].oks + 1 <= Cardinality(B)
          BY <3>9, <4>c, <4>e, <5>3, <5>4
        <5> QED BY <4>2, <4>b, <5>5
      <4> QED BY <4>1, <4>2
    <3>11. /\ write'[w].todo = write[w].todo \ {n} /\ write'[w].oks = write[w].oks + ok
           /\ write'[w].id = id /\ \A v \in Writers \ {w} : write'[v] = write[v]
      BY <2>2, <3>7 DEF Answers
    <3>12. CountInv'
      <4> SUFFICES ASSUME NEW v \in Writers, write'[v].pc = "sending"
                   PROVE  write'[v].oks <= Cardinality({m \in Nodes \ write'[v].todo :
                                                           write'[v].id \in Executed(node'[m])})
        BY DEF CountInv, Holders
      <4>1. CASE v = w
        BY <3>5, <3>10, <3>11, <4>1
      <4>2. CASE v # w
        BY <1>b, <3>11, <4>2
      <4> QED BY <4>1, <4>2
    <3> QED BY <3>3, <3>12
  <2>3. CASE \E n \in Nodes, ok \in {0, 1} : Delivers(w, n, ok)
    BY <2>2, <2>3 DEF Delivers, Answered
  <2>4. CASE \E n \in Nodes : Fails(w, n)
    BY <2>2, <2>4 DEF Fails
  <2>5. CASE Begins(w)
    <3>1. /\ committed' = committed
          /\ write'[w].oks = 0 /\ \A v \in Writers \ {w} : write'[v] = write[v]
      BY <2>5 DEF Begins
    <3>2. CommittedOnQuorum'
      BY <3>1, CommittedKept
    <3>3. CountInv'
      <4> SUFFICES ASSUME NEW v \in Writers, write'[v].pc = "sending"
                   PROVE  write'[v].oks <= Cardinality({m \in Nodes \ write'[v].todo :
                                                           write'[v].id \in Executed(node'[m])})
        BY DEF CountInv, Holders
      <4>1. CASE v = w
        <5>1. PICK A : A = {m \in Nodes \ write'[v].todo : write'[v].id \in Executed(node'[m])}
          OBVIOUS
        <5>2. Cardinality(A) \in Nat
          BY <5>1, LiveFacts
        <5> QED BY <3>1, <4>1, <5>1, <5>2
      <4>2. CASE v # w
        BY <1>b, <3>1, <4>2
      <4> QED BY <4>1, <4>2
    <3> QED BY <3>2, <3>3
  <2>6. CASE Ends(w)
    <3>1. /\ node' = node /\ write'[w].pc = "idle"
          /\ write[w].todo = {} /\ write[w].pc = "sending"
          /\ \A v \in Writers \ {w} : write'[v] = write[v]
          /\ \/ committed' = committed
             \/ /\ committed' = committed \cup {write[w].id}
                /\ write[w].oks >= write[w].quorum /\ write[w].kind = "shard"
      BY <2>6 DEF Ends
    <3>2. CountInv'
      BY <3>1 DEF CountInv, Holders
    <3>3. CASE committed' = committed
      BY <3>2, <3>3, CommittedKept
    <3>4. CASE committed' = committed \cup {write[w].id} /\ write[w].oks >= write[w].quorum
               /\ write[w].kind = "shard"
      <4>1. PICK c : c = Cardinality({n \in Nodes : write[w].id \in Executed(node[n])})
        OBVIOUS
      <4>2. c \in Nat
        BY <4>1, LiveFacts
      <4>3. write[w].oks <= c
        BY <3>1, <4>1 DEF CountInv, Holders
      <4>4. PICK q : q = quorumSize(Cardinality(Nodes))
        OBVIOUS
      <4>5. write[w].quorum = q /\ q \in Nat
        BY <3>1, <3>4, <4>4, NodesFacts, Quorums DEF BaseInv, WritesOK
      <4>6. c >= q
        BY <1>a, <3>4, <4>2, <4>3, <4>5
      <4>7. CommittedOnQuorum'
        BY <3>1, <3>4, <4>1, <4>4, <4>6 DEF CommittedOnQuorum
      <4> QED BY <3>2, <4>7
    <3> QED BY <3>1, <3>3, <3>4
  <2> QED BY <2>1, <2>3, <2>4, <2>5, <2>6
<1> QED
  BY <1>2, <1>3, <1>4, StepCases DEF Next

LEMMA AllKept ==
  ASSUME BaseInv, LogInv, [Next]_vars
  PROVE  KeepsAll
<1>1. ASSUME node' = node, installed' = installed PROVE KeepsAll
  BY <1>1 DEF KeepsAll, LogInv
<1>2. CASE UNCHANGED vars
  BY <1>1, <1>2 DEF vars
<1>3. CASE CoordinatorStep
  <2>1. PICK w \in Writers : \/ Begins(w)
                             \/ \E m \in Nodes, ok \in {0, 1} : Delivers(w, m, ok)
                             \/ \E m \in Nodes : Fails(w, m)
                             \/ Ends(w)
    BY <1>3 DEF CoordinatorStep
  <2>2. CASE Begins(w) \/ (\E m \in Nodes : Fails(w, m)) \/ Ends(w)
    BY <1>1, <2>2 DEF Begins, Fails, Answers, Ends
  <2>3. CASE \E m \in Nodes, ok \in {0, 1} : Delivers(w, m, ok)
    BY <2>3, DeliversOwn
  <2> QED BY <2>1, <2>2, <2>3
<1> QED
  BY <1>2, <1>3, ReplicaOwn, StepCases DEF Next

LEMMA SurvivesStep ==
  ASSUME SurvivesInv, [Next]_vars
  PROVE  SurvivesInv'
<1>1. BaseInv /\ LogInv /\ BaseInv' /\ KeepsAll
  BY BaseStep, AllKept DEF SurvivesInv
<1>2. LogInv'
  BY <1>1 DEF KeepsAll, LogInv
<1>3. ASSUME installed' = {} PROVE CountInv' /\ CommittedOnQuorum'
  <2>1. /\ CountInv /\ CommittedOnQuorum
        /\ \A n \in Nodes : Executed(node[n]) \subseteq Executed(node'[n])
    BY <1>1, <1>3 DEF KeepsAll, SurvivesInv
  <2>2. Answered
    BY <1>1, <1>3, DeliversOwn DEF Answered
  <2> QED BY <1>1, <2>1, <2>2, CountStep
<1> QED
  BY <1>1, <1>2, <1>3 DEF SurvivesInv

(* Without a snapshot a node executes its log, in which no request is      *)
(* twice. *)
LEMMA OnceWithoutSnapshot ==
  ASSUME NEW nd, LogOK(nd), nd.compacted = 0
  PROVE  \A i, j \in DOMAIN Content(nd) : Content(nd)[i] = Content(nd)[j] => i = j
<1>1. nd \in NodeStates /\ nd.snap = <<>> /\ Len(nd.snap) = 0 /\ Len(nd.wal) \in Nat
  BY NodeFields, EmptySeq DEF LogOK
<1>2. PICK N : N = Len(nd.wal)
  OBVIOUS
<1>3. PICK k : k = Covered(nd)
  OBVIOUS
<1>4. k \in 0 .. N /\ \A i \in 1 .. N : nd.wal[i].sequence <= nd.compacted <=> i <= k
  BY <1>2, <1>3, CoveredIs
<1>5. \A i \in 1 .. N : nd.wal[i].sequence \in Nat \ {0}
  BY <1>1, <1>2, NodeFields
<1>6. k = 0
  <2> SUFFICES ASSUME k # 0 PROVE FALSE
    OBVIOUS
  <2>1. 1 \in 1 .. N /\ 1 <= k
    BY <1>1, <1>2, <1>4
  <2> QED BY <1>4, <1>5, <2>1
<1>7. PICK c : c = Content(nd)
  OBVIOUS
<1>8. c \in Seq(RequestIds) /\ Len(c) = 0 + (N - 0)
      /\ \A i \in 1 .. N - 0 : c[0 + i] = nd.wal[0 + i].requestId
  <2>1. /\ Content(nd) \in Seq(RequestIds)
        /\ Len(Content(nd)) = Len(nd.snap) + (Len(nd.wal) - Covered(nd))
        /\ \A i \in 1 .. Len(nd.wal) - Covered(nd) :
              Content(nd)[Len(nd.snap) + i] = nd.wal[Covered(nd) + i].requestId
    BY ContentIs
  <2>2. Len(nd.snap) = 0 /\ Len(nd.wal) = N /\ Covered(nd) = 0
    BY <1>1, <1>2, <1>3, <1>6
  <2>3. /\ c \in Seq(RequestIds)
        /\ Len(c) = Len(nd.snap) + (Len(nd.wal) - Covered(nd))
        /\ \A i \in 1 .. Len(nd.wal) - Covered(nd) :
              c[Len(nd.snap) + i] = nd.wal[Covered(nd) + i].requestId
    BY <1>7, <2>1
  <2> QED BY <2>2, <2>3
<1>9. DOMAIN c = 1 .. N /\ \A i \in 1 .. N : c[i] = nd.wal[i].requestId
  <2>1. Len(c) = N /\ \A i \in 1 .. N : 0 + i = i /\ i \in 1 .. N - 0
    BY <1>1, <1>2, <1>8
  <2> QED BY <1>8, <2>1, LenProperties
<1>10. \A i, j \in 1 .. N : nd.wal[i].requestId = nd.wal[j].requestId => i = j
  BY <1>2 DEF LogOK
<1>11. \A i, j \in DOMAIN c : c[i] = c[j] => i = j
  BY <1>9, <1>10
<1> QED
  BY <1>7, <1>11

(* CommittedSurvives, for any replicas, writers, requests and threshold    *)
(* and with every kind of fault: a successful shard write stays in the     *)
(* files of a majority until a peer's snapshot is installed somewhere, and *)
(* until the first snapshot nothing is executed twice.                     *)
THEOREM SuccessfulWritesSurvive == Spec => []CommittedSurvives
<1>1. Init => SurvivesInv
  BY SurvivesInit
<1>2. SurvivesInv /\ [Next]_vars => SurvivesInv'
  BY SurvivesStep
<1>3. SurvivesInv => CommittedSurvives
  <2> SUFFICES ASSUME SurvivesInv PROVE CommittedSurvives
    OBVIOUS
  <2>1. installed = {} => CommittedOnQuorum
    BY DEF SurvivesInv
  <2>2. \A n \in Nodes : LogOK(node[n])
    BY DEF SurvivesInv, BaseInv, NodesOK
  <2>3. NoSnapshots => ExecutedOnce
    BY <2>2, OnceWithoutSnapshot DEF NoSnapshots, ExecutedOnce
  <2> QED BY <2>1, <2>3 DEF CommittedSurvives
<1> QED
  BY <1>1, <1>2, <1>3, PTL DEF Spec

-----------------------------------------------------------------------------
(* One node at a time is away, and no write overlaps a recovery            *)

Serving(n) == node[n].state = "SERVING"

(* At most one node is away. *)
OneAway == \A m, n \in Nodes : ~Serving(m) /\ ~Serving(n) => m = n

(* A node that serves is registered so. *)
Listed == \A n \in Nodes : Serving(n) => registered[n] = "SERVING"

RecoveryOK ==
  \A n \in Nodes : /\ node[n].state = "RECOVERING" <=> recovery[n].kind # "none"
                   /\ n \notin recovery[n].todo
                   /\ recovery[n].kind = "none" => recovery[n].todo = {} /\ recovery[n].entries = <<>>

Apart == \A w \in Writers, n \in Nodes : write[w].pc = "sending" => node[n].state # "RECOVERING"

(* The primary of a write that still serves is the shard's, at its term. *)
TermOK ==
  \A w \in Writers, n \in Nodes :
      write[w].pc = "sending" /\ write[w].kind = "shard" /\ n = write[w].primary /\ Serving(n)
         => n = shard.primary /\ write[w].term = shard.term

Calm == OneAway /\ Listed /\ RecoveryOK /\ Apart /\ TermOK

LEMMA CalmInit == ASSUME Init PROVE Calm
<1>1. \A n \in Nodes : node[n].state = "SERVING" /\ recovery[n] = NoRecovery /\ registered[n] = "SERVING"
  BY DEF Init, EmptyNode
<1>2. \A w \in Writers : write[w].pc = "idle"
  BY DEF Init, NoWrite
<1> QED
  BY <1>1, <1>2, NoRecoveryIs DEF Calm, OneAway, Listed, RecoveryOK, Apart, TermOK, Serving

(* No node that serves refuses a term. *)
LEMMA NotStale ==
  ASSUME BaseInv, Calm, NEW w \in Writers, NEW n \in Nodes, write[w].pc = "sending", Serving(n)
  PROVE  ~Stale(w, n)
<1>1. shard.term \in Nat /\ write[w].term \in Nat
  BY DEF BaseInv, TypeOK, Writes
<1> QED
  BY <1>1 DEF Calm, TermOK, Stale

LEMMA DeliversState ==
  ASSUME BaseInv, NEW w \in Writers, NEW n \in Nodes, NEW ok \in {0, 1}, Delivers(w, n, ok)
  PROVE  \A m \in Nodes : node'[m].state = node[m].state /\ node'[m].compacted >= node[m].compacted
<1>1. /\ \A m \in Nodes \ {n} : node'[m] = node[m]
      /\ node'[n] = node[n] \/ node'[n] = Execute(node[n], write[w].id)
      /\ write[w].id \in RequestIds
  BY DeliversNode DEF Delivers
<1>2. \A m \in Nodes : LogOK(node[m]) /\ node[m].compacted \in Nat
  BY BaseNode, NodeFields
<1>3. node'[n].state = node[n].state /\ node'[n].compacted >= node[n].compacted
  BY <1>1, <1>2, KeepState
<1> QED
  BY <1>1, <1>2, <1>3

LEMMA CalmCoordinator ==
  ASSUME BaseInv, Calm, faults = {}, CoordinatorStep
  PROVE  Calm'
<1>1. PICK w \in Writers : \/ Begins(w)
                           \/ \E n \in Nodes, ok \in {0, 1} : Delivers(w, n, ok)
                           \/ \E n \in Nodes : Fails(w, n)
                           \/ Ends(w)
  BY DEF CoordinatorStep
<1>2. ASSUME \A m \in Nodes : node'[m].state = node[m].state,
             registered' = registered, recovery' = recovery
      PROVE  OneAway' /\ Listed' /\ RecoveryOK'
  BY <1>2 DEF Calm, OneAway, Listed, RecoveryOK, Serving
<1>3. CASE Begins(w)
  <2>1. node' = node /\ registered' = registered /\ recovery' = recovery /\ ~Recovering
        /\ \A v \in Writers \ {w} : write'[v] = write[v]
    BY <1>3 DEF Begins
  <2>2. OneAway' /\ Listed' /\ RecoveryOK'
    BY <1>2, <2>1
  <2>3. Apart'
    BY <2>1 DEF Apart, Recovering
  <2>4. ASSUME NEW v \in Writers, NEW n \in Nodes,
               write'[v].pc = "sending", write'[v].kind = "shard", n = write'[v].primary, Serving(n)
        PROVE  n = shard'.primary /\ write'[v].term = shard'.term
    <3>1. CASE v = w
      BY <1>3, <2>4, <3>1 DEF Begins
    <3>2. CASE v # w
      <4>1. n = shard.primary /\ write[v].term = shard.term /\ registered[n] = "SERVING"
        BY <2>1, <2>4, <3>2 DEF Calm, TermOK, Listed
      <4>2. electPrimary = shard
        BY <4>1 DEF electPrimary, ServingNodes
      <4>3. shard' = shard
        BY <1>3, <4>2 DEF Begins
      <4> QED BY <2>1, <3>2, <4>1, <4>3
    <3> QED BY <3>1, <3>2
  <2>5. TermOK'
    BY <2>1, <2>4 DEF TermOK, Serving
  <2> QED BY <2>2, <2>3, <2>5 DEF Calm
<1>4. ASSUME NEW n \in Nodes, NEW ok \in {0, 1}, Answers(w, n, ok),
             \A m \in Nodes : node'[m].state = node[m].state
      PROVE  Calm'
  <2>1. OneAway' /\ Listed' /\ RecoveryOK'
    BY <1>2, <1>4 DEF Answers
  <2>2. Apart'
    BY <1>4 DEF Answers, Calm, Apart
  <2>3. TermOK'
    BY <1>4 DEF Answers, Calm, TermOK, Serving
  <2> QED BY <2>1, <2>2, <2>3 DEF Calm
<1>5. CASE \E n \in Nodes, ok \in {0, 1} : Delivers(w, n, ok)
  BY <1>4, <1>5, DeliversState DEF Delivers
<1>6. CASE \E n \in Nodes : Fails(w, n)
  BY <1>4, <1>6 DEF Fails
<1>7. CASE Ends(w)
  <2>1. OneAway' /\ Listed' /\ RecoveryOK'
    BY <1>2, <1>7 DEF Ends
  <2>2. Apart'
    BY <1>7 DEF Ends, Calm, Apart
  <2>3. TermOK'
    BY <1>7 DEF Ends, Calm, TermOK, Serving
  <2> QED BY <2>1, <2>2, <2>3 DEF Calm
<1> QED
  BY <1>1, <1>3, <1>5, <1>6, <1>7

LEMMA CalmReplica ==
  ASSUME BaseInv, Calm, faults = {}, ReplicaStep
  PROVE  Calm'
<1>1. PICK n \in Nodes : \/ Crashes(n) \/ Expires(n) \/ Recovers(n)
                         \/ \E m \in Nodes : Fetches(n, m)
                         \/ \E m \in Nodes : Skips(n, m)
                         \/ \E e \in PeerEntries : Takes(n, e)
                         \/ Serves(n)
  BY DEF ReplicaStep
<1>2. LogOK(node[n])
  BY BaseNode
<1>3. CASE Crashes(n)
  <2>1. /\ Only(n) /\ node'[n].state = "DOWN" /\ recovery'[n] = NoRecovery /\ registered' = registered
        /\ \A m \in Nodes \ {n} : node[m].state = "SERVING"
    BY <1>3 DEF Crashes
  <2>2. OneAway' /\ Listed'
    BY <2>1 DEF Only, Calm, OneAway, Listed, Serving
  <2>3. RecoveryOK'
    BY <2>1, NoRecoveryIs DEF Only, Calm, RecoveryOK
  <2>4. Apart'
    BY <2>1 DEF Only, Calm, Apart
  <2>5. TermOK'
    BY <2>1 DEF Only, Calm, TermOK, Serving
  <2> QED BY <2>2, <2>3, <2>4, <2>5 DEF Calm
<1>4. CASE Expires(n)
  <2>1. Only(n) /\ node' = node /\ recovery' = recovery /\ node[n].state = "DOWN"
    BY <1>4 DEF Expires
  <2>2. OneAway' /\ Listed' /\ RecoveryOK' /\ Apart' /\ TermOK'
    BY <2>1 DEF Only, Calm, OneAway, Listed, RecoveryOK, Apart, TermOK, Serving
  <2> QED BY <2>2 DEF Calm
<1>5. CASE Recovers(n)
  <2>1. /\ Only(n) /\ node'[n].state = "RECOVERING" /\ ~Writing
        /\ node[n].state = "DOWN" \/ \A m \in Nodes : node[m].state = "SERVING"
        /\ recovery'[n].kind # "none" /\ recovery'[n].todo = {m \in Nodes \ {n} : registered[m] # "GONE"}
    BY <1>5 DEF Recovers
  <2>2. \A m \in Nodes \ {n} : node[m].state = "SERVING"
    BY <2>1 DEF Calm, OneAway, Serving
  <2>3. OneAway' /\ Listed'
    BY <2>1, <2>2 DEF Only, Calm, OneAway, Listed, Serving
  <2>4. RecoveryOK'
    BY <2>1 DEF Only, Calm, RecoveryOK
  <2>5. \A w \in Writers : write'[w].pc # "sending"
    BY <2>1 DEF Only, Writing
  <2>6. Apart' /\ TermOK'
    BY <2>5 DEF Apart, TermOK
  <2> QED BY <2>3, <2>4, <2>6 DEF Calm
<1>6. ASSUME Only(n), node'[n].state = node[n].state, registered' = registered,
             recovery'[n].kind = recovery[n].kind, recovery'[n].todo \subseteq recovery[n].todo,
             recovery[n].kind # "none"
      PROVE  Calm'
  <2>1. OneAway' /\ Listed'
    BY <1>6 DEF Only, Calm, OneAway, Listed, Serving
  <2>2. RecoveryOK'
    BY <1>6 DEF Only, Calm, RecoveryOK
  <2>3. Apart'
    BY <1>6 DEF Only, Calm, Apart
  <2>4. TermOK'
    BY <1>6 DEF Only, Calm, TermOK, Serving
  <2> QED BY <2>1, <2>2, <2>3, <2>4 DEF Calm
<1>a. recovery[n].kind = "none" => recovery[n].todo = {} /\ recovery[n].entries = <<>>
  BY DEF Calm, RecoveryOK
<1>7. CASE \E m \in Nodes : Fetches(n, m)
  <2>1. PICK m \in Nodes : Fetches(n, m)
    BY <1>7
  <2>2. LogOK(node[m])
    BY BaseNode
  <2>3. node'[n].state = node[n].state
    BY <1>2, <2>1, <2>2, KeepState DEF Fetches
  <2>4. recovery[n].kind # "none"
    BY <1>a, <2>1 DEF Fetches
  <2> QED BY <1>6, <2>1, <2>3, <2>4 DEF Fetches
<1>8. CASE \E m \in Nodes : Skips(n, m)
  <2>1. PICK m \in Nodes : Skips(n, m)
    BY <1>8
  <2>2. recovery[n].kind # "none"
    BY <1>a, <2>1 DEF Skips
  <2> QED BY <1>6, <2>1, <2>2 DEF Skips
<1>9. CASE \E e \in PeerEntries : Takes(n, e)
  <2>1. PICK e \in PeerEntries : Takes(n, e)
    BY <1>9
  <2>2. e.requestId \in RequestIds /\ e.sequence \in Nat
    BY DEF PeerEntries
  <2>3. node'[n].state = node[n].state
    BY <1>2, <2>1, <2>2, KeepState DEF Takes
  <2>4. recovery[n].kind # "none"
    BY <1>a, <2>1 DEF Takes
  <2> QED BY <1>6, <2>1, <2>3, <2>4 DEF Takes
<1>10. CASE Serves(n)
  <2>1. /\ Only(n) /\ node'[n].state = "SERVING" /\ registered'[n] = "SERVING"
        /\ recovery'[n] = NoRecovery /\ recovery[n].kind # "none"
    BY <1>10 DEF Serves
  <2>2. OneAway' /\ Listed'
    BY <2>1 DEF Only, Calm, OneAway, Listed, Serving
  <2>3. RecoveryOK'
    BY <2>1, NoRecoveryIs DEF Only, Calm, RecoveryOK
  <2>4. \A w \in Writers : write'[w].pc # "sending"
    BY <2>1 DEF Only, Calm, RecoveryOK, Apart
  <2>5. Apart' /\ TermOK'
    BY <2>4 DEF Apart, TermOK
  <2> QED BY <2>2, <2>3, <2>5 DEF Calm
<1> QED
  BY <1>1, <1>3, <1>4, <1>5, <1>7, <1>8, <1>9, <1>10

LEMMA CalmStep ==
  ASSUME BaseInv, Calm, faults = {}, [Next]_vars
  PROVE  Calm'
<1>1. CASE UNCHANGED vars
  BY <1>1 DEF vars, Calm, OneAway, Listed, RecoveryOK, Apart, TermOK, Serving
<1> QED
  BY <1>1, CalmCoordinator, CalmReplica, StepCases DEF Next

(* Compaction points never go back. *)
LEMMA CompactedGrows ==
  ASSUME BaseInv, [Next]_vars, NEW n \in Nodes
  PROVE  node'[n].compacted \in Nat /\ node[n].compacted \in Nat /\ node'[n].compacted >= node[n].compacted
<1>0. \A m \in Nodes : LogOK(node[m]) /\ node[m].compacted \in Nat
  BY BaseNode, NodeFields
<1>a. node'[n].compacted \in Nat
  <2>1. node'[n] \in NodeStates
    BY BaseStep DEF BaseInv, TypeOK
  <2> QED BY <2>1, NodeFields
<1>1. CASE UNCHANGED vars
  BY <1>0, <1>1 DEF vars
<1>2. CASE CoordinatorStep
  <2>1. PICK w \in Writers : \/ Begins(w)
                             \/ \E m \in Nodes, ok \in {0, 1} : Delivers(w, m, ok)
                             \/ \E m \in Nodes : Fails(w, m)
                             \/ Ends(w)
    BY <1>2 DEF CoordinatorStep
  <2>2. CASE node' = node
    BY <1>0, <2>2
  <2>3. CASE \E m \in Nodes, ok \in {0, 1} : Delivers(w, m, ok)
    BY <1>0, <1>a, <2>3, DeliversState
  <2> QED BY <2>1, <2>2, <2>3 DEF Begins, Fails, Ends
<1>3. CASE ReplicaStep
  <2>1. PICK p \in Nodes : \/ Crashes(p) \/ Expires(p) \/ Recovers(p)
                           \/ \E m \in Nodes : Fetches(p, m)
                           \/ \E m \in Nodes : Skips(p, m)
                           \/ \E e \in PeerEntries : Takes(p, e)
                           \/ Serves(p)
    BY <1>3 DEF ReplicaStep
  <2>2. SUFFICES Only(p) /\ node'[p].compacted >= node[p].compacted
    BY <1>0, <1>a DEF Only
  <2>a. LogOK(node[p]) /\ node[p].compacted \in Nat
    BY <1>0
  <2>3. CASE Crashes(p) \/ Recovers(p)
    <3>1. Only(p) /\ node'[p].compacted = node[p].compacted
      BY <2>3 DEF Crashes, Recovers, SameFiles
    <3> QED BY <2>a, <3>1
  <2>4. CASE Expires(p) \/ \E m \in Nodes : Skips(p, m)
    <3>1. Only(p) /\ node'[p].compacted = node[p].compacted
      BY <2>4 DEF Expires, Skips
    <3> QED BY <2>a, <3>1
  <2>5. CASE \E m \in Nodes : Fetches(p, m)
    <3>1. PICK m \in Nodes : Fetches(p, m)
      BY <2>5
    <3>2. installPeerSnapshotIfNewer(node[p], node[m]).compacted >= node[p].compacted
      BY <1>0, KeepState
    <3> QED BY <3>1, <3>2 DEF Fetches
  <2>6. CASE \E e \in PeerEntries : Takes(p, e)
    <3>1. PICK e \in PeerEntries : Takes(p, e)
      BY <2>6
    <3>2. e.requestId \in RequestIds /\ e.sequence \in Nat
      BY DEF PeerEntries
    <3>3. node'[p].compacted = node[p].compacted
      BY <1>0, <3>1, <3>2, KeepState DEF Takes
    <3>4. Only(p)
      BY <3>1 DEF Takes
    <3> QED BY <2>a, <3>3, <3>4
  <2>7. CASE Serves(p)
    <3>1. maybeSnapshot(node[p]).compacted >= node[p].compacted
      BY <1>0, KeepState
    <3>2. node'[p].compacted >= node[p].compacted
      BY <1>0, <2>7, <3>1 DEF Serves, SameFiles
    <3>3. Only(p)
      BY <2>7 DEF Serves
    <3> QED BY <3>2, <3>3
  <2> QED BY <2>1, <2>3, <2>4, <2>5, <2>6, <2>7
<1> QED
  BY <1>0, <1>a, <1>1, <1>2, <1>3, StepCases DEF Next

(* A peer's snapshot has a compaction point. *)
InstalledInv == \A n \in installed : node[n].compacted > 0

LEMMA InstalledStep ==
  ASSUME BaseInv, InstalledInv, [Next]_vars
  PROVE  InstalledInv'
<1>0. installed \subseteq Nodes /\ installed' \subseteq Nodes
  BY BaseStep DEF BaseInv, TypeOK
<1>1. SUFFICES ASSUME NEW n \in Nodes, n \in installed' PROVE node'[n].compacted > 0
  BY <1>0 DEF InstalledInv
<1>2. node'[n].compacted \in Nat /\ node[n].compacted \in Nat /\ node'[n].compacted >= node[n].compacted
  BY CompactedGrows
<1>3. CASE n \in installed
  BY <1>2, <1>3 DEF InstalledInv
<1>4. CASE n \notin installed
  <2>1. ReplicaStep
    <3>1. ~UNCHANGED vars
      BY <1>1, <1>4 DEF vars
    <3>2. ~CoordinatorStep
      BY <1>1, <1>4 DEF CoordinatorStep, Begins, Delivers, Fails, Answers, Ends
    <3> QED BY <3>1, <3>2, StepCases DEF Next
  <2>2. PICK p \in Nodes : \/ Crashes(p) \/ Expires(p) \/ Recovers(p)
                           \/ \E m \in Nodes : Fetches(p, m)
                           \/ \E m \in Nodes : Skips(p, m)
                           \/ \E e \in PeerEntries : Takes(p, e)
                           \/ Serves(p)
    BY <2>1 DEF ReplicaStep
  <2>3. PICK m \in Nodes : Fetches(p, m)
    BY <1>1, <1>4, <2>2 DEF Crashes, Expires, Recovers, Skips, Takes, Serves
  <2>4. p = n /\ node[m].compacted > node[n].compacted
    BY <1>1, <1>4, <2>3 DEF Fetches
  <2>5. node[n] \in NodeStates /\ node[m] \in NodeStates
    BY BaseNode
  <2>6. node[m].compacted \in Nat
    BY <2>5, NodeFields
  <2>7. ~(node[m].compacted <= node[n].compacted)
    BY <1>2, <2>4, <2>6
  <2>8. node'[n].compacted = node[m].compacted
    BY <2>3, <2>4, <2>5, <2>7, InstallIs DEF Fetches, Installed
  <2> QED BY <1>2, <2>4, <2>6, <2>8
<1> QED
  BY <1>3, <1>4

Done == committed \cup created

(* A replica that serves is still to be asked or has executed the request. *)
Reached ==
  \A w \in Writers, n \in Nodes :
      write[w].pc = "sending" /\ Serving(n) => n \in write[w].todo \/ write[w].id \in Executed(node[n])

Somewhere == \A x \in Done : \E m \in Nodes : x \in Executed(node[m])

(* What node n misses is in what is left of the answer. *)
Pending(n) ==
  \A x \in Done : \/ x \in Executed(node[n])
                  \/ \E i \in 1 .. Len(recovery[n].entries) :
                        recovery[n].entries[i].requestId = x /\ ~recovery[n].entries[i].known

Unasked(n) == recovery[n].todo = Nodes \ {n} /\ recovery[n].entries = <<>>

CatchesUp == \A n \in Nodes : node[n].state = "RECOVERING" => Unasked(n) \/ Pending(n)

Complete == Reached /\ ServingHasCommitted /\ Somewhere /\ CatchesUp

(* All peers of a node that recovers serve, and answer. *)
LEMMA PeersServe ==
  ASSUME Calm, NEW n \in Nodes, recovery[n].kind # "none"
  PROVE  \A m \in Nodes \ {n} : Serving(m) /\ registered[m] # "GONE" /\ HttpUp(m)
BY DEF Calm, RecoveryOK, OneAway, Listed, Serving, HttpUp

LEMMA CompleteInit == ASSUME Init PROVE Complete
<1>1. \A n \in Nodes : node[n].state = "SERVING"
  BY DEF Init, EmptyNode
<1>2. \A w \in Writers : write[w].pc = "idle"
  BY DEF Init, NoWrite
<1>3. committed = {} /\ created = {}
  BY DEF Init
<1> QED
  BY <1>1, <1>2, <1>3 DEF Complete, Reached, ServingHasCommitted, Somewhere, CatchesUp, Done

LEMMA CompleteCoordinator ==
  ASSUME BaseInv, LogInv, Calm, faults = {}, CoordinatorStep, Complete, CountInv,
         installed' = {}, KeepsAll
  PROVE  Complete'
<1>0. \A n \in Nodes : Executed(node[n]) \subseteq Executed(node'[n])
  BY DEF KeepsAll
<1>1. PICK w \in Writers : \/ Begins(w)
                           \/ \E n \in Nodes, ok \in {0, 1} : Delivers(w, n, ok)
                           \/ \E n \in Nodes : Fails(w, n)
                           \/ Ends(w)
  BY DEF CoordinatorStep
<1>2. ASSUME committed' = committed, created' = created, recovery' = recovery,
             \A n \in Nodes : node'[n].state = node[n].state
      PROVE  ServingHasCommitted' /\ Somewhere' /\ CatchesUp'
  <2>1. ServingHasCommitted'
    BY <1>0, <1>2 DEF Complete, ServingHasCommitted
  <2>2. Somewhere'
    BY <1>0, <1>2 DEF Complete, Somewhere, Done
  <2>3. CatchesUp'
    BY <1>0, <1>2 DEF Complete, CatchesUp, Unasked, Pending, Done
  <2> QED BY <2>1, <2>2, <2>3
<1>3. CASE Begins(w)
  <2>1. ServingHasCommitted' /\ Somewhere' /\ CatchesUp'
    BY <1>2, <1>3 DEF Begins
  <2>2. \A n \in Nodes : Serving(n) => n \in write'[w].todo
    BY <1>3 DEF Begins, Calm, Listed, ServingNodes
  <2>3. Reached'
    BY <1>3, <2>2 DEF Begins, Complete, Reached, Serving
  <2> QED BY <2>1, <2>3 DEF Complete
<1>4. ASSUME NEW n \in Nodes, NEW ok \in {0, 1}, Answers(w, n, ok),
             \A m \in Nodes : node'[m].state = node[m].state,
             Serving(n) => write[w].id \in Executed(node'[n])
      PROVE  Complete'
  <2>1. ServingHasCommitted' /\ Somewhere' /\ CatchesUp'
    BY <1>2, <1>4 DEF Answers
  <2>2. Reached'
    BY <1>0, <1>4 DEF Answers, Complete, Reached, Serving
  <2> QED BY <2>1, <2>2 DEF Complete
<1>5. CASE \E n \in Nodes, ok \in {0, 1} : Delivers(w, n, ok)
  <2>1. PICK n \in Nodes, ok \in {0, 1} : Delivers(w, n, ok)
    BY <1>5
  <2>2. Answers(w, n, ok) /\ \A m \in Nodes : node'[m].state = node[m].state
    BY <2>1, DeliversState DEF Delivers
  <2>3. write[w].id \in Executed(node'[n])
    BY <2>1, DeliversOwn
  <2> QED BY <1>4, <2>2, <2>3
<1>6. CASE \E n \in Nodes : Fails(w, n)
  <2>1. PICK n \in Nodes : Fails(w, n)
    BY <1>6
  <2>2. Answers(w, n, 0) /\ node' = node /\ write[w].pc = "sending"
    BY <2>1 DEF Fails, Answers
  <2>3. ~Serving(n)
    BY <2>1, <2>2, NotStale DEF Fails, HttpUp, Serving
  <2> QED BY <1>4, <2>2, <2>3
<1>7. CASE Ends(w)
  <2>1. /\ node' = node /\ write[w].todo = {} /\ write[w].pc = "sending" /\ recovery' = recovery
        /\ write'[w].pc = "idle" /\ \A v \in Writers \ {w} : write'[v] = write[v]
        /\ Done' \subseteq Done \cup {write[w].id}
        /\ (Done' = Done \/ write[w].oks >= write[w].quorum)
    BY <1>7 DEF Ends, Done
  <2>2. \A n \in Nodes : Serving(n) => write[w].id \in Executed(node[n])
    BY <2>1 DEF Complete, Reached
  <2>3. ServingHasCommitted'
    BY <2>1, <2>2 DEF Complete, ServingHasCommitted, Serving, Done
  <2>4. Reached'
    BY <2>1 DEF Complete, Reached, Serving
  <2>5. CatchesUp'
    BY <2>1 DEF Calm, Apart, CatchesUp
  <2>6. Somewhere'
    <3>1. CASE Done' = Done
      BY <2>1, <3>1 DEF Complete, Somewhere
    <3>2. CASE write[w].oks >= write[w].quorum
      <4>1. PICK H : H = Holders(Nodes \ write[w].todo, write[w].id)
        OBVIOUS
      <4>2. write[w].oks <= Cardinality(H)
        BY <2>1, <4>1 DEF CountInv
      <4>3. write[w].oks \in Nat /\ write[w].quorum \in Nat /\ write[w].quorum # 0
        BY <2>1 DEF BaseInv, TypeOK, Writes, WritesOK
      <4>4. H # {}
        <5> SUFFICES ASSUME H = {} PROVE FALSE
          OBVIOUS
        <5>1. Cardinality(H) = 0
          BY FS_EmptySet
        <5> QED BY <3>2, <4>2, <4>3, <5>1
      <4>5. PICK m \in Nodes : write[w].id \in Executed(node[m])
        BY <4>1, <4>4 DEF Holders
      <4> QED BY <2>1, <4>5 DEF Complete, Somewhere
    <3> QED BY <2>1, <3>1, <3>2
  <2> QED BY <2>3, <2>4, <2>5, <2>6 DEF Complete
<1> QED
  BY <1>1, <1>3, <1>5, <1>6, <1>7

LEMMA InTheLog ==
  ASSUME NEW nd, LogOK(nd), nd.compacted = 0, NEW x \in Executed(nd)
  PROVE  \E i \in 1 .. Len(nd.wal) : nd.wal[i].requestId = x
<1>1. nd.snap = <<>> /\ Len(nd.snap) = 0
  BY EmptySeq DEF LogOK
<1>2. \A y : y \notin {nd.snap[i] : i \in 1 .. Len(nd.snap)}
  BY <1>1
<1>3. x \in {nd.wal[i].requestId : i \in {j \in 1 .. Len(nd.wal) : nd.wal[j].sequence > nd.compacted}}
  BY <1>2, ExecutedIs
<1> QED
  BY <1>3

LEMMA CompleteReplica ==
  ASSUME BaseInv, LogInv, Calm, faults = {}, ReplicaStep, Complete, NoSnapshots,
         installed = {}, installed' = {}, KeepsAll
  PROVE  Complete'
<1>0. \A n \in Nodes : Executed(node[n]) \subseteq Executed(node'[n])
  BY DEF KeepsAll
<1>1. PICK n \in Nodes : \/ Crashes(n) \/ Expires(n) \/ Recovers(n)
                         \/ \E m \in Nodes : Fetches(n, m)
                         \/ \E m \in Nodes : Skips(n, m)
                         \/ \E e \in PeerEntries : Takes(n, e)
                         \/ Serves(n)
  BY DEF ReplicaStep
<1>a. LogOK(node[n]) /\ OwnFiles(node[n]) /\ KnownIds(node[n]) = node[n].ids
  BY BaseNode, KnownIdsIs DEF LogInv
<1>b. Only(n)
  BY <1>1 DEF Crashes, Expires, Recovers, Fetches, Skips, Takes, Serves
<1>c. Done' = Done /\ write' = write
  BY <1>b DEF Only, Done
<1>d. Somewhere'
  BY <1>0, <1>c DEF Complete, Somewhere
<1>e. ASSUME node'[n].state # "SERVING" \/ Serving(n)
      PROVE  Reached' /\ ServingHasCommitted'
  <2>1. \A m \in Nodes : node'[m].state = "SERVING" => Serving(m)
    BY <1>b, <1>e DEF Only, Serving
  <2>2. Reached'
    BY <1>0, <1>c, <2>1 DEF Complete, Reached, Serving
  <2>3. ServingHasCommitted'
    BY <1>0, <1>c, <2>1 DEF Complete, ServingHasCommitted, Serving, Done
  <2> QED BY <2>2, <2>3
<1>f. ASSUME node'[n].state = "RECOVERING" => Unasked(n)' \/ Pending(n)'
      PROVE  CatchesUp'
  <2>1. ASSUME NEW m \in Nodes \ {n}, node'[m].state = "RECOVERING"
        PROVE  Unasked(m)' \/ Pending(m)'
    <3>1. recovery'[m] = recovery[m] /\ node'[m] = node[m] /\ (Unasked(m) \/ Pending(m))
      BY <1>b, <2>1 DEF Only, Complete, CatchesUp
    <3> QED BY <1>c, <3>1 DEF Unasked, Pending
  <2> QED BY <1>f, <2>1 DEF CatchesUp
<1>g. recovery[n].kind = "none" => recovery[n].todo = {} /\ recovery[n].entries = <<>>
  BY DEF Calm, RecoveryOK
<1>3. CASE Crashes(n)
  BY <1>3, <1>d, <1>e, <1>f DEF Crashes, Complete
<1>4. CASE Expires(n)
  <2>1. node' = node /\ recovery' = recovery /\ node[n].state = "DOWN"
    BY <1>4 DEF Expires
  <2> QED BY <2>1, <1>d, <1>e, <1>f DEF Complete
<1>5. CASE Recovers(n)
  <2>1. /\ node'[n].state = "RECOVERING" /\ recovery'[n].entries = <<>>
        /\ recovery'[n].todo = {m \in Nodes \ {n} : registered[m] # "GONE"}
        /\ node[n].state = "DOWN" \/ \A m \in Nodes : node[m].state = "SERVING"
    BY <1>5 DEF Recovers
  <2>2. \A m \in Nodes \ {n} : registered[m] = "SERVING"
    BY <2>1 DEF Calm, OneAway, Listed, Serving
  <2>3. Unasked(n)'
    BY <2>1, <2>2 DEF Unasked
  <2> QED BY <2>1, <2>3, <1>d, <1>e, <1>f DEF Complete
<1>7. CASE \E m \in Nodes : Fetches(n, m)
  <2>1. PICK m \in Nodes : Fetches(n, m)
    BY <1>7
  <2>2. m # n /\ recovery[n].kind # "none"
    BY <1>g, <2>1 DEF Fetches, Calm, RecoveryOK
  <2>3. Serving(m) /\ LogOK(node[m]) /\ node[m].compacted = 0 /\ node[n].compacted = 0
    BY <2>2, PeersServe, BaseNode DEF NoSnapshots
  <2>4. node'[n] = node[n]
    <3>1. node[m].compacted <= node[n].compacted
      BY <2>3
    <3> QED BY <1>a, <2>1, <2>3, <3>1, InstallIs DEF Fetches, LogOK
  <2>5. PICK es : es = recovery'[n].entries
    OBVIOUS
  <2>6. OfferedFrom(node[n], node[m], es)
    BY <2>1, <2>5 DEF Fetches
  <2>7. ASSUME NEW x \in Done
        PROVE  x \in Executed(node[n]) \/ \E i \in 1 .. Len(es) : es[i].requestId = x /\ ~es[i].known
    <3>1. x \in Executed(node[m])
      BY <2>3, <2>7 DEF Complete, ServingHasCommitted, Serving, Done
    <3>2. PICK i \in 1 .. Len(node[m].wal) : node[m].wal[i].requestId = x
      BY <2>3, <3>1, InTheLog
    <3>3. i \in 1 .. Len(es) /\ es[i].requestId = x /\ (es[i].known <=> x \in KnownIds(node[n]))
      BY <2>6, <3>2 DEF OfferedFrom
    <3>4. x \in KnownIds(node[n]) => x \in Executed(node[n])
      BY <1>a DEF OwnFiles
    <3> QED BY <3>3, <3>4
  <2>8. Pending(n)'
    BY <1>c, <2>4, <2>5, <2>7 DEF Pending
  <2>9. node[n].state = "RECOVERING"
    BY <2>2 DEF Calm, RecoveryOK
  <2> QED BY <2>4, <2>8, <2>9, <1>d, <1>e, <1>f DEF Complete
<1>8. CASE \E m \in Nodes : Skips(n, m)
  <2>1. PICK m \in Nodes : Skips(n, m)
    BY <1>8
  <2>2. m # n /\ recovery[n].kind # "none" /\ ~HttpUp(m)
    BY <1>g, <2>1 DEF Skips, Calm, RecoveryOK
  <2> QED BY <2>2, PeersServe
<1>9. CASE \E e \in PeerEntries : Takes(n, e)
  <2>1. PICK e \in PeerEntries : Takes(n, e)
    BY <1>9
  <2>2. e.requestId \in RequestIds /\ e.sequence \in Nat
    BY DEF PeerEntries
  <2>3. recovery[n].kind # "none" /\ node'[n].state = node[n].state
    BY <1>a, <1>g, <2>1, <2>2, KeepState DEF Takes
  <2>4. node[n].state = "RECOVERING"
    BY <2>3 DEF Calm, RecoveryOK
  <2>5. Pending(n)
    BY <2>1, <2>4 DEF Takes, Complete, CatchesUp, Unasked
  <2>6. PICK es : es = recovery[n].entries
    OBVIOUS
  <2>7. PICK fs : fs = recovery'[n].entries
    OBVIOUS
  <2>8. Len(es) \in Nat \ {0} /\ Len(fs) = Len(es) - 1 /\ e = es[1]
        /\ \A i \in 1 .. Len(es) - 1 : fs[i] = es[i + 1]
    BY <2>1, <2>6, <2>7 DEF Takes
  <2>9. ~e.known => e.requestId \in Executed(node'[n])
    BY <1>a, <2>1, <2>2, LoggedOwn DEF Takes
  <2>10. ASSUME NEW x \in Done
         PROVE  x \in Executed(node'[n]) \/ \E i \in 1 .. Len(fs) : fs[i].requestId = x /\ ~fs[i].known
    <3>1. CASE x \in Executed(node[n])
      BY <1>0, <3>1
    <3>2. CASE x \notin Executed(node[n])
      <4>1. PICK i \in 1 .. Len(es) : es[i].requestId = x /\ ~es[i].known
        BY <2>5, <2>6, <3>2 DEF Pending
      <4>2. CASE i = 1
        BY <2>8, <2>9, <4>1, <4>2
      <4>3. CASE i # 1
        <5>1. PICK j : j = i - 1
          OBVIOUS
        <5>2. j \in 1 .. Len(es) - 1 /\ j + 1 = i /\ j \in 1 .. Len(fs)
          BY <2>8, <4>3, <5>1
        <5>3. fs[j] = es[i]
          BY <2>8, <5>2
        <5> QED BY <4>1, <5>2, <5>3
      <4> QED BY <4>2, <4>3
    <3> QED BY <3>1, <3>2
  <2>11. Pending(n)'
    BY <1>c, <2>7, <2>10 DEF Pending
  <2> QED BY <2>3, <2>4, <2>11, <1>d, <1>e, <1>f DEF Complete
<1>10. CASE Serves(n)
  <2>1. /\ recovery[n].kind # "none" /\ recovery[n].todo = {} /\ recovery[n].entries = <<>>
        /\ node'[n].state = "SERVING"
    BY <1>10 DEF Serves
  <2>2. node[n].state = "RECOVERING" /\ Len(recovery[n].entries) = 0
    BY <2>1, EmptySeq DEF Calm, RecoveryOK
  <2>3. Done \subseteq Executed(node[n])
    <3>1. CASE Unasked(n)
      <4>1. \A m \in Nodes : m = n
        BY <2>1, <3>1 DEF Unasked
      <4> QED BY <4>1 DEF Complete, Somewhere
    <3>2. CASE Pending(n)
      BY <2>2, <3>2 DEF Pending
    <3> QED BY <2>2, <3>1, <3>2 DEF Complete, CatchesUp
  <2>4. \A w \in Writers : write[w].pc # "sending"
    BY <2>2 DEF Calm, Apart
  <2>5. Reached'
    BY <1>c, <2>4 DEF Reached
  <2>6. \A m \in Nodes : node'[m].state = "SERVING" => Done \subseteq Executed(node'[m])
    <3>1. \A m \in Nodes \ {n} : node'[m].state = "SERVING" => Done \subseteq Executed(node'[m])
      BY <1>b DEF Only, Complete, ServingHasCommitted, Done
    <3>2. Done \subseteq Executed(node'[n])
      BY <1>0, <2>3
    <3> QED BY <3>1, <3>2
  <2>7. ServingHasCommitted'
    BY <1>c, <2>6 DEF ServingHasCommitted, Done
  <2>8. CatchesUp'
    BY <2>1, <1>f
  <2> QED BY <2>5, <2>7, <2>8, <1>d DEF Complete
<1> QED
  BY <1>1, <1>3, <1>4, <1>5, <1>7, <1>8, <1>9, <1>10

CompleteInv ==
  /\ SurvivesInv /\ InstalledInv
  /\ faults = {} => Calm
  /\ faults = {} /\ NoSnapshots => Complete

LEMMA CompleteInvInit == ASSUME Init PROVE CompleteInv
<1>1. InstalledInv
  BY DEF Init, InstalledInv
<1> QED
  BY <1>1, SurvivesInit, CalmInit, CompleteInit DEF CompleteInv

LEMMA FaultsFixed ==
  ASSUME [Next]_vars
  PROVE  faults' = faults
BY DEF Next, vars

LEMMA CompleteInvStep ==
  ASSUME CompleteInv, [Next]_vars
  PROVE  CompleteInv'
<1>1. BaseInv /\ LogInv /\ InstalledInv /\ SurvivesInv' /\ InstalledInv' /\ KeepsAll /\ faults' = faults
  BY SurvivesStep, InstalledStep, AllKept, FaultsFixed DEF CompleteInv, SurvivesInv
<1>2. faults' = {} => Calm'
  BY <1>1, CalmStep DEF CompleteInv
<1>3. ASSUME faults' = {}, NoSnapshots' PROVE Complete'
  <2>1. NoSnapshots
    <3>1. \A n \in Nodes : node'[n].compacted = 0
      BY <1>3 DEF NoSnapshots
    <3>2. ASSUME NEW n \in Nodes PROVE node[n].compacted = 0
      BY <1>1, <3>1, CompactedGrows
    <3> QED BY <3>2 DEF NoSnapshots
  <2>2. installed \subseteq Nodes /\ installed' \subseteq Nodes
    BY <1>1, BaseStep DEF BaseInv, TypeOK
  <2>3. installed = {}
    BY <1>1, <2>1, <2>2 DEF InstalledInv, NoSnapshots
  <2>4. installed' = {}
    BY <1>1, <1>3, <2>2 DEF InstalledInv, NoSnapshots
  <2>5. Calm /\ Complete /\ CountInv /\ faults = {}
    BY <1>1, <1>3, <2>1, <2>3 DEF CompleteInv, SurvivesInv
  <2>6. CASE UNCHANGED vars
    BY <2>5, <2>6 DEF vars, Complete, Reached, ServingHasCommitted, Somewhere, CatchesUp,
                      Unasked, Pending, Done, Serving
  <2>7. CASE CoordinatorStep
    BY <1>1, <2>4, <2>5, <2>7, CompleteCoordinator
  <2>8. CASE ReplicaStep
    BY <1>1, <2>1, <2>3, <2>4, <2>5, <2>8, CompleteReplica
  <2> QED BY <1>1, <2>6, <2>7, <2>8, StepCases DEF Next
<1> QED
  BY <1>1, <1>2, <1>3 DEF CompleteInv

-----------------------------------------------------------------------------
(* One writer at a time: all logs follow one history                       *)
(*                                                                         *)
(* h is the sequence of all requests that a node executed, in the order of *)
(* their first execution, and k[j] the compaction point of a node whose    *)
(* last sequence is j.                                                     *)

Points(k, N) ==
  /\ k \in [0 .. N -> Nat] /\ k[0] = 0
  /\ \A j \in 0 .. N : k[j] <= j /\ j - k[j] < SnapshotThreshold
  /\ \A j \in 0 .. N - 1 :
        k[j + 1] = IF (j + 1) - k[j] < SnapshotThreshold THEN k[j] ELSE j + 1
  /\ \A i, j \in 0 .. N : i <= j => k[j] = k[i] \/ i < k[j]

Injective(h) == \A i, j \in 1 .. Len(h) : h[i] = h[j] => i = j

(* Running c executes the first L requests of h in their order; what it    *)
(* repeats it has executed before. *)
Replays(c, h, L) ==
  /\ \A p \in 1 .. Len(c) : \E j \in 1 .. L :
        c[p] = h[j] /\ \A i \in 1 .. j - 1 : \E q \in 1 .. p - 1 : c[q] = h[i]
  /\ \A j \in 1 .. L : \E p \in 1 .. Len(c) : c[p] = h[j]

(* Node nd has the first last requests of the history: those above its     *)
(* compaction point in its log, the others in its snapshot. *)
Tracks(nd, h) ==
  /\ nd.last <= Len(h)
  /\ \A i \in 1 .. Len(nd.wal) : nd.wal[i].requestId = h[nd.wal[i].sequence]
  /\ \A j \in nd.compacted + 1 .. nd.last : \E i \in 1 .. Len(nd.wal) : nd.wal[i].sequence = j
  /\ Replays(nd.snap, h, nd.compacted)
  /\ \A x \in nd.ids : \E j \in 1 .. nd.last : x = h[j]

Follows(nd, h, k) == Tracks(nd, h) /\ nd.compacted = k[nd.last]

LEMMA PointsStart == \E k : Points(k, 0)
<1>1. PICK k : k = [j \in 0 .. 0 |-> 0]
  OBVIOUS
<1>2. \A j \in 0 .. 0 : j = 0 /\ k[j] = 0
  BY <1>1
<1>3. k \in [0 .. 0 -> Nat]
  BY <1>1
<1>4. \A j \in 0 .. 0 - 1 : FALSE
  OBVIOUS
<1>5. SnapshotThreshold \in Nat \ {0} /\ 0 \in 0 .. 0
  BY ClusterAssumption
<1> QED
  BY <1>2, <1>3, <1>4, <1>5 DEF Points

LEMMA PointsExtend ==
  ASSUME NEW N \in Nat, NEW k, Points(k, N)
  PROVE  \E k2 : Points(k2, N + 1) /\ \A j \in 0 .. N : k2[j] = k[j]
<1>1. SnapshotThreshold \in Nat \ {0}
  BY ClusterAssumption
<1>2. PICK z : z = IF (N + 1) - k[N] < SnapshotThreshold THEN k[N] ELSE N + 1
  OBVIOUS
<1>3. /\ k \in [0 .. N -> Nat] /\ k[0] = 0
      /\ \A j \in 0 .. N : k[j] \in Nat /\ k[j] <= j /\ j - k[j] < SnapshotThreshold
      /\ \A j \in 0 .. N - 1 : k[j + 1] = IF (j + 1) - k[j] < SnapshotThreshold THEN k[j] ELSE j + 1
      /\ \A i, j \in 0 .. N : i <= j => k[j] = k[i] \/ i < k[j]
  BY DEF Points
<1>4. k[N] \in Nat /\ k[N] <= N
  BY <1>3
<1>5. z \in Nat /\ z <= N + 1 /\ (N + 1) - z < SnapshotThreshold /\ (z = k[N] \/ z = N + 1)
  BY <1>1, <1>2, <1>4
<1>6. PICK k2 : k2 = [j \in 0 .. N + 1 |-> IF j = N + 1 THEN z ELSE k[j]]
  OBVIOUS
<1>7. \A j \in 0 .. N + 1 : j = N + 1 \/ j \in 0 .. N
  OBVIOUS
<1>8. \A j \in 0 .. N : j \in 0 .. N + 1 /\ j # N + 1
  OBVIOUS
<1>9. k2[N + 1] = z /\ \A j \in 0 .. N : k2[j] = k[j]
  BY <1>6, <1>8
<1>10. k2 \in [0 .. N + 1 -> Nat]
  BY <1>3, <1>5, <1>6, <1>7
<1>11. k2[0] = 0
  BY <1>3, <1>9
<1>12. \A j \in 0 .. N + 1 : k2[j] <= j /\ j - k2[j] < SnapshotThreshold
  BY <1>3, <1>5, <1>7, <1>9
<1>13. ASSUME NEW j \in 0 .. (N + 1) - 1
       PROVE  k2[j + 1] = IF (j + 1) - k2[j] < SnapshotThreshold THEN k2[j] ELSE j + 1
  <2>1. j \in 0 .. N
    OBVIOUS
  <2>2. CASE j = N
    BY <1>2, <1>9, <2>1, <2>2
  <2>3. CASE j # N
    <3>1. j \in 0 .. N - 1 /\ j + 1 \in 0 .. N
      BY <2>1, <2>3
    <3> QED BY <1>3, <1>9, <2>1, <3>1
  <2> QED BY <2>2, <2>3
<1>14. ASSUME NEW i \in 0 .. N + 1, NEW j \in 0 .. N + 1, i <= j
       PROVE  k2[j] = k2[i] \/ i < k2[j]
  <2>1. CASE j = N + 1
    <3>1. CASE i = N + 1
      BY <2>1, <3>1
    <3>2. CASE i \in 0 .. N
      <4>1. k[N] = k[i] \/ i < k[N]
        BY <1>3, <3>2
      <4>2. k2[j] = z /\ k2[i] = k[i]
        BY <1>9, <2>1, <3>2
      <4> QED BY <1>5, <3>2, <4>1, <4>2
    <3> QED BY <1>7, <3>1, <3>2
  <2>2. CASE j \in 0 .. N
    <3>1. i \in 0 .. N
      BY <1>14, <2>2
    <3> QED BY <1>3, <1>9, <1>14, <2>2, <3>1
  <2> QED BY <1>7, <2>1, <2>2
<1>15. Points(k2, N + 1)
  BY <1>10, <1>11, <1>12, <1>13, <1>14 DEF Points
<1> QED
  BY <1>9, <1>15

(* After a snapshot of the first C requests, entries in the order of their *)
(* sequences q, the ones above C without a gap. *)
(* t has, in their order and at the places q of h, the requests C + 1 .. L. *)
Places(q, t, h, C, L) ==
  /\ \A i \in 1 .. Len(t) : q[i] \in 1 .. L /\ t[i] = h[q[i]]
  /\ \A i, j \in 1 .. Len(t) : q[i] < q[j] => i < j
  /\ \A j \in C + 1 .. L : \E i \in 1 .. Len(t) : q[i] = j

LEMMA ReplaysConcat ==
  ASSUME NEW c \in Seq(RequestIds), NEW t \in Seq(RequestIds), NEW h, NEW C \in Nat, NEW L \in Nat,
         C <= L, Replays(c, h, C), NEW q, Places(q, t, h, C, L)
  PROVE  Replays(c \o t, h, L)
<1>1. PICK d : d = c \o t
  OBVIOUS
<1>2. PICK N : N = Len(c)
  OBVIOUS
<1>3. PICK M : M = Len(t)
  OBVIOUS
<1>4. /\ N \in Nat /\ M \in Nat /\ Len(d) = N + M
      /\ \A i \in 1 .. N : d[i] = c[i]
      /\ \A i \in 1 .. M : d[N + i] = t[i]
  BY <1>1, <1>2, <1>3, Concats
<1>5. /\ \A p \in 1 .. N : \E j \in 1 .. C :
            c[p] = h[j] /\ \A i \in 1 .. j - 1 : \E r \in 1 .. p - 1 : c[r] = h[i]
      /\ \A j \in 1 .. C : \E p \in 1 .. N : c[p] = h[j]
  BY <1>2 DEF Replays
<1>6. /\ \A i \in 1 .. M : q[i] \in 1 .. L /\ t[i] = h[q[i]]
      /\ \A i, j \in 1 .. M : q[i] < q[j] => i < j
      /\ \A j \in C + 1 .. L : \E i \in 1 .. M : q[i] = j
  BY <1>3 DEF Places
<1>7. ASSUME NEW p \in 1 .. N + M
      PROVE  \E j \in 1 .. L : d[p] = h[j] /\ \A i \in 1 .. j - 1 : \E r \in 1 .. p - 1 : d[r] = h[i]
  <2>1. CASE p \in 1 .. N
    <3>1. PICK j \in 1 .. C : c[p] = h[j] /\ \A i \in 1 .. j - 1 : \E r \in 1 .. p - 1 : c[r] = h[i]
      BY <1>5, <2>1
    <3>2. j \in 1 .. L /\ d[p] = h[j]
      BY <1>4, <2>1, <3>1
    <3>3. \A r \in 1 .. p - 1 : r \in 1 .. N
      BY <1>4, <2>1
    <3>4. ASSUME NEW i \in 1 .. j - 1 PROVE \E r \in 1 .. p - 1 : d[r] = h[i]
      <4>1. PICK r \in 1 .. p - 1 : c[r] = h[i]
        BY <3>1
      <4>2. d[r] = c[r]
        BY <1>4, <3>3
      <4> QED BY <4>1, <4>2
    <3> QED BY <3>2, <3>4
  <2>2. CASE p \notin 1 .. N
    <3>1. PICK a : a = p - N
      OBVIOUS
    <3>2. a \in 1 .. M /\ N + a = p
      BY <1>4, <2>2, <3>1
    <3>3. PICK j : j = q[a]
      OBVIOUS
    <3>4. j \in 1 .. L /\ d[p] = h[j]
      BY <1>4, <1>6, <3>2, <3>3
    <3>5. ASSUME NEW i \in 1 .. j - 1 PROVE \E r \in 1 .. p - 1 : d[r] = h[i]
      <4>1. CASE i \in 1 .. C
        <5>1. PICK r \in 1 .. N : c[r] = h[i]
          BY <1>5, <4>1
        <5>2. r \in 1 .. p - 1
          BY <1>4, <3>2
        <5>3. d[r] = h[i]
          BY <1>4, <5>1
        <5> QED BY <5>2, <5>3
      <4>2. CASE i \notin 1 .. C
        <5>1. i \in C + 1 .. L /\ i < j
          BY <3>4, <4>2
        <5>2. PICK b \in 1 .. M : q[b] = i
          BY <1>6, <5>1
        <5>3. b < a
          BY <1>6, <3>2, <3>3, <5>1, <5>2
        <5>4. N + b \in 1 .. p - 1
          BY <1>4, <3>2, <5>3
        <5>5. d[N + b] = h[i]
          BY <1>4, <1>6, <5>2
        <5> QED BY <5>4, <5>5
      <4> QED BY <4>1, <4>2
    <3> QED BY <3>4, <3>5
  <2> QED BY <2>1, <2>2
<1>8. ASSUME NEW j \in 1 .. L PROVE \E p \in 1 .. N + M : d[p] = h[j]
  <2>1. CASE j \in 1 .. C
    <3>1. PICK p \in 1 .. N : c[p] = h[j]
      BY <1>5, <2>1
    <3>2. p \in 1 .. N + M
      BY <1>4
    <3> QED BY <1>4, <3>1, <3>2
  <2>2. CASE j \notin 1 .. C
    <3>1. j \in C + 1 .. L
      BY <2>2
    <3>2. PICK b \in 1 .. M : q[b] = j
      BY <1>6, <3>1
    <3>3. N + b \in 1 .. N + M
      BY <1>4
    <3>4. d[N + b] = h[j]
      BY <1>4, <1>6, <3>2
    <3> QED BY <3>3, <3>4
  <2> QED BY <2>1, <2>2
<1>9. Replays(d, h, L)
  BY <1>4, <1>7, <1>8 DEF Replays
<1> QED
  BY <1>1, <1>9

LEMMA FreshIs ==
  ASSUME NEW nd, LogOK(nd)
  PROVE  \E t \in Seq(RequestIds) :
            /\ Content(nd) = nd.snap \o t /\ Len(t) = Len(nd.wal) - Covered(nd)
            /\ \A i \in 1 .. Len(t) : t[i] = nd.wal[Covered(nd) + i].requestId
<1>1. nd \in NodeStates
  BY DEF LogOK
<1>2. PICK k : k = Covered(nd)
  OBVIOUS
<1>3. PICK s : s = Sql(nd.wal)
  OBVIOUS
<1>4. PICK N : N = Len(nd.wal)
  OBVIOUS
<1>5. N \in Nat /\ k \in 0 .. N
  BY <1>1, <1>2, <1>4, NodeFields, CoveredIs
<1>6. s \in Seq(RequestIds) /\ Len(s) = N /\ \A i \in 1 .. N : s[i] = nd.wal[i].requestId
  BY <1>1, <1>3, <1>4, SqlIs
<1>7. PICK t : t = SubSeq(s, k + 1, N)
  OBVIOUS
<1>8. t \in Seq(RequestIds) /\ Len(t) = N - k /\ \A i \in 1 .. N - k : t[i] = s[k + i]
  BY <1>5, <1>6, <1>7, SubSeqProperties
<1>9. Content(nd) = nd.snap \o t
  BY <1>2, <1>3, <1>4, <1>7 DEF Content
<1>10. \A i \in 1 .. N - k : k + i \in 1 .. N
  BY <1>5
<1>11. \A i \in 1 .. Len(t) : t[i] = nd.wal[k + i].requestId
  BY <1>6, <1>8, <1>10
<1> QED
  BY <1>2, <1>4, <1>8, <1>9, <1>11

(* What a node executes is the history up to its last sequence. *)
LEMMA TracksContent ==
  ASSUME NEW nd, LogOK(nd), NEW h \in Seq(RequestIds), Tracks(nd, h)
  PROVE  /\ Replays(Content(nd), h, nd.last)
         /\ Executed(nd) = {h[j] : j \in 1 .. nd.last}
<1>1. PICK N : N = Len(nd.wal)
  OBVIOUS
<1>2. PICK v : v = Covered(nd)
  OBVIOUS
<1>3. PICK C : C = nd.compacted
  OBVIOUS
<1>4. PICK L : L = nd.last
  OBVIOUS
<1>5. /\ N \in Nat /\ C \in Nat /\ L \in Nat /\ C <= L /\ nd.snap \in Seq(RequestIds)
      /\ \A i \in 1 .. N : nd.wal[i].sequence \in Nat \ {0} /\ nd.wal[i].sequence <= L
      /\ \A i, j \in 1 .. N : i < j => nd.wal[i].sequence < nd.wal[j].sequence
  BY <1>1, <1>3, <1>4, NodeFields DEF LogOK
<1>6. v \in 0 .. N /\ \A i \in 1 .. N : nd.wal[i].sequence <= C <=> i <= v
  BY <1>1, <1>2, <1>3, CoveredIs
<1>7. PICK t \in Seq(RequestIds) : /\ Content(nd) = nd.snap \o t /\ Len(t) = N - v
                                   /\ \A i \in 1 .. Len(t) : t[i] = nd.wal[v + i].requestId
  BY <1>1, <1>2, FreshIs
<1>8. PICK q : q = [i \in 1 .. N - v |-> nd.wal[v + i].sequence]
  OBVIOUS
<1>9. \A i \in 1 .. N - v : v + i \in 1 .. N
  BY <1>5, <1>6
<1>10. \A i \in 1 .. N - v : q[i] = nd.wal[v + i].sequence
  BY <1>8
<1>11. \A i \in 1 .. Len(t) : q[i] \in 1 .. L /\ t[i] = h[q[i]]
  <2> SUFFICES ASSUME NEW i \in 1 .. N - v PROVE q[i] \in 1 .. L /\ t[i] = h[q[i]]
    BY <1>7
  <2>1. v + i \in 1 .. N /\ q[i] = nd.wal[v + i].sequence
    BY <1>9, <1>10
  <2>2. q[i] \in 1 .. L
    BY <1>5, <2>1
  <2>3. nd.wal[v + i].requestId = h[nd.wal[v + i].sequence]
    BY <1>1, <2>1 DEF Tracks
  <2>4. t[i] = nd.wal[v + i].requestId
    BY <1>7
  <2> QED BY <2>1, <2>2, <2>3, <2>4
<1>12. \A i, j \in 1 .. Len(t) : q[i] < q[j] => i < j
  <2> SUFFICES ASSUME NEW i \in 1 .. N - v, NEW j \in 1 .. N - v, q[i] < q[j], ~(i < j) PROVE FALSE
    BY <1>7
  <2>1. v + i \in 1 .. N /\ v + j \in 1 .. N /\ (v + i = v + j \/ v + j < v + i)
    BY <1>5, <1>6, <1>9
  <2>2. q[i] = nd.wal[v + i].sequence /\ q[j] = nd.wal[v + j].sequence
    BY <1>10
  <2>3. nd.wal[v + i].sequence \in Nat /\ nd.wal[v + j].sequence \in Nat
    BY <1>5, <2>1
  <2>4. CASE v + i = v + j
    BY <2>2, <2>3, <2>4
  <2>5. CASE v + j < v + i
    <3>1. nd.wal[v + j].sequence < nd.wal[v + i].sequence
      BY <1>5, <2>1, <2>5
    <3> QED BY <2>2, <2>3, <3>1
  <2> QED BY <2>1, <2>4, <2>5
<1>13. ASSUME NEW j \in C + 1 .. L PROVE \E i \in 1 .. Len(t) : q[i] = j
  <2>1. PICK a \in 1 .. N : nd.wal[a].sequence = j
    BY <1>1, <1>3, <1>4 DEF Tracks
  <2>2. ~(a <= v)
    <3>1. ~(nd.wal[a].sequence <= C)
      BY <1>5, <2>1
    <3> QED BY <1>6, <3>1
  <2>3. PICK i : i = a - v
    OBVIOUS
  <2>4. i \in 1 .. N - v /\ v + i = a
    BY <1>5, <1>6, <2>2, <2>3
  <2>5. q[i] = j
    BY <1>10, <2>1, <2>4
  <2> QED BY <1>7, <2>4, <2>5
<1>14. Replays(nd.snap, h, C)
  BY <1>3 DEF Tracks
<1>15. PICK a : a = nd.snap
  OBVIOUS
<1>16. a \in Seq(RequestIds) /\ Replays(a, h, C)
  BY <1>5, <1>14, <1>15
<1>17. Replays(a \o t, h, L)
  <2>1. Places(q, t, h, C, L)
    BY <1>11, <1>12, <1>13 DEF Places
  <2>2. C \in Nat /\ L \in Nat /\ C <= L
    BY <1>5
  <2> QED BY <1>16, <2>1, <2>2, ReplaysConcat
<1>18. PICK c : c = Content(nd)
  OBVIOUS
<1>19. Replays(c, h, L) /\ c \in Seq(RequestIds)
  BY <1>7, <1>15, <1>17, <1>18, ContentIs
<1>20. DOMAIN c = 1 .. Len(c)
  BY <1>19, LenProperties
<1>21. Executed(nd) = {c[i] : i \in 1 .. Len(c)}
  BY <1>18, <1>20 DEF Executed, Elements
<1>22. {c[i] : i \in 1 .. Len(c)} = {h[j] : j \in 1 .. L}
  <2>1. \A i \in 1 .. Len(c) : \E j \in 1 .. L : c[i] = h[j]
    BY <1>19 DEF Replays
  <2>2. \A j \in 1 .. L : \E i \in 1 .. Len(c) : c[i] = h[j]
    BY <1>19 DEF Replays
  <2>3. \A x \in {c[i] : i \in 1 .. Len(c)} : x \in {h[j] : j \in 1 .. L}
    BY <2>1
  <2>4. \A x \in {h[j] : j \in 1 .. L} : x \in {c[i] : i \in 1 .. Len(c)}
    BY <2>2
  <2> QED BY <2>3, <2>4
<1> QED
  BY <1>4, <1>18, <1>19, <1>21, <1>22

LEMMA SnapshotTracks ==
  ASSUME NEW nd, LogOK(nd), NEW h, Tracks(nd, h), NEW r, OwnSnapshot(nd, r)
  PROVE  Tracks(r, h)
<1>1. PICK N : N = Len(nd.wal)
  OBVIOUS
<1>2. PICK C : C = nd.compacted
  OBVIOUS
<1>3. PICK L : L = nd.last
  OBVIOUS
<1>4. /\ N \in Nat /\ C \in Nat /\ L \in Nat /\ C <= L /\ nd.snap \in Seq(RequestIds)
      /\ \A i \in 1 .. N : nd.wal[i].sequence \in Nat \ {0} /\ nd.wal[i].sequence <= L
      /\ \A i, j \in 1 .. N : i < j => nd.wal[i].sequence < nd.wal[j].sequence
  BY <1>1, <1>2, <1>3, NodeFields DEF LogOK
<1>5. PICK t : t = Sql(nd.wal)
  OBVIOUS
<1>6. t \in Seq(RequestIds) /\ Len(t) = N /\ \A i \in 1 .. N : t[i] = nd.wal[i].requestId
  BY <1>1, <1>5, SqlIs DEF LogOK
<1>7. PICK q : q = [i \in 1 .. N |-> nd.wal[i].sequence]
  OBVIOUS
<1>8. \A i \in 1 .. N : q[i] = nd.wal[i].sequence
  BY <1>7
<1>9. \A i \in 1 .. Len(t) : q[i] \in 1 .. L /\ t[i] = h[q[i]]
  <2>1. \A i \in 1 .. N : nd.wal[i].requestId = h[nd.wal[i].sequence]
    BY <1>1 DEF Tracks
  <2>2. \A i \in 1 .. N : nd.wal[i].sequence \in 1 .. L
    BY <1>4
  <2> QED BY <1>6, <1>8, <2>1, <2>2
<1>10. \A i, j \in 1 .. Len(t) : q[i] < q[j] => i < j
  <2> SUFFICES ASSUME NEW i \in 1 .. N, NEW j \in 1 .. N, q[i] < q[j], ~(i < j) PROVE FALSE
    BY <1>6
  <2>1. nd.wal[i].sequence \in Nat /\ nd.wal[j].sequence \in Nat /\ (i = j \/ j < i)
    BY <1>4
  <2>2. nd.wal[i].sequence < nd.wal[j].sequence
    BY <1>8
  <2>3. CASE i = j
    BY <2>1, <2>2, <2>3
  <2>4. CASE j < i
    <3>1. nd.wal[j].sequence < nd.wal[i].sequence
      BY <1>4, <2>4
    <3> QED BY <2>1, <2>2, <3>1
  <2> QED BY <2>1, <2>3, <2>4
<1>11. \A j \in C + 1 .. L : \E i \in 1 .. Len(t) : q[i] = j
  BY <1>1, <1>2, <1>3, <1>6, <1>8 DEF Tracks
<1>12. PICK a : a = nd.snap
  OBVIOUS
<1>13. a \in Seq(RequestIds) /\ Replays(a, h, C)
  BY <1>2, <1>4, <1>12 DEF Tracks
<1>14. Replays(a \o t, h, L)
  <2>1. Places(q, t, h, C, L)
    BY <1>9, <1>10, <1>11 DEF Places
  <2>2. C \in Nat /\ L \in Nat /\ C <= L /\ t \in Seq(RequestIds)
    BY <1>4, <1>6
  <2> QED BY <1>13, <2>1, <2>2, ReplaysConcat
<1>15. /\ r.snap = a \o t /\ r.compacted = L /\ r.last = L /\ Len(r.wal) = 0 /\ r.ids = nd.ids
  BY <1>3, <1>5, <1>12 DEF OwnSnapshot
<1>16. L <= Len(h) /\ \A x \in nd.ids : \E j \in 1 .. L : x = h[j]
  BY <1>3 DEF Tracks
<1>17. \A j \in L + 1 .. L : FALSE
  BY <1>4
<1>18. \A i \in 1 .. 0 : FALSE
  OBVIOUS
<1> QED
  BY <1>14, <1>15, <1>16, <1>17, <1>18 DEF Tracks

(* The next request of the history goes to the log. *)
LEMMA TracksLogged ==
  ASSUME NEW nd, LogOK(nd), NEW h, Tracks(nd, h), Len(h) \in Nat, NEW id, NEW r,
         OneMore(nd, r, id, nd.last + 1), nd.last + 1 <= Len(h), h[nd.last + 1] = id
  PROVE  Tracks(r, h)
<1>1. PICK N : N = Len(nd.wal)
  OBVIOUS
<1>2. PICK L : L = nd.last
  OBVIOUS
<1>3. N \in Nat /\ L \in Nat /\ nd.compacted \in Nat
  BY <1>1, <1>2, NodeFields DEF LogOK
<1>4. /\ r.snap = nd.snap /\ r.compacted = nd.compacted /\ r.last = L + 1 /\ r.ids = nd.ids \cup {id}
      /\ Len(r.wal) = N + 1 /\ \A i \in 1 .. N : r.wal[i] = nd.wal[i]
      /\ r.wal[N + 1].sequence = L + 1 /\ r.wal[N + 1].requestId = id
  BY <1>1, <1>2 DEF OneMore
<1>5. \A i \in 1 .. N + 1 : i = N + 1 \/ i \in 1 .. N
  BY <1>3
<1>6. \A i \in 1 .. N + 1 : r.wal[i].requestId = h[r.wal[i].sequence]
  <2>1. \A i \in 1 .. N : nd.wal[i].requestId = h[nd.wal[i].sequence]
    BY <1>1 DEF Tracks
  <2>2. h[L + 1] = id
    BY <1>2
  <2> QED BY <1>4, <1>5, <2>1, <2>2
<1>7. ASSUME NEW j \in nd.compacted + 1 .. L + 1 PROVE \E i \in 1 .. N + 1 : r.wal[i].sequence = j
  <2>1. N + 1 \in 1 .. N + 1 /\ \A i \in 1 .. N : i \in 1 .. N + 1
    BY <1>3
  <2>2. CASE j = L + 1
    BY <1>4, <2>1, <2>2
  <2>3. CASE j # L + 1
    <3>1. j \in nd.compacted + 1 .. L
      BY <1>3, <2>3
    <3>2. PICK i \in 1 .. N : nd.wal[i].sequence = j
      BY <1>1, <1>2, <3>1 DEF Tracks
    <3> QED BY <1>4, <2>1, <3>2
  <2> QED BY <2>2, <2>3
<1>8. \A x \in r.ids : \E j \in 1 .. L + 1 : x = h[j]
  <2>1. \A x \in nd.ids : \E j \in 1 .. L : x = h[j]
    BY <1>2 DEF Tracks
  <2>2. L + 1 \in 1 .. L + 1 /\ h[L + 1] = id /\ \A j \in 1 .. L : j \in 1 .. L + 1
    BY <1>2, <1>3
  <2> QED BY <1>4, <2>1, <2>2
<1>9. Replays(r.snap, h, r.compacted)
  BY <1>4 DEF Tracks
<1> QED
  BY <1>2, <1>4, <1>6, <1>7, <1>8, <1>9 DEF Tracks

(* A longer history *)
Longer(h, h2) ==
  /\ Len(h) \in Nat /\ Len(h2) \in Nat /\ Len(h) <= Len(h2)
  /\ \A j \in 1 .. Len(h) : h2[j] = h[j]

LEMMA TracksLonger ==
  ASSUME NEW nd, LogOK(nd), NEW h, NEW h2, Tracks(nd, h), Longer(h, h2)
  PROVE  Tracks(nd, h2)
<1>1. PICK L : L = nd.last
  OBVIOUS
<1>2. PICK C : C = nd.compacted
  OBVIOUS
<1>3. L \in Nat /\ C \in Nat /\ C <= L /\ L <= Len(h) /\ Len(h) \in Nat /\ Len(h2) \in Nat
      /\ Len(h) <= Len(h2)
  BY <1>1, <1>2, NodeFields DEF LogOK, Tracks, Longer
<1>4. \A j \in 1 .. L : h2[j] = h[j]
  BY <1>3 DEF Longer
<1>5. \A j \in 1 .. C : h2[j] = h[j]
  BY <1>3, <1>4
<1>6. \A i \in 1 .. Len(nd.wal) : nd.wal[i].requestId = h2[nd.wal[i].sequence]
  <2>1. \A i \in 1 .. Len(nd.wal) : nd.wal[i].sequence \in 1 .. L
    BY <1>1, <1>3, NodeFields DEF LogOK
  <2> QED BY <1>4, <2>1 DEF Tracks
<1>7. Replays(nd.snap, h2, C)
  <2>1. PICK c : c = nd.snap
    OBVIOUS
  <2>2. Replays(c, h, C)
    BY <1>2, <2>1 DEF Tracks
  <2>3. \A j \in 1 .. C : \A i \in 1 .. j - 1 : i \in 1 .. C
    BY <1>3
  <2>4. ASSUME NEW p \in 1 .. Len(c)
        PROVE  \E j \in 1 .. C : c[p] = h2[j] /\ \A i \in 1 .. j - 1 : \E q \in 1 .. p - 1 : c[q] = h2[i]
    <3>1. PICK j \in 1 .. C : c[p] = h[j] /\ \A i \in 1 .. j - 1 : \E q \in 1 .. p - 1 : c[q] = h[i]
      BY <2>2 DEF Replays
    <3>2. c[p] = h2[j]
      BY <1>5, <3>1
    <3>3. ASSUME NEW i \in 1 .. j - 1 PROVE \E q \in 1 .. p - 1 : c[q] = h2[i]
      BY <1>5, <2>3, <3>1
    <3> QED BY <3>2, <3>3
  <2>5. \A j \in 1 .. C : \E p \in 1 .. Len(c) : c[p] = h2[j]
    BY <1>5, <2>2 DEF Replays
  <2>6. Replays(c, h2, C)
    BY <2>4, <2>5 DEF Replays
  <2> QED BY <2>1, <2>6
<1>8. \A x \in nd.ids : \E j \in 1 .. L : x = h2[j]
  BY <1>1, <1>4 DEF Tracks
<1>9. \A j \in nd.compacted + 1 .. nd.last : \E i \in 1 .. Len(nd.wal) : nd.wal[i].sequence = j
  BY DEF Tracks
<1>10. nd.last <= Len(h2)
  BY <1>1, <1>3
<1> QED
  BY <1>1, <1>2, <1>6, <1>7, <1>8, <1>9, <1>10 DEF Tracks

LEMMA PointsFacts ==
  ASSUME NEW N \in Nat, NEW k, Points(k, N), NEW j \in 0 .. N
  PROVE  /\ k[j] \in 0 .. N /\ k[j] <= j /\ j - k[j] < SnapshotThreshold /\ k[k[j]] = k[j]
         /\ SnapshotThreshold \in Nat
<1>1. k[j] \in Nat /\ k[j] <= j /\ j - k[j] < SnapshotThreshold
  BY DEF Points
<1>2. k[j] \in 0 .. N
  BY <1>1
<1>3. k[j] = k[k[j]] \/ k[j] < k[j]
  BY <1>1, <1>2 DEF Points
<1> QED
  BY <1>1, <1>2, <1>3, ClusterAssumption

(* A node between the compaction point of the end and the end *)
LEMMA PointsSame ==
  ASSUME NEW N \in Nat, NEW k, Points(k, N), NEW i \in 0 .. N, k[N] <= i
  PROVE  k[i] = k[N]
<1>1. k[N] = k[i] \/ i < k[N]
  BY DEF Points
<1>2. k[N] \in Nat
  BY PointsFacts
<1> QED
  BY <1>1, <1>2

LEMMA NotKnownYet ==
  ASSUME NEW nd, LogOK(nd), NEW h, Injective(h), Len(h) \in Nat, Tracks(nd, h),
         NEW j \in Nat, nd.last < j, j <= Len(h)
  PROVE  h[j] \notin nd.ids /\ ~InWal(nd, h[j])
<1>1. nd.last \in Nat /\ nd \in NodeStates
  BY NodeFields DEF LogOK
<1>2. h[j] \notin nd.ids
  <2> SUFFICES ASSUME h[j] \in nd.ids PROVE FALSE
    OBVIOUS
  <2>1. PICK i \in 1 .. nd.last : h[j] = h[i]
    BY DEF Tracks
  <2>2. i \in 1 .. Len(h) /\ j \in 1 .. Len(h) /\ i # j
    BY <1>1
  <2> QED BY <2>1, <2>2 DEF Injective
<1>3. ~InWal(nd, h[j])
  BY <1>1, <1>2, NotInWal DEF LogOK
<1> QED
  BY <1>2, <1>3

(* A node executes the next request of the history. *)
Advances(nd, r, id) ==
  /\ LogOK(r) /\ r.state = nd.state /\ r.last = nd.last + 1 /\ r.ids = nd.ids \cup {id}
  /\ \/ Len(r.wal) = 0
     \/ /\ r.compacted = nd.compacted /\ Len(r.wal) = Len(nd.wal) + 1
        /\ \A i \in 1 .. Len(nd.wal) : r.wal[i] = nd.wal[i]
        /\ r.wal[Len(nd.wal) + 1].sequence = nd.last + 1 /\ r.wal[Len(nd.wal) + 1].requestId = id

LEMMA ExecuteFollows ==
  ASSUME NEW nd, LogOK(nd), NEW h \in Seq(RequestIds), NEW k, Points(k, Len(h)), Injective(h),
         Follows(nd, h, k), nd.last + 1 <= Len(h), NEW id, id = h[nd.last + 1]
  PROVE  Follows(Execute(nd, id), h, k) /\ Advances(nd, Execute(nd, id), id)
<1>1. nd \in NodeStates /\ nd.last \in Nat /\ nd.compacted \in Nat /\ Len(h) \in Nat
  BY NodeFields, LenProperties DEF LogOK
<1>2. PICK L : L = nd.last
  OBVIOUS
<1>3. L \in Nat /\ L + 1 \in 1 .. Len(h) /\ L < L + 1 /\ L \in 0 .. Len(h) - 1 /\ L \in 0 .. Len(h)
      /\ L + 1 \in 0 .. Len(h) /\ L + 1 \in Nat
  BY <1>1, <1>2
<1>4. id \in RequestIds
  BY <1>2, <1>3, ElementOfSeq
<1>5. ~InWal(nd, id)
  BY <1>1, <1>2, <1>3, NotKnownYet DEF Follows
<1>6. MaxOf(L + 1, 0) = L + 1
  BY <1>3 DEF MaxOf
<1>7. PICK r : r = Logged(nd, id, 0)
  OBVIOUS
<1>8. OneMore(nd, r, id, L + 1) /\ LogOK(r)
  BY <1>1, <1>2, <1>4, <1>5, <1>6, <1>7, LoggedIs, LoggedOK
<1>9. Tracks(r, h)
  BY <1>1, <1>2, <1>8, TracksLogged DEF Follows
<1>10. /\ r \in NodeStates /\ r.state = nd.state /\ r.last = L + 1 /\ r.ids = nd.ids \cup {id}
       /\ r.compacted = nd.compacted
  BY <1>8 DEF OneMore
<1>11. k[L + 1] = IF (L + 1) - k[L] < SnapshotThreshold THEN k[L] ELSE L + 1
  BY <1>3 DEF Points
<1>12. nd.compacted = k[L]
  BY <1>2 DEF Follows
<1>13. PICK s : s = maybeSnapshot(r)
  OBVIOUS
<1>14. Execute(nd, id) = s /\ LogOK(s)
  BY <1>7, <1>8, <1>13, SnapshotOK DEF Execute
<1>15. CASE (L + 1) - k[L] < SnapshotThreshold
  <2>1. s = r
    BY <1>10, <1>12, <1>13, <1>15, SnapshotIs
  <2>2. Follows(s, h, k)
    BY <1>9, <1>10, <1>11, <1>12, <1>15, <2>1 DEF Follows
  <2>3. Advances(nd, s, id)
    BY <1>2, <1>8, <2>1 DEF Advances, OneMore
  <2> QED BY <1>14, <2>2, <2>3
<1>16. CASE ~((L + 1) - k[L] < SnapshotThreshold)
  <2>1. OwnSnapshot(r, s)
    BY <1>10, <1>12, <1>13, <1>16, SnapshotIs
  <2>2. Tracks(s, h)
    BY <1>8, <1>9, <2>1, SnapshotTracks
  <2>3. s.compacted = L + 1 /\ s.last = L + 1 /\ s.ids = r.ids /\ s.state = r.state /\ Len(s.wal) = 0
    BY <1>10, <2>1 DEF OwnSnapshot
  <2>4. Follows(s, h, k)
    BY <1>11, <1>16, <2>2, <2>3 DEF Follows
  <2>5. Advances(nd, s, id)
    BY <1>2, <1>10, <1>14, <2>3 DEF Advances
  <2> QED BY <1>14, <2>4, <2>5
<1> QED
  BY <1>15, <1>16

(* A node behind takes the next request of the history from a peer. *)
LEMMA TakeFollows ==
  ASSUME NEW nd, LogOK(nd), NEW h \in Seq(RequestIds), NEW k, Points(k, Len(h)), Injective(h),
         Follows(nd, h, k), nd.last + 1 <= Len(h), NEW id, id = h[nd.last + 1],
         nd.compacted = k[Len(h)]
  PROVE  Follows(Logged(nd, id, nd.last + 1), h, k) /\ OneMore(nd, Logged(nd, id, nd.last + 1), id, nd.last + 1)
<1>1. nd \in NodeStates /\ nd.last \in Nat /\ nd.compacted \in Nat /\ nd.compacted <= nd.last /\ Len(h) \in Nat
  BY NodeFields, LenProperties DEF LogOK
<1>2. PICK L : L = nd.last
  OBVIOUS
<1>3. L \in Nat /\ L + 1 \in 1 .. Len(h) /\ L < L + 1 /\ L + 1 \in 0 .. Len(h) /\ L + 1 \in Nat
  BY <1>1, <1>2
<1>4. id \in RequestIds
  BY <1>2, <1>3, ElementOfSeq
<1>5. ~InWal(nd, id)
  BY <1>1, <1>2, <1>3, NotKnownYet DEF Follows
<1>6. MaxOf(L + 1, L + 1) = L + 1
  BY DEF MaxOf
<1>7. PICK r : r = Logged(nd, id, L + 1)
  OBVIOUS
<1>8. OneMore(nd, r, id, L + 1)
  BY <1>1, <1>2, <1>3, <1>4, <1>5, <1>6, <1>7, LoggedIs
<1>9. Tracks(r, h)
  BY <1>1, <1>2, <1>8, TracksLogged DEF Follows
<1>10. k[L + 1] = k[Len(h)]
  <2>1. k[Len(h)] <= L + 1
    BY <1>1, <1>2, <1>3
  <2> QED BY <1>1, <1>3, <2>1, PointsSame
<1>11. r.last = L + 1 /\ r.compacted = nd.compacted
  BY <1>8 DEF OneMore
<1>12. Follows(r, h, k)
  BY <1>9, <1>10, <1>11 DEF Follows
<1> QED
  BY <1>2, <1>7, <1>8, <1>12

(* A node behind asks a peer at the end of the history. *)
LEMMA InstallFollows ==
  ASSUME NEW nd, LogOK(nd), NEW peer, LogOK(peer), NEW h \in Seq(RequestIds), NEW k, Points(k, Len(h)),
         Follows(nd, h, k), Follows(peer, h, k), peer.last = Len(h)
  PROVE  LET r == installPeerSnapshotIfNewer(nd, peer)
         IN  /\ Follows(r, h, k) /\ r.compacted = k[Len(h)] /\ r.ids = nd.ids /\ r.wal = nd.wal
             /\ r.last >= nd.last /\ r.last \in Nat
<1>1. /\ nd \in NodeStates /\ nd.last \in Nat /\ nd.compacted \in Nat /\ nd.compacted <= nd.last
      /\ peer \in NodeStates /\ peer.compacted \in Nat /\ Len(h) \in Nat
  BY NodeFields, LenProperties DEF LogOK
<1>2. PICK L : L = nd.last
  OBVIOUS
<1>3. PICK E : E = Len(h)
  OBVIOUS
<1>4. L \in 0 .. E /\ E \in Nat /\ L \in Nat /\ nd.compacted = k[L] /\ peer.compacted = k[E] /\ E \in 0 .. E
      /\ Points(k, E)
  BY <1>1, <1>2, <1>3 DEF Follows, Tracks
<1>5. k[E] = k[L] \/ L < k[E]
  BY <1>1, <1>4 DEF Points
<1>6. k[L] \in 0 .. E /\ k[L] <= L /\ k[E] \in 0 .. E /\ k[k[E]] = k[E]
  BY <1>4, PointsFacts
<1>7. PICK r : r = installPeerSnapshotIfNewer(nd, peer)
  OBVIOUS
<1>8. CASE peer.compacted <= nd.compacted
  <2>1. r = nd
    BY <1>1, <1>7, <1>8, InstallIs
  <2>2. k[L] = k[E]
    BY <1>4, <1>5, <1>6, <1>8
  <2>3. nd.last >= nd.last
    BY <1>1
  <2> QED BY <1>1, <1>3, <1>4, <1>7, <2>1, <2>2, <2>3
<1>9. CASE ~(peer.compacted <= nd.compacted)
  <2>1. Installed(nd, peer, r)
    BY <1>1, <1>7, <1>9, InstallIs
  <2>2. L < k[E]
    BY <1>4, <1>5, <1>6, <1>9
  <2>3. MaxOf(L, k[E]) = k[E]
    BY <1>4, <1>6, <2>2 DEF MaxOf
  <2>4. r.last = k[E] /\ r.compacted = k[E] /\ r.wal = nd.wal /\ r.ids = nd.ids /\ r.snap = peer.snap
    BY <1>2, <1>4, <2>1, <2>3 DEF Installed
  <2>5. Tracks(r, h)
    <3>1. k[E] <= Len(h)
      BY <1>3, <1>4, <1>6
    <3>2. \A i \in 1 .. Len(r.wal) : r.wal[i].requestId = h[r.wal[i].sequence]
      BY <2>4 DEF Follows, Tracks
    <3>3. \A j \in k[E] + 1 .. k[E] : FALSE
      BY <1>6
    <3>4. Replays(r.snap, h, r.compacted)
      BY <1>4, <2>4 DEF Follows, Tracks
    <3>5. \A x \in nd.ids : \E j \in 1 .. L : x = h[j]
      BY <1>2 DEF Follows, Tracks
    <3>6. \A j \in 1 .. L : j \in 1 .. k[E]
      BY <1>4, <1>6, <2>2
    <3>7. \A x \in r.ids : \E j \in 1 .. k[E] : x = h[j]
      BY <2>4, <3>5, <3>6
    <3> QED BY <2>4, <3>1, <3>2, <3>3, <3>4, <3>7 DEF Tracks
  <2>6. Follows(r, h, k)
    BY <1>6, <2>4, <2>5 DEF Follows
  <2>7. r.last >= nd.last /\ r.last \in Nat
    BY <1>2, <1>4, <1>6, <2>2, <2>4
  <2> QED BY <1>3, <1>7, <2>4, <2>6, <2>7
<1> QED
  BY <1>8, <1>9

(* Node n would not log again what it finds in the log of m. *)
Knows(n, m) ==
  \A i \in 1 .. Len(node[m].wal) :
      \/ node[m].wal[i].sequence <= node[m].compacted
      \/ Serving(n) /\ node[m].wal[i].sequence <= node[n].last
    => node[m].wal[i].requestId \in node[n].ids

(* The write of w is the last request of the history. *)
Under(w, h) == write[w].pc = "sending" /\ Len(h) # 0 /\ write[w].id = h[Len(h)]

(* A node that serves is at the end of the history, or one behind and still*)
(* to be asked. *)
AtEnd(n, h) ==
  \/ node[n].last = Len(h)
  \/ \E w \in Writers : Under(w, h) /\ n \in write[w].todo /\ node[n].last = Len(h) - 1

(* No node has executed the write of w, or those that serve and were asked *)
(* have. *)
Untouched(w, h) ==
  /\ \A j \in 1 .. Len(h) : h[j] # write[w].id
  /\ \A n \in Nodes : Serving(n) => n \in write[w].todo
  /\ write[w].oks = 0

Spreads(w, h) ==
  /\ Under(w, h)
  /\ \A n \in Nodes : Serving(n) =>
        IF n \in write[w].todo THEN node[n].last = Len(h) - 1 ELSE write[w].id \in node[n].ids

WriteAt(w, h) ==
  write[w].pc = "sending" => write[w].id \notin Done /\ (Untouched(w, h) \/ Spreads(w, h))

(* What is left of the answer takes node n to the end of the history. *)
Rest(n, h, es) ==
  /\ \A i \in 1 .. Len(es) : /\ es[i].sequence <= Len(h) /\ es[i].requestId = h[es[i].sequence]
                             /\ es[i].known <=> es[i].sequence <= node[n].last
                             /\ es[i].known => es[i].requestId \in node[n].ids
                             /\ \A m \in Nodes \ {n} : es[i].requestId \in node[m].ids
  /\ \A i, j \in 1 .. Len(es) : i < j => es[i].sequence < es[j].sequence
  /\ \A j \in node[n].last + 1 .. Len(h) : \E i \in 1 .. Len(es) : es[i].sequence = j
  /\ \A m \in (Nodes \ {n}) \ recovery[n].todo : \A i \in 1 .. Len(node[m].wal) :
        \/ node[m].wal[i].requestId \in node[n].ids
        \/ \E j \in 1 .. Len(es) : es[j].requestId = node[m].wal[i].requestId /\ ~es[j].known

Catches(n, h, k) ==
  node[n].state = "RECOVERING" =>
    \/ Unasked(n)
    \/ node[n].compacted = k[Len(h)] /\ Rest(n, h, recovery[n].entries)

HistoryOK(h, k) == h \in Seq(RequestIds) /\ Len(h) \in Nat /\ Injective(h) /\ Points(k, Len(h))

(* The history has what was executed and everything that was successful. *)
Recorded(h) ==
  /\ \A j \in 1 .. Len(h) : h[j] \in used
  /\ \A x \in Done : \E j \in 1 .. Len(h) : x = h[j]

AllFollow(h, k) == \A n \in Nodes : Follows(node[n], h, k)

AllKnow == \A m, n \in Nodes : Knows(n, m)

EndsOK(h) ==
  /\ \A n \in Nodes : Serving(n) => AtEnd(n, h)
  /\ \E n \in Nodes : node[n].last = Len(h)

History(h, k) ==
  /\ HistoryOK(h, k) /\ Recorded(h) /\ AllFollow(h, k) /\ AllKnow /\ EndsOK(h)
  /\ \A w \in Writers : WriteAt(w, h)
  /\ \A n \in Nodes : Catches(n, h, k)

LEMMA SameFilesFollows ==
  ASSUME NEW nd, NEW r, SameFiles(nd, r), NEW h, NEW k, Follows(nd, h, k)
  PROVE  Follows(r, h, k)
BY DEF SameFiles, Follows, Tracks

LEMMA OneWriter ==
  ASSUME BaseInv, Serial, NEW v \in Writers, NEW w \in Writers
  PROVE  v = w
<1>1. DOMAIN write = Writers
  BY DEF BaseInv, TypeOK
<1> QED
  BY <1>1 DEF Serial

LEMMA HistoryStarts == ASSUME Init PROVE \E h, k : History(h, k)
<1>0. BaseInv
  BY BaseInit
<1>1. PICK h : h = <<>>
  OBVIOUS
<1>2. h \in Seq(RequestIds) /\ Len(h) = 0
  BY <1>1, EmptySeq
<1>3. PICK k : Points(k, 0)
  BY PointsStart
<1>4. \A j \in 1 .. 0 : FALSE
  OBVIOUS
<1>5. HistoryOK(h, k)
  BY <1>2, <1>3, <1>4 DEF HistoryOK, Injective
<1>6. \A n \in Nodes : /\ node[n].wal = <<>> /\ node[n].last = 0 /\ node[n].ids = {} /\ node[n].snap = <<>>
                       /\ node[n].compacted = 0 /\ node[n].state = "SERVING"
  BY DEF Init, EmptyNode
<1>7. \A n \in Nodes : Len(node[n].wal) = 0 /\ Len(node[n].snap) = 0
  BY <1>6, EmptySeq
<1>8. k[0] = 0
  BY <1>3 DEF Points
<1>9. \A j \in 0 + 1 .. 0 : FALSE
  OBVIOUS
<1>10. \A n \in Nodes : Replays(node[n].snap, h, 0)
  BY <1>4, <1>7 DEF Replays
<1>11. AllFollow(h, k)
  BY <1>2, <1>4, <1>6, <1>7, <1>8, <1>9, <1>10 DEF AllFollow, Follows, Tracks
<1>12. AllKnow
  BY <1>4, <1>7 DEF AllKnow, Knows
<1>13. EndsOK(h)
  BY <1>2, <1>6, NodesFacts DEF EndsOK, AtEnd
<1>14. Recorded(h)
  BY <1>2, <1>4 DEF Init, Recorded, Done
<1>15. \A w \in Writers : write[w].pc = "idle"
  BY DEF Init, NoWrite
<1>16. \A w \in Writers : WriteAt(w, h)
  BY <1>15 DEF WriteAt
<1>17. \A n \in Nodes : Catches(n, h, k)
  BY <1>6 DEF Catches
<1> QED
  BY <1>5, <1>11, <1>12, <1>13, <1>14, <1>16, <1>17 DEF History

(* The coordinator's own steps *)
LEMMA HistoryBegins ==
  ASSUME BaseInv, Calm, faults = {}, Serial, NEW h, NEW k, History(h, k), NEW w \in Writers, Begins(w)
  PROVE  History(h, k)'
<1>1. /\ node' = node /\ recovery' = recovery /\ Done' = Done /\ used \subseteq used'
      /\ NewId \notin used /\ write[w].pc = "idle" /\ write'[w].id = NewId /\ write'[w].oks = 0
      /\ ServingNodes \subseteq write'[w].todo
  BY DEF Begins, Done
<1>2. \A v \in Writers : v = w
  BY OneWriter
<1>3. HistoryOK(h, k)' /\ AllFollow(h, k)' /\ AllKnow'
  BY <1>1 DEF History, HistoryOK, AllFollow, AllKnow, Knows, Serving
<1>4. Recorded(h)'
  BY <1>1 DEF History, Recorded
<1>5. \A n \in Nodes : Serving(n) => node[n].last = Len(h)
  BY <1>1, <1>2 DEF History, EndsOK, AtEnd, Under
<1>6. EndsOK(h)'
  BY <1>1, <1>5 DEF History, EndsOK, AtEnd, Serving
<1>7. \A n \in Nodes : Serving(n) => n \in write'[w].todo
  BY <1>1 DEF Calm, Listed, ServingNodes
<1>8. \A j \in 1 .. Len(h) : h[j] # NewId
  BY <1>1 DEF History, Recorded
<1>9. NewId \notin Done
  BY <1>1 DEF BaseInv, TypeOK, Done
<1>10. WriteAt(w, h)'
  BY <1>1, <1>7, <1>8, <1>9 DEF WriteAt, Untouched, Serving
<1>11. \A n \in Nodes : Catches(n, h, k)'
  BY <1>1 DEF History, Catches, Unasked, Rest
<1> QED
  BY <1>2, <1>3, <1>4, <1>6, <1>10, <1>11 DEF History

LEMMA HistoryFails ==
  ASSUME BaseInv, Calm, faults = {}, Serial, NEW h, NEW k, History(h, k),
         NEW w \in Writers, NEW n \in Nodes, Fails(w, n)
  PROVE  History(h, k)'
<1>1. /\ node' = node /\ recovery' = recovery /\ Done' = Done /\ used' = used
      /\ write[w].pc = "sending" /\ write'[w].pc = "sending" /\ write'[w].id = write[w].id
      /\ write'[w].todo = write[w].todo \ {n} /\ write'[w].oks = write[w].oks + 0
  BY DEF Fails, Answers, Done
<1>2. \A v \in Writers : v = w
  BY OneWriter
<1>3. ~Serving(n)
  BY <1>1, NotStale DEF Fails, HttpUp, Serving
<1>4. write'[w].oks = write[w].oks
  BY <1>1 DEF BaseInv, TypeOK, Writes
<1>5. HistoryOK(h, k)' /\ AllFollow(h, k)' /\ AllKnow' /\ Recorded(h)'
  BY <1>1 DEF History, HistoryOK, AllFollow, AllKnow, Knows, Serving, Recorded
<1>6. \A m \in Nodes : Serving(m) => (m \in write'[w].todo <=> m \in write[w].todo)
  BY <1>1, <1>3
<1>7. Under(w, h)' <=> Under(w, h)
  BY <1>1 DEF Under
<1>8. EndsOK(h)'
  BY <1>1, <1>2, <1>6, <1>7 DEF History, EndsOK, AtEnd, Serving
<1>9. WriteAt(w, h)'
  BY <1>1, <1>4, <1>6, <1>7 DEF History, WriteAt, Untouched, Spreads, Serving
<1>10. \A m \in Nodes : Catches(m, h, k)'
  BY <1>1 DEF History, Catches, Unasked, Rest
<1> QED
  BY <1>2, <1>5, <1>8, <1>9, <1>10 DEF History

LEMMA HistoryEnds ==
  ASSUME BaseInv, Calm, faults = {}, Serial, NEW h, NEW k, History(h, k), NEW w \in Writers, Ends(w)
  PROVE  History(h, k)'
<1>1. /\ node' = node /\ recovery' = recovery /\ used' = used
      /\ write[w].pc = "sending" /\ write'[w].pc = "idle" /\ write[w].todo = {}
      /\ (Done' = Done \/ (Done' = Done \cup {write[w].id} /\ write[w].oks >= write[w].quorum))
  BY DEF Ends, Done
<1>2. \A v \in Writers : v = w
  BY OneWriter
<1>3. HistoryOK(h, k)' /\ AllFollow(h, k)' /\ AllKnow'
  BY <1>1 DEF History, HistoryOK, AllFollow, AllKnow, Knows, Serving
<1>4. \A n \in Nodes : Serving(n) => node[n].last = Len(h)
  BY <1>1, <1>2 DEF History, EndsOK, AtEnd
<1>5. EndsOK(h)'
  BY <1>1, <1>4 DEF History, EndsOK, AtEnd, Serving
<1>6. Recorded(h)'
  <2>1. CASE Done' = Done
    BY <1>1, <2>1 DEF History, Recorded
  <2>2. CASE Done' = Done \cup {write[w].id} /\ write[w].oks >= write[w].quorum
    <3>1. write[w].oks \in Nat /\ write[w].quorum \in Nat /\ write[w].quorum # 0
      BY <1>1 DEF BaseInv, TypeOK, Writes, WritesOK
    <3>2. write[w].oks # 0
      BY <2>2, <3>1
    <3>3. Under(w, h)
      BY <1>1, <3>2 DEF History, WriteAt, Untouched, Spreads
    <3>4. Len(h) \in 1 .. Len(h) /\ write[w].id = h[Len(h)]
      BY <3>3 DEF History, HistoryOK, Under
    <3> QED BY <1>1, <2>2, <3>4 DEF History, Recorded
  <2> QED BY <1>1, <2>1, <2>2
<1>7. WriteAt(w, h)'
  BY <1>1 DEF WriteAt
<1>8. \A n \in Nodes : Catches(n, h, k)'
  BY <1>1 DEF History, Catches, Unasked, Rest
<1> QED
  BY <1>2, <1>3, <1>5, <1>6, <1>7, <1>8 DEF History

(* The write of w, now the last request of the history, is on its way. *)
Midway(w, h, k) ==
  /\ HistoryOK(h, k) /\ Recorded(h) /\ AllFollow(h, k) /\ AllKnow
  /\ Under(w, h) /\ write[w].id \notin Done
  /\ \A p \in Nodes : Serving(p) =>
        IF p \in write[w].todo THEN node[p].last = Len(h) - 1
        ELSE node[p].last = Len(h) /\ write[w].id \in node[p].ids

LEMMA DeliveryGrows ==
  ASSUME BaseInv, Serial, NEW h, NEW k, History(h, k), NEW w \in Writers, write[w].pc = "sending"
  PROVE  \E h2, k2 : Midway(w, h2, k2)
<1>1. \A v \in Writers : v = w
  BY OneWriter
<1>2. /\ h \in Seq(RequestIds) /\ Len(h) \in Nat /\ Injective(h) /\ Points(k, Len(h))
      /\ Recorded(h) /\ AllFollow(h, k) /\ AllKnow /\ write[w].id \notin Done
      /\ Untouched(w, h) \/ Spreads(w, h)
  BY DEF History, HistoryOK, WriteAt
<1>3. ASSUME NEW p \in Nodes, Serving(p)
      PROVE  node[p].last = Len(h) \/ (Under(w, h) /\ p \in write[w].todo)
  BY <1>1, <1>3 DEF History, EndsOK, AtEnd
<1>4. CASE Spreads(w, h)
  <2>1. ASSUME NEW p \in Nodes, Serving(p)
        PROVE  IF p \in write[w].todo THEN node[p].last = Len(h) - 1
               ELSE node[p].last = Len(h) /\ write[w].id \in node[p].ids
    BY <1>3, <1>4, <2>1 DEF Spreads
  <2>2. Midway(w, h, k)
    BY <1>2, <1>4, <2>1 DEF Midway, HistoryOK, Spreads
  <2> QED BY <2>2
<1>5. CASE Untouched(w, h)
  <2>1. PICK id : id = write[w].id
    OBVIOUS
  <2>2. id \in used /\ id \in RequestIds
    BY <2>1 DEF BaseInv, WritesOK, TypeOK
  <2>3. PICK N : N = Len(h)
    OBVIOUS
  <2>4. PICK h2 : h2 = Append(h, id)
    OBVIOUS
  <2>5. h2 \in Seq(RequestIds) /\ Len(h2) = N + 1 /\ h2[N + 1] = id /\ N \in Nat
        /\ \A j \in 1 .. N : h2[j] = h[j]
    BY <1>2, <2>2, <2>3, <2>4, AppendProperties
  <2>6. PICK k2 : Points(k2, N + 1) /\ \A j \in 0 .. N : k2[j] = k[j]
    BY <1>2, <2>3, PointsExtend
  <2>7. \A j \in 1 .. N : h[j] # id
    BY <1>5, <2>1, <2>3 DEF Untouched
  <2>8. \A j \in 1 .. N + 1 : j = N + 1 \/ j \in 1 .. N
    BY <2>5
  <2>9. \A i, j \in 1 .. N : h[i] = h[j] => i = j
    BY <1>2, <2>3 DEF Injective
  <2>10. Injective(h2)
    <3>1. \A i, j \in 1 .. N + 1 : h2[i] = h2[j] => i = j
      BY <2>5, <2>7, <2>8, <2>9
    <3> QED BY <2>5, <3>1 DEF Injective
  <2>11. HistoryOK(h2, k2)
    BY <2>5, <2>6, <2>10 DEF HistoryOK
  <2>12. Longer(h, h2)
    BY <2>3, <2>5 DEF Longer
  <2>13. AllFollow(h2, k2)
    <3> SUFFICES ASSUME NEW p \in Nodes PROVE Follows(node[p], h2, k2)
      BY DEF AllFollow
    <3>1. LogOK(node[p]) /\ Follows(node[p], h, k) /\ node[p].last \in Nat
      BY <1>2, BaseNode, NodeFields DEF AllFollow
    <3>2. Tracks(node[p], h2)
      BY <2>12, <3>1, TracksLonger DEF Follows
    <3>3. node[p].last \in 0 .. N
      BY <2>3, <2>5, <3>1 DEF Follows, Tracks
    <3> QED BY <2>6, <3>1, <3>2, <3>3 DEF Follows
  <2>14. Recorded(h2)
    <3>1. \A j \in 1 .. N + 1 : h2[j] \in used
      BY <1>2, <2>2, <2>3, <2>5, <2>8 DEF Recorded
    <3>2. \A j \in 1 .. N : j \in 1 .. N + 1
      BY <2>5
    <3>3. \A x \in Done : \E j \in 1 .. N + 1 : x = h2[j]
      BY <1>2, <2>3, <2>5, <3>2 DEF Recorded
    <3> QED BY <2>5, <3>1, <3>3 DEF Recorded
  <2>15. Under(w, h2)
    <3>1. N + 1 # 0
      BY <2>5
    <3> QED BY <2>1, <2>5, <3>1 DEF Under
  <2>16. ~Under(w, h)
    <3> SUFFICES ASSUME Under(w, h) PROVE FALSE
      OBVIOUS
    <3>1. N \in 1 .. N
      BY <2>3, <2>5 DEF Under
    <3> QED BY <2>1, <2>3, <2>7, <3>1 DEF Under
  <2>17. ASSUME NEW p \in Nodes, Serving(p) PROVE p \in write[w].todo /\ node[p].last = Len(h2) - 1
    <3>1. p \in write[w].todo /\ node[p].last = N
      BY <1>3, <1>5, <2>3, <2>16, <2>17 DEF Untouched
    <3>2. N = (N + 1) - 1
      BY <2>5
    <3> QED BY <2>5, <3>1, <3>2
  <2>18. Midway(w, h2, k2)
    BY <1>2, <2>11, <2>13, <2>14, <2>15, <2>17 DEF Midway
  <2> QED BY <2>18
<1> QED
  BY <1>2, <1>4, <1>5

(* Replica n executes the write. *)
LEMMA MidwayDelivers ==
  ASSUME BaseInv, Calm, Serial, NEW h, NEW k, NEW w \in Writers, Midway(w, h, k),
         NEW n \in Nodes, NEW ok \in {0, 1}, Delivers(w, n, ok)
  PROVE  /\ History(h, k)' /\ write[w].id \in Executed(node'[n])
         /\ \A p \in Nodes : Executed(node[p]) \subseteq Executed(node'[p])
<1>1. /\ h \in Seq(RequestIds) /\ Len(h) \in Nat /\ Injective(h) /\ Points(k, Len(h))
      /\ \A p \in Nodes : Follows(node[p], h, k) /\ LogOK(node[p])
  BY BaseNode DEF Midway, HistoryOK, AllFollow
<1>2. PICK id : id = write[w].id
  OBVIOUS
<1>3. PICK N : N = Len(h)
  OBVIOUS
<1>4. N \in Nat /\ N # 0 /\ id = h[N] /\ id \in RequestIds /\ write[w].pc = "sending"
  BY <1>1, <1>2, <1>3 DEF Midway, Under, Delivers
<1>5. /\ n \in write[w].todo /\ Done' = Done /\ used' = used /\ recovery' = recovery
      /\ write'[w].pc = "sending" /\ write'[w].id = id /\ write'[w].todo = write[w].todo \ {n}
  BY <1>2 DEF Delivers, Answers, Done
<1>6. \A p \in Nodes : node[p].state # "RECOVERING"
  BY <1>4 DEF Calm, Apart
<1>7. Serving(n)
  BY <1>6 DEF Delivers, HttpUp, Calm, RecoveryOK, Serving
<1>8. PICK nd : nd = node[n]
  OBVIOUS
<1>9. PICK r : r = node'[n]
  OBVIOUS
<1>10. /\ LogOK(nd) /\ Follows(nd, h, k) /\ nd.last = N - 1 /\ nd.compacted \in Nat
       /\ nd.compacted <= nd.last /\ Len(nd.wal) \in Nat
  BY <1>1, <1>3, <1>5, <1>7, <1>8, NodeFields DEF Midway, LogOK
<1>11. nd.last \in Nat /\ nd.last < N /\ nd.last + 1 = N
  BY <1>4, <1>10
<1>12. id \notin nd.ids /\ ~InWal(nd, id) /\ id \notin KnownIds(nd)
  BY <1>1, <1>3, <1>4, <1>10, <1>11, NotKnownYet, KnownIdsIs DEF Follows
<1>13. r = Execute(nd, id) /\ \A m \in Nodes \ {n} : node'[m] = node[m]
  BY <1>2, <1>8, <1>9, <1>12, DeliversNode
<1>14. nd.last + 1 <= Len(h) /\ id = h[nd.last + 1]
  BY <1>3, <1>4, <1>11
<1>15. Follows(r, h, k) /\ Advances(nd, r, id)
  BY <1>1, <1>10, <1>13, <1>14, ExecuteFollows
<1>16. LogOK(r) /\ r.state = nd.state /\ r.last = N /\ r.ids = nd.ids \cup {id}
  BY <1>11, <1>15 DEF Advances
<1>17. id \in Executed(r) /\ Executed(nd) \subseteq Executed(r)
  BY <1>4, <1>10, <1>12, <1>13, ExecuteOK
<1>18. \A p \in Nodes : node'[p].state = node[p].state
  BY <1>8, <1>9, <1>13, <1>16
<1>19. \A p \in Nodes : Serving(p)' <=> Serving(p)
  BY <1>18 DEF Serving
<1>20. AllFollow(h, k)'
  <2>1. \A p \in Nodes : Follows(node'[p], h, k)
    BY <1>1, <1>9, <1>13, <1>15
  <2> QED BY <2>1 DEF AllFollow
<1>21. ASSUME NEW p \in Nodes \ {n}, Serving(p)
       PROVE  IF p \in write[w].todo THEN node[p].last = N - 1 ELSE node[p].last = N /\ id \in node[p].ids
  BY <1>2, <1>3, <1>21 DEF Midway
<1>22. AllKnow'
  <2> SUFFICES ASSUME NEW m \in Nodes, NEW p \in Nodes, NEW i \in 1 .. Len(node'[m].wal),
                      \/ node'[m].wal[i].sequence <= node'[m].compacted
                      \/ Serving(p)' /\ node'[m].wal[i].sequence <= node'[p].last
               PROVE  node'[m].wal[i].requestId \in node'[p].ids
    BY DEF AllKnow, Knows
  <2>1. Knows(p, m)
    BY DEF Midway, AllKnow
  <2>2. CASE m # n /\ p # n
    BY <1>13, <1>19, <2>1, <2>2 DEF Knows
  <2>3. CASE m # n /\ p = n
    <3>1. node'[m] = node[m] /\ node'[p] = r
      BY <1>9, <1>13, <2>3
    <3>2. CASE node[m].wal[i].sequence <= node[m].compacted \/ node[m].wal[i].sequence <= nd.last
      <4>1. node[m].wal[i].requestId \in nd.ids
        BY <1>7, <1>8, <2>1, <2>3, <3>1, <3>2 DEF Knows
      <4> QED BY <1>16, <3>1, <4>1
    <3>3. CASE ~(node[m].wal[i].sequence <= node[m].compacted) /\ ~(node[m].wal[i].sequence <= nd.last)
      <4>1. node[m].wal[i].sequence \in Nat /\ node[m].wal[i].sequence <= N
        BY <1>1, <1>16, <3>1, <3>3, NodeFields DEF LogOK
      <4>2. node[m].wal[i].sequence = N
        BY <1>4, <1>10, <3>3, <4>1
      <4>3. node[m].wal[i].requestId = h[node[m].wal[i].sequence]
        BY <1>1, <3>1 DEF Follows, Tracks
      <4> QED BY <1>4, <1>16, <3>1, <4>2, <4>3
    <3> QED BY <3>2, <3>3
  <2>4. CASE m = n /\ p = n
    BY <1>9, <1>16, <2>4 DEF LogOK
  <2>5. CASE m = n /\ p # n
    <3>1. node'[m] = r /\ node'[p] = node[p] /\ p \in Nodes \ {n} /\ node[p].last \in Nat
      BY <1>1, <1>9, <1>13, <2>5, NodeFields DEF LogOK
    <3>2. CASE Len(r.wal) = 0
      BY <3>1, <3>2
    <3>3. CASE /\ r.compacted = nd.compacted /\ Len(r.wal) = Len(nd.wal) + 1
               /\ \A j \in 1 .. Len(nd.wal) : r.wal[j] = nd.wal[j]
               /\ r.wal[Len(nd.wal) + 1].sequence = nd.last + 1 /\ r.wal[Len(nd.wal) + 1].requestId = id
      <4>1. i = Len(nd.wal) + 1 \/ i \in 1 .. Len(nd.wal)
        BY <1>10, <3>1, <3>3
      <4>2. CASE i \in 1 .. Len(nd.wal)
        BY <1>8, <1>19, <2>1, <2>5, <3>1, <3>3, <4>2 DEF Knows
      <4>3. CASE i = Len(nd.wal) + 1
        <5>1. r.wal[i].sequence = N /\ r.wal[i].requestId = id
          BY <1>11, <3>3, <4>3
        <5>2. ~(N <= nd.compacted)
          BY <1>4, <1>10
        <5>3. Serving(p) /\ N <= node[p].last
          BY <1>19, <3>1, <3>3, <5>1, <5>2
        <5>4. node[p].last # N - 1
          BY <1>4, <3>1, <5>3
        <5>5. id \in node[p].ids
          BY <1>21, <3>1, <5>3, <5>4
        <5> QED BY <3>1, <5>1, <5>5
      <4> QED BY <4>1, <4>2, <4>3
    <3> QED BY <1>15, <3>2, <3>3 DEF Advances
  <2> QED BY <2>2, <2>3, <2>4, <2>5
<1>23. Under(w, h)'
  BY <1>3, <1>4, <1>5 DEF Under
<1>24. EndsOK(h)'
  <2>1. ASSUME NEW p \in Nodes, Serving(p) PROVE AtEnd(p, h)'
    <3>1. CASE p = n
      BY <1>3, <1>9, <1>16, <3>1 DEF AtEnd
    <3>2. CASE p # n
      BY <1>3, <1>5, <1>13, <1>21, <1>23, <2>1, <3>2 DEF AtEnd
    <3> QED BY <3>1, <3>2
  <2>2. node'[n].last = Len(h)
    BY <1>3, <1>9, <1>16
  <2> QED BY <1>19, <2>1, <2>2 DEF EndsOK
<1>25. WriteAt(w, h)'
  <2>1. ASSUME NEW p \in Nodes, Serving(p)
        PROVE  IF p \in write'[w].todo THEN node'[p].last = Len(h) - 1 ELSE write'[w].id \in node'[p].ids
    <3>1. CASE p = n
      BY <1>5, <1>9, <1>16, <3>1
    <3>2. CASE p # n
      BY <1>3, <1>5, <1>13, <1>21, <2>1, <3>2
    <3> QED BY <3>1, <3>2
  <2>2. Spreads(w, h)'
    BY <1>19, <1>23, <2>1 DEF Spreads
  <2> QED BY <1>2, <1>5, <2>2 DEF WriteAt, Midway
<1>26. \A p \in Nodes : Catches(p, h, k)'
  BY <1>6, <1>18 DEF Catches
<1>27. HistoryOK(h, k)' /\ Recorded(h)'
  BY <1>5 DEF Midway, HistoryOK, Recorded
<1>28. \A v \in Writers : v = w
  BY OneWriter
<1>29. History(h, k)'
  BY <1>20, <1>22, <1>24, <1>25, <1>26, <1>27, <1>28 DEF History
<1>30. \A p \in Nodes : Executed(node[p]) \subseteq Executed(node'[p])
  BY <1>8, <1>9, <1>13, <1>17
<1> QED
  BY <1>2, <1>9, <1>17, <1>29, <1>30

LEMMA HistoryDelivers ==
  ASSUME BaseInv, Calm, Serial, NEW h, NEW k, History(h, k),
         NEW w \in Writers, NEW n \in Nodes, NEW ok \in {0, 1}, Delivers(w, n, ok)
  PROVE  /\ \E h2, k2 : History(h2, k2)'
         /\ write[w].id \in Executed(node'[n])
         /\ \A p \in Nodes : Executed(node[p]) \subseteq Executed(node'[p])
<1>1. write[w].pc = "sending"
  BY DEF Delivers, Answers
<1>2. PICK h2, k2 : Midway(w, h2, k2)
  BY <1>1, DeliveryGrows
<1> QED
  BY <1>2, MidwayDelivers

(* A node goes away: its files stay. *)
LEMMA HistoryAway ==
  ASSUME BaseInv, NEW h, NEW k, History(h, k), NEW n \in Nodes, Only(n),
         SameFiles(node[n], node'[n]), node'[n].state # "SERVING",
         node'[n].state = "RECOVERING" => Unasked(n)',
         \A m \in Nodes \ {n} : node[m].state # "RECOVERING"
  PROVE  /\ History(h, k)'
         /\ \A p \in Nodes : Executed(node[p]) \subseteq Executed(node'[p])
<1>1. /\ \A m \in Nodes \ {n} : node'[m] = node[m] /\ recovery'[m] = recovery[m]
      /\ write' = write /\ used' = used /\ Done' = Done
  BY DEF Only, Done
<1>2. /\ node'[n].wal = node[n].wal /\ node'[n].last = node[n].last /\ node'[n].ids = node[n].ids
      /\ node'[n].compacted = node[n].compacted
  BY DEF SameFiles
<1>3. \A p \in Nodes : /\ node'[p].wal = node[p].wal /\ node'[p].last = node[p].last
                       /\ node'[p].ids = node[p].ids /\ node'[p].compacted = node[p].compacted
  BY <1>1, <1>2
<1>4. \A p \in Nodes : Serving(p)' => Serving(p)
  BY <1>1 DEF Serving
<1>5. HistoryOK(h, k)' /\ Recorded(h)'
  BY <1>1 DEF History, HistoryOK, Recorded
<1>6. AllFollow(h, k)'
  <2>1. Follows(node'[n], h, k)
    BY SameFilesFollows DEF History, AllFollow
  <2>2. \A p \in Nodes : Follows(node'[p], h, k)
    BY <1>1, <2>1 DEF History, AllFollow
  <2> QED BY <2>2 DEF AllFollow
<1>7. AllKnow'
  <2> SUFFICES ASSUME NEW m \in Nodes, NEW p \in Nodes PROVE Knows(p, m)'
    BY DEF AllKnow
  <2>1. Knows(p, m)
    BY DEF History, AllKnow
  <2> QED BY <1>3, <1>4, <2>1 DEF Knows
<1>8. EndsOK(h)'
  BY <1>1, <1>3, <1>4 DEF History, EndsOK, AtEnd, Under
<1>9. \A w \in Writers : WriteAt(w, h)'
  BY <1>1, <1>3, <1>4 DEF History, WriteAt, Untouched, Spreads, Under
<1>10. \A p \in Nodes : Catches(p, h, k)'
  BY <1>1 DEF Catches
<1>11. \A p \in Nodes : Executed(node[p]) \subseteq Executed(node'[p])
  <2>1. Executed(node'[n]) = Executed(node[n])
    BY BaseNode, SameFilesOK
  <2> QED BY <1>1, <2>1
<1> QED
  BY <1>5, <1>6, <1>7, <1>8, <1>9, <1>10, <1>11 DEF History

LEMMA HistoryCrashes ==
  ASSUME BaseInv, Calm, faults = {}, NEW h, NEW k, History(h, k), NEW n \in Nodes, Crashes(n)
  PROVE  /\ History(h, k)'
         /\ \A p \in Nodes : Executed(node[p]) \subseteq Executed(node'[p])
<1>1. /\ Only(n) /\ SameFiles(node[n], node'[n]) /\ node'[n].state = "DOWN"
      /\ \A m \in Nodes \ {n} : node[m].state # "RECOVERING"
  BY DEF Crashes
<1> QED
  BY <1>1, HistoryAway

LEMMA HistoryRecovers ==
  ASSUME BaseInv, Calm, faults = {}, NEW h, NEW k, History(h, k), NEW n \in Nodes, Recovers(n)
  PROVE  /\ History(h, k)'
         /\ \A p \in Nodes : Executed(node[p]) \subseteq Executed(node'[p])
<1>1. \A m \in Nodes \ {n} : Serving(m) /\ registered[m] # "GONE"
  BY DEF Recovers, Calm, OneAway, Listed, Serving
<1>2. Unasked(n)'
  <2>1. recovery'[n].todo = Nodes \ {n} /\ recovery'[n].entries = <<>>
    BY <1>1 DEF Recovers
  <2> QED BY <2>1 DEF Unasked
<1>3. /\ Only(n) /\ SameFiles(node[n], node'[n]) /\ node'[n].state = "RECOVERING"
      /\ \A m \in Nodes \ {n} : node[m].state # "RECOVERING"
  BY <1>1 DEF Recovers, Serving
<1> QED
  BY <1>2, <1>3, HistoryAway

LEMMA HistoryExpires ==
  ASSUME NEW h, NEW k, History(h, k), NEW n \in Nodes, Expires(n)
  PROVE  /\ History(h, k)'
         /\ \A p \in Nodes : Executed(node[p]) \subseteq Executed(node'[p])
<1>1. node' = node /\ recovery' = recovery /\ write' = write /\ used' = used /\ Done' = Done
  BY DEF Expires, Only, Done
<1>2. HistoryOK(h, k)' /\ AllFollow(h, k)' /\ AllKnow' /\ Recorded(h)'
  BY <1>1 DEF History, HistoryOK, AllFollow, AllKnow, Knows, Serving, Recorded
<1>3. EndsOK(h)' /\ \A w \in Writers : WriteAt(w, h)'
  BY <1>1 DEF History, EndsOK, AtEnd, WriteAt, Untouched, Spreads, Under, Serving
<1>4. \A p \in Nodes : Catches(p, h, k)'
  BY <1>1 DEF History, Catches, Unasked, Rest
<1> QED
  BY <1>1, <1>2, <1>3, <1>4 DEF History

(* While a node recovers no write is under way, and its peers are at the   *)
(* end of the history. *)
LEMMA PeersAtEnd ==
  ASSUME Calm, NEW h, NEW k, History(h, k), NEW n \in Nodes, node[n].state = "RECOVERING"
  PROVE  /\ \A w \in Writers : write[w].pc # "sending"
         /\ \A p \in Nodes \ {n} : Serving(p) /\ node[p].last = Len(h)
<1>1. \A w \in Writers : write[w].pc # "sending"
  BY DEF Calm, Apart
<1>2. \A p \in Nodes \ {n} : Serving(p)
  BY PeersServe DEF Calm, RecoveryOK
<1>3. \A p \in Nodes \ {n} : node[p].last = Len(h)
  BY <1>1, <1>2 DEF History, EndsOK, AtEnd, Under
<1> QED
  BY <1>1, <1>2, <1>3

(* A step of a node that recovers *)
LEMMA HistoryCatches ==
  ASSUME BaseInv, Calm, NEW h, NEW k, History(h, k), NEW n \in Nodes, Only(n),
         node[n].state = "RECOVERING", LogOK(node'[n]), Follows(node'[n], h, k),
         node'[n].last >= node[n].last, node'[n].state = "SERVING" => node'[n].last = Len(h),
         AllKnow', Catches(n, h, k)'
  PROVE  /\ History(h, k)'
         /\ \A p \in Nodes : Executed(node[p]) \subseteq Executed(node'[p])
<1>1. /\ \A m \in Nodes \ {n} : node'[m] = node[m] /\ recovery'[m] = recovery[m]
      /\ write' = write /\ used' = used /\ Done' = Done
  BY DEF Only, Done
<1>2. /\ \A w \in Writers : write[w].pc # "sending"
      /\ \A p \in Nodes \ {n} : Serving(p) /\ node[p].last = Len(h)
  BY PeersAtEnd
<1>3. HistoryOK(h, k)' /\ Recorded(h)'
  BY <1>1 DEF History, HistoryOK, Recorded
<1>4. h \in Seq(RequestIds) /\ Len(h) \in Nat /\ LogOK(node[n]) /\ Follows(node[n], h, k)
  BY BaseNode DEF History, HistoryOK, AllFollow
<1>5. AllFollow(h, k)'
  <2>1. \A p \in Nodes : Follows(node'[p], h, k)
    BY <1>1 DEF History, AllFollow
  <2> QED BY <2>1 DEF AllFollow
<1>6. node[n].last \in Nat /\ node'[n].last \in Nat /\ node'[n].last <= Len(h)
  BY <1>4, NodeFields DEF LogOK, Follows, Tracks
<1>7. EndsOK(h)'
  <2>1. \A p \in Nodes : Serving(p)' => node'[p].last = Len(h)
    BY <1>1, <1>2 DEF Serving
  <2>2. PICK p \in Nodes : node[p].last = Len(h)
    BY DEF History, EndsOK
  <2>3. node'[p].last = Len(h)
    <3>1. CASE p = n
      BY <1>4, <1>6, <2>2, <3>1
    <3>2. CASE p # n
      BY <1>1, <2>2, <3>2
    <3> QED BY <3>1, <3>2
  <2> QED BY <2>1, <2>3 DEF EndsOK, AtEnd
<1>8. \A w \in Writers : WriteAt(w, h)'
  BY <1>1, <1>2 DEF WriteAt
<1>9. \A p \in Nodes : Catches(p, h, k)'
  <2>1. \A p \in Nodes \ {n} : node'[p].state # "RECOVERING"
    BY <1>1, <1>2 DEF Serving
  <2> QED BY <2>1 DEF Catches
<1>10. \A p \in Nodes : Executed(node[p]) \subseteq Executed(node'[p])
  <2>1. PICK a : a = node[n]
    OBVIOUS
  <2>2. PICK b : b = node'[n]
    OBVIOUS
  <2>3. Executed(a) = {h[j] : j \in 1 .. a.last} /\ Executed(b) = {h[j] : j \in 1 .. b.last}
    BY <1>4, <2>1, <2>2, TracksContent DEF Follows
  <2>4. \A j \in 1 .. a.last : j \in 1 .. b.last
    BY <1>6, <2>1, <2>2
  <2>5. Executed(a) \subseteq Executed(b)
    BY <2>3, <2>4
  <2> QED BY <1>1, <2>1, <2>2, <2>5
<1> QED
  BY <1>3, <1>5, <1>7, <1>8, <1>9, <1>10 DEF History

LEMMA HistoryServes ==
  ASSUME BaseInv, Calm, NEW h, NEW k, History(h, k), NEW n \in Nodes, Serves(n)
  PROVE  /\ History(h, k)'
         /\ \A p \in Nodes : Executed(node[p]) \subseteq Executed(node'[p])
<1>1. /\ Only(n) /\ recovery[n].todo = {} /\ recovery[n].entries = <<>>
      /\ node'[n].state = "SERVING" /\ node[n].state = "RECOVERING"
  BY DEF Serves, Calm, RecoveryOK
<1>2. /\ h \in Seq(RequestIds) /\ Len(h) \in Nat /\ LogOK(node[n]) /\ Follows(node[n], h, k)
      /\ Points(k, Len(h))
  BY BaseNode DEF History, HistoryOK, AllFollow
<1>3. /\ node[n].last \in Nat /\ node[n].last <= Len(h) /\ node[n] \in NodeStates
      /\ node[n].compacted \in Nat
  BY <1>2, NodeFields DEF LogOK, Follows, Tracks
<1>4. Len(recovery[n].entries) = 0
  BY <1>1
<1>5. node[n].last = Len(h) /\ \A q \in Nodes \ {n} : \A i \in 1 .. Len(node[q].wal) :
                                  node[q].wal[i].requestId \in node[n].ids
  <2>1. CASE Unasked(n)
    <3>1. Nodes \ {n} = {}
      BY <1>1, <2>1 DEF Unasked
    <3>2. PICK p \in Nodes : node[p].last = Len(h)
      BY DEF History, EndsOK
    <3>3. p = n
      BY <3>1
    <3> QED BY <3>1, <3>2, <3>3
  <2>2. CASE Rest(n, h, recovery[n].entries)
    <3>0. \A i \in 1 .. 0 : FALSE
      OBVIOUS
    <3>1. \A j \in node[n].last + 1 .. Len(h) : FALSE
      BY <1>4, <2>2, <3>0 DEF Rest
    <3>2. node[n].last = Len(h)
      <4>1. Len(h) \notin node[n].last + 1 .. Len(h)
        BY <3>1
      <4> QED BY <1>2, <1>3, <4>1
    <3>3. \A q \in Nodes \ {n} : \A i \in 1 .. Len(node[q].wal) : node[q].wal[i].requestId \in node[n].ids
      BY <1>1, <1>4, <2>2, <3>0 DEF Rest
    <3> QED BY <3>2, <3>3
  <2>3. Catches(n, h, k)
    BY DEF History
  <2> QED BY <1>1, <2>1, <2>2, <2>3 DEF Catches
<1>6. node[n].last - node[n].compacted < SnapshotThreshold
  <2>1. node[n].compacted = k[node[n].last] /\ Len(h) \in 0 .. Len(h)
    BY <1>2 DEF Follows
  <2>2. Len(h) - k[Len(h)] < SnapshotThreshold
    BY <1>2, <2>1, PointsFacts
  <2> QED BY <1>5, <2>1, <2>2
<1>7. SameFiles(node[n], node'[n])
  <2>1. maybeSnapshot(node[n]) = node[n]
    BY <1>3, <1>6, SnapshotIs
  <2> QED BY <2>1 DEF Serves
<1>8. /\ node'[n].wal = node[n].wal /\ node'[n].last = node[n].last /\ node'[n].ids = node[n].ids
      /\ node'[n].compacted = node[n].compacted
      /\ \A m \in Nodes \ {n} : node'[m] = node[m]
  BY <1>1, <1>7 DEF SameFiles, Only
<1>9. LogOK(node'[n]) /\ Follows(node'[n], h, k)
  BY <1>2, <1>7, SameFilesOK, SameFilesFollows
<1>10. AllKnow'
  <2> SUFFICES ASSUME NEW m \in Nodes, NEW p \in Nodes, NEW i \in 1 .. Len(node'[m].wal),
                      \/ node'[m].wal[i].sequence <= node'[m].compacted
                      \/ Serving(p)' /\ node'[m].wal[i].sequence <= node'[p].last
               PROVE  node'[m].wal[i].requestId \in node'[p].ids
    BY DEF AllKnow, Knows
  <2>1. Knows(p, m)
    BY DEF History, AllKnow
  <2>2. CASE p # n
    BY <1>8, <2>1, <2>2 DEF Knows, Serving
  <2>3. CASE p = n /\ m = n
    BY <1>9, <2>3 DEF LogOK
  <2>4. CASE p = n /\ m # n
    BY <1>5, <1>8, <2>4
  <2> QED BY <2>2, <2>3, <2>4
<1>11. Catches(n, h, k)'
  BY <1>1 DEF Catches
<1>12. node'[n].last >= node[n].last /\ node'[n].last = Len(h)
  BY <1>2, <1>5, <1>8
<1> QED
  BY <1>1, <1>9, <1>10, <1>11, <1>12, HistoryCatches

(* Peer m answers node n. *)
LEMMA HistoryFetches ==
  ASSUME BaseInv, Calm, NEW h, NEW k, History(h, k), NEW n \in Nodes, NEW m \in Nodes, Fetches(n, m)
  PROVE  /\ History(h, k)'
         /\ \A p \in Nodes : Executed(node[p]) \subseteq Executed(node'[p])
<1>1. /\ Only(n) /\ m \in recovery[n].todo /\ recovery[n].entries = <<>>
      /\ recovery'[n].todo = recovery[n].todo \ {m}
      /\ node[n].state = "RECOVERING" /\ m # n
  BY DEF Fetches, Calm, RecoveryOK
<1>2. /\ h \in Seq(RequestIds) /\ Len(h) \in Nat /\ Injective(h) /\ Points(k, Len(h))
      /\ \A p \in Nodes : LogOK(node[p]) /\ Follows(node[p], h, k)
  BY BaseNode DEF History, HistoryOK, AllFollow
<1>3. \A p \in Nodes \ {n} : Serving(p) /\ node[p].last = Len(h) /\ node'[p] = node[p]
  BY <1>1, PeersAtEnd DEF Only
<1>4. PICK nd : nd = node[n]
  OBVIOUS
<1>5. PICK peer : peer = node[m]
  OBVIOUS
<1>6. PICK r : r = node'[n]
  OBVIOUS
<1>7. PICK es : es = recovery'[n].entries
  OBVIOUS
<1>8. /\ LogOK(nd) /\ LogOK(peer) /\ Follows(nd, h, k) /\ Follows(peer, h, k) /\ peer.last = Len(h)
      /\ r = installPeerSnapshotIfNewer(nd, peer) /\ OfferedFrom(nd, peer, es)
  BY <1>1, <1>2, <1>3, <1>4, <1>5, <1>6, <1>7 DEF Fetches
<1>9. /\ Follows(r, h, k) /\ r.compacted = k[Len(h)] /\ r.ids = nd.ids /\ r.wal = nd.wal
      /\ r.last >= nd.last /\ r.last \in Nat
  BY <1>2, <1>8, InstallFollows
<1>10. LogOK(r) /\ r.state = nd.state
  BY <1>8, InstallOK, KeepState
<1>11. peer.compacted = k[Len(h)]
  BY <1>8 DEF Follows
<1>12. /\ nd.last \in Nat /\ peer.compacted \in Nat /\ Len(peer.wal) \in Nat /\ r.compacted <= r.last
       /\ nd.last <= Len(h) /\ r.last <= Len(h)
       /\ \A i \in 1 .. Len(peer.wal) : peer.wal[i].sequence \in Nat /\ peer.wal[i].sequence <= Len(h)
                                        /\ peer.wal[i].sequence # 0
       /\ \A i \in 1 .. Len(nd.wal) : nd.wal[i].sequence \in Nat /\ nd.wal[i].sequence <= nd.last
  <2>1. /\ nd \in NodeStates /\ peer \in NodeStates /\ r.compacted <= r.last
        /\ \A i \in 1 .. Len(nd.wal) : nd.wal[i].sequence <= nd.last
        /\ \A i \in 1 .. Len(peer.wal) : peer.wal[i].sequence <= peer.last
    BY <1>8, <1>10 DEF LogOK
  <2>2. nd.last <= Len(h) /\ r.last <= Len(h)
    BY <1>8, <1>9 DEF Follows, Tracks
  <2>3. /\ nd.last \in Nat /\ peer.compacted \in Nat /\ Len(peer.wal) \in Nat
        /\ \A i \in 1 .. Len(peer.wal) : peer.wal[i].sequence \in Nat \ {0}
        /\ \A i \in 1 .. Len(nd.wal) : nd.wal[i].sequence \in Nat \ {0}
    BY <2>1, NodeFields
  <2> QED BY <1>8, <2>1, <2>2, <2>3
<1>13. AllKnow'
  <2> SUFFICES ASSUME NEW q \in Nodes, NEW p \in Nodes, NEW i \in 1 .. Len(node'[q].wal),
                      \/ node'[q].wal[i].sequence <= node'[q].compacted
                      \/ Serving(p)' /\ node'[q].wal[i].sequence <= node'[p].last
               PROVE  node'[q].wal[i].requestId \in node'[p].ids
    BY DEF AllKnow, Knows
  <2>1. Knows(p, q)
    BY DEF History, AllKnow
  <2>2. CASE p = n /\ q = n
    BY <1>6, <1>10, <2>2 DEF LogOK
  <2>3. CASE p # n /\ q # n
    BY <1>3, <2>1, <2>3 DEF Knows, Serving
  <2>4. CASE p = n /\ q # n
    <3>1. node'[q] = node[q] /\ node'[p].ids = node[p].ids /\ ~Serving(p)'
      BY <1>1, <1>3, <1>4, <1>6, <1>9, <1>10, <2>4 DEF Serving
    <3> QED BY <2>1, <3>1 DEF Knows
  <2>5. CASE p # n /\ q = n
    <3>1. node'[q].wal = nd.wal /\ node[q] = nd /\ node'[p] = node[p] /\ Serving(p) /\ node[p].last = Len(h)
      BY <1>3, <1>4, <1>6, <1>9, <2>5
    <3>2. nd.wal[i].sequence <= Len(h)
      BY <1>2, <1>12, <3>1
    <3> QED BY <2>1, <3>1, <3>2 DEF Knows
  <2> QED BY <2>2, <2>3, <2>4, <2>5
<1>14. /\ Len(es) = Len(peer.wal)
       /\ \A i \in 1 .. Len(peer.wal) :
             /\ es[i].sequence = peer.wal[i].sequence /\ es[i].requestId = peer.wal[i].requestId
             /\ es[i].known <=> peer.wal[i].requestId \in nd.ids
  BY <1>8, KnownIdsIs DEF OfferedFrom
<1>15. \A i \in 1 .. Len(peer.wal) : peer.wal[i].requestId = h[peer.wal[i].sequence]
  BY <1>8 DEF Follows, Tracks
<1>16. ASSUME NEW i \in 1 .. Len(peer.wal)
       PROVE  es[i].known <=> es[i].sequence <= r.last
  <2>1. PICK s : s = peer.wal[i].sequence
    OBVIOUS
  <2>2. s \in Nat /\ s \in 1 .. Len(h) /\ peer.wal[i].requestId = h[s]
    BY <1>2, <1>12, <1>15, <2>1
  <2>3. ASSUME h[s] \in nd.ids PROVE s <= r.last
    <3>1. PICK j \in 1 .. nd.last : h[s] = h[j]
      BY <1>8, <2>3 DEF Follows, Tracks
    <3>2. j \in 1 .. Len(h)
      BY <1>2, <1>12
    <3>3. s = j
      BY <1>2, <2>2, <3>1, <3>2 DEF Injective
    <3> QED BY <1>9, <1>12, <3>3
  <2>4. ASSUME s <= r.last PROVE h[s] \in nd.ids
    <3>1. CASE s <= peer.compacted
      <4>1. Knows(n, m)
        BY DEF History, AllKnow
      <4> QED BY <1>4, <1>5, <2>1, <2>2, <3>1, <4>1 DEF Knows
    <3>2. CASE ~(s <= peer.compacted)
      <4>1. s \in r.compacted + 1 .. r.last
        BY <1>9, <1>11, <1>12, <2>2, <2>4, <3>2
      <4>2. PICK j \in 1 .. Len(r.wal) : r.wal[j].sequence = s
        BY <1>9, <4>1 DEF Follows, Tracks
      <4>3. r.wal[j].requestId = h[s] /\ r.wal[j].requestId \in r.ids
        BY <1>9, <1>10, <4>2 DEF Follows, Tracks, LogOK
      <4> QED BY <1>9, <4>3
    <3> QED BY <3>1, <3>2
  <2> QED BY <1>14, <2>1, <2>2, <2>3, <2>4
<1>17. ASSUME NEW i \in 1 .. Len(peer.wal), NEW p \in Nodes \ {n}
       PROVE  peer.wal[i].requestId \in node[p].ids
  <2>1. Knows(p, m)
    BY DEF History, AllKnow
  <2>2. Serving(p) /\ peer.wal[i].sequence <= node[p].last
    BY <1>3, <1>12
  <2> QED BY <1>5, <2>1, <2>2 DEF Knows
<1>18. ASSUME NEW j \in r.last + 1 .. Len(h) PROVE \E i \in 1 .. Len(es) : es[i].sequence = j
  <2>1. j \in peer.compacted + 1 .. peer.last
    BY <1>2, <1>8, <1>9, <1>11, <1>12
  <2>2. PICK i \in 1 .. Len(peer.wal) : peer.wal[i].sequence = j
    BY <1>8, <2>1 DEF Follows, Tracks
  <2> QED BY <1>14, <2>2
<1>19. ASSUME NEW q \in (Nodes \ {n}) \ recovery'[n].todo, NEW i \in 1 .. Len(node[q].wal)
       PROVE  \/ node[q].wal[i].requestId \in r.ids
              \/ \E j \in 1 .. Len(es) : es[j].requestId = node[q].wal[i].requestId /\ ~es[j].known
  <2>1. CASE q = m
    BY <1>5, <1>9, <1>14, <2>1
  <2>2. CASE q # m
    <3>1. q \notin recovery[n].todo
      BY <1>1, <2>2
    <3>2. Rest(n, h, recovery[n].entries)
      BY <1>1, <3>1 DEF History, Catches, Unasked
    <3>3. Len(recovery[n].entries) = 0 /\ \A j \in 1 .. 0 : FALSE
      BY <1>1
    <3>4. node[q].wal[i].requestId \in node[n].ids
      BY <3>1, <3>2, <3>3 DEF Rest
    <3> QED BY <1>4, <1>9, <3>4
  <2> QED BY <2>1, <2>2
<1>20. \A i, j \in 1 .. Len(es) : i < j => es[i].sequence < es[j].sequence
  BY <1>8, <1>14 DEF LogOK
<1>21. Rest(n, h, recovery[n].entries)'
  <2>1. \A i \in 1 .. Len(es) : /\ es[i].sequence <= Len(h) /\ es[i].requestId = h[es[i].sequence]
                                /\ es[i].known <=> es[i].sequence <= node'[n].last
                                /\ es[i].known => es[i].requestId \in node'[n].ids
                                /\ \A p \in Nodes \ {n} : es[i].requestId \in node'[p].ids
    BY <1>3, <1>6, <1>9, <1>12, <1>14, <1>15, <1>16, <1>17
  <2>2. \A q \in (Nodes \ {n}) \ recovery'[n].todo : \A i \in 1 .. Len(node'[q].wal) :
           \/ node'[q].wal[i].requestId \in node'[n].ids
           \/ \E j \in 1 .. Len(es) : es[j].requestId = node'[q].wal[i].requestId /\ ~es[j].known
    BY <1>3, <1>6, <1>19
  <2>3. \A j \in node'[n].last + 1 .. Len(h) : \E i \in 1 .. Len(es) : es[i].sequence = j
    BY <1>6, <1>18
  <2> QED BY <1>7, <1>20, <2>1, <2>2, <2>3 DEF Rest
<1>22. Catches(n, h, k)'
  BY <1>6, <1>9, <1>21 DEF Catches
<1>23. node'[n].state # "SERVING"
  BY <1>1, <1>4, <1>6, <1>10
<1> QED
  BY <1>1, <1>4, <1>6, <1>9, <1>10, <1>13, <1>22, <1>23, HistoryCatches

(* The next entry of the answer *)
LEMMA HistoryTakes ==
  ASSUME BaseInv, Calm, NEW h, NEW k, History(h, k), NEW n \in Nodes, NEW e \in PeerEntries, Takes(n, e)
  PROVE  /\ History(h, k)'
         /\ \A p \in Nodes : Executed(node[p]) \subseteq Executed(node'[p])
<1>1. /\ Only(n) /\ recovery[n].entries # <<>> /\ node[n].state = "RECOVERING"
      /\ recovery'[n].todo = recovery[n].todo
  BY DEF Takes, Calm, RecoveryOK
<1>2. /\ h \in Seq(RequestIds) /\ Len(h) \in Nat /\ Injective(h) /\ Points(k, Len(h))
      /\ \A p \in Nodes : LogOK(node[p]) /\ Follows(node[p], h, k)
  BY BaseNode DEF History, HistoryOK, AllFollow
<1>3. \A p \in Nodes \ {n} : node'[p] = node[p]
  BY <1>1 DEF Only
<1>4. PICK nd : nd = node[n]
  OBVIOUS
<1>5. PICK r : r = node'[n]
  OBVIOUS
<1>6. PICK es : es = recovery[n].entries
  OBVIOUS
<1>7. PICK rest : rest = recovery'[n].entries
  OBVIOUS
<1>8. PICK M : M = Len(es)
  OBVIOUS
<1>9. /\ M \in Nat \ {0} /\ e = es[1] /\ Len(rest) = M - 1 /\ \A i \in 1 .. M - 1 : rest[i] = es[i + 1]
      /\ IF e.known THEN r = nd ELSE r = Logged(nd, e.requestId, e.sequence)
  BY <1>4, <1>5, <1>6, <1>7, <1>8 DEF Takes
<1>10. nd.compacted = k[Len(h)] /\ Rest(n, h, es)
  BY <1>1, <1>4, <1>6 DEF History, Catches, Unasked
<1>11. /\ LogOK(nd) /\ Follows(nd, h, k) /\ nd.last \in Nat /\ nd.last <= Len(h) /\ Len(nd.wal) \in Nat
  <2>1. LogOK(nd) /\ Follows(nd, h, k)
    BY <1>2, <1>4
  <2> QED BY <2>1, NodeFields DEF LogOK, Follows, Tracks
<1>12. \A i \in 1 .. M : /\ es[i].sequence <= Len(h) /\ es[i].requestId = h[es[i].sequence]
                         /\ es[i].known <=> es[i].sequence <= nd.last
                         /\ es[i].known => es[i].requestId \in nd.ids
                         /\ \A p \in Nodes \ {n} : es[i].requestId \in node[p].ids
  BY <1>4, <1>8, <1>10 DEF Rest
<1>13. \A i, j \in 1 .. M : i < j => es[i].sequence < es[j].sequence
  BY <1>8, <1>10 DEF Rest
<1>14. \A j \in nd.last + 1 .. Len(h) : \E i \in 1 .. M : es[i].sequence = j
  BY <1>4, <1>8, <1>10 DEF Rest
<1>15. \A q \in (Nodes \ {n}) \ recovery[n].todo : \A i \in 1 .. Len(node[q].wal) :
          \/ node[q].wal[i].requestId \in nd.ids
          \/ \E j \in 1 .. M : es[j].requestId = node[q].wal[i].requestId /\ ~es[j].known
  BY <1>4, <1>8, <1>10 DEF Rest
<1>16. 1 \in 1 .. M /\ \A i \in 1 .. M - 1 : i + 1 \in 1 .. M /\ 1 < i + 1
  BY <1>9
<1>17. ASSUME NEW j \in 1 .. M, j # 1 PROVE \E i \in 1 .. M - 1 : rest[i] = es[j]
  <2>1. j - 1 \in 1 .. M - 1 /\ (j - 1) + 1 = j
    BY <1>9, <1>17
  <2>2. rest[j - 1] = es[j]
    BY <1>9, <2>1
  <2> QED BY <2>1, <2>2
<1>18. \A i \in 1 .. M : es[i].sequence \in Nat \ {0}
  <2>1. es \in Seq(PeerEntries)
    BY <1>6, BaseNode
  <2>2. \A i \in 1 .. M : es[i] \in PeerEntries
    BY <1>8, <2>1, ElementOfSeq
  <2> QED BY <2>2 DEF PeerEntries
<1>19. \A i, j \in 1 .. M - 1 : i < j => rest[i].sequence < rest[j].sequence
  <2> SUFFICES ASSUME NEW i \in 1 .. M - 1, NEW j \in 1 .. M - 1, i < j
               PROVE  rest[i].sequence < rest[j].sequence
    OBVIOUS
  <2>1. i + 1 \in 1 .. M /\ j + 1 \in 1 .. M /\ i + 1 < j + 1
    BY <1>9
  <2> QED BY <1>9, <1>13, <2>1
<1>20. /\ LogOK(r) /\ Follows(r, h, k) /\ r.last \in Nat /\ r.last >= nd.last /\ r.compacted = nd.compacted
       /\ r.state = nd.state /\ nd.ids \subseteq r.ids
       /\ e.requestId \in r.ids
       /\ e.sequence <= r.last
       /\ \A i \in 1 .. M - 1 : rest[i].known <=> rest[i].sequence <= r.last
       /\ \A i \in 1 .. Len(r.wal) : \/ i \in 1 .. Len(nd.wal) /\ r.wal[i] = nd.wal[i]
                                     \/ r.wal[i].requestId = e.requestId
  <2>1. CASE e.known
    <3>1. r = nd /\ e.requestId \in nd.ids /\ e.sequence <= nd.last
      BY <1>9, <1>12, <1>16, <2>1
    <3>2. \A i \in 1 .. M - 1 : rest[i].known <=> rest[i].sequence <= nd.last
      BY <1>9, <1>12, <1>16
    <3>3. nd.last >= nd.last
      BY <1>11
    <3> QED BY <1>11, <3>1, <3>2, <3>3
  <2>2. CASE ~e.known
    <3>1. ~(e.sequence <= nd.last) /\ e.sequence <= Len(h) /\ e.sequence \in Nat /\ e.requestId = h[e.sequence]
      BY <1>9, <1>12, <1>16, <1>18, <2>2
    <3>2. nd.last + 1 \in nd.last + 1 .. Len(h)
      BY <1>2, <1>11, <3>1
    <3>3. PICK a \in 1 .. M : es[a].sequence = nd.last + 1
      BY <1>14, <3>2
    <3>4. e.sequence = nd.last + 1
      <4>1. CASE a = 1
        BY <1>9, <3>3, <4>1
      <4>2. CASE a # 1
        <5>1. 1 < a
          BY <4>2
        <5>2. es[1].sequence < es[a].sequence
          BY <1>13, <1>16, <5>1
        <5> QED BY <1>9, <1>11, <3>1, <3>3, <5>2
      <4> QED BY <4>1, <4>2
    <3>5. PICK id : id = e.requestId
      OBVIOUS
    <3>6. id = h[nd.last + 1] /\ nd.last + 1 <= Len(h) /\ r = Logged(nd, id, nd.last + 1)
      BY <1>9, <2>2, <3>1, <3>4, <3>5
    <3>7. Follows(r, h, k) /\ OneMore(nd, r, id, nd.last + 1)
      BY <1>2, <1>10, <1>11, <3>6, TakeFollows
    <3>8. LogOK(r)
      <4>1. id \in RequestIds /\ nd.last + 1 \in Nat
        BY <1>11, <3>5 DEF PeerEntries
      <4> QED BY <1>11, <3>6, <4>1, LoggedOK
    <3>9. /\ r.last = nd.last + 1 /\ r.compacted = nd.compacted /\ r.state = nd.state
          /\ r.ids = nd.ids \cup {id} /\ Len(r.wal) = Len(nd.wal) + 1
          /\ \A i \in 1 .. Len(nd.wal) : r.wal[i] = nd.wal[i]
          /\ r.wal[Len(nd.wal) + 1].requestId = id
      BY <3>7 DEF OneMore
    <3>10. \A i \in 1 .. Len(nd.wal) + 1 : i = Len(nd.wal) + 1 \/ i \in 1 .. Len(nd.wal)
      BY <1>11
    <3>11. \A i \in 1 .. Len(r.wal) : \/ i \in 1 .. Len(nd.wal) /\ r.wal[i] = nd.wal[i]
                                      \/ r.wal[i].requestId = e.requestId
      BY <3>5, <3>9, <3>10
    <3>12. ASSUME NEW i \in 1 .. M - 1 PROVE rest[i].known <=> rest[i].sequence <= r.last
      <4>1. es[1].sequence < es[i + 1].sequence /\ es[i + 1].sequence \in Nat
        BY <1>13, <1>16, <1>18
      <4>2. ~(es[i + 1].sequence <= nd.last) /\ ~(es[i + 1].sequence <= nd.last + 1)
        BY <1>9, <1>11, <3>4, <4>1
      <4>3. ~es[i + 1].known
        BY <1>12, <1>16, <4>2
      <4> QED BY <1>9, <3>9, <4>2, <4>3
    <3>13. r.last \in Nat /\ r.last >= nd.last /\ e.sequence <= r.last
      BY <1>11, <3>4, <3>9
    <3> QED BY <3>5, <3>7, <3>8, <3>9, <3>11, <3>12, <3>13
  <2> QED BY <2>1, <2>2
<1>21. AllKnow'
  <2> SUFFICES ASSUME NEW q \in Nodes, NEW p \in Nodes, NEW i \in 1 .. Len(node'[q].wal),
                      \/ node'[q].wal[i].sequence <= node'[q].compacted
                      \/ Serving(p)' /\ node'[q].wal[i].sequence <= node'[p].last
               PROVE  node'[q].wal[i].requestId \in node'[p].ids
    BY DEF AllKnow, Knows
  <2>1. Knows(p, q)
    BY DEF History, AllKnow
  <2>2. CASE p = n /\ q = n
    BY <1>5, <1>20, <2>2 DEF LogOK
  <2>3. CASE p # n /\ q # n
    BY <1>3, <2>1, <2>3 DEF Knows, Serving
  <2>4. CASE p = n /\ q # n
    <3>1. node'[q] = node[q] /\ node[p].ids \subseteq node'[p].ids /\ ~Serving(p)'
      BY <1>1, <1>3, <1>4, <1>5, <1>20, <2>4 DEF Serving
    <3> QED BY <2>1, <3>1 DEF Knows
  <2>5. CASE p # n /\ q = n
    <3>1. /\ node'[q] = r /\ node[q] = nd /\ node'[p] = node[p] /\ r.compacted = nd.compacted
          /\ Serving(p)' <=> Serving(p)
      BY <1>3, <1>4, <1>5, <1>20, <2>5 DEF Serving
    <3>2. CASE i \in 1 .. Len(nd.wal) /\ r.wal[i] = nd.wal[i]
      BY <2>1, <3>1, <3>2 DEF Knows
    <3>3. CASE r.wal[i].requestId = e.requestId
      BY <1>9, <1>12, <1>16, <2>5, <3>1, <3>3
    <3> QED BY <1>20, <3>1, <3>2, <3>3
  <2> QED BY <2>2, <2>3, <2>4, <2>5
<1>22. Rest(n, h, recovery[n].entries)'
  <2>1. \A i \in 1 .. M - 1 : /\ rest[i].sequence <= Len(h) /\ rest[i].requestId = h[rest[i].sequence]
                              /\ rest[i].known <=> rest[i].sequence <= r.last
                              /\ rest[i].known => rest[i].requestId \in r.ids
                              /\ \A p \in Nodes \ {n} : rest[i].requestId \in node'[p].ids
    <3> SUFFICES ASSUME NEW i \in 1 .. M - 1
                 PROVE  /\ rest[i].sequence <= Len(h) /\ rest[i].requestId = h[rest[i].sequence]
                        /\ rest[i].known => rest[i].requestId \in r.ids
                        /\ \A p \in Nodes \ {n} : rest[i].requestId \in node'[p].ids
      BY <1>20
    <3>1. rest[i] = es[i + 1] /\ i + 1 \in 1 .. M
      BY <1>9, <1>16
    <3> QED BY <1>3, <1>12, <1>20, <3>1
  <2>2. ASSUME NEW j \in r.last + 1 .. Len(h) PROVE \E i \in 1 .. M - 1 : rest[i].sequence = j
    <3>1. j \in nd.last + 1 .. Len(h) /\ ~(j <= r.last)
      BY <1>2, <1>11, <1>20
    <3>2. PICK a \in 1 .. M : es[a].sequence = j
      BY <1>14, <3>1
    <3>3. a # 1
      BY <1>9, <1>20, <3>1, <3>2
    <3> QED BY <1>17, <3>2, <3>3
  <2>3. ASSUME NEW q \in (Nodes \ {n}) \ recovery[n].todo, NEW i \in 1 .. Len(node[q].wal)
        PROVE  \/ node[q].wal[i].requestId \in r.ids
               \/ \E j \in 1 .. M - 1 : rest[j].requestId = node[q].wal[i].requestId /\ ~rest[j].known
    <3>1. CASE node[q].wal[i].requestId \in nd.ids
      BY <1>20, <3>1
    <3>2. CASE \E j \in 1 .. M : es[j].requestId = node[q].wal[i].requestId /\ ~es[j].known
      <4>1. PICK j \in 1 .. M : es[j].requestId = node[q].wal[i].requestId /\ ~es[j].known
        BY <3>2
      <4>2. CASE j = 1
        BY <1>9, <1>20, <4>1, <4>2
      <4>3. CASE j # 1
        BY <1>17, <4>1, <4>3
      <4> QED BY <4>2, <4>3
    <3> QED BY <1>15, <3>1, <3>2
  <2>4. \A q \in (Nodes \ {n}) \ recovery'[n].todo : \A i \in 1 .. Len(node'[q].wal) :
           \/ node'[q].wal[i].requestId \in r.ids
           \/ \E j \in 1 .. M - 1 : rest[j].requestId = node'[q].wal[i].requestId /\ ~rest[j].known
    BY <1>1, <1>3, <2>3
  <2> QED BY <1>5, <1>7, <1>9, <1>19, <2>1, <2>2, <2>4 DEF Rest
<1>23. Catches(n, h, k)'
  BY <1>5, <1>10, <1>20, <1>22 DEF Catches
<1>24. node'[n].state # "SERVING"
  BY <1>1, <1>4, <1>5, <1>20
<1> QED
  BY <1>1, <1>4, <1>5, <1>20, <1>21, <1>23, <1>24, HistoryCatches

(* Every step keeps a history, and no node loses a request. *)
LEMMA HistoryStep ==
  ASSUME BaseInv, Calm, faults = {}, Serial, NEW h, NEW k, History(h, k), [Next]_vars
  PROVE  /\ \E h2, k2 : History(h2, k2)'
         /\ \A p \in Nodes : Executed(node[p]) \subseteq Executed(node'[p])
<1>1. CASE UNCHANGED vars
  <2>1. node' = node /\ recovery' = recovery /\ write' = write /\ used' = used /\ Done' = Done
    BY <1>1 DEF vars, Done
  <2>2. HistoryOK(h, k)' /\ AllFollow(h, k)' /\ AllKnow' /\ Recorded(h)'
    BY <2>1 DEF History, HistoryOK, AllFollow, AllKnow, Knows, Serving, Recorded
  <2>3. EndsOK(h)' /\ \A w \in Writers : WriteAt(w, h)'
    BY <2>1 DEF History, EndsOK, AtEnd, WriteAt, Untouched, Spreads, Under, Serving
  <2>4. \A p \in Nodes : Catches(p, h, k)'
    BY <2>1 DEF History, Catches, Unasked, Rest
  <2>5. History(h, k)'
    BY <2>2, <2>3, <2>4 DEF History
  <2> QED BY <2>1, <2>5
<1>2. CASE CoordinatorStep
  <2>1. PICK w \in Writers : \/ Begins(w)
                             \/ \E n \in Nodes, ok \in {0, 1} : Delivers(w, n, ok)
                             \/ \E n \in Nodes : Fails(w, n)
                             \/ Ends(w)
    BY <1>2 DEF CoordinatorStep
  <2>2. CASE Begins(w)
    <3>1. node' = node /\ History(h, k)'
      BY <2>2, HistoryBegins DEF Begins
    <3> QED BY <3>1
  <2>3. CASE \E n \in Nodes, ok \in {0, 1} : Delivers(w, n, ok)
    BY <2>3, HistoryDelivers
  <2>4. CASE \E n \in Nodes : Fails(w, n)
    <3>1. node' = node /\ History(h, k)'
      BY <2>4, HistoryFails DEF Fails
    <3> QED BY <3>1
  <2>5. CASE Ends(w)
    <3>1. node' = node /\ History(h, k)'
      BY <2>5, HistoryEnds DEF Ends
    <3> QED BY <3>1
  <2> QED BY <2>1, <2>2, <2>3, <2>4, <2>5
<1>3. CASE ReplicaStep
  <2>1. PICK n \in Nodes : \/ Crashes(n) \/ Expires(n) \/ Recovers(n)
                           \/ \E m \in Nodes : Fetches(n, m)
                           \/ \E m \in Nodes : Skips(n, m)
                           \/ \E e \in PeerEntries : Takes(n, e)
                           \/ Serves(n)
    BY <1>3 DEF ReplicaStep
  <2>2. CASE Crashes(n)
    BY <2>2, HistoryCrashes
  <2>3. CASE Expires(n)
    BY <2>3, HistoryExpires
  <2>4. CASE Recovers(n)
    BY <2>4, HistoryRecovers
  <2>5. CASE \E m \in Nodes : Fetches(n, m)
    BY <2>5, HistoryFetches
  <2>6. CASE \E m \in Nodes : Skips(n, m)
    <3>1. PICK m \in Nodes : Skips(n, m)
      BY <2>6
    <3>2. m \in recovery[n].todo /\ ~HttpUp(m)
      BY <3>1 DEF Skips
    <3>3. m # n /\ recovery[n].kind # "none"
      BY <3>2 DEF Calm, RecoveryOK
    <3> QED BY <3>2, <3>3, PeersServe
  <2>7. CASE \E e \in PeerEntries : Takes(n, e)
    BY <2>7, HistoryTakes
  <2>8. CASE Serves(n)
    BY <2>8, HistoryServes
  <2> QED BY <2>1, <2>2, <2>3, <2>4, <2>5, <2>6, <2>7, <2>8
<1> QED
  BY <1>1, <1>2, <1>3, StepCases DEF Next

SerialInv ==
  /\ CompleteInv
  /\ faults = {} /\ Serial => (\E h, k : History(h, k)) /\ CountInv /\ CommittedOnQuorum

LEMMA SerialInvInit == ASSUME Init PROVE SerialInv
<1>1. CountInv /\ CommittedOnQuorum
  BY DEF Init, NoWrite, CountInv, CommittedOnQuorum
<1> QED
  BY <1>1, CompleteInvInit, HistoryStarts DEF SerialInv

LEMMA SerialInvStep ==
  ASSUME SerialInv, [Next]_vars
  PROVE  SerialInv'
<1>1. CompleteInv' /\ BaseInv /\ BaseInv' /\ faults' = faults
  BY CompleteInvStep, BaseStep, FaultsFixed DEF SerialInv, CompleteInv, SurvivesInv
<1>2. DOMAIN write = Writers /\ DOMAIN write' = Writers
  BY <1>1 DEF BaseInv, TypeOK
<1>3. ASSUME faults' = {}, Serial'
      PROVE  (\E h, k : History(h, k)') /\ CountInv' /\ CommittedOnQuorum'
  <2>1. faults = {} /\ Serial
    BY <1>1, <1>2, <1>3 DEF Serial
  <2>2. Calm /\ CountInv /\ CommittedOnQuorum
    BY <2>1 DEF SerialInv, CompleteInv
  <2>3. PICK h, k : History(h, k)
    BY <2>1 DEF SerialInv
  <2>4. /\ \E h2, k2 : History(h2, k2)'
        /\ \A p \in Nodes : Executed(node[p]) \subseteq Executed(node'[p])
    BY <1>1, <2>1, <2>2, <2>3, HistoryStep
  <2>5. Answered
    BY <1>1, <2>1, <2>2, <2>3, HistoryDelivers DEF Answered
  <2>6. CountInv' /\ CommittedOnQuorum'
    BY <1>1, <2>2, <2>4, <2>5, CountStep
  <2> QED BY <2>4, <2>6
<1> QED
  BY <1>1, <1>3 DEF SerialInv

LEMMA SerialAlways == Spec => []SerialInv
<1>1. Init => SerialInv
  BY SerialInvInit
<1>2. SerialInv /\ [Next]_vars => SerialInv'
  BY SerialInvStep
<1> QED
  BY <1>1, <1>2, PTL DEF Spec

(* Everything that was successful is below the end of the history, or is   *)
(* the write under way, which was not reported yet. *)
LEMMA HistoryServing ==
  ASSUME BaseInv, Serial, NEW h, NEW k, History(h, k)
  PROVE  ServingHasCommitted
<1> SUFFICES ASSUME NEW n \in Nodes, Serving(n), NEW x \in Done PROVE x \in Executed(node[n])
  BY DEF ServingHasCommitted, Serving, Done
<1>1. h \in Seq(RequestIds) /\ Len(h) \in Nat /\ LogOK(node[n]) /\ Follows(node[n], h, k)
  BY BaseNode DEF History, HistoryOK, AllFollow
<1>2. Executed(node[n]) = {h[j] : j \in 1 .. node[n].last}
  BY <1>1, TracksContent DEF Follows
<1>3. PICK j \in 1 .. Len(h) : x = h[j]
  BY DEF History, Recorded
<1>4. CASE node[n].last = Len(h)
  BY <1>2, <1>3, <1>4
<1>5. CASE \E w \in Writers : Under(w, h) /\ n \in write[w].todo /\ node[n].last = Len(h) - 1
  <2>1. PICK w \in Writers : Under(w, h) /\ n \in write[w].todo /\ node[n].last = Len(h) - 1
    BY <1>5
  <2>2. write[w].id = h[Len(h)] /\ write[w].id \notin Done
    BY <2>1 DEF Under, History, WriteAt
  <2>3. j # Len(h)
    BY <1>3, <2>2
  <2>4. j \in 1 .. node[n].last
    BY <1>1, <2>1, <2>3
  <2> QED BY <1>2, <1>3, <2>4
<1> QED
  BY <1>4, <1>5 DEF History, EndsOK, AtEnd

(* What two nodes execute, they execute in the order of the history. *)
LEMMA ReplaysOrder ==
  ASSUME NEW h, Injective(h), Len(h) \in Nat, NEW c \in Seq(RequestIds), NEW d \in Seq(RequestIds),
         NEW L \in 0 .. Len(h), NEW M \in 0 .. Len(h), Replays(c, h, L), Replays(d, h, M),
         NEW a, NEW b, Before(c, a, b), \E p \in 1 .. Len(c) : c[p] = b,
         \E p \in 1 .. Len(d) : d[p] = a
  PROVE  Before(d, a, b)
<1>1. DOMAIN c = 1 .. Len(c) /\ DOMAIN d = 1 .. Len(d) /\ Len(c) \in Nat /\ Len(d) \in Nat
  BY LenProperties
<1>2. PICK i \in 1 .. Len(c) : c[i] = a /\ \A j \in 1 .. i : c[j] # b
  BY <1>1 DEF Before
<1>3. PICK u \in 1 .. L : a = h[u]
  BY <1>2 DEF Replays
<1>4. PICK p \in 1 .. Len(c) : c[p] = b
  OBVIOUS
<1>5. PICK v \in 1 .. L : b = h[v]
  BY <1>4 DEF Replays
<1>6. u \in 1 .. Len(h) /\ v \in 1 .. Len(h) /\ a # b
  BY <1>2, <1>3, <1>5
<1>7. u < v
  <2> SUFFICES ASSUME ~(u < v) PROVE FALSE
    OBVIOUS
  <2>1. PICK s \in 1 .. L : c[i] = h[s] /\ \A t \in 1 .. s - 1 : \E q \in 1 .. i - 1 : c[q] = h[t]
    BY DEF Replays
  <2>2. s \in 1 .. Len(h)
    OBVIOUS
  <2>3. s = u
    BY <1>2, <1>3, <1>6, <2>1, <2>2 DEF Injective
  <2>4. v \in 1 .. s - 1
    BY <1>3, <1>5, <1>6, <2>3
  <2>5. PICK q \in 1 .. i - 1 : c[q] = h[v]
    BY <2>1, <2>4
  <2>6. q \in 1 .. i
    BY <1>1
  <2> QED BY <1>2, <1>5, <2>5, <2>6
<1>8. ASSUME NEW r \in 1 .. Len(d), d[r] = b
      PROVE  \E q \in 1 .. r - 1 : d[q] = a
  <2>1. PICK s \in 1 .. M : d[r] = h[s] /\ \A t \in 1 .. s - 1 : \E q \in 1 .. r - 1 : d[q] = h[t]
    BY DEF Replays
  <2>2. s \in 1 .. Len(h)
    OBVIOUS
  <2>3. s = v
    BY <1>5, <1>6, <1>8, <2>1, <2>2 DEF Injective
  <2>4. u \in 1 .. s - 1
    BY <1>3, <1>5, <1>7, <2>3
  <2> QED BY <1>3, <2>1, <2>4
<1>9. PICK e \in 1 .. Len(d) : d[e] = a
  OBVIOUS
<1>10. PICK P : P = {r \in 1 .. Len(d) : d[r] = a}
  OBVIOUS
<1>11. P \subseteq Nat /\ e \in P
  BY <1>9, <1>10
<1>12. PICK f \in P : \A r \in P : f <= r
  BY <1>11, Smallest
<1>13. f \in 1 .. Len(d) /\ d[f] = a
  BY <1>10, <1>12
<1>14. \A j \in 1 .. f : d[j] # b
  <2> SUFFICES ASSUME NEW j \in 1 .. f, d[j] = b PROVE FALSE
    OBVIOUS
  <2>1. j \in 1 .. Len(d)
    BY <1>1, <1>13
  <2>2. PICK q \in 1 .. j - 1 : d[q] = a
    BY <1>8, <2>1
  <2>3. q \in 1 .. Len(d) /\ q < f
    BY <1>1, <1>13
  <2>4. q \in P
    BY <1>10, <2>2, <2>3
  <2>5. f <= q
    BY <1>12, <2>4
  <2> QED BY <1>13, <2>3, <2>5
<1> QED
  BY <1>1, <1>13, <1>14 DEF Before

LEMMA HistoryOrder ==
  ASSUME BaseInv, NEW h, NEW k, History(h, k)
  PROVE  SameOrder
<1> SUFFICES ASSUME NEW m \in Nodes, NEW n \in Nodes,
                    NEW a \in Executed(node[m]) \cap Executed(node[n]),
                    NEW b \in Executed(node[m]) \cap Executed(node[n]), Before(Content(node[m]), a, b)
             PROVE  Before(Content(node[n]), a, b)
  BY DEF SameOrder
<1>1. h \in Seq(RequestIds) /\ Len(h) \in Nat /\ Injective(h)
      /\ \A p \in Nodes : LogOK(node[p]) /\ Tracks(node[p], h)
  BY BaseNode DEF History, HistoryOK, AllFollow, Follows
<1>2. PICK c : c = Content(node[m])
  OBVIOUS
<1>3. PICK d : d = Content(node[n])
  OBVIOUS
<1>4. PICK L : L = node[m].last
  OBVIOUS
<1>5. PICK M : M = node[n].last
  OBVIOUS
<1>6. \A p \in Nodes : node[p].last \in Nat /\ node[p].last <= Len(h)
  BY <1>1, NodeFields DEF LogOK, Tracks
<1>7. L \in 0 .. Len(h) /\ M \in 0 .. Len(h)
  BY <1>1, <1>4, <1>5, <1>6
<1>8. Replays(c, h, L) /\ Replays(d, h, M)
  BY <1>1, <1>2, <1>3, <1>4, <1>5, TracksContent
<1>9. c \in Seq(RequestIds) /\ d \in Seq(RequestIds)
  BY <1>1, <1>2, <1>3, ContentIs
<1>10. DOMAIN c = 1 .. Len(c) /\ DOMAIN d = 1 .. Len(d)
  BY <1>9, LenProperties
<1>11. Executed(node[m]) = Elements(c) /\ Executed(node[n]) = Elements(d)
  BY <1>2, <1>3 DEF Executed
<1>12. (\E p \in 1 .. Len(c) : c[p] = b) /\ (\E p \in 1 .. Len(d) : d[p] = a)
  BY <1>10, <1>11 DEF Elements
<1>13. Before(d, a, b)
  BY <1>1, <1>2, <1>7, <1>8, <1>9, <1>12, ReplaysOrder
<1> QED
  BY <1>3, <1>13

(* A replica that serves has every write that was reported as successful,  *)
(* while one node at a time is away, even in the middle of a write, and no *)
(* write overlaps a recovery: until the first snapshot whatever the number *)
(* of writers, and with one writer always, peer snapshots and stale log    *)
(* entries included (routedWrite, recoverFromPeers). *)
THEOREM ServingNodesAreComplete == Spec => []ServingComplete
<1>1. SerialInv => ServingComplete
  <2> SUFFICES ASSUME SerialInv, faults = {}, Serial \/ NoSnapshots PROVE ServingHasCommitted
    BY DEF ServingComplete
  <2>1. BaseInv
    BY DEF SerialInv, CompleteInv, SurvivesInv
  <2>2. CASE Serial
    <3>1. PICK h, k : History(h, k)
      BY <2>2 DEF SerialInv
    <3> QED BY <2>1, <2>2, <3>1, HistoryServing
  <2>3. CASE NoSnapshots
    BY <2>3 DEF SerialInv, CompleteInv, Complete
  <2> QED BY <2>2, <2>3
<1> QED
  BY <1>1, SerialAlways, PTL

(* Under the same conditions, with one writer at a time, a successful      *)
(* shard write stays in the files of a majority even when nodes replace    *)
(* their snapshots, and all replicas execute what they share in the same   *)
(* order (installPeerSnapshotIfNewer, maybeSnapshot, appendRecovered). *)
THEOREM SerialWritesAgree == Spec => []SerialLog
<1>1. SerialInv => SerialLog
  <2> SUFFICES ASSUME SerialInv, faults = {}, Serial PROVE CommittedOnQuorum /\ SameOrder
    BY DEF SerialLog
  <2>1. BaseInv /\ CommittedOnQuorum
    BY DEF SerialInv, CompleteInv, SurvivesInv
  <2>2. PICK h, k : History(h, k)
    BY DEF SerialInv
  <2> QED BY <2>1, <2>2, HistoryOrder
<1> QED
  BY <1>1, SerialAlways, PTL
=============================================================================
