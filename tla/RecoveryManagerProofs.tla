----------------------- MODULE RecoveryManagerProofs -----------------------
(***************************************************************************)
(* Proofs about RecoveryManager, for any transactions, keys and values and *)
(* any number of crashes: redo from a checkpoint repeats history, and      *)
(* recovery ends with what was committed.                                  *)
(***************************************************************************)
EXTENDS RecoveryManager, TLAPS, SequenceTheorems, WellFoundedInduction

-----------------------------------------------------------------------------
(* Numbers                                                                 *)

(* A set of numbers has a smallest one. *)
LEMMA Smallest ==
  ASSUME NEW S \in SUBSET Nat, S # {}
  PROVE  \E x \in S : \A y \in S : x <= y
<1>1. PICK x \in S : \A y \in S : ~ (<<y, x>> \in OpToRel(<, Nat))
  BY NatLessThanWellFounded, WFMin
<1>2. ASSUME NEW y \in S PROVE x <= y
  <2> SUFFICES ASSUME ~(x <= y) PROVE FALSE
    OBVIOUS
  <2>1. y < x /\ y \in Nat /\ x \in Nat
    BY SMT
  <2>2. <<y, x>> \in OpToRel(<, Nat)
    BY <2>1 DEF OpToRel
  <2> QED BY <1>1, <2>2
<1> QED
  BY <1>2

(* Induction upwards from a number, for a set of numbers. *)
LEMMA SetInductionFrom ==
  ASSUME NEW c \in Nat, NEW e \in Nat, NEW S, c \in S,
         \A m \in c .. e : m \in S /\ m < e => m + 1 \in S
  PROVE  \A m \in c .. e : m \in S
<1> DEFINE R == {m \in c .. e : m \notin S}
<1> SUFFICES ASSUME R # {} PROVE FALSE
  OBVIOUS
<1>1. R \in SUBSET Nat
  OBVIOUS
<1>2. PICK x \in R : \A y \in R : x <= y
  BY <1>1, Smallest
<1>3. x # c /\ x - 1 \in c .. e /\ x - 1 \notin R
  BY <1>2
<1>4. x - 1 \in S /\ x - 1 < e /\ (x - 1) + 1 = x
  BY <1>3
<1> QED
  BY <1>3, <1>4, <1>2

-----------------------------------------------------------------------------
(* A log l with its history h: h[i] is the database before record i, and   *)
(* h[i + 1] the one after it.                                              *)

Ends == {"commit", "abort"}

(* The keys a record writes. *)
Touched(r) ==
  (IF r.type_ \in {"delete", "update"} THEN {r.old[1]} ELSE {})
    \cup (IF r.type_ \in {"insert", "update"} THEN {r.new[1]} ELSE {})

Writes(l, t, i, k) == l[i].txn_id = t /\ k \in Touched(l[i])

(* Record i is the last one of t among the first n; 0: there is none. *)
IsLast(l, t, i, n) ==
  /\ i \in 0 .. n
  /\ i # 0 => l[i].txn_id = t
  /\ \A j \in i + 1 .. n : l[j].txn_id # t

(* None of the first n records ends t. *)
Open(l, t, n) == \A i \in 1 .. n : l[i].txn_id = t => l[i].type_ \notin Ends

(* v is the value of k when what t wrote with the records c + 1 .. e is
   undone in the database after record e: the one before the first of them
   that wrote k. *)
Image(l, h, t, c, e, k, v) ==
  /\ \A j \in c + 1 .. e :
       Writes(l, t, j, k) /\ (\A i \in c + 1 .. j - 1 : ~Writes(l, t, i, k)) => v = h[j][k]
  /\ (\A i \in c + 1 .. e : ~Writes(l, t, i, k)) => v = h[e + 1][k]

(* The records of a transaction are chained, up to its begin. *)
Chain(l, i) ==
  /\ IsLast(l, l[i].txn_id, l[i].prev_lsn_, i - 1)
  /\ l[i].type_ = "begin" <=> l[i].prev_lsn_ = 0

Pair(p) == p \in Keys \X Vals

(* What record i did to the database. *)
Effect(l, h, i) ==
  LET r == l[i]
      b == h[i]
      a == h[i + 1]
  IN  /\ r.type_ \in {"begin", "commit"} => a = b
      /\ r.type_ = "insert" =>
           /\ Pair(r.new) /\ b[r.new[1]] = None
           /\ a = [b EXCEPT ![r.new[1]] = r.new[2]]
      /\ r.type_ = "delete" =>
           /\ Pair(r.old) /\ b[r.old[1]] = r.old[2]
           /\ a = [b EXCEPT ![r.old[1]] = None]
      /\ r.type_ = "update" =>
           /\ Pair(r.old) /\ Pair(r.new) /\ b[r.old[1]] = r.old[2]
           /\ r.new[1] = r.old[1] \/ b[r.new[1]] = None
           /\ a = [b EXCEPT ![r.old[1]] = None, ![r.new[1]] = r.new[2]]
      /\ r.type_ = "abort" => \A k \in Keys : Image(l, h, r.txn_id, 0, i - 1, k, a[k])

(* Nothing follows the end of a transaction. *)
EndFinal(l) ==
  \A i, j \in 1 .. Len(l) : i < j /\ l[i].txn_id = l[j].txn_id => l[i].type_ \notin Ends

(* Locks: what a transaction wrote stays as it is for all others until the
   transaction ends. *)
Steady(l, h) ==
  \A i, j \in 1 .. Len(l), k \in Keys :
    /\ i < j /\ k \in Touched(l[i]) /\ l[j].txn_id # l[i].txn_id
    /\ Open(l, l[i].txn_id, j)
    => h[j + 1][k] = h[j][k]

LogOK(l, h) ==
  /\ \A i \in 1 .. Len(l) : Chain(l, i) /\ Effect(l, h, i)
  /\ EndFinal(l) /\ Steady(l, h)

Logs(l, h) == l \in Seq(LogRec) /\ h \in Seq(Databases) /\ Len(h) = Len(l) + 1

LEMMA LogTypes ==
  ASSUME NEW l, NEW h, Logs(l, h)
  PROVE  /\ Len(l) \in Nat /\ DOMAIN l = 1 .. Len(l) /\ DOMAIN h = 1 .. Len(l) + 1
         /\ \A i \in 1 .. Len(l) : l[i] \in LogRec
         /\ \A i \in 1 .. Len(l) + 1 : h[i] \in Databases
<1>1. Len(l) \in Nat /\ DOMAIN l = 1 .. Len(l) /\ DOMAIN h = 1 .. Len(h)
  BY LenProperties DEF Logs
<1>2. \A i \in 1 .. Len(l) : l[i] \in LogRec
  BY ElementOfSeq DEF Logs
<1>3. \A i \in 1 .. Len(h) : h[i] \in Databases
  BY ElementOfSeq DEF Logs
<1> QED
  BY <1>1, <1>2, <1>3 DEF Logs

(* Undoing has one outcome. *)
LEMMA OneImage ==
  ASSUME NEW l, NEW h, NEW t, NEW c \in Nat, NEW e \in Nat, NEW k, NEW v, NEW w,
         Image(l, h, t, c, e, k, v), Image(l, h, t, c, e, k, w)
  PROVE  v = w
<1> DEFINE S == {i \in c + 1 .. e : Writes(l, t, i, k)}
<1>1. CASE S = {}
  BY <1>1 DEF Image
<1>2. CASE S # {}
  <2>1. S \in SUBSET Nat
    OBVIOUS
  <2>2. PICK j \in S : \A i \in S : j <= i
    BY <1>2, <2>1, Smallest
  <2>3. \A i \in c + 1 .. j - 1 : ~Writes(l, t, i, k)
    BY <2>2
  <2> QED BY <2>2, <2>3 DEF Image
<1> QED
  BY <1>1, <1>2

(* A record leaves alone the keys it does not write, unless it is an abort. *)
LEMMA EffectElsewhere ==
  ASSUME NEW l, NEW h, Logs(l, h), NEW i \in 1 .. Len(l), Effect(l, h, i),
         l[i].type_ # "abort", NEW k \in Keys, k \notin Touched(l[i])
  PROVE  h[i + 1][k] = h[i][k]
<1>1. h[i] \in Databases /\ l[i].type_ \in Kinds
  BY LogTypes DEF LogRec
<1>2. CASE l[i].type_ = "insert"
  BY <1>1, <1>2 DEF Effect, Touched, Databases
<1>3. CASE l[i].type_ = "delete"
  BY <1>1, <1>3 DEF Effect, Touched, Databases
<1>4. CASE l[i].type_ = "update"
  BY <1>1, <1>4 DEF Effect, Touched, Databases
<1>5. CASE l[i].type_ \in {"begin", "commit"}
  BY <1>5 DEF Effect
<1> QED
  BY <1>1, <1>2, <1>3, <1>4, <1>5 DEF Kinds

(* While t is not over, undoing its records after c gives a key that record
   c wrote the value that c gave it. *)
LEMMA Held ==
  ASSUME NEW l, NEW h, Logs(l, h), LogOK(l, h), NEW e \in 1 .. Len(l), NEW c \in 1 .. e,
         NEW k \in Keys, k \in Touched(l[c]), Open(l, l[c].txn_id, e),
         NEW v, Image(l, h, l[c].txn_id, c, e, k, v)
  PROVE  v = h[c + 1][k]
<1> DEFINE t == l[c].txn_id
           Quiet(m) == \A i \in c + 1 .. m : ~Writes(l, t, i, k)
           S == {m \in c .. e : Quiet(m) => h[m + 1][k] = h[c + 1][k]}
<1>0. Len(l) \in Nat /\ c \in Nat /\ e \in Nat
  BY LogTypes
<1>1. c \in S
  BY <1>0
<1>2. ASSUME NEW m \in c .. e, m \in S, m < e PROVE m + 1 \in S
  <2> SUFFICES ASSUME Quiet(m + 1) PROVE h[(m + 1) + 1][k] = h[c + 1][k]
    BY <1>0, <1>2
  <2>1. Quiet(m)
    BY <1>0
  <2>2. h[m + 1][k] = h[c + 1][k]
    BY <1>2, <2>1
  <2>3. m + 1 \in 1 .. Len(l) /\ m + 1 \in c + 1 .. m + 1 /\ c < m + 1 /\ m + 1 <= e /\ m + 1 \in 1 .. e
    BY <1>0, <1>2
  <2>4. CASE l[m + 1].txn_id = t
    <3>1. k \notin Touched(l[m + 1])
      BY <2>3, <2>4 DEF Writes
    <3>2. l[m + 1].type_ # "abort"
      BY <2>3, <2>4 DEF Open, Ends
    <3>3. Effect(l, h, m + 1)
      BY <2>3 DEF LogOK
    <3> QED BY <2>2, <2>3, <3>1, <3>2, <3>3, EffectElsewhere
  <2>5. CASE l[m + 1].txn_id # t
    <3>1. Open(l, t, m + 1)
      BY <1>0, <2>3 DEF Open
    <3>2. c \in 1 .. Len(l)
      BY <1>0
    <3> QED BY <2>2, <2>3, <2>5, <3>1, <3>2 DEF LogOK, Steady
  <2> QED BY <2>4, <2>5
<1>3. \A m \in c .. e : m \in S
  <2> HIDE DEF S
  <2> QED BY <1>0, <1>1, <1>2, SetInductionFrom
<1>4. CASE \A i \in c + 1 .. e : ~Writes(l, t, i, k)
  <2>1. e \in S /\ v = h[e + 1][k]
    BY <1>0, <1>3, <1>4 DEF Image
  <2> QED BY <1>4, <2>1
<1>5. CASE ~ \A i \in c + 1 .. e : ~Writes(l, t, i, k)
  <2> DEFINE T == {i \in c + 1 .. e : Writes(l, t, i, k)}
  <2>1. T \in SUBSET Nat /\ T # {}
    BY <1>0, <1>5
  <2>2. PICK j \in T : \A i \in T : j <= i
    BY <2>1, Smallest
  <2>3. j \in c + 1 .. e /\ j - 1 \in c .. e /\ (j - 1) + 1 = j
    BY <1>0, <2>2
  <2>4. Quiet(j - 1)
    BY <1>0, <2>2, <2>3
  <2>5. v = h[j][k]
    BY <2>2, <2>3, <2>4 DEF Image
  <2>6. j - 1 \in S
    BY <1>3, <2>3
  <2> QED BY <2>3, <2>4, <2>5, <2>6
<1> QED
  BY <1>4, <1>5

-----------------------------------------------------------------------------
(* What redo and undo of one record do                                     *)

(* Redo of a record on the database before it gives the one after it. *)
LEMMA RedoOne ==
  ASSUME NEW l, NEW h, Logs(l, h), NEW i \in 1 .. Len(l), Effect(l, h, i)
  PROVE  /\ l[i].type_ = "insert" => h[i][l[i].new[1]] = None
         /\ l[i].type_ # "abort" => RedoData(l[i], h[i]) = h[i + 1]
         /\ l[i].type_ = "abort" => RedoData(l[i], h[i]) = h[i]
<1>1. h[i] \in Databases /\ l[i].type_ \in Kinds
  BY LogTypes DEF LogRec
<1>2. CASE l[i].type_ = "insert"
  BY <1>1, <1>2 DEF Effect, Databases, RedoData, Emplace
<1>3. CASE l[i].type_ = "delete"
  <2>1. l[i].old[1] \in Keys /\ l[i].old[2] \in Vals /\ h[i][l[i].old[1]] = l[i].old[2]
        /\ h[i + 1] = [h[i] EXCEPT ![l[i].old[1]] = None]
    BY <1>3 DEF Effect, Pair
  <2>2. Touch(h[i], l[i].old[1]) = h[i]
    BY <2>1, RecoveryAssumption DEF Touch, Emplace
  <2> QED BY <1>3, <2>1, <2>2 DEF RedoData, Erase
<1>4. CASE l[i].type_ = "update"
  <2>1. PICK o, ov, n, nv : o = l[i].old[1] /\ ov = l[i].old[2] /\ n = l[i].new[1] /\ nv = l[i].new[2]
    OBVIOUS
  <2>2. o \in Keys /\ n \in Keys /\ (n = o \/ h[i][n] = None)
        /\ h[i + 1] = [h[i] EXCEPT ![o] = None, ![n] = nv]
    BY <1>4, <2>1 DEF Effect, Pair
  <2>3. RedoData(l[i], h[i]) = Emplace(Erase(h[i], o), l[i].new)
    BY <1>4, <2>1 DEF RedoData
  <2>4. Erase(h[i], o) = [h[i] EXCEPT ![o] = None] /\ Erase(h[i], o)[n] = None
    BY <1>1, <2>2 DEF Erase, Databases
  <2>5. RedoData(l[i], h[i]) = [Erase(h[i], o) EXCEPT ![n] = nv]
    BY <2>1, <2>3, <2>4 DEF Emplace
  <2> QED BY <1>4, <2>2, <2>4, <2>5
<1>5. CASE l[i].type_ \in {"begin", "commit", "abort"}
  BY <1>5 DEF Effect, RedoData
<1> QED
  BY <1>1, <1>2, <1>3, <1>4, <1>5 DEF Kinds

(* Undo of a record, on a database that has what the record wrote, gives the
   keys it wrote their values from before it. *)
LEMMA UndoOne ==
  ASSUME NEW l, NEW h, Logs(l, h), NEW i \in 1 .. Len(l), Effect(l, h, i),
         l[i].type_ \notin Ends,
         NEW d \in Databases, \A k \in Touched(l[i]) : d[k] = h[i + 1][k]
  PROVE  /\ UndoData(l[i], d) \in Databases
         /\ Touched(l[i]) \subseteq Keys
         /\ \A k \in Touched(l[i]) : UndoData(l[i], d)[k] = h[i][k]
         /\ \A k \in Keys : k \notin Touched(l[i]) => UndoData(l[i], d)[k] = d[k]
<1>1. h[i] \in Databases /\ l[i].type_ \in Kinds
  BY LogTypes DEF LogRec
<1>2. CASE l[i].type_ = "insert"
  BY <1>1, <1>2 DEF Effect, Databases, UndoData, Erase, Pair, Touched
<1>3. CASE l[i].type_ = "delete"
  <2>1. PICK o, ov : o = l[i].old[1] /\ ov = l[i].old[2]
    OBVIOUS
  <2>2. /\ o \in Keys /\ ov \in Vals /\ h[i][o] = ov /\ h[i + 1] = [h[i] EXCEPT ![o] = None]
        /\ Touched(l[i]) = {o}
    BY <1>3, <2>1 DEF Effect, Pair, Touched
  <2>3. d[o] = None
    BY <1>1, <2>2 DEF Databases
  <2>4. UndoData(l[i], d) = [d EXCEPT ![o] = ov]
    BY <1>3, <2>1, <2>3 DEF UndoData, Emplace
  <2> QED BY <2>2, <2>4 DEF Databases
<1>4. CASE l[i].type_ = "update"
  <2>1. PICK o, ov, n, nv : o = l[i].old[1] /\ ov = l[i].old[2] /\ n = l[i].new[1] /\ nv = l[i].new[2]
    OBVIOUS
  <2>2. /\ o \in Keys /\ n \in Keys /\ ov \in Vals /\ h[i][o] = ov /\ (n = o \/ h[i][n] = None)
        /\ h[i + 1] = [h[i] EXCEPT ![o] = None, ![n] = nv]
        /\ Touched(l[i]) = {o, n}
    BY <1>4, <2>1 DEF Effect, Pair, Touched
  <2>3. Erase(d, n)[o] = None
    BY <1>1, <2>2 DEF Databases, Erase
  <2>4. UndoData(l[i], d) = [Erase(d, n) EXCEPT ![o] = ov]
    BY <1>4, <2>1, <2>3 DEF UndoData, Emplace
  <2>5. UndoData(l[i], d) = [d EXCEPT ![n] = None, ![o] = ov]
    BY <2>4 DEF Erase
  <2> QED BY <2>2, <2>5 DEF Databases
<1>5. CASE l[i].type_ = "begin"
  BY <1>5 DEF UndoData, Touched
<1> QED
  BY <1>1, <1>2, <1>3, <1>4, <1>5 DEF Kinds, Ends

(* d has undone, for the keys in K, what t wrote with the records c + 1 .. e. *)
Undone(l, h, t, c, e, K, d) == \A k \in K : Image(l, h, t, c, e, k, d[k])

(* d has undone t, which is open, up to its record c. *)
CanUndo(l, h, t, c, e, K, d) ==
  /\ Logs(l, h) /\ LogOK(l, h) /\ e \in 1 .. Len(l) /\ c \in 1 .. e
  /\ t = l[c].txn_id /\ Open(l, t, e) /\ d \in Databases
  /\ K \subseteq Keys /\ Touched(l[c]) \subseteq K /\ Undone(l, h, t, c, e, K, d)

(* The record UndoTxn looks at after record c. *)
UndoTo(r) == IF r.type_ = "begin" THEN 0 ELSE r.prev_lsn_

(* u has undone record c of t too, and p is the record before it. *)
UndidOne(l, h, t, c, e, K, d, p, u) ==
  /\ p \in 0 .. c - 1 /\ (p # 0 => l[p].txn_id = t)
  /\ u \in Databases /\ Undone(l, h, t, p, e, K, u)
  /\ \A k \in Keys : k \notin Touched(l[c]) => u[k] = d[k]

(* One round of UndoTxn takes an image a record further back. *)
LEMMA UndoStep ==
  ASSUME NEW l, NEW h, NEW t, NEW c, NEW e, NEW K, NEW d, CanUndo(l, h, t, c, e, K, d),
         NEW p, p = UndoTo(l[c]), NEW u, u = UndoData(l[c], d)
  PROVE  UndidOne(l, h, t, c, e, K, d, p, u)
<1> SUFFICES ASSUME Logs(l, h), LogOK(l, h), e \in 1 .. Len(l), c \in 1 .. e, t = l[c].txn_id,
                    Open(l, t, e), d \in Databases, K \subseteq Keys, Touched(l[c]) \subseteq K,
                    Undone(l, h, t, c, e, K, d)
             PROVE  UndidOne(l, h, t, c, e, K, d, p, u)
  BY DEF CanUndo
<1>0. Len(l) \in Nat /\ c \in 1 .. Len(l) /\ c \in Nat /\ e \in Nat
  BY LogTypes
<1>1. Chain(l, c) /\ Effect(l, h, c)
  BY <1>0 DEF LogOK
<1>2. IsLast(l, t, p, c - 1)
  BY <1>1 DEF Chain, UndoTo
<1>3. l[c].type_ \notin Ends
  BY <1>0 DEF Open
<1>4. \A k \in Touched(l[c]) : d[k] = h[c + 1][k]
  <2> SUFFICES ASSUME NEW k \in Touched(l[c]) PROVE d[k] = h[c + 1][k]
    OBVIOUS
  <2>1. PICK v : v = d[k]
    OBVIOUS
  <2>2. k \in Keys /\ Image(l, h, l[c].txn_id, c, e, k, v)
    BY <2>1 DEF Undone
  <2>3. Open(l, l[c].txn_id, e)
    OBVIOUS
  <2> QED BY <2>1, <2>2, <2>3, Held
<1>6. /\ u \in Databases
      /\ \A k \in Touched(l[c]) : u[k] = h[c][k]
      /\ \A k \in Keys : k \notin Touched(l[c]) => u[k] = d[k]
  BY <1>0, <1>1, <1>3, <1>4, UndoOne
<1>7. p \in 0 .. c - 1 /\ (p # 0 => l[p].txn_id = t) /\ \A i \in p + 1 .. c - 1 : l[i].txn_id # t
  BY <1>2 DEF IsLast
<1>8. ASSUME NEW k \in K PROVE Image(l, h, t, p, e, k, u[k])
  <2>1. \A i \in p + 1 .. c - 1 : ~Writes(l, t, i, k)
    BY <1>7 DEF Writes
  <2>2. CASE k \in Touched(l[c])
    <3>1. Writes(l, t, c, k)
      BY <2>2 DEF Writes
    <3>2. u[k] = h[c][k]
      BY <1>6, <2>2
    <3>3. ASSUME NEW j \in p + 1 .. e, Writes(l, t, j, k), \A i \in p + 1 .. j - 1 : ~Writes(l, t, i, k)
          PROVE  j = c
      <4>1. ~(j < c)
        BY <1>0, <1>7, <2>1, <3>3
      <4>2. ~(c < j)
        BY <1>0, <1>7, <3>1, <3>3
      <4> QED BY <1>0, <1>7, <4>1, <4>2
    <3>4. c \in p + 1 .. e
      BY <1>0, <1>7
    <3> QED BY <3>1, <3>2, <3>3, <3>4 DEF Image
  <2>3. CASE k \notin Touched(l[c])
    <3>1. u[k] = d[k] /\ Image(l, h, t, c, e, k, d[k])
      BY <1>6, <2>3 DEF Undone
    <3>2. \A i \in p + 1 .. c : ~Writes(l, t, i, k)
      BY <1>0, <1>7, <2>1, <2>3 DEF Writes
    <3>3. ASSUME NEW j \in p + 1 .. e, Writes(l, t, j, k), \A i \in p + 1 .. j - 1 : ~Writes(l, t, i, k)
          PROVE  u[k] = h[j][k]
      <4>1. j \in c + 1 .. e
        BY <1>0, <1>7, <3>2, <3>3
      <4>2. \A i \in c + 1 .. j - 1 : ~Writes(l, t, i, k)
        BY <1>0, <1>7, <3>3
      <4> QED BY <3>1, <3>3, <4>1, <4>2 DEF Image
    <3>4. ASSUME \A i \in p + 1 .. e : ~Writes(l, t, i, k) PROVE u[k] = h[e + 1][k]
      <4>1. \A i \in c + 1 .. e : ~Writes(l, t, i, k)
        BY <1>0, <1>7, <3>4
      <4> QED BY <3>1, <4>1 DEF Image
    <3> QED BY <3>3, <3>4 DEF Image
  <2> QED BY <2>2, <2>3
<1> QED
  BY <1>6, <1>7, <1>8 DEF Undone, UndidOne

-----------------------------------------------------------------------------
(* The inductive invariant: the client                                     *)

(* The map of last records, and the status of a transaction, are those of
   the log. *)
MapOK(t) ==
  /\ IsLast(log, t, prev_lsn_map_[t], Len(log))
  /\ status[t] = "new" <=> prev_lsn_map_[t] = 0
  /\ prev_lsn_map_[t] # 0 => (status[t] = "ended" <=> log[prev_lsn_map_[t]].type_ \in Ends)

LocksOK ==
  /\ \A t \in Txns, k \in Keys : k \in locks[t] <=> \E i \in 1 .. Len(log) : Writes(log, t, i, k)
  /\ \A t, u \in Active : t # u => locks[t] \cap locks[u] = {}

(* A key that no active transaction wrote has its committed value; for the
   others that value is what undoing their transaction would give. *)
CommittedOK ==
  /\ \A k \in Keys : (\A t \in Active : k \notin locks[t]) => committed[k] = live[k]
  /\ \A t \in Active : \A k \in locks[t] : Image(log, history, t, 0, Len(log), k, committed[k])

(* The transactions that are open after n records, with their last lsn. *)
Unended(l, u, n) ==
  \A t \in Txns :
    /\ u[t] # 0 => IsLast(l, t, u[t], n) /\ l[u[t]].type_ \notin Ends
    /\ u[t] = 0 => (\A i \in 1 .. n : l[i].txn_id # t) \/ ~Open(l, t, n)

CheckOK ==
  LET c == checkpoint.checkpoint_lsn_
  IN  /\ c <= Len(log)
      /\ c # 0 => /\ checkpoint.persist_data_ = history[c + 1]
                  /\ Unended(log, checkpoint.active_txns_, c)

ClientInv ==
  /\ LogOK(log, history) /\ live = history[Len(log) + 1]
  /\ \A t \in Txns : MapOK(t)
  /\ LocksOK /\ CommittedOK /\ CheckOK

-----------------------------------------------------------------------------
(* The inductive invariant: the manager                                    *)

(* RedoPhase has repeated history up to the record before now; while it
   undoes an aborted transaction it is on the way to where the abort led. *)
RedoOK ==
  /\ now \in 1 .. Len(log) + 1
  /\ Unended(log, unendedTxn, now - 1)
  /\ cursor = 0 => data_ = history[now]
  /\ cursor # 0 =>
       LET t == log[now - 1].txn_id
       IN  /\ now > 1 /\ log[now - 1].type_ = "abort"
           /\ cursor \in 1 .. now - 2 /\ log[cursor].txn_id = t
           /\ \A k \in Keys : Image(log, history, t, cursor, now - 2, k, data_[k])

InUndo(t) == cursor # 0 /\ log[cursor].txn_id = t

(* UndoPhase: the keys of a transaction still to be undone are as they were
   at the crash, those of one that is undone as they were committed. *)
UndoOK ==
  /\ \A t \in Txns : unendedTxn[t] # 0 => t \in Active /\ unendedTxn[t] = prev_lsn_map_[t]
  /\ cursor # 0 => /\ cursor \in 1 .. Len(log)
                   /\ log[cursor].txn_id \in Active /\ unendedTxn[log[cursor].txn_id] = 0
  /\ \A k \in Keys : (\A t \in Active : k \notin locks[t]) => data_[k] = live[k]
  /\ \A t \in Active : \A k \in locks[t] :
       /\ unendedTxn[t] # 0 => data_[k] = live[k]
       /\ unendedTxn[t] = 0 /\ ~InUndo(t) => data_[k] = committed[k]
       /\ InUndo(t) => Image(log, history, t, cursor, Len(log), k, data_[k])

ManagerInv ==
  /\ phase # "exit"
  /\ phase \in {"run", "done"} => cursor = 0
  /\ phase = "redo" => RedoOK
  /\ phase = "undo" => UndoOK
  /\ phase = "done" => data_ = committed

(* The records recovery looks at are in the log, with a checkpoint or not. *)
Ranges ==
  /\ \A t \in Txns : checkpoint.active_txns_[t] <= Len(log)
  /\ phase = "run" => cursor = 0
  /\ phase # "run" => /\ 1 <= now /\ now <= Len(log) + 1 /\ cursor <= Len(log)
                      /\ \A t \in Txns : unendedTxn[t] <= Len(log)

RecoveryInv == TypeOK /\ ClientInv /\ Ranges /\ (NeedsCheckpoint => ManagerInv)

-----------------------------------------------------------------------------
(* One more record                                                         *)

(* The log l2 is l with r, its history h2 is h with db. *)
Longer(l, h, r, db, l2, h2) ==
  /\ Len(l2) = Len(l) + 1 /\ l2[Len(l) + 1] = r
  /\ \A i \in 1 .. Len(l) : l2[i] = l[i]
  /\ \A i \in 1 .. Len(l) + 1 : h2[i] = h[i]
  /\ h2[(Len(l) + 1) + 1] = db

LEMMA AppendLonger ==
  ASSUME NEW l, NEW h, Logs(l, h), NEW r \in LogRec, NEW db \in Databases,
         NEW l2, l2 = Append(l, r), NEW h2, h2 = Append(h, db)
  PROVE  Logs(l2, h2) /\ Longer(l, h, r, db, l2, h2)
<1>1. /\ l2 \in Seq(LogRec) /\ Len(l2) = Len(l) + 1
      /\ \A i \in 1 .. Len(l) : l2[i] = l[i]
      /\ l2[Len(l) + 1] = r
  BY AppendProperties DEF Logs
<1>2. /\ h2 \in Seq(Databases) /\ Len(h2) = Len(h) + 1
      /\ \A i \in 1 .. Len(h) : h2[i] = h[i]
      /\ h2[Len(h) + 1] = db
  BY AppendProperties DEF Logs
<1> QED
  BY <1>1, <1>2 DEF Logs, Longer

LEMMA OpenSame ==
  ASSUME NEW l, NEW h, NEW r, NEW db, NEW l2, NEW h2, Len(l) \in Nat,
         Longer(l, h, r, db, l2, h2), NEW n \in 0 .. Len(l), NEW t
  PROVE  Open(l2, t, n) <=> Open(l, t, n)
<1>1. \A i \in 1 .. n : l2[i] = l[i]
  BY DEF Longer
<1> QED
  BY <1>1 DEF Open

LEMMA LastSame ==
  ASSUME NEW l, NEW h, NEW r, NEW db, NEW l2, NEW h2, Len(l) \in Nat,
         Longer(l, h, r, db, l2, h2), NEW n \in 0 .. Len(l), NEW t, NEW i
  PROVE  IsLast(l2, t, i, n) <=> IsLast(l, t, i, n)
<1>1. \A j \in 1 .. n : l2[j] = l[j]
  BY DEF Longer
<1> QED
  BY <1>1 DEF IsLast

LEMMA ImageSame ==
  ASSUME NEW l, NEW h, NEW r, NEW db, NEW l2, NEW h2, Len(l) \in Nat,
         Longer(l, h, r, db, l2, h2), NEW e \in 0 .. Len(l), NEW c \in Nat,
         NEW t, NEW k, NEW v
  PROVE  Image(l2, h2, t, c, e, k, v) <=> Image(l, h, t, c, e, k, v)
<1>1. \A i \in 1 .. e : l2[i] = l[i]
  BY DEF Longer
<1>2. \A i \in c + 1 .. e : Writes(l2, t, i, k) <=> Writes(l, t, i, k)
  BY <1>1 DEF Writes
<1>3. \A i \in 1 .. e + 1 : h2[i] = h[i]
  BY DEF Longer
<1>4. \A j \in c + 1 .. e : \A i \in c + 1 .. j - 1 : i \in c + 1 .. e
  OBVIOUS
<1> QED
  BY <1>2, <1>3, <1>4 DEF Image

(* What t wrote first stays what it wrote first. *)
LEMMA ImageGrows ==
  ASSUME NEW l, NEW h, NEW r, NEW db, NEW l2, NEW h2, Len(l) \in Nat,
         Longer(l, h, r, db, l2, h2), NEW t, NEW k, NEW v,
         Image(l, h, t, 0, Len(l), k, v), \E i \in 1 .. Len(l) : Writes(l, t, i, k)
  PROVE  Image(l2, h2, t, 0, Len(l) + 1, k, v)
<1>1. PICK m \in 1 .. Len(l) : Writes(l, t, m, k)
  OBVIOUS
<1>2. \A i \in 1 .. Len(l) : Writes(l2, t, i, k) <=> Writes(l, t, i, k)
  BY DEF Longer, Writes
<1>3. ASSUME NEW j \in 1 .. Len(l) + 1, Writes(l2, t, j, k), \A i \in 1 .. j - 1 : ~Writes(l2, t, i, k)
      PROVE  v = h2[j][k]
  <2>1. j <= m
    BY <1>1, <1>2, <1>3
  <2>2. j \in 1 .. Len(l) /\ h2[j] = h[j]
    BY <2>1 DEF Longer
  <2>3. Writes(l, t, j, k) /\ \A i \in 1 .. j - 1 : ~Writes(l, t, i, k)
    BY <1>2, <1>3, <2>2
  <2> QED BY <2>2, <2>3 DEF Image
<1>4. ~ \A i \in 1 .. Len(l) + 1 : ~Writes(l2, t, i, k)
  BY <1>1, <1>2
<1> QED
  BY <1>3, <1>4 DEF Image

LEMMA EffectSame ==
  ASSUME NEW l, NEW h, NEW r, NEW db, NEW l2, NEW h2, Len(l) \in Nat,
         Longer(l, h, r, db, l2, h2), NEW i \in 1 .. Len(l), Effect(l, h, i)
  PROVE  Effect(l2, h2, i)
<1>1. l2[i] = l[i] /\ h2[i] = h[i] /\ h2[i + 1] = h[i + 1]
  BY DEF Longer
<1>2. \A t, k, v : Image(l, h, t, 0, i - 1, k, v) => Image(l2, h2, t, 0, i - 1, k, v)
  <2>1. i - 1 \in 0 .. Len(l) /\ 0 \in Nat
    OBVIOUS
  <2> QED BY <2>1, ImageSame
<1> QED
  BY <1>1, <1>2 DEF Effect

(* The log stays well formed with a record of a transaction that has not
   ended, which respects what the other open transactions wrote. *)
LEMMA LogGrows ==
  ASSUME NEW l, NEW h, Logs(l, h), LogOK(l, h), NEW r \in LogRec, NEW db \in Databases,
         NEW l2, NEW h2, Logs(l2, h2), Longer(l, h, r, db, l2, h2),
         IsLast(l, r.txn_id, r.prev_lsn_, Len(l)), r.type_ = "begin" <=> r.prev_lsn_ = 0,
         Open(l, r.txn_id, Len(l)),
         Effect(l2, h2, Len(l) + 1),
         \A i \in 1 .. Len(l), k \in Keys :
            k \in Touched(l[i]) /\ l[i].txn_id # r.txn_id /\ Open(l, l[i].txn_id, Len(l))
              => db[k] = h[Len(l) + 1][k]
  PROVE  LogOK(l2, h2)
<1> DEFINE n == Len(l)
<1>0. n \in Nat /\ Len(l2) = n + 1 /\ l2[n + 1] = r /\ n \in 0 .. n /\ \A i \in 1 .. n : l2[i] = l[i]
  BY LogTypes DEF Longer
<1>1. ASSUME NEW i \in 1 .. Len(l2) PROVE Chain(l2, i) /\ Effect(l2, h2, i)
  <2>1. CASE i = n + 1
    <3>1. IsLast(l2, r.txn_id, r.prev_lsn_, n)
      BY <1>0, LastSame
    <3> QED BY <1>0, <2>1, <3>1 DEF Chain
  <2>2. CASE i \in 1 .. n
    <3>1. Chain(l, i) /\ Effect(l, h, i) /\ l2[i] = l[i] /\ i - 1 \in 0 .. n
      BY <1>0, <2>2 DEF LogOK
    <3>2. PICK t, p : t = l[i].txn_id /\ p = l[i].prev_lsn_
      OBVIOUS
    <3>3. IsLast(l2, t, p, i - 1)
      BY <1>0, <3>1, <3>2, LastSame DEF Chain
    <3>4. Effect(l2, h2, i)
      BY <1>0, <2>2, <3>1, EffectSame
    <3> QED BY <3>1, <3>2, <3>3, <3>4 DEF Chain
  <2> QED BY <1>0, <2>1, <2>2
<1>2. EndFinal(l2)
  <2> SUFFICES ASSUME NEW i \in 1 .. n + 1, NEW j \in 1 .. n + 1, i < j, l2[i].txn_id = l2[j].txn_id
               PROVE  l2[i].type_ \notin Ends
    BY <1>0 DEF EndFinal
  <2>1. i \in 1 .. n /\ l2[i] = l[i]
    BY <1>0
  <2>2. CASE j = n + 1
    BY <1>0, <2>1, <2>2 DEF Open
  <2>3. CASE j \in 1 .. n
    BY <1>0, <2>1, <2>3 DEF LogOK, EndFinal
  <2>4. j = n + 1 \/ j \in 1 .. n
    BY <1>0
  <2> QED BY <2>2, <2>3, <2>4
<1>3. Steady(l2, h2)
  <2> SUFFICES ASSUME NEW i \in 1 .. n + 1, NEW j \in 1 .. n + 1, NEW k \in Keys,
                      i < j, k \in Touched(l2[i]), l2[j].txn_id # l2[i].txn_id,
                      Open(l2, l2[i].txn_id, j)
               PROVE  h2[j + 1][k] = h2[j][k]
    BY <1>0 DEF Steady
  <2>1. i \in 1 .. n /\ l2[i] = l[i]
    BY <1>0
  <2>2. CASE j = n + 1
    <3>1. Open(l2, l[i].txn_id, n)
      BY <1>0, <2>1, <2>2 DEF Open
    <3>2. Open(l, l[i].txn_id, n)
      BY <1>0, <2>1, <3>1 DEF Open
    <3>3. db[k] = h[n + 1][k]
      BY <1>0, <2>1, <2>2, <3>2
    <3> QED BY <1>0, <2>2, <3>3 DEF Longer
  <2>3. CASE j \in 1 .. n
    <3>1. Open(l, l[i].txn_id, j) /\ l2[j] = l[j]
      BY <1>0, <2>1, <2>3 DEF Open
    <3>2. h[j + 1][k] = h[j][k]
      BY <2>1, <2>3, <3>1 DEF LogOK, Steady
    <3>3. h2[j] = h[j] /\ h2[j + 1] = h[j + 1]
      BY <1>0, <2>3 DEF Longer
    <3> QED BY <3>2, <3>3
  <2>4. j = n + 1 \/ j \in 1 .. n
    BY <1>0
  <2> QED BY <2>2, <2>3, <2>4
<1> QED
  BY <1>1, <1>2, <1>3 DEF LogOK

-----------------------------------------------------------------------------
(* The client keeps the invariant                                          *)

LEMMA ClientLogs ==
  ASSUME TypeOK
  PROVE  /\ Logs(log, history) /\ Len(log) \in Nat
         /\ \A i \in 1 .. Len(log) : log[i] \in LogRec /\ log[i].txn_id \in Txns
<1>1. Logs(log, history)
  BY DEF TypeOK, Logs
<1> QED
  BY <1>1, LogTypes DEF LogRec

(* The transactions that are active are those with a record and no end. *)
LEMMA ActiveIsOpen ==
  ASSUME TypeOK, ClientInv, NEW t \in Txns
  PROVE  /\ status[t] = "new" => \A i \in 1 .. Len(log) : log[i].txn_id # t
         /\ t \in Active => prev_lsn_map_[t] # 0 /\ Open(log, t, Len(log))
         /\ (\E i \in 1 .. Len(log) : log[i].txn_id = t) /\ Open(log, t, Len(log)) => t \in Active
<1> DEFINE m == prev_lsn_map_[t]
           n == Len(log)
<1>0. n \in Nat
  BY ClientLogs
<1>1. MapOK(t)
  BY DEF ClientInv
<1>2. /\ m \in 0 .. n /\ (m # 0 => log[m].txn_id = t) /\ (\A j \in m + 1 .. n : log[j].txn_id # t)
      /\ (status[t] = "new" <=> m = 0)
      /\ m # 0 => (status[t] = "ended" <=> log[m].type_ \in Ends)
  BY <1>1 DEF MapOK, IsLast
<1>3. ASSUME status[t] = "new" PROVE \A i \in 1 .. n : log[i].txn_id # t
  BY <1>0, <1>2, <1>3
<1>4. ASSUME t \in Active PROVE m # 0 /\ Open(log, t, n)
  <2>1. m # 0 /\ log[m].type_ \notin Ends
    BY <1>2, <1>4 DEF Active
  <2>2. ASSUME NEW i \in 1 .. n, log[i].txn_id = t PROVE log[i].type_ \notin Ends
    <3>1. i <= m
      BY <1>0, <1>2, <2>2
    <3>2. CASE i = m
      BY <2>1, <3>2
    <3>3. CASE i < m
      BY <1>0, <1>2, <2>1, <2>2, <3>3 DEF ClientInv, LogOK, EndFinal
    <3> QED BY <1>0, <1>2, <3>1, <3>2, <3>3
  <2> QED BY <2>1, <2>2 DEF Open
<1>5. ASSUME NEW i \in 1 .. n, log[i].txn_id = t, Open(log, t, n) PROVE t \in Active
  <2>1. m # 0
    BY <1>0, <1>2, <1>5
  <2>2. log[m].type_ \notin Ends
    BY <1>0, <1>2, <1>5, <2>1 DEF Open
  <2>3. status[t] \in {"new", "active", "ended"}
    BY DEF TypeOK
  <2> QED BY <1>2, <2>1, <2>2, <2>3 DEF Active
<1> QED
  BY <1>3, <1>4, <1>5

LEMMA UnendedSame ==
  ASSUME NEW l, NEW h, NEW r, NEW db, NEW l2, NEW h2, Len(l) \in Nat,
         Longer(l, h, r, db, l2, h2), NEW n \in 0 .. Len(l), NEW u, Unended(l, u, n)
  PROVE  Unended(l2, u, n)
<1> SUFFICES ASSUME NEW t \in Txns
             PROVE  /\ u[t] # 0 => IsLast(l2, t, u[t], n) /\ l2[u[t]].type_ \notin Ends
                    /\ u[t] = 0 => (\A i \in 1 .. n : l2[i].txn_id # t) \/ ~Open(l2, t, n)
  BY DEF Unended
<1>0. \A i \in 1 .. n : l2[i] = l[i]
  BY DEF Longer
<1>1. ASSUME u[t] # 0 PROVE IsLast(l2, t, u[t], n) /\ l2[u[t]].type_ \notin Ends
  <2>1. PICK i : i = u[t]
    OBVIOUS
  <2>2. IsLast(l, t, i, n) /\ l[i].type_ \notin Ends
    BY <1>1, <2>1 DEF Unended
  <2>3. IsLast(l2, t, i, n)
    BY <2>2, LastSame
  <2>4. i \in 1 .. n
    BY <1>1, <2>1, <2>2 DEF IsLast
  <2> QED BY <1>0, <2>1, <2>2, <2>3, <2>4
<1>2. ASSUME u[t] = 0 PROVE (\A i \in 1 .. n : l2[i].txn_id # t) \/ ~Open(l2, t, n)
  BY <1>0, <1>2, OpenSame DEF Unended
<1> QED
  BY <1>1, <1>2

(* What every step of a transaction does to the log, the map and the
   checkpoint. *)
Appended ==
  /\ Logs(log', history') /\ LogOK(log', history')
  /\ live' = history'[Len(log') + 1]
  /\ \A u \in Txns : MapOK(u)'
  /\ CheckOK'

LEMMA AppendKeeps ==
  ASSUME TypeOK, ClientInv, NEW t \in Txns, NEW kind \in Kinds, NEW old \in Pairs, NEW new \in Pairs,
         NEW db \in Databases, AppendLogRec(kind, t, old, new, db),
         IF kind = "begin" THEN status[t] = "new" ELSE t \in Active,
         status' = [status EXCEPT ![t] = IF kind \in Ends THEN "ended" ELSE "active"],
         UNCHANGED checkpoint,
         Effect(log', history', Len(log) + 1),
         \A u \in Active \ {t} : \A k \in locks[u] : db[k] = live[k]
  PROVE  Appended
<1> DEFINE n == Len(log)
           p == IF kind = "begin" THEN 0 ELSE prev_lsn_map_[t]
           rec == [type_ |-> kind, txn_id |-> t, prev_lsn_ |-> p, old |-> old, new |-> new]
<1>0. n \in Nat /\ Logs(log, history)
      /\ \A i \in 1 .. Len(log) : log[i] \in LogRec /\ log[i].txn_id \in Txns
  BY ClientLogs
<1>1. /\ n < MaxLog /\ log' = Append(log, rec) /\ history' = Append(history, db) /\ live' = db
      /\ prev_lsn_map_' = [prev_lsn_map_ EXCEPT ![t] = n + 1]
  BY DEF AppendLogRec
<1>2. prev_lsn_map_ \in [Txns -> Lsns] /\ p \in Lsns
  BY RecoveryAssumption DEF TypeOK, Lsns
<1>3. rec \in LogRec
  BY <1>2 DEF LogRec
<1>4. PICK r \in LogRec : /\ r.txn_id = t /\ r.type_ = kind /\ r.prev_lsn_ = p
                          /\ r.old = old /\ r.new = new /\ log' = Append(log, r)
  BY <1>1, <1>3
<1> HIDE DEF rec
<1>5. Logs(log', history') /\ Longer(log, history, r, db, log', history')
  <2>1. PICK l2, h2 : l2 = log' /\ h2 = history'
    OBVIOUS
  <2>2. l2 = Append(log, r) /\ h2 = Append(history, db)
    BY <1>1, <1>4, <2>1
  <2> QED BY <1>0, <2>1, <2>2, AppendLonger
<1>6. MapOK(t) /\ (kind = "begin" => prev_lsn_map_[t] = 0) /\ (kind # "begin" => prev_lsn_map_[t] # 0)
  BY ActiveIsOpen DEF ClientInv, MapOK
<1>7. IsLast(log, t, p, n)
  BY <1>6 DEF MapOK
<1>8. Open(log, t, n)
  <2>1. CASE kind = "begin"
    BY <2>1, ActiveIsOpen DEF Open
  <2>2. CASE kind # "begin"
    BY <2>2, ActiveIsOpen
  <2> QED BY <2>1, <2>2
<1>9. ASSUME NEW i \in 1 .. n, NEW k \in Keys, k \in Touched(log[i]), log[i].txn_id # t,
             Open(log, log[i].txn_id, n)
      PROVE  db[k] = history[n + 1][k]
  <2>1. PICK u \in Txns : u = log[i].txn_id
    BY <1>0
  <2>2. u \in Active
    BY <1>9, <2>1, ActiveIsOpen
  <2>3. Writes(log, u, i, k)
    BY <1>9, <2>1 DEF Writes
  <2>4. k \in locks[u]
    BY <2>3 DEF ClientInv, LocksOK
  <2> QED BY <1>9, <2>1, <2>2, <2>4 DEF ClientInv
<1>10. LogOK(log', history')
  <2>1. PICK l2, h2 : l2 = log' /\ h2 = history'
    OBVIOUS
  <2>2. Logs(l2, h2) /\ Longer(log, history, r, db, l2, h2) /\ Effect(l2, h2, n + 1)
    BY <1>5, <2>1
  <2>3. IsLast(log, r.txn_id, r.prev_lsn_, Len(log)) /\ (r.type_ = "begin" <=> r.prev_lsn_ = 0)
        /\ Open(log, r.txn_id, Len(log))
    BY <1>4, <1>6, <1>7, <1>8
  <2>4. \A i \in 1 .. Len(log), k \in Keys :
            k \in Touched(log[i]) /\ log[i].txn_id # r.txn_id /\ Open(log, log[i].txn_id, Len(log))
              => db[k] = history[Len(log) + 1][k]
    BY <1>4, <1>9
  <2>5. LogOK(log, history)
    BY DEF ClientInv
  <2>6. LogOK(l2, h2)
    BY <1>0, <2>2, <2>3, <2>4, <2>5, LogGrows
  <2> QED BY <2>1, <2>6
<1>11. /\ Len(log') = n + 1 /\ log'[n + 1] = r /\ history'[(n + 1) + 1] = db
       /\ \A i \in 1 .. n : log'[i] = log[i]
       /\ \A i \in 1 .. n + 1 : history'[i] = history[i]
  BY <1>5 DEF Longer
<1>12. ASSUME NEW u \in Txns PROVE MapOK(u)'
  <2>1. status \in [Txns -> {"new", "active", "ended"}]
    BY DEF TypeOK
  <2>2. CASE u = t
    <3>1. prev_lsn_map_'[u] = n + 1 /\ status'[u] = IF kind \in Ends THEN "ended" ELSE "active"
      BY <1>1, <1>2, <2>1, <2>2
    <3>2. IsLast(log', u, n + 1, n + 1)
      BY <1>0, <1>4, <1>11, <2>2 DEF IsLast
    <3> QED BY <1>0, <1>4, <1>11, <3>1, <3>2 DEF MapOK
  <2>3. CASE u # t
    <3>1. prev_lsn_map_'[u] = prev_lsn_map_[u] /\ status'[u] = status[u]
      BY <1>1, <1>2, <2>1, <2>3
    <3>2. PICK m : m = prev_lsn_map_[u]
      OBVIOUS
    <3>3. /\ IsLast(log, u, m, n) /\ (status[u] = "new" <=> m = 0)
          /\ m # 0 => (status[u] = "ended" <=> log[m].type_ \in Ends)
      BY <3>2 DEF ClientInv, MapOK
    <3>4. m \in 0 .. n /\ (m # 0 => m \in 1 .. n)
      BY <1>0, <3>3 DEF IsLast
    <3>5. \A j \in m + 1 .. n + 1 : log'[j].txn_id # u
      <4> SUFFICES ASSUME NEW j \in m + 1 .. n + 1 PROVE log'[j].txn_id # u
        OBVIOUS
      <4>1. CASE j = n + 1
        BY <1>4, <1>11, <2>3, <4>1
      <4>2. CASE j \in m + 1 .. n
        BY <1>0, <1>11, <3>3, <3>4, <4>2 DEF IsLast
      <4> QED BY <1>0, <3>4, <4>1, <4>2
    <3>6. IsLast(log', u, m, n + 1)
      BY <1>0, <1>11, <3>3, <3>4, <3>5 DEF IsLast
    <3> QED BY <1>11, <3>1, <3>2, <3>3, <3>4, <3>6 DEF MapOK
  <2> QED BY <2>2, <2>3
<1>13. CheckOK'
  <2>1. PICK c : c = checkpoint.checkpoint_lsn_
    OBVIOUS
  <2>2. c \in 0 .. n /\ (c # 0 => /\ checkpoint.persist_data_ = history[c + 1]
                                  /\ Unended(log, checkpoint.active_txns_, c))
    <3>1. c \in Nat
      BY <2>1, RecoveryAssumption DEF TypeOK, CheckPoints, Lsns
    <3> QED BY <1>0, <2>1, <3>1 DEF ClientInv, CheckOK
  <2>3. ASSUME c # 0
        PROVE  history'[c + 1] = history[c + 1] /\ Unended(log', checkpoint.active_txns_, c)
    <3>1. PICK l2, h2, a : l2 = log' /\ h2 = history' /\ a = checkpoint.active_txns_
      OBVIOUS
    <3>2. Longer(log, history, r, db, l2, h2) /\ Unended(log, a, c)
      BY <1>5, <2>2, <2>3, <3>1
    <3>3. Unended(l2, a, c)
      BY <1>0, <2>2, <3>2, UnendedSame
    <3> QED BY <1>0, <1>11, <2>2, <3>1, <3>3
  <2>4. c <= Len(log')
    BY <1>0, <1>11, <2>2
  <2> QED BY <2>1, <2>2, <2>3, <2>4 DEF CheckOK
<1>14. live' = history'[Len(log') + 1]
  BY <1>1, <1>11
<1> QED
  BY <1>4, <1>5, <1>10, <1>12, <1>13, <1>14 DEF Appended

LEMMA AppendGives ==
  ASSUME TypeOK, NEW t \in Txns, NEW kind \in Kinds, NEW old \in Pairs, NEW new \in Pairs,
         NEW db \in Databases, AppendLogRec(kind, t, old, new, db)
  PROVE  \E r \in LogRec : /\ r.txn_id = t /\ r.type_ = kind /\ r.old = old /\ r.new = new
                           /\ Longer(log, history, r, db, log', history')
<1> DEFINE p == IF kind = "begin" THEN 0 ELSE prev_lsn_map_[t]
           rec == [type_ |-> kind, txn_id |-> t, prev_lsn_ |-> p, old |-> old, new |-> new]
<1>1. p \in Lsns
  BY RecoveryAssumption DEF TypeOK, Lsns
<1>2. rec \in LogRec
  BY <1>1 DEF LogRec
<1>3. PICK r \in LogRec : /\ r.txn_id = t /\ r.type_ = kind /\ r.old = old /\ r.new = new
                          /\ log' = Append(log, r)
  BY <1>2 DEF AppendLogRec
<1>4. PICK l2, h2 : l2 = log' /\ h2 = history'
  OBVIOUS
<1>5. l2 = Append(log, r) /\ h2 = Append(history, db) /\ Logs(log, history)
  BY <1>3, <1>4, ClientLogs DEF AppendLogRec
<1>6. Longer(log, history, r, db, l2, h2)
  BY <1>5, AppendLonger
<1> QED
  BY <1>3, <1>4, <1>6

(* The types, after a step of the client that appends a record. *)
LEMMA AppendTypes ==
  ASSUME TypeOK, NEW t \in Txns, NEW kind \in Kinds, NEW old \in Pairs, NEW new \in Pairs,
         NEW db \in Databases, AppendLogRec(kind, t, old, new, db), Appended,
         NEW s \in {"active", "ended"}, status' = [status EXCEPT ![t] = s] \/ UNCHANGED status,
         committed' \in Databases, locks' \in [Txns -> SUBSET Keys], UNCHANGED checkpoint
  PROVE  TypeOK'
<1>1. Len(log) \in Nat /\ Len(log) < MaxLog /\ Len(log) + 1 \in Lsns
  BY ClientLogs, RecoveryAssumption DEF AppendLogRec, Lsns
<1>2. PICK r \in LogRec : Longer(log, history, r, db, log', history')
  BY AppendGives
<1>3. Len(log') <= MaxLog
  BY <1>1, <1>2, RecoveryAssumption DEF Longer
<1>4. log' \in Seq(LogRec) /\ history' \in Seq(Databases) /\ Len(history') = Len(log') + 1
  BY DEF Appended, Logs
<1>5. prev_lsn_map_' \in [Txns -> Lsns]
  BY <1>1 DEF TypeOK, AppendLogRec
<1>6. status' \in [Txns -> {"new", "active", "ended"}]
  BY DEF TypeOK
<1>7. {live', committed', data_'} \subseteq Databases
  BY DEF TypeOK, AppendLogRec, manager
<1>8. /\ checkpoint' \in CheckPoints /\ phase' \in {"run", "redo", "undo", "done", "exit"}
      /\ unendedTxn' \in [Txns -> Lsns]
      /\ now' \in 0 .. MaxLog + 1 /\ cursor' \in Lsns /\ crashes' \in 0 .. MaxCrashes
  BY DEF TypeOK, AppendLogRec, manager
<1> QED
  BY <1>3, <1>4, <1>5, <1>6, <1>7, <1>8 DEF TypeOK

(* Committed values of keys that active transactions wrote. *)
LEMMA ImagesGrow ==
  ASSUME TypeOK, ClientInv, NEW r, NEW db, Longer(log, history, r, db, log', history')
  PROVE  \A u \in Active : \A k \in locks[u] : Image(log', history', u, 0, Len(log'), k, committed[k])
<1> SUFFICES ASSUME NEW u \in Active, NEW k \in locks[u]
             PROVE  Image(log', history', u, 0, Len(log'), k, committed[k])
  OBVIOUS
<1>1. PICK l2, h2, v : l2 = log' /\ h2 = history' /\ v = committed[k]
  OBVIOUS
<1>2. u \in Txns /\ k \in Keys
  BY DEF Active, TypeOK
<1>3. Len(log) \in Nat /\ Image(log, history, u, 0, Len(log), k, v)
      /\ \E i \in 1 .. Len(log) : Writes(log, u, i, k)
  BY <1>1, <1>2, ClientLogs DEF ClientInv, CommittedOK, LocksOK
<1>4. Image(l2, h2, u, 0, Len(log) + 1, k, v)
  BY <1>1, <1>3, ImageGrows
<1> QED
  BY <1>1, <1>4 DEF Longer

(* The locks, after a record of t. *)
LEMMA LocksGrow ==
  ASSUME TypeOK, ClientInv, NEW r, NEW db, Longer(log, history, r, db, log', history'),
         \A u \in Txns, k \in Keys : k \in locks'[u] <=> k \in locks[u] \/ (u = r.txn_id /\ k \in Touched(r))
  PROVE  \A u \in Txns, k \in Keys : k \in locks'[u] <=> \E i \in 1 .. Len(log') : Writes(log', u, i, k)
<1> SUFFICES ASSUME NEW u \in Txns, NEW k \in Keys
             PROVE  k \in locks'[u] <=> \E i \in 1 .. Len(log') : Writes(log', u, i, k)
  OBVIOUS
<1>1. Len(log) \in Nat /\ Len(log') = Len(log) + 1
  BY ClientLogs DEF Longer
<1>2. \A i \in 1 .. Len(log) : Writes(log', u, i, k) <=> Writes(log, u, i, k)
  BY DEF Longer, Writes
<1>3. Writes(log', u, Len(log) + 1, k) <=> u = r.txn_id /\ k \in Touched(r)
  BY DEF Longer, Writes
<1>4. k \in locks[u] <=> \E i \in 1 .. Len(log) : Writes(log, u, i, k)
  BY DEF ClientInv, LocksOK
<1>5. (\E i \in 1 .. Len(log) + 1 : Writes(log', u, i, k))
        <=> (\E i \in 1 .. Len(log) : Writes(log', u, i, k)) \/ Writes(log', u, Len(log) + 1, k)
  BY <1>1
<1>6. (\E i \in 1 .. Len(log) : Writes(log', u, i, k)) <=> (\E i \in 1 .. Len(log) : Writes(log, u, i, k))
  BY <1>2
<1>7. k \in locks'[u] <=> k \in locks[u] \/ (u = r.txn_id /\ k \in Touched(r))
  OBVIOUS
<1> QED
  BY <1>1, <1>3, <1>4, <1>5, <1>6, <1>7

LEMMA NoPairType == NoPair \in Pairs
  BY DEF NoPair, Pairs

LEMMA BeginInv ==
  ASSUME TypeOK, ClientInv, NEW t \in Txns, Begin(t)
  PROVE  TypeOK' /\ ClientInv'
<1> DEFINE n == Len(log)
<1>1. /\ status[t] = "new" /\ AppendLogRec("begin", t, NoPair, NoPair, live)
      /\ status' = [status EXCEPT ![t] = "active"] /\ UNCHANGED <<committed, locks, checkpoint>>
      /\ live' = live
  BY DEF Begin, AppendLogRec
<1>2. live \in Databases /\ "begin" \in Kinds /\ n \in Nat /\ live = history[n + 1]
  BY ClientLogs DEF TypeOK, Kinds, ClientInv
<1>3. PICK r \in LogRec : /\ r.txn_id = t /\ r.type_ = "begin"
                          /\ Longer(log, history, r, live, log', history')
  BY <1>1, <1>2, NoPairType, AppendGives
<1>4. Effect(log', history', n + 1)
  BY <1>2, <1>3 DEF Longer, Effect
<1>5. Appended
  <2>1. status' = [status EXCEPT ![t] = IF "begin" \in Ends THEN "ended" ELSE "active"]
    BY <1>1 DEF Ends
  <2>2. \A u \in Active \ {t} : \A k \in locks[u] : live[k] = live[k]
    OBVIOUS
  <2> QED BY <1>1, <1>2, <1>4, <2>1, <2>2, NoPairType, AppendKeeps
<1>6. TypeOK'
  <2>1. committed' \in Databases /\ locks' \in [Txns -> SUBSET Keys]
    BY <1>1 DEF TypeOK
  <2> QED BY <1>1, <1>2, <1>5, <2>1, NoPairType, AppendTypes
<1>7. Active' = Active \cup {t} /\ \A k \in Keys : k \notin locks[t]
  <2>1. Active' = Active \cup {t}
    BY <1>1 DEF Active, TypeOK
  <2>2. \A i \in 1 .. Len(log) : log[i].txn_id # t
    BY <1>1, ActiveIsOpen
  <2> QED BY <2>1, <2>2 DEF ClientInv, LocksOK, Writes
<1>8. LocksOK'
  <2>1. Touched(r) = {}
    BY <1>3 DEF Touched
  <2>2. \A u \in Txns, k \in Keys : k \in locks'[u] <=> k \in locks[u] \/ (u = r.txn_id /\ k \in Touched(r))
    BY <1>1, <2>1
  <2>3. \A u \in Txns, k \in Keys : k \in locks'[u] <=> \E i \in 1 .. Len(log') : Writes(log', u, i, k)
    BY <1>3, <2>2, LocksGrow
  <2>4. \A u, v \in Active' : u # v => locks'[u] \cap locks'[v] = {}
    BY <1>1, <1>7 DEF ClientInv, LocksOK, TypeOK, Active
  <2> QED BY <2>3, <2>4 DEF LocksOK
<1>9. CommittedOK'
  <2>1. \A u \in Active : \A k \in locks[u] : Image(log', history', u, 0, Len(log'), k, committed[k])
    BY <1>3, ImagesGrow
  <2>2. \A u \in Active' : \A k \in locks'[u] : Image(log', history', u, 0, Len(log'), k, committed'[k])
    BY <1>1, <1>7, <2>1 DEF TypeOK
  <2>3. \A k \in Keys : (\A u \in Active' : k \notin locks'[u]) => committed'[k] = live'[k]
    BY <1>1, <1>7 DEF ClientInv, CommittedOK
  <2> QED BY <2>2, <2>3 DEF CommittedOK
<1> QED
  BY <1>5, <1>6, <1>8, <1>9 DEF ClientInv, Appended

(* Records of this kind, with these pairs, write the keys ks. *)
WritesKeys(kind, old, new, ks) ==
  \A r \in LogRec : r.type_ = kind /\ r.old = old /\ r.new = new => Touched(r) = ks

DiffersOn(ks, db) == \A k \in Keys \ ks : db[k] = live[k]

(* A write, whatever its kind, on keys that no other transaction has. *)
LEMMA WriteInv ==
  ASSUME TypeOK, ClientInv, NEW t \in Txns, NEW ks \in SUBSET Keys,
         NEW kind \in {"insert", "delete", "update"}, NEW old \in Pairs, NEW new \in Pairs,
         NEW db \in Databases, Write(t, ks, kind, old, new, db),
         DiffersOn(ks, db), WritesKeys(kind, old, new, ks),
         Effect(log', history', Len(log) + 1)
  PROVE  TypeOK' /\ ClientInv'
<1> DEFINE n == Len(log)
<1>1. /\ t \in Active /\ (\A k \in ks : ~LockedByOther(t, k))
      /\ AppendLogRec(kind, t, old, new, db)
      /\ locks' = [locks EXCEPT ![t] = @ \cup ks] /\ UNCHANGED <<committed, status, checkpoint>>
      /\ live' = db
  BY DEF Write, AppendLogRec
<1>2. kind \in Kinds /\ kind \notin Ends /\ kind # "begin" /\ n \in Nat /\ live = history[n + 1]
  BY ClientLogs DEF Kinds, Ends, ClientInv
<1>3. PICK r \in LogRec : /\ r.txn_id = t /\ Touched(r) = ks
                          /\ Longer(log, history, r, db, log', history')
  BY <1>1, <1>2, AppendGives DEF WritesKeys
<1>b. \A k \in Keys \ ks : db[k] = live[k]
  BY DEF DiffersOn
<1>4. \A u \in Active \ {t} : locks[u] \cap ks = {}
  BY <1>1 DEF LockedByOther
<1>a. \A u \in Active : u \in Txns /\ locks[u] \subseteq Keys
  BY DEF Active, TypeOK
<1>5. Appended
  <2>1. status' = [status EXCEPT ![t] = IF kind \in Ends THEN "ended" ELSE "active"]
    BY <1>1, <1>2 DEF Active, TypeOK
  <2>2. \A u \in Active \ {t} : \A k \in locks[u] : db[k] = live[k]
    BY <1>4, <1>a, <1>b
  <2> QED BY <1>1, <1>2, <2>1, <2>2, AppendKeeps
<1>6. locks' \in [Txns -> SUBSET Keys] /\ locks'[t] = locks[t] \cup ks
      /\ \A u \in Txns : u # t => locks'[u] = locks[u]
  BY <1>1 DEF TypeOK
<1>7. TypeOK'
  <2>1. committed' \in Databases
    BY <1>1 DEF TypeOK
  <2> QED BY <1>1, <1>2, <1>5, <1>6, <2>1, AppendTypes
<1>8. Active' = Active
  BY <1>1 DEF Active
<1>9. LocksOK'
  <2>1. \A u \in Txns, k \in Keys : k \in locks'[u] <=> k \in locks[u] \/ (u = r.txn_id /\ k \in Touched(r))
    BY <1>3, <1>6
  <2>2. \A u \in Txns, k \in Keys : k \in locks'[u] <=> \E i \in 1 .. Len(log') : Writes(log', u, i, k)
    BY <1>3, <2>1, LocksGrow
  <2>3. \A u, v \in Active : u # v => locks[u] \cap locks[v] = {}
    BY DEF ClientInv, LocksOK
  <2>4. \A u, v \in Active' : u # v => locks'[u] \cap locks'[v] = {}
    BY <1>4, <1>6, <1>8, <1>a, <2>3
  <2> QED BY <2>2, <2>4 DEF LocksOK
<1>10. CommittedOK'
  <2>1. ASSUME NEW u \in Active, NEW k \in locks'[u]
        PROVE  Image(log', history', u, 0, Len(log'), k, committed[k])
    <3>1. CASE k \in locks[u]
      BY <1>3, <3>1, ImagesGrow
    <3>2. CASE k \notin locks[u]
      <4>1. u = t /\ k \in ks /\ k \in Keys
        BY <1>6, <1>a, <2>1, <3>2
      <4>2. \A v \in Active : k \notin locks[v]
        BY <1>4, <3>2, <4>1
      <4>3. committed[k] = history[n + 1][k]
        BY <1>2, <4>1, <4>2 DEF ClientInv, CommittedOK
      <4>4. \A i \in 1 .. n : ~Writes(log', t, i, k)
        <5>1. \A i \in 1 .. n : ~Writes(log, t, i, k)
          BY <3>2, <4>1 DEF ClientInv, LocksOK
        <5> QED BY <1>3, <5>1 DEF Longer, Writes
      <4>5. Writes(log', t, n + 1, k) /\ Len(log') = n + 1 /\ history'[n + 1] = history[n + 1]
        BY <1>2, <1>3, <4>1 DEF Longer, Writes
      <4>6. \A j \in 1 .. n + 1 : Writes(log', t, j, k) => j = n + 1
        BY <1>2, <4>4
      <4> QED BY <1>2, <4>1, <4>3, <4>5, <4>6 DEF Image
    <3> QED BY <3>1, <3>2
  <2>2. \A u \in Active' : \A k \in locks'[u] : Image(log', history', u, 0, Len(log'), k, committed'[k])
    BY <1>1, <1>8, <2>1
  <2>3. ASSUME NEW k \in Keys, \A u \in Active' : k \notin locks'[u] PROVE committed'[k] = live'[k]
    <3>1. k \notin ks /\ \A u \in Active : k \notin locks[u]
      BY <1>1, <1>6, <1>8, <1>a, <2>3
    <3> QED BY <1>1, <1>b, <3>1 DEF ClientInv, CommittedOK
  <2> QED BY <2>2, <2>3 DEF CommittedOK
<1> QED
  BY <1>5, <1>7, <1>9, <1>10 DEF ClientInv, Appended

LEMMA InsertInv ==
  ASSUME TypeOK, ClientInv, NEW t \in Txns, NEW k \in Keys, NEW v \in Vals, InsertKey(t, k, v)
  PROVE  TypeOK' /\ ClientInv'
<1>1. PICK ks, new, db : ks = {k} /\ new = <<k, v>> /\ db = [live EXCEPT ![k] = v]
  OBVIOUS
<1>2. live \in Databases /\ live = history[Len(log) + 1] /\ Len(log) \in Nat
  BY ClientLogs DEF TypeOK, ClientInv
<1>3. /\ ks \in SUBSET Keys /\ new \in Pairs /\ db \in Databases /\ new[1] = k /\ new[2] = v
      /\ Pair(new) /\ DiffersOn(ks, db)
  BY <1>1, <1>2 DEF Pairs, Databases, Pair, DiffersOn
<1>4. live[k] = None /\ Write(t, ks, "insert", NoPair, new, db)
  BY <1>1 DEF InsertKey
<1>5. WritesKeys("insert", NoPair, new, ks)
  BY <1>1, <1>3 DEF Touched, WritesKeys
<1>6. AppendLogRec("insert", t, NoPair, new, db) /\ "insert" \in Kinds
  BY <1>4 DEF Write, Kinds
<1>7. PICK r \in LogRec : r.type_ = "insert" /\ r.new = new /\ Longer(log, history, r, db, log', history')
  BY <1>3, <1>6, NoPairType, AppendGives
<1>8. /\ log'[Len(log) + 1] = r /\ history'[Len(log) + 1] = live /\ history'[(Len(log) + 1) + 1] = db
  BY <1>2, <1>7 DEF Longer
<1>9. Effect(log', history', Len(log) + 1)
  BY <1>1, <1>3, <1>4, <1>7, <1>8 DEF Effect
<1> QED
  BY <1>3, <1>4, <1>5, <1>9, NoPairType, WriteInv

LEMMA DeleteInv ==
  ASSUME TypeOK, ClientInv, NEW t \in Txns, NEW k \in Keys, DeleteKey(t, k)
  PROVE  TypeOK' /\ ClientInv'
<1>1. PICK ks, old, db : ks = {k} /\ old = <<k, live[k]>> /\ db = [live EXCEPT ![k] = None]
  OBVIOUS
<1>2. live \in Databases /\ live = history[Len(log) + 1] /\ Len(log) \in Nat
  BY ClientLogs DEF TypeOK, ClientInv
<1>3. live[k] # None /\ live[k] \in Vals /\ Write(t, ks, "delete", old, NoPair, db)
  BY <1>1, <1>2 DEF DeleteKey, Databases
<1>4. /\ ks \in SUBSET Keys /\ old \in Pairs /\ db \in Databases /\ old[1] = k /\ old[2] = live[k]
      /\ Pair(old) /\ DiffersOn(ks, db)
  BY <1>1, <1>2, <1>3 DEF Pairs, Databases, Pair, DiffersOn
<1>5. WritesKeys("delete", old, NoPair, ks)
  BY <1>1, <1>4 DEF Touched, WritesKeys
<1>6. AppendLogRec("delete", t, old, NoPair, db) /\ "delete" \in Kinds
  BY <1>3 DEF Write, Kinds
<1>7. PICK r \in LogRec : r.type_ = "delete" /\ r.old = old /\ Longer(log, history, r, db, log', history')
  BY <1>4, <1>6, NoPairType, AppendGives
<1>8. /\ log'[Len(log) + 1] = r /\ history'[Len(log) + 1] = live /\ history'[(Len(log) + 1) + 1] = db
  BY <1>2, <1>7 DEF Longer
<1>9. Effect(log', history', Len(log) + 1)
  BY <1>1, <1>4, <1>7, <1>8 DEF Effect
<1> QED
  BY <1>3, <1>4, <1>5, <1>9, NoPairType, WriteInv

LEMMA UpdateInv ==
  ASSUME TypeOK, ClientInv, NEW t \in Txns, NEW k \in Keys, NEW n \in Keys, NEW v \in Vals,
         UpdateKey(t, k, n, v)
  PROVE  TypeOK' /\ ClientInv'
<1>1. PICK ks, old, new, db : /\ ks = {k, n} /\ old = <<k, live[k]>> /\ new = <<n, v>>
                              /\ db = [live EXCEPT ![k] = None, ![n] = v]
  OBVIOUS
<1>2. live \in Databases /\ live = history[Len(log) + 1] /\ Len(log) \in Nat
  BY ClientLogs DEF TypeOK, ClientInv
<1>3. /\ live[k] # None /\ live[k] \in Vals /\ (n = k \/ live[n] = None)
      /\ Write(t, ks, "update", old, new, db)
  BY <1>1, <1>2 DEF UpdateKey, Databases
<1>4. /\ ks \in SUBSET Keys /\ old \in Pairs /\ new \in Pairs /\ db \in Databases
      /\ old[1] = k /\ old[2] = live[k] /\ new[1] = n /\ new[2] = v
      /\ Pair(old) /\ Pair(new) /\ DiffersOn(ks, db)
  BY <1>1, <1>2, <1>3 DEF Pairs, Databases, Pair, DiffersOn
<1>5. WritesKeys("update", old, new, ks)
  BY <1>1, <1>4 DEF Touched, WritesKeys
<1>6. AppendLogRec("update", t, old, new, db) /\ "update" \in Kinds
  BY <1>3 DEF Write, Kinds
<1>7. PICK r \in LogRec : /\ r.type_ = "update" /\ r.old = old /\ r.new = new
                          /\ Longer(log, history, r, db, log', history')
  BY <1>4, <1>6, AppendGives
<1>8. /\ log'[Len(log) + 1] = r /\ history'[Len(log) + 1] = live /\ history'[(Len(log) + 1) + 1] = db
  BY <1>2, <1>7 DEF Longer
<1>9. Effect(log', history', Len(log) + 1)
  BY <1>1, <1>3, <1>4, <1>7, <1>8 DEF Effect
<1> QED
  BY <1>3, <1>4, <1>5, <1>9, WriteInv

(* What t wrote becomes what was committed, and t no longer holds it. *)
LEMMA CommitInv ==
  ASSUME TypeOK, ClientInv, NEW t \in Txns, Commit(t)
  PROVE  TypeOK' /\ ClientInv'
<1> DEFINE n == Len(log)
<1>1. /\ t \in Active /\ AppendLogRec("commit", t, NoPair, NoPair, live)
      /\ committed' = [k \in Keys |-> IF k \in locks[t] THEN live[k] ELSE committed[k]]
      /\ status' = [status EXCEPT ![t] = "ended"] /\ UNCHANGED <<locks, checkpoint>>
      /\ live' = live
  BY DEF Commit, AppendLogRec
<1>2. live \in Databases /\ "commit" \in Kinds /\ n \in Nat /\ live = history[n + 1]
  BY ClientLogs DEF TypeOK, Kinds, ClientInv
<1>3. PICK r \in LogRec : /\ r.txn_id = t /\ r.type_ = "commit"
                          /\ Longer(log, history, r, live, log', history')
  BY <1>1, <1>2, NoPairType, AppendGives
<1>4. Effect(log', history', n + 1)
  BY <1>2, <1>3 DEF Longer, Effect
<1>5. Appended
  <2>1. status' = [status EXCEPT ![t] = IF "commit" \in Ends THEN "ended" ELSE "active"]
    BY <1>1 DEF Ends
  <2>2. \A u \in Active \ {t} : \A k \in locks[u] : live[k] = live[k]
    OBVIOUS
  <2> QED BY <1>1, <1>2, <1>4, <2>1, <2>2, NoPairType, AppendKeeps
<1>6. TypeOK'
  <2>1. committed' \in Databases /\ locks' \in [Txns -> SUBSET Keys]
    BY <1>1, <1>2 DEF TypeOK, Databases
  <2> QED BY <1>1, <1>2, <1>5, <2>1, NoPairType, AppendTypes
<1>7. Active' = Active \ {t} /\ \A u \in Active : u \in Txns /\ locks[u] \subseteq Keys
  BY <1>1 DEF Active, TypeOK
<1>a. \A u \in Active \ {t} : locks[u] \cap locks[t] = {}
  BY <1>1 DEF ClientInv, LocksOK
<1>8. LocksOK'
  <2>1. Touched(r) = {}
    BY <1>3 DEF Touched
  <2>2. \A u \in Txns, k \in Keys : k \in locks'[u] <=> k \in locks[u] \/ (u = r.txn_id /\ k \in Touched(r))
    BY <1>1, <2>1
  <2>3. \A u \in Txns, k \in Keys : k \in locks'[u] <=> \E i \in 1 .. Len(log') : Writes(log', u, i, k)
    BY <1>3, <2>2, LocksGrow
  <2>4. \A u, v \in Active' : u # v => locks'[u] \cap locks'[v] = {}
    BY <1>1, <1>7 DEF ClientInv, LocksOK
  <2> QED BY <2>3, <2>4 DEF LocksOK
<1>9. CommittedOK'
  <2>1. \A u \in Active : \A k \in locks[u] : Image(log', history', u, 0, Len(log'), k, committed[k])
    BY <1>3, ImagesGrow
  <2>2. \A u \in Active' : \A k \in locks[u] : committed'[k] = committed[k]
    BY <1>1, <1>7, <1>a
  <2>3. \A u \in Active' : \A k \in locks'[u] : Image(log', history', u, 0, Len(log'), k, committed'[k])
    BY <1>1, <1>7, <2>1, <2>2
  <2>4. ASSUME NEW k \in Keys, \A u \in Active' : k \notin locks'[u] PROVE committed'[k] = live'[k]
    <3>1. CASE k \in locks[t]
      BY <1>1, <3>1
    <3>2. CASE k \notin locks[t]
      <4>1. \A u \in Active : k \notin locks[u]
        BY <1>1, <1>7, <2>4, <3>2
      <4>2. committed[k] = live[k]
        BY <4>1 DEF ClientInv, CommittedOK
      <4> QED BY <1>1, <3>2, <4>2
    <3> QED BY <3>1, <3>2
  <2> QED BY <2>3, <2>4 DEF CommittedOK
<1> QED
  BY <1>5, <1>6, <1>8, <1>9 DEF ClientInv, Appended

(* The client undoes what t wrote: that gives the committed values. *)
LEMMA AbortInv ==
  ASSUME TypeOK, ClientInv, NEW t \in Txns, Abort(t)
  PROVE  TypeOK' /\ ClientInv'
<1> DEFINE n == Len(log)
<1>0. PICK db : db = [k \in Keys |-> IF k \in locks[t] THEN committed[k] ELSE live[k]]
  OBVIOUS
<1>1. /\ t \in Active /\ AppendLogRec("abort", t, NoPair, NoPair, db)
      /\ status' = [status EXCEPT ![t] = "ended"] /\ UNCHANGED <<committed, locks, checkpoint>>
      /\ live' = db
  BY <1>0 DEF Abort, AppendLogRec
<1>2. /\ live \in Databases /\ committed \in Databases /\ db \in Databases
      /\ "abort" \in Kinds /\ n \in Nat /\ live = history[n + 1]
  BY <1>0, ClientLogs DEF TypeOK, Kinds, ClientInv, Databases
<1>3. PICK r \in LogRec : /\ r.txn_id = t /\ r.type_ = "abort"
                          /\ Longer(log, history, r, db, log', history')
  BY <1>1, <1>2, NoPairType, AppendGives
<1>7. /\ Active' = Active \ {t} /\ \A u \in Active : u \in Txns /\ locks[u] \subseteq Keys
      /\ \A u \in Active \ {t} : locks[u] \cap locks[t] = {}
  BY <1>1 DEF Active, TypeOK, ClientInv, LocksOK
<1>4. Effect(log', history', n + 1)
  <2>1. ASSUME NEW k \in Keys PROVE Image(log', history', t, 0, n, k, db[k])
    <3>1. PICK v, l2, h2 : v = db[k] /\ l2 = log' /\ h2 = history'
      OBVIOUS
    <3>2. Image(log, history, t, 0, n, k, v)
      <4>1. CASE k \in locks[t]
        BY <1>0, <1>1, <3>1, <4>1 DEF ClientInv, CommittedOK
      <4>2. CASE k \notin locks[t]
        <5>1. \A i \in 1 .. n : ~Writes(log, t, i, k)
          BY <4>2 DEF ClientInv, LocksOK
        <5>2. v = history[n + 1][k]
          BY <1>0, <1>2, <3>1, <4>2
        <5> QED BY <5>1, <5>2 DEF Image
      <4> QED BY <4>1, <4>2
    <3>3. Longer(log, history, r, db, l2, h2) /\ n \in 0 .. n /\ 0 \in Nat
      BY <1>2, <1>3, <3>1
    <3>4. Image(l2, h2, t, 0, n, k, v)
      BY <1>2, <3>2, <3>3, ImageSame
    <3> QED BY <3>1, <3>4
  <2>2. log'[n + 1] = r /\ history'[(n + 1) + 1] = db /\ (n + 1) - 1 = n
    BY <1>2, <1>3 DEF Longer
  <2> QED BY <1>3, <2>1, <2>2 DEF Effect
<1>5. Appended
  <2>1. status' = [status EXCEPT ![t] = IF "abort" \in Ends THEN "ended" ELSE "active"]
    BY <1>1 DEF Ends
  <2>2. \A u \in Active \ {t} : \A k \in locks[u] : db[k] = live[k]
    BY <1>0, <1>7
  <2> QED BY <1>1, <1>2, <1>4, <2>1, <2>2, NoPairType, AppendKeeps
<1>6. TypeOK'
  <2>1. committed' \in Databases /\ locks' \in [Txns -> SUBSET Keys]
    BY <1>1, <1>2 DEF TypeOK
  <2> QED BY <1>1, <1>2, <1>5, <2>1, NoPairType, AppendTypes
<1>8. LocksOK'
  <2>1. Touched(r) = {}
    BY <1>3 DEF Touched
  <2>2. \A u \in Txns, k \in Keys : k \in locks'[u] <=> k \in locks[u] \/ (u = r.txn_id /\ k \in Touched(r))
    BY <1>1, <2>1
  <2>3. \A u \in Txns, k \in Keys : k \in locks'[u] <=> \E i \in 1 .. Len(log') : Writes(log', u, i, k)
    BY <1>3, <2>2, LocksGrow
  <2>4. \A u, v \in Active' : u # v => locks'[u] \cap locks'[v] = {}
    BY <1>1, <1>7 DEF ClientInv, LocksOK
  <2> QED BY <2>3, <2>4 DEF LocksOK
<1>9. CommittedOK'
  <2>1. \A u \in Active : \A k \in locks[u] : Image(log', history', u, 0, Len(log'), k, committed[k])
    BY <1>3, ImagesGrow
  <2>3. \A u \in Active' : \A k \in locks'[u] : Image(log', history', u, 0, Len(log'), k, committed'[k])
    BY <1>1, <1>7, <2>1
  <2>4. ASSUME NEW k \in Keys, \A u \in Active' : k \notin locks'[u] PROVE committed'[k] = live'[k]
    <3>1. CASE k \in locks[t]
      BY <1>0, <1>1, <3>1
    <3>2. CASE k \notin locks[t]
      <4>1. \A u \in Active : k \notin locks[u]
        BY <1>1, <1>7, <2>4, <3>2
      <4>2. committed[k] = live[k]
        BY <4>1 DEF ClientInv, CommittedOK
      <4> QED BY <1>0, <1>1, <3>2, <4>2
    <3> QED BY <3>1, <3>2
  <2> QED BY <2>3, <2>4 DEF CommittedOK
<1> QED
  BY <1>5, <1>6, <1>8, <1>9 DEF ClientInv, Appended

LEMMA CheckPointInv ==
  ASSUME TypeOK, ClientInv, TakeCheckPoint
  PROVE  TypeOK' /\ ClientInv'
<1> DEFINE n == Len(log)
<1>0. PICK a : a = [t \in Txns |-> IF t \in Active THEN prev_lsn_map_[t] ELSE 0]
  OBVIOUS
<1>1. /\ checkpoint' = [checkpoint_lsn_ |-> n, active_txns_ |-> a, persist_data_ |-> live]
      /\ UNCHANGED <<log, prev_lsn_map_, live, history, committed, status, locks, manager>>
  BY <1>0 DEF TakeCheckPoint
<1>2. n \in Nat /\ n \in Lsns /\ live \in Databases /\ live = history[n + 1] /\ a \in [Txns -> Lsns]
  BY <1>0, ClientLogs, RecoveryAssumption DEF TypeOK, ClientInv, Lsns
<1>3. checkpoint' \in CheckPoints
  BY <1>1, <1>2 DEF CheckPoints
<1>4. TypeOK'
  BY <1>1, <1>3 DEF TypeOK, manager
<1>5. Unended(log, a, n)
  <2> SUFFICES ASSUME NEW t \in Txns
               PROVE  /\ a[t] # 0 => IsLast(log, t, a[t], n) /\ log[a[t]].type_ \notin Ends
                      /\ a[t] = 0 => (\A i \in 1 .. n : log[i].txn_id # t) \/ ~Open(log, t, n)
    BY DEF Unended
  <2>1. CASE t \in Active
    <3>1. a[t] = prev_lsn_map_[t] /\ a[t] # 0
      BY <1>0, <2>1, ActiveIsOpen
    <3>2. MapOK(t) /\ status[t] = "active"
      BY <2>1 DEF ClientInv, Active
    <3> QED BY <3>1, <3>2 DEF MapOK
  <2>2. CASE t \notin Active
    <3>1. a[t] = 0
      BY <1>0, <2>2
    <3> QED BY <2>2, <3>1, ActiveIsOpen
  <2> QED BY <2>1, <2>2
<1>6. CheckOK'
  <2>1. PICK c2 : c2 = checkpoint'
    OBVIOUS
  <2>2. c2.checkpoint_lsn_ = n /\ c2.active_txns_ = a /\ c2.persist_data_ = live
    BY <1>1, <2>1
  <2> QED BY <1>1, <1>2, <1>5, <2>1, <2>2 DEF CheckOK
<1>7. /\ LogOK(log', history') /\ live' = history'[Len(log') + 1]
      /\ \A t \in Txns : MapOK(t)'
      /\ LocksOK' /\ CommittedOK'
  BY <1>1 DEF ClientInv, MapOK, LocksOK, CommittedOK, Active
<1> QED
  BY <1>4, <1>6, <1>7 DEF ClientInv

LEMMA AppendRanges ==
  ASSUME TypeOK, Ranges, NEW t \in Txns, NEW kind \in Kinds, NEW old \in Pairs, NEW new \in Pairs,
         NEW db \in Databases, AppendLogRec(kind, t, old, new, db), UNCHANGED checkpoint
  PROVE  Ranges' /\ phase = "run" /\ UNCHANGED manager
<1>1. PICK r \in LogRec : Longer(log, history, r, db, log', history')
  BY AppendGives
<1>2. Len(log) \in Nat /\ Len(log') = Len(log) + 1
  BY <1>1, ClientLogs DEF Longer
<1>3. phase = "run" /\ UNCHANGED manager
  BY DEF AppendLogRec
<1>4. \A u \in Txns : checkpoint'.active_txns_[u] <= Len(log')
  <2> SUFFICES ASSUME NEW u \in Txns PROVE checkpoint.active_txns_[u] <= Len(log')
    OBVIOUS
  <2>1. checkpoint.active_txns_[u] \in Nat /\ checkpoint.active_txns_[u] <= Len(log)
    BY RecoveryAssumption DEF TypeOK, CheckPoints, Lsns, Ranges
  <2> QED BY <1>2, <2>1
<1>5. phase' = "run" /\ cursor' = 0
  BY <1>3 DEF manager, Ranges
<1> QED
  BY <1>3, <1>4, <1>5 DEF Ranges

LEMMA WriteRanges ==
  ASSUME TypeOK, Ranges, NEW t \in Txns, NEW ks, NEW kind \in {"insert", "delete", "update"},
         NEW old \in Pairs, NEW new \in Pairs, NEW db \in Databases, Write(t, ks, kind, old, new, db)
  PROVE  Ranges' /\ phase = "run" /\ UNCHANGED manager
<1>1. AppendLogRec(kind, t, old, new, db) /\ UNCHANGED checkpoint /\ kind \in Kinds
  BY DEF Write, Kinds
<1> QED
  BY <1>1, AppendRanges

LEMMA StepRanges ==
  ASSUME TypeOK, ClientInv, Ranges, ClientStep
  PROVE  Ranges' /\ phase = "run" /\ UNCHANGED manager
<1>0. /\ live \in Databases /\ committed \in Databases
      /\ \A k \in Keys : live[k] \in Vals \cup {None}
  BY DEF TypeOK, Databases
<1>1. ASSUME TakeCheckPoint PROVE Ranges' /\ phase = "run" /\ UNCHANGED manager
  <2>1. /\ checkpoint' = [checkpoint_lsn_ |-> Len(log),
                          active_txns_ |-> [t \in Txns |-> IF t \in Active THEN prev_lsn_map_[t] ELSE 0],
                          persist_data_ |-> live]
        /\ phase = "run" /\ UNCHANGED <<log, manager>>
    BY <1>1 DEF TakeCheckPoint
  <2>2. \A t \in Txns : prev_lsn_map_[t] <= Len(log) /\ 0 <= Len(log)
    BY ClientLogs DEF ClientInv, MapOK, IsLast
  <2>3. \A t \in Txns : checkpoint'.active_txns_[t] <= Len(log')
    BY <2>1, <2>2
  <2> QED BY <2>1, <2>3 DEF Ranges, manager
<1>2. ASSUME NEW t \in Txns, Begin(t) PROVE Ranges' /\ phase = "run" /\ UNCHANGED manager
  <2>1. AppendLogRec("begin", t, NoPair, NoPair, live) /\ UNCHANGED checkpoint /\ "begin" \in Kinds
    BY <1>2 DEF Begin, Kinds
  <2> QED BY <1>0, <2>1, NoPairType, AppendRanges
<1>3. ASSUME NEW t \in Txns, Commit(t) PROVE Ranges' /\ phase = "run" /\ UNCHANGED manager
  <2>1. AppendLogRec("commit", t, NoPair, NoPair, live) /\ UNCHANGED checkpoint /\ "commit" \in Kinds
    BY <1>3 DEF Commit, Kinds
  <2> QED BY <1>0, <2>1, NoPairType, AppendRanges
<1>4. ASSUME NEW t \in Txns, Abort(t) PROVE Ranges' /\ phase = "run" /\ UNCHANGED manager
  <2>1. PICK db : db = [k \in Keys |-> IF k \in locks[t] THEN committed[k] ELSE live[k]]
    OBVIOUS
  <2>2. AppendLogRec("abort", t, NoPair, NoPair, db) /\ UNCHANGED checkpoint /\ "abort" \in Kinds
    BY <1>4, <2>1 DEF Abort, Kinds
  <2>3. db \in Databases
    BY <1>0, <2>1 DEF Databases
  <2> QED BY <2>2, <2>3, NoPairType, AppendRanges
<1>5. ASSUME NEW t \in Txns, NEW k \in Keys, DeleteKey(t, k)
      PROVE  Ranges' /\ phase = "run" /\ UNCHANGED manager
  <2>1. PICK old, db : old = <<k, live[k]>> /\ db = [live EXCEPT ![k] = None]
    OBVIOUS
  <2>2. Write(t, {k}, "delete", old, NoPair, db)
    BY <1>5, <2>1 DEF DeleteKey
  <2>3. old \in Pairs /\ db \in Databases
    BY <1>0, <2>1 DEF Pairs, Databases
  <2> QED BY <2>2, <2>3, NoPairType, WriteRanges
<1>6. ASSUME NEW t \in Txns, NEW k \in Keys, NEW v \in Vals, InsertKey(t, k, v)
      PROVE  Ranges' /\ phase = "run" /\ UNCHANGED manager
  <2>1. PICK new, db : new = <<k, v>> /\ db = [live EXCEPT ![k] = v]
    OBVIOUS
  <2>2. Write(t, {k}, "insert", NoPair, new, db)
    BY <1>6, <2>1 DEF InsertKey
  <2>3. new \in Pairs /\ db \in Databases
    BY <1>0, <2>1 DEF Pairs, Databases
  <2> QED BY <2>2, <2>3, NoPairType, WriteRanges
<1>7. ASSUME NEW t \in Txns, NEW k \in Keys, NEW v \in Vals, NEW n \in Keys, UpdateKey(t, k, n, v)
      PROVE  Ranges' /\ phase = "run" /\ UNCHANGED manager
  <2>1. PICK old, new, db : /\ old = <<k, live[k]>> /\ new = <<n, v>>
                            /\ db = [live EXCEPT ![k] = None, ![n] = v]
    OBVIOUS
  <2>2. Write(t, {k, n}, "update", old, new, db)
    BY <1>7, <2>1 DEF UpdateKey
  <2>3. old \in Pairs /\ new \in Pairs /\ db \in Databases
    BY <1>0, <2>1 DEF Pairs, Databases
  <2> QED BY <2>2, <2>3, WriteRanges
<1> QED
  BY <1>1, <1>2, <1>3, <1>4, <1>5, <1>6, <1>7 DEF ClientStep

(* The client keeps the invariant; recovery has not begun. *)
LEMMA ClientKeeps ==
  ASSUME RecoveryInv, ClientStep
  PROVE  RecoveryInv'
<1>0. TypeOK /\ ClientInv /\ Ranges
  BY DEF RecoveryInv
<1>1. Ranges' /\ phase = "run" /\ UNCHANGED manager
  BY <1>0, StepRanges
<1>2. TypeOK' /\ ClientInv'
  BY <1>0, CheckPointInv, BeginInv, CommitInv, AbortInv, DeleteInv, InsertInv, UpdateInv DEF ClientStep
<1>3. ManagerInv'
  <2>1. phase' = "run" /\ cursor' = 0
    BY <1>0, <1>1 DEF Ranges, manager
  <2> QED BY <2>1 DEF ManagerInv
<1> QED
  BY <1>1, <1>2, <1>3 DEF RecoveryInv

-----------------------------------------------------------------------------
(* The manager keeps the invariant                                         *)

LEMMA ClientSame ==
  ASSUME ClientInv, UNCHANGED client
  PROVE  ClientInv'
<1>1. UNCHANGED <<log, prev_lsn_map_, live, history, committed, status, locks, checkpoint>>
  BY DEF client
<1>2. LogOK(log', history') /\ live' = history'[Len(log') + 1] /\ \A t \in Txns : MapOK(t)'
  BY <1>1 DEF ClientInv, MapOK
<1>3. LocksOK' /\ CommittedOK' /\ CheckOK'
  BY <1>1 DEF ClientInv, LocksOK, CommittedOK, CheckOK, Active
<1> QED
  BY <1>2, <1>3 DEF ClientInv

(* Redo and undo of a record of the log give databases. *)
LEMMA DataTypes ==
  ASSUME NEW l, NEW h, Logs(l, h), NEW i \in 1 .. Len(l), Effect(l, h, i), NEW d \in Databases
  PROVE  RedoData(l[i], d) \in Databases /\ UndoData(l[i], d) \in Databases
<1>1. l[i].type_ \in Kinds
  BY LogTypes DEF LogRec
<1>2. ASSUME NEW k \in Keys, NEW e \in Databases PROVE Erase(e, k) \in Databases
  BY DEF Erase, Databases
<1>3. ASSUME NEW p, Pair(p), NEW e \in Databases PROVE Emplace(e, p) \in Databases
  BY <1>3 DEF Emplace, Databases, Pair
<1>4. CASE l[i].type_ = "insert"
  <2>1. Pair(l[i].new) /\ l[i].new[1] \in Keys
    BY <1>4 DEF Effect, Pair
  <2>2. RedoData(l[i], d) = Emplace(d, l[i].new) /\ UndoData(l[i], d) = Erase(d, l[i].new[1])
    BY <1>4 DEF RedoData, UndoData
  <2> QED BY <1>2, <1>3, <2>1, <2>2
<1>5. CASE l[i].type_ = "delete"
  <2>1. Pair(l[i].old) /\ l[i].old[1] \in Keys
    BY <1>5 DEF Effect, Pair
  <2>2. Pair(<<l[i].old[1], 0>>)
    BY <2>1, RecoveryAssumption DEF Pair
  <2>3. Touch(d, l[i].old[1]) \in Databases
    BY <1>3, <2>2 DEF Touch
  <2>4. /\ RedoData(l[i], d) \in {Touch(d, l[i].old[1]), Erase(Touch(d, l[i].old[1]), l[i].old[1])}
        /\ UndoData(l[i], d) = Emplace(d, l[i].old)
    BY <1>5 DEF RedoData, UndoData
  <2> QED BY <1>2, <1>3, <2>1, <2>3, <2>4
<1>6. CASE l[i].type_ = "update"
  <2>1. Pair(l[i].old) /\ l[i].old[1] \in Keys /\ Pair(l[i].new) /\ l[i].new[1] \in Keys
    BY <1>6 DEF Effect, Pair
  <2>2. /\ RedoData(l[i], d) = Emplace(Erase(d, l[i].old[1]), l[i].new)
        /\ UndoData(l[i], d) = Emplace(Erase(d, l[i].new[1]), l[i].old)
    BY <1>6 DEF RedoData, UndoData
  <2> QED BY <1>2, <1>3, <2>1, <2>2
<1>7. CASE l[i].type_ \in {"begin", "commit", "abort"}
  BY <1>7 DEF RedoData, UndoData
<1> QED
  BY <1>1, <1>4, <1>5, <1>6, <1>7 DEF Kinds

(* The keys a record writes are keys. *)
LEMMA TouchedKeys ==
  ASSUME NEW l, NEW h, NEW i, Effect(l, h, i)
  PROVE  Touched(l[i]) \subseteq Keys
  BY DEF Effect, Touched, Pair

(* A manager step that keeps the parts of the manager's state in range keeps
   the types. *)
LEMMA ManagerTypes ==
  ASSUME TypeOK, Ranges, UNCHANGED client, data_' \in Databases,
         phase' \in {"redo", "undo", "done", "exit"}, crashes' \in 0 .. MaxCrashes,
         now' \in 1 .. Len(log) + 1, cursor' \in 0 .. Len(log), unendedTxn' \in [Txns -> 0 .. Len(log)]
  PROVE  TypeOK' /\ Ranges'
<1>1. /\ UNCHANGED <<log, prev_lsn_map_, live, history, committed, status, locks, checkpoint>>
      /\ Len(log) \in Nat /\ Len(log) <= MaxLog
  BY ClientLogs DEF client, TypeOK
<1>2. now' \in 0 .. MaxLog + 1 /\ cursor' \in Lsns /\ unendedTxn' \in [Txns -> Lsns]
  BY <1>1, RecoveryAssumption DEF Lsns
<1>3. TypeOK'
  BY <1>1, <1>2 DEF TypeOK
<1>4. /\ \A t \in Txns : checkpoint'.active_txns_[t] <= Len(log')
      /\ phase' # "run" /\ 1 <= now' /\ now' <= Len(log') + 1 /\ cursor' <= Len(log')
      /\ \A t \in Txns : unendedTxn'[t] <= Len(log')
  BY <1>1 DEF Ranges
<1> QED
  BY <1>3, <1>4 DEF Ranges

(* What is known of the manager's state once recovery has begun. *)
LEMMA ManagerRanges ==
  ASSUME TypeOK, Ranges
  PROVE  /\ Len(log) \in Nat
         /\ checkpoint.active_txns_ \in [Txns -> 0 .. Len(log)]
         /\ phase = "run" => cursor = 0
         /\ phase # "run" => /\ now \in 1 .. Len(log) + 1 /\ cursor \in 0 .. Len(log)
                             /\ unendedTxn \in [Txns -> 0 .. Len(log)]
<1>1. Len(log) \in Nat /\ MaxLog \in Nat
  BY ClientLogs, RecoveryAssumption
<1>2. checkpoint.active_txns_ \in [Txns -> Lsns] /\ unendedTxn \in [Txns -> Lsns]
      /\ now \in 0 .. MaxLog + 1 /\ cursor \in Lsns
  BY DEF TypeOK, CheckPoints
<1>3. checkpoint.active_txns_ \in [Txns -> 0 .. Len(log)]
  <2>1. PICK a : a = checkpoint.active_txns_
    OBVIOUS
  <2>2. a \in [Txns -> Lsns] /\ \A t \in Txns : a[t] <= Len(log)
    BY <1>2, <2>1 DEF Ranges
  <2>3. a \in [Txns -> 0 .. Len(log)]
    BY <1>1, <2>2 DEF Lsns
  <2> QED BY <2>1, <2>3
<1>4. ASSUME phase # "run"
      PROVE  /\ now \in 1 .. Len(log) + 1 /\ cursor \in 0 .. Len(log)
             /\ unendedTxn \in [Txns -> 0 .. Len(log)]
  BY <1>1, <1>2, <1>4 DEF Ranges, Lsns
<1> QED
  BY <1>1, <1>3, <1>4 DEF Ranges

(* The types, for every step of recovery, with a checkpoint or not. *)
LEMMA RecoveryStepTypes ==
  ASSUME TypeOK, ClientInv, Ranges, Recover \/ ManagerStep
  PROVE  TypeOK' /\ Ranges' /\ UNCHANGED client
<1>0. /\ Len(log) \in Nat /\ data_ \in Databases /\ crashes \in 0 .. MaxCrashes
      /\ checkpoint.active_txns_ \in [Txns -> 0 .. Len(log)]
      /\ phase \in {"run", "redo", "undo", "done", "exit"} /\ Logs(log, history)
      /\ phase = "run" => cursor = 0
      /\ phase # "run" => /\ now \in 1 .. Len(log) + 1 /\ cursor \in 0 .. Len(log)
                          /\ unendedTxn \in [Txns -> 0 .. Len(log)]
  BY ManagerRanges, ClientLogs DEF TypeOK
<1>1. ASSUME NEW i \in 1 .. Len(log)
      PROVE  /\ log[i].txn_id \in Txns /\ Chain(log, i)
             /\ RedoData(log[i], data_) \in Databases /\ UndoData(log[i], data_) \in Databases
             /\ log[i].prev_lsn_ \in 0 .. Len(log)
  <2>1. log[i].txn_id \in Txns /\ Chain(log, i) /\ Effect(log, history, i)
    BY ClientLogs DEF ClientInv, LogOK
  <2>2. RedoData(log[i], data_) \in Databases /\ UndoData(log[i], data_) \in Databases
    BY <1>0, <2>1, DataTypes
  <2>3. log[i].prev_lsn_ \in 0 .. i - 1
    BY <2>1 DEF Chain, IsLast
  <2> QED BY <1>0, <2>1, <2>2, <2>3
<1>2. CASE Recover
  <2>1. /\ UNCHANGED client /\ phase' = "redo" /\ cursor' = 0 /\ now' \in FirstRedo
        /\ data_' = checkpoint.persist_data_ /\ unendedTxn' = checkpoint.active_txns_
        /\ crashes < MaxCrashes /\ crashes' = crashes + 1
    BY <1>2 DEF Recover
  <2>2. crashes' \in 0 .. MaxCrashes
    BY <1>0, <2>1, RecoveryAssumption
  <2>3. data_' \in Databases
    BY <2>1 DEF TypeOK, CheckPoints
  <2>4. now' \in 1 .. Len(log) + 1
    <3>1. PICK c : c = checkpoint.checkpoint_lsn_
      OBVIOUS
    <3>2. c \in Nat /\ c <= Len(log)
      BY <3>1, RecoveryAssumption DEF TypeOK, CheckPoints, Lsns, ClientInv, CheckOK
    <3> QED BY <1>0, <2>1, <3>1, <3>2 DEF FirstRedo
  <2> QED BY <1>0, <2>1, <2>2, <2>3, <2>4, ManagerTypes
<1>3. CASE RedoRecord
  <2>1. /\ phase = "redo" /\ now <= Len(log) /\ UNCHANGED client /\ crashes' = crashes /\ now' = now + 1
        /\ unendedTxn' = [unendedTxn EXCEPT ![log[now].txn_id] =
                            IF log[now].type_ \in {"commit", "abort"} THEN 0 ELSE now]
        /\ cursor' = (IF log[now].type_ = "abort" THEN log[now].prev_lsn_ ELSE 0)
        /\ phase' \in {"redo", "exit"} /\ data_' \in {data_, RedoData(log[now], data_)}
    BY <1>3 DEF RedoRecord
  <2>2. now \in 1 .. Len(log) /\ now' \in 1 .. Len(log) + 1
    BY <1>0, <2>1
  <2>3. data_' \in Databases /\ cursor' \in 0 .. Len(log)
    BY <1>0, <1>1, <2>1, <2>2
  <2>4. unendedTxn' \in [Txns -> 0 .. Len(log)]
    BY <1>0, <1>1, <2>1, <2>2
  <2> QED BY <1>0, <2>1, <2>2, <2>3, <2>4, ManagerTypes
<1>4. CASE RedoEnd
  <2>1. phase # "run" /\ phase' = "undo" /\ UNCHANGED <<client, data_, unendedTxn, now, cursor, crashes>>
    BY <1>4 DEF RedoEnd
  <2> QED BY <1>0, <2>1, ManagerTypes
<1>5. CASE UndoRecord
  <2>1. /\ cursor # 0 /\ UNCHANGED <<client, phase, unendedTxn, now, crashes>>
        /\ data_' = UndoData(log[cursor], data_) /\ cursor' \in {0, log[cursor].prev_lsn_}
    BY <1>5 DEF UndoRecord
  <2>2. phase # "run" /\ cursor \in 1 .. Len(log)
    BY <1>0, <2>1
  <2>3. data_' \in Databases /\ cursor' \in 0 .. Len(log)
    BY <1>0, <1>1, <2>1, <2>2
  <2> QED BY <1>0, <2>1, <2>2, <2>3, ManagerTypes
<1>6. CASE UndoEnd
  <2>1. phase # "run" /\ phase' = "done" /\ UNCHANGED <<client, data_, unendedTxn, now, cursor, crashes>>
    BY <1>6 DEF UndoEnd
  <2> QED BY <1>0, <2>1, ManagerTypes
<1>7. ASSUME NEW t \in Txns, UndoNext(t) PROVE TypeOK' /\ Ranges' /\ UNCHANGED client
  <2>1. /\ phase = "undo" /\ cursor' = unendedTxn[t] /\ unendedTxn' = [unendedTxn EXCEPT ![t] = 0]
        /\ UNCHANGED <<client, phase, data_, now, crashes>>
    BY <1>7 DEF UndoNext
  <2>2. cursor' \in 0 .. Len(log) /\ unendedTxn' \in [Txns -> 0 .. Len(log)]
    BY <1>0, <2>1
  <2> QED BY <1>0, <2>1, <2>2, ManagerTypes
<1> QED
  BY <1>2, <1>3, <1>4, <1>5, <1>6, <1>7 DEF ManagerStep

LEMMA OneLast ==
  ASSUME NEW l, NEW t, NEW n \in Nat, NEW i, NEW j, IsLast(l, t, i, n), IsLast(l, t, j, n)
  PROVE  i = j
  BY DEF IsLast

(* At the end of the log the unended transactions are the active ones. *)
LEMMA UnendedAtEnd ==
  ASSUME TypeOK, ClientInv, NEW u, Unended(log, u, Len(log)), NEW t \in Txns
  PROVE  u[t] = IF t \in Active THEN prev_lsn_map_[t] ELSE 0
<1>0. Len(log) \in Nat /\ MapOK(t)
  BY ClientLogs DEF ClientInv
<1>1. PICK m : m = prev_lsn_map_[t]
  OBVIOUS
<1>2. /\ IsLast(log, t, m, Len(log)) /\ (status[t] = "new" <=> m = 0)
      /\ m # 0 => (status[t] = "ended" <=> log[m].type_ \in Ends)
      /\ status[t] \in {"new", "active", "ended"}
  BY <1>0, <1>1 DEF MapOK, TypeOK
<1>3. CASE u[t] # 0
  <2>1. PICK i : i = u[t]
    OBVIOUS
  <2>2. IsLast(log, t, i, Len(log)) /\ log[i].type_ \notin Ends /\ i # 0
    BY <1>3, <2>1 DEF Unended
  <2>3. i = m
    BY <1>0, <1>2, <2>2, OneLast
  <2> QED BY <1>1, <1>2, <2>1, <2>2, <2>3 DEF Active
<1>4. CASE u[t] = 0
  <2>1. (\A i \in 1 .. Len(log) : log[i].txn_id # t) \/ ~Open(log, t, Len(log))
    BY <1>4 DEF Unended
  <2>2. ASSUME t \in Active PROVE FALSE
    <3>1. m # 0 /\ Open(log, t, Len(log))
      BY <1>1, <2>2, ActiveIsOpen
    <3>2. m \in 1 .. Len(log) /\ log[m].txn_id = t
      BY <1>0, <1>2, <3>1 DEF IsLast
    <3> QED BY <2>1, <3>1, <3>2
  <2> QED BY <1>4, <2>2
<1> QED
  BY <1>3, <1>4

LEMMA RecoverInv ==
  ASSUME TypeOK, ClientInv, NeedsCheckpoint, Recover
  PROVE  ManagerInv'
<1>1. /\ phase' = "redo" /\ cursor' = 0 /\ now' \in FirstRedo /\ checkpoint.checkpoint_lsn_ # 0
      /\ data_' = checkpoint.persist_data_ /\ unendedTxn' = checkpoint.active_txns_
      /\ UNCHANGED <<log, history>>
  BY DEF Recover, client
<1>2. PICK c : c = checkpoint.checkpoint_lsn_
  OBVIOUS
<1>3. /\ c \in Nat /\ c # 0 /\ c <= Len(log) /\ Len(log) \in Nat /\ now' = c + 1
      /\ data_' = history[c + 1] /\ Unended(log, unendedTxn', c)
  BY <1>1, <1>2, ClientLogs, RecoveryAssumption
     DEF TypeOK, CheckPoints, Lsns, ClientInv, CheckOK, FirstRedo
<1>4. now' \in 1 .. Len(log) + 1 /\ now' - 1 = c
  BY <1>3
<1>5. RedoOK'
  BY <1>1, <1>3, <1>4 DEF RedoOK
<1> QED
  BY <1>1, <1>5 DEF ManagerInv

(* Redo of a record keeps track of the unended transactions. *)
LEMMA UnendedStep ==
  ASSUME NEW l, NEW h, Logs(l, h), NEW n \in 1 .. Len(l), NEW u \in [Txns -> Nat], Unended(l, u, n - 1),
         l[n].txn_id \in Txns,
         NEW u2, u2 = [u EXCEPT ![l[n].txn_id] = IF l[n].type_ \in {"commit", "abort"} THEN 0 ELSE n]
  PROVE  Unended(l, u2, n)
<1> SUFFICES ASSUME NEW t \in Txns
             PROVE  /\ u2[t] # 0 => IsLast(l, t, u2[t], n) /\ l[u2[t]].type_ \notin Ends
                    /\ u2[t] = 0 => (\A i \in 1 .. n : l[i].txn_id # t) \/ ~Open(l, t, n)
  BY DEF Unended
<1>0. n \in Nat /\ n # 0
  BY LogTypes
<1>1. CASE t = l[n].txn_id /\ l[n].type_ \in Ends
  <2>1. u2[t] = 0
    BY <1>1 DEF Ends
  <2>2. ~Open(l, t, n)
    BY <1>0, <1>1 DEF Open
  <2> QED BY <2>1, <2>2
<1>2. CASE t = l[n].txn_id /\ l[n].type_ \notin Ends
  <2>1. u2[t] = n
    BY <1>2 DEF Ends
  <2>2. IsLast(l, t, n, n)
    BY <1>0, <1>2 DEF IsLast
  <2> QED BY <1>0, <1>2, <2>1, <2>2
<1>3. CASE t # l[n].txn_id
  <2>1. PICK m : m = u[t]
    OBVIOUS
  <2>2. u2[t] = m
    BY <1>3, <2>1
  <2>3. CASE m # 0
    <3>1. IsLast(l, t, m, n - 1) /\ l[m].type_ \notin Ends
      BY <2>1, <2>3 DEF Unended
    <3>2. IsLast(l, t, m, n)
      BY <1>0, <1>3, <3>1 DEF IsLast
    <3> QED BY <2>2, <2>3, <3>1, <3>2
  <2>4. CASE m = 0
    <3>1. (\A i \in 1 .. n - 1 : l[i].txn_id # t) \/ ~Open(l, t, n - 1)
      BY <2>1, <2>4 DEF Unended
    <3>2. CASE \A i \in 1 .. n - 1 : l[i].txn_id # t
      <4>1. \A i \in 1 .. n : l[i].txn_id # t
        BY <1>0, <1>3, <3>2
      <4> QED BY <2>2, <2>4, <4>1
    <3>3. CASE ~Open(l, t, n - 1)
      <4>1. ~Open(l, t, n)
        BY <1>0, <3>3 DEF Open
      <4> QED BY <2>2, <2>4, <4>1
    <3> QED BY <3>1, <3>2, <3>3
  <2> QED BY <2>3, <2>4
<1> QED
  BY <1>1, <1>2, <1>3

LEMMA RedoRecordInv ==
  ASSUME TypeOK, ClientInv, ManagerInv, RedoRecord
  PROVE  ManagerInv'
<1> DEFINE r == log[now]
<1>1. /\ phase = "redo" /\ cursor = 0 /\ now <= Len(log) /\ now' = now + 1
      /\ unendedTxn' = [unendedTxn EXCEPT ![r.txn_id] =
                          IF r.type_ \in {"commit", "abort"} THEN 0 ELSE now]
      /\ cursor' = (IF r.type_ = "abort" THEN r.prev_lsn_ ELSE 0)
      /\ UNCHANGED <<log, history>>
  BY DEF RedoRecord, client
<1>2. RedoOK
  BY <1>1 DEF ManagerInv
<1>3. /\ Len(log) \in Nat /\ Logs(log, history) /\ now \in 1 .. Len(log) /\ data_ = history[now]
      /\ Unended(log, unendedTxn, now - 1) /\ r.txn_id \in Txns /\ unendedTxn \in [Txns -> Nat]
      /\ data_ \in Databases
  BY <1>1, <1>2, ClientLogs, RecoveryAssumption DEF RedoOK, TypeOK, Lsns
<1>4. Chain(log, now) /\ Effect(log, history, now)
  BY <1>3 DEF ClientInv, LogOK
<1>5. /\ r.type_ = "insert" => data_[r.new[1]] = None
      /\ r.type_ # "abort" => RedoData(r, data_) = history[now + 1]
      /\ r.type_ = "abort" => RedoData(r, data_) = history[now]
  BY <1>3, <1>4, RedoOne
<1>6. phase' = "redo" /\ data_' = RedoData(r, data_)
  BY <1>1, <1>5 DEF RedoRecord
<1>7. now' \in 1 .. Len(log) + 1 /\ now' > 1 /\ now' - 1 = now /\ now' - 2 = now - 1
  BY <1>1, <1>3
<1>8. Unended(log, unendedTxn', now)
  <2>1. PICK u2 : u2 = unendedTxn'
    OBVIOUS
  <2>2. Unended(log, u2, now)
    BY <1>1, <1>3, <2>1, UnendedStep
  <2> QED BY <2>1, <2>2
<1>9. ASSUME cursor' # 0
      PROVE  /\ now' > 1 /\ log[now].type_ = "abort"
             /\ cursor' \in 1 .. now - 1 /\ log[cursor'].txn_id = r.txn_id
             /\ \A k \in Keys : Image(log, history, r.txn_id, cursor', now - 1, k, data_'[k])
  <2>1. r.type_ = "abort" /\ cursor' = r.prev_lsn_ /\ data_' = history[now]
    BY <1>1, <1>5, <1>6, <1>9
  <2>2. PICK c : c = r.prev_lsn_
    OBVIOUS
  <2>3. c \in 1 .. now - 1 /\ log[c].txn_id = r.txn_id /\ \A j \in c + 1 .. now - 1 : log[j].txn_id # r.txn_id
    BY <1>3, <1>4, <1>9, <2>1, <2>2 DEF Chain, IsLast
  <2>4. ASSUME NEW k \in Keys PROVE Image(log, history, r.txn_id, c, now - 1, k, data_'[k])
    <3>1. \A j \in c + 1 .. now - 1 : ~Writes(log, r.txn_id, j, k)
      BY <2>3 DEF Writes
    <3>2. data_'[k] = history[(now - 1) + 1][k]
      BY <1>3, <2>1
    <3> QED BY <3>1, <3>2 DEF Image
  <2> QED BY <1>3, <1>7, <2>1, <2>2, <2>3, <2>4
<1>10. ASSUME cursor' = 0 PROVE data_' = history[now']
  <2>1. r.type_ # "abort"
    <3>1. r.type_ = "abort" => r.prev_lsn_ # 0
      BY <1>4 DEF Chain
    <3> QED BY <1>1, <1>10, <3>1
  <2> QED BY <1>1, <1>5, <1>6, <2>1
<1>11. RedoOK'
  BY <1>1, <1>7, <1>8, <1>9, <1>10 DEF RedoOK
<1> QED
  BY <1>6, <1>11 DEF ManagerInv

LEMMA RedoEndInv ==
  ASSUME TypeOK, ClientInv, ManagerInv, RedoEnd
  PROVE  ManagerInv'
<1>1. /\ phase = "redo" /\ cursor = 0 /\ now > Len(log) /\ phase' = "undo"
      /\ UNCHANGED <<log, history, prev_lsn_map_, live, committed, status, locks, data_, unendedTxn, cursor>>
  BY DEF RedoEnd, client
<1>2. Len(log) \in Nat /\ now = Len(log) + 1 /\ now - 1 = Len(log)
  BY <1>1, ClientLogs DEF ManagerInv, RedoOK
<1>3. Unended(log, unendedTxn, Len(log)) /\ data_ = live
  BY <1>1, <1>2 DEF ManagerInv, RedoOK, ClientInv
<1>4. \A t \in Txns : unendedTxn[t] = IF t \in Active THEN prev_lsn_map_[t] ELSE 0
  BY <1>3, UnendedAtEnd
<1>5. \A t \in Active : t \in Txns /\ unendedTxn[t] # 0
  BY <1>4, ActiveIsOpen DEF Active
<1>6. Active' = Active
  BY <1>1 DEF Active
<1>7. UndoOK'
  BY <1>1, <1>3, <1>4, <1>5, <1>6 DEF UndoOK, InUndo
<1> QED
  BY <1>1, <1>7 DEF ManagerInv

LEMMA UndoNextInv ==
  ASSUME TypeOK, ClientInv, ManagerInv, NEW t \in Txns, UndoNext(t)
  PROVE  ManagerInv'
<1>1. /\ phase = "undo" /\ cursor = 0 /\ unendedTxn[t] # 0 /\ cursor' = unendedTxn[t] /\ phase' = "undo"
      /\ unendedTxn' = [unendedTxn EXCEPT ![t] = 0] /\ UNCHANGED data_
      /\ UNCHANGED <<log, history, prev_lsn_map_, live, committed, status, locks>>
  BY DEF UndoNext, client
<1>2. UndoOK
  BY <1>1 DEF ManagerInv
<1>3. t \in Active /\ cursor' = prev_lsn_map_[t] /\ cursor' # 0
  BY <1>1, <1>2 DEF UndoOK
<1>4. /\ Len(log) \in Nat /\ cursor' \in 1 .. Len(log) /\ log[cursor'].txn_id = t
      /\ \A j \in cursor' + 1 .. Len(log) : log[j].txn_id # t
  BY <1>3, ClientLogs DEF ClientInv, MapOK, IsLast
<1>5. Active' = Active /\ \A u \in Active : u \in Txns
  BY <1>1 DEF Active
<1>6. unendedTxn'[t] = 0 /\ \A u \in Txns : u # t => unendedTxn'[u] = unendedTxn[u]
  BY <1>1 DEF TypeOK
<1>7. ASSUME NEW k \in locks[t] PROVE Image(log, history, t, cursor', Len(log), k, data_[k])
  <2>1. data_[k] = history[Len(log) + 1][k]
    BY <1>1, <1>2, <1>3 DEF UndoOK, ClientInv
  <2>2. \A j \in cursor' + 1 .. Len(log) : ~Writes(log, t, j, k)
    BY <1>4 DEF Writes
  <2> QED BY <2>1, <2>2 DEF Image
<1>8. \A u \in Txns : InUndo(u)' <=> u = t
  BY <1>1, <1>3, <1>4 DEF InUndo
<1>9. \A u \in Txns : unendedTxn'[u] # 0 => u \in Active /\ unendedTxn'[u] = prev_lsn_map_[u]
  BY <1>2, <1>6 DEF UndoOK
<1>10. \A u \in Active : \A k \in locks[u] :
         /\ unendedTxn'[u] # 0 => data_[k] = live[k]
         /\ unendedTxn'[u] = 0 /\ u # t => data_[k] = committed[k]
         /\ u = t => Image(log, history, u, cursor', Len(log), k, data_[k])
  BY <1>1, <1>2, <1>5, <1>6, <1>7 DEF UndoOK, InUndo
<1>11. \A k \in Keys : (\A u \in Active : k \notin locks[u]) => data_[k] = live[k]
  BY <1>2 DEF UndoOK
<1>12. UndoOK'
  BY <1>1, <1>3, <1>4, <1>5, <1>6, <1>8, <1>9, <1>10, <1>11 DEF UndoOK
<1> QED
  BY <1>1, <1>12 DEF ManagerInv

LEMMA UndoEndInv ==
  ASSUME TypeOK, ClientInv, ManagerInv, UndoEnd
  PROVE  ManagerInv'
<1>1. /\ phase = "undo" /\ cursor = 0 /\ (\A t \in Txns : unendedTxn[t] = 0) /\ phase' = "done"
      /\ UNCHANGED <<data_, committed, cursor>>
  BY DEF UndoEnd, client
<1>2. UndoOK /\ data_ \in Databases /\ committed \in Databases
  BY <1>1 DEF ManagerInv, TypeOK
<1>3. ASSUME NEW k \in Keys PROVE data_[k] = committed[k]
  <2>1. CASE \A t \in Active : k \notin locks[t]
    BY <1>2, <2>1 DEF UndoOK, ClientInv, CommittedOK
  <2>2. CASE ~ \A t \in Active : k \notin locks[t]
    <3>1. PICK t \in Active : k \in locks[t]
      BY <2>2
    <3> QED BY <1>1, <1>2, <3>1 DEF UndoOK, InUndo, Active
  <2> QED BY <2>1, <2>2
<1>4. data_ = committed
  BY <1>2, <1>3 DEF Databases
<1> QED
  BY <1>1, <1>4 DEF ManagerInv

(* One round of UndoTxn for an aborted transaction, in RedoPhase: it ends
   where the abort of the client ended. *)
LEMMA UndoInRedoInv ==
  ASSUME TypeOK, ClientInv, ManagerInv, phase = "redo", UndoRecord
  PROVE  ManagerInv'
<1>1. /\ cursor # 0 /\ data_' = UndoData(log[cursor], data_)
      /\ cursor' = (IF log[cursor].type_ = "begin" THEN 0 ELSE log[cursor].prev_lsn_)
      /\ UNCHANGED <<log, history, phase, unendedTxn, now>>
  BY DEF UndoRecord, client
<1>2. PICK t, e, a : t = log[now - 1].txn_id /\ e = now - 2 /\ a = now - 1
  OBVIOUS
<1>3. /\ now \in 1 .. Len(log) + 1 /\ Unended(log, unendedTxn, now - 1)
      /\ now > 1 /\ log[a].type_ = "abort" /\ cursor \in 1 .. e /\ log[cursor].txn_id = t
      /\ \A k \in Keys : Image(log, history, t, cursor, e, k, data_[k])
  BY <1>1, <1>2 DEF ManagerInv, RedoOK
<1>4. /\ Len(log) \in Nat /\ Logs(log, history) /\ LogOK(log, history) /\ data_ \in Databases
      /\ e \in 1 .. Len(log) /\ a \in 1 .. Len(log) /\ e < a /\ e = a - 1 /\ a + 1 = now
  BY <1>2, <1>3, ClientLogs DEF ClientInv, TypeOK
<1>5. Open(log, t, e)
  BY <1>2, <1>4 DEF LogOK, EndFinal, Open
<1>6. Effect(log, history, cursor) /\ Touched(log[cursor]) \subseteq Keys
  BY <1>3, <1>4, TouchedKeys DEF LogOK
<1>7. PICK d, c, p, u : d = data_ /\ c = cursor /\ p = cursor' /\ u = data_'
  OBVIOUS
<1>8. /\ p \in 0 .. c - 1 /\ (p # 0 => log[p].txn_id = t) /\ u \in Databases
      /\ \A k \in Keys : Image(log, history, t, p, e, k, u[k])
  <2>1. CanUndo(log, history, t, c, e, Keys, d)
    BY <1>3, <1>4, <1>5, <1>6, <1>7 DEF CanUndo, Undone
  <2>2. p = UndoTo(log[c]) /\ u = UndoData(log[c], d)
    BY <1>1, <1>7 DEF UndoTo
  <2>3. UndidOne(log, history, t, c, e, Keys, d, p, u)
    BY <2>1, <2>2, UndoStep
  <2> QED BY <2>3 DEF UndidOne, Undone
<1>9. ASSUME p = 0 PROVE u = history[now]
  <2>1. history[now] \in Databases
    BY <1>3, <1>4, LogTypes
  <2>2. \A k \in Keys : Image(log, history, t, 0, e, k, history[now][k])
    <3>1. Effect(log, history, a) /\ log[a].txn_id = t
      BY <1>2, <1>4 DEF LogOK
    <3>2. \A k \in Keys : Image(log, history, log[a].txn_id, 0, a - 1, k, history[a + 1][k])
      BY <1>3, <3>1 DEF Effect
    <3> QED BY <1>4, <3>1, <3>2
  <2>3. ASSUME NEW k \in Keys PROVE u[k] = history[now][k]
    <3>1. PICK v, w : v = u[k] /\ w = history[now][k]
      OBVIOUS
    <3>2. Image(log, history, t, 0, e, k, v) /\ Image(log, history, t, 0, e, k, w)
      BY <1>8, <1>9, <2>2, <3>1
    <3>3. e \in Nat /\ 0 \in Nat
      BY <1>4
    <3> QED BY <3>1, <3>2, <3>3, OneImage
  <2> QED BY <1>8, <2>1, <2>3 DEF Databases
<1>10. ASSUME p # 0
       PROVE  /\ p \in 1 .. e /\ log[p].txn_id = t
              /\ \A k \in Keys : Image(log, history, t, p, e, k, u[k])
  BY <1>3, <1>4, <1>7, <1>8, <1>10
<1>11. RedoOK'
  BY <1>1, <1>2, <1>3, <1>7, <1>9, <1>10 DEF RedoOK
<1> QED
  BY <1>1, <1>11 DEF ManagerInv

(* One round of UndoTxn in UndoPhase. *)
LEMMA UndoInUndoInv ==
  ASSUME TypeOK, ClientInv, ManagerInv, phase = "undo", UndoRecord
  PROVE  ManagerInv'
<1>1. /\ cursor # 0 /\ data_' = UndoData(log[cursor], data_)
      /\ cursor' = (IF log[cursor].type_ = "begin" THEN 0 ELSE log[cursor].prev_lsn_)
      /\ UNCHANGED <<phase, unendedTxn>>
      /\ UNCHANGED <<log, history, prev_lsn_map_, live, committed, status, locks>>
  BY DEF UndoRecord, client
<1>2. UndoOK
  BY DEF ManagerInv
<1>3. PICK t, e : t = log[cursor].txn_id /\ e = Len(log)
  OBVIOUS
<1>4. /\ Logs(log, history) /\ LogOK(log, history) /\ data_ \in Databases /\ locks[t] \in SUBSET Keys
      /\ e \in Nat /\ cursor \in 1 .. e /\ e \in 1 .. e /\ t \in Active /\ t \in Txns /\ unendedTxn[t] = 0
  <2>1. cursor \in 1 .. e /\ t \in Active /\ unendedTxn[t] = 0
    BY <1>1, <1>2, <1>3 DEF UndoOK
  <2>2. Logs(log, history) /\ LogOK(log, history) /\ data_ \in Databases /\ e \in Nat
    BY <1>3, ClientLogs DEF ClientInv, TypeOK
  <2>3. t \in Txns /\ locks[t] \in SUBSET Keys
    BY <2>1 DEF TypeOK, Active
  <2> QED BY <2>1, <2>2, <2>3
<1>5. Open(log, t, e)
  BY <1>3, <1>4, ActiveIsOpen
<1>6. Touched(log[cursor]) \subseteq locks[t]
  <2>1. Touched(log[cursor]) \subseteq Keys
    BY <1>3, <1>4, TouchedKeys DEF LogOK
  <2>2. \A k \in Touched(log[cursor]) : Writes(log, t, cursor, k)
    BY <1>3 DEF Writes
  <2> QED BY <1>3, <1>4, <2>1, <2>2 DEF ClientInv, LocksOK
<1>7. PICK d, c, p, u : d = data_ /\ c = cursor /\ p = cursor' /\ u = data_'
  OBVIOUS
<1>8. /\ p \in 0 .. c - 1 /\ (p # 0 => log[p].txn_id = t) /\ u \in Databases
      /\ \A k \in locks[t] : Image(log, history, t, p, e, k, u[k])
      /\ \A k \in Keys : k \notin Touched(log[c]) => u[k] = d[k]
  <2>1. PICK K : K = locks[t]
    OBVIOUS
  <2>2. Undone(log, history, t, c, e, K, d)
    BY <1>1, <1>2, <1>3, <1>4, <1>7, <2>1 DEF UndoOK, InUndo, Undone
  <2>3. CanUndo(log, history, t, c, e, K, d)
    BY <1>3, <1>4, <1>5, <1>6, <1>7, <2>1, <2>2 DEF CanUndo
  <2>4. p = UndoTo(log[c]) /\ u = UndoData(log[c], d)
    BY <1>1, <1>7 DEF UndoTo
  <2>5. UndidOne(log, history, t, c, e, K, d, p, u)
    BY <2>3, <2>4, UndoStep
  <2> QED BY <2>1, <2>5 DEF UndidOne, Undone
<1>9. \A k \in Keys : k \notin locks[t] => u[k] = d[k]
  BY <1>6, <1>7, <1>8
<1>10. ASSUME NEW k \in locks[t], p = 0 PROVE u[k] = committed[k]
  <2>1. PICK v, w : v = u[k] /\ w = committed[k]
    OBVIOUS
  <2>2. Image(log, history, t, 0, e, k, v) /\ Image(log, history, t, 0, e, k, w)
    BY <1>3, <1>4, <1>8, <1>10, <2>1 DEF ClientInv, CommittedOK
  <2> QED BY <1>4, <2>1, <2>2, OneImage
<1>11. Active' = Active /\ \A s \in Active : s \in Txns /\ locks[s] \subseteq Keys
  BY <1>1 DEF Active, TypeOK
<1>12. \A s \in Active : s # t => \A k \in locks[s] : k \in Keys /\ k \notin locks[t]
  BY <1>4, <1>11 DEF ClientInv, LocksOK
<1>13. \A s \in Txns : /\ InUndo(s) <=> s = t
                       /\ InUndo(s)' <=> s = t /\ p # 0
  BY <1>1, <1>3, <1>7, <1>8 DEF InUndo
<1>14. \A s \in Active : s # t => \A k \in locks[s] :
         /\ unendedTxn[s] # 0 => u[k] = live[k]
         /\ unendedTxn[s] = 0 => u[k] = committed[k]
  BY <1>2, <1>7, <1>9, <1>11, <1>12, <1>13 DEF UndoOK
<1>15. \A k \in Keys : (\A s \in Active : k \notin locks[s]) => u[k] = live[k]
  BY <1>2, <1>4, <1>7, <1>9 DEF UndoOK
<1>16. p # 0 => p \in 1 .. Len(log) /\ log[p].txn_id = t
  BY <1>3, <1>4, <1>7, <1>8
<1>17. \A s \in Active : \A k \in locks[s] :
         /\ unendedTxn[s] # 0 => u[k] = live[k]
         /\ unendedTxn[s] = 0 /\ ~InUndo(s)' => u[k] = committed[k]
         /\ InUndo(s)' => Image(log, history, s, p, Len(log), k, u[k])
  <2> SUFFICES ASSUME NEW s \in Active, NEW k \in locks[s]
               PROVE  /\ unendedTxn[s] # 0 => u[k] = live[k]
                      /\ unendedTxn[s] = 0 /\ ~InUndo(s)' => u[k] = committed[k]
                      /\ InUndo(s)' => Image(log, history, s, p, Len(log), k, u[k])
    OBVIOUS
  <2>1. CASE s = t
    BY <1>3, <1>4, <1>8, <1>10, <1>13, <2>1
  <2>2. CASE s # t
    BY <1>11, <1>13, <1>14, <2>2
  <2> QED BY <2>1, <2>2
<1>18. \A s \in Txns : unendedTxn[s] # 0 => s \in Active /\ unendedTxn[s] = prev_lsn_map_[s]
  BY <1>2 DEF UndoOK
<1>19. UndoOK'
  BY <1>1, <1>4, <1>7, <1>11, <1>15, <1>16, <1>17, <1>18 DEF UndoOK
<1> QED
  BY <1>1, <1>19 DEF ManagerInv

LEMMA ManagerKeeps ==
  ASSUME RecoveryInv, Recover \/ ManagerStep
  PROVE  RecoveryInv'
<1>0. TypeOK /\ ClientInv /\ Ranges
  BY DEF RecoveryInv
<1>1. TypeOK' /\ Ranges' /\ UNCHANGED client
  BY <1>0, RecoveryStepTypes
<1>2. ClientInv'
  BY <1>0, <1>1, ClientSame
<1>3. ASSUME NeedsCheckpoint PROVE ManagerInv'
  <2>1. ManagerInv
    BY <1>3 DEF RecoveryInv
  <2>2. CASE Recover
    BY <1>0, <1>3, <2>2, RecoverInv
  <2>3. CASE UndoRecord
    <3>1. phase \in {"redo", "undo"}
      BY <1>0, <2>1, <2>3 DEF ManagerInv, UndoRecord, TypeOK
    <3> QED BY <1>0, <2>1, <2>3, <3>1, UndoInRedoInv, UndoInUndoInv
  <2>4. CASE RedoRecord
    BY <1>0, <2>1, <2>4, RedoRecordInv
  <2>5. CASE RedoEnd
    BY <1>0, <2>1, <2>5, RedoEndInv
  <2>6. CASE UndoEnd
    BY <1>0, <2>1, <2>6, UndoEndInv
  <2>7. ASSUME NEW t \in Txns, UndoNext(t) PROVE ManagerInv'
    BY <1>0, <2>1, <2>7, UndoNextInv
  <2> QED BY <2>2, <2>3, <2>4, <2>5, <2>6, <2>7 DEF ManagerStep
<1> QED
  BY <1>1, <1>2, <1>3 DEF RecoveryInv

LEMMA InitInv ==
  ASSUME Init
  PROVE  RecoveryInv
<1>1. /\ log = <<>> /\ history = <<live>> /\ live \in Databases /\ committed = live /\ data_ = live
      /\ prev_lsn_map_ = [t \in Txns |-> 0] /\ status = [t \in Txns |-> "new"]
      /\ locks = [t \in Txns |-> {}] /\ unendedTxn = [t \in Txns |-> 0]
      /\ phase = "run" /\ now = 0 /\ cursor = 0 /\ crashes = 0
  BY DEF Init
<1>2. /\ checkpoint \in CheckPoints /\ checkpoint.checkpoint_lsn_ = 0
      /\ \A t \in Txns : checkpoint.active_txns_[t] = 0
  BY <1>1, RecoveryAssumption DEF Init, CheckPoints, Lsns
<1>3. /\ log \in Seq(LogRec) /\ Len(log) = 0 /\ history \in Seq(Databases) /\ Len(history) = 1
      /\ history[1] = live
  BY <1>1
<1>4. TypeOK
  BY <1>1, <1>2, <1>3, RecoveryAssumption DEF TypeOK, Lsns
<1>5. LogOK(log, history) /\ live = history[Len(log) + 1]
  BY <1>3 DEF LogOK, EndFinal, Steady
<1>6. Active = {}
  BY <1>1 DEF Active
<1>7. \A t \in Txns : MapOK(t)
  BY <1>1, <1>3 DEF MapOK, IsLast
<1>8. LocksOK /\ CommittedOK /\ CheckOK
  BY <1>1, <1>2, <1>3, <1>6 DEF LocksOK, CommittedOK, CheckOK
<1>9. Ranges /\ ManagerInv
  BY <1>1, <1>2, <1>3 DEF Ranges, ManagerInv
<1> QED
  BY <1>4, <1>5, <1>7, <1>8, <1>9 DEF RecoveryInv, ClientInv

-----------------------------------------------------------------------------
(* The theorems                                                            *)

(* RecoveryInv holds in every reachable state. *)
THEOREM RecoveryInvariant == Spec => []RecoveryInv
<1>1. Init => RecoveryInv
  BY InitInv
<1>2. RecoveryInv /\ [Next]_vars => RecoveryInv'
  <2> SUFFICES ASSUME RecoveryInv, [Next]_vars PROVE RecoveryInv'
    OBVIOUS
  <2>1. CASE Next
    BY <2>1, ClientKeeps, ManagerKeeps DEF Next
  <2>2. CASE UNCHANGED vars
    <3>1. UNCHANGED client /\ UNCHANGED manager /\ TypeOK /\ ClientInv
      BY <2>2 DEF vars, RecoveryInv
    <3>2. /\ UNCHANGED <<log, prev_lsn_map_, live, history, committed, status, locks, checkpoint>>
          /\ UNCHANGED <<phase, data_, unendedTxn, now, cursor, crashes>>
      BY <3>1 DEF client, manager
    <3>3. TypeOK' /\ ClientInv'
      BY <3>1, <3>2, ClientSame DEF TypeOK
    <3>4. Ranges' /\ (NeedsCheckpoint => ManagerInv')
      BY <3>2 DEF RecoveryInv, Ranges, ManagerInv, RedoOK, UndoOK, InUndo, Active
    <3> QED BY <3>3, <3>4 DEF RecoveryInv
  <2> QED BY <2>1, <2>2
<1> QED
  BY <1>1, <1>2, PTL DEF Spec

(* The types hold, with a checkpoint or without: no step of redo or undo
   looks at a record that is not in the log. *)
THEOREM RecoveryTypes == Spec => []TypeOK
<1>1. RecoveryInv => TypeOK
  BY DEF RecoveryInv
<1> QED
  BY <1>1, RecoveryInvariant, PTL

(* From a checkpoint, RedoPhase repeats history, for any transactions and
   however often recovery is interrupted: data_ is what the database was
   before the record it looks at, no insert finds its key present, and at
   the end unendedTxn is what was active at the crash. *)
THEOREM RedoSafe ==
  ASSUME NeedsCheckpoint
  PROVE  Spec => []RedoRepeatsHistory
<1>1. RecoveryInv => RedoRepeatsHistory
  <2> SUFFICES ASSUME RecoveryInv PROVE RedoRepeatsHistory
    OBVIOUS
  <2>1. TypeOK /\ ClientInv /\ ManagerInv
    BY DEF RecoveryInv
  <2>2. phase # "exit" /\ (phase = "redo" /\ cursor = 0 => data_ = history[now])
    BY <2>1 DEF ManagerInv, RedoOK
  <2>3. ASSUME phase = "redo", cursor = 0, now > Len(log)
        PROVE  unendedTxn = [t \in Txns |-> IF t \in Active THEN prev_lsn_map_[t] ELSE 0]
    <3>1. Len(log) \in Nat /\ now - 1 = Len(log) /\ Unended(log, unendedTxn, now - 1)
      BY <2>1, <2>3, ClientLogs DEF ManagerInv, RedoOK
    <3>2. Unended(log, unendedTxn, Len(log))
      BY <3>1
    <3>3. \A t \in Txns : unendedTxn[t] = IF t \in Active THEN prev_lsn_map_[t] ELSE 0
      BY <2>1, <3>2, UnendedAtEnd
    <3>4. unendedTxn = [t \in Txns |-> unendedTxn[t]]
      BY <2>1 DEF TypeOK
    <3> QED BY <3>3, <3>4
  <2> QED BY <2>2, <2>3 DEF RedoRepeatsHistory
<1> QED
  BY <1>1, RecoveryInvariant, PTL

(* From a checkpoint, recovery ends with what was committed and nothing
   else, whatever the order of the undo and the crashes in between. *)
THEOREM RecoverySafe ==
  ASSUME NeedsCheckpoint
  PROVE  Spec => []RecoveredIsCommitted
<1>1. RecoveryInv => RecoveredIsCommitted
  BY DEF RecoveryInv, ManagerInv, RecoveredIsCommitted
<1> QED
  BY <1>1, RecoveryInvariant, PTL
=============================================================================
