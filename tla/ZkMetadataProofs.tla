-------------------------- MODULE ZkMetadataProofs --------------------------
(***************************************************************************)
(* Proofs about ZkMetadata, for any nodes, shards, replication factor and  *)
(* number of racing coordinator calls.                                     *)
(***************************************************************************)
EXTENDS ZkMetadata, FiniteSetTheorems, SequenceTheorems, WellFoundedInduction, TLAPS

-----------------------------------------------------------------------------
(* Numbers                                                                 *)

(* A set of numbers has a smallest one. *)
LEMMA Smallest ==
  ASSUME NEW S \in SUBSET Nat, S # {}
  PROVE  \E x \in S : \A y \in S : x <= y
<1>1. PICK x \in S : \A y \in S : ~ (<<y, x>> \in OpToRel(<, Nat))
  BY NatLessThanWellFounded, WFMin
<1>2. \A y \in S : x <= y
  <2> SUFFICES ASSUME NEW y \in S, ~(x <= y) PROVE FALSE
    OBVIOUS
  <2>1. y < x /\ y \in Nat /\ x \in Nat
    BY SMT
  <2>2. <<y, x>> \in OpToRel(<, Nat)
    BY <2>1 DEF OpToRel
  <2> QED BY <1>1, <2>2
<1> QED
  BY <1>2

(* Induction, for a set of numbers. *)
LEMMA SetInduction ==
  ASSUME NEW S \in SUBSET Nat, 0 \in S, \A n \in S : n + 1 \in S
  PROVE  \A n \in Nat : n \in S
<1> SUFFICES ASSUME Nat \ S # {} PROVE FALSE
  OBVIOUS
<1>1. PICK m \in Nat \ S : \A y \in Nat \ S : m <= y
  BY Smallest
<1>2. m - 1 \in Nat /\ m - 1 \in S
  BY <1>1
<1> QED
  BY <1>1, <1>2

(* Two numbers less than n apart have different remainders. *)
LEMMA RemaindersDiffer ==
  ASSUME NEW n \in Nat \ {0}, NEW a \in Nat, NEW b \in Nat,
         a < b, b - a < n
  PROVE  a % n # b % n
<1> DEFINE qa == a \div n
           qb == b \div n
<1>1. /\ qa \in Int /\ qb \in Int /\ a % n \in Int /\ b % n \in Int
      /\ a = n * qa + (a % n) /\ b = n * qb + (b % n)
  BY SMT
<1> SUFFICES ASSUME a % n = b % n PROVE FALSE
  OBVIOUS
<1>2. b - a = n * qb - n * qa
  BY <1>1
<1> HIDE DEF qa, qb
<1>3. n * qb - n * qa = n * (qb - qa) /\ qb - qa \in Int
  BY <1>1
<1>4. CASE qb - qa <= 0
  <2>1. n * (qb - qa) <= 0
    BY <1>4, <1>3
  <2> QED BY <2>1, <1>2, <1>3
<1>5. CASE qb - qa >= 1
  <2>1. n * (qb - qa) >= n
    BY <1>5, <1>3
  <2> QED BY <2>1, <1>2, <1>3
<1> QED
  BY <1>3, <1>4, <1>5

-----------------------------------------------------------------------------
(* Layouts                                                                 *)

(* Any finite set of numbers has a list in increasing order. *)
LEMMA SortedExists ==
  ASSUME NEW ids \in SUBSET Nat, IsFiniteSet(ids)
  PROVE  \E list \in [1 .. Cardinality(ids) -> ids] :
            \A i, j \in DOMAIN list : i < j => list[i] < list[j]
<1> DEFINE Increasing(list) == \A i, j \in DOMAIN list : i < j => list[i] < list[j]
           Sizes == {n \in Nat : \A S \in SUBSET Nat :
                        IsFiniteSet(S) /\ Cardinality(S) = n =>
                            \E list \in [1 .. n -> S] : Increasing(list)}
<1>1. 0 \in Sizes
  <2> SUFFICES ASSUME NEW S \in SUBSET Nat PROVE \E list \in [1 .. 0 -> S] : Increasing(list)
    OBVIOUS
  <2>1. [i \in 1 .. 0 |-> 0] \in [1 .. 0 -> S] /\ Increasing([i \in 1 .. 0 |-> 0])
    OBVIOUS
  <2> QED BY <2>1
<1>2. ASSUME NEW n \in Sizes PROVE n + 1 \in Sizes
  <2> SUFFICES ASSUME NEW S \in SUBSET Nat, IsFiniteSet(S), Cardinality(S) = n + 1
               PROVE  \E list \in [1 .. n + 1 -> S] : Increasing(list)
    OBVIOUS
  <2>1. n \in Nat /\ S # {}
    BY FS_EmptySet
  <2>2. PICK m \in S : \A y \in S : m <= y
    BY <2>1, Smallest
  <2>3. IsFiniteSet(S \ {m}) /\ Cardinality(S \ {m}) = n
    <3>1. Cardinality(S \ {m}) = Cardinality(S) - 1
      BY <2>2, FS_RemoveElement
    <3> QED BY <2>1, <3>1, FS_RemoveElement
  <2>4. PICK rest \in [1 .. n -> S \ {m}] : Increasing(rest)
    BY <2>3
  <2> DEFINE list == [i \in 1 .. n + 1 |-> IF i = 1 THEN m ELSE rest[i - 1]]
  <2>5. \A i \in 2 .. n + 1 : i - 1 \in 1 .. n /\ rest[i - 1] \in S /\ m < rest[i - 1]
    <3> SUFFICES ASSUME NEW i \in 2 .. n + 1
                 PROVE  i - 1 \in 1 .. n /\ rest[i - 1] \in S /\ m < rest[i - 1]
      OBVIOUS
    <3>1. i - 1 \in 1 .. n
      BY <2>1
    <3>2. rest[i - 1] \in S \ {m}
      BY <2>4, <3>1
    <3>3. m \in Nat /\ rest[i - 1] \in Nat /\ m <= rest[i - 1] /\ m # rest[i - 1]
      BY <2>2, <3>2
    <3> QED BY <3>1, <3>2, <3>3
  <2>6. list \in [1 .. n + 1 -> S]
    BY <2>1, <2>5
  <2>7. ASSUME NEW i \in 1 .. n + 1, NEW j \in 1 .. n + 1, i < j PROVE list[i] < list[j]
    <3>1. j \in 2 .. n + 1 /\ list[j] = rest[j - 1]
      BY <2>1, <2>7
    <3>2. CASE i = 1
      BY <2>5, <3>1, <3>2
    <3>3. CASE i # 1
      <4>1. i - 1 \in 1 .. n /\ j - 1 \in 1 .. n /\ i - 1 < j - 1 /\ list[i] = rest[i - 1]
        BY <2>1, <2>7, <3>1, <3>3
      <4> QED BY <2>4, <3>1, <4>1
    <3> QED BY <3>2, <3>3
  <2> QED BY <2>6, <2>7
<1> HIDE DEF Sizes
<1>3. \A n \in Nat : n \in Sizes
  <2>1. Sizes \in SUBSET Nat
    BY DEF Sizes
  <2> QED BY <1>1, <1>2, <2>1, SetInduction
<1>4. Cardinality(ids) \in Nat
  BY FS_CardinalityType
<1> QED
  BY <1>3, <1>4 DEF Sizes

(* Sorted lists different ids, as many as there are. *)
LEMMA SortedIds ==
  ASSUME NEW ids \in SUBSET Nat, IsFiniteSet(ids)
  PROVE  /\ Sorted(ids) \in [1 .. Cardinality(ids) -> ids]
         /\ Cardinality(ids) \in Nat
         /\ \A i, j \in 1 .. Cardinality(ids) : Sorted(ids)[i] = Sorted(ids)[j] => i = j
<1>1. /\ Sorted(ids) \in [1 .. Cardinality(ids) -> ids]
      /\ \A i, j \in DOMAIN Sorted(ids) : i < j => Sorted(ids)[i] < Sorted(ids)[j]
  BY SortedExists DEF Sorted
<1>2. Cardinality(ids) \in Nat
  BY FS_CardinalityType
<1>3. ASSUME NEW i \in 1 .. Cardinality(ids), NEW j \in 1 .. Cardinality(ids),
             Sorted(ids)[i] = Sorted(ids)[j]
      PROVE  i = j
  <2>1. Sorted(ids)[i] \in Nat /\ Sorted(ids)[j] \in Nat
    BY <1>1
  <2>2. i \in Nat /\ j \in Nat /\ DOMAIN Sorted(ids) = 1 .. Cardinality(ids)
    BY <1>1, <1>2
  <2>3. ~(i < j) /\ ~(j < i)
    BY <1>1, <1>3, <2>1, <2>2
  <2> QED BY <2>2, <2>3
<1> QED
  BY <1>1, <1>2, <1>3

(* A layout is a list of different nodes among the given ones. *)
LEMMA LayoutProper ==
  ASSUME NEW ids \in SUBSET Nodes, ids # {}, NEW shard \in Nat
  PROVE  /\ Layout(shard, ids) \in Seq(Nodes)
         /\ IsInjective(Layout(shard, ids))
         /\ Layout(shard, ids)[1] \in Members(Layout(shard, ids))
         /\ Members(Layout(shard, ids)) \in SUBSET ids
         /\ Members(Layout(shard, ids)) # {}
<1> DEFINE sorted == Sorted(ids)
           size == Cardinality(ids)
           len == Min2(ReplicationFactor, size)
           place(r) == ((shard + r - 1) % size) + 1
<1>1. ids \in SUBSET Nat /\ IsFiniteSet(ids)
  BY ZkAssumption, FS_Subset
<1>2. /\ sorted \in [1 .. size -> ids] /\ size \in Nat
      /\ \A i, j \in 1 .. size : sorted[i] = sorted[j] => i = j
  BY <1>1, SortedIds
<1>3. size # 0
  BY <1>1, FS_EmptySet
<1>4. Len(sorted) = size
  BY <1>2, SeqDef, LenProperties
<1> HIDE DEF sorted, size
<1>5. len \in 1 .. size
  BY <1>2, <1>3, ZkAssumption DEF Min2
<1> HIDE DEF len
<1>6. \A r \in 1 .. len : shard + r - 1 \in Nat /\ place(r) \in 1 .. size
  <2> SUFFICES ASSUME NEW r \in 1 .. len PROVE shard + r - 1 \in Nat /\ place(r) \in 1 .. size
    OBVIOUS
  <2>1. shard + r - 1 \in Nat
    BY <1>2, <1>5
  <2>2. (shard + r - 1) % size \in 0 .. size - 1
    BY <1>2, <1>3, <2>1
  <2> QED BY <1>2, <2>1, <2>2
<1>7. \A r, q \in 1 .. len : r < q => place(r) # place(q)
  <2> SUFFICES ASSUME NEW r \in 1 .. len, NEW q \in 1 .. len, r < q PROVE place(r) # place(q)
    OBVIOUS
  <2>1. /\ shard + r - 1 \in Nat /\ shard + q - 1 \in Nat
        /\ shard + r - 1 < shard + q - 1
        /\ (shard + q - 1) - (shard + r - 1) < size
    BY <1>2, <1>5, <1>6
  <2>2. (shard + r - 1) % size # (shard + q - 1) % size
    BY <1>2, <1>3, <2>1, RemaindersDiffer
  <2>3. (shard + r - 1) % size \in Int /\ (shard + q - 1) % size \in Int
    BY <1>2, <1>3, <2>1
  <2> QED BY <2>2, <2>3
<1>8. Layout(shard, ids) = [r \in 1 .. len |-> sorted[place(r)]]
  BY <1>4 DEF Layout, sorted, size, len
<1> HIDE DEF place
<1>9. Layout(shard, ids) \in [1 .. len -> ids]
  BY <1>2, <1>6, <1>8
<1>10. IsInjective(Layout(shard, ids))
  <2> SUFFICES ASSUME NEW r \in 1 .. len, NEW q \in 1 .. len,
                      Layout(shard, ids)[r] = Layout(shard, ids)[q]
               PROVE  r = q
    BY <1>9 DEF IsInjective
  <2>1. place(r) = place(q)
    BY <1>2, <1>6, <1>8
  <2> QED BY <1>5, <1>7, <2>1
<1>11. Layout(shard, ids) \in Seq(Nodes)
  <2>1. Layout(shard, ids) \in [1 .. len -> Nodes] /\ len \in Nat
    BY <1>2, <1>5, <1>9
  <2> QED BY <2>1, SeqDef
<1>12. /\ Layout(shard, ids)[1] \in Members(Layout(shard, ids))
       /\ Members(Layout(shard, ids)) \in SUBSET ids
  BY <1>2, <1>5, <1>9 DEF Members
<1> QED
  BY <1>10, <1>11, <1>12

(* Sorting it keeps it a list of different nodes. *)
LEMMA SortedProper ==
  ASSUME NEW S \in SUBSET Nodes, S # {}
  PROVE  /\ Sorted(S) \in Seq(Nodes)
         /\ IsInjective(Sorted(S))
         /\ Members(Sorted(S)) \in SUBSET Nodes
         /\ Members(Sorted(S)) # {}
<1>1. S \in SUBSET Nat /\ IsFiniteSet(S)
  BY ZkAssumption, FS_Subset
<1>2. /\ Sorted(S) \in [1 .. Cardinality(S) -> S] /\ Cardinality(S) \in Nat
      /\ \A i, j \in 1 .. Cardinality(S) : Sorted(S)[i] = Sorted(S)[j] => i = j
  BY <1>1, SortedIds
<1>3. Cardinality(S) # 0
  BY <1>1, FS_EmptySet
<1>4. Sorted(S) \in [1 .. Cardinality(S) -> Nodes]
  BY <1>2
<1>5. Sorted(S) \in Seq(Nodes)
  BY <1>2, <1>4, SeqDef
<1>6. IsInjective(Sorted(S))
  BY <1>2 DEF IsInjective
<1>7. 1 \in DOMAIN Sorted(S)
  BY <1>2, <1>3
<1> QED
  BY <1>4, <1>5, <1>6, <1>7 DEF Members

-----------------------------------------------------------------------------
(* Primaries                                                               *)

(* chooseBalancedPrimary finds a candidate with the fewest primaries. *)
LEMMA ChosenIsCandidate ==
  ASSUME NEW candidates \in SUBSET Nodes, candidates # {}, NEW counts \in [Nodes -> Nat]
  PROVE  chooseBalancedPrimary(candidates, counts) \in candidates
<1>1. PICK n0 \in candidates : TRUE
  OBVIOUS
<1> DEFINE loads == {counts[n] : n \in candidates}
<1>2. loads \in SUBSET Nat /\ loads # {}
  BY <1>1
<1>3. PICK load \in loads : \A l \in loads : load <= l
  BY <1>2, Smallest
<1> DEFINE least == {n \in candidates : counts[n] = load}
<1>4. least \in SUBSET Nat /\ least # {}
  BY <1>3, ZkAssumption
<1>5. PICK n \in least : \A m \in least : n <= m
  BY <1>4, Smallest
<1>6. \A m \in candidates : counts[n] < counts[m] \/ (counts[n] = counts[m] /\ n <= m)
  <2> SUFFICES ASSUME NEW m \in candidates
               PROVE  counts[n] < counts[m] \/ (counts[n] = counts[m] /\ n <= m)
    OBVIOUS
  <2>1. counts[n] = load /\ load \in Nat /\ counts[m] \in Nat /\ load <= counts[m]
    <3>1. counts[m] \in loads
      OBVIOUS
    <3> HIDE DEF loads
    <3> QED BY <1>2, <1>3, <1>5, <3>1
  <2>2. CASE counts[m] = load
    <3>1. m \in least
      BY <2>2
    <3> QED BY <1>5, <2>1, <2>2, <3>1
  <2>3. CASE counts[m] # load
    BY <2>1, <2>3
  <2> QED BY <2>2, <2>3
<1>7. n \in candidates
  BY <1>5
<1> QED
  BY <1>6, <1>7 DEF chooseBalancedPrimary

(* The primaries that a set of shards gives to each node. *)
LEMMA CountsType ==
  ASSUME NEW k \in Nat, NEW f
  PROVE  [n \in Nodes |-> Cardinality({t \in 0 .. k - 1 : f[t] = n})] \in [Nodes -> Nat]
<1> SUFFICES ASSUME NEW n \in Nodes PROVE Cardinality({t \in 0 .. k - 1 : f[t] = n}) \in Nat
  OBVIOUS
<1>1. IsFiniteSet(0 .. k - 1)
  BY FS_Interval
<1>2. {t \in 0 .. k - 1 : f[t] = n} \in SUBSET (0 .. k - 1)
  OBVIOUS
<1>3. IsFiniteSet({t \in 0 .. k - 1 : f[t] = n})
  BY <1>1, <1>2, FS_Subset
<1> QED
  BY <1>3, FS_CardinalityType

(* assignBalancedPrimaries gives every shard one of its replicas. *)
LEMMA BalancedIsReplica ==
  ASSUME NEW replicas, NEW shard \in Shards,
         \A s \in Shards : Members(replicas[s]) \in SUBSET Nodes /\ Members(replicas[s]) # {}
  PROVE  BalancedPrimaries(replicas)[shard] \in Members(replicas[shard])
<1> DEFINE Counts(f, s) == [n \in Nodes |-> Cardinality({t \in 0 .. s - 1 : f[t] = n})]
           Choice(f, s) == chooseBalancedPrimary(Members(replicas[s]), Counts(f, s))
           Sizes == {k \in Nat : k <= ShardCount => \E g : g = [s \in 0 .. k - 1 |-> Choice(g, s)]}
<1>1. ASSUME NEW f, NEW s \in Shards PROVE Choice(f, s) \in Members(replicas[s])
  <2>1. s \in Nat
    BY ZkAssumption DEF Shards
  <2>2. Counts(f, s) \in [Nodes -> Nat]
    BY <2>1, CountsType
  <2> HIDE DEF Counts
  <2> QED BY <2>2, ChosenIsCandidate
<1>2. 0 \in Sizes
  <2> SUFFICES \E g : g = [s \in 0 .. 0 - 1 |-> Choice(g, s)]
    OBVIOUS
  <2> DEFINE empty == [s \in 0 .. 0 - 1 |-> 0]
  <2> HIDE DEF Choice
  <2>1. empty = [s \in 0 .. 0 - 1 |-> Choice(empty, s)]
    OBVIOUS
  <2> QED BY <2>1
<1>3. ASSUME NEW k \in Sizes PROVE k + 1 \in Sizes
  <2> SUFFICES ASSUME k + 1 <= ShardCount
               PROVE  \E h : h = [s \in 0 .. k |-> Choice(h, s)]
    OBVIOUS
  <2>1. k \in Nat /\ k <= ShardCount
    BY ZkAssumption
  <2>2. PICK g : g = [s \in 0 .. k - 1 |-> Choice(g, s)]
    BY <2>1
  <2> DEFINE h == [s \in 0 .. k |-> IF s < k THEN g[s] ELSE Choice(g, k)]
  <2>3. ASSUME NEW s \in 0 .. k PROVE Choice(h, s) = Choice(g, s)
    <3>1. \A t \in 0 .. s - 1 : h[t] = g[t]
      <4> HIDE DEF Choice
      <4> QED BY <2>1
    <3>2. \A n \in Nodes : {t \in 0 .. s - 1 : h[t] = n} = {t \in 0 .. s - 1 : g[t] = n}
      BY <3>1
    <3>3. Counts(h, s) = Counts(g, s)
      <4> HIDE DEF h
      <4> QED BY <3>2
    <3> HIDE DEF Counts, h
    <3> QED BY <3>3
  <2>4. ASSUME NEW s \in 0 .. k PROVE h[s] = Choice(h, s)
    <3> HIDE DEF Choice
    <3>1. CASE s < k
      <4>1. s \in 0 .. k - 1 /\ h[s] = g[s]
        BY <2>1, <3>1
      <4> QED BY <2>2, <2>3, <4>1
    <3>2. CASE ~(s < k)
      <4>1. s = k /\ h[s] = Choice(g, k)
        BY <2>1, <3>2
      <4> QED BY <2>3, <4>1
    <3> QED BY <3>1, <3>2
  <2>5. h = [s \in 0 .. k |-> h[s]]
    <3> HIDE DEF Choice
    <3> QED OBVIOUS
  <2> HIDE DEF h, Choice
  <2>6. h = [s \in 0 .. k |-> Choice(h, s)]
    BY <2>4, <2>5
  <2> QED BY <2>6
<1> HIDE DEF Choice
<1>4. ShardCount \in Sizes
  <2>1. Sizes \in SUBSET Nat
    OBVIOUS
  <2> HIDE DEF Sizes
  <2>2. \A n \in Nat : n \in Sizes
    BY <1>2, <1>3, <2>1, SetInduction
  <2> QED BY <2>2, ZkAssumption
<1>5. \E g : g = [s \in Shards |-> Choice(g, s)]
  BY <1>4, ZkAssumption DEF Shards
<1>6. BalancedPrimaries(replicas) = CHOOSE g : g = [s \in Shards |-> Choice(g, s)]
  BY DEF BalancedPrimaries, Choice
<1>7. BalancedPrimaries(replicas) = [s \in Shards |-> Choice(BalancedPrimaries(replicas), s)]
  BY <1>5, <1>6
<1>8. BalancedPrimaries(replicas)[shard] = Choice(BalancedPrimaries(replicas), shard)
  BY <1>7
<1> QED
  BY <1>1, <1>8

-----------------------------------------------------------------------------
(* The inductive invariant                                                 *)

(* Metadata that may stand in the znode of a shard. *)
Proper(s, m) ==
  /\ m \in ShardMetadata
  /\ IsInjective(m.replicas) /\ m.primary \in Members(m.replicas)
  /\ m.commitIndex \in acked[s] \cup {0}

(* What a call has in its hands at a label: metadata it is about to write is
   proper, whatever happened to the znode since it was read; a log index it
   still has to claim is the next one unless the version moved on; an index
   it commits was confirmed. *)
CallOK(label, l) ==
  /\ label \in {"exists", "setData"} =>
       /\ l.op # "none" /\ Proper(l.shard, l.meta)
       /\ l.op = "rebalance" =>
            /\ l.todo \in [1 .. ShardCount - 1 -> ShardMetadata]
            /\ \A t \in 1 .. ShardCount - 1 : Proper(t, l.todo[t])
       /\ l.op = "commit" => l.index \in 1 .. MaxLogIndex /\ l.meta.commitIndex = l.index
  /\ label = "elect" => l.op = "write"
  /\ label = "shards" => l.op = "rebalance" /\ l.nodes # {}
  /\ label = "cas" =>
       /\ l.index > 0 /\ l.version <= logIndex[l.shard].version
       /\ l.version = logIndex[l.shard].version => l.index = logIndex[l.shard].value + 1
  /\ label \in {"send", "commit"} => l.index \in 1 .. MaxLogIndex
  /\ label = "commit" => l.index \in acked[l.shard]

(* One metadata may follow another: the commit index does not go back, and a
   new primary has a new term. *)
Follows(new, old) ==
  /\ new.commitIndex >= old.commitIndex
  /\ new.primary # old.primary => new.term > old.term

(* The same for a call that is alone: nothing moved since it read. *)
AloneOK(label, l) ==
  /\ label \in {"exists", "setData"} =>
       /\ Follows(l.meta, znode[l.shard].data)
       /\ l.op = "rebalance" =>
            \A t \in Shards : t > l.shard => Follows(l.todo[t], znode[t].data)
  /\ label = "setData" => l.version = znode[l.shard].version

(* The commit indexes cover what was reported. *)
Covers(r) == \A s \in Shards : r[s] <= znode[s].data.commitIndex

Settled == \A s \in Shards : reported[s] <= znode[s].data.commitIndex

ZkInv ==
  /\ TypeOK
  /\ \A s \in Shards : Proper(s, znode[s].data)
  /\ \A s \in Shards : issued[s] <= logIndex[s].value
  /\ \A w \in Workers : CallOK(pc[w], local[w])
  /\ \A w \in Workers : Workers = {w} => AloneOK(pc[w], local[w]) /\ Settled

-----------------------------------------------------------------------------
(* A step that moves one call along and leaves ZooKeeper alone. *)
LEMMA CallMovesReporting ==
  ASSUME ZkInv, NEW w \in Workers, NEW label \in Labels, NEW l \in Locals,
         pc' = [pc EXCEPT ![w] = label], local' = [local EXCEPT ![w] = l],
         UNCHANGED <<nodeState, znode, logIndex, issued, acked>>,
         reported' \in [Shards -> 0 .. MaxLogIndex],
         CallOK(label, l), Workers = {w} => AloneOK(label, l) /\ Covers(reported')
  PROVE  ZkInv'
<1>1. \A v \in Workers : /\ pc'[v] = IF v = w THEN label ELSE pc[v]
                         /\ local'[v] = IF v = w THEN l ELSE local[v]
  BY DEF ZkInv, TypeOK
<1>2. TypeOK'
  BY DEF ZkInv, TypeOK
<1>3. (\A s \in Shards : Proper(s, znode[s].data))'
  BY DEF ZkInv, Proper
<1>4. (\A s \in Shards : issued[s] <= logIndex[s].value)'
  BY DEF ZkInv
<1>5. ASSUME NEW v \in Workers PROVE CallOK(pc[v], local[v])'
  <2>1. CallOK(pc'[v], local'[v])
    BY <1>1 DEF ZkInv
  <2> QED BY <2>1 DEF CallOK, Proper
<1>6. ASSUME NEW v \in Workers, Workers = {v}
      PROVE  AloneOK(pc[v], local[v])' /\ Settled'
  <2>1. AloneOK(pc'[v], local'[v]) /\ Covers(reported')
    BY <1>1, <1>6 DEF ZkInv
  <2> QED BY <2>1 DEF AloneOK, Follows, Covers, Settled
<1> QED
  BY <1>2, <1>3, <1>4, <1>5, <1>6 DEF ZkInv

LEMMA CallMoves ==
  ASSUME ZkInv, NEW w \in Workers, NEW label \in Labels, NEW l \in Locals,
         pc' = [pc EXCEPT ![w] = label], local' = [local EXCEPT ![w] = l],
         UNCHANGED <<nodeState, znode, logIndex, issued, acked, reported>>,
         CallOK(label, l), Workers = {w} => AloneOK(label, l)
  PROVE  ZkInv'
<1>1. reported' \in [Shards -> 0 .. MaxLogIndex]
  BY DEF ZkInv, TypeOK
<1>2. Workers = {w} => AloneOK(label, l) /\ Covers(reported')
  BY DEF ZkInv, Covers, Settled
<1> QED
  BY <1>1, <1>2, CallMovesReporting

LEMMA NoLocalType == NoLocal \in Locals
<1>1. 0 \in Shards
  BY ZkAssumption DEF Shards
<1> QED
  BY <1>1 DEF NoLocal, Locals

LEMMA FinishKeeps ==
  ASSUME ZkInv, NEW w \in Workers, Finish(w),
         UNCHANGED <<nodeState, znode, logIndex, issued, acked, reported>>
  PROVE  ZkInv'
<1>1. NoLocal \in Locals /\ "idle" \in Labels
  BY NoLocalType DEF Labels
<1>2. CallOK("idle", NoLocal)
  BY DEF CallOK
<1>3. Workers = {w} => AloneOK("idle", NoLocal)
  BY DEF AloneOK
<1>4. pc' = [pc EXCEPT ![w] = "idle"] /\ local' = [local EXCEPT ![w] = NoLocal]
  BY DEF Finish, Goto
<1> HIDE DEF NoLocal
<1> QED
  BY <1>1, <1>2, <1>3, <1>4, CallMoves

LEMMA LocalFields ==
  ASSUME ZkInv, NEW w \in Workers
  PROVE  /\ local[w] \in Locals
         /\ local[w].op \in {"none", "write", "commit", "rebalance"}
         /\ local[w].shard \in Shards
         /\ local[w].nodes \in SUBSET Nodes
         /\ local[w].meta \in ShardMetadata \cup {NoMetadata}
         /\ local[w].version \in Nat /\ local[w].index \in Nat
         /\ local[w].todo \in [1 .. ShardCount - 1 -> ShardMetadata] \cup {<<>>}
         /\ znode[local[w].shard].data \in ShardMetadata
         /\ znode[local[w].shard].version \in Nat
         /\ logIndex[local[w].shard].value \in Nat /\ logIndex[local[w].shard].version \in Nat
<1>1. local[w] \in Locals /\ local[w].shard \in Shards
  BY DEF ZkInv, TypeOK, Locals
<1>2. /\ znode[local[w].shard] \in [data : ShardMetadata, version : Nat]
      /\ logIndex[local[w].shard] \in [value : 0 .. MaxLogIndex, version : Nat]
  BY <1>1 DEF ZkInv, TypeOK
<1>3. /\ znode[local[w].shard].data \in ShardMetadata
      /\ znode[local[w].shard].version \in Nat
      /\ logIndex[local[w].shard].value \in Nat /\ logIndex[local[w].shard].version \in Nat
  BY <1>2, ZkAssumption
<1> QED
  BY <1>1, <1>3 DEF Locals

-----------------------------------------------------------------------------
(* routedWrite                                                             *)

LEMMA BeginWriteInv ==
  ASSUME ZkInv, NEW w \in Workers, NEW s \in Shards, BeginWrite(w, s)
  PROVE  ZkInv'
<1> DEFINE l == [NoLocal EXCEPT !.op = "write", !.shard = s, !.nodes = ServingNodes]
<1>1. l \in Locals /\ "elect" \in Labels
  BY NoLocalType DEF Locals, Labels, ServingNodes
<1>2. pc' = [pc EXCEPT ![w] = "elect"] /\ local' = [local EXCEPT ![w] = l]
  BY DEF BeginWrite, Goto
<1>5. l.op = "write"
  BY DEF NoLocal
<1> HIDE DEF l
<1>3. CallOK("elect", l)
  BY <1>5 DEF CallOK
<1>4. Workers = {w} => AloneOK("elect", l)
  BY DEF AloneOK, BeginWrite, MayBegin
<1> QED
  BY <1>1, <1>2, <1>3, <1>4, CallMoves DEF BeginWrite

LEMMA KeepPrimaryInv ==
  ASSUME ZkInv, NEW w \in Workers, KeepPrimary(w)
  PROVE  ZkInv'
<1> DEFINE l == [local[w] EXCEPT !.meta = znode[local[w].shard].data]
<1>1. l \in Locals /\ "index" \in Labels
  BY LocalFields DEF Locals, Labels
<1>2. pc' = [pc EXCEPT ![w] = "index"] /\ local' = [local EXCEPT ![w] = l]
  BY DEF KeepPrimary, Goto, ZkInv, TypeOK
<1> HIDE DEF l
<1>3. CallOK("index", l)
  BY DEF CallOK
<1>4. Workers = {w} => AloneOK("index", l)
  BY DEF AloneOK, KeepPrimary
<1> QED
  BY <1>1, <1>2, <1>3, <1>4, CallMoves DEF KeepPrimary

LEMMA NoLiveReplicaInv ==
  ASSUME ZkInv, NEW w \in Workers, NoLiveReplica(w)
  PROVE  ZkInv'
BY FinishKeeps DEF NoLiveReplica

LEMMA ChangePrimaryInv ==
  ASSUME ZkInv, NEW w \in Workers, ChangePrimary(w)
  PROVE  ZkInv'
<1> DEFINE s == local[w].shard
           meta == znode[s].data
           alive == Members(meta.replicas) \cap local[w].nodes
           chosen == chooseBalancedPrimary(alive, primaryCountsExcludingShard(s))
           new == [meta EXCEPT !.primary = chosen, !.term = @ + 1]
           l == [local[w] EXCEPT !.meta = new]
<1>1. s \in Shards /\ meta \in ShardMetadata /\ Proper(s, meta) /\ local[w].nodes \in SUBSET Nodes
  BY LocalFields DEF ZkInv
<1>2. chosen \in alive
  <2>1. alive \in SUBSET Nodes /\ alive # {}
    BY <1>1 DEF ChangePrimary
  <2>2. primaryCountsExcludingShard(s) \in [Nodes -> Nat]
    <3> SUFFICES ASSUME NEW n \in Nodes
                 PROVE  Cardinality({t \in Shards \ {s} : znode[t].data.primary = n}) \in Nat
      BY DEF primaryCountsExcludingShard
    <3>1. IsFiniteSet(Shards)
      BY ZkAssumption, FS_Interval DEF Shards
    <3>2. {t \in Shards \ {s} : znode[t].data.primary = n} \in SUBSET Shards
      OBVIOUS
    <3>3. IsFiniteSet({t \in Shards \ {s} : znode[t].data.primary = n})
      BY <3>1, <3>2, FS_Subset
    <3> QED BY <3>3, FS_CardinalityType
  <2> HIDE DEF alive
  <2> QED BY <2>1, <2>2, ChosenIsCandidate
<1> HIDE DEF chosen
<1>3. new \in ShardMetadata /\ Proper(s, new)
  <2>1. chosen \in Nodes /\ chosen \in Members(meta.replicas) /\ meta.term \in Nat
    BY <1>1, <1>2 DEF ShardMetadata
  <2> HIDE DEF meta, s
  <2>2. new \in ShardMetadata
    <3>1. meta.term + 1 \in Nat
      BY <2>1
    <3> QED BY <1>1, <2>1, <3>1 DEF ShardMetadata
  <2>3. /\ new.primary = chosen /\ new.replicas = meta.replicas
        /\ new.commitIndex = meta.commitIndex
    BY <1>1 DEF ShardMetadata
  <2> QED BY <1>1, <2>1, <2>2, <2>3 DEF Proper
<1>4. Follows(new, meta)
  <2>1. meta.term \in Nat /\ meta.commitIndex \in Nat
    BY <1>1 DEF ShardMetadata
  <2>2. new.term = meta.term + 1 /\ new.commitIndex = meta.commitIndex
    BY <1>1 DEF ShardMetadata
  <2> QED BY <2>1, <2>2 DEF Follows
<1>5. l \in Locals /\ "exists" \in Labels
  BY <1>3, LocalFields DEF Locals, Labels
<1>6. pc' = [pc EXCEPT ![w] = "exists"] /\ local' = [local EXCEPT ![w] = l]
  BY DEF ChangePrimary, Goto, ZkInv, TypeOK, chosen
<1>7. l.meta = new /\ l.shard = s /\ l.op = local[w].op
  BY LocalFields DEF Locals
<1>8. local[w].op = "write"
  BY DEF ZkInv, CallOK, ChangePrimary
<1> HIDE DEF l, new, meta
<1>9. CallOK("exists", l)
  BY <1>3, <1>7, <1>8 DEF CallOK
<1>10. Workers = {w} => AloneOK("exists", l)
  BY <1>4, <1>7, <1>8 DEF AloneOK, ChangePrimary, meta
<1> QED
  BY <1>5, <1>6, <1>9, <1>10, CallMoves DEF ChangePrimary

LEMMA ReadIndexInv ==
  ASSUME ZkInv, NEW w \in Workers, ReadIndex(w)
  PROVE  ZkInv'
<1> DEFINE n == logIndex[local[w].shard]
           l == [local[w] EXCEPT !.index = n.value + 1, !.version = n.version]
<1>1. n.value \in Nat /\ n.version \in Nat
  BY LocalFields
<1>2. l \in Locals /\ "cas" \in Labels
  <2>1. n.value + 1 \in Nat
    BY <1>1
  <2> HIDE DEF n
  <2> QED BY <1>1, <2>1, LocalFields DEF Locals, Labels
<1>3. pc' = [pc EXCEPT ![w] = "cas"] /\ local' = [local EXCEPT ![w] = l]
  BY DEF ReadIndex, Goto, ZkInv, TypeOK
<1>4. l.shard = local[w].shard /\ l.index = n.value + 1 /\ l.version = n.version
  BY LocalFields DEF Locals
<1> HIDE DEF l
<1>5. CallOK("cas", l)
  BY <1>1, <1>4 DEF CallOK
<1>6. Workers = {w} => AloneOK("cas", l)
  BY DEF AloneOK, ReadIndex
<1> QED
  BY <1>2, <1>3, <1>5, <1>6, CallMoves DEF ReadIndex

LEMMA CasConflictInv ==
  ASSUME ZkInv, NEW w \in Workers, CasConflict(w)
  PROVE  ZkInv'
<1>1. local[w] \in Locals /\ "index" \in Labels
  BY LocalFields DEF Labels
<1>2. pc' = [pc EXCEPT ![w] = "index"] /\ local' = [local EXCEPT ![w] = local[w]]
  BY DEF CasConflict, Goto, ZkInv, TypeOK
<1>3. CallOK("index", local[w])
  BY DEF CallOK
<1>4. Workers = {w} => AloneOK("index", local[w])
  BY DEF AloneOK, CasConflict
<1> QED
  BY <1>1, <1>2, <1>3, <1>4, CallMoves DEF CasConflict

LEMMA IndexBoundInv ==
  ASSUME ZkInv, NEW w \in Workers, IndexBound(w)
  PROVE  ZkInv'
BY FinishKeeps DEF IndexBound

LEMMA QuorumFailedInv ==
  ASSUME ZkInv, NEW w \in Workers, QuorumFailed(w)
  PROVE  ZkInv'
BY FinishKeeps DEF QuorumFailed

(* A compare-and-set that ZooKeeper does, whether or not its answer comes:
   it succeeds for one of the calls that read a version. *)
LEMMA CasMoves ==
  ASSUME ZkInv, NEW w \in Workers, NEW label \in Labels, NEW l \in Locals,
         pc[w] = "cas", local[w].version = logIndex[local[w].shard].version,
         local[w].index <= MaxLogIndex,
         logIndex' = [logIndex EXCEPT ![local[w].shard] =
                        [value |-> local[w].index, version |-> @.version + 1]],
         pc' = [pc EXCEPT ![w] = label], local' = [local EXCEPT ![w] = l],
         label \in {"idle", "send"}, label = "send" => l.index = local[w].index,
         issued' \in {issued, [issued EXCEPT ![local[w].shard] = local[w].index]},
         UNCHANGED <<nodeState, znode, acked, reported>>
  PROVE  /\ ZkInv'
         /\ local[w].index > issued[local[w].shard]
<1> DEFINE s == local[w].shard
           x == local[w].index
<1>1. /\ s \in Shards /\ x \in Nat /\ x = logIndex[s].value + 1 /\ x <= MaxLogIndex
      /\ logIndex[s].value \in Nat /\ logIndex[s].version \in Nat
      /\ issued[s] <= logIndex[s].value /\ issued[s] \in Nat
  <2>1. s \in Shards /\ x \in Nat
    BY LocalFields
  <2>2. logIndex[s] \in [value : 0 .. MaxLogIndex, version : Nat] /\ issued[s] \in 0 .. MaxLogIndex
    BY <2>1 DEF ZkInv, TypeOK
  <2>3. x = logIndex[s].value + 1
    BY DEF ZkInv, CallOK
  <2>4. issued[s] <= logIndex[s].value
    BY <2>1 DEF ZkInv
  <2> QED BY <2>1, <2>2, <2>3, <2>4, ZkAssumption
<1>2. x > issued[s]
  BY <1>1
<1> HIDE DEF s, x
<1>3. /\ logIndex' = [logIndex EXCEPT ![s] = [value |-> x, version |-> logIndex[s].version + 1]]
      /\ issued' \in {issued, [issued EXCEPT ![s] = x]}
      /\ local[w].index = x
  BY DEF ZkInv, TypeOK, s, x
<1>4. /\ logIndex'[s].value = x /\ logIndex'[s].version = logIndex[s].version + 1
      /\ \A t \in Shards \ {s} : logIndex'[t] = logIndex[t] /\ issued'[t] = issued[t]
      /\ issued'[s] \in {issued[s], x}
  BY <1>1, <1>3 DEF ZkInv, TypeOK
<1>5. x \in 1 .. MaxLogIndex
  BY <1>1, ZkAssumption
<1>6. TypeOK'
  <2>1. x \in 0 .. MaxLogIndex /\ logIndex[s].version + 1 \in Nat
    BY <1>1, <1>5
  <2>2. issued' \in [Shards -> 0 .. MaxLogIndex]
    <3>1. issued \in [Shards -> 0 .. MaxLogIndex]
      BY DEF ZkInv, TypeOK
    <3> QED BY <1>3, <2>1, <3>1, Zenon
  <2>3. logIndex' \in [Shards -> [value : 0 .. MaxLogIndex, version : Nat]]
    BY <1>1, <1>3, <2>1 DEF ZkInv, TypeOK
  <2>4. pc' \in [Workers -> Labels] /\ local' \in [Workers -> Locals]
    BY DEF ZkInv, TypeOK
  <2> QED BY <2>2, <2>3, <2>4 DEF ZkInv, TypeOK
<1>7. (\A t \in Shards : Proper(t, znode[t].data))'
  BY DEF ZkInv, Proper
<1>8. (\A t \in Shards : issued[t] <= logIndex[t].value)'
  BY <1>1, <1>4 DEF ZkInv
<1>9. ASSUME NEW v \in Workers PROVE CallOK(pc[v], local[v])'
  <2>1. CASE v = w
    <3>1. pc'[v] = label /\ local'[v] = l
      BY <2>1 DEF ZkInv, TypeOK
    <3> QED BY <1>3, <1>5, <3>1 DEF CallOK
  <2>2. CASE v # w
    <3>1. pc'[v] = pc[v] /\ local'[v] = local[v] /\ CallOK(pc[v], local[v])
      BY <2>2 DEF ZkInv, TypeOK
    <3>2. local[v].shard \in Shards /\ local[v].version \in Nat /\ local[v].index \in Nat
      BY LocalFields
    <3>3. ASSUME pc[v] = "cas"
          PROVE  /\ local[v].version <= logIndex'[local[v].shard].version
                 /\ local[v].version = logIndex'[local[v].shard].version =>
                      local[v].index = logIndex'[local[v].shard].value + 1
      <4>1. /\ local[v].version <= logIndex[local[v].shard].version
            /\ local[v].version = logIndex[local[v].shard].version =>
                 local[v].index = logIndex[local[v].shard].value + 1
        BY <3>1, <3>3 DEF CallOK
      <4>2. CASE local[v].shard = s
        BY <1>1, <1>4, <3>2, <4>1, <4>2
      <4>3. CASE local[v].shard # s
        BY <1>4, <3>2, <4>1, <4>3
      <4> QED BY <4>2, <4>3
    <3> QED BY <3>1, <3>3 DEF CallOK, Proper
  <2> QED BY <2>1, <2>2
<1>10. ASSUME NEW v \in Workers, Workers = {v}
       PROVE  AloneOK(pc[v], local[v])' /\ Settled'
  <2>1. v = w /\ pc'[v] = label /\ Settled
    BY <1>10 DEF ZkInv, TypeOK
  <2> QED BY <2>1 DEF AloneOK, Settled
<1> QED
  BY <1>2, <1>6, <1>7, <1>8, <1>9, <1>10 DEF ZkInv, s, x

LEMMA CasIndexInv ==
  ASSUME ZkInv, NEW w \in Workers, CasIndex(w)
  PROVE  /\ ZkInv'
         /\ local[w].index > issued[local[w].shard]
<1>1. "send" \in Labels /\ local[w] \in Locals /\ local' = [local EXCEPT ![w] = local[w]]
  BY LocalFields DEF Labels, CasIndex, ZkInv, TypeOK
<1> QED
  BY <1>1, CasMoves DEF CasIndex, Goto

LEMMA CasUnansweredInv ==
  ASSUME ZkInv, NEW w \in Workers, CasUnanswered(w)
  PROVE  ZkInv'
<1>1. "idle" \in Labels /\ NoLocal \in Locals
  BY NoLocalType DEF Labels
<1> HIDE DEF NoLocal
<1> QED
  BY <1>1, CasMoves DEF CasUnanswered, Finish, Goto

LEMMA QuorumReachedInv ==
  ASSUME ZkInv, NEW w \in Workers, QuorumReached(w)
  PROVE  ZkInv'
<1> DEFINE s == local[w].shard
           x == local[w].index
<1>1. s \in Shards /\ x \in 1 .. MaxLogIndex
  BY LocalFields DEF ZkInv, CallOK, QuorumReached
<1>2. /\ acked' = [acked EXCEPT ![s] = acked[s] \cup {x}]
      /\ pc' = [pc EXCEPT ![w] = "commit"]
      /\ UNCHANGED <<nodeState, znode, logIndex, local, issued, reported>>
  BY DEF QuorumReached, Goto, ZkInv, TypeOK
<1>3. /\ \A t \in Shards : acked[t] \subseteq acked'[t]
      /\ \A t \in Shards : \A i \in acked'[t] : i \in acked[t] \/ (t = s /\ i = x)
      /\ x \in acked'[s]
  BY <1>1, <1>2 DEF ZkInv, TypeOK
<1>4. local[w].shard = s /\ local[w].index = x
  OBVIOUS
<1> HIDE DEF s, x
<1>6. TypeOK'
  BY <1>1, <1>2 DEF ZkInv, TypeOK, Labels
<1>7. (\A t \in Shards : Proper(t, znode[t].data))'
  BY <1>2, <1>3 DEF ZkInv, Proper
<1>8. (\A t \in Shards : issued[t] <= logIndex[t].value)'
  BY <1>2 DEF ZkInv
<1>9. ASSUME NEW v \in Workers PROVE CallOK(pc[v], local[v])'
  <2>1. CASE v = w
    <3>1. pc'[v] = "commit" /\ local'[v] = local[w]
      BY <1>2, <2>1 DEF ZkInv, TypeOK
    <3> QED BY <1>1, <1>3, <1>4, <3>1 DEF CallOK
  <2>2. CASE v # w
    <3>1. pc'[v] = pc[v] /\ local'[v] = local[v] /\ CallOK(pc[v], local[v])
      BY <1>2, <2>2 DEF ZkInv, TypeOK
    <3>2. local[v].shard \in Shards /\ \A t \in 1 .. ShardCount - 1 : t \in Shards
      BY LocalFields, ZkAssumption DEF Shards
    <3> QED BY <1>2, <1>3, <3>1, <3>2 DEF CallOK, Proper
  <2> QED BY <2>1, <2>2
<1>10. ASSUME NEW v \in Workers, Workers = {v}
       PROVE  AloneOK(pc[v], local[v])' /\ Settled'
  <2>1. v = w /\ pc'[v] = "commit" /\ Settled
    BY <1>2, <1>10 DEF ZkInv, TypeOK
  <2> QED BY <1>2, <2>1 DEF AloneOK, Settled
<1> QED
  BY <1>6, <1>7, <1>8, <1>9, <1>10 DEF ZkInv

LEMMA ReportSets ==
  ASSUME ZkInv, NEW w \in Workers, Report(w), local[w].index \in 1 .. MaxLogIndex
  PROVE  /\ reported' \in [Shards -> 0 .. MaxLogIndex]
         /\ \A t \in Shards : \/ reported'[t] = reported[t]
                              \/ t = local[w].shard /\ reported'[t] = local[w].index
<1>1. reported \in [Shards -> 0 .. MaxLogIndex] /\ local[w].shard \in Shards
  BY LocalFields DEF ZkInv, TypeOK
<1> QED
  BY <1>1 DEF Report

LEMMA UpdateCommitIndexInv ==
  ASSUME ZkInv, NEW w \in Workers, UpdateCommitIndex(w)
  PROVE  ZkInv'
<1> DEFINE s == local[w].shard
           meta == znode[s].data
           new == [meta EXCEPT !.commitIndex = local[w].index]
           l == [local[w] EXCEPT !.meta = new, !.op = "commit"]
<1>1. /\ s \in Shards /\ meta \in ShardMetadata /\ Proper(s, meta)
      /\ local[w].index \in 1 .. MaxLogIndex /\ local[w].index \in acked[s]
  BY LocalFields DEF ZkInv, CallOK, UpdateCommitIndex
<1>2. meta.commitIndex \in Nat
  BY <1>1 DEF ShardMetadata
<1>3. Workers = {w} => Settled
  BY DEF ZkInv
<1>4. CASE local[w].index > meta.commitIndex
  <2>1. pc' = [pc EXCEPT ![w] = "exists"] /\ local' = [local EXCEPT ![w] = l]
    <3>1. /\ pc' = [pc EXCEPT ![w] = "exists"]
          /\ local' = [local EXCEPT ![w].meta = new, ![w].op = "commit"]
      <4>1. ~(local[w].index <= meta.commitIndex)
        BY <1>1, <1>2, <1>4
      <4> QED BY <4>1 DEF UpdateCommitIndex, Goto
    <3>2. local \in [Workers -> Locals]
      BY DEF ZkInv, TypeOK
    <3> HIDE DEF new
    <3> QED BY <3>1, <3>2 DEF Locals
  <2> HIDE DEF meta, s
  <2>2. /\ new \in ShardMetadata /\ new.commitIndex = local[w].index
        /\ new.primary = meta.primary /\ new.replicas = meta.replicas
    BY <1>1 DEF ShardMetadata
  <2>3. Proper(s, new)
    BY <1>1, <2>2 DEF Proper
  <2>4. Follows(new, meta)
    BY <1>1, <1>2, <1>4, <2>2 DEF Follows
  <2>5. l \in Locals /\ "exists" \in Labels
    BY <2>2, LocalFields DEF Locals, Labels
  <2>6. l.meta = new /\ l.op = "commit" /\ l.shard = s /\ l.index = local[w].index
    BY LocalFields DEF Locals, s
  <2> HIDE DEF l, new
  <2>7. CallOK("exists", l)
    BY <1>1, <2>2, <2>3, <2>6 DEF CallOK
  <2>8. Workers = {w} => AloneOK("exists", l)
    BY <2>4, <2>6 DEF AloneOK, meta
  <2>9. UNCHANGED reported
    BY <1>1, <1>2, <1>4 DEF UpdateCommitIndex, meta, s
  <2> QED BY <2>1, <2>5, <2>7, <2>8, <2>9, CallMoves DEF UpdateCommitIndex
<1>5. CASE local[w].index <= meta.commitIndex
  <2>1. Finish(w) /\ Report(w)
    BY <1>1, <1>2, <1>5 DEF UpdateCommitIndex
  <2>2. Workers = {w} => Covers(reported')
    BY <1>1, <1>3, <1>5, <2>1, ReportSets DEF Covers, Settled
  <2>3. pc' = [pc EXCEPT ![w] = "idle"] /\ local' = [local EXCEPT ![w] = NoLocal]
    BY <2>1 DEF Finish, Goto
  <2>4. "idle" \in Labels /\ NoLocal \in Locals
    BY NoLocalType DEF Labels
  <2>5. CallOK("idle", NoLocal) /\ AloneOK("idle", NoLocal)
    BY DEF CallOK, AloneOK
  <2>6. reported' \in [Shards -> 0 .. MaxLogIndex]
    BY <1>1, <2>1, ReportSets
  <2>7. UNCHANGED <<nodeState, znode, logIndex, issued, acked>>
    BY DEF UpdateCommitIndex
  <2> HIDE DEF NoLocal, meta, s
  <2> QED BY <2>2, <2>3, <2>4, <2>5, <2>6, <2>7, CallMovesReporting
<1> QED
  BY <1>1, <1>2, <1>4, <1>5

-----------------------------------------------------------------------------
(* rebalance                                                               *)

LEMMA BeginRebalanceInv ==
  ASSUME ZkInv, NEW w \in Workers, BeginRebalance(w)
  PROVE  ZkInv'
<1> DEFINE live == {n \in Nodes : nodeState[n] # "GONE"}
           l == [NoLocal EXCEPT !.op = "rebalance", !.nodes = live]
<1>1. l \in Locals /\ "shards" \in Labels
  BY NoLocalType DEF Locals, Labels
<1>2. pc' = [pc EXCEPT ![w] = "shards"] /\ local' = [local EXCEPT ![w] = l]
  BY DEF BeginRebalance, Goto
<1>3. l.op = "rebalance" /\ l.nodes # {}
  BY DEF NoLocal, BeginRebalance
<1> HIDE DEF l
<1>4. CallOK("shards", l)
  BY <1>3 DEF CallOK
<1>5. Workers = {w} => AloneOK("shards", l)
  BY DEF AloneOK, BeginRebalance, MayBegin
<1> QED
  BY <1>1, <1>2, <1>4, <1>5, CallMoves DEF BeginRebalance

(* The new layout of every shard is proper and may follow the old one. *)
LEMMA RebalancedProper ==
  ASSUME ZkInv, NEW ids \in SUBSET Nodes, ids # {}, NEW s \in Shards
  PROVE  /\ Proper(s, Rebalanced(ids)[s])
         /\ Follows(Rebalanced(ids)[s], znode[s].data)
<1> DEFINE list == [t \in Shards |-> Sorted(Members(Layout(t, ids)))]
           old == znode[s].data
           primary == BalancedPrimaries(list)[s]
           new == Rebalanced(ids)[s]
<1>1. \A t \in Shards : /\ list[t] \in Seq(Nodes) /\ IsInjective(list[t])
                        /\ Members(list[t]) \in SUBSET Nodes /\ Members(list[t]) # {}
  <2> SUFFICES ASSUME NEW t \in Shards
               PROVE  /\ list[t] \in Seq(Nodes) /\ IsInjective(list[t])
                      /\ Members(list[t]) \in SUBSET Nodes /\ Members(list[t]) # {}
    OBVIOUS
  <2>1. t \in Nat
    BY ZkAssumption DEF Shards
  <2>2. Members(Layout(t, ids)) \in SUBSET Nodes /\ Members(Layout(t, ids)) # {}
    BY <2>1, LayoutProper
  <2> QED BY <2>2, SortedProper
<1>2. Rebalanced(ids)[s] = [old EXCEPT !.replicas = list[s], !.primary = primary,
                              !.term = IF list[s] = old.replicas /\ primary = old.primary
                                       THEN old.term ELSE old.term + 1]
  BY DEF Rebalanced
<1> HIDE DEF list
<1>3. primary \in Members(list[s]) /\ primary \in Nodes
  BY <1>1, BalancedIsReplica
<1>4. old \in ShardMetadata /\ Proper(s, old) /\ old.term \in Nat /\ old.commitIndex \in Nat
  BY DEF ZkInv, Proper, ShardMetadata
<1> HIDE DEF primary, old
<1>5. old.term + 1 \in Nat
  BY <1>4
<1>6. /\ new \in ShardMetadata
      /\ new.replicas = list[s] /\ new.primary = primary /\ new.commitIndex = old.commitIndex
      /\ new.term = IF list[s] = old.replicas /\ primary = old.primary
                    THEN old.term ELSE old.term + 1
  BY <1>1, <1>2, <1>3, <1>4, <1>5 DEF ShardMetadata
<1> HIDE DEF new
<1>7. Proper(s, new)
  BY <1>1, <1>3, <1>4, <1>6 DEF Proper
<1>8. Follows(new, old)
  BY <1>4, <1>6 DEF Follows
<1> QED
  BY <1>7, <1>8 DEF new, old

LEMMA ReadShardsInv ==
  ASSUME ZkInv, NEW w \in Workers, ReadShards(w)
  PROVE  ZkInv'
<1> DEFINE new == Rebalanced(local[w].nodes)
           l == [local[w] EXCEPT !.shard = 0, !.meta = new[0],
                                 !.todo = [s \in 1 .. ShardCount - 1 |-> new[s]]]
<1>1. local[w].nodes \in SUBSET Nodes /\ local[w].nodes # {} /\ local[w].op = "rebalance"
  BY LocalFields DEF ZkInv, CallOK, ReadShards
<1>2. \A s \in Shards : Proper(s, new[s]) /\ Follows(new[s], znode[s].data)
  BY <1>1, RebalancedProper
<1>3. pc' = [pc EXCEPT ![w] = "exists"] /\ local' = [local EXCEPT ![w] = l]
  <2>1. /\ pc' = [pc EXCEPT ![w] = "exists"]
        /\ local' = [local EXCEPT ![w].shard = 0, ![w].meta = new[0],
                                  ![w].todo = [s \in 1 .. ShardCount - 1 |-> new[s]]]
    BY DEF ReadShards, Goto
  <2>2. local \in [Workers -> Locals]
    BY DEF ZkInv, TypeOK
  <2> HIDE DEF new
  <2> QED BY <2>1, <2>2 DEF Locals
<1> HIDE DEF new
<1>4. 0 \in Shards /\ \A s \in 1 .. ShardCount - 1 : s \in Shards
  BY ZkAssumption DEF Shards
<1>5. /\ new[0] \in ShardMetadata
      /\ [s \in 1 .. ShardCount - 1 |-> new[s]] \in [1 .. ShardCount - 1 -> ShardMetadata]
  BY <1>2, <1>4 DEF Proper
<1>6. l \in Locals /\ "exists" \in Labels
  BY <1>4, <1>5, LocalFields DEF Locals, Labels
<1>7. /\ l.shard = 0 /\ l.meta = new[0] /\ l.op = "rebalance"
      /\ l.todo = [s \in 1 .. ShardCount - 1 |-> new[s]]
  BY <1>1, LocalFields DEF Locals
<1> HIDE DEF l
<1>8. CallOK("exists", l)
  BY <1>2, <1>4, <1>5, <1>7 DEF CallOK
<1>9. ASSUME Workers = {w} PROVE AloneOK("exists", l)
  <2>1. \A t \in Shards : t > l.shard => Follows(l.todo[t], znode[t].data)
    <3> SUFFICES ASSUME NEW t \in Shards, t > 0 PROVE Follows(l.todo[t], znode[t].data)
      BY <1>7
    <3>1. t \in 1 .. ShardCount - 1
      BY ZkAssumption DEF Shards
    <3> QED BY <1>2, <1>7, <3>1
  <2> QED BY <1>2, <1>4, <1>7, <1>9, <2>1 DEF AloneOK, ReadShards
<1> QED
  BY <1>3, <1>6, <1>8, <1>9, CallMoves DEF ReadShards

-----------------------------------------------------------------------------
(* upsertPersistent                                                        *)

LEMMA ExistsInv ==
  ASSUME ZkInv, NEW w \in Workers, Exists(w)
  PROVE  ZkInv'
<1> DEFINE s == local[w].shard
           l == [local[w] EXCEPT !.version = znode[s].version]
<1>1. l \in Locals /\ "setData" \in Labels
  BY LocalFields DEF Locals, Labels
<1>2. pc' = [pc EXCEPT ![w] = "setData"] /\ local' = [local EXCEPT ![w] = l]
  BY DEF Exists, Goto, ZkInv, TypeOK
<1>3. /\ l.version = znode[s].version /\ l.shard = s /\ l.meta = local[w].meta
      /\ l.op = local[w].op /\ l.todo = local[w].todo /\ l.index = local[w].index
  BY LocalFields DEF Locals
<1>4. pc[w] = "exists" /\ CallOK("exists", local[w]) /\ (Workers = {w} => AloneOK("exists", local[w]))
  BY DEF ZkInv, Exists
<1> HIDE DEF l, s
<1>5. CallOK("setData", l)
  BY <1>3, <1>4 DEF CallOK, s
<1>6. Workers = {w} => AloneOK("setData", l)
  BY <1>3, <1>4 DEF AloneOK, s
<1> QED
  BY <1>1, <1>2, <1>5, <1>6, CallMoves DEF Exists

LEMMA BadVersionInv ==
  ASSUME ZkInv, NEW w \in Workers, BadVersion(w)
  PROVE  ZkInv'
BY FinishKeeps DEF BadVersion

LEMMA CallFailsInv ==
  ASSUME ZkInv, NEW w \in Workers, CallFails(w)
  PROVE  ZkInv'
BY FinishKeeps DEF CallFails

(* What is reported with a write of the metadata is what it stores. *)
ReportsStored(w) ==
  /\ reported' \in [Shards -> 0 .. MaxLogIndex]
  /\ \A t \in Shards : \/ reported'[t] = reported[t]
                       \/ t = local[w].shard /\ reported'[t] = local[w].meta.commitIndex

(* Where a call goes on after its write, in the state before it. *)
LEMMA AfterSetDataMoves ==
  ASSUME ZkInv, NEW w \in Workers, pc[w] = "setData", AfterSetData(w)
  PROVE  \E label \in Labels, l \in Locals :
           /\ pc' = [pc EXCEPT ![w] = label] /\ local' = [local EXCEPT ![w] = l]
           /\ CallOK(label, l)
           /\ label \in {"index", "idle", "exists"}
           /\ label = "exists" =>
                /\ local[w].op = "rebalance" /\ l.op = "rebalance"
                /\ l.shard = local[w].shard + 1
                /\ l.meta = local[w].todo[l.shard] /\ l.todo = local[w].todo
           /\ ReportsStored(w)
<1> DEFINE next == local[w].shard + 1
<1>1. /\ local[w].op \in {"write", "commit", "rebalance"}
      /\ local[w].op = "rebalance" =>
           /\ local[w].todo \in [1 .. ShardCount - 1 -> ShardMetadata]
           /\ \A t \in 1 .. ShardCount - 1 : Proper(t, local[w].todo[t])
  BY LocalFields DEF ZkInv, CallOK
<1>2. local[w] \in Locals /\ local[w].shard \in Nat
  BY LocalFields, ZkAssumption DEF Shards
<1>r. ReportsStored(w)
  <2>1. CASE local[w].op = "commit"
    <3>1. Report(w) /\ local[w].index \in 1 .. MaxLogIndex /\ local[w].meta.commitIndex = local[w].index
      BY <2>1 DEF AfterSetData, ZkInv, CallOK
    <3> QED BY <3>1, ReportSets DEF ReportsStored
  <2>2. CASE local[w].op # "commit"
    <3>1. UNCHANGED reported
      BY <1>1, <2>2 DEF AfterSetData
    <3> QED BY <3>1 DEF ReportsStored, ZkInv, TypeOK
  <2> QED BY <2>1, <2>2
<1>3. CASE local[w].op = "write"
  <2>1. pc' = [pc EXCEPT ![w] = "index"] /\ local' = [local EXCEPT ![w] = local[w]]
    BY <1>3 DEF AfterSetData, Goto, ZkInv, TypeOK
  <2>2. CallOK("index", local[w])
    BY DEF CallOK
  <2> QED BY <1>2, <1>r, <2>1, <2>2 DEF Labels
<1>4. CASE Finish(w)
  <2>1. pc' = [pc EXCEPT ![w] = "idle"] /\ local' = [local EXCEPT ![w] = NoLocal]
    BY <1>4 DEF Finish, Goto
  <2>2. CallOK("idle", NoLocal)
    BY DEF CallOK
  <2>3. "idle" \in Labels /\ NoLocal \in Locals
    BY NoLocalType DEF Labels
  <2> HIDE DEF NoLocal
  <2> QED BY <1>r, <2>1, <2>2, <2>3
<1>5. CASE local[w].op = "rebalance" /\ next \in Shards
  <2> DEFINE l == [local[w] EXCEPT !.shard = next, !.meta = local[w].todo[next]]
  <2>1. next \in 1 .. ShardCount - 1
    BY <1>2, <1>5, ZkAssumption DEF Shards
  <2>2. local[w].todo[next] \in ShardMetadata
    BY <1>1, <1>5, <2>1
  <2>3. l \in Locals /\ "exists" \in Labels
    BY <1>2, <1>5, <2>2 DEF Locals, Labels
  <2>4. pc' = [pc EXCEPT ![w] = "exists"] /\ local' = [local EXCEPT ![w] = l]
    <3>1. /\ pc' = [pc EXCEPT ![w] = "exists"]
          /\ local' = [local EXCEPT ![w].shard = next, ![w].meta = local[w].todo[next]]
      BY <1>5 DEF AfterSetData, Goto
    <3>2. local \in [Workers -> Locals]
      BY DEF ZkInv, TypeOK
    <3> HIDE DEF next
    <3> QED BY <3>1, <3>2 DEF Locals
  <2>5. l.op = "rebalance" /\ l.shard = next /\ l.meta = local[w].todo[next] /\ l.todo = local[w].todo
    BY <1>2, <1>5 DEF Locals
  <2> HIDE DEF l
  <2>6. CallOK("exists", l)
    BY <1>1, <1>5, <2>1, <2>5 DEF CallOK
  <2> QED BY <1>5, <1>r, <2>3, <2>4, <2>5, <2>6
<1> QED
  BY <1>1, <1>3, <1>4, <1>5 DEF AfterSetData

(* A write of the metadata that ZooKeeper does, whether or not its answer
   comes. *)
LEMMA WriteMoves ==
  ASSUME ZkInv, NEW w \in Workers, NEW label \in Labels, NEW l \in Locals,
         pc[w] = "setData",
         znode' = [znode EXCEPT ![local[w].shard] =
                     [data |-> local[w].meta, version |-> @.version + 1]],
         pc' = [pc EXCEPT ![w] = label], local' = [local EXCEPT ![w] = l],
         CallOK(label, l), label \in {"index", "idle", "exists"},
         label = "exists" =>
           /\ local[w].op = "rebalance" /\ l.op = "rebalance"
           /\ l.shard = local[w].shard + 1
           /\ l.meta = local[w].todo[l.shard] /\ l.todo = local[w].todo,
         ReportsStored(w),
         UNCHANGED <<nodeState, logIndex, issued, acked>>
  PROVE  ZkInv'
<1> DEFINE s == local[w].shard
           meta == local[w].meta
<1>1. /\ s \in Shards /\ s \in Nat /\ znode[s].version \in Nat
      /\ meta \in ShardMetadata /\ Proper(s, meta)
      /\ pc[w] = "setData" /\ CallOK("setData", local[w])
  <2>1. pc[w] = "setData" /\ CallOK("setData", local[w])
    BY DEF ZkInv
  <2>2. s \in Shards /\ s \in Nat
    BY LocalFields DEF Shards
  <2>a. Proper(s, meta)
    BY <2>1 DEF CallOK
  <2>3. meta \in ShardMetadata /\ Proper(s, meta)
    BY <2>a DEF Proper
  <2>4. znode[s].version \in Nat
    BY <2>2 DEF ZkInv, TypeOK
  <2> QED BY <2>1, <2>2, <2>3, <2>4
<1>2. /\ pc' = [pc EXCEPT ![w] = label] /\ local' = [local EXCEPT ![w] = l]
      /\ CallOK(label, l)
      /\ label \in {"index", "idle", "exists"}
      /\ label = "exists" =>
           /\ local[w].op = "rebalance" /\ l.op = "rebalance"
           /\ l.shard = local[w].shard + 1
           /\ l.meta = local[w].todo[l.shard] /\ l.todo = local[w].todo
  OBVIOUS
<1>3. /\ znode' = [znode EXCEPT ![s] = [data |-> meta, version |-> znode[s].version + 1]]
      /\ UNCHANGED <<nodeState, logIndex, issued, acked>>
  BY DEF ZkInv, TypeOK
<1>4. local[w].shard = s /\ local[w].meta = meta
  OBVIOUS
<1>r. /\ reported' \in [Shards -> 0 .. MaxLogIndex]
      /\ \A t \in Shards : \/ reported'[t] = reported[t]
                           \/ t = s /\ reported'[t] = meta.commitIndex
  BY DEF ReportsStored
<1> HIDE DEF s, meta
<1>5. /\ znode'[s].data = meta
      /\ \A t \in Shards \ {s} : znode'[t] = znode[t]
  BY <1>1, <1>3 DEF ZkInv, TypeOK
<1>6. \A v \in Workers : /\ pc'[v] = IF v = w THEN label ELSE pc[v]
                         /\ local'[v] = IF v = w THEN l ELSE local[v]
  BY <1>2 DEF ZkInv, TypeOK
<1>7. TypeOK'
  <2>1. znode[s].version + 1 \in Nat
    BY <1>1
  <2>2. znode' \in [Shards -> [data : ShardMetadata, version : Nat]]
    BY <1>1, <1>3, <2>1 DEF ZkInv, TypeOK
  <2>3. pc' \in [Workers -> Labels] /\ local' \in [Workers -> Locals]
    BY <1>2 DEF ZkInv, TypeOK
  <2> QED BY <1>3, <1>r, <2>2, <2>3 DEF ZkInv, TypeOK
<1>8. ASSUME NEW t \in Shards PROVE Proper(t, znode[t].data)'
  <2>1. Proper(t, znode'[t].data)
    BY <1>1, <1>5 DEF ZkInv
  <2> QED BY <1>3, <2>1 DEF Proper
<1>9. (\A t \in Shards : issued[t] <= logIndex[t].value)'
  BY <1>3 DEF ZkInv
<1>10. ASSUME NEW v \in Workers PROVE CallOK(pc[v], local[v])'
  <2>1. CallOK(pc'[v], local'[v])
    BY <1>2, <1>6 DEF ZkInv
  <2> QED BY <1>3, <2>1 DEF CallOK, Proper
<1>11. ASSUME NEW v \in Workers, Workers = {v}
       PROVE  AloneOK(pc[v], local[v])' /\ Settled'
  <2>1. v = w /\ pc'[v] = label /\ local'[v] = l
    BY <1>6, <1>11
  <2>2. AloneOK("setData", local[w]) /\ Settled
    BY <1>1, <1>11, <2>1 DEF ZkInv
  <2>3. Follows(meta, znode[s].data)
    BY <1>4, <2>2 DEF AloneOK
  <2>4. znode[s].data.commitIndex \in Nat /\ meta.commitIndex \in Nat
    BY <1>1 DEF ZkInv, TypeOK, ShardMetadata
  <2>5. Settled'
    <3> SUFFICES ASSUME NEW t \in Shards PROVE reported'[t] <= znode'[t].data.commitIndex
      BY DEF Settled
    <3>1. reported[t] \in Nat /\ reported[t] <= znode[t].data.commitIndex
      BY <2>2, ZkAssumption DEF ZkInv, TypeOK, Settled
    <3>3. CASE t = s
      BY <1>5, <1>r, <2>3, <2>4, <3>1, <3>3 DEF Follows
    <3>4. CASE t # s
      BY <1>5, <1>r, <3>1, <3>4
    <3> QED BY <3>3, <3>4
  <2>6. label # "setData" /\ label # "commit"
    BY <1>2
  <2>7. ASSUME label = "exists"
        PROVE  /\ Follows(l.meta, znode'[l.shard].data)
               /\ \A t \in Shards : t > l.shard => Follows(l.todo[t], znode'[t].data)
    <3>1. /\ local[w].op = "rebalance" /\ l.shard = s + 1 /\ l.shard \in Shards
          /\ l.meta = local[w].todo[l.shard] /\ l.todo = local[w].todo
      BY <1>2, <1>4, <2>7 DEF Locals
    <3>2. \A t \in Shards : t > s => Follows(local[w].todo[t], znode[t].data) /\ t # s
      BY <1>1, <1>4, <2>2, <3>1 DEF AloneOK
    <3>3. \A t \in Shards : t > s => Follows(local[w].todo[t], znode'[t].data)
      BY <1>5, <3>2
    <3>4. l.shard > s /\ \A t \in Shards : t > l.shard => t > s
      BY <1>1, <3>1, ZkAssumption DEF Shards
    <3> QED BY <3>1, <3>3, <3>4
  <2> QED BY <2>1, <2>5, <2>6, <2>7 DEF AloneOK, Follows
<1> QED
  BY <1>7, <1>8, <1>9, <1>10, <1>11 DEF ZkInv

LEMMA SetDataInv ==
  ASSUME ZkInv, NEW w \in Workers, SetData(w)
  PROVE  ZkInv'
<1>1. PICK label \in Labels, l \in Locals :
           /\ pc' = [pc EXCEPT ![w] = label] /\ local' = [local EXCEPT ![w] = l]
           /\ CallOK(label, l)
           /\ label \in {"index", "idle", "exists"}
           /\ label = "exists" =>
                /\ local[w].op = "rebalance" /\ l.op = "rebalance"
                /\ l.shard = local[w].shard + 1
                /\ l.meta = local[w].todo[l.shard] /\ l.todo = local[w].todo
           /\ ReportsStored(w)
  BY AfterSetDataMoves DEF SetData
<1> QED
  BY <1>1, WriteMoves DEF SetData

LEMMA SetDataUnansweredInv ==
  ASSUME ZkInv, NEW w \in Workers, SetDataUnanswered(w)
  PROVE  ZkInv'
<1>1. "idle" \in Labels /\ NoLocal \in Locals
  BY NoLocalType DEF Labels
<1>2. CallOK("idle", NoLocal)
  BY DEF CallOK
<1>3. ReportsStored(w)
  BY DEF SetDataUnanswered, ReportsStored, ZkInv, TypeOK
<1> HIDE DEF NoLocal
<1> QED
  BY <1>1, <1>2, <1>3, WriteMoves DEF SetDataUnanswered, Finish, Goto

LEMMA NodeChangesInv ==
  ASSUME ZkInv, NEW n \in Nodes, NEW state \in {"GONE", "RECOVERING", "SERVING"},
         NodeChanges(n, state)
  PROVE  ZkInv'
<1> USE DEF ZkInv, NodeChanges
<1>1. TypeOK'
  BY DEF TypeOK
<1>2. (\A s \in Shards : Proper(s, znode[s].data))'
  BY DEF Proper
<1>3. (\A s \in Shards : issued[s] <= logIndex[s].value)'
  OBVIOUS
<1>4. (\A w \in Workers : CallOK(pc[w], local[w]))'
  BY DEF CallOK, Proper
<1>5. (\A w \in Workers : Workers = {w} => AloneOK(pc[w], local[w]) /\ Settled)'
  BY DEF AloneOK, Follows, Settled
<1> QED
  BY <1>1, <1>2, <1>3, <1>4, <1>5

-----------------------------------------------------------------------------
LEMMA InitInv == Init => ZkInv
<1> SUFFICES ASSUME Init PROVE ZkInv
  OBVIOUS
<1> USE DEF Init
<1>1. \A s \in Shards : znode[s].data =
          [replicas |-> Layout(s, Nodes), primary |-> Layout(s, Nodes)[1],
           term |-> 1, commitIndex |-> 0]
  OBVIOUS
<1>2. ASSUME NEW s \in Shards
      PROVE  Proper(s, znode[s].data) /\ znode[s].data.commitIndex = 0
  <2>1. s \in Nat /\ Nodes \in SUBSET Nodes /\ Nodes # {}
    BY ZkAssumption DEF Shards
  <2>2. /\ Layout(s, Nodes) \in Seq(Nodes) /\ IsInjective(Layout(s, Nodes))
        /\ Layout(s, Nodes)[1] \in Members(Layout(s, Nodes))
        /\ Members(Layout(s, Nodes)) \in SUBSET Nodes
    BY <2>1, LayoutProper
  <2>3. Layout(s, Nodes)[1] \in Nodes
    BY <2>2
  <2> QED BY <1>1, <2>2, <2>3 DEF Proper, ShardMetadata
<1>3. TypeOK
  <2>1. \A s \in Shards : znode[s] = [data |-> znode[s].data, version |-> 0]
    OBVIOUS
  <2>2. znode \in [Shards -> [data : ShardMetadata, version : Nat]]
    <3>1. \A s \in Shards : znode[s].data \in ShardMetadata
      BY <1>2 DEF Proper
    <3>2. \A s \in Shards : znode[s] \in [data : ShardMetadata, version : Nat]
      BY <2>1, <3>1
    <3>3. znode = [s \in Shards |-> znode[s]]
      OBVIOUS
    <3> QED BY <3>2, <3>3
  <2>3. local \in [Workers -> Locals]
    BY NoLocalType
  <2>4. logIndex \in [Shards -> [value : 0 .. MaxLogIndex, version : Nat]]
    BY ZkAssumption
  <2>5. issued \in [Shards -> 0 .. MaxLogIndex] /\ reported \in [Shards -> 0 .. MaxLogIndex]
    BY ZkAssumption
  <2> QED BY <2>2, <2>3, <2>4, <2>5 DEF TypeOK, Labels
<1>4. \A w \in Workers : CallOK(pc[w], local[w])
  BY DEF CallOK
<1>5. \A w \in Workers : AloneOK(pc[w], local[w])
  BY DEF AloneOK
<1>6. \A s \in Shards : issued[s] <= logIndex[s].value
  OBVIOUS
<1>7. Settled
  BY <1>2 DEF Settled, Proper, ShardMetadata
<1> QED
  BY <1>2, <1>3, <1>4, <1>5, <1>6, <1>7 DEF ZkInv

LEMMA StepInv == ZkInv /\ [Next]_vars => ZkInv'
<1> SUFFICES ASSUME ZkInv, [Next]_vars PROVE ZkInv'
  OBVIOUS
<1>1. ASSUME NEW w \in Workers, WorkerStep(w) PROVE ZkInv'
  BY <1>1, KeepPrimaryInv, NoLiveReplicaInv, ChangePrimaryInv, ReadIndexInv, CasIndexInv,
     CasConflictInv, IndexBoundInv, QuorumReachedInv, QuorumFailedInv, UpdateCommitIndexInv,
     ReadShardsInv, ExistsInv, SetDataInv, BadVersionInv DEF WorkerStep
<1>3. ASSUME NEW w \in Workers, FailStep(w) PROVE ZkInv'
  BY <1>3, CallFailsInv, CasUnansweredInv, SetDataUnansweredInv DEF FailStep
<1>2. ASSUME UNCHANGED vars PROVE ZkInv'
  <2> USE <1>2 DEF vars, ZkInv
  <2>1. TypeOK'
    BY DEF TypeOK
  <2>2. (\A s \in Shards : Proper(s, znode[s].data))'
    BY DEF Proper
  <2>3. (\A s \in Shards : issued[s] <= logIndex[s].value)'
    OBVIOUS
  <2>4. (\A w \in Workers : CallOK(pc[w], local[w]))'
    BY DEF CallOK, Proper
  <2>5. (\A w \in Workers : Workers = {w} => AloneOK(pc[w], local[w]) /\ Settled)'
    BY DEF AloneOK, Follows, Settled
  <2> QED BY <2>1, <2>2, <2>3, <2>4, <2>5
<1> QED
  BY <1>1, <1>2, <1>3, BeginWriteInv, BeginRebalanceInv, NodeChangesInv DEF Next

(* The invariant holds in every state of every behaviour. *)
LEMMA ZkInvariant == Spec => []ZkInv
BY InitInv, StepInv, PTL DEF Spec

(* Every variable of the metadata store and of its calls has its type. *)
THEOREM ZkTypes == Spec => []TypeOK
<1>1. ZkInv => TypeOK
  BY DEF ZkInv
<1> QED
  BY <1>1, ZkInvariant, PTL

LEMMA OneWorker ==
  ASSUME TypeOK, Serial
  PROVE  \E w \in Workers : Workers = {w}
<1>1. DOMAIN pc = Workers /\ IsFiniteSet(Workers) /\ Cardinality(Workers) = 1
  BY ZkAssumption DEF TypeOK, Serial
<1>2. \E w : Workers = {w}
  BY <1>1, FS_Singleton
<1> QED
  BY <1>2

(* However many coordinator calls elect, rebalance and commit at once, a
   shard's metadata has distinct replicas, a primary among them and a
   confirmed commit index, which covers every write reported as successful
   when calls do not overlap, whatever requests to ZooKeeper fail. *)
THEOREM MetadataIsSound == Spec => []MetadataSound
<1>1. ASSUME ZkInv PROVE MetadataSound
  <2>1. DOMAIN znode = Shards /\ DOMAIN pc = Workers /\ TypeOK
    BY <1>1 DEF ZkInv, TypeOK
  <2>2. CommitIndexAcked /\ PrimaryIsReplica
    BY <1>1, <2>1 DEF ZkInv, Proper, CommitIndexAcked, PrimaryIsReplica
  <2>3. ASSUME Serial PROVE Settled
    <3>1. PICK w \in Workers : Workers = {w}
      BY <2>1, <2>3, OneWorker
    <3> QED BY <1>1, <3>1 DEF ZkInv
  <2> QED BY <2>1, <2>2, <2>3 DEF MetadataSound, CommitIndexCovers, Settled
<1> QED
  BY <1>1, ZkInvariant, PTL

(* nextShardLogIndex hands out no index twice, whichever calls race. *)
THEOREM IndexesIssuedOnce == Spec => IndexIssuedOnce
<1> DEFINE Issues == \A w \in DOMAIN pc :
             pc[w] = "cas" /\ pc'[w] = "send" => local[w].index > issued[local[w].shard]
<1>1. ASSUME ZkInv, [Next]_vars PROVE [Issues]_vars
  <2> SUFFICES ASSUME Next, NEW w \in Workers, pc[w] = "cas", pc'[w] = "send"
               PROVE  local[w].index > issued[local[w].shard]
    BY <1>1 DEF ZkInv, TypeOK
  <2>1. pc \in [Workers -> Labels]
    BY <1>1 DEF ZkInv, TypeOK
  <2>2. ASSUME NEW v \in Workers, NEW s \in Shards, BeginWrite(v, s) PROVE FALSE
    BY <2>1, <2>2 DEF BeginWrite, Goto
  <2>3. ASSUME NEW v \in Workers, BeginRebalance(v) PROVE FALSE
    BY <2>1, <2>3 DEF BeginRebalance, Goto
  <2>4. ASSUME NEW n \in Nodes, NEW state \in {"GONE", "RECOVERING", "SERVING"},
               NodeChanges(n, state)
        PROVE  FALSE
    BY <2>4 DEF NodeChanges
  <2>5. ASSUME NEW v \in Workers, WorkerStep(v) PROVE CasIndex(v) /\ v = w
    <3>1. CASE v # w
      <4>1. CASE SetData(v)
        <5>1. \E label \in Labels : pc' = [pc EXCEPT ![v] = label]
          BY <1>1, <4>1, AfterSetDataMoves DEF SetData
        <5> QED BY <2>1, <3>1, <5>1
      <4>2. CASE ~SetData(v)
        <5>1. \E label : pc' = [pc EXCEPT ![v] = label]
          BY <2>5, <4>2 DEF WorkerStep, KeepPrimary, NoLiveReplica, ChangePrimary, ReadIndex,
             CasIndex, CasConflict, IndexBound, QuorumReached, QuorumFailed, UpdateCommitIndex,
             ReadShards, Exists, BadVersion, Finish, Goto
        <5> QED BY <2>1, <3>1, <5>1
      <4> QED BY <4>1, <4>2
    <3>2. CASE v = w
      <4>1. CASE CasConflict(w) \/ IndexBound(w)
        BY <2>1, <4>1 DEF CasConflict, IndexBound, Finish, Goto
      <4>2. CASE CasIndex(w)
        BY <3>2, <4>2
      <4>3. ~(CasConflict(w) \/ IndexBound(w) \/ CasIndex(w)) => FALSE
        BY <2>5, <3>2 DEF WorkerStep, KeepPrimary, NoLiveReplica, ChangePrimary, ReadIndex,
           QuorumReached, QuorumFailed, UpdateCommitIndex, ReadShards, Exists, SetData,
           BadVersion
      <4> QED BY <4>1, <4>2, <4>3
    <3> QED BY <3>1, <3>2
  <2>6. ASSUME NEW v \in Workers, FailStep(v) PROVE FALSE
    <3>1. pc' = [pc EXCEPT ![v] = "idle"]
      BY <2>6 DEF FailStep, CallFails, CasUnanswered, SetDataUnanswered, Finish, Goto
    <3> QED BY <2>1, <3>1
  <2> QED BY <1>1, <2>2, <2>3, <2>4, <2>5, <2>6, CasIndexInv DEF Next
<1> QED
  BY <1>1, ZkInvariant, PTL DEF Spec, IndexIssuedOnce

(* A coordinator that makes one call at a time replaces a primary only
   together with a larger term. *)
THEOREM TermsFence == Spec => TermFencesPrimary
<1> DEFINE Fenced == Serial => \A s \in DOMAIN znode :
             znode'[s].data.primary # znode[s].data.primary =>
                 znode'[s].data.term > znode[s].data.term
<1>1. ASSUME ZkInv, [Next]_vars PROVE [Fenced]_vars
  <2> SUFFICES ASSUME Next, Serial, NEW s \in Shards,
                      znode'[s].data.primary # znode[s].data.primary
               PROVE  znode'[s].data.term > znode[s].data.term
    BY <1>1 DEF ZkInv, TypeOK
  <2>1. PICK w \in Workers : Workers = {w}
    BY <1>1, OneWorker DEF ZkInv
  <2>2. SetData(w) \/ SetDataUnanswered(w)
    BY <2>1 DEF Next, BeginWrite, BeginRebalance, NodeChanges, WorkerStep, KeepPrimary,
       NoLiveReplica, ChangePrimary, ReadIndex, CasIndex, CasConflict, IndexBound, QuorumReached,
       QuorumFailed, UpdateCommitIndex, ReadShards, Exists, BadVersion, FailStep, CallFails,
       CasUnanswered
  <2>3. AloneOK("setData", local[w])
    BY <1>1, <2>1, <2>2 DEF ZkInv, SetData, SetDataUnanswered
  <2>4. znode'[s].data = IF s = local[w].shard THEN local[w].meta ELSE znode[s].data
    <3>1. znode \in [Shards -> [data : ShardMetadata, version : Nat]]
      BY <1>1 DEF ZkInv, TypeOK
    <3>2. znode' = [znode EXCEPT ![local[w].shard] =
                       [data |-> local[w].meta, version |-> znode[local[w].shard].version + 1]]
      BY <2>2, <3>1 DEF SetData, SetDataUnanswered
    <3> QED BY <3>1, <3>2
  <2> QED BY <2>3, <2>4 DEF AloneOK, Follows
<1> QED
  BY <1>1, ZkInvariant, PTL DEF Spec, TermFencesPrimary
=============================================================================
