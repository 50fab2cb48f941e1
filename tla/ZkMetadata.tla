----------------------------- MODULE ZkMetadata -----------------------------
(***************************************************************************)
(* The cluster metadata in ZooKeeper (zk/ZkMetadataStore.java) under the   *)
(* concurrent calls of the coordinator's HTTP workers                      *)
(* (coordinator/CoordinatorServer.java: routedWrite and rebalance).        *)
(*                                                                         *)
(* A shard's znode holds replicas, primary, term and commitIndex.  Every   *)
(* update reads the znode, changes the copy and calls upsertPersistent,    *)
(* which asks for the version of the znode only then: the version guards   *)
(* the write against what happened after exists(), not after the read.     *)
(* The shard's log index is a znode of its own and is a proper             *)
(* compare-and-set.  Every ZooKeeper request is one step.                  *)
(***************************************************************************)
EXTENDS Naturals, Sequences, FiniteSets, Functions

CONSTANTS
    Nodes,              \* data nodes: numbers, in the order of their names
    ShardCount,         \* shards are 0 .. ShardCount - 1
    ReplicationFactor,
    Workers,            \* threads of the coordinator
    MaxLogIndex,        \* bound on the log indexes of a shard
    MaxVersion          \* bound on the znode versions at which calls begin

ASSUME ZkAssumption ==
    /\ Nodes \subseteq Nat /\ Nodes # {} /\ IsFiniteSet(Nodes)
    /\ ShardCount \in Nat \ {0}
    /\ ReplicationFactor \in Nat \ {0}
    /\ IsFiniteSet(Workers)
    /\ MaxLogIndex \in Nat /\ MaxVersion \in Nat

VARIABLES
    nodeState,   \* /nodes: the replicaState of a node, GONE without a znode
    znode,       \* /shards/<id>: its data and its version
    logIndex,    \* /shard-log-indexes/<id>: value and version
    pc,          \* per worker: its next ZooKeeper request
    local,       \* per worker: its local variables
    issued,      \* history: the last log index handed out, per shard
    acked,       \* history: the log indexes a quorum confirmed, per shard
    reported     \* history: the largest one of a write reported as successful

vars == <<nodeState, znode, logIndex, pc, local, issued, acked, reported>>

Shards == 0 .. ShardCount - 1

ShardMetadata == [replicas : Seq(Nodes), primary : Nodes, term : Nat, commitIndex : Nat]

NoMetadata == [replicas |-> <<>>, primary |-> 0, term |-> 0, commitIndex |-> 0]

NoLocal == [op |-> "none", shard |-> 0, nodes |-> {}, meta |-> NoMetadata,
            version |-> 0, index |-> 0, todo |-> <<>>]

Members(list) == {list[i] : i \in DOMAIN list}

Min2(a, b) == IF a < b THEN a ELSE b

(* The node ids in the order of their names.                               *)
Sorted(ids) ==
    CHOOSE list \in [1 .. Cardinality(ids) -> ids] :
        \A i, j \in DOMAIN list : i < j => list[i] < list[j]

(* initializeShards and rebalance: nodeIds[(shardId + replica) % size]     *)
Layout(shard, ids) ==
    LET sorted == Sorted(ids)
        size   == Len(sorted)
    IN  [r \in 1 .. Min2(ReplicationFactor, size) |-> sorted[((shard + r - 1) % size) + 1]]

(* chooseBalancedPrimary: the least loaded node, the first one by name     *)
chooseBalancedPrimary(candidates, primaryCounts) ==
    CHOOSE n \in candidates : \A m \in candidates :
        \/ primaryCounts[n] < primaryCounts[m]
        \/ primaryCounts[n] = primaryCounts[m] /\ n <= m

primaryCountsExcludingShard(excluded) ==
    [n \in Nodes |-> Cardinality({s \in Shards \ {excluded} : znode[s].data.primary = n})]

(* assignBalancedPrimaries: shard after shard, counting the primaries that *)
(* the shards before it were given.                                        *)
BalancedPrimaries(replicas) ==
    LET primary[s \in Shards] ==
            LET counts == [n \in Nodes |->
                             Cardinality({t \in 0 .. s - 1 : primary[t] = n})]
            IN  chooseBalancedPrimary(Members(replicas[s]), counts)
    IN  primary

Labels == {"idle", "elect", "index", "cas", "send", "commit", "shards", "exists", "setData"}

Locals == [op : {"none", "write", "commit", "rebalance"}, shard : Shards,
           nodes : SUBSET Nodes, meta : ShardMetadata \cup {NoMetadata},
           version : Nat, index : Nat,
           todo : [1 .. ShardCount - 1 -> ShardMetadata] \cup {<<>>}]

TypeOK ==
    /\ nodeState \in [Nodes -> {"GONE", "RECOVERING", "SERVING"}]
    /\ znode \in [Shards -> [data : ShardMetadata, version : Nat]]
    /\ logIndex \in [Shards -> [value : 0 .. MaxLogIndex, version : Nat]]
    /\ pc \in [Workers -> Labels]
    /\ local \in [Workers -> Locals]
    /\ issued \in [Shards -> 0 .. MaxLogIndex]
    /\ acked \in [Shards -> SUBSET (1 .. MaxLogIndex)]
    /\ reported \in [Shards -> 0 .. MaxLogIndex]

(* initializeShards, before any node has registered                        *)
Init ==
    /\ nodeState = [n \in Nodes |-> "GONE"]
    /\ znode = [s \in Shards |->
                  [data |-> [replicas |-> Layout(s, Nodes), primary |-> Layout(s, Nodes)[1],
                             term |-> 1, commitIndex |-> 0],
                   version |-> 0]]
    /\ logIndex = [s \in Shards |-> [value |-> 0, version |-> 0]]
    /\ pc = [w \in Workers |-> "idle"]
    /\ local = [w \in Workers |-> NoLocal]
    /\ issued = [s \in Shards |-> 0]
    /\ acked = [s \in Shards |-> {}]
    /\ reported = [s \in Shards |-> 0]

Goto(w, label) == pc' = [pc EXCEPT ![w] = label]

Finish(w) == Goto(w, "idle") /\ local' = [local EXCEPT ![w] = NoLocal]

MayBegin(w) == pc[w] = "idle" /\ \A s \in Shards : znode[s].version < MaxVersion

-----------------------------------------------------------------------------
(* routedWrite, up to the log index.                                       *)

ServingNodes == {n \in Nodes : nodeState[n] = "SERVING"}

(* liveNodes; what counts later is which of them are SERVING.              *)
BeginWrite(w, s) ==
    /\ MayBegin(w)
    /\ logIndex[s].value < MaxLogIndex
    /\ local' = [local EXCEPT ![w] = [NoLocal EXCEPT !.op = "write", !.shard = s,
                                         !.nodes = ServingNodes]]
    /\ Goto(w, "elect")
    /\ UNCHANGED <<nodeState, znode, logIndex, issued, acked, reported>>

(* electPrimary keeps a primary that serves, ...                           *)
KeepPrimary(w) ==
    /\ pc[w] = "elect"
    /\ LET meta == znode[local[w].shard].data IN
          /\ meta.primary \in local[w].nodes
          /\ local' = [local EXCEPT ![w].meta = meta]
    /\ Goto(w, "index")
    /\ UNCHANGED <<nodeState, znode, logIndex, issued, acked, reported>>

(* ... returns when no replica serves, and the write is refused, ...       *)
NoLiveReplica(w) ==
    /\ pc[w] = "elect"
    /\ Members(znode[local[w].shard].data.replicas) \cap local[w].nodes = {}
    /\ Finish(w)
    /\ UNCHANGED <<nodeState, znode, logIndex, issued, acked, reported>>

(* A bug: the term stays the same.                                         *)
ChangePrimary_SameTerm(w) ==
    /\ pc[w] = "elect"
    /\ LET s     == local[w].shard
           meta  == znode[s].data
           alive == Members(meta.replicas) \cap local[w].nodes
       IN  /\ meta.primary \notin local[w].nodes
           /\ alive # {}
           /\ local' = [local EXCEPT ![w].meta =
                 [meta EXCEPT !.primary =
                    chooseBalancedPrimary(alive, primaryCountsExcludingShard(s))]]
    /\ Goto(w, "exists")
    /\ UNCHANGED <<nodeState, znode, logIndex, issued, acked, reported>>

(* ... and otherwise makes the least loaded serving replica the primary of *)
(* the next term.                                                          *)
ChangePrimary(w) ==
    /\ pc[w] = "elect"
    /\ LET s     == local[w].shard
           meta  == znode[s].data
           alive == Members(meta.replicas) \cap local[w].nodes
       IN  /\ meta.primary \notin local[w].nodes
           /\ alive # {}
           /\ local' = [local EXCEPT ![w].meta =
                 [meta EXCEPT !.primary =
                                 chooseBalancedPrimary(alive, primaryCountsExcludingShard(s)),
                              !.term = @ + 1]]
    /\ Goto(w, "exists")
    /\ UNCHANGED <<nodeState, znode, logIndex, issued, acked, reported>>

(* nextShardLogIndex: getData ...                                          *)
ReadIndex(w) ==
    /\ pc[w] = "index"
    /\ LET l == logIndex[local[w].shard] IN
          local' = [local EXCEPT ![w].index = l.value + 1, ![w].version = l.version]
    /\ Goto(w, "cas")
    /\ UNCHANGED <<nodeState, znode, logIndex, issued, acked, reported>>

(* A bug: setData with version -1, which always succeeds.                  *)
CasIndex_AnyVersion(w) ==
    LET s == local[w].shard IN
    /\ pc[w] = "cas"
    /\ local[w].index <= MaxLogIndex
    /\ logIndex' = [logIndex EXCEPT ![s] =
                      [value |-> local[w].index, version |-> @.version + 1]]
    /\ issued' = [issued EXCEPT ![s] = local[w].index]
    /\ Goto(w, "send")
    /\ UNCHANGED <<nodeState, znode, local, acked, reported>>

(* ... and setData at the version read.                                    *)
CasIndex(w) ==
    LET s == local[w].shard IN
    /\ pc[w] = "cas"
    /\ local[w].version = logIndex[s].version
    /\ local[w].index <= MaxLogIndex
    /\ logIndex' = [logIndex EXCEPT ![s] =
                      [value |-> local[w].index, version |-> @.version + 1]]
    /\ issued' = [issued EXCEPT ![s] = local[w].index]
    /\ Goto(w, "send")
    /\ UNCHANGED <<nodeState, znode, local, acked, reported>>

(* A bug: the value is not read again before the next attempt.             *)
CasConflict_NoReread(w) ==
    /\ pc[w] = "cas"
    /\ local[w].version # logIndex[local[w].shard].version
    /\ UNCHANGED vars

(* BadVersionException: the loop starts over.                              *)
CasConflict(w) ==
    /\ pc[w] = "cas"
    /\ local[w].version # logIndex[local[w].shard].version
    /\ Goto(w, "index")
    /\ UNCHANGED <<nodeState, znode, logIndex, local, issued, acked, reported>>

(* The bound on log indexes ends a call that began below it.               *)
IndexBound(w) ==
    /\ pc[w] = "cas"
    /\ local[w].index > MaxLogIndex
    /\ Finish(w)
    /\ UNCHANGED <<nodeState, znode, logIndex, issued, acked, reported>>

(* sendRaftStyle: a quorum of ok answers, or not (Cluster has the rest).   *)
QuorumReached(w) ==
    LET s == local[w].shard IN
    /\ pc[w] = "send"
    /\ acked' = [acked EXCEPT ![s] = @ \cup {local[w].index}]
    /\ Goto(w, "commit")
    /\ UNCHANGED <<nodeState, znode, logIndex, local, issued, reported>>

QuorumFailed(w) ==
    /\ pc[w] = "send"
    /\ Finish(w)
    /\ UNCHANGED <<nodeState, znode, logIndex, issued, acked, reported>>

(* updateCommitIndex has returned: routedWrite reports success.            *)
Report(w) ==
    reported' = [reported EXCEPT ![local[w].shard] =
                    IF @ < local[w].index THEN local[w].index ELSE @]

(* updateCommitIndex reads the znode and writes it when the index grows.   *)
UpdateCommitIndex(w) ==
    LET meta == znode[local[w].shard].data IN
    /\ pc[w] = "commit"
    /\ \/ /\ local[w].index > meta.commitIndex
          /\ local' = [local EXCEPT ![w].meta = [meta EXCEPT !.commitIndex = local[w].index],
                                    ![w].op = "commit"]
          /\ Goto(w, "exists") /\ UNCHANGED reported
       \/ local[w].index <= meta.commitIndex /\ Finish(w) /\ Report(w)
    /\ UNCHANGED <<nodeState, znode, logIndex, issued, acked>>

-----------------------------------------------------------------------------
(* rebalance                                                               *)

BeginRebalance(w) ==
    /\ MayBegin(w)
    /\ LET live == {n \in Nodes : nodeState[n] # "GONE"} IN
          /\ live # {}
          /\ local' = [local EXCEPT ![w] = [NoLocal EXCEPT !.op = "rebalance", !.nodes = live]]
    /\ Goto(w, "shards")
    /\ UNCHANGED <<nodeState, znode, logIndex, issued, acked, reported>>

(* A bug: the shards start over as new ones.                               *)
Rebalanced_Fresh(ids) ==
    LET list == [s \in Shards |-> Sorted(Members(Layout(s, ids)))]
    IN  [s \in Shards |-> [replicas |-> list[s], primary |-> BalancedPrimaries(list)[s],
                           term |-> znode[s].data.term + 1, commitIndex |-> 0]]

(* The new metadata of every shard: replicas in name order, balanced       *)
(* primaries, the next term when either changed.                           *)
Rebalanced(ids) ==
    LET list == [s \in Shards |-> Sorted(Members(Layout(s, ids)))]
    IN  [s \in Shards |->
            LET old     == znode[s].data
                primary == BalancedPrimaries(list)[s]
            IN  [old EXCEPT !.replicas = list[s],
                            !.primary = primary,
                            !.term = IF list[s] = old.replicas /\ primary = old.primary
                                     THEN @ ELSE @ + 1]]

(* shards() is read, the layout computed; the first shard is written next. *)
ReadShards(w) ==
    /\ pc[w] = "shards"
    /\ LET new == Rebalanced(local[w].nodes) IN
          local' = [local EXCEPT ![w].shard = 0, ![w].meta = new[0],
                                 ![w].todo = [s \in 1 .. ShardCount - 1 |-> new[s]]]
    /\ Goto(w, "exists")
    /\ UNCHANGED <<nodeState, znode, logIndex, issued, acked, reported>>

-----------------------------------------------------------------------------
(* updateShard/upsertPersistent: exists() tells the version ...            *)

Exists(w) ==
    /\ pc[w] = "exists"
    /\ local' = [local EXCEPT ![w].version = znode[local[w].shard].version]
    /\ Goto(w, "setData")
    /\ UNCHANGED <<nodeState, znode, logIndex, issued, acked, reported>>

(* What the caller does next: electPrimary goes on to the log index,       *)
(* updateCommitIndex is done, rebalance writes its next shard.             *)
AfterSetData(w) ==
    LET next == local[w].shard + 1 IN
    CASE local[w].op = "write"  -> Goto(w, "index") /\ UNCHANGED <<local, reported>>
      [] local[w].op = "commit" -> Finish(w) /\ Report(w)
      [] local[w].op = "rebalance" ->
            /\ IF next \in Shards
               THEN /\ local' = [local EXCEPT ![w].shard = next, ![w].meta = local[w].todo[next]]
                    /\ Goto(w, "exists")
               ELSE Finish(w)
            /\ UNCHANGED reported

(* ... and setData writes at that version.                                 *)
SetData(w) ==
    LET s == local[w].shard IN
    /\ pc[w] = "setData"
    /\ local[w].version = znode[s].version
    /\ znode' = [znode EXCEPT ![s] = [data |-> local[w].meta, version |-> @.version + 1]]
    /\ AfterSetData(w)
    /\ UNCHANGED <<nodeState, logIndex, issued, acked>>

(* The znode changed after exists(): the exception ends the whole call.    *)
BadVersion(w) ==
    /\ pc[w] = "setData"
    /\ local[w].version # znode[local[w].shard].version
    /\ Finish(w)
    /\ UNCHANGED <<nodeState, znode, logIndex, issued, acked, reported>>

-----------------------------------------------------------------------------
(* ZooKeeper is lost before any of the requests above, or the coordinator  *)
(* dies: the exception ends the call, and what it has written stays.       *)
CallFails(w) ==
    /\ pc[w] # "idle"
    /\ Finish(w)
    /\ UNCHANGED <<nodeState, znode, logIndex, issued, acked, reported>>

(* The connection is lost after ZooKeeper did a setData: the call ends in  *)
(* the same exception, and the caller never learns the log index ...       *)
CasUnanswered(w) ==
    /\ pc[w] = "cas"
    /\ local[w].version = logIndex[local[w].shard].version
    /\ local[w].index <= MaxLogIndex
    /\ logIndex' = [logIndex EXCEPT ![local[w].shard] =
                      [value |-> local[w].index, version |-> @.version + 1]]
    /\ Finish(w)
    /\ UNCHANGED <<nodeState, znode, issued, acked, reported>>

(* ... or that the metadata is written.                                    *)
SetDataUnanswered(w) ==
    LET s == local[w].shard IN
    /\ pc[w] = "setData"
    /\ local[w].version = znode[s].version
    /\ znode' = [znode EXCEPT ![s] = [data |-> local[w].meta, version |-> @.version + 1]]
    /\ Finish(w)
    /\ UNCHANGED <<nodeState, logIndex, issued, acked, reported>>

-----------------------------------------------------------------------------
(* A node registers, changes its state or loses its ephemeral znode.       *)
NodeChanges(n, state) ==
    /\ nodeState[n] # state
    /\ nodeState' = [nodeState EXCEPT ![n] = state]
    /\ UNCHANGED <<znode, logIndex, pc, local, issued, acked, reported>>

WorkerStep(w) ==
    \/ KeepPrimary(w) \/ NoLiveReplica(w) \/ ChangePrimary(w)
    \/ ReadIndex(w) \/ CasIndex(w) \/ CasConflict(w) \/ IndexBound(w)
    \/ QuorumReached(w) \/ QuorumFailed(w) \/ UpdateCommitIndex(w)
    \/ ReadShards(w) \/ Exists(w) \/ SetData(w) \/ BadVersion(w)

FailStep(w) == CallFails(w) \/ CasUnanswered(w) \/ SetDataUnanswered(w)

Next ==
    \/ \E w \in Workers, s \in Shards : BeginWrite(w, s)
    \/ \E w \in Workers : BeginRebalance(w)
    \/ \E w \in Workers : WorkerStep(w) \/ FailStep(w)
    \/ \E n \in Nodes, state \in {"GONE", "RECOVERING", "SERVING"} : NodeChanges(n, state)

Spec == Init /\ [][Next]_vars

-----------------------------------------------------------------------------
(* Properties.                                                             *)

(* Shards and calls are those of the state, so that one definition serves  *)
(* every instance.                                                         *)

(* One coordinator call at a time                                          *)
Serial == Cardinality(DOMAIN pc) = 1

(* The commit index in ZooKeeper is always one that a quorum confirmed,    *)
(* even when a stale copy of the metadata overwrites a newer one.          *)
CommitIndexAcked ==
    \A s \in DOMAIN znode : znode[s].data.commitIndex \in acked[s] \cup {0}

(* The replicas of a shard are different nodes and the primary is one of   *)
(* them, in whatever order elections and rebalances overwrite each other.  *)
PrimaryIsReplica ==
    \A s \in DOMAIN znode :
        /\ IsInjective(znode[s].data.replicas)
        /\ znode[s].data.primary \in Members(znode[s].data.replicas)

(* commitIndex is the largest log index confirmed by a quorum, whenever    *)
(* no call is under way: true only while no updateCommitIndex fails.       *)
CommitIndexIsMax ==
    (\A w \in DOMAIN pc : pc[w] = "idle") =>
        \A s \in DOMAIN znode : \A i \in acked[s] : i <= znode[s].data.commitIndex

(* commitIndex covers every write that was reported as successful.         *)
CommitIndexCovers ==
    \A s \in DOMAIN znode : reported[s] <= znode[s].data.commitIndex

(* However many calls race, and whichever of their requests to ZooKeeper   *)
(* fail, a shard's metadata names distinct replicas, a primary among them  *)
(* and a commit index that a quorum confirmed; with one call at a time     *)
(* commitIndex covers every write the client was told of, through later    *)
(* elections and rebalances (electPrimary, rebalance, updateCommitIndex).  *)
MetadataSound == CommitIndexAcked /\ PrimaryIsReplica /\ (Serial => CommitIndexCovers)

(* nextShardLogIndex never hands out an index twice: each one is above     *)
(* those handed out before, whoever races and whatever answer is lost.     *)
IndexIssuedOnce ==
    [][\A w \in DOMAIN pc :
          pc[w] = "cas" /\ pc'[w] = "send" => local[w].index > issued[local[w].shard]]_vars

(* With one call at a time a primary is replaced only together with a      *)
(* larger term (electPrimary, rebalance): the term fences the requests of  *)
(* the old one.                                                            *)
TermFencesPrimary ==
    [][Serial => \A s \in DOMAIN znode :
          znode'[s].data.primary # znode[s].data.primary =>
              znode'[s].data.term > znode[s].data.term]_vars
=============================================================================
