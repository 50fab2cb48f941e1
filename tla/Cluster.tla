------------------------------ MODULE Cluster -------------------------------
(***************************************************************************)
(* A shard and its replicas: writes that the coordinator sends to every    *)
(* serving replica (CoordinatorServer.routedWrite, sendRaftStyle,          *)
(* broadcastWrite), and nodes that crash, restart and fetch what they      *)
(* missed from their peers (DataNodeServer.recoverFromPeers,               *)
(* installPeerSnapshotIfNewer).                                            *)
(*                                                                         *)
(* What a node does for one request, one recovered entry or one restart is *)
(* one step; module DataNode opens it up.  The shard's metadata is atomic; *)
(* module ZkMetadata opens it up.  Sequences are local to a node: the same *)
(* request may have different sequences on different nodes.                *)
(***************************************************************************)
EXTENDS Integers, Sequences, FiniteSets

CONSTANTS
    Nodes,              \* the replicas: numbers, in the order of their names
    RequestIds,         \* one identifier per write
    Writers,            \* writes that the coordinator works on at once
    SnapshotThreshold,  \* 20 in the code
    FaultSets           \* which kinds of faults may happen together

(* "overlap": a node recovers while writes are under way.  "twodown": more *)
(* than one node may be away.  "again": a node crashes while it recovers.  *)
(* "lost": a request or its answer is lost (the 20 seconds of HttpUtil)    *)
(* though the node runs.  "quick": a node is started again before the      *)
(* session of its last process has ended (the 15 seconds of ClusterConfig).*)
FaultKinds == {"overlap", "twodown", "again", "lost", "quick"}

ASSUME ClusterAssumption ==
    /\ Nodes \subseteq Nat /\ IsFiniteSet(Nodes) /\ Nodes # {}
    /\ SnapshotThreshold \in Nat \ {0}
    /\ FaultSets \subseteq SUBSET FaultKinds

VARIABLES
    node,        \* per node: its process state, log and snapshot
    registered,  \* ZooKeeper: the state a node registered, or "GONE"
    stale,       \* ZooKeeper: nodes whose znode is of an earlier process
    shard,       \* ZooKeeper: primary and term of the shard
    write,       \* per writer: the write under way
    recovery,    \* per node: what is left of recoverFromPeers
    used,        \* identifiers already given to a write
    committed,   \* shard writes the coordinator reported as successful
    created,     \* broadcast statements it reported as successful
    installed,   \* nodes that ever put a peer's snapshot in place of their own
    faults       \* the faults of this behaviour

vars == <<node, registered, stale, shard, write, recovery, used, committed, created,
          installed, faults>>

States == {"DOWN", "RECOVERING", "SERVING"}

NoWrite == [pc |-> "idle", kind |-> "none", id |-> 0, term |-> 0, primary |-> 0,
            todo |-> {}, quorum |-> 0, oks |-> 0]

(* todo: peers that are not asked yet; entries: what is left of the log    *)
(* that a peer answered with, each with whether it is to be filtered out   *)
NoRecovery == [kind |-> "none", todo |-> {}, entries |-> <<>>]

EmptyNode == [state |-> "DOWN", wal |-> <<>>, last |-> 0, ids |-> {},
              snap |-> <<>>, compacted |-> 0]

Elements(s) == {s[i] : i \in DOMAIN s}

Sql(entries) == [i \in DOMAIN entries |-> entries[i].requestId]

InWal(nd, id) == \E i \in DOMAIN nd.wal : nd.wal[i].requestId = id

(* containsRequestId                                                       *)
KnownIds(nd) == nd.ids \cup Elements(Sql(nd.wal))

(* Entries of the log, which is ordered by sequence, that the snapshot     *)
(* covers                                                                  *)
Covered(nd) == Cardinality({i \in DOMAIN nd.wal : nd.wal[i].sequence <= nd.compacted})

(* replaySqlBefore(Long.MAX_VALUE): what the node's database is built from *)
Content(nd) == nd.snap \o SubSeq(Sql(nd.wal), Covered(nd) + 1, Len(nd.wal))

Executed(nd) == Elements(Content(nd))

quorumSize(n) == n \div 2 + 1

MaxOf(a, b) == IF a > b THEN a ELSE b

(* Nodes are asked in the order of their names.                            *)
First(S) == CHOOSE n \in S : \A m \in S : n <= m

Entries == [sequence : Nat \ {0}, requestId : RequestIds]

NodeStates == [state : States, wal : Seq(Entries), last : Nat, ids : SUBSET RequestIds,
               snap : Seq(RequestIds), compacted : Nat]

PeerEntries == [sequence : Nat \ {0}, requestId : RequestIds, known : BOOLEAN]

Writes == [pc : {"idle", "sending"}, kind : {"none", "shard", "broadcast"},
           id : RequestIds \cup {0}, term : Nat, primary : Nat, todo : SUBSET Nodes,
           quorum : Nat, oks : Nat]

Recoveries == [kind : {"none", "start", "refresh"}, todo : SUBSET Nodes,
               entries : Seq(PeerEntries)]

TypeOK ==
    /\ node \in [Nodes -> NodeStates]
    /\ registered \in [Nodes -> {"GONE", "RECOVERING", "SERVING"}]
    /\ shard \in [primary : Nodes, term : Nat \ {0}]
    /\ write \in [Writers -> Writes]
    /\ recovery \in [Nodes -> Recoveries]
    /\ used \subseteq RequestIds /\ committed \subseteq used /\ created \subseteq used
    /\ stale \subseteq Nodes /\ installed \subseteq Nodes /\ faults \subseteq FaultKinds

Init ==
    /\ node = [n \in Nodes |-> [EmptyNode EXCEPT !.state = "SERVING"]]
    /\ registered = [n \in Nodes |-> "SERVING"]
    /\ shard = [primary |-> First(Nodes), term |-> 1]
    /\ write = [w \in Writers |-> NoWrite]
    /\ recovery = [n \in Nodes |-> NoRecovery]
    /\ used = {} /\ committed = {} /\ created = {} /\ installed = {} /\ stale = {}
    /\ faults \in FaultSets

Writing    == \E w \in Writers : write[w].pc # "idle"
Recovering == \E n \in Nodes : node[n].state = "RECOVERING"

-----------------------------------------------------------------------------
(* A node's log and snapshot.                                              *)

(* WalLog.append and appendRecovered                                       *)
Logged(nd, id, peerSequence) ==
    IF InWal(nd, id) THEN nd
    ELSE LET s == MaxOf(nd.last + 1, peerSequence)
         IN  [nd EXCEPT !.wal = Append(@, [sequence |-> s, requestId |-> id]),
                        !.last = s,
                        !.ids = @ \cup {id}]

(* maybeSnapshot: snapshot.sql grows by the whole log file, which is then  *)
(* emptied by compactThrough.                                              *)
maybeSnapshot(nd) ==
    IF nd.last - nd.compacted < SnapshotThreshold THEN nd
    ELSE [nd EXCEPT !.snap = @ \o Sql(nd.wal), !.compacted = nd.last, !.wal = <<>>]

(* A bug: the log does not continue after the snapshot of the peer.        *)
installPeerSnapshotIfNewer_NoAdvance(nd, peer) ==
    IF peer.compacted <= nd.compacted THEN nd
    ELSE [nd EXCEPT !.snap = peer.snap, !.compacted = peer.compacted]

(* installPeerSnapshotIfNewer, with advanceLastSequence                    *)
installPeerSnapshotIfNewer(nd, peer) ==
    IF peer.compacted <= nd.compacted THEN nd
    ELSE [nd EXCEPT !.snap = peer.snap, !.compacted = peer.compacted,
                    !.last = MaxOf(@, peer.compacted)]

(* recoverFromPeers: the peer's log, what the node knows marked            *)
Offered(nd, peer) ==
    [i \in DOMAIN peer.wal |-> [sequence  |-> peer.wal[i].sequence,
                                requestId |-> peer.wal[i].requestId,
                                known     |-> peer.wal[i].requestId \in KnownIds(nd)]]

(* execute: a write with replay=false, at a term that is not stale, and a  *)
(* write with replay=true                                                  *)
Execute(nd, id) == maybeSnapshot(Logged(nd, id, 0))

-----------------------------------------------------------------------------
(* The coordinator.                                                        *)

ServingNodes == {n \in Nodes : registered[n] = "SERVING"}

(* chooseBalancedPrimary for a single shard: no other shard counts         *)
electPrimary ==
    IF shard.primary \in ServingNodes THEN shard
    ELSE [primary |-> First(ServingNodes), term |-> shard.term + 1]

(* UUID.randomUUID(): any identifier that was not used does.               *)
NewId == CHOOSE id \in RequestIds : id \notin used

MayWrite(w) ==
    /\ write[w].pc = "idle"
    /\ RequestIds \ used # {}
    /\ "overlap" \in faults \/ ~Recovering

(* A bug: a write asks for half of the replicas.                           *)
BeginWrite_Half(w) ==
    LET meta == electPrimary
    IN  /\ MayWrite(w)
        /\ ServingNodes # {}
        /\ shard' = meta
        /\ write' = [write EXCEPT ![w] =
              [pc |-> "sending", kind |-> "shard", id |-> NewId, term |-> meta.term,
               primary |-> meta.primary, todo |-> ServingNodes,
               quorum |-> Cardinality(Nodes) \div 2, oks |-> 0]]
        /\ used' = used \cup {NewId}
        /\ UNCHANGED <<node, registered, stale, recovery, committed, created, installed>>

(* routedWrite: elect, choose the serving replicas, take an identifier;    *)
(* the primary is asked first.                                             *)
BeginWrite(w) ==
    LET meta == electPrimary
    IN  /\ MayWrite(w)
        /\ ServingNodes # {}
        /\ shard' = meta
        /\ write' = [write EXCEPT ![w] =
              [pc |-> "sending", kind |-> "shard", id |-> NewId, term |-> meta.term,
               primary |-> meta.primary, todo |-> ServingNodes,
               quorum |-> quorumSize(Cardinality(Nodes)), oks |-> 0]]
        /\ used' = used \cup {NewId}
        /\ UNCHANGED <<node, registered, stale, recovery, committed, created, installed>>

(* broadcastWrite: every live node, replay=false, a quorum of the live     *)
BeginBroadcast(w) ==
    LET live == {n \in Nodes : registered[n] # "GONE"}
    IN  /\ MayWrite(w)
        /\ live # {}
        /\ write' = [write EXCEPT ![w] =
              [pc |-> "sending", kind |-> "broadcast", id |-> NewId, term |-> 0,
               primary |-> 0, todo |-> live,
               quorum |-> quorumSize(Cardinality(live)), oks |-> 0]]
        /\ used' = used \cup {NewId}
        /\ UNCHANGED <<node, registered, stale, shard, recovery, committed, created, installed>>

(* The HTTP server of a node runs once start() is through.                 *)
HttpUp(n) == node[n].state = "SERVING" \/ recovery[n].kind = "refresh"

(* sendRaftStyle: the primary comes first.                                 *)
NextReplica(w) ==
    IF write[w].primary \in write[w].todo THEN write[w].primary ELSE First(write[w].todo)

(* The primary refuses a term that is older than ZooKeeper's.              *)
Stale(w, n) == write[w].kind = "shard" /\ n = write[w].primary /\ write[w].term < shard.term

(* upsertEphemeral: the znode of the node is created, or gets new data and *)
(* stays with the session that created it.                                 *)
Registers(n, state) == registered' = [registered EXCEPT ![n] = state]

(* The next node executes the request and calls updateNode, or knows it    *)
(* already as a replay; its answer may be lost.                            *)
Deliver(w) ==
    /\ write[w].pc = "sending" /\ write[w].todo # {}
    /\ LET n      == NextReplica(w)
           id     == write[w].id
           replay == write[w].kind = "shard" /\ n # write[w].primary
       IN  /\ HttpUp(n)
           /\ ~Stale(w, n)
           /\ \/ /\ replay /\ id \in KnownIds(node[n])
                 /\ UNCHANGED <<node, registered>>
              \/ /\ ~(replay /\ id \in KnownIds(node[n]))
                 /\ node' = [node EXCEPT ![n] = Execute(@, id)]
                 /\ Registers(n, node[n].state)
           /\ \E ok \in IF "lost" \in faults THEN {0, 1} ELSE {1} :
                 write' = [write EXCEPT ![w].todo = @ \ {n}, ![w].oks = @ + ok]
    /\ UNCHANGED <<stale, shard, recovery, used, committed, created, installed>>

(* A bug: the coordinator waits for a node that is not there.              *)
DeliveryFails_Waits(w) ==
    /\ write[w].pc = "sending" /\ write[w].todo # {}
    /\ "lost" \in faults
    /\ write' = [write EXCEPT ![w].todo = @ \ {NextReplica(w)}]
    /\ UNCHANGED <<node, registered, stale, shard, recovery, used, committed, created, installed>>

(* The next node is not there, refuses the term, or never sees the request.*)
DeliveryFails(w) ==
    /\ write[w].pc = "sending" /\ write[w].todo # {}
    /\ \/ ~HttpUp(NextReplica(w))
       \/ Stale(w, NextReplica(w))
       \/ "lost" \in faults
    /\ write' = [write EXCEPT ![w].todo = @ \ {NextReplica(w)}]
    /\ UNCHANGED <<node, registered, stale, shard, recovery, used, committed, created, installed>>

(* All answers are in: with a quorum the write is reported as successful.  *)
EndWrite(w) ==
    /\ write[w].pc = "sending" /\ write[w].todo = {}
    /\ LET won == write[w].oks >= write[w].quorum IN
          /\ committed' = IF won /\ write[w].kind = "shard"
                          THEN committed \cup {write[w].id} ELSE committed
          /\ created' = IF won /\ write[w].kind = "broadcast"
                        THEN created \cup {write[w].id} ELSE created
    /\ write' = [write EXCEPT ![w] = NoWrite]
    /\ UNCHANGED <<node, registered, stale, shard, recovery, used, installed>>

-----------------------------------------------------------------------------
(* Crash, restart and recovery of a node.                                  *)

(* The process is gone, also in the middle of a write; files stay.         *)
(* ZooKeeper notices later.                                                *)
Crash(n) ==
    /\ \/ node[n].state = "SERVING"
       \/ "again" \in faults /\ node[n].state = "RECOVERING"
    /\ "twodown" \in faults \/ \A m \in Nodes \ {n} : node[m].state = "SERVING"
    /\ node' = [node EXCEPT ![n].state = "DOWN"]
    /\ recovery' = [recovery EXCEPT ![n] = NoRecovery]
    /\ UNCHANGED <<registered, stale, shard, write, used, committed, created, installed>>

(* The session of a process that is gone ends, and with it the znode that  *)
(* process created, also when a new process has written its state to it.   *)
SessionExpires(n) ==
    /\ node[n].state = "DOWN" \/ n \in stale
    /\ registered[n] # "GONE"
    /\ registered' = [registered EXCEPT ![n] = "GONE"]
    /\ stale' = stale \ {n}
    /\ UNCHANGED <<node, shard, write, recovery, used, committed, created, installed>>

(* start() and /admin/refresh-shards register RECOVERING and list the live *)
(* nodes.                                                                  *)
BeginRecovery(n, kind) ==
    /\ "overlap" \in faults \/ ~Writing
    /\ node' = [node EXCEPT ![n].state = "RECOVERING"]
    /\ Registers(n, "RECOVERING")
    /\ recovery' = [recovery EXCEPT ![n] =
          [NoRecovery EXCEPT !.kind = kind,
                             !.todo = {m \in Nodes \ {n} : registered[m] # "GONE"}]]
    /\ UNCHANGED <<shard, write, used, committed, created, installed>>

(* A new process; a znode that is still there stays with the old session.  *)
Start(n) ==
    /\ node[n].state = "DOWN"
    /\ "quick" \in faults \/ registered[n] = "GONE"
    /\ BeginRecovery(n, "start")
    /\ stale' = IF registered[n] = "GONE" THEN stale ELSE stale \cup {n}

Refresh(n) ==
    /\ node[n].state = "SERVING"
    /\ "twodown" \in faults \/ \A m \in Nodes : node[m].state = "SERVING"
    /\ BeginRecovery(n, "refresh")
    /\ UNCHANGED stale

(* recoverFromPeers: the next peer answers /recovery-state; its snapshot   *)
(* is installed when it is newer.                                          *)
FetchPeer(n) ==
    /\ recovery[n].todo # {} /\ recovery[n].entries = <<>>
    /\ LET m == First(recovery[n].todo) IN
          /\ HttpUp(m)
          /\ node' = [node EXCEPT ![n] = installPeerSnapshotIfNewer(@, node[m])]
          /\ installed' = IF node[m].compacted > node[n].compacted
                          THEN installed \cup {n} ELSE installed
          /\ recovery' = [recovery EXCEPT ![n].todo = @ \ {m},
                                          ![n].entries = Offered(node[n], node[m])]
    /\ UNCHANGED <<registered, stale, shard, write, used, committed, created>>

(* A bug: only the snapshot of the peer is used.                           *)
TakeEntry_None(n) ==
    /\ recovery[n].entries # <<>>
    /\ recovery' = [recovery EXCEPT ![n].entries = <<>>]
    /\ UNCHANGED <<node, registered, stale, shard, write, used, committed, created, installed>>

(* appendRecovered: the peer's next entry, unless the node knew it when    *)
(* the answer came                                                         *)
TakeEntry(n) ==
    /\ recovery[n].entries # <<>>
    /\ LET e == Head(recovery[n].entries) IN
          node' = IF e.known THEN node
                  ELSE [node EXCEPT ![n] = Logged(@, e.requestId, e.sequence)]
    /\ recovery' = [recovery EXCEPT ![n].entries = Tail(@)]
    /\ UNCHANGED <<registered, stale, shard, write, used, committed, created, installed>>

(* A peer that cannot be reached is skipped.                               *)
SkipPeer(n) ==
    /\ recovery[n].todo # {} /\ recovery[n].entries = <<>>
    /\ ~HttpUp(First(recovery[n].todo))
    /\ recovery' = [recovery EXCEPT ![n].todo = @ \ {First(@)}]
    /\ UNCHANGED <<node, registered, stale, shard, write, used, committed, created, installed>>

(* All peers asked: start() may snapshot; the node serves.                 *)
Serve(n) ==
    /\ recovery[n].kind # "none" /\ recovery[n].todo = {} /\ recovery[n].entries = <<>>
    /\ LET nd == IF recovery[n].kind = "start" THEN maybeSnapshot(node[n]) ELSE node[n]
       IN  node' = [node EXCEPT ![n] = [nd EXCEPT !.state = "SERVING"]]
    /\ Registers(n, "SERVING")
    /\ recovery' = [recovery EXCEPT ![n] = NoRecovery]
    /\ UNCHANGED <<stale, shard, write, used, committed, created, installed>>

-----------------------------------------------------------------------------
WriterStep(w) == Deliver(w) \/ DeliveryFails(w) \/ EndWrite(w)

NodeStep(n) == Start(n) \/ FetchPeer(n) \/ TakeEntry(n) \/ SkipPeer(n) \/ Serve(n)

Step ==
    \/ \E w \in Writers : BeginWrite(w) \/ BeginBroadcast(w) \/ WriterStep(w)
    \/ \E n \in Nodes : Crash(n) \/ SessionExpires(n) \/ Refresh(n) \/ NodeStep(n)

Next == Step /\ UNCHANGED faults

Spec == Init /\ [][Next]_vars

-----------------------------------------------------------------------------
(* Properties.                                                             *)

(* A successful shard write is in the files of a majority of the replicas, *)
(* up or down, from the moment it is reported.                             *)
CommittedOnQuorum ==
    \A id \in committed :
        Cardinality({n \in Nodes : id \in Executed(node[n])})
            >= quorumSize(Cardinality(Nodes))

(* A node that serves has every write that was reported as successful: its *)
(* reads may be chosen by chooseForRead.                                   *)
ServingHasCommitted ==
    \A n \in Nodes : node[n].state = "SERVING" =>
        committed \cup created \subseteq Executed(node[n])

(* No node executes a request twice when it rebuilds its database.         *)
ExecutedOnce ==
    \A n \in Nodes : \A i, j \in DOMAIN Content(node[n]) :
        Content(node[n])[i] = Content(node[n])[j] => i = j

NoSnapshots == \A n \in Nodes : node[n].compacted = 0

(* a is executed, and b not yet when it is for the first time              *)
Before(c, a, b) == \E i \in DOMAIN c : c[i] = a /\ \A j \in 1 .. i : c[j] # b

(* Replicas that serve agree on the order in which the requests they share *)
(* are executed first: the database of a node is what Content gives,       *)
(* statement after statement.                                              *)
SameOrder ==
    \A m, n \in {k \in Nodes : node[k].state = "SERVING"} :
        \A a, b \in Executed(node[m]) \cap Executed(node[n]) :
            Before(Content(node[m]), a, b) => Before(Content(node[n]), a, b)

(* Whatever goes down or gets lost, a successful shard write stays in the  *)
(* files of a majority of the replicas until installPeerSnapshotIfNewer    *)
(* replaces a node's own snapshot; until the first snapshot no node        *)
(* executes a request twice.                                               *)
CommittedSurvives ==
    /\ installed = {} => CommittedOnQuorum
    /\ NoSnapshots => ExecutedOnce

(* While one node at a time is away, also in the middle of a write, no     *)
(* write overlaps a recovery, and no node is started again before its last *)
(* session has ended, a node that serves has every write that was reported *)
(* as successful: with any number of writers until the first snapshot,     *)
(* with one writer always.  Started within the 15 seconds of a session a   *)
(* node serves with the znode of its last process, loses it when that      *)
(* session ends, and is left out of the writes that follow (upsertEphemeral*)
(* never takes the znode over).                                            *)
Serial == \A v, w \in DOMAIN write : v = w

ServingComplete == faults = {} /\ (Serial \/ NoSnapshots) => ServingHasCommitted

(* With one writer too, a successful write stays on a majority, and        *)
(* replicas that serve agree on the order.                                 *)
SerialLog == faults = {} /\ Serial => CommittedOnQuorum /\ SameOrder
=============================================================================
