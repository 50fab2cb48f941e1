------------------------------ MODULE DataNode ------------------------------
(***************************************************************************)
(* One DataNode (datanode/DataNodeServer.java) with its write-ahead log,   *)
(* its snapshot files (SnapshotManager.java) and its MiniSQL process       *)
(* (minisql/MiniSqlEngine.java).                                           *)
(*                                                                         *)
(* Three threads run inside a node.  "exec" is whoever holds the server's  *)
(* monitor: a /execute request, a CLI command, or start() before the HTTP  *)
(* server exists.  "snapshot" and "refresh" are the handlers of            *)
(* /admin/snapshot and /admin/refresh-shards, which do not take the        *)
(* monitor.  pc[t] names the next step of thread t; a step ends where the  *)
(* files or the engine have changed, or where what was read may be stale   *)
(* before it is used.  One WalLog operation is one step here: module       *)
(* WalLog opens it up.  The node owns the shards of its requests; module   *)
(* Cluster has the terms and the peers.                                    *)
(*                                                                         *)
(* A statement is identified with its request; a database is the sequence  *)
(* of the statements that were executed since it was created, with the     *)
(* database of the MiniSQL process that each of them was executed in.      *)
(***************************************************************************)
EXTENDS Naturals, Sequences, FiniteSets, FiniteSetsExt, SequencesExt

CONSTANTS
    RequestIds,         \* requests of the coordinator
    SnapshotThreshold,  \* 20 in the code
    MaxSequence,        \* bound on lastSequence
    CliSql,             \* a statement typed at the node's own CLI
    DatabaseSql,        \* requests that are CREATE DATABASE <defaultDatabase>
    FaultSets           \* the combinations of FaultKinds to look at

(* "overlap": handlers run at the same time.  "kill": the process dies in  *)
(* the middle of a handler.  "late": a write reaches the node that already *)
(* has it from a peer.  "cli": statements are typed at the CLI.  "engine": *)
(* the MiniSQL process exits, or is destroyed after its 30 seconds.        *)
(* "peer": a peer has compacted more of its log than this node.            *)
FaultKinds == {"overlap", "kill", "late", "cli", "engine", "peer"}

ASSUME DataNodeAssumption ==
    /\ SnapshotThreshold \in Nat \ {0}
    /\ MaxSequence \in Nat
    /\ FaultSets \subseteq SUBSET FaultKinds
    /\ CliSql \notin RequestIds
    /\ DatabaseSql \subseteq RequestIds

VARIABLES
    wal,               \* entries of wal.jsonl, in the order of their sequences
    lastSequence,      \* WalLog.lastSequence (persisted in wal-index.json)
    requestIds,        \* WalLog.requestIds (persisted in wal-index.json)
    snapshotSql,       \* snapshots/current/snapshot.sql
    manifestFile,      \* lastCompactedWalSequence in snapshot.json
    snapshotManifest,  \* lastCompactedWalSequence of the field
    engine,            \* the MiniSqlEngine object and its process
    replicaState,      \* field replicaState, "DOWN" while there is no process
    pc,                \* per thread: its next step
    local,             \* per thread: its local variables
    acked,             \* requests answered with ok
    faults             \* what the environment does in this behaviour

vars == <<wal, lastSequence, requestIds, snapshotSql, manifestFile,
          snapshotManifest, engine, replicaState, pc, local, acked, faults>>

logVars  == <<wal, lastSequence, requestIds>>
snapVars == <<snapshotSql, manifestFile, snapshotManifest>>

Threads == {"exec", "snapshot", "refresh"}

Statements == RequestIds \cup {CliSql}

Databases == {"none", "default", "other"}

WalEntry == [sequence : Nat, requestId : RequestIds]

(* No process, and no database: resetAndReplay sets all of it anew.        *)
NoEngine == [ready |-> FALSE, db |-> <<>>, where |-> <<>>, selected |-> "none",
             walSequence |-> 0, compactedWal |-> 0]

NoLocal == [op |-> "none", sql |-> CliSql, written |-> 0, list |-> <<>>,
            compacted |-> 0, retried |-> FALSE, installing |-> FALSE]

(* How many entries have a sequence below s; readAll sorts, so they are    *)
(* the first ones.                                                         *)
CountBelow(entries, s) == Cardinality({i \in DOMAIN entries : entries[i].sequence < s})

(* The statements of the log entries with from < sequence < to.            *)
SqlBetween(entries, from, to) ==
    LET first == CountBelow(entries, from + 1)
        last  == IF from < to THEN CountBelow(entries, to) ELSE first
    IN  [i \in 1 .. last - first |-> entries[first + i].requestId]

(* Where a statement is executed when the process has `selected` selected. *)
(* CREATE DATABASE needs no database and selects none; all other           *)
(* statements fail without one, or end the process.                        *)
Place(sql, selected) == IF sql \in DatabaseSql THEN "none" ELSE selected

(* expandStatements: "use <defaultDatabase>;" goes before every statement  *)
(* that needs a database, and succeeds once that one was created.          *)
Replayed(list) ==
    [i \in DOMAIN list |->
        Place(list[i], IF \E j \in 1 .. i - 1 : list[j] \in DatabaseSql
                       THEN "default" ELSE "none")]

SelectedAfter(list) ==
    IF \E i \in DOMAIN list : Replayed(list)[i] = "default" THEN "default" ELSE "none"

Find(id) == {i \in DOMAIN wal : wal[i].requestId = id}

(* A bug: a compacted entry is forgotten.                                  *)
containsRequestId_FileOnly(id) == Find(id) # {}

containsRequestId(id) == id \in requestIds \/ Find(id) # {}

(* Long.MAX_VALUE where the code uses it as an exclusive bound             *)
NoBound == MaxSequence + 1

Labels == {"idle", "sync", "replay", "run", "mark", "marked", "threshold", "reply",
           "readwal", "readlast", "writesql", "manifest", "compact", "invalidate",
           "recover", "advance", "fullsync", "setseq"}

Locals == [op : {"none", "write", "read", "cli", "start", "refresh"}, sql : Statements,
           written : 0 .. MaxSequence, list : Seq(RequestIds),
           compacted : 0 .. MaxSequence, retried : BOOLEAN, installing : BOOLEAN]

TypeOK ==
    /\ wal \in Seq(WalEntry)
    /\ lastSequence \in 0 .. MaxSequence
    /\ requestIds \subseteq RequestIds
    /\ snapshotSql \in Seq(RequestIds)
    /\ manifestFile \in 0 .. MaxSequence
    /\ snapshotManifest \in 0 .. MaxSequence
    /\ engine \in [ready : BOOLEAN, db : Seq(Statements), where : Seq(Databases),
                   selected : Databases, walSequence : 0 .. MaxSequence,
                   compactedWal : 0 .. MaxSequence]
    /\ replicaState \in {"DOWN", "RECOVERING", "SERVING"}
    /\ pc \in [Threads -> Labels]
    /\ local \in [Threads -> Locals]
    /\ acked \subseteq RequestIds
    /\ faults \in FaultSets

Init ==
    /\ wal = <<>> /\ lastSequence = 0 /\ requestIds = {}
    /\ snapshotSql = <<>> /\ manifestFile = 0 /\ snapshotManifest = 0
    /\ engine = NoEngine
    /\ replicaState = "DOWN"
    /\ pc = [t \in Threads |-> "idle"]
    /\ local = [t \in Threads |-> NoLocal]
    /\ acked = {}
    /\ faults \in FaultSets

Goto(t, label) == pc' = [pc EXCEPT ![t] = label]

Finish(t) ==
    /\ Goto(t, "idle")
    /\ local' = [local EXCEPT ![t] = NoLocal]

(* The HTTP server is created at the end of start().                       *)
HttpUp == replicaState # "DOWN" /\ local["exec"].op # "start"

MayBegin(t) ==
    /\ pc[t] = "idle"
    /\ HttpUp
    /\ "overlap" \in faults \/ \A u \in Threads : pc[u] = "idle"

-----------------------------------------------------------------------------
(* execute and executeLocalSql, under the server's monitor.                *)

(* WalLog.append and appendRecovered (of a request, whose sequence is 0):  *)
(* an entry that wal.jsonl holds is returned, otherwise one is appended.   *)
LogRequest(id, t, op, next) ==
    LET new == [sequence |-> lastSequence + 1, requestId |-> id] IN
    \/ /\ Find(id) # {}
       /\ \E i \in Find(id) :
             local' = [local EXCEPT ![t] = [NoLocal EXCEPT !.op = op, !.sql = id,
                                               !.written = wal[i].sequence]]
       /\ Goto(t, next)
       /\ UNCHANGED logVars
    \/ /\ Find(id) = {}
       /\ lastSequence < MaxSequence
       /\ wal' = Append(wal, new)
       /\ lastSequence' = lastSequence + 1
       /\ requestIds' = requestIds \cup {id}
       /\ local' = [local EXCEPT ![t] = [NoLocal EXCEPT !.op = op, !.sql = id,
                                            !.written = new.sequence]]
       /\ Goto(t, next)

(* A write with replay=false that the node owns at the current term.       *)
Write(id) ==
    /\ MayBegin("exec")
    /\ "late" \in faults \/ ~containsRequestId(id)
    /\ LogRequest(id, "exec", "write", "sync")
    /\ UNCHANGED <<snapVars, engine, replicaState, acked>>

(* replay=true, not yet known: logged and executed like a write.           *)
Replay(id) ==
    /\ MayBegin("exec")
    /\ ~containsRequestId(id)
    /\ LogRequest(id, "exec", "write", "sync")
    /\ UNCHANGED <<snapVars, engine, replicaState, acked>>

(* replay=true of a known request: "duplicate replay ignored", answered ok.*)
ReplayDuplicate(id) ==
    /\ MayBegin("exec")
    /\ containsRequestId(id)
    /\ acked' = acked \cup {id}
    /\ UNCHANGED <<logVars, snapVars, engine, replicaState, pc, local>>

(* A read-only request writes nothing to the log; the last sequence is     *)
(* noted before the engine catches up with the log.                        *)
Read ==
    /\ MayBegin("exec")
    /\ local' = [local EXCEPT !["exec"] = [NoLocal EXCEPT !.op = "read",
                                                         !.written = lastSequence]]
    /\ Goto("exec", "sync")
    /\ UNCHANGED <<logVars, snapVars, engine, replicaState, acked>>

(* executeLocalSql runs any statement on the engine and logs nothing.      *)
(* Bound: one such statement at a time in the database.                    *)
Cli ==
    /\ MayBegin("exec")
    /\ "cli" \in faults
    /\ CliSql \notin {engine.db[i] : i \in DOMAIN engine.db}
    /\ local' = [local EXCEPT !["exec"] = [NoLocal EXCEPT !.op = "cli",
                                                         !.written = lastSequence]]
    /\ Goto("exec", "sync")
    /\ UNCHANGED <<logVars, snapVars, engine, replicaState, acked>>

(* sequenceExclusive of runOnEngine                                        *)
Exclusive(t) == IF local[t].op = "write" THEN local[t].written ELSE NoBound

(* A bug: the statement just executed is not counted.                      *)
AppliedSequence_Before(t) ==
    IF local[t].op = "write" THEN local[t].written - 1 ELSE local[t].written

(* appliedWalSequence of runOnEngine                                       *)
AppliedSequence(t) == local[t].written

(* runOnEngine: the engine is rebuilt when it is not running or was built  *)
(* from another snapshot, and after a failed attempt.                      *)
NeedsFullSync(t) ==
    \/ ~engine.ready
    \/ engine.compactedWal # snapshotManifest
    \/ local[t].retried

(* fullSyncEngine/syncEngineFull, first half: the compaction point and     *)
(* snapshot.sql are read.                                                  *)
ReadSnapshotSql(t, next) ==
    /\ local' = [local EXCEPT ![t].list = snapshotSql,
                              ![t].compacted = snapshotManifest]
    /\ Goto(t, next)
    /\ UNCHANGED <<logVars, snapVars, engine, replicaState, acked>>

FullSyncBegin ==
    /\ pc["exec"] = "sync"
    /\ NeedsFullSync("exec")
    /\ ReadSnapshotSql("exec", "replay")

(* replaySqlBefore                                                         *)
ReplaySql(t) == local[t].list \o SqlBetween(wal, snapshotManifest, Exclusive(t))

(* Second half: the log is read and the statements are replayed in a fresh *)
(* process (MiniSqlEngine.resetAndReplay).                                 *)
ResetAndReplay(t) ==
    /\ pc[t] = "replay"
    /\ LET to == Exclusive(t)
           through == {e.sequence : e \in {wal[i] : i \in DOMAIN wal}}
                        \cap (local[t].compacted + 1 .. to - 1)
       IN  engine' = [ready |-> TRUE,
                      db |-> ReplaySql(t),
                      where |-> Replayed(ReplaySql(t)),
                      selected |-> SelectedAfter(ReplaySql(t)),
                      walSequence |-> Max(through \cup {local[t].compacted}),
                      compactedWal |-> local[t].compacted]
    /\ Goto(t, IF t = "exec" /\ local[t].op # "start" THEN "run" ELSE "setseq")
    /\ local' = [local EXCEPT ![t].list = <<>>, ![t].compacted = 0]
    /\ UNCHANGED <<logVars, snapVars, replicaState, acked>>

(* The engine exits or times out while the statements are replayed, or it  *)
(* meets one that needs a database while there is none, and resetAndReplay *)
(* throws: runOnEngine tries once more, start() ends the process, and the  *)
(* refresh handler leaves its node in state RECOVERING.                    *)
ReplayFails(t) ==
    /\ pc[t] = "replay"
    /\ \/ "engine" \in faults
       \/ \E i \in DOMAIN ReplaySql(t) :
             ReplaySql(t)[i] \notin DatabaseSql /\ Replayed(ReplaySql(t))[i] = "none"
    /\ engine' = NoEngine
    /\ IF t = "exec" /\ local[t].op # "start" /\ ~local[t].retried
       THEN local' = [local EXCEPT ![t].retried = TRUE] /\ Goto(t, "sync")
       ELSE Finish(t)
    /\ replicaState' = IF local[t].op = "start" THEN "DOWN" ELSE replicaState
    /\ UNCHANGED <<logVars, snapVars, acked>>

(* catchUpWalBefore: the entries after engineWalSequence are executed, by  *)
(* executeStatement and so in the database that is selected.               *)
CatchUp ==
    /\ pc["exec"] = "sync"
    /\ ~NeedsFullSync("exec")
    /\ LET todo == {wal[i].sequence : i \in DOMAIN wal}
                     \cap (engine.walSequence + 1 .. Exclusive("exec") - 1)
           new  == SqlBetween(wal, engine.walSequence, Exclusive("exec"))
       IN  engine' = [engine EXCEPT
                        !.db = @ \o new,
                        !.where = @ \o [i \in DOMAIN new |-> Place(new[i], engine.selected)],
                        !.walSequence = Max(todo \cup {engine.walSequence})]
    /\ Goto("exec", "run")
    /\ UNCHANGED <<logVars, snapVars, replicaState, local, acked>>

(* executeStatement on a live engine, in the database that is selected and *)
(* without a "use", then setEngineWalSequence.  A query leaves the         *)
(* database as it is; at the CLI a database can be selected.               *)
RunStatement ==
    LET l == local["exec"] IN
    /\ pc["exec"] = "run"
    /\ engine.ready
    /\ \E selected \in {engine.selected} \cup IF l.op = "cli" THEN {"default", "other"} ELSE {} :
          engine' = [engine EXCEPT
                       !.db = IF l.op = "read" THEN @ ELSE Append(@, l.sql),
                       !.where = IF l.op = "read" THEN @
                                 ELSE Append(@, Place(l.sql, engine.selected)),
                       !.selected = selected,
                       !.walSequence = AppliedSequence("exec")]
    /\ Goto("exec", CASE local["exec"].op = "write" -> "mark"
                      [] local["exec"].op = "read"  -> "threshold"
                      [] local["exec"].op = "cli"   -> "reply")
    /\ UNCHANGED <<logVars, snapVars, replicaState, local, acked>>

(* A bug: the statement is retried for ever.                               *)
StatementFails_NoLimit ==
    /\ pc["exec"] = "run"
    /\ ~engine.ready
    /\ local' = [local EXCEPT !["exec"].retried = TRUE]
    /\ Goto("exec", "sync")
    /\ UNCHANGED <<logVars, snapVars, engine, replicaState, acked>>

(* The engine died: runOnEngine rebuilds it once and runs the statement    *)
(* again; a second failure leaves execute with an exception and an entry   *)
(* in the log.                                                             *)
StatementFails ==
    /\ pc["exec"] = "run"
    /\ ~engine.ready
    /\ \/ /\ ~local["exec"].retried
          /\ local' = [local EXCEPT !["exec"].retried = TRUE]
          /\ Goto("exec", "sync")
       \/ local["exec"].retried /\ Finish("exec")
    /\ UNCHANGED <<logVars, snapVars, engine, replicaState, acked>>

(* markApplied(snapshotManifest, ...) takes the manifest the field holds,  *)
(* saves it and stores it in the field again.                              *)
MarkBegin ==
    /\ pc["exec"] = "mark"
    /\ local' = [local EXCEPT !["exec"].compacted = snapshotManifest]
    /\ Goto("exec", "marked")
    /\ UNCHANGED <<logVars, snapVars, engine, replicaState, acked>>

MarkApplied ==
    /\ pc["exec"] = "marked"
    /\ manifestFile' = local["exec"].compacted
    /\ snapshotManifest' = local["exec"].compacted
    /\ local' = [local EXCEPT !["exec"].compacted = 0]
    /\ Goto("exec", "threshold")
    /\ UNCHANGED <<logVars, snapshotSql, engine, replicaState, acked>>

(* execute answers ok.                                                     *)
Reply ==
    /\ pc["exec"] = "reply"
    /\ acked' = IF local["exec"].op = "write" THEN acked \cup {local["exec"].sql}
                                              ELSE acked
    /\ Finish("exec")
    /\ UNCHANGED <<logVars, snapVars, engine, replicaState>>

-----------------------------------------------------------------------------
(* Snapshots: maybeSnapshot in thread "exec", /admin/snapshot in thread    *)
(* "snapshot".                                                             *)

AfterSnapshot(t) ==
    IF t = "snapshot" THEN "idle"
    ELSE IF local[t].installing THEN "recover"
    ELSE IF local[t].op = "start" THEN "fullsync"
    ELSE "reply"

(* maybeSnapshot returns below the threshold ...                           *)
SkipSnapshot ==
    /\ pc["exec"] = "threshold"
    /\ lastSequence - snapshotManifest < SnapshotThreshold
    /\ Goto("exec", AfterSnapshot("exec"))
    /\ UNCHANGED <<logVars, snapVars, engine, replicaState, local, acked>>

(* ... and otherwise reads snapshot.sql and then the log.                  *)
MaybeSnapshot ==
    /\ pc["exec"] = "threshold"
    /\ lastSequence - snapshotManifest >= SnapshotThreshold
    /\ local' = [local EXCEPT !["exec"].compacted = lastSequence,
                              !["exec"].list = snapshotSql]
    /\ Goto("exec", "readwal")
    /\ UNCHANGED <<logVars, snapVars, engine, replicaState, acked>>

(* /admin/snapshot reads snapshot.sql, ...                                 *)
AdminSnapshot ==
    /\ MayBegin("snapshot")
    /\ local' = [local EXCEPT !["snapshot"].list = snapshotSql]
    /\ Goto("snapshot", "readwal")
    /\ UNCHANGED <<logVars, snapVars, engine, replicaState, acked>>

(* ... then the whole log (maybeSnapshot: up to the sequence it began      *)
(* with), ...                                                              *)
ReadWal(t) ==
    /\ pc[t] = "readwal"
    /\ LET to == IF t = "snapshot" THEN NoBound ELSE local[t].compacted + 1
       IN  local' = [local EXCEPT ![t].list = @ \o SqlBetween(wal, 0, to)]
    /\ Goto(t, IF t = "snapshot" THEN "readlast" ELSE "writesql")
    /\ UNCHANGED <<logVars, snapVars, engine, replicaState, acked>>

(* ... then asks the log for its last sequence.                            *)
AdminReadLast ==
    /\ pc["snapshot"] = "readlast"
    /\ local' = [local EXCEPT !["snapshot"].compacted = lastSequence]
    /\ Goto("snapshot", "writesql")
    /\ UNCHANGED <<logVars, snapVars, engine, replicaState, acked>>

(* createSnapshot writes snapshot.sql ...                                  *)
WriteSnapshotSql(t) ==
    /\ pc[t] = "writesql"
    /\ snapshotSql' = local[t].list
    /\ Goto(t, "manifest")
    /\ UNCHANGED <<logVars, manifestFile, snapshotManifest, engine, replicaState,
                   local, acked>>

(* ... and then the manifest, which the caller stores in its field.        *)
SaveManifest(t) ==
    /\ pc[t] = "manifest"
    /\ manifestFile' = local[t].compacted
    /\ snapshotManifest' = local[t].compacted
    /\ Goto(t, IF local[t].installing THEN "advance" ELSE "compact")
    /\ UNCHANGED <<logVars, snapshotSql, engine, replicaState, local, acked>>

(* compactThrough: maybeSnapshot passes the sequence it began with, the    *)
(* handler asks for the last sequence again.                               *)
Compact(t) ==
    /\ pc[t] = "compact"
    /\ LET through == IF t = "snapshot" THEN lastSequence ELSE local[t].compacted
       IN  wal' = SubSeq(wal, CountBelow(wal, through + 1) + 1, Len(wal))
    /\ Goto(t, "invalidate")
    /\ UNCHANGED <<lastSequence, requestIds, snapVars, engine, replicaState, local, acked>>

(* MiniSqlEngine.invalidate                                                *)
Invalidate(t) ==
    /\ pc[t] = "invalidate"
    /\ engine' = NoEngine
    /\ Goto(t, AfterSnapshot(t))
    /\ local' = IF t = "snapshot" THEN [local EXCEPT ![t] = NoLocal]
                ELSE [local EXCEPT ![t] = [@ EXCEPT !.installing = FALSE,
                                                    !.list = <<>>, !.compacted = 0]]
    /\ UNCHANGED <<logVars, snapVars, replicaState, acked>>

-----------------------------------------------------------------------------
(* start() and /admin/refresh-shards: state RECOVERING, the entries that   *)
(* peers have, markApplied, [maybeSnapshot in start(),] a rebuilt engine,  *)
(* state SERVING.                                                          *)

Start ==
    /\ replicaState = "DOWN"
    /\ replicaState' = "RECOVERING"
    /\ snapshotManifest' = manifestFile
    /\ local' = [local EXCEPT !["exec"] = [NoLocal EXCEPT !.op = "start"]]
    /\ Goto("exec", "recover")
    /\ UNCHANGED <<logVars, snapshotSql, manifestFile, engine, acked>>

RefreshShards ==
    /\ MayBegin("refresh")
    /\ replicaState' = "RECOVERING"
    /\ local' = [local EXCEPT !["refresh"] = [NoLocal EXCEPT !.op = "refresh"]]
    /\ Goto("refresh", "recover")
    /\ UNCHANGED <<logVars, snapVars, engine, acked>>

(* recoverFromPeers: an entry of a peer that passed the filter on          *)
(* containsRequestId is appended, with the larger one of the next sequence *)
(* and its sequence at the peer.                                           *)
RecoverEntry(t, id) ==
    /\ pc[t] = "recover"
    /\ ~containsRequestId(id)
    /\ \E sequence \in lastSequence + 1 .. MaxSequence :
          /\ wal' = Append(wal, [sequence |-> sequence, requestId |-> id])
          /\ lastSequence' = sequence
    /\ requestIds' = requestIds \cup {id}
    /\ UNCHANGED <<snapVars, engine, replicaState, pc, local, acked>>

(* What a peer that compacted through c may have in its snapshot.          *)
PeerSnapshots(c) ==
    {SetToSeq(S) : S \in {T \in SUBSET RequestIds : IsFiniteSet(T) /\ Cardinality(T) <= c}}

(* installPeerSnapshotIfNewer: createSnapshot with the peer's statements   *)
(* and the peer's compaction point, ...                                    *)
InstallPeerSnapshot(t) ==
    /\ "peer" \in faults
    /\ pc[t] = "recover"
    /\ \E c \in snapshotManifest + 1 .. MaxSequence : \E sql \in PeerSnapshots(c) :
          local' = [local EXCEPT ![t].list = sql, ![t].compacted = c,
                                 ![t].installing = TRUE]
    /\ Goto(t, "writesql")
    /\ UNCHANGED <<logVars, snapVars, engine, replicaState, acked>>

(* A bug: the peer's compaction point is not carried over to the log.      *)
AdvanceLastSequence_None(t) ==
    /\ pc[t] = "advance"
    /\ Goto(t, "invalidate")
    /\ UNCHANGED <<logVars, snapVars, engine, replicaState, local, acked>>

(* ... and then the log goes on after that point.                          *)
AdvanceLastSequence(t) ==
    /\ pc[t] = "advance"
    /\ lastSequence' = Max({lastSequence, local[t].compacted})
    /\ Goto(t, "invalidate")
    /\ UNCHANGED <<wal, requestIds, snapVars, engine, replicaState, local, acked>>

(* No further peer or entry; applyPendingWal saves the manifest if there   *)
(* are entries after the compaction point.                                 *)
ApplyPendingWal(t) ==
    /\ pc[t] = "recover"
    /\ manifestFile' = IF SqlBetween(wal, snapshotManifest, NoBound) # <<>>
                       THEN snapshotManifest ELSE manifestFile
    /\ Goto(t, IF t = "exec" THEN "threshold" ELSE "fullsync")
    /\ UNCHANGED <<logVars, snapshotSql, snapshotManifest, engine, replicaState,
                   local, acked>>

SyncEngineFull(t) ==
    /\ pc[t] = "fullsync"
    /\ ReadSnapshotSql(t, "replay")

(* The last step of syncEngineFull: the engine is declared to be at the    *)
(* log's last sequence; then the node serves.                              *)
SetServing(t) ==
    /\ pc[t] = "setseq"
    /\ engine' = [engine EXCEPT !.walSequence = lastSequence]
    /\ replicaState' = "SERVING"
    /\ Finish(t)
    /\ UNCHANGED <<logVars, snapVars, acked>>

-----------------------------------------------------------------------------
(* The environment.                                                        *)

(* A statement that needs a database runs, or was run by the catch-up,     *)
(* while none is selected.                                                 *)
WithoutDatabase ==
    /\ pc["exec"] = "run"
    /\ engine.selected = "none"
    /\ \/ local["exec"].sql \notin DatabaseSql
       \/ \E i \in DOMAIN engine.db : engine.db[i] \notin DatabaseSql

(* The MiniSQL process is gone; the next statement finds out.              *)
EngineDies ==
    /\ "engine" \in faults \/ WithoutDatabase
    /\ engine.ready
    /\ engine' = NoEngine
    /\ UNCHANGED <<logVars, snapVars, replicaState, pc, local, acked>>

(* The DataNode process is killed.  Files stay, all else is gone.          *)
Crash ==
    /\ replicaState # "DOWN"
    /\ "kill" \in faults \/ \A t \in Threads : pc[t] = "idle"
    /\ replicaState' = "DOWN"
    /\ snapshotManifest' = 0
    /\ engine' = NoEngine
    /\ pc' = [t \in Threads |-> "idle"]
    /\ local' = [t \in Threads |-> NoLocal]
    /\ UNCHANGED <<logVars, snapshotSql, manifestFile, acked>>

Request == \/ \E id \in RequestIds : Write(id) \/ Replay(id) \/ ReplayDuplicate(id)
           \/ Read
           \/ Cli

ThreadStep(t) ==
    \/ ResetAndReplay(t)
    \/ ReplayFails(t)
    \/ ReadWal(t)
    \/ WriteSnapshotSql(t)
    \/ SaveManifest(t)
    \/ Compact(t)
    \/ Invalidate(t)
    \/ \E id \in RequestIds : RecoverEntry(t, id)
    \/ InstallPeerSnapshot(t)
    \/ AdvanceLastSequence(t)
    \/ ApplyPendingWal(t)
    \/ SyncEngineFull(t)
    \/ SetServing(t)

ExecStep ==
    \/ FullSyncBegin \/ CatchUp \/ RunStatement \/ StatementFails
    \/ MarkBegin \/ MarkApplied \/ SkipSnapshot \/ MaybeSnapshot \/ Reply

Progress ==
    \/ ExecStep
    \/ AdminReadLast
    \/ \E t \in Threads : ThreadStep(t)

Step ==
    \/ Request
    \/ AdminSnapshot
    \/ RefreshShards
    \/ Start
    \/ Progress
    \/ EngineDies
    \/ Crash

Next == Step /\ UNCHANGED faults

Spec == Init /\ [][Next]_vars

(* Threads that have begun run on, and a node that is down is restarted.   *)
Fairness == WF_vars(Start /\ UNCHANGED faults) /\ WF_vars(Progress /\ UNCHANGED faults)

FairSpec == Spec /\ Fairness

-----------------------------------------------------------------------------
(* Properties.                                                             *)

(* snapshot.sql has been replaced and the manifest has not.                *)
SnapshotHalfWritten == \E t \in Threads : pc[t] = "manifest"

(* The list of statements the node's files stand for: what a full rebuild  *)
(* of the engine would execute (replaySqlBefore(Long.MAX_VALUE)).          *)
Compacted == IF replicaState = "DOWN" THEN manifestFile ELSE snapshotManifest

LogicalLog ==
    IF SnapshotHalfWritten THEN snapshotSql
    ELSE snapshotSql \o SqlBetween(wal, Compacted, NoBound)

Elements(s) == {s[i] : i \in DOMAIN s}

(* No request occurs twice in what a rebuild executes: snapshots and       *)
(* compactions move statements from the log to the snapshot, they never    *)
(* copy them ("requestId ... avoids executing a request twice").           *)
LoggedOnce == Cardinality(Elements(LogicalLog)) = Len(LogicalLog)

(* A request that was answered with ok is in the files for good: no        *)
(* snapshot, compaction, crash or restart takes it out of both the         *)
(* snapshot and the log after the compaction point.                        *)
AckedDurable ==
    acked \subseteq Elements(snapshotSql) \cup Elements(SqlBetween(wal, Compacted, NoBound))

(* One handler at a time, the process dies only between handlers, every    *)
(* write is new to the node and no peer's snapshot is installed.           *)
Alone == faults \cap {"overlap", "kill", "late", "peer"} = {}

(* No handler is half-way, and runOnEngine takes the engine for current.   *)
EngineCurrent ==
    /\ pc["exec"] \in {"idle", "mark", "marked", "threshold", "reply"}
    /\ pc["refresh"] = "idle" /\ pc["snapshot"] = "idle"
    /\ engine.ready /\ engine.compactedWal = snapshotManifest

(* Every statement was executed where a rebuild would execute it: not so   *)
(* when the rebuild inserts a "use" that executeStatement does not.        *)
RunsAsReplayed == engine.where = Replayed(engine.db)

(* An engine that is taken for current was given the snapshot and then the *)
(* log up to engineWalSequence, each entry once and in order, however      *)
(* often the process died in between.  If the default database is selected *)
(* in it, it is also what a rebuild would produce: each statement ran in   *)
(* the database that resetAndReplay would have run it in.                  *)
EngineMatchesLog ==
    EngineCurrent =>
        /\ engine.db = snapshotSql \o SqlBetween(wal, snapshotManifest, engine.walSequence + 1)
        /\ engine.selected = "default" => RunsAsReplayed

EngineMatchesLogAlone == TypeOK /\ (Alone /\ "cli" \notin faults => EngineMatchesLog)

(* With one handler at a time the files of the node always stand for one   *)
(* growing list of requests, and a request is answered once it is in it.   *)
Replica == INSTANCE ReplicaLog WITH
    log <- IF Alone THEN LogicalLog ELSE <<>>,
    acked <- IF Alone THEN acked ELSE {}

ImplementsReplicaLogAlone == Replica!Spec

(* The log is never behind the compaction point of its node: an entry with *)
(* a sequence up to that point counts as part of the snapshot, is never    *)
(* replayed and is dropped by the next compaction.  Handlers may overlap;  *)
(* only a kill right after a peer's snapshot was installed is left out.    *)
LogAheadOfSnapshot ==
    ~({"kill", "peer"} \subseteq faults) /\ (\A t \in Threads : pc[t] # "advance")
        => Compacted <= lastSequence

(* No request keeps the server's monitor for ever, however often the       *)
(* engine dies under it: runOnEngine gives up after its second attempt.    *)
MonitorReleased == []<>(pc["exec"] = "idle")
=============================================================================
