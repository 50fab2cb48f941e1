# dis-minisql in TLA+

This directory holds a TLA+ model of dis-minisql: modules, TLC configurations,
and theorems that TLAPS checks. dis-minisql is a teaching database. A Java layer
(`src/dis-minisql`, 3250 lines) shards and replicates SQL statements over
DataNodes, with ZooKeeper for metadata. A C++ kernel (`src/minisql`, about 11,600
lines without the generated parser) is the single-node database that every
DataNode runs as a child process.

`PROJECT.json` maps every definition to its lines and lists runs, mutants,
findings, hazards and theorems. This file explains them.

## 1. Inventory

| part | state | operations | neighbours |
|---|---|---|---|
| Coordinator (`CoordinatorServer`, `ReplicaChooser`) | none of its own; one thread per HTTP request | `routedWrite`, `broadcastWrite`, `sendRaftStyle`, `distributedRead`, `distributedJoin`, `/rebalance` | reads and writes shard metadata; POSTs `/execute` to nodes |
| Query merging (`QueryPostProcessor`, `QueryTable`) | the tables of the answers of one query | merge, order, aggregate, join | called by the coordinator's reads |
| Metadata (`ZkMetadataStore`) | a znode per shard (replicas, primary, term, commitIndex), a znode per shard for the next log index, an ephemeral znode per node | `initializeShards`, `electPrimary`, `rebalance`, `nextShardLogIndex`, `updateCommitIndex`, `upsertEphemeral` | called by coordinator threads and by nodes |
| DataNode (`DataNodeServer`) | fields `replicaState`, `snapshotManifest`, `engineWalSequence`; its files | `start`, `/execute`, `/admin/snapshot`, `/admin/refresh-shards`, CLI statements | owns a log, snapshots and an engine; asks peers for `/recovery-state` |
| Write-ahead log (`WalLog`) | `wal.jsonl`, `wal-index.json`, `lastSequence`, `requestIds` | `append`, `appendRecovered`, `advanceLastSequence`, `compactThrough`, `loadIndex` | called by the DataNode |
| Snapshots (`SnapshotManager`) | `snapshot.sql`, `snapshot.json` | `createSnapshot`, `markApplied`, `loadManifest` | called by the DataNode |
| Engine (`MiniSqlEngine`) | the MiniSQL process and its runtime directory | `resetAndReplay`, `executeStatement`, `invalidate` | called by the DataNode |
| Databases (`ExecuteEngine`, `DBStorageEngine`) | open databases, the selected one, their files | start, `CREATE`/`DROP`/`USE DATABASE`, quit, end of input, kill | owns one catalog per database |
| Catalog (`CatalogManager`) | maps of tables and indexes by name and by id, metadata pages | create, list, drop of tables and indexes, close, open | called by statements; owns heaps and trees |
| Executors (`Insert`, `Delete`, `UpdateExecutor`) | rows of a table and its indexes | one row at a time | table heap and B+ trees of one table |
| Planner and scans (`Planner`, `IndexScan`, `SeqScan`) | none | choice of a scan, its rows, its filter | reads the table and its indexes |
| Table heap (`TableHeap`, `TablePage`, `FreeSpaceMap`) | a chain of pages with slots and bytes, a map of free space | insert, mark, update, apply, rollback, scan, reopen, delete | buffer pool |
| B+ tree (`BPlusTree` and its pages) | pages with keys, parent and next pointers; the index roots page | insert, remove, look up, scan, reopen, destroy | buffer pool |
| Recovery manager (`RecoveryManager`, `LogRec`) | log records chained per transaction, checkpoint, database of keys | append, checkpoint, redo, undo | used by its unit test only |
| Buffer pool (`BufferPoolManager`, `LRUReplacer`) | frames, page table, free list, LRU list | `FetchPage`, `NewPage`, `UnpinPage`, `FlushPage`, `DeletePage`, destructor | used by heap, index and catalog |
| Database file (`DiskManager`, `BitmapPage`) | meta page (cached), bitmap pages, data pages | `AllocatePage`, `DeAllocatePage`, `ReadPage`, `WritePage`, `Close` | used by the buffer pool |

What is hard here:

- **Interleaving.** `execute` is synchronized on the server; `/admin/snapshot`
  and `/admin/refresh-shards` are not. Coordinator threads race on shard znodes.
  A read asks shards one by one while an INSERT goes from replica to replica.
- **Crash and restart.** An operation of the log is several file writes; a
  snapshot is two files; a peer snapshot is installed in three steps; a
  transaction log is replayed around a checkpoint, perhaps twice.
- **Retry and failure.** The MiniSQL process may exit or be destroyed after
  30 s at any statement; the request is run again after a rebuild.
- **Delivery.** HTTP requests and answers get lost, nodes that are gone stay
  registered until their session ends, and peers are skipped when unreachable.
- **Local sequences.** The same request has different sequences on different
  nodes, yet compaction points of different nodes are compared.
- **Several copies of one fact.** Bitmaps, their counters and the meta page;
  frames, page table, free list and LRU list; a root in three places; a page's
  free space in the page and in the map; names and metadata pages of the catalog;
  rows and their indexes.
- **Long sequences of legal calls.** Splits, merges and redistributions of a
  tree, moves of bytes in a page, drops followed by creation under the same name.

What correct means, per part: the log never forgets a request or reuses a
sequence; the node's files always stand for one growing list of requests and
the engine's database is that list; commit indexes are what a quorum confirmed
and terms fence primaries; what was reported as successful stays on a majority
and is on every node that serves; a query has what was reported before it began;
no page is handed out twice and a page reads as its last writer left it; every
stored key is found, every row is read as it was written, an index agrees with
its table, and a SELECT returns what its WHERE clause says; recovery leaves the
committed transactions and no other; what was created and not dropped is there
after a restart.

## 2. Modules

| module | models | composes |
|---|---|---|
| `WalLog`, `WalLogProofs` | the log of one node, every file-system step apart, killed between any two | |
| `ReplicaLog` | abstract: a replica is a list of requests that only grows, and answers only for requests in it | |
| `DataNode`, `DataNodeProofs` | one node: handlers as threads, snapshots, recovery from peers, the engine and the database each statement runs in | refines `ReplicaLog` |
| `ZkMetadata`, `ZkMetadataProofs` | shard metadata under concurrent coordinator calls, one ZooKeeper request per step, any of which may fail or go unanswered | |
| `Cluster`, `ClusterProofs` | a shard's replicas: writes, crashes, sessions that outlive their process, recovery from peers | `DataNode` and `ZkMetadata` operations as single steps |
| `DistributedRead` | queries over several shards, merging of their answers, one INSERT at a time beside them | |
| `DiskManager` | the database file; its proofs are in `BufferPoolProofs` | |
| `BufferPool`, `BufferPoolProofs` | the pool and the LRU replacer | extends `DiskManager` |
| `TableHeap` | pages of a table with slots and bytes, their chain, the free-space map | |
| `BPlusTree` | an index with its pages, pins and the index roots page | |
| `TableExecutor`, `TableExecutorProofs` | statements on one table and its indexes, row by row, with what the heap and the trees below get wrong | |
| `QueryPlan` | planner, index scan and filter of a SELECT, as operators on the state of `TableExecutor` | extends `TableExecutor` |
| `RecoveryManager`, `RecoveryManagerProofs` | transactions, their log, checkpoints, redo and undo record by record | |
| `Session` | which statements clients give, whether they are careless, whether files they execute have a QUIT, whether the process is killed | |
| `Catalog` | the catalog of one database | extends `Session` |
| `ExecuteEngine` | the databases of a process | extends `Session` |
| `Kernel`, `KernelProofs` | table statements reach the catalog of the selected database; databases create, close and open it | extends `ExecuteEngine` and `Catalog` |

An `MC` module puts several instances of its component in one run. Its variable
`scenario` says which instance a behaviour belongs to, and never changes: the
run is the union of the instances. Properties of an `MC` module say of which
instance they speak. `MCQueryPlan` has one instance only: it gives `QueryPlan` the
values of the columns and the WHERE clauses.

| MC module | instances |
|---|---|
| `MCZkMetadata` | `serial`: one call, two shards, three nodes; `long`: more such calls, one shard, two nodes; `racing`: two calls, one shard, two nodes |
| `MCCluster` | `serial`: one writer, one node away at a time, several snapshots; `writers`: two writers, one node away at a time; `outages`: any faults but restarts within a session, or such restarts with overlaps and lost messages |
| `MCDistributedRead` | `read`: selects and aggregates, with nulls, conditions and rows that are alike; `join`: two tables; `failing`: nodes fail while they are asked |
| `MCBPlusTree` | `small`: six keys, smallest pages; `deep`: removals from four levels; `wide`: leaves of four, where a leaf root goes with its last key; `grow`: insertion, scan, reopening, destruction |
| `MCTableHeap` | `chain`: three pages; `page`: one larger page with rollbacks; `reopened` |
| `MCRecoveryManager` | `long`: two keys, five records; `values`: two values of one key; `again`: two crashes, four records |

`DataNode`, `Kernel` and `Cluster` have a variable of this kind themselves: what the
environment does in a behaviour is a variable that `Init` chooses and no step
changes, `faults` from `FaultSets` and `client` from `Clients`. Properties and theorems say
for which faults or habits they hold, so that one specification is both run and
proved about.

How state corresponds. In `DataNode`, `wal`, `snapshotSql` and `manifestFile` are
the files; `snapshotManifest` and `replicaState` are fields; `engine` is the
`MiniSqlEngine` object with its database, which is represented by the sequence of
statements executed on it (`engine.db`), the database each ran in (`engine.where`)
and the one selected (`engine.selected`); `pc` and `local` are the position and the
local variables of the three threads that can be inside the node. A step ends where
a file or the engine changed, or where a value was read that another thread can
change before it is used. `Cluster` takes a request at one replica, the answer of
one peer or one recovered entry as a step; what happens inside it is in `DataNode`.
Its `stale` are the nodes whose znode still belongs to the session of an earlier
process. In `BufferPool`, `frame` is `pages_`, `lru` the replacer's list, and
`held`/`owned` are the pins and pages of the client: callers unpin a page before
they delete it and use it only while it is pinned. The client's write happens with
its `UnpinPage(id, true)`. `TableHeap` and `BPlusTree` are sequential: a call of the
client is one step, and the operators it is made of are the code's functions.
`TableHeap` keeps the bytes of a page, each byte named by the row it belongs to, and
counts the pages of the file that the free-space map took (`map_pages`). `BPlusTree`
keeps the pins of every page, and two histories: the keys that went with a leaf root
(`dropped`) and what became of a tree of four levels (`tall`). `TableExecutor` takes
one row of a statement as a step, since a statement that fails leaves the earlier
rows changed. It does not repeat the pages of heap and trees but keeps what a
statement can notice of them: whether a row is in the first page, a later one or
outside the chain (`place`), which indexes no longer fit the table (`astray`), lost
a root with a key in it (`cut`), or have another root than the recorded one
(`unrecorded`). `RecoveryManager` takes one record as a step, so that a crash can
come between any two.

Data is abstract throughout. A statement is its request id; a page of the pool
holds a number; a node is a number that stands for its name's rank; keys are
numbers. Operators whose names end in an underscored word (`UnpinnedFrame_Clean`,
`AppliedSequence_Before`) are deliberately wrong variants used as mutants, and are
not part of the model.

## 3. Runs

| run | checks | shows |
|---|---|---|
| `wal` | `DedupCoversLog` `LastSequenceCoversLog` `IdleCrashRestartable` `SequencesGrow` `AlwaysReadyAgain` | through kills between any two file writes, compactions and restarts, a usable log knows every request and the highest sequence of its file; sequences are never reused |
| `dn` | `LogAheadOfSnapshot` `EngineMatchesLogAlone` `ImplementsReplicaLogAlone` `MonitorReleased` | handlers one at a time, crashes between handlers, an engine that dies anywhere: the files stand for one growing list, a current engine was given that list and, with the default database selected, ran it as a rebuild would; the monitor is always released; with peers' snapshots the local log continues after the compaction point |
| `zk` | `MetadataSound` `TermFencesPrimary` `IndexIssuedOnce` `CallsEndRacing` | any request to ZooKeeper may fail: with serial calls the commit index covers every write reported as successful and terms fence primaries; what survives two racing calls: stale overwrites never invent a commit index or a primary, log indexes are unique, calls end |
| `cluster` | `ServingComplete` `CommittedSurvives` `SerialLog` `AllComeBack` | one node away at a time: a serving node has every successful write, and all come back; any faults, quick restarts too: a successful write stays on a majority until a peer's snapshot is installed; one writer: it stays there, and replicas agree on the order |
| `read` | `SelectComplete` `AggregateExact` `JoinExactShards` | queries of two shards beside an INSERT: a select has every row reported before it began; an aggregate without a condition is that of the table, if no rows are alike; a join has each pair once |
| `pool` | `CountersAgree` `PoolConsistent` `ContentKeptClean` `PageIssuedOnce` | the pool and the file through creation, eviction, flush, deletion and reopening |
| `tree` | `LookupExactAll` `TreeShapeAll` `ScanOfStoredSmall` | every key is found but those given up with a leaf root, the tree is balanced and leaks no page, leaves are one ordered chain |
| `heap` | `RowsIntactAll` `ChainSound` `NewPageOnlyWhenFull` | bytes of every row, the chain and the free-space map; DeleteTable gives back the pages that store rows |
| `query` | `IndexSound` `UniqueIndexComplete` `SelectExact` | an index that still fits its table agrees with it, and SELECT with its WHERE clause where scan and indexes are undamaged |
| `recovery` | `RecoveredIsCommitted` `RedoRepeatsHistory` `RecoveryEnds` | redo has the old database before every record, recovery leaves exactly the committed transactions, and it ends |
| `kernel` | `CreatedLoaded` `NeverDiesCareful` `NamesResolve` `CatalogExactKept` | databases, tables and indexes through sessions, restarts, kills and QUITs in files; a session that is not careless never makes the process die |

Each module's `TypeOK` is a conjunct of one of these properties, except those of
`RecoveryManager` and `Cluster`, whose instances have different types; they are
proved (`RecoveryTypes`, `ClusterTypes`, section 5).

One run expects a violation. `dn_admin_snapshot` checks `AckedDurable` with
`FaultSets = {{"overlap"}}`: `/admin/snapshot` runs beside `execute`, and an entry
logged between its reads and its compaction is dropped from the log without
being in the snapshot. "findings" in `PROJECT.json` quotes both sides. The other
disagreements between the code and its own comments or documents are in
section 6, each with the property and the constants that show it.

### Bounds

- `dn` uses three requests and a threshold of 2 (20 in the code), so that a
  snapshot of an empty and one of a non-empty log happen, and a request is
  logged after a compaction. Its two sets of faults are an engine that dies, and
  CLI statements with peers' snapshots. One of the requests is a CREATE DATABASE
  (`DatabaseSql`), the others work in the selected database. `wal` has one
  sequence more than requests, so that a sequence is not the rank of its request.
- `zk`: `serial` needs two shards for balancing and three nodes for a layout that
  changes; `long` has room for two committed writes with elections and rebalances
  between them; `racing` needs two calls on one shard. `MaxVersion`,
  `LongMaxVersion` and `RacingMaxVersion` bound the znode version at which a call
  may begin, `MaxLogIndex` and `OneShardMaxLogIndex` the log indexes. Every request
  may fail in all three.
- `cluster` has three replicas, the default replication. `serial` has one writer,
  four requests and a threshold of 2, so that a node that was away can meet a
  peer's snapshot, log after it and take a snapshot of its own. `writers` has two
  writers, three requests and a threshold of 3, which the last request reaches. In
  `outages`, one request covers every order of crash, loss, session end, restart
  and recovery below the threshold; its two sets of faults are all but `"quick"`,
  and `"quick"` (a restart within the session of the last process) with `"overlap"`
  and `"lost"`. Section 6 says what happens above
  it. What the three invariants say beyond these bounds is proved.
- `read` has two shards on three nodes, one of them a replica of both, a key in
  each shard, two numbers and NULL, a condition or none, also on aggregates, and up
  to two rows (three in `join`), which may be alike.
- `pool` has two extents of two pages, two frames and at most three pages in use,
  so that the second extent opens, a bitmap fills and is reopened, and every third
  fetch evicts; `MaxSpoils` bounds dirty evictions and deletions, since those
  leave the pool inconsistent (section 6).
- `tree` uses the smallest sizes for which the code works: `leaf_max_size_ = 2`,
  `internal_max_size_ = 4`. Six keys give three levels in every order of calls,
  `deep` has four levels. `wide` has leaves of four with a minimal size of two, as
  at every real size: there `AdjustRoot` drops a leaf root that holds a key.
- `heap` has pages of 5, 6 and 8 bytes with a header and slots of one byte, so
  that pages fill after one to three rows. `SIZE_MAX_PAIR = 3` leaves the map on
  one page; two map pages are in section 6.
- `query` has a unique column of three values, one of which (`Wide`) does not fit
  in place, a column of two, three rows, which lie in the first page, a later one
  or outside the chain, and WHERE clauses of up to three comparisons joined by AND
  and OR, over one and over both columns (`Clauses`). No bound hides a plan that is
  answered wrongly: `SelectExact` has the condition (`OneIndexed`).
- `recovery` has two transactions, two keys, up to five records and one crash;
  `values` has one key with two values, `again` four records and two crashes. A
  crash needs a checkpoint first.
- `kernel` has two databases, one with its catalog, two table names, two columns
  and at most three tables and two indexes. Its six clients give every statement;
  never drop; drop indexes and never restart; are careless; execute files with a
  QUIT; or only handle databases, carelessly, with such files and in a process that
  is killed. `MetaSlots` is as large as
  all tables and indexes together.

`CHECK_DEADLOCK FALSE` is set where a bound or an end of a session makes the
model stop: every run but `zk` and `dn_admin_snapshot`.

### Fairness

`wal`: an operation that has begun goes on and a log that is down is opened again
(`AlwaysReadyAgain` is about crashes between operations; a kill inside one may tear
the index file, and then `loadIndex` throws at every start). `dn`: a thread that has
begun goes on, since every wait in it has a timeout (30 s per statement), and a node
that is down is started again (`scripts/`, operator). `zk`, racing: every call's
next ZooKeeper request is answered, if only by an error. `cluster`, writers: calls
of the coordinator return within the 20 s of `HttpUtil`, ZooKeeper ends the session
of a process that is gone (15 s, `ClusterConfig.java:15`), and a node that is down
is restarted. `recovery`: a recovery that has begun goes on, being one loop of one
thread. Nothing is assumed of crashes, lost messages or clients. Liveness of the
other instances is not claimed.

## 4. Refinement

`DataNode!ImplementsReplicaLogAlone` maps `LogicalLog` - what a full rebuild of
the engine would execute: `snapshot.sql` followed by the log after the compaction
point - to the abstract list of `ReplicaLog`. Logging a request appends to it;
every other step, including each file write of a snapshot, a compaction, a crash
and a restart, is a stutter. Between the writes of `snapshot.sql` and of its
manifest the list is `snapshot.sql` alone. Since a request is appended once, the
list has no repetitions, and an answered request stays in it. The mapping is run
by TLC and proved for every instance (section 5); behaviours that are not `Alone`
map to a list that stays empty.

## 5. Proofs

`WalLogProofs` proves, for every set of request identifiers and every bound:

| theorem | statement |
|---|---|
| `TypeCorrect` | `Spec => []TypeOK` |
| `DedupSafe` | `Spec => []DedupCoversLog` |
| `LastSequenceSafe` | `Spec => []LastSequenceCoversLog` |
| `EntriesDistinct` | `Spec => []WalEntriesDistinct` |
| `IdleCrashSafe` | `Spec => []IdleCrashRestartable` |
| `SequencesNeverReused` | `Spec => SequencesGrow` |

All rest on `WalInvariance`, the inductive invariant `WalInv`. None of the five
state properties is inductive alone: after a compaction the file no longer shows
the highest sequence or the old requests, so a restart relies on the index file;
while the index is being rewritten the file is torn and the restart must not
happen or must find it elsewhere. `WalInv` therefore says, for each step of an
operation (`pc`), which of the two files and the fields covers what was ever
issued, and what the pending entries are. The proof has one step per action, and
under it one per conjunct the action touches. The only assumption is that the
bound is a natural number. `WalInv` keeps that a non-empty file has an entry with
the largest sequence, which is what makes the maximum of `loadIndex` exist.

`BufferPoolProofs` proves of the file, for every number and size of extents:

| theorem | statement |
|---|---|
| `DiskTypeCorrect` | `DiskSpec => []DiskTypeOK` |
| `NextFreeSafe` | `DiskSpec => []NextFreeIsFree` |
| `CountersSafe` | `DiskSpec => []CountersAgree` |
| `PagesIssuedOnce` | `DiskSpec => PageIssuedOnce` |

`DiskSpec` is the file used through its own interface: allocate, give back what
is allocated, write any page, close and open. The argument has three layers.
Arithmetic: `MapPageId` and the places of the bitmap pages never collide
(`DataPlaces`, `BitmapPlacesDiffer`), from uniqueness of quotient and remainder.
One bitmap page: its counter is the number of its bits and, unless it is full,
`next_free_page_` is free (`GoodBitmap`); the search of `AllocatePage` ends since
a bitmap with as many bits as slots is the full one. The file: `DiskInv` adds
that the meta page's counters agree and that extents never opened are empty.
Neither `CountersAgree` nor `NextFreeIsFree` is inductive alone: allocation
chooses the extent by the first and the slot by the second. `num_allocated_pages_`
is tied to the set of allocated pages, without which it could drop below zero.
Assumed: extents and slots are positive in number, page contents are numbers.

`TableExecutorProofs` proves, for any columns, values, number of rows and set of
statements, updates of indexed columns and restarts included:

| theorem | statement |
|---|---|
| `ExecutorTypeCorrect` | `Spec => []TypeOK` |
| `IndexSoundSafe` | `Spec => []IndexSound` |
| `UniqueIndexSafe` | `Spec => []UniqueIndexComplete` |

The inductive invariant `IndexInv` joins the three with `StatementOK`, the form of
the statement that is under way. They need each other: an insertion takes a free
key because the index is complete, and a deletion leaves no entry behind because
it is sound. Neither theorem assumes that heap and trees do what they promise: a
scan that misses rows fills an index with fewer of them, a removal may empty the
tree, and a reload may find an outdated root. What the theorems leave out is
exactly what these steps record in `astray` and `cut` (section 6).

`BufferPoolProofs` proves of the pool, for any number of frames, pins and pages, on
top of the lemmas about the file:

| theorem | statement |
|---|---|
| `PoolInvariance` | `Spec => []PoolInv` |
| `PoolStaysConsistent` | `Spec => []PoolConsistent` |
| `ContentIsKeptClean` | `Spec => ContentKeptClean` |
| `PoolCountersSafe` | `Spec => []CountersAgree` |
| `PoolIssuesOnce` | `Spec => PageIssuedOnce` |

`NewPage` and `Restart` make several calls of the file in one step, so the
theorems about `DiskSpec` do not carry over by themselves: `PoolInv` contains
`DiskInv` and the proof composes the lemmas about its operations. Beside it,
`PoolInv` says that the client owns exactly the allocated pages, that no pinned
frame is on the LRU list, and, until the first dirty eviction or deletion
(section 6), `CleanPool`: page table and frames are inverse to each other, every
frame is in exactly one of the free list, the LRU list and the pinned frames,
pins are the client's pins, and a clean frame holds what the file holds. Assumed:
`PoolSize`, `MaxPins` and `MaxOwned` are positive and `MaxOwned` is below the
capacity of the file.

`ZkMetadataProofs` proves, for any finite sets of nodes and coordinator calls and
any number of shards and replicas:

| theorem | statement |
|---|---|
| `ZkTypes` | `Spec => []TypeOK` |
| `MetadataIsSound` | `Spec => []MetadataSound` |
| `IndexesIssuedOnce` | `Spec => IndexIssuedOnce` |
| `TermsFence` | `Spec => TermFencesPrimary` |

The inductive invariant `ZkInv` joins the types with what a call carries between
two requests to ZooKeeper. `Proper`: a layout, stored or about to be written, has
distinct replicas with the primary among them (for a layout that `rebalance`
computes, since two numbers less than n apart have different remainders modulo
n). `CallOK`: the version and the index that a call read agree with the index
znode unless that has moved on, which is why the compare-and-set succeeds once per
index, also when its answer is lost; a call that is about to commit holds a
confirmed index. With one call at a time `AloneOK` adds that nothing moved since
the call read and that what it writes `Follows` what is there, wherever the call
is broken off. `CommitIndexCovers` and the fencing by terms need `AloneOK`, and fail
without it (section 6). That the commit index is the largest confirmed one is not
claimed: it is false once a request fails.

`DataNodeProofs` proves, for any requests, any threshold and any bound:

| theorem | statement |
|---|---|
| `NodeInvariance` | `Spec => []NodeInv`, for all faults |
| `LogStaysAhead` | `Spec => []LogAheadOfSnapshot`, for all faults but kills combined with peers' snapshots |
| `FilesInvariance` | `Spec => []FilesInv` |
| `NodeImplementsReplicaLog` | `Spec => ImplementsReplicaLogAlone`, when `Alone` |
| `EngineMatches` | `Spec => []EngineMatchesLogAlone`, when `Alone` and without CLI statements |

`Alone` is: handlers do not overlap, the process dies only between handlers, and
neither late writes nor peers' snapshots occur; the engine may die anywhere.
`NodeInv` has the types, the log in the order of its sequences below
`lastSequence`, and which operation a thread can be in at which step. `AheadInv`
makes `LogAheadOfSnapshot` inductive: a compaction point in a file, in the field
or in a thread's local variable was taken from the log, or the thread that
installs it still has to call `advanceLastSequence`. `FilesInv` says, per step, what
`snapshot.sql`, the manifest and the log hold: what a thread has read
(`ReadAt`) is still what the files stand for when it writes, so each write of a
snapshot leaves `LogicalLog` alone. `EngineOK` does the same for the engine:
outside the steps `Between` execution and `MarkApplied`, a current engine has
executed exactly the requests up to `engineWalSequence`. `SelectionOK` says that with
the default database selected each of them ran where a replay runs it
(`ReplayedNext`: one statement more is replayed in the default database once
there is one; `SelectionStep`: every step of the node keeps it so). The order of the log is
used through `CountBelow`: the entries below a sequence are a prefix.

`KernelProofs` proves, for any databases, tables, columns and clients:

| theorem | statement |
|---|---|
| `CreatedLoadedSafe` | `Spec => []CreatedLoaded`, with careless clients and kills |
| `CarefulNeverDies` | `Spec => []NeverDiesCareful` |
| `NamesResolveSafe` | `Spec => []NamesResolve` |
| `CatalogStaysExact` | `Spec => []CatalogExactKept` |

For the databases, `CreatedHasFile` is inductive for the first theorem; the
second needs `FreshIsOpen` too: only an open database has a file without a
catalog, so every file that a start meets can be loaded. It is about sessions that
are `Careful` and not `EndsUnclosed`, neither of which can be left out (section 6);
the first theorem is about all sessions. For the catalog,
`CatalogInv` describes the four maps and the metadata pages together: ids are
dense and never reused (`PagesOK`), a name and an id lead to each other
(`TablesOK`, `IndexesOK`), and an index page names the table id it was made
for. The names that dropped tables leave behind are part of it, since creation
under the same name meets them. A closed catalog has empty maps (`ClosedOK`).
`ExactInv` adds, for clients that drop no table and restart only if they drop no
index (`KeepsCatalog`), that pages and maps hold what was created and not
dropped; it needs `CatalogInv` to know that a reload finds every page. Assumed:
the metadata slots suffice for all tables and indexes together, and the unique
columns are finitely many.

`RecoveryManagerProofs` proves, for any transactions, keys and values and any
number of crashes:

| theorem | statement |
|---|---|
| `RecoveryInvariant` | `Spec => []RecoveryInv` |
| `RecoveryTypes` | `Spec => []TypeOK` |
| `RedoSafe` | `Spec => []RedoRepeatsHistory`, when `NeedsCheckpoint` |
| `RecoverySafe` | `Spec => []RecoveredIsCommitted`, when `NeedsCheckpoint` |

The history variable `history` keeps the database before each record, so that the
argument can speak of the records that are already in the log. `LogOK` says what
a log of such transactions looks like: each record names the one before it of its
transaction (`Chain`), did to the database what its kind says (`Effect`), nothing
follows an end, and what an open transaction wrote stays as it is for all others
(`Steady`, which is what the locks are for). `Image(l, h, t, c, e, k, v)` says that
`v` is the value of `k` when what `t` wrote with the records `c + 1 .. e` is undone:
its value before the first of them that wrote `k`. `Held` shows that this is what
record `c` left, so undoing `c` next finds the values it expects, and `UndoStep`
that it gives the image one record further back. At the begin record the image is
what the abort record gave (redo) or what was committed (undo), since there is
only one image (`OneImage`). `RedoSafe` is not inductive alone: in the middle of the
undo of an aborted transaction the database is one that never existed, and only
`RedoOK` says where it is going. `UndoOK` says, per open transaction, whether its
keys are as at the crash, part of the way back, or as committed. Without a
checkpoint only the types are claimed (section 6).

`ClusterProofs` proves, for any finite set of replicas, any requests and writers
and any snapshot threshold:

| theorem | statement |
|---|---|
| `ClusterTypes` | `Spec => [](TypeOK /\ NodesOK)`, for all faults |
| `SuccessfulWritesSurvive` | `Spec => []CommittedSurvives`, for all faults |
| `ServingNodesAreComplete` | `Spec => []ServingComplete`, when `faults = {}` |
| `SerialWritesAgree` | `Spec => []SerialLog`, when `faults = {}` and one writer |

`faults = {}` still lets a node crash in the middle of a write; what it excludes is
listed with `FaultKinds`, among it a restart within the session of the last process,
so that no znode is `stale`. `BaseInv` has the types, every log in the order of its
sequences (`LogOK`), and that identifiers of writes under way differ.

- `SuccessfulWritesSurvive`: `CommittedOnQuorum` speaks of the files of all nodes,
  `EndWrite` of a counter. `CountInv` connects them: at least as many of the
  replicas that were asked have executed the request as have answered. `LogInv`
  says that a node which never installed a peer's snapshot keeps what it executed.
- `ServingNodesAreComplete`, below the first snapshot and with any writers: `Calm`
  says that at most one node is away, that those which serve are registered so,
  that no recovery overlaps a write, and that the primary of a write holds the
  current term. `Complete` adds that a serving replica has executed a write under
  way or is still to be asked (`Reached`), and that a recovering node has asked
  nobody yet or finds all it misses in what is left of the answer (`CatchesUp`).
- With one writer the two remaining statements hold through snapshots too, where
  local sequences, compaction points and the entries offered by peers differ from
  node to node. The invariant is that there is one history: a sequence `h` of
  requests in the order of their first executions, and `k[j]`, the compaction point
  of a node whose last sequence is `j`, such that every node `Follows` a prefix of
  `h`, serving nodes are at its end or one request behind and still to be asked,
  and a recovering node `Catches` up with it entry by entry (`History(h, k)`,
  quantified in `SerialInv`). A write under way may have put the
  next request on some replicas and not on others; `Midway` is the state between.
  `HistoryServing` and `HistoryOrder` derive the two properties. `SameOrder` itself
  is not inductive: it says nothing of a node that is away, nor of the sequences
  from which `Covered` decides what a restart executes.

Assumed: the replicas are finitely many numbers and at least one, and the threshold
is positive.

Checked by TLC only:

- `BPlusTree` and `QueryPlan`: their operators are recursive over a tree of pages
  or of conditions, which the prover does not handle.
- `DistributedRead`, and `ChainSound` of `TableHeap`: what a query merges from the
  shards, and what a scan reads along the chain of pages, are folds over sequences,
  and what a fold returns for every sequence needs induction over data.
- `RowsIntactAll` and `NewPageOnlyWhenFull` of `TableHeap`, which use no fold and
  are within the prover's reach; their proofs are not written (section 8).
- Liveness (`AlwaysReadyAgain`, `MonitorReleased`, `CallsEndRacing`, `AllComeBack`,
  `RecoveryEnds`), which needs fairness and ENABLED.

## 6. Known deviations

The models show these by a change of constants; they bound what the passing runs
claim. Most contradict a comment or a document of the repository.

DataNode, with the constants of `dn` and no peers unless said:

- `RunsAsReplayed` fails without any fault, in the session of
  `dis-minisql/README.md:51`: `executeStatement` (`MiniSqlEngine.java:64-67`) runs
  `create table` in a process with no database selected, while a rebuild inserts a
  `use` of the default database after `create database` (`:96-109`) and runs it
  there. `EngineMatchesLog` therefore compares places only once the default
  database is selected.

- `FaultSets = {{"kill"}}` violates `LoggedOnce`: a kill between `snapshot.sql` and
  `snapshot.json` makes the next start execute the log again. With
  `{"peer", "kill"}` it violates `LogAheadOfSnapshot`: a kill between a peer
  snapshot's manifest and `advanceLastSequence`.
- `{"overlap"}` violates `EngineMatchesLog` (refresh beside `execute`), and so
  does `{"late"}` (a request that was recovered from a peer and then arrives as a
  write with `replay=false` is executed again).
- `compactThrough` truncates `wal.jsonl` before it writes the retained entries
  back (`WalLog.java:125`); a kill in between loses them. `wal` contains the
  step; the index, and so the properties of `wal`, survive it.
- A failing `syncEngineFull` in `/admin/refresh-shards` leaves the node
  RECOVERING (`DataNodeServer.java:114`). A statement of the DataNode CLI changes
  the engine that answers the coordinator (`:142`).

Metadata and cluster:

- `ZkMetadata` violates `CommitIndexIsMax` with one worker already: when
  `updateCommitIndex` fails after the quorum answered (`ZkMetadataStore.java:236-242`,
  `:268-270`, called at `CoordinatorServer.java:177-178`), the index is confirmed and
  never stored. `docs/设计报告.md:459`: "`commitIndex`：已经被多数派确认的最大
  `shardLogIndex`。" The client is told of a failure, so `CommitIndexCovers` holds.
- With two workers, one shard and two nodes it violates `CommitIndexCovers`, and
  `TermFencesPrimary` without its condition `Serial`: `upsertPersistent` takes the
  version when it writes, not when the data was read (`:264`), so an election or
  rebalance puts an old commit index back.
- `Cluster` with one writer and `FaultSets = {{"quick"}}` violates
  `ServingHasCommitted`: a node that is restarted within the 15 s of its last
  session (`ClusterConfig.java:15`) writes its state into the znode of that session
  (`ZkMetadataStore.java:289-290`). When the session ends, the znode goes, the node
  serves on unregistered, and writes pass it by.
- `Cluster` with one writer, two requests and `FaultSets = {{"overlap"}}` violates
  `ServingHasCommitted`: a write that commits after a recovering node asked its
  peers and before it serves is missing on it (`DataNodeServer.java:72`,
  `docs/设计报告.md:419`).
- With two writers, two requests and no fault it violates `SameOrder`: nothing
  orders two writes on their way to the replicas (`CoordinatorServer.java:278`,
  `dis-minisql/README.md:97`). With four requests, a threshold of 2 and still no
  fault it violates `ServingHasCommitted` too: replicas that logged in different
  orders have snapshots of different requests at the same compaction point, and a
  node that recovers takes such a snapshot together with the log of another. Hence
  the condition of `ServingComplete` and `SerialLog` that there is one writer.
- With one writer, three requests, threshold 2 and `{"lost"}` it violates
  `ExecutedOnce`: `installPeerSnapshotIfNewer` (`DataNodeServer.java:250`) does not
  add the requests of the snapshot to the index of the log
  (`docs/设计报告.md:418`). With four requests and no fault it does so too: after a
  peer's snapshot is installed, the next own snapshot adds log entries that are in
  it already. Positions in `Content` therefore differ between replicas, and
  `SameOrder` compares first executions (`Before`). With `{"lost"}` and three
  requests it violates `CommittedOnQuorum`: a peer's compaction point hides own
  entries with smaller local sequences.

Queries over shards (`DistributedRead`, two keys, two values):

- `MayFail = TRUE` violates `ReadSeesAll`: a failed response is left out and the
  rest reported as successful (`QueryPostProcessor.java:96`;
  `dis-minisql/README.md:93` promises that reads avoid a node that is down).
- `AggregateExact` is about aggregates without a condition: with one, the condition
  is neither sent nor applied (`:43`), and the answer is that of the whole table.
- It is about tables without rows that are alike: `merge` takes such rows for copies
  of one (`MiniSqlResultParser.java:47`).

Buffer pool:

- Constants of `pool`, `ContentKept`: `FetchPage` and `NewPage` write a dirty
  victim's data under the id of the page that replaces it
  (`buffer_pool_manager.cpp:63`, `:101`; comment at `:61`).
- `DeletePage` has its two cases the wrong way round: a page in the pool is given
  back to the disk with its frame and entry left behind, any other page resets
  frame 0. `PoolConsistent` and `ContentKeptClean` are therefore stated for
  behaviours before the first deletion or dirty eviction; `CountersAgree`,
  `NextFreeIsFree` and `PageIssuedOnce` hold after them too.

B+ tree (`b_plus_tree.cpp`):

- `AdjustRoot` (`:487`) drops a leaf root that still holds one key, contrary to the
  comment at `:481`, at every leaf size whose minimum is above one, so at every real
  one. `dropped` records the keys, and `LookupExact` does not expect them. With
  `leaf_max_size_ = 2` it does not happen.
- A tree of four levels hides a key after insertions of 12 down to 1, removals of
  10, 7 and 7 again, insertion of 7 and removal of 11 (`leaf_max_size_ = 2`):
  `MoveAllTo` does not use `middle_key` (`b_plus_tree_internal_page.cpp:228`, comment
  at `:223`) and `Remove` (`:295-318`) corrects separators of two levels only.
  `LookupExact` says nothing once keys were inserted again in a tree of four levels
  that had lost some (`tall = "again"`).
- `RootRecorded` fails with `Calls = {"insert", "remove", "reopen"}`: `AdjustRoot`
  (`:494`) does not call `UpdateRootPageId` (comment at `:587`).
- `AllUnpinned` fails with scans: `Begin` (`:523`) leaves its leaf pinned (comment
  at `:563`). `ScanExact` fails with four keys: `Begin(key)` (`:544`) gives `End()`
  when the key is above all keys of its leaf. `ScanOfStored` therefore speaks of
  keys that are stored.

Table heap:

- `ChainComplete` fails with `PAGE_SIZE = 4`, four pages and `SIZE_MAX_PAIR = 2`,
  that is with two map pages: `GetNext` (`freespace_map.cpp:121`) compares an index
  of one map page with the count of the last. It fails with `"reopen"`: the
  constructor (`:14`) empties the map of a heap that is reopened.
- `StorageReleased` fails: `DeleteTable` (`table_heap.cpp:198-211`) gives back the
  chain of table pages only. The pages of the free-space map (`table_heap.h:132`,
  `freespace_map.cpp:31`) stay allocated, against the comment at
  `table_heap.h:97-99`; reopening a heap orphans all its map pages but the first.
- `ScanExact` fails: `Begin` (`table_heap.cpp:216`) ends at once when the first
  page has no live tuple. `ScanFromFirstPage` speaks of the other case.
- `UpdateAnswers` fails: `UpdateTuple` (`:119`) reads a bool as a code of 0, 1 or 2
  and answers false for an update it made. `MarkDeleteAnswers` fails: `MarkDelete`
  (`:87`) answers true for a tuple that is not there.

Statements and queries:

- `UpdatesAll` fails for any update of two rows: `UpdateExecutor`
  (`update_executor.cpp:23`) takes the answer above for a failure and returns before
  the indexes and the other rows. The indexes of the columns it changed are `astray`
  from then on.
- Deleting until one key is left empties a unique index (`AdjustRoot`,
  `b_plus_tree.cpp:486-491`): after two insertions and one deletion the row that is
  left is in no index, and another row with its key is accepted. `UniqueIndexComplete`
  leaves such an index out (`cut`).
- `AdjustRoot` (`b_plus_tree.cpp:490-494`) does not record the new root either. A
  table that is opened again then has a tree with the keys of deleted rows, or none
  of the later ones; such an index is `astray`, and so is one that was dropped and
  comes back with the reload (`catalog.cpp:378`).
- A row inserted after the table was opened again goes to a page outside the chain,
  since the free-space map is empty (`freespace_map.cpp:14`), and no scan meets it:
  neither DELETE, UPDATE and SELECT nor the filling of an index. When the first page
  has no live tuple, no scan meets any row (`table_heap.cpp:216-229`). `SelectExact` is
  about tables whose scan meets all rows (`ScanReachesAll`), or that are read through
  an index.
- `SelectExact` has the condition `OneIndexed` for plans that use an index: an AND of
  two comparisons that an index answers goes wrong when its left side is empty
  (`index_scan_executor.cpp:52`), and an OR below another connector
  (`abstract_statement.h:104`) is not noticed by the planner.

Recovery manager: `NeedsCheckpoint = FALSE` violates `RecoveredIsCommitted`:
without a checkpoint `find(INVALID_LSN)` is `end()`, which is then advanced
(`recovery_manager.h:42`).

Catalog (`catalog.cpp`) and databases (`execute_engine.cpp`):

- A client with drops and `"reopen"` violates `CatalogExact`: `DropAllIndexes` and
  `DropTable` (`:378`) leave the metadata pages, and a reload brings back what was
  dropped; with `MetaSlots = 2`, which
  `KernelAssumption` excludes, such entries also violate `CatalogFits` (assertion
  at `:4`).
- `"drop table"` and creation under the same name violate `IndexesOfTable`: the
  indexes of the dropped table keep their names (`:336`).
- `"drop index"` while a table has no entry in `index_names_` violates
  `DropIndexReturns`: `end()->second` is read (`:368`). Clients that are not
  `"careless"` avoid it.
- `DatabasesExplicit` fails: `DROP DATABASE` removes the file `<name>` of the
  working directory (`:267`), not `./databases/<name>`, and the next start loads
  it again (comment at `:22`).
- `"kill"` violates `Loadable`: the catalog of a new database is written
  by the destructor only, and a start that meets a file without one dies for all
  databases (`:44`, comment at `:21`). `"quit in file"` violates it too:
  QUIT in a file that is executed calls `exit(0)` (`:652-654`), which runs no
  destructor of the engine.
- With `"careless"`, `NeverDies` fails: statements after `DROP DATABASE` of the
  selected one (`:116`) and quit before any is selected (`:669`) use a storage engine
  that is not there, and SELECT, INSERT, DELETE and UPDATE before any is selected
  give the planner no context (`:115-116`, `:152`), which it uses
  (`select_statement.h:21`).

## 7. Not modelled

- Text: parsing and printing of MiniSQL's output, command lines, JSON, marker
  lines of the engine, byte layouts of fields and columns (rows are sized bytes in
  `TableHeap`), the byte comparison of keys.
- The SQL parser, generated by flex and bison, and the vendored googletest and
  glog. These are 44,000 of the 58,600 lines of the repository that are
  counted as implementation; dis-minisql's own code, with comments and headers, is
  about 14,600 lines, of which the map names a quarter. The rest of it is the text
  above, getters and setters, printing, and declarations.
- The CLOCK replacer (`config.h:17` selects LRU), the lock and transaction manager
  (empty methods), `DropIndex` and `DeleteIndexMetaPage` of the catalog (no caller).
- ZooKeeper itself (its requests are atomic steps) and the split of a database
  file write at a kill: the DataNode deletes the runtime directory of an engine
  that died, so a killed MiniSQL file is never read by it. `DiskManager` stays
  below the capacity of the file.
- Shards of a node in `DataNode` are fixed: ownership and terms are in `Cluster`
  and `ZkMetadata`. USE and DROP DATABASE as requests of the coordinator: at the CLI
  a database can be selected, through `/execute` only CREATE DATABASE and statements
  in the selected one occur.
- A running node that loses its own ZooKeeper session, and a znode that goes between
  `exists` and `setData` of `upsertEphemeral`.
- What an index answers that is `astray`, reuse of a root page that was given back,
  and, in `QueryPlan`, indexes of more than one leaf, whose range scans are in
  `BPlusTree`.
- The end of the input in MiniSQL's interactive mode, which `InputCommand` does not
  notice.
- `TableHeap` and `BPlusTree` have a pool that holds all their pages: eviction is
  in `BufferPool`, and its deviations would show in both.

## 8. Plan

Done: every component of section 1 has a module and a run, and the invariants of
the log, the node, the replicas of a shard, the metadata, the file, the pool, the
executors, the recovery manager and the kernel's databases and catalog are proved.
What is left:

1. `TableHeap`: `RowsIntact` with `PacksTuples`, from the layout of the bytes of one
   page, and `NewPageIfFull`, from the pairs of the free-space map.
2. `DistributedRead`: that every shard is asked at a replica that serves
   (`ReadSeesAll` without the merging).
3. `Cluster` with two writers beyond the first snapshot, once the code orders
   concurrent writes; today the properties are false there (section 6).
