--------------------------- MODULE TableExecutor ---------------------------
(***************************************************************************)
(* The executors that change one table and its indexes: InsertExecutor,    *)
(* DeleteExecutor and UpdateExecutor over a SeqScanExecutor, and what      *)
(* CreateIndex, DropAllIndexes and the loading of the catalog do to the    *)
(* entries of an index.                                                    *)
(*                                                                         *)
(* The heap and the trees behave as TableHeap and BPlusTree show, with     *)
(* what they get wrong: a scan misses rows, a tree loses its root.  Once   *)
(* an index is astray, that is, no longer the index of its table, what it  *)
(* answers is left open and its entries are not followed.                  *)
(* ExecutePlan calls Next of the executor row by row; each call that       *)
(* returns a row is an action, and no other statement runs in between.  A  *)
(* WHERE clause may select any of the rows that the scan meets.  A deleted *)
(* tuple is never read, and its row id not used again: nobody calls        *)
(* ApplyDelete.                                                            *)
(***************************************************************************)
EXTENDS Integers

CONSTANTS
  Columns,       \* the columns; an index has one of them as its key
  UniqueColumns, \* the columns with an index of CreateTable
  Values,        \* the values of a field
  Domain,        \* those of each column
  Wide,          \* the values that serialize to more bytes than the others
  MaxRows,       \* how many rows are inserted
  Statements     \* the statements of the client

ASSUME ExecutorAssumption ==
  /\ UniqueColumns \subseteq Columns /\ Wide \subseteq Values
  /\ Domain \in [Columns -> SUBSET Values]
  /\ MaxRows \in Nat

RowIds == 1 .. MaxRows
NoRowId == 0
Fields(C) == {f \in [C -> Values] : \A c \in C : f[c] \in Domain[c]}
Rows == Fields(Columns)
Places == {"first", "later", "outside"}

VARIABLES
  heap,       \* the tuple at each row id that was inserted and is not marked as deleted
  place,      \* its page: the first of the heap, a later one of the chain, or outside the chain
  next_rid,   \* the row id of the next insertion
  reopened,   \* the heap was opened again, with an empty free-space map
  indexed,    \* the columns with an index
  dropped,    \* the columns whose index was dropped; its tree and metadata are still on disk
  astray,     \* the indexes that do not fit the table: their column was updated in place,
              \* they were loaded with a root that is not theirs, or dropped and brought back
  entry,      \* the tree of each other index: the row id of a key, or NoRowId
  unrecorded, \* the indexes whose root is not the one in the index roots page
  cut,        \* history: the indexes that lost a root with a key in it
  stmt        \* the running statement: what it does and the row ids its scan has still to meet

disk == <<heap, place, next_rid, reopened>>
trees == <<indexed, dropped, astray, entry, unrecorded, cut>>
vars == <<heap, place, next_rid, reopened,
          indexed, dropped, astray, entry, unrecorded, cut, stmt>>

live == DOMAIN heap
At(f, x, v) == [y \in DOMAIN f \cup {x} |-> IF y = x THEN v ELSE f[y]]
Without(f, x) == [y \in DOMAIN f \ {x} |-> f[y]]

Idle == [kind |-> "none", todo |-> {}, attrs |-> <<>>]
Trees == [Values -> RowIds \cup {NoRowId}]
EmptyTree == [v \in Values |-> NoRowId]
Followed == indexed \ astray
Keys(tree) == {v \in Values : tree[v] # NoRowId}

Init ==
  /\ heap = [r \in {} |-> NoRowId] /\ place = [r \in {} |-> NoRowId]
  /\ next_rid = 1 /\ reopened = FALSE
  /\ indexed = UniqueColumns /\ dropped = {} /\ astray = {}
  /\ entry = [c \in Columns |-> EmptyTree]
  /\ unrecorded = {} /\ cut = {}
  /\ stmt = Idle

Ready(s) == s \in Statements /\ stmt = Idle

-----------------------------------------------------------------------------
(* TableHeap: the scan starts at a row of the first page, or not at all,   *)
(* and follows the chain.                                                  *)
Scanned ==
  IF \E r \in live : place[r] = "first" THEN {r \in live : place[r] # "outside"} ELSE {}

(* A row goes to a page of the chain, the first row to the first page; a   *)
(* heap that was opened again has an empty map and starts pages that no    *)
(* page of the chain leads to.                                             *)
PlacesFor == IF reopened THEN {"outside"} ELSE IF next_rid = 1 THEN {"first"} ELSE {"first", "later"}

-----------------------------------------------------------------------------
(* BPlusTreeIndex.  A key that is there stays. *)
InsertEntry(tree, key, rid) == [tree EXCEPT ![key] = IF @ = NoRowId THEN rid ELSE @]

(* RemoveEntry does not look at the row id.  AdjustRoot gives up a leaf    *)
(* that has at most one key left, whether the key was found or not.        *)
LosesRoot(tree, key) == \A k, l \in Keys(tree) \ {key} : k = l
RemoveEntry(tree, key, rid) ==
  IF LosesRoot(tree, key) THEN EmptyTree ELSE [tree EXCEPT ![key] = NoRowId]

(* The indexes C go astray, the trees of the others become those of new. *)
TreesBecome(new, C) ==
  /\ astray' = astray \cup C
  /\ entry' = [c \in Columns |-> IF c \in Followed \ C THEN new[c] ELSE EmptyTree]

(* What RemoveEntry of the key of every index does to the roots.           *)
(* AdjustRoot does not record the new one, and a tree of several levels    *)
(* may lose one of them.  The last key goes with the root.                 *)
RootsChange(key) ==
  LET rootless == {c \in Followed : Keys(entry[c]) # {} /\ LosesRoot(entry[c], key[c])}
      cutting == {c \in rootless : Keys(entry[c]) # {key[c]}}
  IN  /\ \E shrunk \in SUBSET Followed : unrecorded' = (unrecorded \cup rootless \cup shrunk) \ astray'
      /\ cut' = (cut \cup cutting) \ astray'

(* IndexInfo::Init enters every row of the scan, the first of each key. *)
Fill(tree, c) ==
  {t \in Trees : \A v \in Values :
     LET rids == {r \in Scanned : heap[r][c] = v}
     IN  IF tree[v] # NoRowId \/ rids = {} THEN t[v] = tree[v] ELSE t[v] \in rids}

-----------------------------------------------------------------------------
Insert_Unchecked(row) ==
  /\ Ready("insert") /\ next_rid <= MaxRows
  /\ heap' = At(heap, next_rid, row) /\ next_rid' = next_rid + 1
  /\ \E p \in PlacesFor : place' = At(place, next_rid, p)
  /\ entry' = [c \in Columns |-> IF c \in Followed THEN InsertEntry(entry[c], row[c], next_rid) ELSE entry[c]]
  /\ stmt' = Idle
  /\ UNCHANGED <<reopened, indexed, dropped, astray, unrecorded, cut>>

(* A key that some index has refuses the row; an index that is astray may. *)
Insert(row) ==
  /\ Ready("insert") /\ next_rid <= MaxRows
  /\ \A c \in Followed : entry[c][row[c]] = NoRowId
  /\ heap' = At(heap, next_rid, row) /\ next_rid' = next_rid + 1
  /\ \E p \in PlacesFor : place' = At(place, next_rid, p)
  /\ entry' = [c \in Columns |-> IF c \in Followed THEN InsertEntry(entry[c], row[c], next_rid) ELSE entry[c]]
  /\ stmt' = Idle
  /\ UNCHANGED <<reopened, indexed, dropped, astray, unrecorded, cut>>

(* DELETE and UPDATE scan the heap: s is the statement that is running, or *)
(* one that begins.  It may end at any time: the rows that are left do not *)
(* meet its WHERE clause.                                                  *)
Attrs == UNION {Fields(C) : C \in SUBSET Columns}
Begins(kind, attrs) == [kind |-> kind, todo |-> Scanned, attrs |-> attrs]
Scans ==
  IF stmt # Idle THEN {stmt}
  ELSE {s \in {Begins("delete", <<>>)} \cup {Begins("update", attrs) : attrs \in Attrs} : s.kind \in Statements}

GoesOn(s, rid) == stmt' = [s EXCEPT !.todo = @ \ {rid}]

EndStatement ==
  /\ stmt # Idle /\ stmt' = Idle
  /\ UNCHANGED <<disk, trees>>

DeleteNext_FirstIndexOnly(s, rid) ==
  LET key == heap[rid]
      one == CHOOSE c \in Followed : TRUE
  IN  /\ s.kind = "delete"
      /\ heap' = Without(heap, rid) /\ place' = Without(place, rid)
      /\ TreesBecome([c \in Columns |-> IF c = one THEN RemoveEntry(entry[c], key[c], rid) ELSE entry[c]], {})
      /\ RootsChange(key)
      /\ GoesOn(s, rid)
      /\ UNCHANGED <<next_rid, reopened, indexed, dropped>>

DeleteNext(s, rid) ==
  LET key == heap[rid]
  IN  /\ s.kind = "delete"
      /\ heap' = Without(heap, rid) /\ place' = Without(place, rid)
      /\ TreesBecome([c \in Columns |-> RemoveEntry(entry[c], key[c], rid)], {})
      /\ RootsChange(key)
      /\ GoesOn(s, rid)
      /\ UNCHANGED <<next_rid, reopened, indexed, dropped>>

GenerateUpdatedTuple(s, row) == [c \in Columns |-> IF c \in DOMAIN s.attrs THEN s.attrs[c] ELSE row[c]]
Grows(old, new) == \E c \in Columns : new[c] \in Wide /\ old[c] \notin Wide

Changed(old, new) == {c \in Followed : new[c] # old[c]}

(* TableHeap::UpdateTuple has changed the tuple and answers false: the     *)
(* executor ends the statement and leaves the indexes as they are.         *)
UpdateNext(s, rid) ==
  LET key == heap[rid]
      dest == GenerateUpdatedTuple(s, key)
  IN  /\ s.kind = "update"
      /\ heap' = [heap EXCEPT ![rid] = dest]
      /\ TreesBecome(entry, Changed(key, dest))
      /\ unrecorded' = unrecorded \ astray' /\ cut' = cut \ astray'
      /\ stmt' = Idle
      /\ UNCHANGED <<place, next_rid, reopened, indexed, dropped>>

(* The page has no room for the longer tuple: UpdateTuple leaves it and    *)
(* answers true, the executor updates the indexes and goes on.             *)
UpdateNextNoRoom(s, rid) ==
  LET key == heap[rid]
      dest == GenerateUpdatedTuple(s, key)
  IN  /\ s.kind = "update" /\ Grows(key, dest)
      /\ TreesBecome([c \in Columns |-> InsertEntry(RemoveEntry(entry[c], key[c], rid), dest[c], rid)],
                     Changed(key, dest))
      /\ RootsChange(key)
      /\ GoesOn(s, rid)
      /\ UNCHANGED disk /\ UNCHANGED <<indexed, dropped>>

(* The index of c is another one from here on. *)
NewTree(c, t) ==
  /\ entry' = [entry EXCEPT ![c] = t]
  /\ unrecorded' = unrecorded \ {c} /\ astray' = astray \ {c} /\ cut' = cut \ {c}

(* A new index has a new index id, so its tree starts empty. *)
CreateIndex(c) ==
  /\ Ready("create index") /\ c \notin indexed
  /\ indexed' = indexed \cup {c} /\ dropped' = dropped \ {c}
  /\ \E t \in Fill(EmptyTree, c) : NewTree(c, t)
  /\ UNCHANGED <<disk, stmt>>

(* The client keeps the indexes of unique columns. *)
DropIndex(c) ==
  /\ Ready("drop index") /\ c \in indexed \ UniqueColumns
  /\ indexed' = indexed \ {c} /\ dropped' = dropped \cup {c}
  /\ NewTree(c, EmptyTree)
  /\ UNCHANGED <<disk, stmt>>

(* The catalog is loaded, dropped indexes included, which missed what      *)
(* happened since.  A tree has the root that is recorded: when that is not *)
(* its own, it is a page that was given back.  IndexInfo::Init fills every *)
(* tree once more.                                                         *)
Reopen ==
  /\ Ready("reopen")
  /\ reopened' = TRUE
  /\ indexed' = indexed \cup dropped /\ dropped' = {}
  /\ astray' = astray \cup unrecorded \cup dropped
  /\ entry' \in [Columns -> UNION {{EmptyTree} \cup Fill(entry[c], c) : c \in Columns}]
  /\ \A c \in Columns : IF c \in Followed \ unrecorded THEN entry'[c] \in Fill(entry[c], c)
                                                       ELSE entry'[c] = EmptyTree
  /\ unrecorded' = {} /\ cut' = cut \ astray'
  /\ UNCHANGED <<heap, place, next_rid, stmt>>

Next ==
  \/ \E row \in Rows : Insert(row)
  \/ \E s \in Scans : \E rid \in s.todo :
       DeleteNext(s, rid) \/ UpdateNext(s, rid) \/ UpdateNextNoRoom(s, rid)
  \/ EndStatement
  \/ \E c \in Columns : CreateIndex(c) \/ DropIndex(c)
  \/ Reopen

Spec == Init /\ [][Next]_vars

-----------------------------------------------------------------------------
(* Types of all variables. *)
TypeOK ==
  /\ live \subseteq RowIds /\ \A r \in live : r < next_rid
  /\ heap \in [live -> Rows] /\ place \in [live -> Places]
  /\ next_rid \in 1 .. MaxRows + 1 /\ reopened \in BOOLEAN
  /\ indexed \subseteq Columns /\ UniqueColumns \subseteq indexed
  /\ dropped \subseteq Columns \ indexed
  /\ astray \subseteq indexed /\ unrecorded \subseteq Followed /\ cut \subseteq Followed
  /\ entry \in [Columns -> Trees]
  /\ stmt.kind \in {"none", "delete", "update"} /\ stmt.todo \subseteq live

(* Every entry of an index leads to a live row with its key, so a SELECT   *)
(* that follows the index reads no deleted row and no other key, whatever  *)
(* statements and restarts came before (DeleteExecutor, InsertExecutor,    *)
(* IndexInfo::Init), also when AdjustRoot gave up its root.  Not so for an *)
(* index that is astray: an UPDATE changed its column in place, it was     *)
(* loaded with an outdated root, or it came back after DROP INDEX.         *)
IndexSound ==
  \A c \in indexed \ astray, v \in Values :
    entry[c][v] # NoRowId => entry[c][v] \in live /\ heap[entry[c][v]][c] = v

(* Every live row is found through the index of each unique column, so     *)
(* two live rows never have the same key there (InsertExecutor,            *)
(* DeleteExecutor), through restarts too.  Not so once the index is        *)
(* astray, or lost a root that held a key (AdjustRoot).                    *)
UniqueIndexComplete ==
  \A c \in UniqueColumns \ (astray \cup cut), r \in live : entry[c][heap[r][c]] = r

(* UPDATE goes on until its scan has returned every row. *)
UpdatesAll ==
  [][\A s \in Scans : \A rid \in s.todo : UpdateNext(s, rid) => s.todo = {rid}]_vars
=============================================================================
