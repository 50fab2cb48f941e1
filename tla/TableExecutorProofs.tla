------------------------ MODULE TableExecutorProofs ------------------------
(***************************************************************************)
(* Proofs about TableExecutor, for any columns, values and number of rows. *)
(***************************************************************************)
EXTENDS TableExecutor, TLAPS

(* A statement that is running: the rows its scan has still to meet are live,
   and the values of an UPDATE are values of their columns. *)
IsStatement(s) ==
  /\ s = [kind |-> s.kind, todo |-> s.todo, attrs |-> s.attrs]
  /\ s.kind \in {"delete", "update"} /\ s.todo \subseteq live
  /\ s.kind = "update" => s.attrs \in Attrs

StatementOK == stmt = Idle \/ IsStatement(stmt)

(* The invariants need each other: Insert finds a free key because the index
   is complete, a delete leaves no entry behind because it is sound. *)
IndexInv == TypeOK /\ StatementOK /\ IndexSound /\ UniqueIndexComplete

-----------------------------------------------------------------------------
LEMMA RowIdsAreNat == MaxRows \in Nat /\ \A r \in RowIds : r \in Nat /\ r # NoRowId
  BY ExecutorAssumption DEF RowIds, NoRowId

LEMMA RowsAreRows ==
  ASSUME NEW row \in Rows
  PROVE  /\ row = [c \in Columns |-> row[c]]
         /\ \A c \in Columns : row[c] \in Values /\ row[c] \in Domain[c]
  BY DEF Rows, Fields

LEMMA TreeFacts ==
  /\ EmptyTree \in Trees
  /\ \A v \in Values : EmptyTree[v] = NoRowId
  BY DEF EmptyTree, Trees

(* The tuples, their keys and the trees of a state with the right types. *)
LEMMA StateFacts ==
  ASSUME TypeOK
  PROVE  /\ \A r \in live : r \in RowIds /\ r # NoRowId /\ heap[r] \in Rows
         /\ \A r \in live, c \in Columns : heap[r][c] \in Values
         /\ \A c \in Columns : entry[c] \in Trees
         /\ Followed \subseteq Columns /\ UniqueColumns \ astray \subseteq Followed
<1>1. \A r \in live : r \in RowIds /\ r # NoRowId /\ heap[r] \in Rows
  BY RowIdsAreNat DEF TypeOK
<1>2. \A r \in live, c \in Columns : heap[r][c] \in Values
  BY <1>1, RowsAreRows
<1> QED
  BY <1>1, <1>2 DEF TypeOK, Followed

(* The rows that a scan meets are live. *)
LEMMA ScannedIsLive == Scanned \subseteq live
  BY DEF Scanned

(* DELETE and UPDATE have the right types, running or at their begin. *)
LEMMA ScansAreStatements ==
  ASSUME StatementOK, NEW s \in Scans
  PROVE  IsStatement(s)
<1>1. CASE stmt # Idle
  BY <1>1 DEF Scans, StatementOK
<1>2. CASE stmt = Idle
  <2>1. s = Begins("delete", <<>>) \/ \E attrs \in Attrs : s = Begins("update", attrs)
    BY <1>2 DEF Scans
  <2> QED BY <2>1, ScannedIsLive DEF Begins, IsStatement
<1> QED
  BY <1>1, <1>2

(* A statement goes on with rows that are live after the step. *)
LEMMA StatementGoesOn ==
  ASSUME NEW s, IsStatement(s), NEW rid, GoesOn(s, rid), live \ {rid} \subseteq live'
  PROVE  StatementOK' /\ stmt'.kind \in {"none", "delete", "update"} /\ stmt'.todo \subseteq live'
<1>1. stmt' = [kind |-> s.kind, todo |-> s.todo \ {rid}, attrs |-> s.attrs]
  BY DEF GoesOn, IsStatement
<1> QED
  BY <1>1 DEF StatementOK, IsStatement

LEMMA IdleIsOK ==
  ASSUME stmt' = Idle
  PROVE  StatementOK' /\ stmt'.kind \in {"none", "delete", "update"} /\ stmt'.todo \subseteq live'
  BY DEF StatementOK, Idle

(* RemoveEntry leaves the other keys, or gives up the whole tree. *)
LEMMA RemoveFacts ==
  ASSUME NEW tree \in Trees, NEW key \in Values, NEW rid, NEW v \in Values
  PROVE  /\ RemoveEntry(tree, key, rid) \in Trees
         /\ RemoveEntry(tree, key, rid)[v] # NoRowId => v # key /\ RemoveEntry(tree, key, rid)[v] = tree[v]
         /\ ~LosesRoot(tree, key) /\ v # key => RemoveEntry(tree, key, rid)[v] = tree[v]
<1>1. CASE LosesRoot(tree, key)
  BY <1>1, TreeFacts DEF RemoveEntry
<1>2. CASE ~LosesRoot(tree, key)
  BY <1>2 DEF RemoveEntry, Trees
<1> QED
  BY <1>1, <1>2

(* InsertEntry adds the key unless it is there. *)
LEMMA InsertFacts ==
  ASSUME NEW tree \in Trees, NEW key \in Values, NEW rid \in RowIds, NEW v \in Values
  PROVE  /\ InsertEntry(tree, key, rid) \in Trees
         /\ v # key => InsertEntry(tree, key, rid)[v] = tree[v]
         /\ tree[key] = NoRowId => InsertEntry(tree, key, rid)[key] = rid
  BY DEF InsertEntry, Trees

(* A tree that is filled from the scan keeps its entries and gets entries of
   live rows under their keys. *)
LEMMA FillFacts ==
  ASSUME NEW c, NEW tree, NEW t \in Fill(tree, c), NEW v \in Values
  PROVE  /\ t \in Trees
         /\ tree[v] # NoRowId => t[v] = tree[v]
         /\ tree[v] = NoRowId /\ t[v] # NoRowId => t[v] \in live /\ heap[t[v]][c] = v
<1>1. t \in Trees /\ IF tree[v] # NoRowId \/ {r \in Scanned : heap[r][c] = v} = {}
                     THEN t[v] = tree[v] ELSE t[v] \in {r \in Scanned : heap[r][c] = v}
  BY DEF Fill
<1> QED
  BY <1>1, ScannedIsLive

-----------------------------------------------------------------------------
LEMMA IndexInvInit == Init => IndexInv
<1> SUFFICES ASSUME Init PROVE IndexInv
  OBVIOUS
<1>1. live = {} /\ Followed = UniqueColumns
  BY DEF Init, live, Followed
<1>2. entry \in [Columns -> Trees]
  BY TreeFacts DEF Init
<1>3. heap \in [live -> Rows] /\ place \in [live -> Places]
  BY <1>1 DEF Init
<1>4. next_rid \in 1 .. MaxRows + 1
  BY RowIdsAreNat DEF Init
<1>5. TypeOK
  BY <1>1, <1>2, <1>3, <1>4, ExecutorAssumption DEF Init, TypeOK, Idle
<1>6. StatementOK
  BY DEF Init, StatementOK
<1>7. IndexSound
  BY <1>1, TreeFacts, ExecutorAssumption DEF Init, IndexSound
<1>8. UniqueIndexComplete
  BY <1>1 DEF UniqueIndexComplete
<1> QED
  BY <1>5, <1>6, <1>7, <1>8 DEF IndexInv

LEMMA InsertKeepsIndex ==
  ASSUME IndexInv, NEW row \in Rows, Insert(row)
  PROVE  IndexInv'
<1> USE DEF IndexInv
<1>0. /\ next_rid <= MaxRows /\ \A c \in Followed : entry[c][row[c]] = NoRowId
      /\ heap' = At(heap, next_rid, row) /\ next_rid' = next_rid + 1
      /\ entry' = [c \in Columns |-> IF c \in Followed THEN InsertEntry(entry[c], row[c], next_rid) ELSE entry[c]]
      /\ stmt' = Idle /\ UNCHANGED <<reopened, indexed, dropped, astray, unrecorded, cut>>
  BY DEF Insert
<1>p. PICK p \in Places : place' = At(place, next_rid, p)
  BY DEF Insert, PlacesFor, Places
<1>1. next_rid \in RowIds /\ next_rid \in Nat /\ next_rid # NoRowId /\ next_rid \notin live
  BY <1>0, ExecutorAssumption DEF TypeOK, RowIds, NoRowId
<1>2. \A c \in Columns : row[c] \in Values
  BY RowsAreRows
<1>3. live' = live \cup {next_rid} /\ \A r \in live' : heap'[r] = IF r = next_rid THEN row ELSE heap[r]
  BY <1>0 DEF At, live
<1>4. Followed' = Followed
  BY <1>0 DEF Followed
<1>5. \A c \in Followed : /\ entry'[c] \in Trees
                          /\ \A v \in Values : entry'[c][v] = IF v = row[c] THEN next_rid ELSE entry[c][v]
  BY <1>0, <1>1, <1>2, StateFacts, InsertFacts
<1>6. TypeOK'
  <2>1. heap' \in [live' -> Rows]
    BY <1>0, <1>3, StateFacts DEF At, live
  <2>2. place' \in [live' -> Places]
    <3>1. place' = [r \in live' |-> IF r = next_rid THEN p ELSE place[r]]
      BY <1>p, <1>3 DEF At, TypeOK
    <3> QED BY <3>1, <1>3 DEF TypeOK
  <2>3. live' \subseteq RowIds
    BY <1>1, <1>3 DEF TypeOK
  <2>4. next_rid' \in 1 .. MaxRows + 1
    BY <1>0, <1>1, RowIdsAreNat DEF TypeOK
  <2>5. \A r \in live' : r < next_rid'
    <3> SUFFICES ASSUME NEW r \in live' PROVE r < next_rid'
      OBVIOUS
    <3>1. r \in Nat /\ (r = next_rid \/ r < next_rid)
      BY <1>3, <2>3, RowIdsAreNat DEF TypeOK
    <3> QED BY <1>0, <1>1, <3>1
  <2>6. \A c \in Columns : entry'[c] \in Trees
    BY <1>0, <1>5, StateFacts
  <2>7. entry' \in [Columns -> Trees]
    BY <1>0, <2>6
  <2>8. /\ reopened' \in BOOLEAN /\ indexed' \subseteq Columns /\ UniqueColumns \subseteq indexed'
        /\ dropped' \subseteq Columns \ indexed' /\ astray' \subseteq indexed'
        /\ unrecorded' \subseteq Followed' /\ cut' \subseteq Followed'
    BY <1>0, <1>4 DEF TypeOK
  <2> QED BY <1>0, <2>1, <2>2, <2>3, <2>4, <2>5, <2>7, <2>8, IdleIsOK DEF TypeOK
<1>7. StatementOK'
  BY <1>0, IdleIsOK
<1>8. IndexSound'
  <2> SUFFICES ASSUME NEW c \in Followed, NEW v \in Values, entry'[c][v] # NoRowId
               PROVE  entry'[c][v] \in live' /\ heap'[entry'[c][v]][c] = v
    BY <1>4 DEF IndexSound, Followed
  <2>1. CASE v = row[c]
    BY <2>1, <1>3, <1>5
  <2>2. CASE v # row[c]
    <3>1. entry'[c][v] = entry[c][v] /\ entry[c][v] \in live /\ heap[entry[c][v]][c] = v
      BY <2>2, <1>5 DEF IndexSound, Followed
    <3> QED BY <3>1, <1>1, <1>3
  <2> QED BY <2>1, <2>2
<1>9. UniqueIndexComplete'
  <2> SUFFICES ASSUME NEW c \in UniqueColumns \ (astray \cup cut), NEW r \in live'
               PROVE  entry'[c][heap'[r][c]] = r
    BY <1>0 DEF UniqueIndexComplete
  <2>0. c \in Followed /\ c \in Columns
    BY StateFacts
  <2>1. CASE r = next_rid
    BY <2>0, <2>1, <1>2, <1>3, <1>5
  <2>2. CASE r # next_rid
    <3>1. r \in live /\ heap'[r] = heap[r]
      BY <2>2, <1>3
    <3>2. entry[c][heap[r][c]] = r /\ heap[r][c] \in Values /\ r # NoRowId
      BY <2>0, <3>1, StateFacts DEF UniqueIndexComplete
    <3>3. heap[r][c] # row[c]
      BY <1>0, <2>0, <3>2
    <3> QED BY <2>0, <3>1, <3>2, <3>3, <1>5
  <2> QED BY <2>1, <2>2
<1> QED
  BY <1>6, <1>7, <1>8, <1>9

(* What TreesBecome does to the trees. *)
LEMMA TreesBecomeFacts ==
  ASSUME TypeOK, NEW new, NEW C \in SUBSET Followed, TreesBecome(new, C),
         indexed' = indexed, \A c \in Followed \ C : new[c] \in Trees
  PROVE  /\ Followed' = Followed \ C /\ astray' \subseteq indexed'
         /\ \A c \in Followed' : entry'[c] = new[c]
         /\ entry' \in [Columns -> Trees]
<1>1. /\ astray' = astray \cup C
      /\ entry' = [c \in Columns |-> IF c \in Followed \ C THEN new[c] ELSE EmptyTree]
  BY DEF TreesBecome
<1>2. Followed' = Followed \ C
  BY <1>1 DEF Followed
<1>3. \A c \in Columns : entry'[c] \in Trees
  BY <1>1, TreeFacts
<1>4. entry' \in [Columns -> Trees]
  BY <1>1, <1>3
<1> QED
  BY <1>1, <1>2, <1>4, StateFacts DEF TypeOK, Followed

(* What RootsChange does: an index that loses a root with a key in it is cut. *)
LEMMA RootsChangeFacts ==
  ASSUME TypeOK, NEW key, RootsChange(key), Followed' = Followed \ astray'
  PROVE  /\ unrecorded' \subseteq Followed' /\ cut' \subseteq Followed'
         /\ \A c \in Followed' \ cut' :
              c \notin cut /\ \A v \in Keys(entry[c]) : v # key[c] => ~LosesRoot(entry[c], key[c])
<1> DEFINE rootless == {c \in Followed : Keys(entry[c]) # {} /\ LosesRoot(entry[c], key[c])}
           cutting == {c \in rootless : Keys(entry[c]) # {key[c]}}
<1>1. PICK shrunk \in SUBSET Followed : unrecorded' = (unrecorded \cup rootless \cup shrunk) \ astray'
  BY DEF RootsChange
<1>2. cut' = (cut \cup cutting) \ astray'
  BY DEF RootsChange
<1>3. unrecorded' \subseteq Followed' /\ cut' \subseteq Followed'
  BY <1>1, <1>2 DEF TypeOK
<1>4. ASSUME NEW c \in Followed' \ cut' PROVE c \notin cut /\ c \notin cutting /\ c \in Followed
  BY <1>2, <1>4
<1> QED
  BY <1>3, <1>4

(* The types, once the trees and the statement have theirs and a step keeps
   what else there is. *)
LEMMA TypesKept ==
  ASSUME TypeOK, live' \subseteq live, heap' \in [live' -> Rows], place' \in [live' -> Places],
         UNCHANGED <<next_rid, reopened, indexed, dropped>>,
         astray' \subseteq indexed', entry' \in [Columns -> Trees],
         unrecorded' \subseteq Followed', cut' \subseteq Followed',
         stmt'.kind \in {"none", "delete", "update"}, stmt'.todo \subseteq live'
  PROVE  TypeOK'
  BY DEF TypeOK

LEMMA DeleteKeepsIndex ==
  ASSUME IndexInv, NEW s \in Scans, NEW rid \in s.todo, DeleteNext(s, rid)
  PROVE  IndexInv'
<1> USE DEF IndexInv
<1> DEFINE new == [c \in Columns |-> RemoveEntry(entry[c], heap[rid][c], rid)]
<1>0. /\ heap' = Without(heap, rid) /\ place' = Without(place, rid)
      /\ TreesBecome(new, {}) /\ RootsChange(heap[rid]) /\ GoesOn(s, rid)
      /\ UNCHANGED <<next_rid, reopened, indexed, dropped>>
  BY DEF DeleteNext
<1>1. IsStatement(s) /\ rid \in live
  BY ScansAreStatements DEF IsStatement
<1>2. live' = live \ {rid} /\ \A r \in live' : heap'[r] = heap[r]
  BY <1>0 DEF Without, live
<1>3. \A c \in Columns : heap[rid][c] \in Values /\ entry[c] \in Trees
  BY <1>1, StateFacts
<1>4. \A c \in Columns, v \in Values :
        /\ new[c] \in Trees
        /\ new[c][v] # NoRowId => v # heap[rid][c] /\ new[c][v] = entry[c][v]
        /\ ~LosesRoot(entry[c], heap[rid][c]) /\ v # heap[rid][c] => new[c][v] = entry[c][v]
  BY <1>3, RemoveFacts
<1>a. \A c \in Columns : new[c] \in Trees
  BY <1>3, <1>4
<1> HIDE DEF new
<1>5. /\ Followed' = Followed /\ astray' \subseteq indexed' /\ astray' = astray
      /\ \A c \in Followed : entry'[c] = new[c]
      /\ entry' \in [Columns -> Trees]
  <2>1. Followed \subseteq Columns /\ {} \in SUBSET Followed /\ astray' = astray
    BY <1>0, StateFacts DEF TreesBecome
  <2> QED BY <1>0, <1>a, <2>1, TreesBecomeFacts
<1>6. /\ unrecorded' \subseteq Followed' /\ cut' \subseteq Followed'
      /\ \A c \in Followed \ cut' :
           c \notin cut /\ \A v \in Keys(entry[c]) : v # heap[rid][c] => ~LosesRoot(entry[c], heap[rid][c])
  <2>1. Followed' = Followed \ astray'
    BY <1>5 DEF Followed
  <2> QED BY <1>0, <1>5, <2>1, RootsChangeFacts
<1>7. StatementOK' /\ stmt'.kind \in {"none", "delete", "update"} /\ stmt'.todo \subseteq live'
  BY <1>0, <1>1, <1>2, StatementGoesOn
<1>8. TypeOK'
  <2>1. heap' \in [live' -> Rows]
    BY <1>0, <1>2, StateFacts DEF Without, live
  <2>2. place' \in [live' -> Places]
    <3>1. place' = [r \in live' |-> place[r]]
      BY <1>0, <1>2 DEF Without, TypeOK
    <3> QED BY <3>1, <1>2 DEF TypeOK
  <2> QED BY <1>0, <1>2, <1>5, <1>6, <1>7, <2>1, <2>2, TypesKept
<1>9. IndexSound'
  <2> SUFFICES ASSUME NEW c \in Followed, NEW v \in Values, entry'[c][v] # NoRowId
               PROVE  entry'[c][v] \in live' /\ heap'[entry'[c][v]][c] = v
    BY <1>5 DEF IndexSound, Followed
  <2>1. v # heap[rid][c] /\ entry'[c][v] = entry[c][v]
    BY <1>4, <1>5, StateFacts
  <2>2. entry[c][v] \in live /\ heap[entry[c][v]][c] = v
    BY <2>1 DEF IndexSound, Followed
  <2> QED BY <1>2, <2>1, <2>2
<1>10. UniqueIndexComplete'
  <2> SUFFICES ASSUME NEW c \in UniqueColumns \ (astray \cup cut'), NEW r \in live'
               PROVE  entry'[c][heap'[r][c]] = r
    BY <1>5 DEF UniqueIndexComplete
  <2>1. c \in Followed /\ c \in Columns /\ c \notin cut /\ r \in live /\ r # rid
    BY <1>2, <1>6, StateFacts
  <2>2. entry[c][heap[r][c]] = r /\ entry[c][heap[rid][c]] = rid
    BY <1>1, <2>1 DEF UniqueIndexComplete
  <2>3. heap[r][c] \in Values /\ heap[r][c] # heap[rid][c] /\ r # NoRowId
    BY <2>1, <2>2, StateFacts
  <2>4. heap[r][c] \in Keys(entry[c])
    BY <2>2, <2>3 DEF Keys
  <2>5. ~LosesRoot(entry[c], heap[rid][c])
    BY <1>6, <2>1, <2>3, <2>4
  <2> QED BY <1>2, <1>4, <1>5, <2>1, <2>2, <2>3, <2>5
<1> QED
  BY <1>7, <1>8, <1>9, <1>10

(* An UPDATE gives a row values of its columns. *)
LEMMA UpdatedIsRow ==
  ASSUME NEW s, IsStatement(s), s.kind = "update", NEW row \in Rows
  PROVE  GenerateUpdatedTuple(s, row) \in Rows
<1>1. PICK C \in SUBSET Columns : s.attrs \in Fields(C)
  BY DEF IsStatement, Attrs
<1>2. \A c \in DOMAIN s.attrs : c \in Columns /\ s.attrs[c] \in Values /\ s.attrs[c] \in Domain[c]
  BY <1>1 DEF Fields
<1>3. \A c \in Columns : row[c] \in Values /\ row[c] \in Domain[c]
  BY RowsAreRows
<1> QED
  BY <1>2, <1>3 DEF GenerateUpdatedTuple, Rows, Fields

LEMMA UpdateKeepsIndex ==
  ASSUME IndexInv, NEW s \in Scans, NEW rid \in s.todo, UpdateNext(s, rid)
  PROVE  IndexInv'
<1> USE DEF IndexInv
<1> DEFINE dest == GenerateUpdatedTuple(s, heap[rid])
           C == Changed(heap[rid], dest)
<1>0. /\ s.kind = "update" /\ heap' = [heap EXCEPT ![rid] = dest]
      /\ TreesBecome(entry, C)
      /\ unrecorded' = unrecorded \ astray' /\ cut' = cut \ astray' /\ stmt' = Idle
      /\ UNCHANGED <<place, next_rid, reopened, indexed, dropped>>
  BY DEF UpdateNext
<1>1. IsStatement(s) /\ rid \in live
  BY ScansAreStatements DEF IsStatement
<1>2. dest \in Rows
  BY <1>0, <1>1, StateFacts, UpdatedIsRow
<1>3. C \in SUBSET Followed /\ \A c \in Followed \ C : dest[c] = heap[rid][c]
  BY DEF Changed
<1> HIDE DEF dest, C
<1>4. live' = live /\ \A r \in live : heap'[r] = IF r = rid THEN dest ELSE heap[r]
  BY <1>0, <1>1 DEF TypeOK, live
<1>5. \A r \in live, c \in Followed \ C : heap'[r][c] = heap[r][c]
  BY <1>3, <1>4
<1>6. /\ Followed' = Followed \ C /\ astray' \subseteq indexed' /\ astray' = astray \cup C
      /\ \A c \in Followed' : entry'[c] = entry[c]
      /\ entry' \in [Columns -> Trees]
  <2>1. astray' = astray \cup C /\ \A c \in Followed \ C : entry[c] \in Trees
    BY <1>0, StateFacts DEF TreesBecome
  <2> QED BY <1>0, <1>3, <2>1, TreesBecomeFacts
<1>7. TypeOK'
  <2>1. heap' \in [live' -> Rows] /\ place' \in [live' -> Places]
    BY <1>0, <1>2, <1>4 DEF TypeOK
  <2>2. unrecorded' \subseteq Followed' /\ cut' \subseteq Followed'
    BY <1>0, <1>6 DEF TypeOK
  <2> QED BY <1>0, <1>4, <1>6, <2>1, <2>2, IdleIsOK, TypesKept
<1>8. StatementOK'
  BY <1>0, IdleIsOK
<1>9. IndexSound'
  <2> SUFFICES ASSUME NEW c \in Followed \ C, NEW v \in Values, entry'[c][v] # NoRowId
               PROVE  entry'[c][v] \in live' /\ heap'[entry'[c][v]][c] = v
    BY <1>6 DEF IndexSound, Followed
  <2>1. entry'[c][v] = entry[c][v] /\ entry[c][v] \in live /\ heap[entry[c][v]][c] = v
    BY <1>6 DEF IndexSound, Followed
  <2> QED BY <1>4, <1>5, <2>1
<1>10. UniqueIndexComplete'
  <2> SUFFICES ASSUME NEW c \in UniqueColumns \ (astray' \cup cut'), NEW r \in live
               PROVE  entry'[c][heap'[r][c]] = r
    BY <1>4 DEF UniqueIndexComplete
  <2>1. c \in Followed \ C /\ c \notin astray /\ c \notin cut
    BY <1>0, <1>6, StateFacts
  <2>2. entry'[c] = entry[c] /\ heap'[r][c] = heap[r][c]
    BY <1>5, <1>6, <2>1
  <2> QED BY <2>1, <2>2 DEF UniqueIndexComplete
<1> QED
  BY <1>7, <1>8, <1>9, <1>10

LEMMA UpdateNoRoomKeepsIndex ==
  ASSUME IndexInv, NEW s \in Scans, NEW rid \in s.todo, UpdateNextNoRoom(s, rid)
  PROVE  IndexInv'
<1> USE DEF IndexInv
<1> DEFINE dest == GenerateUpdatedTuple(s, heap[rid])
           C == Changed(heap[rid], dest)
           removed(c) == RemoveEntry(entry[c], heap[rid][c], rid)
           new == [c \in Columns |-> InsertEntry(removed(c), dest[c], rid)]
<1>0. /\ s.kind = "update" /\ TreesBecome(new, C) /\ RootsChange(heap[rid]) /\ GoesOn(s, rid)
      /\ UNCHANGED disk /\ UNCHANGED <<indexed, dropped>>
  BY DEF UpdateNextNoRoom
<1>1. IsStatement(s) /\ rid \in live /\ rid \in RowIds /\ rid # NoRowId
  BY ScansAreStatements, StateFacts DEF IsStatement
<1>2. dest \in Rows
  BY <1>0, <1>1, StateFacts, UpdatedIsRow
<1>3. C \in SUBSET Followed /\ \A c \in Followed \ C : dest[c] = heap[rid][c]
  BY DEF Changed
<1>4. \A c \in Columns : heap[rid][c] \in Values /\ dest[c] \in Values /\ entry[c] \in Trees
  BY <1>1, <1>2, RowsAreRows, StateFacts
<1> HIDE DEF dest, C
<1>5. \A c \in Columns, v \in Values :
        /\ removed(c) \in Trees
        /\ removed(c)[v] # NoRowId => v # heap[rid][c] /\ removed(c)[v] = entry[c][v]
        /\ ~LosesRoot(entry[c], heap[rid][c]) /\ v # heap[rid][c] => removed(c)[v] = entry[c][v]
  BY <1>4, RemoveFacts
<1> HIDE DEF removed
<1>6. \A c \in Columns, v \in Values :
        /\ new[c] \in Trees
        /\ v # dest[c] => new[c][v] = removed(c)[v]
        /\ removed(c)[dest[c]] = NoRowId => new[c][dest[c]] = rid
  BY <1>1, <1>4, <1>5, InsertFacts
<1>a. \A c \in Columns : new[c] \in Trees
  BY <1>4, <1>6
<1> HIDE DEF new
<1>7. \A c \in Followed \ C, v \in Values :
        /\ v = heap[rid][c] => new[c][v] = rid
        /\ v # heap[rid][c] /\ new[c][v] # NoRowId => new[c][v] = entry[c][v]
        /\ v # heap[rid][c] /\ ~LosesRoot(entry[c], heap[rid][c]) => new[c][v] = entry[c][v]
  <2> SUFFICES ASSUME NEW c \in Followed \ C, NEW v \in Values
               PROVE  /\ v = heap[rid][c] => new[c][v] = rid
                      /\ v # heap[rid][c] /\ new[c][v] # NoRowId => new[c][v] = entry[c][v]
                      /\ v # heap[rid][c] /\ ~LosesRoot(entry[c], heap[rid][c]) => new[c][v] = entry[c][v]
    OBVIOUS
  <2>1. c \in Columns /\ dest[c] = heap[rid][c]
    BY <1>3, StateFacts
  <2>2. removed(c)[heap[rid][c]] = NoRowId
    BY <1>4, <1>5, <2>1
  <2> QED BY <1>5, <1>6, <2>1, <2>2
<1>8. /\ Followed' = Followed \ C /\ astray' \subseteq indexed' /\ astray' = astray \cup C
      /\ \A c \in Followed' : entry'[c] = new[c]
      /\ entry' \in [Columns -> Trees]
  <2>1. astray' = astray \cup C /\ Followed \subseteq Columns
    BY <1>0, StateFacts DEF TreesBecome
  <2> QED BY <1>0, <1>3, <1>a, <2>1, TreesBecomeFacts
<1>9. /\ unrecorded' \subseteq Followed' /\ cut' \subseteq Followed'
      /\ \A c \in Followed' \ cut' :
           c \notin cut /\ \A v \in Keys(entry[c]) : v # heap[rid][c] => ~LosesRoot(entry[c], heap[rid][c])
  <2>1. Followed' = Followed \ astray'
    BY <1>8 DEF Followed
  <2> QED BY <1>0, <2>1, RootsChangeFacts
<1>10. live' = live /\ heap' = heap /\ place' = place
  BY <1>0 DEF disk, live
<1>11. StatementOK' /\ stmt'.kind \in {"none", "delete", "update"} /\ stmt'.todo \subseteq live'
  BY <1>0, <1>1, <1>10, StatementGoesOn
<1>12. TypeOK'
  BY <1>0, <1>8, <1>9, <1>10, <1>11, TypesKept DEF disk, TypeOK
<1>13. IndexSound'
  <2> SUFFICES ASSUME NEW c \in Followed \ C, NEW v \in Values, entry'[c][v] # NoRowId
               PROVE  entry'[c][v] \in live /\ heap[entry'[c][v]][c] = v
    BY <1>8, <1>10 DEF IndexSound, Followed
  <2>1. entry'[c] = new[c]
    BY <1>8
  <2>2. CASE v = heap[rid][c]
    BY <1>1, <1>7, <2>1, <2>2
  <2>3. CASE v # heap[rid][c]
    <3>1. entry'[c][v] = entry[c][v]
      BY <1>7, <2>1, <2>3
    <3> QED BY <3>1 DEF IndexSound, Followed
  <2> QED BY <2>2, <2>3
<1>14. UniqueIndexComplete'
  <2> SUFFICES ASSUME NEW c \in UniqueColumns \ (astray' \cup cut'), NEW r \in live
               PROVE  entry'[c][heap[r][c]] = r
    BY <1>10 DEF UniqueIndexComplete
  <2>1. c \in Followed \ C /\ c \in Followed' \ cut' /\ c \in Columns /\ c \notin astray /\ c \notin cut
    BY <1>8, <1>9, StateFacts
  <2>2. entry[c][heap[r][c]] = r /\ entry[c][heap[rid][c]] = rid /\ entry'[c] = new[c]
    BY <1>1, <1>8, <2>1 DEF UniqueIndexComplete
  <2>3. heap[r][c] \in Values /\ r # NoRowId
    BY <2>1, StateFacts
  <2>4. CASE heap[r][c] = heap[rid][c]
    BY <1>7, <2>1, <2>2, <2>3, <2>4
  <2>5. CASE heap[r][c] # heap[rid][c]
    <3>1. heap[r][c] \in Keys(entry[c])
      BY <2>2, <2>3 DEF Keys
    <3>2. ~LosesRoot(entry[c], heap[rid][c])
      BY <1>9, <2>1, <2>5, <3>1
    <3> QED BY <1>7, <2>1, <2>2, <2>3, <2>5, <3>2
  <2> QED BY <2>4, <2>5
<1> QED
  BY <1>11, <1>12, <1>13, <1>14

(* An index that another one replaces, or none. *)
LEMMA NewTreeKeepsIndex ==
  ASSUME IndexInv, NEW c \in Columns \ UniqueColumns, NEW t \in Trees, NewTree(c, t),
         \A v \in Values : t[v] # NoRowId => t[v] \in live /\ heap[t[v]][c] = v,
         indexed' \in {indexed \cup {c}, indexed \ {c}}, dropped' \subseteq Columns \ indexed',
         UNCHANGED disk, stmt' = Idle
  PROVE  IndexInv'
<1> USE DEF IndexInv
<1>1. /\ entry' = [entry EXCEPT ![c] = t]
      /\ unrecorded' = unrecorded \ {c} /\ astray' = astray \ {c} /\ cut' = cut \ {c}
      /\ heap' = heap /\ place' = place /\ next_rid' = next_rid /\ reopened' = reopened /\ live' = live
  BY DEF NewTree, disk, live
<1>2. \A d \in Columns : entry'[d] = IF d = c THEN t ELSE entry[d]
  BY <1>1 DEF TypeOK
<1>3. indexed' \subseteq Columns /\ UniqueColumns \subseteq indexed' /\ astray' \subseteq indexed'
  BY <1>1 DEF TypeOK
<1>4. Followed \ {c} \subseteq Followed' /\ Followed' \subseteq Followed \cup {c} /\ Followed \subseteq Columns
  BY <1>1, StateFacts DEF Followed
<1>5. entry' \in [Columns -> Trees]
  BY <1>1 DEF TypeOK
<1>6. unrecorded' \subseteq Followed' /\ cut' \subseteq Followed'
  BY <1>1, <1>4 DEF TypeOK
<1>7. TypeOK'
  <2>1. /\ live' \subseteq RowIds /\ \A r \in live' : r < next_rid'
        /\ heap' \in [live' -> Rows] /\ place' \in [live' -> Places]
        /\ next_rid' \in 1 .. MaxRows + 1 /\ reopened' \in BOOLEAN
    BY <1>1 DEF TypeOK
  <2> QED BY <1>3, <1>5, <1>6, <2>1, IdleIsOK DEF TypeOK
<1>8. StatementOK'
  BY IdleIsOK
<1>9. IndexSound'
  <2> SUFFICES ASSUME NEW d \in Followed', NEW v \in Values, entry'[d][v] # NoRowId
               PROVE  entry'[d][v] \in live /\ heap[entry'[d][v]][d] = v
    BY <1>1 DEF IndexSound, Followed
  <2>1. CASE d = c
    BY <1>2, <2>1
  <2>2. CASE d # c
    <3>1. d \in Followed /\ entry'[d] = entry[d]
      BY <1>2, <1>4, <2>2
    <3> QED BY <3>1 DEF IndexSound, Followed
  <2> QED BY <2>1, <2>2
<1>10. UniqueIndexComplete'
  <2> SUFFICES ASSUME NEW d \in UniqueColumns \ (astray \cup cut), NEW r \in live
               PROVE  entry'[d][heap[r][d]] = r
    BY <1>1 DEF UniqueIndexComplete
  <2>1. entry'[d] = entry[d]
    BY <1>2, StateFacts
  <2> QED BY <2>1 DEF UniqueIndexComplete
<1> QED
  BY <1>7, <1>8, <1>9, <1>10

LEMMA IndexStatementsKeepIndex ==
  ASSUME IndexInv, NEW c \in Columns, CreateIndex(c) \/ DropIndex(c)
  PROVE  IndexInv'
<1>1. CASE CreateIndex(c)
  <2>1. PICK t \in Fill(EmptyTree, c) : NewTree(c, t)
    BY <1>1 DEF CreateIndex
  <2>2. t \in Trees /\ c \notin UniqueColumns
    BY <1>1 DEF Fill, CreateIndex, IndexInv, TypeOK
  <2>3. \A v \in Values : t[v] # NoRowId => t[v] \in live /\ heap[t[v]][c] = v
    BY <2>1, FillFacts, TreeFacts
  <2>4. /\ indexed' = indexed \cup {c} /\ dropped' \subseteq Columns \ indexed'
        /\ UNCHANGED disk /\ stmt' = Idle
    BY <1>1 DEF CreateIndex, Ready, IndexInv, TypeOK
  <2> QED BY <2>1, <2>2, <2>3, <2>4, NewTreeKeepsIndex
<1>2. CASE DropIndex(c)
  <2>1. /\ NewTree(c, EmptyTree) /\ c \notin UniqueColumns
        /\ indexed' = indexed \ {c} /\ dropped' \subseteq Columns \ indexed'
        /\ UNCHANGED disk /\ stmt' = Idle
    BY <1>2 DEF DropIndex, Ready, IndexInv, TypeOK
  <2> QED BY <2>1, TreeFacts, NewTreeKeepsIndex
<1> QED
  BY <1>1, <1>2

LEMMA ReopenKeepsIndex ==
  ASSUME IndexInv, Reopen
  PROVE  IndexInv'
<1> USE DEF IndexInv
<1>0. /\ stmt = Idle /\ stmt' = stmt /\ reopened' = TRUE
      /\ indexed' = indexed \cup dropped /\ dropped' = {} /\ astray' = astray \cup unrecorded \cup dropped
      /\ \A c \in Columns : IF c \in Followed \ unrecorded THEN entry'[c] \in Fill(entry[c], c)
                                                            ELSE entry'[c] = EmptyTree
      /\ unrecorded' = {} /\ cut' = cut \ astray'
      /\ UNCHANGED <<heap, place, next_rid>>
  BY DEF Reopen, Ready
<1>1. Followed' = Followed \ unrecorded /\ astray' \subseteq indexed' /\ live' = live
  BY <1>0 DEF Followed, TypeOK, live
<1>2. \A c \in Followed' : c \in Columns /\ entry'[c] \in Fill(entry[c], c)
  BY <1>0, <1>1, StateFacts
<1>3. \A c \in Columns : entry'[c] \in Trees
  BY <1>0, TreeFacts DEF Fill
<1>4. entry' \in [Columns -> Trees]
  <2>1. DOMAIN entry' = Columns /\ entry' = [c \in Columns |-> entry'[c]]
    BY DEF Reopen
  <2> QED BY <1>3, <2>1
<1>5. \A c \in Followed', v \in Values :
        /\ entry[c][v] # NoRowId => entry'[c][v] = entry[c][v]
        /\ entry[c][v] = NoRowId /\ entry'[c][v] # NoRowId =>
             entry'[c][v] \in live /\ heap[entry'[c][v]][c] = v
  <2> SUFFICES ASSUME NEW c \in Followed', NEW v \in Values
               PROVE  /\ entry[c][v] # NoRowId => entry'[c][v] = entry[c][v]
                      /\ entry[c][v] = NoRowId /\ entry'[c][v] # NoRowId =>
                           entry'[c][v] \in live /\ heap[entry'[c][v]][c] = v
    OBVIOUS
  <2>1. PICK t : t = entry'[c]
    OBVIOUS
  <2>2. t \in Fill(entry[c], c)
    BY <1>2, <2>1
  <2> QED BY <2>1, <2>2, FillFacts
<1>6. TypeOK'
  BY <1>0, <1>1, <1>4 DEF TypeOK, Idle
<1>7. StatementOK'
  BY <1>0 DEF StatementOK
<1>8. IndexSound'
  <2> SUFFICES ASSUME NEW c \in Followed', NEW v \in Values, entry'[c][v] # NoRowId
               PROVE  entry'[c][v] \in live /\ heap[entry'[c][v]][c] = v
    BY <1>0, <1>1 DEF IndexSound, Followed
  <2>1. entry[c][v] # NoRowId => entry[c][v] \in live /\ heap[entry[c][v]][c] = v
    BY <1>1 DEF IndexSound, Followed
  <2> QED BY <1>5, <2>1
<1>9. UniqueIndexComplete'
  <2> SUFFICES ASSUME NEW c \in UniqueColumns \ (astray' \cup cut'), NEW r \in live
               PROVE  entry'[c][heap[r][c]] = r
    BY <1>0, <1>1 DEF UniqueIndexComplete
  <2>1. c \in Followed' /\ c \in Columns /\ c \notin astray /\ c \notin cut
    BY <1>0, <1>1, StateFacts
  <2>2. entry[c][heap[r][c]] = r /\ heap[r][c] \in Values /\ r # NoRowId
    BY <2>1, StateFacts DEF UniqueIndexComplete
  <2> QED BY <1>5, <2>1, <2>2
<1> QED
  BY <1>6, <1>7, <1>8, <1>9

LEMMA EndKeepsIndex ==
  ASSUME IndexInv, EndStatement
  PROVE  IndexInv'
<1>1. UNCHANGED <<disk, trees>> /\ stmt' = Idle
  BY DEF EndStatement
<1>2. live' = live /\ Followed' = Followed
  BY <1>1 DEF disk, trees, live, Followed
<1>3. TypeOK'
  BY <1>1, <1>2, IdleIsOK DEF IndexInv, TypeOK, disk, trees
<1>4. IndexSound' /\ UniqueIndexComplete'
  BY <1>1, <1>2 DEF IndexInv, IndexSound, UniqueIndexComplete, disk, trees
<1> QED
  BY <1>1, <1>3, <1>4, IdleIsOK DEF IndexInv

LEMMA IndexInvStep == IndexInv /\ [Next]_vars => IndexInv'
<1> SUFFICES ASSUME IndexInv, [Next]_vars PROVE IndexInv'
  OBVIOUS
<1>1. ASSUME NEW row \in Rows, Insert(row) PROVE IndexInv'
  BY <1>1, InsertKeepsIndex
<1>2. ASSUME NEW s \in Scans, NEW rid \in s.todo, DeleteNext(s, rid) PROVE IndexInv'
  BY <1>2, DeleteKeepsIndex
<1>3. ASSUME NEW s \in Scans, NEW rid \in s.todo, UpdateNext(s, rid) PROVE IndexInv'
  BY <1>3, UpdateKeepsIndex
<1>4. ASSUME NEW s \in Scans, NEW rid \in s.todo, UpdateNextNoRoom(s, rid) PROVE IndexInv'
  BY <1>4, UpdateNoRoomKeepsIndex
<1>5. CASE EndStatement
  BY <1>5, EndKeepsIndex
<1>6. ASSUME NEW c \in Columns, CreateIndex(c) \/ DropIndex(c) PROVE IndexInv'
  BY <1>6, IndexStatementsKeepIndex
<1>7. CASE Reopen
  BY <1>7, ReopenKeepsIndex
<1>8. CASE UNCHANGED vars
  <2>1. live' = live /\ Followed' = Followed
    BY <1>8 DEF vars, live, Followed
  <2>2. TypeOK'
    BY <1>8, <2>1 DEF vars, IndexInv, TypeOK
  <2>3. StatementOK'
    BY <1>8, <2>1 DEF vars, IndexInv, StatementOK, IsStatement
  <2> QED BY <1>8, <2>1, <2>2, <2>3 DEF vars, IndexInv, IndexSound, UniqueIndexComplete
<1> QED
  BY <1>1, <1>2, <1>3, <1>4, <1>5, <1>6, <1>7, <1>8 DEF Next

(* Rows, indexes and the running statement keep their types. *)
THEOREM ExecutorTypeCorrect == Spec => []TypeOK
<1>1. IndexInv => TypeOK
  BY DEF IndexInv
<1> QED
  BY <1>1, IndexInvInit, IndexInvStep, PTL DEF Spec

(* An index leads to live rows that have its key (InsertExecutor,
   DeleteExecutor and UpdateExecutor, CreateIndex and the loading of the
   catalog), in the middle of a statement too and also when its tree gave up
   a root, until the index goes astray: an UPDATE changes its column in
   place, or it is loaded with a root that is not its own or after it was
   dropped. *)
THEOREM IndexSoundSafe == Spec => []IndexSound
<1>1. IndexInv => IndexSound
  BY DEF IndexInv
<1> QED
  BY <1>1, IndexInvInit, IndexInvStep, PTL DEF Spec

(* The index of a unique column has every live row, so that a second row
   with its key is refused, until the index goes astray or its tree gives up
   a root that holds a key (AdjustRoot). *)
THEOREM UniqueIndexSafe == Spec => []UniqueIndexComplete
<1>1. IndexInv => UniqueIndexComplete
  BY DEF IndexInv
<1> QED
  BY <1>1, IndexInvInit, IndexInvStep, PTL DEF Spec
=============================================================================
