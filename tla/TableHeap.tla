----------------------------- MODULE TableHeap -----------------------------
(***************************************************************************)
(* The table heap of the kernel: TableHeap with its slotted TablePages,    *)
(* the FreeSpaceMap that picks the page of an insertion, and the scan of   *)
(* TableIterator.                                                          *)
(*                                                                         *)
(* One call of the heap is one action: the kernel runs one statement at a  *)
(* time.  A byte of a page is a cell that holds <<row, k>>, the k-th byte  *)
(* of a serialized row, or Blank below the free space pointer, where       *)
(* nothing is read.  The buffer pool holds every page of the table (it     *)
(* writes them all when the database is closed), so dirty flags and pins   *)
(* do not show; see BufferPool for a pool that must evict.                 *)
(***************************************************************************)
EXTENDS Integers, FiniteSets, SequencesExt

CONSTANTS
  Rows,                \* the rows
  RowSize,             \* the serialized size of each
  Pages,               \* the ids of the pages the table may get, from 1
  PAGE_SIZE, SIZE_TABLE_PAGE_HEADER, SIZE_TUPLE,
  SIZE_MAX_PAIR,       \* pairs of a page of the free-space map
  UintMod,             \* 2^32 in the code
  Calls                \* the calls of the client

INVALID_PAGE_ID == 0

SIZE_MAX_ROW == PAGE_SIZE - SIZE_TABLE_PAGE_HEADER - SIZE_TUPLE

ASSUME HeapAssumption ==
  /\ RowSize \in [Rows -> Nat \ {0}]
  /\ Pages = 1 .. Cardinality(Pages)
  /\ {PAGE_SIZE, SIZE_TABLE_PAGE_HEADER, SIZE_TUPLE, SIZE_MAX_PAIR} \subseteq Nat \ {0}
  /\ SIZE_MAX_ROW > 0 /\ UintMod > PAGE_SIZE
  /\ Calls \subseteq {"insert", "mark", "update", "apply", "rollback", "reopen", "delete"}

VARIABLES
  page,          \* the pages: slotted pages of the table, or Free
  first_page_id_,
  map,           \* the pages of the free-space map, each a sequence of <<page, free space>>
  last_page_id,  \* the page of the newest pair
  map_pages,     \* how many pages of the file were allocated for the map and not given back
  stored,        \* history: the row at every row id that was inserted and not deleted
  marked,        \* history: the row at every row id that is marked as deleted
  last,          \* the last call: what it answered and whether it took effect
  alive          \* the table was not deleted

vars == <<page, first_page_id_, map, last_page_id, map_pages, stored, marked, last, alive>>

Blank == <<>>
Offsets == 0 .. PAGE_SIZE - 1
Cells == {Blank} \cup UNION {{r} \X (1 .. RowSize[r]) : r \in Rows}
Slots == [offset : Offsets, size : Nat, deleted : BOOLEAN]
NoSlot == [offset |-> 0, size |-> 0, deleted |-> FALSE]

(* TablePage::Init. *)
Fresh(prev) == [prev |-> prev, next |-> INVALID_PAGE_ID, free_space_pointer |-> PAGE_SIZE,
                slots |-> <<>>, data |-> [b \in Offsets |-> Blank]]
Free == [Fresh(0) EXCEPT !.next = -1]

-----------------------------------------------------------------------------
(* TablePage.  Slot numbers count from 1.                                  *)

GetTupleCount(pg) == Len(pg.slots)

IsDeleted(s) == s.deleted \/ s.size = 0

GetFreeSpaceRemaining(pg) ==
  pg.free_space_pointer - SIZE_TABLE_PAGE_HEADER - SIZE_TUPLE * GetTupleCount(pg)

GetFreeSpace_TwoSlots(pg) == (GetFreeSpaceRemaining(pg) - 2 * SIZE_TUPLE) % UintMod

(* Unsigned: wraps around when not even a slot is left. *)
GetFreeSpace(pg) == (GetFreeSpaceRemaining(pg) - SIZE_TUPLE) % UintMod

SerializeTo(data, at, r) ==
  [b \in Offsets |-> IF b \in at .. at + RowSize[r] - 1 THEN <<r, b - at + 1>> ELSE data[b]]

Memmove_Skipped(data, to, from, n) == data

(* The n bytes at from move to to; what is below the new pointer is free. *)
Memmove(data, to, from, n) ==
  [b \in Offsets |-> IF b \in to .. to + n - 1 THEN data[b - to + from]
                     ELSE IF b < to THEN Blank ELSE data[b]]

HasRoom(pg, r) == GetFreeSpaceRemaining(pg) >= RowSize[r] + SIZE_TUPLE

(* The first slot whose tuple is gone, or one past the last. *)
FreeSlot(pg) ==
  LET gone == {i \in 1 .. GetTupleCount(pg) : pg.slots[i].size = 0}
  IN  IF gone = {} THEN GetTupleCount(pg) + 1 ELSE CHOOSE i \in gone : \A j \in gone : i <= j

PageInsert(pg, r) ==
  LET fsp == pg.free_space_pointer - RowSize[r]
      slot == [offset |-> fsp, size |-> RowSize[r], deleted |-> FALSE]
      i == FreeSlot(pg)
  IN  [pg EXCEPT !.free_space_pointer = fsp, !.data = SerializeTo(@, fsp, r),
                 !.slots = IF i > Len(@) THEN Append(@, slot) ELSE [@ EXCEPT ![i] = slot]]

(* Everything below the tuple of slot i moves by d. *)
ShiftSlots(pg, i, d, limit) ==
  [j \in 1 .. GetTupleCount(pg) |->
     IF pg.slots[j].size > 0 /\ pg.slots[j].offset < limit
     THEN [pg.slots[j] EXCEPT !.offset = @ + d] ELSE pg.slots[j]]

CanUpdate(pg, i, r) ==
  /\ i <= GetTupleCount(pg) /\ ~IsDeleted(pg.slots[i])
  /\ GetFreeSpaceRemaining(pg) + pg.slots[i].size >= RowSize[r]

PageUpdate(pg, i, r) ==
  LET s == pg.slots[i]
      fsp == pg.free_space_pointer
      d == s.size - RowSize[r]
      sized == [pg EXCEPT !.slots[i].size = RowSize[r]]
  IN  [sized EXCEPT !.free_space_pointer = fsp + d,
                    !.data = SerializeTo(Memmove(@, fsp + d, fsp, s.offset - fsp), s.offset + d, r),
                    !.slots = ShiftSlots(sized, i, d, s.offset + s.size)]

PageApplyDelete(pg, i) ==
  LET s == pg.slots[i]
      fsp == pg.free_space_pointer
      cleared == [pg EXCEPT !.slots[i] = NoSlot]
  IN  [cleared EXCEPT !.free_space_pointer = fsp + s.size,
                      !.data = Memmove(@, fsp + s.size, fsp, s.offset - fsp),
                      !.slots = ShiftSlots(cleared, i, s.size, s.offset)]

(* TableHeap::GetTuple: no row, or the bytes that are deserialized. *)
GetTuple(rid) ==
  LET pg == page[rid[1]]
      s == pg.slots[rid[2]]
  IN  IF rid[2] > GetTupleCount(pg) \/ IsDeleted(s) THEN {}
      ELSE {[k \in 1 .. s.size |-> pg.data[s.offset + k - 1]]}

-----------------------------------------------------------------------------
(* FreeSpaceMap. *)

Positions(m) == {<<i, j>> \in (1 .. Len(m)) \X (1 .. SIZE_MAX_PAIR) : j <= Len(m[i])}
Precedes(x, y) == x[1] < y[1] \/ (x[1] = y[1] /\ x[2] < y[2])
PositionsOf(m, p) == {x \in Positions(m) : m[x[1]][x[2]][1] = p}

SetFreeSpace_Never(m, p, free) == m

(* The first pair of the page gets the new value; without one, nothing. *)
SetFreeSpace(m, p, free) ==
  IF PositionsOf(m, p) = {} THEN m
  ELSE LET x == CHOOSE x \in PositionsOf(m, p) : \A y \in PositionsOf(m, p) : ~Precedes(y, x)
       IN  [m EXCEPT ![x[1]][x[2]][2] = free]

(* The first map page with room gets the pair, or a new one. *)
SetNewPair(m, p, free) ==
  LET room == {i \in 1 .. Len(m) : Len(m[i]) < SIZE_MAX_PAIR}
  IN  IF room = {} THEN Append(m, << <<p, free>> >>)
      ELSE LET i == CHOOSE i \in room : \A j \in room : i <= j
           IN  [m EXCEPT ![i] = Append(@, <<p, free>>)]

(* The pages that GetBegin and then GetNext return are those whose pair    *)
(* promises enough space, in order, up to the first where the row fits.    *)
Promised(r) == {x \in Positions(map) : map[x[1]][x[2]][2] >= RowSize[r]}
PageAt(x) == map[x[1]][x[2]][1]
Fitting(r) == {x \in Promised(r) : HasRoom(page[PageAt(x)], r)}
Earliest(X) == CHOOSE x \in X : \A y \in X : ~Precedes(y, x)
Latest(X) == CHOOSE x \in X : \A y \in X : ~Precedes(x, y)

(* When none is left they return last_page_id once more, unless the index  *)
(* of the last pair they returned, -1 if there was none, is that of the    *)
(* last pair of the last map page.                                         *)
PageTriedLast(r) ==
  LET none == Promised(r) = {}
      internal_index == IF none THEN -1 ELSE Latest(Promised(r))[2] - 1
      pair_count == Len(map[Len(map)])
  IN  IF internal_index # pair_count - 1 THEN last_page_id
      ELSE IF none THEN INVALID_PAGE_ID ELSE PageAt(Latest(Promised(r)))

-----------------------------------------------------------------------------
(* TableHeap. *)

(* The constructor of a new table: a page, and a map with its pair. *)
Init ==
  /\ page = [p \in Pages |-> IF p = 1 THEN Fresh(INVALID_PAGE_ID) ELSE Free]
  /\ first_page_id_ = 1
  /\ map = << << <<1, GetFreeSpace(Fresh(INVALID_PAGE_ID))>> >> >>
  /\ last_page_id = 1 /\ map_pages = 1
  /\ stored = <<>> /\ marked = <<>>
  /\ last = [call |-> "create", ok |-> TRUE, done |-> TRUE]
  /\ alive = TRUE

May(call) == alive /\ call \in Calls
Answers(call, ok, done) == last' = [call |-> call, ok |-> ok, done |-> done]
With(f, x, v) == [y \in DOMAIN f \cup {x} |-> IF y = x THEN v ELSE f[y]]
Without(f, x) == [y \in DOMAIN f \ {x} |-> f[y]]

RowIds == {<<p, i>> \in Pages \X (1 .. PAGE_SIZE) : page[p] # Free /\ i <= GetTupleCount(page[p]) + 1}

InsertInPage(r, p) ==
  /\ page' = [page EXCEPT ![p] = PageInsert(@, r)]
  /\ map' = SetFreeSpace(map, p, GetFreeSpace(page'[p]))
  /\ stored' = With(stored, <<p, FreeSlot(page[p])>>, r)
  /\ Answers("insert", TRUE, TRUE)
  /\ UNCHANGED <<last_page_id, map_pages>>

(* A new page p that follows prev. *)
Link(pages, prev, p) ==
  [q \in Pages |-> IF q = prev THEN [pages[q] EXCEPT !.next = p]
                   ELSE IF q = p THEN Fresh(prev) ELSE pages[q]]

(* The new page follows the page that was tried last, if there was one. *)
InsertInNewPage(r, prev) ==
  LET free == {p \in Pages : page[p] = Free}
      p == CHOOSE p \in free : \A q \in free : p <= q
      linked == Link(page, prev, p)
  IN  IF free = {}
      THEN /\ Answers("insert", FALSE, FALSE)
           /\ UNCHANGED <<page, map, last_page_id, map_pages, stored>>
      ELSE /\ page' = [linked EXCEPT ![p] = PageInsert(@, r)]
           /\ map' = SetNewPair(map, p, GetFreeSpace(page'[p]))
           /\ last_page_id' = p
           /\ map_pages' = map_pages + Len(map') - Len(map)
           /\ stored' = With(stored, <<p, 1>>, r)
           /\ Answers("insert", TRUE, TRUE)

InsertTuple(r) ==
  /\ May("insert")
  /\ IF RowSize[r] > SIZE_MAX_ROW
     THEN /\ Answers("insert", FALSE, FALSE)
          /\ UNCHANGED <<page, map, last_page_id, map_pages, stored>>
     ELSE IF Fitting(r) # {} THEN InsertInPage(r, PageAt(Earliest(Fitting(r))))
     ELSE LET tried == PageTriedLast(r) IN
          IF tried # INVALID_PAGE_ID /\ HasRoom(page[tried], r) THEN InsertInPage(r, tried)
          ELSE InsertInNewPage(r, tried)
  /\ UNCHANGED <<first_page_id_, marked, alive>>

(* What the calls for one row id share: the page may change, its pair follows. *)
PageBecomes(p, pg) ==
  /\ page' = [page EXCEPT ![p] = pg]
  /\ map' = SetFreeSpace(map, p, GetFreeSpace(pg))
  /\ UNCHANGED <<first_page_id_, last_page_id, map_pages, alive>>

(* TableHeap does not look at what TablePage::MarkDelete answers. *)
MarkDelete(rid) ==
  LET pg == page[rid[1]]
      live == rid[2] <= GetTupleCount(pg) /\ ~IsDeleted(pg.slots[rid[2]])
  IN  /\ May("mark")
      /\ PageBecomes(rid[1], IF live THEN [pg EXCEPT !.slots[rid[2]].deleted = TRUE] ELSE pg)
      /\ Answers("mark", TRUE, live)
      /\ stored' = Without(stored, rid)
      /\ marked' = IF live THEN With(marked, rid, stored[rid]) ELSE marked

(* TablePage::UpdateTuple answers true or false; TableHeap takes the value *)
(* as a code and 0 as success.                                             *)
UpdateTuple(rid, r) ==
  LET pg == page[rid[1]]
      can == CanUpdate(pg, rid[2], r)
  IN  /\ May("update")
      /\ IF GetTuple(rid) = {}
         THEN /\ Answers("update", FALSE, FALSE)
              /\ UNCHANGED <<page, map, first_page_id_, last_page_id, map_pages, stored, alive>>
         ELSE /\ PageBecomes(rid[1], IF can THEN PageUpdate(pg, rid[2], r) ELSE pg)
              /\ Answers("update", ~can, can)
              /\ stored' = IF can THEN With(stored, rid, r) ELSE stored
      /\ UNCHANGED marked

(* On a commit a marked tuple is removed, on an abort an inserted one. *)
ApplyDelete(rid) ==
  /\ May("apply") /\ rid[2] <= GetTupleCount(page[rid[1]]) /\ page[rid[1]].slots[rid[2]].size # 0
  /\ PageBecomes(rid[1], PageApplyDelete(page[rid[1]], rid[2]))
  /\ Answers("apply", TRUE, TRUE)
  /\ stored' = Without(stored, rid) /\ marked' = Without(marked, rid)

RollbackDelete(rid) ==
  /\ May("rollback") /\ rid \in DOMAIN marked
  /\ PageBecomes(rid[1], [page[rid[1]] EXCEPT !.slots[rid[2]].deleted = FALSE])
  /\ Answers("rollback", TRUE, TRUE)
  /\ stored' = With(stored, rid, marked[rid])
  /\ marked' = Without(marked, rid)

(* The constructor of an existing table: FreeSpaceMap empties the first    *)
(* page of the map and forgets the others, which stay allocated.           *)
Reopen ==
  /\ May("reopen")
  /\ map' = << <<>> >> /\ last_page_id' = INVALID_PAGE_ID
  /\ Answers("reopen", TRUE, TRUE)
  /\ UNCHANGED <<page, first_page_id_, map_pages, stored, marked, alive>>

(* The pages from first_page_id_ along the next pointers. *)
Chain ==
  FoldLeft(LAMBDA c, i : LET n == page[c[Len(c)]].next
                         IN  IF n \in Pages THEN Append(c, n) ELSE c,
           <<first_page_id_>>, [i \in 1 .. Cardinality(Pages) |-> i])

(* DeleteTable gives back the pages of the chain and none of the map's. *)
DeleteTable ==
  /\ May("delete")
  /\ page' = [p \in Pages |-> IF p \in Range(Chain) THEN Free ELSE page[p]]
  /\ stored' = <<>> /\ marked' = <<>> /\ alive' = FALSE
  /\ Answers("delete", TRUE, TRUE)
  /\ UNCHANGED <<first_page_id_, map, last_page_id, map_pages>>

Next ==
  \/ \E r \in Rows : InsertTuple(r)
  \/ \E rid \in RowIds :
       \/ MarkDelete(rid) \/ ApplyDelete(rid) \/ RollbackDelete(rid)
       \/ \E r \in Rows : UpdateTuple(rid, r)
  \/ Reopen
  \/ DeleteTable

Spec == Init /\ [][Next]_vars

-----------------------------------------------------------------------------
(* The scan: Begin looks at the first page only, MoveToNextTuple walks     *)
(* along the slots and the chain.                                          *)

LiveSlots(p) == SelectSeq([i \in 1 .. GetTupleCount(page[p]) |-> <<p, i>>],
                          LAMBDA rid : ~IsDeleted(page[p].slots[rid[2]]))
Begin == LiveSlots(first_page_id_)
MoveToNextTuple == FlattenSeq([i \in 1 .. Len(Chain) |-> LiveSlots(Chain[i])])
Scan == IF Begin = <<>> THEN <<>> ELSE MoveToNextTuple

-----------------------------------------------------------------------------
(* The pages of the file that the table holds: its own, which store the    *)
(* rows, and those of its free-space map.                                  *)
Allocated == {p \in Pages : page[p] # Free}
PagesHeld == Cardinality(Allocated) + map_pages

(* Types of all variables. *)
TypeOK ==
  /\ \A p \in Pages :
       /\ {page[p].prev} \subseteq Pages \cup {INVALID_PAGE_ID}
       /\ {page[p].next} \subseteq Pages \cup {INVALID_PAGE_ID, -1}
       /\ page[p].free_space_pointer \in SIZE_TABLE_PAGE_HEADER .. PAGE_SIZE
       /\ page[p].slots \in Seq(Slots) /\ page[p].data \in [Offsets -> Cells]
  /\ first_page_id_ \in Pages
  /\ \A x \in Positions(map) : PageAt(x) \in Pages /\ map[x[1]][x[2]][2] \in 0 .. UintMod - 1
  /\ last_page_id \in Pages \cup {INVALID_PAGE_ID}
  /\ map_pages \in Nat
  /\ DOMAIN stored \subseteq RowIds /\ DOMAIN marked \subseteq RowIds
  /\ last.ok \in BOOLEAN /\ last.done \in BOOLEAN /\ alive \in BOOLEAN

(* Reading a row id gives the row that was stored there, byte for byte,    *)
(* whatever the other tuples of the page went through, and nothing for a   *)
(* row id whose tuple is deleted.                                          *)
RowsIntact ==
  alive => \A rid \in RowIds :
    GetTuple(rid) = IF rid \in DOMAIN stored
                    THEN {[k \in 1 .. RowSize[stored[rid]] |-> <<stored[rid], k>>]} ELSE {}

(* The tuples of a page, the marked ones too, fill it from the free space  *)
(* pointer to its end and leave its slots alone.                           *)
PacksTuples ==
  \A p \in Allocated :
    LET size == [i \in 1 .. GetTupleCount(page[p]) |-> page[p].slots[i].size]
        bytes(i) == page[p].slots[i].offset .. page[p].slots[i].offset + size[i] - 1
    IN  /\ GetFreeSpaceRemaining(page[p]) >= 0
        /\ UNION {bytes(i) : i \in DOMAIN size} = page[p].free_space_pointer .. PAGE_SIZE - 1
        /\ \A i, j \in DOMAIN size : i # j => bytes(i) \cap bytes(j) = {}

(* The map has one pair for every page of the table, with its free space.  *)
FreeSpaceAccurate ==
  alive => /\ \A p \in Allocated : Cardinality(PositionsOf(map, p)) = 1
           /\ \A x \in Positions(map) : map[x[1]][x[2]][2] = GetFreeSpace(page[PageAt(x)])

(* The chain holds every page of the table once, in both directions.       *)
ChainComplete ==
  alive => /\ Range(Chain) = Allocated /\ IsInjective(Chain)
           /\ \A i \in 2 .. Len(Chain) : page[Chain[i]].prev = Chain[i - 1]

(* InsertTuple adds a page to the table only when no page has room.        *)
NewPageIfFull ==
  \A r \in Rows : (\E rid \in DOMAIN stored' \ DOMAIN stored : stored'[rid] = r /\ page[rid[1]] = Free)
    => \A p \in Allocated : ~HasRoom(page[p], r)

(* A scan returns every stored row once.                                   *)
ScanExact == alive => Range(Scan) = DOMAIN stored /\ IsInjective(Scan)

(* The scan is exact as long as the first page holds a row.                *)
ScanFromFirstPage == alive /\ Begin # <<>> => Range(Scan) = DOMAIN stored /\ IsInjective(Scan)

(* MarkDelete answers true iff it found a tuple to delete.                 *)
MarkDeleteAnswers == last.call = "mark" => last.ok = last.done

(* UpdateTuple answers true iff it updated the tuple.                      *)
UpdateAnswers == last.call = "update" => last.ok = last.done

(* DeleteTable releases the storage of the table in the disk file, as      *)
(* table_heap.h:97-99 says: false, the pages of the map stay allocated.    *)
StorageReleased == ~alive => PagesHeld = 0

(* DeleteTable gives back every page that stores rows: what the table      *)
(* still holds are the pages of its map, at least one.                     *)
PagesReleased == ~alive => PagesHeld = map_pages /\ map_pages >= Len(map)
=============================================================================
