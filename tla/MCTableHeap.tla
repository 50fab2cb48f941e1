---------------------------- MODULE MCTableHeap ----------------------------
(***************************************************************************)
(* Three instances of TableHeap in one run.  "chain" has the constants of  *)
(* the configuration: three pages, rows of one, two and three bytes.       *)
(* "page" has one larger page, deletions that are rolled back and a row    *)
(* that fits in no page.  "reopened" opens the heap again between calls.   *)
(***************************************************************************)
EXTENDS TableHeap

VARIABLE scenario  \* which of the instances the behaviour is of

SmallRowSize == [a |-> 1, c |-> 2, d |-> 3]
SmallRows == DOMAIN SmallRowSize
PageRowSize == [a |-> 1, b |-> 1, c |-> 2, d |-> 3, e |-> 9]

Page == INSTANCE TableHeap WITH
  Rows <- DOMAIN PageRowSize, RowSize <- PageRowSize, Pages <- {1}, PAGE_SIZE <- 8,
  Calls <- {"insert", "mark", "update", "apply", "rollback"}

Reopened == INSTANCE TableHeap WITH
  Pages <- {1, 2}, PAGE_SIZE <- 6, Calls <- {"insert", "mark", "update", "reopen"}

MCInit ==
  \/ scenario = "chain" /\ Init
  \/ scenario = "page" /\ Page!Init
  \/ scenario = "reopened" /\ Reopened!Init

MCNext ==
  /\ \/ scenario = "chain" /\ Next
     \/ scenario = "page" /\ Page!Next
     \/ scenario = "reopened" /\ Reopened!Next
  /\ UNCHANGED scenario

MCSpec == MCInit /\ [][MCNext]_<<vars, scenario>>

(* InsertTuple adds a page to the table only when no page has room, as     *)
(* long as the heap is not reopened and its map fits in one page, which    *)
(* is so in the instance "chain".                                          *)
NewPageOnlyWhenFull == [][scenario = "chain" => NewPageIfFull]_vars

(* Reading a row id (GetTuple) gives the row that was stored there, byte   *)
(* for byte, and the tuples of a page, the marked ones too, fill it from   *)
(* the free space pointer to its end (UpdateTuple, ApplyDelete), whatever  *)
(* the other tuples of the page went through, in every instance.           *)
RowsIntactAll ==
  CASE scenario = "chain" -> TypeOK /\ RowsIntact /\ PacksTuples
    [] scenario = "page" -> Page!TypeOK /\ Page!RowsIntact /\ Page!PacksTuples
    [] scenario = "reopened" -> Reopened!TypeOK /\ Reopened!RowsIntact /\ Reopened!PacksTuples

(* Until the heap is reopened, the chain holds every page that stores rows *)
(* once, in both directions; the map has the free space of each; a scan    *)
(* that finds a row in the first page returns every stored row once; and   *)
(* DeleteTable gives back every page that stores rows.  It leaves the      *)
(* pages of the free-space map allocated (StorageReleased is false).       *)
ChainSound ==
  scenario = "chain" =>
    ChainComplete /\ FreeSpaceAccurate /\ ScanFromFirstPage /\ PagesReleased
=============================================================================
