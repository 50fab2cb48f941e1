----------------------------- MODULE BufferPool -----------------------------
(***************************************************************************)
(* The buffer pool of the MiniSQL kernel (buffer/buffer_pool_manager.cpp)  *)
(* with its LRU replacer (buffer/lru_replacer.cpp) on top of DiskManager,  *)
(* used by one client: tables, indexes and the catalog own the pages they  *)
(* created, fetch, write, unpin, flush and delete them, and use a page     *)
(* only while they have it pinned.  The kernel runs one statement at a     *)
(* time and the pool's latch is never taken.                               *)
(***************************************************************************)
EXTENDS DiskManager, Sequences, SequencesExt

CONSTANTS
    PoolSize,    \* frames are 0 .. PoolSize - 1
    MaxPins,     \* bound on the pins of a client on a page
    MaxOwned,    \* bound on the pages in use, below the size of the file
    MaxSpoils    \* bound on deletions and evictions of dirty frames

ASSUME PoolAssumption ==
    /\ {PoolSize, MaxPins, MaxOwned} \subseteq Nat \ {0}
    /\ MaxOwned < MaxBitmap * BitmapSize
    /\ MaxSpoils \in Nat

VARIABLES
    frame,       \* pages_: page id, pin count, dirty flag and data of a frame
    page_table_, \* page id -> frame
    free_list_,  \* frames that were never used or were given back
    lru,         \* the replacer's list, the next victim last
    held,        \* the client's pins: page -> frame it was given -> count
    owned,       \* pages the client created and did not delete
    spoils       \* history: dirty frames evicted and pages deleted so far

poolVars == <<frame, page_table_, free_list_, lru>>
clientVars == <<held, owned, spoils>>
vars == <<diskVars, poolVars, clientVars>>

Frames  == 0 .. PoolSize - 1
NoPage  == -1
NoFrame == -1

EmptyFrame == [page |-> NoPage, pin |-> 0, dirty |-> FALSE, data |-> Zero]

NotHeld == [f \in Frames |-> 0]

TypeOK ==
    /\ DiskTypeOK
    /\ frame \in [Frames -> [page : Pages \cup {NoPage}, pin : Nat, dirty : BOOLEAN,
                             data : Values]]
    /\ page_table_ \in [Pages -> Frames \cup {NoFrame}]
    /\ free_list_ \in Seq(Frames)
    /\ lru \in Seq(Frames) /\ IsInjective(lru)
    /\ held \in [Pages -> [Frames -> 0 .. MaxPins]]
    /\ owned \subseteq Pages
    /\ spoils \in 0 .. MaxSpoils

Init ==
    /\ DiskInit
    /\ frame = [f \in Frames |-> EmptyFrame]
    /\ page_table_ = [p \in Pages |-> NoFrame]
    /\ free_list_ = [i \in 1 .. PoolSize |-> i - 1]
    /\ lru = <<>>
    /\ held = [p \in Pages |-> NotHeld]
    /\ owned = {}
    /\ spoils = 0

Mapped(p) == page_table_[p] # NoFrame

-----------------------------------------------------------------------------
(* The replacer.                                                           *)

(* Unlinks the node of the frame, if it has one.                           *)
ReplacerPin(list, f) == RemoveFirst(list, f)

ReplacerUnpin(list, f) == IF Contains(list, f) THEN list ELSE <<f>> \o list

(* Where FetchPage and NewPage find a frame: the free list first.          *)
HasFrame == free_list_ # <<>> \/ lru # <<>>

ChosenFrame == IF free_list_ # <<>> THEN Head(free_list_) ELSE Last(lru)

FreeListAfter == IF free_list_ # <<>> THEN Tail(free_list_) ELSE free_list_

(* Victim, and the Pin that follows                                        *)
LruAfter == ReplacerPin(lru, ChosenFrame)

(* A bug: the entry of the page that was in the frame stays.               *)
TableAfter_NoErase(p, f) == [page_table_ EXCEPT ![p] = f]

(* page_table_.erase(page->GetPageId()), then page_table_[page_id] = frame *)
TableAfter(p, f) ==
    [q \in Pages |-> IF q = p THEN f
                     ELSE IF q = frame[f].page THEN NoFrame ELSE page_table_[q]]

-----------------------------------------------------------------------------
(* Operations.                                                             *)

Spoil == spoils < MaxSpoils /\ spoils' = spoils + 1

Take(p, f) == held' = [held EXCEPT ![p][f] = @ + 1]

(* FetchPage of a page in the pool: pinned once more.                      *)
FetchHit(p) ==
    LET f == page_table_[p] IN
    /\ p \in owned /\ Mapped(p)
    /\ held[p][f] < MaxPins
    /\ frame' = [frame EXCEPT ![f].pin = @ + 1]
    /\ lru' = ReplacerPin(lru, f)
    /\ Take(p, f)
    /\ UNCHANGED <<diskVars, page_table_, free_list_, owned, spoils>>

(* FetchPage of a page that is not in the pool.  A dirty victim is written *)
(* to the page that is fetched, which is then read.                        *)
FetchMiss(p) ==
    LET f     == ChosenFrame
        file2 == IF frame[f].dirty THEN [file EXCEPT ![MapPageId(p)] = frame[f].data]
                                   ELSE file
    IN  /\ p \in owned /\ ~Mapped(p)
        /\ HasFrame
        /\ held[p][f] < MaxPins
        /\ file' = file2
        /\ frame' = [frame EXCEPT ![f] = [page |-> p, pin |-> 1, dirty |-> FALSE,
                                          data |-> file2[MapPageId(p)]]]
        /\ page_table_' = TableAfter(p, f)
        /\ free_list_' = FreeListAfter
        /\ lru' = LruAfter
        /\ Take(p, f)
        /\ IF frame[f].dirty THEN Spoil ELSE UNCHANGED spoils
        /\ UNCHANGED <<meta, owned>>

(* NewPage: AllocatePage, a frame as above; a dirty victim is written to   *)
(* the new page.  The memory is zeroed, the dirty flag and the pin count   *)
(* of the frame are not reset.                                             *)
NewPage ==
    LET f == ChosenFrame
        p == AllocatedPage
    IN  /\ HasFrame
        /\ Cardinality(owned) < MaxOwned
        /\ held[p][f] < MaxPins
        /\ file' = IF frame[f].dirty THEN [FileAfterAllocate EXCEPT ![MapPageId(p)] = frame[f].data]
                                     ELSE FileAfterAllocate
        /\ meta' = MetaAfterAllocate
        /\ frame' = [frame EXCEPT ![f] = [page |-> p, pin |-> @.pin + 1, dirty |-> @.dirty,
                                          data |-> Zero]]
        /\ page_table_' = TableAfter(p, f)
        /\ free_list_' = FreeListAfter
        /\ lru' = LruAfter
        /\ Take(p, f)
        /\ owned' = owned \cup {p}
        /\ IF frame[f].dirty THEN Spoil ELSE UNCHANGED spoils

(* A bug: the dirty flag is not set.                                       *)
UnpinnedFrame_Clean(f, dirty) == [frame[f] EXCEPT !.pin = @ - 1]

UnpinnedFrame(f, dirty) == [frame[f] EXCEPT !.pin = @ - 1, !.dirty = @ \/ dirty]

(* The client writes to the frame it holds, or only read it, and calls     *)
(* UnpinPage, which finds the frame by the page id.  A page that is not in *)
(* the pool or not pinned is logged and left alone.                        *)
UnpinPage(p, f, dirty, value) ==
    LET g       == page_table_[p]
        written == IF dirty THEN [frame EXCEPT ![f].data = value] ELSE frame
        known   == Mapped(p) /\ frame[g].pin > 0
    IN  /\ held[p][f] > 0
        /\ held' = [held EXCEPT ![p][f] = @ - 1]
        /\ frame' = IF known
                    THEN [written EXCEPT ![g] = [UnpinnedFrame(g, dirty) EXCEPT !.data = written[g].data]]
                    ELSE written
        /\ lru' = IF known /\ frame[g].pin = 1 THEN ReplacerUnpin(lru, g) ELSE lru
        /\ UNCHANGED <<diskVars, page_table_, free_list_, owned, spoils>>

FlushPage(p) ==
    /\ p \in owned /\ Mapped(p)
    /\ WritePage(p, frame[page_table_[p]].data)
    /\ frame' = [frame EXCEPT ![page_table_[p]].dirty = FALSE]
    /\ UNCHANGED <<page_table_, free_list_, lru, clientVars>>

(* DeletePage of a page in the pool gives it back to the disk and leaves   *)
(* the frame and the page table as they are.                               *)
DeleteMapped(p) ==
    /\ p \in owned /\ held[p] = NotHeld
    /\ Mapped(p)
    /\ DeAllocatePage(p)
    /\ owned' = owned \ {p}
    /\ Spoil
    /\ UNCHANGED <<poolVars, held>>

(* DeletePage of any other page: page_table_[page_id] creates an entry for *)
(* frame 0.  If that is pinned the entry stays and false is returned; if   *)
(* not, frame 0 is reset and added to the free list.                       *)
DeleteUnmapped(p) ==
    /\ p \in owned /\ held[p] = NotHeld
    /\ ~Mapped(p)
    /\ Spoil
    /\ \/ /\ frame[0].pin # 0
          /\ page_table_' = [page_table_ EXCEPT ![p] = 0]
          /\ UNCHANGED <<diskVars, frame, free_list_, owned>>
       \/ /\ frame[0].pin = 0
          /\ DeAllocatePage(p)
          /\ frame' = [frame EXCEPT ![0] = EmptyFrame]
          /\ free_list_' = <<0>> \o free_list_
          /\ owned' = owned \ {p}
          /\ UNCHANGED page_table_
    /\ UNCHANGED <<lru, held>>

(* The destructor flushes every page in the page table, then the file is   *)
(* closed and opened again with an empty pool.                             *)
Restart ==
    LET flushed == [k \in PhysicalIds |->
                      IF \E p \in Pages : Mapped(p) /\ MapPageId(p) = k
                      THEN frame[page_table_[CHOOSE p \in Pages :
                                                Mapped(p) /\ MapPageId(p) = k]].data
                      ELSE file[k]]
    IN  /\ held = [p \in Pages |-> NotHeld]
        /\ file' = Reopened(flushed).file
        /\ meta' = Reopened(flushed).meta
        /\ frame' = [f \in Frames |-> EmptyFrame]
        /\ page_table_' = [p \in Pages |-> NoFrame]
        /\ free_list_' = [i \in 1 .. PoolSize |-> i - 1]
        /\ lru' = <<>>
        /\ UNCHANGED clientVars

Next ==
    \/ NewPage
    \/ Restart
    \/ \E p \in Pages : FetchHit(p) \/ FetchMiss(p) \/ FlushPage(p)
    \/ \E p \in Pages : DeleteMapped(p) \/ DeleteUnmapped(p)
    \/ \E p \in Pages, f \in Frames :
          \/ UnpinPage(p, f, FALSE, Zero)
          \/ \E v \in Values : UnpinPage(p, f, TRUE, v)

Spec == Init /\ [][Next]_vars

-----------------------------------------------------------------------------
(* Properties.                                                             *)

(* A frame that somebody has pinned is never up for eviction, whatever     *)
(* DeletePage did before.                                                  *)
NoPinnedVictim == \A i \in DOMAIN lru : frame[lru[i]].pin = 0

(* Page table, frames, free list and replacer describe one pool: a frame   *)
(* is either free, or mapped by exactly its page; it is up for eviction    *)
(* exactly while it is mapped and unpinned; and its pins are the client's. *)
OnePool ==
    /\ \A p \in Pages : Mapped(p) => frame[page_table_[p]].page = p
    /\ \A f \in Frames :
          /\ frame[f].page # NoPage <=> ~Contains(free_list_, f)
          /\ frame[f].page # NoPage => page_table_[frame[f].page] = f
          /\ Contains(lru, f) <=> (frame[f].page # NoPage /\ frame[f].pin = 0)
          /\ frame[f].page # NoPage => frame[f].pin = held[frame[f].page][f]
    /\ IsInjective(free_list_)

(* The four structures of the pool agree until DeletePage or the eviction  *)
(* of a dirty frame breaks them; even then no pinned frame is up for       *)
(* eviction.                                                               *)
PoolConsistent == TypeOK /\ NoPinnedVictim /\ (spoils = 0 => OnePool)

(* What a fetch of the page would give.                                    *)
Current(p) == IF Mapped(p) THEN frame[page_table_[p]].data ELSE ReadPage(p)

(* A page reads as its last writer left it: fetches, evictions of clean    *)
(* frames, flushes, allocations of other pages and restarts never change   *)
(* what a page reads as; only a client that has it pinned does.            *)
ContentKeptClean ==
    [][spoils' = 0 =>
          \A p \in owned : Current(p)' # Current(p) =>
              \E f \in Frames : held'[p][f] < held[p][f]]_vars

(* The same, whatever is evicted: a dirty page is written back before its  *)
(* frame is used for another page.                                         *)
ContentKept ==
    [][\A p \in owned :
          Mapped(p) /\ frame[page_table_[p]].dirty /\ page_table_'[p] = NoFrame
             => ReadPage(p)' = frame[page_table_[p]].data]_vars
=============================================================================
