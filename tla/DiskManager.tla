---------------------------- MODULE DiskManager -----------------------------
(***************************************************************************)
(* The database file of the MiniSQL kernel (storage/disk_manager.cpp,      *)
(* page/bitmap_page.cpp, page/disk_file_meta_page.h).                      *)
(*                                                                         *)
(* The file is an array of physical pages: the meta page, and then extents *)
(* of one bitmap page and BitmapSize data pages.  A logical page number    *)
(* counts data pages only.  The counters of the meta page are kept in      *)
(* memory and written by Close(); a bitmap page is read and written back   *)
(* by every allocation.                                                    *)
(***************************************************************************)
EXTENDS Integers, FiniteSets, FiniteSetsExt

CONSTANTS
    BitmapSize,   \* BITMAP_SIZE: data pages of an extent
    MaxBitmap,    \* MAX_BITMAP: extents of a file
    Values        \* contents of a data page; Zero is one of them

Zero == 0

ASSUME DiskAssumption ==
    /\ BitmapSize \in Nat \ {0}
    /\ MaxBitmap \in Nat \ {0}
    /\ Values \subseteq Nat /\ Zero \in Values

VARIABLES
    file,   \* the database file, by physical page
    meta    \* meta_data_: the meta page in memory

diskVars == <<file, meta>>

Extents == 0 .. MaxBitmap - 1
Slots   == 0 .. BitmapSize - 1

(* Logical pages, 0 .. MAX_VALID_PAGE_ID - 1                               *)
Pages == 0 .. MaxBitmap * BitmapSize - 1

MetaPageId == 0

BitmapPageId(extent) == extent * (BitmapSize + 1) + 1

MapPageId(page) == (page \div BitmapSize) * (BitmapSize + 1) + (page % BitmapSize) + 2

MetaPage == [num_allocated_pages_ : Nat, num_extents_ : 0 .. MaxBitmap,
             extent_used_page_ : [Extents -> Nat]]

BitmapPage == [page_allocated_ : Nat, next_free_page_ : Slots, bytes : SUBSET Slots]

(* ReadPhysicalPage beyond the end of the file: a page of zeros.           *)
EmptyMeta == [num_allocated_pages_ |-> 0, num_extents_ |-> 0,
              extent_used_page_ |-> [i \in Extents |-> 0]]

EmptyBitmap == [page_allocated_ |-> 0, next_free_page_ |-> 0, bytes |-> {}]

BitmapIds   == {BitmapPageId(i) : i \in Extents}
PhysicalIds == 0 .. MaxBitmap * (BitmapSize + 1)

Bitmap(extent) == file[BitmapPageId(extent)]

DiskTypeOK ==
    /\ DOMAIN file = PhysicalIds
    /\ file[MetaPageId] \in MetaPage
    /\ \A i \in Extents : Bitmap(i) \in BitmapPage
    /\ \A p \in Pages : file[MapPageId(p)] \in Values
    /\ meta \in MetaPage

DiskInit ==
    /\ meta = EmptyMeta
    /\ file = [k \in PhysicalIds |->
                 IF k = MetaPageId THEN EmptyMeta
                 ELSE IF k \in BitmapIds THEN EmptyBitmap ELSE Zero]

-----------------------------------------------------------------------------
(* page/bitmap_page.cpp                                                    *)

Full(bitmap) == bitmap.page_allocated_ = BitmapSize

IsFree(bitmap, slot) == slot \notin bitmap.bytes

(* The loop over next_free_page_: the next free slot, around the end.      *)
FreeFrom(used, start) ==
    LET free  == Slots \ used
        after == {s \in free : s >= start}
    IN  IF after # {} THEN Min(after) ELSE Min(free)

(* BitmapPage::AllocatePage hands out next_free_page_ of a bitmap that is  *)
(* not full ...                                                            *)
BitmapAllocate(bitmap) ==
    LET used == bitmap.bytes \cup {bitmap.next_free_page_}
    IN  IF Full(bitmap) THEN bitmap
        ELSE [page_allocated_ |-> bitmap.page_allocated_ + 1,
              next_free_page_ |-> IF bitmap.page_allocated_ + 1 = BitmapSize THEN 0
                                  ELSE FreeFrom(used, bitmap.next_free_page_),
              bytes |-> used]

(* A bug: next_free_page_ is left on a slot that is taken.                 *)
BitmapDeAllocate_KeepNext(bitmap, slot) ==
    [bitmap EXCEPT !.bytes = @ \ {slot}, !.page_allocated_ = @ - 1]

(* ... and DeAllocatePage moves it only when the bitmap was full.          *)
BitmapDeAllocate(bitmap, slot) ==
    IF IsFree(bitmap, slot) THEN bitmap
    ELSE [page_allocated_ |-> bitmap.page_allocated_ - 1,
          next_free_page_ |-> IF Full(bitmap) THEN slot ELSE bitmap.next_free_page_,
          bytes |-> bitmap.bytes \ {slot}]

-----------------------------------------------------------------------------
(* storage/disk_manager.cpp                                                *)

(* The first extent that is not full, or the next one.                     *)
ExtentToUse ==
    LET open == {i \in 0 .. meta.num_extents_ - 1 :
                    meta.extent_used_page_[i] < BitmapSize}
    IN  IF open # {} THEN Min(open) ELSE meta.num_extents_

(* AllocatePage returns INVALID_PAGE_ID when all extents are full, and     *)
(* changes nothing.                                                        *)
DiskFull == ExtentToUse = MaxBitmap

AllocatedPage == ExtentToUse * BitmapSize + Bitmap(ExtentToUse).next_free_page_

(* The effect of AllocatePage on the bitmap page ...                       *)
FileAfterAllocate ==
    [file EXCEPT ![BitmapPageId(ExtentToUse)] = BitmapAllocate(@)]

(* ... and on the meta page.                                               *)
MetaAfterAllocate ==
    [num_allocated_pages_ |-> meta.num_allocated_pages_ + 1,
     num_extents_ |-> IF ExtentToUse = meta.num_extents_ THEN meta.num_extents_ + 1
                      ELSE meta.num_extents_,
     extent_used_page_ |-> [meta.extent_used_page_ EXCEPT ![ExtentToUse] = @ + 1]]

AllocatePage ==
    /\ ~DiskFull
    /\ file' = FileAfterAllocate
    /\ meta' = MetaAfterAllocate

(* The counters go down before the bitmap is asked whether the page is     *)
(* allocated at all: callers give back only what they own.                 *)
MetaAfterDeAllocate(page) ==
    [meta EXCEPT !.extent_used_page_[page \div BitmapSize] = @ - 1,
                 !.num_allocated_pages_ = @ - 1]

FileAfterDeAllocate(page) ==
    [file EXCEPT ![BitmapPageId(page \div BitmapSize)] =
                    BitmapDeAllocate(@, page % BitmapSize)]

IsPageFree(page) == IsFree(Bitmap(page \div BitmapSize), page % BitmapSize)

DeAllocatePage(page) ==
    /\ file' = FileAfterDeAllocate(page)
    /\ meta' = MetaAfterDeAllocate(page)

WritePage(page, value) ==
    /\ file' = [file EXCEPT ![MapPageId(page)] = value]
    /\ UNCHANGED meta

ReadPage(page) == file[MapPageId(page)]

(* A bug: Close does not write the meta page.                              *)
Reopened_NoMeta(f) == [file |-> f, meta |-> f[MetaPageId]]

(* Close writes the meta page; the constructor of the next DiskManager     *)
(* reads it.                                                               *)
Reopened(f) == [file |-> [f EXCEPT ![MetaPageId] = meta], meta |-> meta]

Reopen ==
    /\ file' = Reopened(file).file
    /\ meta' = Reopened(file).meta

DiskNext ==
    \/ AllocatePage
    \/ \E p \in Pages : ~IsPageFree(p) /\ DeAllocatePage(p)
    \/ \E p \in Pages, v \in Values : WritePage(p, v)
    \/ Reopen

DiskSpec == DiskInit /\ [][DiskNext]_diskVars

-----------------------------------------------------------------------------
(* Properties.                                                             *)

(* A bitmap with a free slot knows one: next_free_page_ is where the next  *)
(* page is allocated without a further look.                               *)
NextFreeIsFree ==
    \A i \in Extents : ~Full(Bitmap(i)) => IsFree(Bitmap(i), Bitmap(i).next_free_page_)

AllocatedPages == {p \in Pages : ~IsPageFree(p)}

(* The counters in memory, the counters of the bitmap pages and the bits   *)
(* agree: AllocatePage chooses the extent by the first, and trusts the     *)
(* bitmap page of that extent to have a free slot.                         *)
CountersAgree ==
    /\ \A i \in Extents :
          /\ Bitmap(i).page_allocated_ = Cardinality(Bitmap(i).bytes)
          /\ meta.extent_used_page_[i] = Bitmap(i).page_allocated_
          /\ i >= meta.num_extents_ => Bitmap(i).bytes = {}
    /\ meta.num_allocated_pages_ = Cardinality(AllocatedPages)

(* No page is handed out that somebody has: a step that allocates adds     *)
(* exactly one page, and it was free.                                      *)
PageIssuedOnce ==
    [][meta'.num_allocated_pages_ > meta.num_allocated_pages_ =>
          \E p \in Pages : IsPageFree(p) /\ AllocatedPages' = AllocatedPages \cup {p}]_diskVars
=============================================================================
