-------------------------- MODULE BufferPoolProofs --------------------------
(***************************************************************************)
(* Proofs about the database file and the buffer pool on top of it, for    *)
(* any number and size of extents, any pool size and any page contents.    *)
(* First the layout of the file: no two of the meta page, the bitmap pages *)
(* and the data pages fall on the same physical page.  Then a bitmap page  *)
(* by itself, then the file, then the pool.                                *)
(***************************************************************************)
EXTENDS BufferPool, TLAPS, FiniteSetTheorems, SequenceTheorems, WellFoundedInduction

(* Division with remainder.                                                *)
LEMMA DivMod ==
    ASSUME NEW n \in Nat, NEW d \in Nat \ {0}
    PROVE  /\ n \div d \in Nat
           /\ n % d \in 0 .. d - 1
           /\ n = (n \div d) * d + (n % d)
BY SMT

(* Multiplication keeps the order.                                         *)
LEMMA MulMono ==
    ASSUME NEW a \in Nat, NEW b \in Nat, NEW d \in Nat, a < b
    PROVE  (a + 1) * d <= b * d /\ a * d \in Nat /\ b * d \in Nat
<1>1. PICK k \in Nat : b = a + 1 + k
  BY SMT
<1>2. k * d \in Nat
  BY SMT
<1>3. b * d = (a + 1) * d + k * d
  BY <1>1, SMT
<1> QED BY <1>2, <1>3, SMT

(* Quotient and remainder are unique.                                      *)
LEMMA DivModUnique ==
    ASSUME NEW e \in Nat, NEW d \in Nat \ {0}, NEW s \in 0 .. d - 1
    PROVE  (e * d + s) \div d = e /\ (e * d + s) % d = s
<1> DEFINE n == e * d + s
           q == n \div d
           r == n % d
<1>1. n \in Nat
  BY SMT
<1>2. q \in Nat /\ r \in 0 .. d - 1 /\ n = q * d + r
  BY <1>1, DivMod
<1> HIDE DEF n, q, r
<1>n. n = e * d + s
  BY DEF n
<1>3. ~(q < e)
  <2> SUFFICES ASSUME q < e PROVE FALSE
    OBVIOUS
  <2>1. (q + 1) * d <= e * d /\ q * d \in Nat /\ e * d \in Nat
    BY <1>2, MulMono
  <2>2. (q + 1) * d = q * d + d
    BY <1>2, SMT
  <2> QED BY <2>1, <2>2, <1>2, <1>n, SMT
<1>4. ~(e < q)
  <2> SUFFICES ASSUME e < q PROVE FALSE
    OBVIOUS
  <2>1. (e + 1) * d <= q * d /\ q * d \in Nat /\ e * d \in Nat
    BY <1>2, MulMono
  <2>2. (e + 1) * d = e * d + d
    BY SMT
  <2> QED BY <2>1, <2>2, <1>2, <1>n, SMT
<1>5. q = e
  BY <1>2, <1>3, <1>4, SMT
<1>6. r = s
  BY <1>2, <1>5, <1>n, SMT
<1> QED BY <1>5, <1>6 DEF n, q, r

-----------------------------------------------------------------------------
(* The layout of the file.                                                 *)

(* Bitmap pages lie inside the file and are not the meta page.             *)
LEMMA BitmapPlaces ==
    ASSUME NEW i \in Extents
    PROVE  BitmapPageId(i) \in PhysicalIds /\ BitmapPageId(i) # MetaPageId
<1>1. i \in Nat /\ MaxBitmap \in Nat /\ i < MaxBitmap /\ BitmapSize \in Nat \ {0}
  BY DiskAssumption DEF Extents
<1>2. /\ (i + 1) * (BitmapSize + 1) <= MaxBitmap * (BitmapSize + 1)
      /\ i * (BitmapSize + 1) \in Nat /\ MaxBitmap * (BitmapSize + 1) \in Nat
  BY <1>1, MulMono
<1>3. (i + 1) * (BitmapSize + 1) = i * (BitmapSize + 1) + BitmapSize + 1
  BY <1>1, SMT
<1> QED BY <1>1, <1>2, <1>3, SMT DEF BitmapPageId, PhysicalIds, MetaPageId

(* Two extents have two bitmap pages.                                      *)
LEMMA BitmapPlacesDiffer ==
    ASSUME NEW i \in Extents, NEW j \in Extents, i # j
    PROVE  BitmapPageId(i) # BitmapPageId(j)
<1>1. ASSUME NEW a \in Extents, NEW b \in Extents, a < b
      PROVE  BitmapPageId(a) < BitmapPageId(b)
  <2>1. a \in Nat /\ b \in Nat /\ BitmapSize \in Nat \ {0}
    BY DiskAssumption DEF Extents
  <2>2. /\ (a + 1) * (BitmapSize + 1) <= b * (BitmapSize + 1)
        /\ a * (BitmapSize + 1) \in Nat /\ b * (BitmapSize + 1) \in Nat
    BY <1>1, <2>1, MulMono
  <2>3. (a + 1) * (BitmapSize + 1) = a * (BitmapSize + 1) + BitmapSize + 1
    BY <2>1, SMT
  <2> QED BY <2>1, <2>2, <2>3, SMT DEF BitmapPageId
<1>2. BitmapPageId(i) \in Int /\ BitmapPageId(j) \in Int /\ i \in Int /\ j \in Int
  BY BitmapPlaces, DiskAssumption DEF PhysicalIds, Extents
<1>3. i < j \/ j < i
  BY <1>2, SMT
<1>4. CASE i < j
  BY <1>1, <1>2, <1>4, SMT
<1>5. CASE j < i
  BY <1>1, <1>2, <1>5, SMT
<1> QED BY <1>3, <1>4, <1>5

(* A logical page is a slot of an extent (DeAllocatePage, IsPageFree) ...  *)
LEMMA PageParts ==
    ASSUME NEW p \in Pages
    PROVE  /\ p \div BitmapSize \in Extents
           /\ p % BitmapSize \in Slots
           /\ p = (p \div BitmapSize) * BitmapSize + (p % BitmapSize)
<1>1. BitmapSize \in Nat \ {0} /\ MaxBitmap \in Nat /\ MaxBitmap * BitmapSize \in Nat
  BY DiskAssumption, SMT
<1>2. p \in Nat /\ p < MaxBitmap * BitmapSize
  BY <1>1, SMT DEF Pages
<1>3. /\ p \div BitmapSize \in Nat /\ p % BitmapSize \in 0 .. BitmapSize - 1
      /\ p = (p \div BitmapSize) * BitmapSize + (p % BitmapSize)
  BY <1>1, <1>2, DivMod
<1> DEFINE q == p \div BitmapSize
           r == p % BitmapSize
<1>q. q \in Nat /\ r \in 0 .. BitmapSize - 1 /\ p = q * BitmapSize + r
  BY <1>3
<1> HIDE DEF q, r
<1>4. q < MaxBitmap
  <2>1. SUFFICES ASSUME MaxBitmap <= q PROVE FALSE
    BY <1>1, <1>q, SMT
  <2>2. MaxBitmap < q + 1 /\ q + 1 \in Nat
    BY <1>1, <1>q, <2>1, SMT
  <2>3. (MaxBitmap + 1) * BitmapSize <= (q + 1) * BitmapSize
    BY <1>1, <2>2, MulMono
  <2>4. /\ (MaxBitmap + 1) * BitmapSize = MaxBitmap * BitmapSize + BitmapSize
        /\ (q + 1) * BitmapSize = q * BitmapSize + BitmapSize
        /\ q * BitmapSize \in Nat
    BY <1>1, <1>q, SMT
  <2> QED BY <1>1, <1>2, <1>q, <2>3, <2>4, SMT
<1> QED BY <1>1, <1>q, <1>4, SMT DEF q, r, Extents, Slots

(* ... and a slot of an extent is a logical page (AllocatePage).           *)
LEMMA PageOfSlot ==
    ASSUME NEW e \in Extents, NEW s \in Slots
    PROVE  /\ e * BitmapSize + s \in Pages
           /\ (e * BitmapSize + s) \div BitmapSize = e
           /\ (e * BitmapSize + s) % BitmapSize = s
<1>1. /\ e \in Nat /\ MaxBitmap \in Nat /\ e < MaxBitmap /\ BitmapSize \in Nat \ {0}
      /\ s \in 0 .. BitmapSize - 1
  BY DiskAssumption DEF Extents, Slots
<1>2. /\ (e + 1) * BitmapSize <= MaxBitmap * BitmapSize
      /\ e * BitmapSize \in Nat /\ MaxBitmap * BitmapSize \in Nat
  BY <1>1, MulMono
<1>3. (e + 1) * BitmapSize = e * BitmapSize + BitmapSize
  BY <1>1, SMT
<1>4. e * BitmapSize + s \in Pages
  BY <1>1, <1>2, <1>3, SMT DEF Pages
<1> QED BY <1>1, <1>4, DivModUnique

(* MapPageId never leads to the meta page or to a bitmap page.             *)
LEMMA DataPlaces ==
    ASSUME NEW p \in Pages
    PROVE  /\ MapPageId(p) \in PhysicalIds /\ MapPageId(p) # MetaPageId
           /\ \A i \in Extents : MapPageId(p) # BitmapPageId(i)
<1> DEFINE q == p \div BitmapSize
           r == p % BitmapSize
<1>1. q \in Extents /\ r \in Slots
  BY PageParts
<1>2. MapPageId(p) = q * (BitmapSize + 1) + r + 2
  BY DEF MapPageId
<1> HIDE DEF q, r
<1>3. /\ q \in Nat /\ q < MaxBitmap /\ r \in 0 .. BitmapSize - 1
      /\ BitmapSize \in Nat \ {0} /\ MaxBitmap \in Nat
  BY <1>1, DiskAssumption DEF Extents, Slots
<1>4. /\ (q + 1) * (BitmapSize + 1) <= MaxBitmap * (BitmapSize + 1)
      /\ q * (BitmapSize + 1) \in Nat /\ MaxBitmap * (BitmapSize + 1) \in Nat
  BY <1>3, MulMono
<1>5. (q + 1) * (BitmapSize + 1) = q * (BitmapSize + 1) + BitmapSize + 1
  BY <1>3, SMT
<1>6. MapPageId(p) \in PhysicalIds /\ MapPageId(p) # MetaPageId
  BY <1>2, <1>3, <1>4, <1>5, SMT DEF PhysicalIds, MetaPageId
<1>7. ASSUME NEW i \in Extents PROVE MapPageId(p) # BitmapPageId(i)
  <2>1. i \in Nat
    BY DEF Extents
  <2>2. i * (BitmapSize + 1) \in Nat /\ BitmapPageId(i) = i * (BitmapSize + 1) + 1
    BY <2>1, <1>3, SMT DEF BitmapPageId
  <2>3. CASE q < i
    <3>1. (q + 1) * (BitmapSize + 1) <= i * (BitmapSize + 1)
      BY <1>3, <2>1, <2>3, MulMono
    <3> QED BY <1>2, <1>3, <1>4, <1>5, <2>2, <3>1, SMT
  <2>4. CASE i < q
    <3>1. (i + 1) * (BitmapSize + 1) <= q * (BitmapSize + 1)
      BY <1>3, <2>1, <2>4, MulMono
    <3>2. (i + 1) * (BitmapSize + 1) = i * (BitmapSize + 1) + BitmapSize + 1
      BY <1>3, <2>1, SMT
    <3> QED BY <1>2, <1>3, <1>4, <2>2, <3>1, <3>2, SMT
  <2>5. CASE i = q
    BY <1>2, <1>3, <1>4, <2>2, <2>5, SMT
  <2> QED BY <1>3, <2>1, <2>3, <2>4, <2>5, SMT
<1> QED BY <1>6, <1>7

-----------------------------------------------------------------------------
(* A bitmap page.                                                          *)

(* The search for the first free slot or extent finds one.                 *)
LEMMA MinIsMember ==
    ASSUME NEW S \in SUBSET Nat, S # {}
    PROVE  Min(S) \in S
<1>1. PICK x \in S : \A y \in S : ~(<<y, x>> \in OpToRel(<, Nat))
  BY WFMin, NatLessThanWellFounded
<1>2. \A y \in S : x =< y
  <2> SUFFICES ASSUME NEW y \in S, ~(x =< y) PROVE FALSE
    OBVIOUS
  <2>1. y < x /\ y \in Nat /\ x \in Nat
    BY SMT
  <2>2. <<y, x>> \in OpToRel(<, Nat)
    BY <2>1 DEF OpToRel
  <2> QED BY <1>1, <2>2
<1> QED BY <1>2 DEF Min

(* A bitmap page whose counter and next free slot agree with its bits.     *)
GoodBitmap(b) ==
    /\ b \in BitmapPage
    /\ b.page_allocated_ = Cardinality(b.bytes)
    /\ ~Full(b) => IsFree(b, b.next_free_page_)

(* An extent has BitmapSize slots.                                         *)
LEMMA SlotsFinite == IsFiniteSet(Slots) /\ Cardinality(Slots) = BitmapSize
BY FS_Interval, DiskAssumption DEF Slots

(* A bitmap with BitmapSize bits set is full.                              *)
LEMMA BitsFinite ==
    ASSUME NEW U \in SUBSET Slots
    PROVE  /\ IsFiniteSet(U) /\ Cardinality(U) \in Nat
           /\ Cardinality(U) = BitmapSize => U = Slots
BY SlotsFinite, FS_Subset, FS_CardinalityType

(* The search loop of BitmapPage::AllocatePage ends on a free slot.        *)
LEMMA FreeFromIsFree ==
    ASSUME NEW used \in SUBSET Slots, NEW start \in Slots, used # Slots
    PROVE  FreeFrom(used, start) \in Slots \ used
<1> DEFINE free == Slots \ used
           after == {s \in free : s >= start}
<1>1. free # {} /\ free \subseteq Nat /\ after \subseteq Nat
  <2>1. free # {}
    BY Zenon
  <2>2. Slots \subseteq Nat
    BY DEF Slots
  <2> QED BY <2>1, <2>2, Zenon
<1>2. CASE after # {}
  <2>1. Min(after) \in after
    BY <1>1, <1>2, MinIsMember
  <2> QED BY <1>2, <2>1 DEF FreeFrom
<1>3. CASE after = {}
  <2>1. Min(free) \in free
    BY <1>1, MinIsMember
  <2> QED BY <1>3, <2>1 DEF FreeFrom
<1> QED BY <1>2, <1>3

(* BitmapPage::AllocatePage sets one bit and keeps the page good.          *)
LEMMA AllocateKeepsBitmap ==
    ASSUME NEW b, GoodBitmap(b), ~Full(b)
    PROVE  /\ GoodBitmap(BitmapAllocate(b))
           /\ BitmapAllocate(b).bytes = b.bytes \cup {b.next_free_page_}
           /\ BitmapAllocate(b).page_allocated_ = b.page_allocated_ + 1
<1> DEFINE used == b.bytes \cup {b.next_free_page_}
           c == BitmapAllocate(b)
<1>1. /\ b.bytes \in SUBSET Slots /\ b.next_free_page_ \in Slots
      /\ b.next_free_page_ \notin b.bytes /\ used \in SUBSET Slots
  BY DEF GoodBitmap, BitmapPage, IsFree
<1>2. Cardinality(used) = Cardinality(b.bytes) + 1 /\ Cardinality(used) \in Nat
  BY <1>1, BitsFinite, FS_AddElement
<1>3. Cardinality(used) = b.page_allocated_ + 1
  BY <1>2 DEF GoodBitmap
<1>4. c = [page_allocated_ |-> b.page_allocated_ + 1,
           next_free_page_ |-> IF b.page_allocated_ + 1 = BitmapSize THEN 0
                               ELSE FreeFrom(used, b.next_free_page_),
           bytes |-> used]
  BY DEF BitmapAllocate
<1>5. ASSUME b.page_allocated_ + 1 # BitmapSize
      PROVE  FreeFrom(used, b.next_free_page_) \in Slots \ used
  <2>1. used # Slots
    BY <1>3, <1>5, SlotsFinite
  <2> QED BY <1>1, <2>1, FreeFromIsFree
<1>6. 0 \in Slots
  BY DiskAssumption DEF Slots
<1> HIDE DEF used, c
<1>7. c \in BitmapPage
  BY <1>1, <1>2, <1>3, <1>4, <1>5, <1>6 DEF BitmapPage
<1>8. c.page_allocated_ = Cardinality(c.bytes)
  BY <1>3, <1>4
<1>9. ~Full(c) => IsFree(c, c.next_free_page_)
  BY <1>4, <1>5 DEF Full, IsFree
<1>10. GoodBitmap(c) /\ c.bytes = used /\ c.page_allocated_ = b.page_allocated_ + 1
  BY <1>4, <1>7, <1>8, <1>9 DEF GoodBitmap
<1> QED BY <1>10 DEF used, c

(* BitmapPage::DeAllocatePage clears one bit and keeps the page good.      *)
LEMMA DeAllocateKeepsBitmap ==
    ASSUME NEW b, GoodBitmap(b), NEW s \in b.bytes
    PROVE  /\ GoodBitmap(BitmapDeAllocate(b, s))
           /\ BitmapDeAllocate(b, s).bytes = b.bytes \ {s}
           /\ BitmapDeAllocate(b, s).page_allocated_ = b.page_allocated_ - 1
           /\ b.page_allocated_ \in Nat \ {0}
<1> DEFINE c == BitmapDeAllocate(b, s)
<1>1. /\ b.bytes \in SUBSET Slots /\ b.next_free_page_ \in Slots /\ s \in Slots
      /\ IsFiniteSet(b.bytes)
  BY BitsFinite DEF GoodBitmap, BitmapPage
<1>2. /\ Cardinality(b.bytes \ {s}) = b.page_allocated_ - 1
      /\ Cardinality(b.bytes \ {s}) \in Nat /\ b.page_allocated_ \in Nat
  BY <1>1, BitsFinite, FS_RemoveElement DEF GoodBitmap
<1>3. c = [page_allocated_ |-> b.page_allocated_ - 1,
           next_free_page_ |-> IF Full(b) THEN s ELSE b.next_free_page_,
           bytes |-> b.bytes \ {s}]
  BY DEF BitmapDeAllocate, IsFree
<1> HIDE DEF c
<1>4. c \in BitmapPage
  BY <1>1, <1>2, <1>3 DEF BitmapPage
<1>5. IsFree(c, c.next_free_page_)
  BY <1>3 DEF GoodBitmap, Full, IsFree
<1>6. GoodBitmap(c) /\ c.bytes = b.bytes \ {s} /\ c.page_allocated_ = b.page_allocated_ - 1
  BY <1>2, <1>3, <1>4, <1>5 DEF GoodBitmap
<1> QED BY <1>2, <1>6 DEF c

-----------------------------------------------------------------------------
(* The inductive invariant: every bitmap page is good, the counters in     *)
(* memory agree with the bitmap pages, and extents that were never opened  *)
(* are empty.                                                              *)
DiskInv ==
    /\ DiskTypeOK
    /\ \A i \in Extents :
          /\ GoodBitmap(Bitmap(i))
          /\ meta.extent_used_page_[i] = Bitmap(i).page_allocated_
          /\ i >= meta.num_extents_ => Bitmap(i).bytes = {}
    /\ meta.num_allocated_pages_ = Cardinality(AllocatedPages)

(* Finitely many pages are allocated.                                      *)
LEMMA PagesFinite == IsFiniteSet(AllocatedPages)
<1>1. MaxBitmap * BitmapSize - 1 \in Int
  BY DiskAssumption, SMT
<1>2. IsFiniteSet(Pages)
  BY <1>1, FS_Interval DEF Pages
<1> QED BY <1>2, FS_Subset DEF AllocatedPages

(* The extent that AllocatePage chooses by the meta page has a free slot.  *)
LEMMA ChosenExtentHasRoom ==
    ASSUME DiskInv, ~DiskFull
    PROVE  ExtentToUse \in Extents /\ ~Full(Bitmap(ExtentToUse))
<1> DEFINE open == {i \in 0 .. meta.num_extents_ - 1 :
                       meta.extent_used_page_[i] < BitmapSize}
<1>1. meta.num_extents_ \in 0 .. MaxBitmap /\ MaxBitmap \in Nat /\ BitmapSize \in Nat \ {0}
  BY DiskAssumption DEF DiskInv, DiskTypeOK, MetaPage
<1>2. CASE open # {}
  <2>1. open \subseteq Nat /\ open \subseteq Extents
    BY <1>1 DEF Extents
  <2>2. Min(open) \in open
    BY <1>2, <2>1, MinIsMember
  <2>3. ExtentToUse \in open
    BY <1>2, <2>2 DEF ExtentToUse
  <2>4. ExtentToUse \in Extents /\ meta.extent_used_page_[ExtentToUse] < BitmapSize
    BY <2>1, <2>3
  <2>5. meta.extent_used_page_[ExtentToUse] \in Nat
    BY <2>4 DEF DiskInv, DiskTypeOK, MetaPage
  <2> QED BY <1>1, <2>4, <2>5 DEF DiskInv, Full
<1>3. CASE open = {}
  <2>1. ExtentToUse = meta.num_extents_
    BY <1>3 DEF ExtentToUse
  <2>2. ExtentToUse \in Extents /\ ExtentToUse >= meta.num_extents_
    BY <1>1, <2>1 DEF DiskFull, Extents
  <2>3. Bitmap(ExtentToUse).bytes = {} /\ GoodBitmap(Bitmap(ExtentToUse))
    BY <2>2 DEF DiskInv
  <2>4. Bitmap(ExtentToUse).page_allocated_ = 0
    BY <2>3, FS_EmptySet DEF GoodBitmap
  <2> QED BY <1>1, <2>2, <2>4 DEF Full
<1> QED BY <1>2, <1>3

(* An empty file.                                                          *)
LEMMA InitInv == DiskInit => DiskInv
<1> SUFFICES ASSUME DiskInit PROVE DiskInv
  OBVIOUS
<1>1. ASSUME NEW i \in Extents PROVE Bitmap(i) = EmptyBitmap
  BY BitmapPlaces DEF DiskInit, Bitmap, BitmapIds
<1>2. ASSUME NEW p \in Pages PROVE file[MapPageId(p)] \in Values
  <2>1. MapPageId(p) \notin BitmapIds
    BY DataPlaces DEF BitmapIds
  <2> QED BY <2>1, DataPlaces, DiskAssumption DEF DiskInit
<1>3. MetaPageId \in PhysicalIds
  <2>1. MaxBitmap * (BitmapSize + 1) \in Nat
    BY DiskAssumption, SMT
  <2> QED BY <2>1 DEF MetaPageId, PhysicalIds
<1>4. EmptyMeta \in MetaPage
  BY DiskAssumption DEF EmptyMeta, MetaPage
<1>5. file[MetaPageId] = EmptyMeta
  BY <1>3 DEF DiskInit
<1>6. 0 \in Slots
  BY DiskAssumption DEF Slots
<1>7. GoodBitmap(EmptyBitmap)
  BY <1>6, FS_EmptySet DEF EmptyBitmap, GoodBitmap, BitmapPage, IsFree
<1>8. DiskTypeOK
  <2>1. DOMAIN file = PhysicalIds /\ meta = EmptyMeta
    BY DEF DiskInit
  <2>2. \A i \in Extents : Bitmap(i) \in BitmapPage
    BY <1>1, <1>7 DEF GoodBitmap
  <2> QED BY <1>2, <1>4, <1>5, <2>1, <2>2 DEF DiskTypeOK
<1>9. ASSUME NEW p \in Pages PROVE IsPageFree(p)
  BY <1>1, PageParts DEF IsPageFree, IsFree, EmptyBitmap
<1>10. AllocatedPages = {}
  BY <1>9 DEF AllocatedPages
<1>11. meta.num_allocated_pages_ = Cardinality(AllocatedPages)
  BY <1>10, FS_EmptySet DEF DiskInit, EmptyMeta
<1>12. ASSUME NEW i \in Extents
       PROVE  /\ GoodBitmap(Bitmap(i))
              /\ meta.extent_used_page_[i] = Bitmap(i).page_allocated_
              /\ i >= meta.num_extents_ => Bitmap(i).bytes = {}
  BY <1>1, <1>7 DEF DiskInit, EmptyMeta, EmptyBitmap
<1> QED BY <1>8, <1>11, <1>12 DEF DiskInv

-----------------------------------------------------------------------------
(* What a step does to the bitmap pages and to the set of allocated pages. *)

(* A step that replaces the bitmap page of one extent.                     *)
LEMMA OneBitmapChanges ==
    ASSUME DiskInv, NEW e \in Extents, NEW STATE c,
           file' = [file EXCEPT ![BitmapPageId(e)] = c]
    PROVE  /\ DOMAIN file' = PhysicalIds
           /\ Bitmap(e)' = c
           /\ \A i \in Extents \ {e} : Bitmap(i)' = Bitmap(i)
           /\ \A p \in Pages : file'[MapPageId(p)] = file[MapPageId(p)]
           /\ file'[MetaPageId] = file[MetaPageId]
<1>1. DOMAIN file = PhysicalIds
  BY DEF DiskInv, DiskTypeOK
<1>2. BitmapPageId(e) \in PhysicalIds /\ BitmapPageId(e) # MetaPageId
  BY BitmapPlaces
<1>3. \A i \in Extents \ {e} : Bitmap(i)' = Bitmap(i)
  BY <1>1, BitmapPlaces, BitmapPlacesDiffer DEF Bitmap
<1>4. \A p \in Pages : file'[MapPageId(p)] = file[MapPageId(p)]
  BY <1>1, DataPlaces
<1>5. MetaPageId \in PhysicalIds
  <2>1. MaxBitmap * (BitmapSize + 1) \in Nat
    BY DiskAssumption, SMT
  <2> QED BY <2>1 DEF MetaPageId, PhysicalIds
<1> QED BY <1>1, <1>2, <1>3, <1>4, <1>5 DEF Bitmap

(* What an allocation does to the pages of the file, whether or not the    *)
(* step also writes data pages: NewPage may write a victim to the new page *)
(* in the same step.                                                       *)
AllocateEffect ==
    /\ ~DiskFull
    /\ meta' = MetaAfterAllocate
    /\ DOMAIN file' = PhysicalIds
    /\ file'[BitmapPageId(ExtentToUse)] = BitmapAllocate(Bitmap(ExtentToUse))
    /\ \A i \in Extents \ {ExtentToUse} : file'[BitmapPageId(i)] = Bitmap(i)
    /\ \A p \in Pages : file'[MapPageId(p)] \in Values
    /\ file'[MetaPageId] = file[MetaPageId]

LEMMA AllocatePageEffect ==
    ASSUME DiskInv, AllocatePage
    PROVE  AllocateEffect
<1>0. PICK e \in Extents : e = ExtentToUse
  BY ChosenExtentHasRoom DEF AllocatePage
<1> DEFINE b == Bitmap(e)
<1>1. file' = [file EXCEPT ![BitmapPageId(e)] = BitmapAllocate(b)]
  BY <1>0 DEF AllocatePage, FileAfterAllocate, Bitmap
<1>2. /\ DOMAIN file' = PhysicalIds
      /\ Bitmap(e)' = BitmapAllocate(b)
      /\ \A i \in Extents \ {e} : Bitmap(i)' = Bitmap(i)
      /\ \A p \in Pages : file'[MapPageId(p)] = file[MapPageId(p)]
      /\ file'[MetaPageId] = file[MetaPageId]
  BY <1>1, OneBitmapChanges
<1>3. \A p \in Pages : file[MapPageId(p)] \in Values
  BY DEF DiskInv, DiskTypeOK
<1> QED BY <1>0, <1>2, <1>3 DEF AllocateEffect, AllocatePage, Bitmap

(* An allocation takes exactly one page, and it was free.                  *)
LEMMA AllocateStep ==
    ASSUME DiskInv, AllocateEffect
    PROVE  /\ AllocatedPage \in Pages /\ IsPageFree(AllocatedPage)
           /\ AllocatedPages' = AllocatedPages \cup {AllocatedPage}
<1>0. PICK e \in Extents : e = ExtentToUse
  BY ChosenExtentHasRoom DEF AllocateEffect
<1> DEFINE b == Bitmap(e)
<1>1. ~Full(b) /\ GoodBitmap(b)
  BY <1>0, ChosenExtentHasRoom DEF AllocateEffect, DiskInv
<1>s. PICK s : s = b.next_free_page_
  OBVIOUS
<1>2. s \in Slots /\ s \notin b.bytes
  BY <1>1, <1>s DEF GoodBitmap, BitmapPage, IsFree
<1>3. AllocatedPage = e * BitmapSize + s
  BY <1>0, <1>s DEF AllocatedPage
<1>4. /\ AllocatedPage \in Pages /\ AllocatedPage \div BitmapSize = e
      /\ AllocatedPage % BitmapSize = s
  BY <1>1, <1>2, <1>3, PageOfSlot
<1>5. IsPageFree(AllocatedPage)
  BY <1>2, <1>4 DEF IsPageFree, IsFree
<1>7. Bitmap(e)' = BitmapAllocate(b) /\ \A i \in Extents \ {e} : Bitmap(i)' = Bitmap(i)
  BY <1>0 DEF AllocateEffect, Bitmap
<1>8. BitmapAllocate(b).bytes = b.bytes \cup {s}
  BY <1>1, <1>s, AllocateKeepsBitmap
<1>9. ASSUME NEW q \in Pages
      PROVE  q \in AllocatedPages' <=> (q \in AllocatedPages \/ q = AllocatedPage)
  <2> DEFINE d == q \div BitmapSize
             t == q % BitmapSize
  <2>1. d \in Extents /\ t \in Slots /\ q = d * BitmapSize + t
    BY PageParts
  <2>2. /\ q \in AllocatedPages <=> t \in Bitmap(d).bytes
        /\ q \in AllocatedPages' <=> t \in Bitmap(d)'.bytes
    BY DEF AllocatedPages, IsPageFree, IsFree
  <2> HIDE DEF d, t
  <2>3. CASE d = e
    <3>1. q = AllocatedPage <=> t = s
      BY <1>3, <1>4, <2>1, <2>3 DEF t
    <3>2. Bitmap(d)'.bytes = Bitmap(d).bytes \cup {s}
      BY <1>7, <1>8, <2>3
    <3> QED BY <2>2, <3>1, <3>2
  <2>4. CASE d # e
    <3>1. q # AllocatedPage
      BY <1>4, <2>4 DEF d
    <3>2. Bitmap(d)' = Bitmap(d)
      BY <1>7, <2>1, <2>4
    <3> QED BY <2>2, <3>1, <3>2
  <2> QED BY <2>3, <2>4
<1>10. AllocatedPages \subseteq Pages /\ AllocatedPages' \subseteq Pages
  BY DEF AllocatedPages
<1> QED BY <1>4, <1>5, <1>9, <1>10

(* An allocation keeps the invariant.                                      *)
LEMMA AllocateInv ==
    ASSUME DiskInv, AllocateEffect
    PROVE  DiskInv'
<1>0. PICK e \in Extents : e = ExtentToUse
  BY ChosenExtentHasRoom DEF AllocateEffect
<1> DEFINE b == Bitmap(e)
<1>1. e \in Extents /\ ~Full(b) /\ GoodBitmap(b)
  BY <1>0, ChosenExtentHasRoom DEF AllocateEffect, DiskInv
<1>m. meta' = [num_allocated_pages_ |-> meta.num_allocated_pages_ + 1,
               num_extents_ |-> IF e = meta.num_extents_ THEN meta.num_extents_ + 1
                                ELSE meta.num_extents_,
               extent_used_page_ |-> [meta.extent_used_page_ EXCEPT ![e] = @ + 1]]
  BY <1>0 DEF AllocateEffect, MetaAfterAllocate
<1>a. /\ GoodBitmap(BitmapAllocate(b))
      /\ BitmapAllocate(b).page_allocated_ = b.page_allocated_ + 1
  BY <1>1, AllocateKeepsBitmap
<1>t. /\ meta \in MetaPage /\ MaxBitmap \in Nat
      /\ meta.extent_used_page_ \in [Extents -> Nat]
      /\ meta.num_extents_ \in 0 .. MaxBitmap
      /\ file[MetaPageId] \in MetaPage
      /\ \A p \in Pages : file[MapPageId(p)] \in Values
  BY DiskAssumption DEF DiskInv, DiskTypeOK, MetaPage
<1>n. e = meta.num_extents_ \/ e < meta.num_extents_
  <2> DEFINE open == {i \in 0 .. meta.num_extents_ - 1 :
                         meta.extent_used_page_[i] < BitmapSize}
  <2>1. CASE open # {}
    <3>1. open \subseteq Nat
      OBVIOUS
    <3>2. e \in open
      BY <1>0, <2>1, <3>1, MinIsMember DEF ExtentToUse
    <3> QED BY <1>t, <3>2
  <2>2. CASE open = {}
    BY <1>0, <2>2 DEF ExtentToUse
  <2> QED BY <2>1, <2>2
<1>3. /\ DOMAIN file' = PhysicalIds
      /\ Bitmap(e)' = BitmapAllocate(b)
      /\ \A i \in Extents \ {e} : Bitmap(i)' = Bitmap(i)
      /\ \A p \in Pages : file'[MapPageId(p)] \in Values
      /\ file'[MetaPageId] = file[MetaPageId]
  BY <1>0 DEF AllocateEffect, Bitmap
<1>4. meta' \in MetaPage
  <2>1. e \in 0 .. MaxBitmap - 1
    BY <1>1 DEF Extents
  <2> QED BY <1>1, <1>m, <1>t, <2>1 DEF MetaPage
<1>5. ASSUME NEW i \in Extents
      PROVE  /\ GoodBitmap(Bitmap(i))'
             /\ meta'.extent_used_page_[i] = Bitmap(i)'.page_allocated_
             /\ i >= meta'.num_extents_ => Bitmap(i)'.bytes = {}
  <2>0. /\ GoodBitmap(Bitmap(i))
        /\ meta.extent_used_page_[i] = Bitmap(i).page_allocated_
        /\ i >= meta.num_extents_ => Bitmap(i).bytes = {}
        /\ i \in Nat /\ e \in Nat
    BY <1>1 DEF DiskInv, Extents
  <2>1. CASE i = e
    <3>1. GoodBitmap(Bitmap(i))'
      BY <1>3, <1>a, <2>1 DEF GoodBitmap, Full, IsFree
    <3>2. meta'.extent_used_page_[i] = meta.extent_used_page_[i] + 1
      BY <1>m, <1>t, <2>1
    <3>3. ~(i >= meta'.num_extents_)
      BY <1>m, <1>n, <1>t, <2>0, <2>1
    <3> QED BY <1>3, <1>a, <2>0, <2>1, <3>1, <3>2, <3>3
  <2>2. CASE i # e
    <3>1. Bitmap(i)' = Bitmap(i)
      BY <1>3, <2>2
    <3>2. GoodBitmap(Bitmap(i))'
      BY <2>0, <3>1 DEF GoodBitmap, Full, IsFree
    <3>3. meta'.extent_used_page_[i] = meta.extent_used_page_[i]
      BY <1>m, <1>t, <2>2
    <3>4. i >= meta'.num_extents_ => i >= meta.num_extents_
      BY <1>m, <1>t, <2>0
    <3> QED BY <2>0, <3>1, <3>2, <3>3, <3>4
  <2> QED BY <2>1, <2>2
<1>6. DiskTypeOK'
  <2>1. \A i \in Extents : Bitmap(i)' \in BitmapPage
    BY <1>5 DEF GoodBitmap
  <2> QED BY <1>3, <1>4, <1>t, <2>1 DEF DiskTypeOK
<1>7. meta'.num_allocated_pages_ = Cardinality(AllocatedPages')
  <2>1. AllocatedPage \notin AllocatedPages
    BY AllocateStep DEF AllocatedPages
  <2>2. Cardinality(AllocatedPages') = Cardinality(AllocatedPages) + 1
    BY <2>1, AllocateStep, PagesFinite, FS_AddElement
  <2> QED BY <1>m, <2>2 DEF DiskInv
<1> QED BY <1>5, <1>6, <1>7 DEF DiskInv

(* DeAllocatePage of an allocated page keeps the invariant and gives back   *)
(* that page.                                                              *)
LEMMA DeAllocateInv ==
    ASSUME DiskInv, NEW p \in Pages, ~IsPageFree(p), DeAllocatePage(p)
    PROVE  /\ DiskInv'
           /\ AllocatedPages' = AllocatedPages \ {p}
<1> DEFINE e == p \div BitmapSize
           s == p % BitmapSize
           b == Bitmap(e)
<1>1. e \in Extents /\ s \in Slots /\ p = e * BitmapSize + s
  BY PageParts
<1>2. GoodBitmap(b) /\ s \in b.bytes
  BY <1>1 DEF DiskInv, IsPageFree, IsFree
<1>3. file' = [file EXCEPT ![BitmapPageId(e)] = BitmapDeAllocate(b, s)]
  BY DEF DeAllocatePage, FileAfterDeAllocate, Bitmap
<1>m. meta' = [meta EXCEPT !.extent_used_page_[e] = @ - 1, !.num_allocated_pages_ = @ - 1]
  BY DEF DeAllocatePage, MetaAfterDeAllocate
<1>p. \A q \in Pages : q \in AllocatedPages <=> (q % BitmapSize) \in Bitmap(q \div BitmapSize).bytes
  BY DEF AllocatedPages, IsPageFree, IsFree
<1>pp. \A q \in Pages : q \in AllocatedPages' <=> (q % BitmapSize) \in Bitmap(q \div BitmapSize)'.bytes
  BY DEF AllocatedPages, IsPageFree, IsFree
<1>d. /\ GoodBitmap(BitmapDeAllocate(b, s))
      /\ BitmapDeAllocate(b, s).bytes = b.bytes \ {s}
      /\ BitmapDeAllocate(b, s).page_allocated_ = b.page_allocated_ - 1
      /\ b.page_allocated_ \in Nat \ {0}
  BY <1>2, DeAllocateKeepsBitmap
<1>t. /\ meta \in MetaPage
      /\ meta.extent_used_page_ \in [Extents -> Nat]
      /\ meta.num_allocated_pages_ \in Nat
      /\ file[MetaPageId] \in MetaPage
      /\ \A q \in Pages : file[MapPageId(q)] \in Values
  BY DEF DiskInv, DiskTypeOK, MetaPage
<1>4. /\ DOMAIN file' = PhysicalIds
      /\ Bitmap(e)' = BitmapDeAllocate(b, s)
      /\ \A i \in Extents \ {e} : Bitmap(i)' = Bitmap(i)
      /\ \A q \in Pages : file'[MapPageId(q)] = file[MapPageId(q)]
      /\ file'[MetaPageId] = file[MetaPageId]
  <2> HIDE DEF e, s
  <2> QED BY <1>1, <1>3, OneBitmapChanges
<1>5. AllocatedPages' = AllocatedPages \ {p}
  <2>1. ASSUME NEW q \in Pages
        PROVE  q \in AllocatedPages' <=> (q \in AllocatedPages /\ q # p)
    <3> DEFINE d == q \div BitmapSize
               t == q % BitmapSize
    <3>1. d \in Extents /\ t \in Slots /\ q = d * BitmapSize + t
      BY PageParts
    <3>2. /\ q \in AllocatedPages <=> t \in Bitmap(d).bytes
          /\ q \in AllocatedPages' <=> t \in Bitmap(d)'.bytes
      BY <1>p, <1>pp
    <3>3. CASE d = e
      <4>1. q # p <=> t # s
        BY <1>1, <3>1, <3>3
      <4> HIDE DEF d, t, e, s
      <4>2. Bitmap(d)'.bytes = Bitmap(d).bytes \ {s}
        BY <1>4, <1>d, <3>3
      <4> QED BY <3>2, <4>1, <4>2
    <3>4. CASE d # e
      <4>1. q # p
        BY <3>4
      <4> HIDE DEF d, t, e, s
      <4>2. Bitmap(d)' = Bitmap(d)
        BY <1>4, <3>1, <3>4
      <4> QED BY <3>2, <4>1, <4>2
    <3> QED BY <3>3, <3>4
  <2>2. AllocatedPages \subseteq Pages /\ AllocatedPages' \subseteq Pages
    BY DEF AllocatedPages
  <2> QED BY <2>1, <2>2
<1>6. /\ Cardinality(AllocatedPages') = Cardinality(AllocatedPages) - 1
      /\ Cardinality(AllocatedPages') \in Nat
  <2>1. p \in AllocatedPages
    BY DEF AllocatedPages
  <2> QED BY <1>5, <2>1, PagesFinite, FS_RemoveElement, FS_CardinalityType
<1>7. /\ meta'.num_allocated_pages_ = meta.num_allocated_pages_ - 1
      /\ meta'.num_allocated_pages_ = Cardinality(AllocatedPages')
  BY <1>m, <1>t, <1>6 DEF DiskInv, MetaPage
<1> HIDE DEF e, s
<1>8. meta.extent_used_page_[e] = b.page_allocated_
  BY <1>1 DEF DiskInv
<1>9. meta' \in MetaPage
  <2>1. meta'.num_allocated_pages_ \in Nat
    BY <1>6, <1>7
  <2>2. meta'.extent_used_page_ \in [Extents -> Nat]
    BY <1>m, <1>t, <1>1, <1>8, <1>d DEF MetaPage
  <2> QED BY <1>m, <1>t, <2>1, <2>2 DEF MetaPage
<1>10. ASSUME NEW i \in Extents
       PROVE  /\ GoodBitmap(Bitmap(i))'
              /\ meta'.extent_used_page_[i] = Bitmap(i)'.page_allocated_
              /\ i >= meta'.num_extents_ => Bitmap(i)'.bytes = {}
  <2>0. /\ GoodBitmap(Bitmap(i))
        /\ meta.extent_used_page_[i] = Bitmap(i).page_allocated_
        /\ i >= meta.num_extents_ => Bitmap(i).bytes = {}
        /\ meta'.num_extents_ = meta.num_extents_
    BY <1>m, <1>t DEF DiskInv, MetaPage
  <2>1. CASE i = e
    <3>1. GoodBitmap(Bitmap(i))'
      BY <1>4, <1>d, <2>1 DEF GoodBitmap, Full, IsFree
    <3>2. meta'.extent_used_page_[i] = meta.extent_used_page_[i] - 1
      BY <1>m, <1>t, <1>1, <2>1 DEF MetaPage
    <3>3. Bitmap(i)'.bytes = Bitmap(i).bytes \ {s}
      BY <1>4, <1>d, <2>1
    <3> QED BY <1>4, <1>d, <2>0, <2>1, <3>1, <3>2, <3>3
  <2>2. CASE i # e
    <3>1. Bitmap(i)' = Bitmap(i)
      BY <1>4, <2>2
    <3>2. GoodBitmap(Bitmap(i))'
      BY <2>0, <3>1 DEF GoodBitmap, Full, IsFree
    <3>3. meta'.extent_used_page_[i] = meta.extent_used_page_[i]
      BY <1>m, <1>t, <2>2 DEF MetaPage
    <3> QED BY <2>0, <3>1, <3>2, <3>3
  <2> QED BY <2>1, <2>2
<1>11. DiskTypeOK'
  <2>1. \A i \in Extents : Bitmap(i)' \in BitmapPage
    BY <1>10 DEF GoodBitmap
  <2> QED BY <1>4, <1>9, <1>t, <2>1 DEF DiskTypeOK
<1> QED BY <1>5, <1>7, <1>10, <1>11 DEF DiskInv

(* Steps that leave the bitmap pages and the counters alone.               *)
LEMMA SameBitmapsInv ==
    ASSUME DiskInv, UNCHANGED meta, DiskTypeOK',
           \A i \in Extents : Bitmap(i)' = Bitmap(i)
    PROVE  DiskInv'
<1>1. AllocatedPages' = AllocatedPages
  BY PageParts DEF AllocatedPages, IsPageFree, IsFree
<1>2. \A i \in Extents : GoodBitmap(Bitmap(i))'
  BY DEF DiskInv, GoodBitmap, Full, IsFree
<1> QED BY <1>1, <1>2 DEF DiskInv

(* WritePage keeps the invariant: it never touches a bitmap page.          *)
LEMMA WriteInv ==
    ASSUME DiskInv, NEW p \in Pages, NEW v \in Values, WritePage(p, v)
    PROVE  DiskInv'
<1>1. /\ DOMAIN file = PhysicalIds /\ UNCHANGED meta
      /\ file' = [file EXCEPT ![MapPageId(p)] = v]
  BY DEF DiskInv, DiskTypeOK, WritePage
<1>2. \A i \in Extents : Bitmap(i)' = Bitmap(i)
  BY <1>1, BitmapPlaces, DataPlaces DEF Bitmap
<1>3. file'[MetaPageId] = file[MetaPageId]
  <2>1. MaxBitmap * (BitmapSize + 1) \in Nat
    BY DiskAssumption, SMT
  <2>2. MetaPageId \in PhysicalIds
    BY <2>1 DEF MetaPageId, PhysicalIds
  <2> QED BY <1>1, <2>2, DataPlaces
<1>4. \A q \in Pages : file'[MapPageId(q)] \in Values
  BY <1>1, DataPlaces DEF DiskInv, DiskTypeOK
<1>5. DiskTypeOK'
  BY <1>1, <1>2, <1>3, <1>4 DEF DiskInv, DiskTypeOK
<1> QED BY <1>1, <1>2, <1>5, SameBitmapsInv

(* Closing and opening the file keeps the invariant.                       *)
LEMMA ReopenInv ==
    ASSUME DiskInv, Reopen
    PROVE  DiskInv'
<1>1. /\ DOMAIN file = PhysicalIds /\ UNCHANGED meta /\ meta \in MetaPage
      /\ file' = [file EXCEPT ![MetaPageId] = meta]
  BY DEF DiskInv, DiskTypeOK, Reopen, Reopened
<1>2. \A i \in Extents : Bitmap(i)' = Bitmap(i)
  BY <1>1, BitmapPlaces DEF Bitmap
<1>3. file'[MetaPageId] \in MetaPage
  <2>1. MaxBitmap * (BitmapSize + 1) \in Nat
    BY DiskAssumption, SMT
  <2>2. MetaPageId \in PhysicalIds
    BY <2>1 DEF MetaPageId, PhysicalIds
  <2> QED BY <1>1, <2>2
<1>4. \A q \in Pages : file'[MapPageId(q)] \in Values
  BY <1>1, DataPlaces DEF DiskInv, DiskTypeOK
<1>5. DiskTypeOK'
  BY <1>1, <1>2, <1>3, <1>4 DEF DiskInv, DiskTypeOK
<1> QED BY <1>1, <1>2, <1>5, SameBitmapsInv

-----------------------------------------------------------------------------
(* The theorems.                                                           *)

(* DiskInv holds in every state of the database file: it is true of an     *)
(* empty file and kept by AllocatePage, DeAllocatePage, WritePage and by   *)
(* closing and opening the file (storage/disk_manager.cpp).                *)
THEOREM DiskInvariance == DiskSpec => []DiskInv
<1>1. DiskInit => DiskInv
  BY InitInv
<1>2. DiskInv /\ [DiskNext]_diskVars => DiskInv'
  <2> SUFFICES ASSUME DiskInv, [DiskNext]_diskVars PROVE DiskInv'
    OBVIOUS
  <2>1. CASE AllocatePage
    BY <2>1, AllocatePageEffect, AllocateInv
  <2>2. ASSUME NEW p \in Pages, ~IsPageFree(p) /\ DeAllocatePage(p) PROVE DiskInv'
    BY <2>2, DeAllocateInv
  <2>3. ASSUME NEW p \in Pages, NEW v \in Values, WritePage(p, v) PROVE DiskInv'
    BY <2>3, WriteInv
  <2>4. CASE Reopen
    BY <2>4, ReopenInv
  <2>5. CASE UNCHANGED diskVars
    BY <2>5 DEF diskVars, DiskInv, DiskTypeOK, GoodBitmap, Full, IsFree, Bitmap,
                AllocatedPages, IsPageFree
  <2> QED BY <2>1, <2>2, <2>3, <2>4, <2>5 DEF DiskNext
<1> QED BY <1>1, <1>2, PTL DEF DiskSpec

(* Bitmap pages and data pages keep apart, and every page of the file has  *)
(* its type (MapPageId, AllocatePage).                                     *)
THEOREM DiskTypeCorrect == DiskSpec => []DiskTypeOK
<1>1. DiskInv => DiskTypeOK
  BY DEF DiskInv
<1> QED BY <1>1, DiskInvariance, PTL

(* A bitmap page that is not full knows a free slot                        *)
(* (BitmapPage::AllocatePage and DeAllocatePage).                          *)
THEOREM NextFreeSafe == DiskSpec => []NextFreeIsFree
<1>1. DiskInv => NextFreeIsFree
  BY DEF DiskInv, GoodBitmap, NextFreeIsFree
<1> QED BY <1>1, DiskInvariance, PTL

(* The counters of the meta page and of the bitmap pages agree with the    *)
(* bits, also after the file was closed and opened again.                  *)
THEOREM CountersSafe == DiskSpec => []CountersAgree
<1>1. DiskInv => CountersAgree
  BY DEF DiskInv, GoodBitmap, CountersAgree
<1> QED BY <1>1, DiskInvariance, PTL

(* AllocatePage hands out a page that nobody has.                          *)
THEOREM PagesIssuedOnce == DiskSpec => PageIssuedOnce
<1>1. ASSUME DiskInv, [DiskNext]_diskVars,
             meta'.num_allocated_pages_ > meta.num_allocated_pages_
      PROVE  \E p \in Pages : IsPageFree(p) /\ AllocatedPages' = AllocatedPages \cup {p}
  <2>0. meta.num_allocated_pages_ \in Nat /\ meta \in MetaPage
    BY <1>1 DEF DiskInv, DiskTypeOK, MetaPage
  <2>1. CASE AllocatePage
    BY <1>1, <2>1, AllocatePageEffect, AllocateStep
  <2>2. CASE UNCHANGED meta
    BY <1>1, <2>0, <2>2
  <2>3. ASSUME NEW p \in Pages, DeAllocatePage(p) PROVE FALSE
    <3>1. meta'.num_allocated_pages_ = meta.num_allocated_pages_ - 1
      BY <2>0, <2>3 DEF DeAllocatePage, MetaAfterDeAllocate, MetaPage
    <3> QED BY <1>1, <2>0, <3>1
  <2> QED BY <1>1, <2>1, <2>2, <2>3 DEF DiskNext, diskVars, WritePage, Reopen, Reopened
<1>2. DiskInv /\ [DiskNext]_diskVars =>
        [meta'.num_allocated_pages_ > meta.num_allocated_pages_ =>
            \E p \in Pages : IsPageFree(p) /\ AllocatedPages' = AllocatedPages \cup {p}]_diskVars
  BY <1>1
<1> QED BY <1>2, DiskInvariance, PTL DEF DiskSpec, PageIssuedOnce

-----------------------------------------------------------------------------
(* Lists without duplicates                                                *)

(* RemoveFirst takes one element out. *)
LEMMA RemoveFirstProperties ==
  ASSUME NEW S, NEW s \in Seq(S), IsInjective(s), NEW e
  PROVE  /\ RemoveFirst(s, e) \in Seq(S)
         /\ IsInjective(RemoveFirst(s, e))
         /\ \A x : Contains(RemoveFirst(s, e), x) <=> Contains(s, x) /\ x # e
<1>1. Len(s) \in Nat /\ DOMAIN s = 1 .. Len(s)
  BY LenProperties
<1>2. CASE ~ \E i \in 1 .. Len(s) : s[i] = e
  BY <1>2 DEF RemoveFirst, Contains
<1>3. CASE \E i \in 1 .. Len(s) : s[i] = e
  <2> DEFINE I == {i \in 1 .. Len(s) : s[i] = e}
             k == Min(I)
             n == Len(s)
             left == SubSeq(s, 1, k - 1)
             right == SubSeq(s, k + 1, n)
             r == left \o right
  <2>1. I \in SUBSET Nat /\ I # {}
    BY <1>1, <1>3
  <2>2. RemoveFirst(s, e) = r
    BY <1>3, <2>1 DEF RemoveFirst, RemoveAt, SelectInSeq
  <2>3. k \in I
    BY <2>1, MinIsMember
  <2>4. k \in 1 .. n /\ s[k] = e /\ n \in Nat
    BY <1>1, <2>3
  <2> HIDE DEF k, I
  <2>5. /\ left \in Seq(S) /\ Len(left) = k - 1
        /\ \A i \in 1 .. k - 1 : left[i] = s[i]
    <3>1. k - 1 \in Int /\ \A i \in 1 .. k - 1 : s[i] \in S
      BY <1>1, <2>4, LenProperties
    <3>2. /\ SubSeq(s, 1, k - 1) \in Seq(S)
          /\ Len(SubSeq(s, 1, k - 1)) = IF 1 <= k - 1 THEN (k - 1) - 1 + 1 ELSE 0
          /\ \A i \in 1 .. (k - 1) - 1 + 1 : SubSeq(s, 1, k - 1)[i] = s[1 + i - 1]
      BY <3>1, SubSeqProperties
    <3> QED BY <2>4, <3>2
  <2>6. /\ right \in Seq(S) /\ Len(right) = n - k
        /\ \A i \in 1 .. n - k : right[i] = s[k + i]
    <3>1. k + 1 \in Int /\ n \in Int /\ \A i \in k + 1 .. n : s[i] \in S
      BY <1>1, <2>4, LenProperties
    <3> HIDE DEF n
    <3>2. /\ SubSeq(s, k + 1, n) \in Seq(S)
          /\ Len(SubSeq(s, k + 1, n)) = IF k + 1 <= n THEN n - (k + 1) + 1 ELSE 0
          /\ \A i \in 1 .. n - (k + 1) + 1 : SubSeq(s, k + 1, n)[i] = s[(k + 1) + i - 1]
      BY <3>1, SubSeqProperties
    <3>3. right \in Seq(S) /\ Len(right) = n - k
      BY <2>4, <3>2
    <3>4. ASSUME NEW i \in 1 .. n - k PROVE right[i] = s[k + i]
      <4>1. i \in 1 .. n - (k + 1) + 1 /\ (k + 1) + i - 1 = k + i
        BY <2>4
      <4> QED BY <3>2, <4>1
    <3> QED BY <3>3, <3>4
  <2> HIDE DEF left, right
  <2>7. /\ r \in Seq(S) /\ Len(r) = n - 1
        /\ \A i \in 1 .. k - 1 : r[i] = s[i]
        /\ \A i \in k .. n - 1 : r[i] = s[i + 1]
    <3>0. /\ r \in Seq(S) /\ Len(r) = (k - 1) + (n - k)
          /\ \A i \in 1 .. (k - 1) + (n - k) : r[i] = IF i <= k - 1 THEN left[i] ELSE right[i - (k - 1)]
      <4>1. /\ left \o right \in Seq(S) /\ Len(left \o right) = Len(left) + Len(right)
            /\ \A i \in 1 .. Len(left) + Len(right) :
                  (left \o right)[i] = IF i <= Len(left) THEN left[i] ELSE right[i - Len(left)]
        BY <2>5, <2>6, ConcatProperties
      <4> QED BY <2>5, <2>6, <4>1
    <3> HIDE DEF r, n
    <3>1. r \in Seq(S) /\ Len(r) = n - 1
      BY <2>4, <3>0
    <3>2. ASSUME NEW i \in 1 .. k - 1 PROVE r[i] = s[i]
      <4>1. i \in 1 .. (k - 1) + (n - k) /\ i <= k - 1
        BY <2>4
      <4> QED BY <2>5, <3>0, <4>1
    <3>3. ASSUME NEW i \in k .. n - 1 PROVE r[i] = s[i + 1]
      <4>1. /\ i - (k - 1) \in 1 .. n - k /\ k + (i - (k - 1)) = i + 1
            /\ i \in 1 .. (k - 1) + (n - k) /\ ~(i <= k - 1)
        BY <2>4
      <4> QED BY <2>6, <3>0, <4>1
    <3> QED BY <3>1, <3>2, <3>3
  <2> HIDE DEF r
  <2>8. DOMAIN r = 1 .. n - 1
    BY <2>7, LenProperties
  <2>9. IsInjective(r)
    <3> SUFFICES ASSUME NEW i \in 1 .. n - 1, NEW j \in 1 .. n - 1, r[i] = r[j] PROVE i = j
      BY <2>8 DEF IsInjective
    <3> DEFINE from(a) == IF a < k THEN a ELSE a + 1
    <3>1. /\ r[i] = s[from(i)] /\ r[j] = s[from(j)]
          /\ from(i) \in 1 .. n /\ from(j) \in 1 .. n
      BY <2>4, <2>7
    <3>2. from(i) = from(j)
      BY <1>1, <3>1 DEF IsInjective
    <3> QED BY <2>4, <3>2
  <2>10. ASSUME NEW x PROVE Contains(r, x) <=> Contains(s, x) /\ x # e
    <3>1. ASSUME NEW i \in 1 .. n - 1, r[i] = x PROVE Contains(s, x) /\ x # e
      <4> DEFINE a == IF i < k THEN i ELSE i + 1
      <4>1. r[i] = s[a] /\ a \in 1 .. n /\ a # k
        BY <2>4, <2>7
      <4>2. s[a] # s[k]
        BY <1>1, <2>4, <4>1 DEF IsInjective
      <4> QED BY <2>4, <3>1, <4>1, <4>2 DEF Contains
    <3>2. ASSUME NEW i \in 1 .. n, s[i] = x, x # e PROVE Contains(r, x)
      <4>1. i # k
        BY <2>4, <3>2
      <4> DEFINE a == IF i < k THEN i ELSE i - 1
      <4>2. a \in 1 .. n - 1 /\ r[a] = s[i]
        BY <2>4, <2>7, <4>1
      <4> QED BY <2>7, <3>2, <4>2 DEF Contains
    <3> QED BY <2>7, <3>1, <3>2 DEF Contains
  <2> QED BY <2>2, <2>7, <2>9, <2>10
<1> QED
  BY <1>2, <1>3

(* An element that is not in a list is put in front of it. *)
LEMMA ConsProperties ==
  ASSUME NEW S, NEW s \in Seq(S), NEW e \in S
  PROVE  /\ <<e>> \o s \in Seq(S)
         /\ IsInjective(s) /\ ~Contains(s, e) => IsInjective(<<e>> \o s)
         /\ \A x : Contains(<<e>> \o s, x) <=> Contains(s, x) \/ x = e
<1> DEFINE n == Len(s)
           r == <<e>> \o s
<1>1. n \in Nat /\ DOMAIN s = 1 .. n
  BY LenProperties
<1>2. /\ r \in Seq(S) /\ Len(r) = n + 1 /\ r[1] = e
      /\ \A i \in 1 .. n : r[i + 1] = s[i]
  <2>1. r \in Seq(S) /\ Len(r) = n + 1 /\ r[1] = e
    BY <1>1
  <2>2. ASSUME NEW i \in 1 .. n PROVE r[i + 1] = s[i]
    BY <1>1
  <2> QED BY <2>1, <2>2
<1> HIDE DEF r
<1>3. DOMAIN r = 1 .. n + 1
  BY <1>2, LenProperties
<1>4. \A i \in 2 .. n + 1 : i - 1 \in 1 .. n /\ r[i] = s[i - 1]
  <2> SUFFICES ASSUME NEW i \in 2 .. n + 1 PROVE i - 1 \in 1 .. n /\ r[i] = s[i - 1]
    OBVIOUS
  <2>1. i - 1 \in 1 .. n /\ (i - 1) + 1 = i
    BY <1>1
  <2> QED BY <1>2, <2>1
<1>5. ASSUME IsInjective(s), ~Contains(s, e) PROVE IsInjective(r)
  <2> SUFFICES ASSUME NEW i \in 1 .. n + 1, NEW j \in 1 .. n + 1, r[i] = r[j] PROVE i = j
    BY <1>3 DEF IsInjective
  <2>1. CASE i = 1 /\ j # 1
    BY <1>1, <1>2, <1>4, <1>5, <2>1 DEF Contains
  <2>2. CASE j = 1 /\ i # 1
    BY <1>1, <1>2, <1>4, <1>5, <2>2 DEF Contains
  <2>3. CASE i # 1 /\ j # 1
    <3>1. i \in 2 .. n + 1 /\ j \in 2 .. n + 1
      BY <1>1, <2>3
    <3>2. i - 1 = j - 1
      BY <1>1, <1>4, <1>5, <3>1 DEF IsInjective
    <3> QED BY <1>1, <3>1, <3>2
  <2> QED BY <2>1, <2>2, <2>3
<1>6. ASSUME NEW x PROVE Contains(r, x) <=> Contains(s, x) \/ x = e
  <2>1. ASSUME NEW i \in 1 .. n + 1, r[i] = x PROVE Contains(s, x) \/ x = e
    <3>1. CASE i = 1
      BY <1>2, <2>1, <3>1
    <3>2. CASE i # 1
      <4>1. i \in 2 .. n + 1
        BY <1>1, <3>2
      <4> QED BY <1>4, <2>1, <4>1 DEF Contains
    <3> QED BY <3>1, <3>2
  <2>2. ASSUME NEW i \in 1 .. n, s[i] = x PROVE Contains(r, x)
    <3>1. i + 1 \in 1 .. n + 1
      BY <1>1
    <3> QED BY <1>2, <2>2, <3>1 DEF Contains
  <2>3. Contains(r, e)
    <3>1. 1 \in 1 .. n + 1
      BY <1>1
    <3> QED BY <1>2, <3>1 DEF Contains
  <2> QED BY <1>2, <2>1, <2>2, <2>3 DEF Contains
<1> QED
  BY <1>2, <1>5, <1>6 DEF r

(* The first element of a list is taken out. *)
LEMMA TailProperties ==
  ASSUME NEW S, NEW s \in Seq(S), s # <<>>
  PROVE  /\ Tail(s) \in Seq(S) /\ Head(s) \in S /\ Contains(s, Head(s))
         /\ IsInjective(s) =>
              /\ IsInjective(Tail(s))
              /\ \A x : Contains(Tail(s), x) <=> Contains(s, x) /\ x # Head(s)
<1> DEFINE n == Len(s)
           r == Tail(s)
<1>1. n \in Nat /\ n # 0 /\ DOMAIN s = 1 .. n
  BY LenProperties, EmptySeq
<1>2. /\ r \in Seq(S) /\ Len(r) = n - 1 /\ Head(s) = s[1] /\ s[1] \in S
      /\ \A i \in 1 .. n - 1 : r[i] = s[i + 1]
  BY <1>1, HeadTailProperties
<1> HIDE DEF r
<1>3. DOMAIN r = 1 .. n - 1
  BY <1>2, LenProperties
<1>4. Contains(s, s[1])
  BY <1>1 DEF Contains
<1>5. ASSUME IsInjective(s) PROVE IsInjective(r)
  <2> SUFFICES ASSUME NEW i \in 1 .. n - 1, NEW j \in 1 .. n - 1, r[i] = r[j] PROVE i = j
    BY <1>3 DEF IsInjective
  <2>1. i + 1 \in 1 .. n /\ j + 1 \in 1 .. n /\ s[i + 1] = s[j + 1]
    BY <1>1, <1>2
  <2>2. i + 1 = j + 1
    BY <1>1, <1>5, <2>1 DEF IsInjective
  <2> QED BY <1>1, <2>2
<1>6. ASSUME IsInjective(s), NEW x PROVE Contains(r, x) <=> Contains(s, x) /\ x # s[1]
  <2>1. ASSUME NEW i \in 1 .. n - 1, r[i] = x PROVE Contains(s, x) /\ x # s[1]
    <3>1. i + 1 \in 1 .. n /\ i + 1 # 1 /\ s[i + 1] = x
      BY <1>1, <1>2, <2>1
    <3>2. 1 \in 1 .. n
      BY <1>1
    <3> QED BY <1>1, <1>6, <3>1, <3>2 DEF Contains, IsInjective
  <2>2. ASSUME NEW i \in 1 .. n, s[i] = x, x # s[1] PROVE Contains(r, x)
    <3>1. i - 1 \in 1 .. n - 1 /\ (i - 1) + 1 = i
      BY <1>1, <2>2
    <3> QED BY <1>2, <2>2, <3>1 DEF Contains
  <2> QED BY <1>2, <2>1, <2>2 DEF Contains
<1> QED
  BY <1>2, <1>4, <1>5, <1>6 DEF r

-----------------------------------------------------------------------------
(* The file                                                                *)

(* Two logical pages lie on two physical pages. *)
LEMMA DataPlacesDiffer ==
  ASSUME NEW p \in Pages, NEW q \in Pages, MapPageId(p) = MapPageId(q)
  PROVE  p = q
<1> DEFINE d == BitmapSize + 1
           pe == p \div BitmapSize
           ps == p % BitmapSize
           qe == q \div BitmapSize
           qs == q % BitmapSize
<1>1. /\ pe \in Extents /\ ps \in Slots /\ p = pe * BitmapSize + ps
      /\ qe \in Extents /\ qs \in Slots /\ q = qe * BitmapSize + qs
  BY PageParts
<1>2. pe * d + ps + 2 = qe * d + qs + 2
  BY DEF MapPageId
<1> HIDE DEF pe, ps, qe, qs
<1>3. /\ d \in Nat \ {0} /\ pe \in Nat /\ qe \in Nat
      /\ ps \in 0 .. d - 1 /\ qs \in 0 .. d - 1
  BY <1>1, DiskAssumption DEF Extents, Slots
<1> HIDE DEF d
<1>4. pe * d \in Nat /\ qe * d \in Nat
  BY <1>3
<1>5. pe * d + ps = qe * d + qs
  BY <1>2, <1>3, <1>4
<1>6. pe = qe /\ ps = qs
  BY <1>3, <1>5, DivModUnique
<1> QED
  BY <1>1, <1>6

-----------------------------------------------------------------------------
(* The inductive invariant                                                 *)

(* What holds besides OnePool until a page is deleted or a dirty frame is
   evicted: a free frame is as good as new, the client has a page pinned
   only in the frame that holds it, pages in the pool are owned, a clean
   frame agrees with the file, and pages nobody created are still zero. *)
CleanPool ==
  /\ OnePool
  /\ \A f \in Frames : frame[f].page = NoPage => frame[f].pin = 0 /\ ~frame[f].dirty
  /\ \A p \in Pages, f \in Frames : held[p][f] # 0 => frame[f].page = p
  /\ \A f \in Frames : frame[f].page # NoPage =>
       /\ frame[f].page \in owned
       /\ ~frame[f].dirty => frame[f].data = ReadPage(frame[f].page)
  /\ \A p \in Pages \ owned : ReadPage(p) = Zero

(* The client owns exactly the pages that are allocated in the file: this is
   why a pool below its bound finds a page to allocate, and why DeletePage
   gives back only pages that are allocated. *)
PoolInv ==
  /\ TypeOK /\ DiskInv /\ owned = AllocatedPages
  /\ NoPinnedVictim
  /\ spoils = 0 => CleanPool

(* While a page is not allocated, AllocatePage finds one. *)
LEMMA RoomInFile ==
  ASSUME DiskInv, AllocatedPages # Pages
  PROVE  ~DiskFull
<1> SUFFICES ASSUME DiskFull PROVE FALSE
  OBVIOUS
<1> DEFINE open == {i \in 0 .. meta.num_extents_ - 1 : meta.extent_used_page_[i] < BitmapSize}
<1>1. meta.num_extents_ \in 0 .. MaxBitmap /\ MaxBitmap \in Nat /\ BitmapSize \in Nat \ {0}
  BY DiskAssumption DEF DiskInv, DiskTypeOK, MetaPage
<1>2. open = {}
  <2> SUFFICES ASSUME open # {} PROVE FALSE
    OBVIOUS
  <2>1. open \in SUBSET Nat
    BY <1>1
  <2>2. Min(open) \in open
    BY <2>1, MinIsMember
  <2>3. ExtentToUse \in open
    BY <2>2 DEF ExtentToUse
  <2> QED BY <1>1, <2>3 DEF DiskFull
<1>3. meta.num_extents_ = MaxBitmap
  BY <1>2 DEF DiskFull, ExtentToUse
<1>4. ASSUME NEW i \in Extents PROVE Bitmap(i).bytes = Slots
  <2>1. i \in 0 .. meta.num_extents_ - 1
    BY <1>3 DEF Extents
  <2>2. meta.extent_used_page_[i] \in Nat
    BY DEF DiskInv, DiskTypeOK, MetaPage
  <2>3. meta.extent_used_page_[i] >= BitmapSize
    BY <1>1, <1>2, <2>1, <2>2
  <2>4. /\ Bitmap(i).bytes \in SUBSET Slots
        /\ meta.extent_used_page_[i] = Cardinality(Bitmap(i).bytes)
    BY DEF DiskInv, GoodBitmap, BitmapPage
  <2>5. Cardinality(Bitmap(i).bytes) <= BitmapSize
    BY <2>4, SlotsFinite, FS_Subset
  <2>6. Cardinality(Bitmap(i).bytes) = BitmapSize
    BY <1>1, <2>2, <2>3, <2>4, <2>5
  <2> QED BY <2>4, <2>6, BitsFinite
<1>5. AllocatedPages = Pages
  BY <1>4, PageParts DEF AllocatedPages, IsPageFree, IsFree
<1> QED
  BY <1>5

-----------------------------------------------------------------------------
(* What holds whatever was deleted or evicted                              *)

BaseInv == TypeOK /\ DiskInv /\ owned = AllocatedPages /\ NoPinnedVictim

LEMMA PagesAreNat == Pages \subseteq Nat /\ NoPage \notin Pages
  BY DEF Pages, NoPage

LEMMA FramesAreNat == 0 \in Frames /\ NoFrame \notin Frames
  BY PoolAssumption DEF Frames, NoFrame

(* The replacer's frames, without positions. *)
LEMMA VictimsUnpinned ==
  ASSUME lru \in Seq(Frames)
  PROVE  NoPinnedVictim <=> \A f \in Frames : Contains(lru, f) => frame[f].pin = 0
<1>1. lru \in [1 .. Len(lru) -> Frames] /\ DOMAIN lru = 1 .. Len(lru)
  BY LenProperties
<1> QED
  BY <1>1 DEF NoPinnedVictim, Contains

LEMMA VictimsUnpinnedNext ==
  ASSUME lru' \in Seq(Frames), \A f \in Frames : Contains(lru', f) => frame'[f].pin = 0
  PROVE  NoPinnedVictim'
<1>1. lru' \in [1 .. Len(lru') -> Frames] /\ DOMAIN lru' = 1 .. Len(lru')
  BY LenProperties
<1> QED
  BY <1>1 DEF NoPinnedVictim, Contains

(* The frame that FetchPage and NewPage take. *)
LEMMA Chosen ==
  ASSUME TypeOK, NoPinnedVictim, HasFrame
  PROVE  /\ ChosenFrame \in Frames
         /\ FreeListAfter \in Seq(Frames)
         /\ LruAfter \in Seq(Frames) /\ IsInjective(LruAfter)
         /\ \A x : Contains(LruAfter, x) <=> Contains(lru, x) /\ x # ChosenFrame
         /\ Contains(free_list_, ChosenFrame) \/ (free_list_ = <<>> /\ frame[ChosenFrame].pin = 0)
         /\ IsInjective(free_list_) =>
              /\ IsInjective(FreeListAfter)
              /\ \A x : Contains(FreeListAfter, x) <=> Contains(free_list_, x) /\ x # ChosenFrame
<1>1. free_list_ \in Seq(Frames) /\ lru \in Seq(Frames) /\ IsInjective(lru)
  BY DEF TypeOK
<1>2. CASE free_list_ # <<>>
  <2>1. ChosenFrame = Head(free_list_) /\ FreeListAfter = Tail(free_list_)
    BY <1>2 DEF ChosenFrame, FreeListAfter
  <2>2. /\ ChosenFrame \in Frames /\ FreeListAfter \in Seq(Frames) /\ Contains(free_list_, ChosenFrame)
        /\ IsInjective(free_list_) =>
             /\ IsInjective(FreeListAfter)
             /\ \A x : Contains(FreeListAfter, x) <=> Contains(free_list_, x) /\ x # ChosenFrame
    BY <1>1, <1>2, <2>1, TailProperties
  <2> QED BY <1>1, <2>2, RemoveFirstProperties DEF LruAfter, ReplacerPin
<1>3. CASE free_list_ = <<>>
  <2>1. ChosenFrame = lru[Len(lru)] /\ FreeListAfter = free_list_ /\ lru # <<>>
    BY <1>3 DEF ChosenFrame, FreeListAfter, HasFrame, Last
  <2>2. Len(lru) \in 1 .. Len(lru) /\ lru \in [1 .. Len(lru) -> Frames]
    BY <1>1, <2>1, LenProperties, EmptySeq
  <2>3. ChosenFrame \in Frames /\ Contains(lru, ChosenFrame)
    BY <2>1, <2>2 DEF Contains
  <2>4. frame[ChosenFrame].pin = 0
    BY <1>1, <2>3, VictimsUnpinned
  <2>5. \A x : ~Contains(free_list_, x)
    BY <1>3 DEF Contains
  <2> QED BY <1>1, <1>3, <2>1, <2>3, <2>4, <2>5, RemoveFirstProperties DEF LruAfter, ReplacerPin
<1> QED
  BY <1>2, <1>3

LEMMA DiskUnchanged ==
  ASSUME DiskInv, UNCHANGED diskVars
  PROVE  DiskInv' /\ AllocatedPages' = AllocatedPages
BY DEF diskVars, DiskInv, DiskTypeOK, GoodBitmap, Full, IsFree, Bitmap, AllocatedPages, IsPageFree

LEMMA WriteKeepsPages ==
  ASSUME DiskInv, NEW p \in Pages, NEW v \in Values, WritePage(p, v)
  PROVE  /\ DiskInv' /\ AllocatedPages' = AllocatedPages
         /\ ReadPage(p)' = v
         /\ \A q \in Pages \ {p} : ReadPage(q)' = ReadPage(q)
<1>1. DOMAIN file = PhysicalIds /\ file' = [file EXCEPT ![MapPageId(p)] = v]
  BY DEF DiskInv, DiskTypeOK, WritePage
<1>2. \A i \in Extents : Bitmap(i)' = Bitmap(i)
  BY <1>1, BitmapPlaces, DataPlaces DEF Bitmap
<1>3. AllocatedPages' = AllocatedPages
  BY <1>2, PageParts DEF AllocatedPages, IsPageFree, IsFree
<1>4. ReadPage(p)' = v
  BY <1>1, DataPlaces DEF ReadPage
<1>5. \A q \in Pages \ {p} : ReadPage(q)' = ReadPage(q)
  BY <1>1, DataPlaces, DataPlacesDiffer DEF ReadPage
<1> QED
  BY <1>3, <1>4, <1>5, WriteInv

(* A step of the pool keeps the base when the parts it changes stay typed
   and the frames left in the replacer stay unpinned. *)
LEMMA BaseKept ==
  ASSUME DiskInv', owned' = AllocatedPages',
         frame' \in [Frames -> [page : Pages \cup {NoPage}, pin : Nat, dirty : BOOLEAN, data : Values]],
         page_table_' \in [Pages -> Frames \cup {NoFrame}],
         free_list_' \in Seq(Frames), lru' \in Seq(Frames), IsInjective(lru'),
         held' \in [Pages -> [Frames -> 0 .. MaxPins]], spoils' \in 0 .. MaxSpoils,
         \A f \in Frames : Contains(lru', f) => frame'[f].pin = 0
  PROVE  BaseInv'
<1>1. NoPinnedVictim'
  BY VictimsUnpinnedNext
<1>2. owned' \subseteq Pages
  BY DEF AllocatedPages
<1>3. TypeOK'
  BY <1>2 DEF TypeOK, DiskInv
<1> QED
  BY <1>1, <1>3 DEF BaseInv

LEMMA TakeType ==
  ASSUME TypeOK, NEW p \in Pages, NEW f \in Frames, held[p][f] < MaxPins, Take(p, f)
  PROVE  /\ held' \in [Pages -> [Frames -> 0 .. MaxPins]]
         /\ \A q \in Pages, g \in Frames :
              held'[q][g] = IF q = p /\ g = f THEN held[q][g] + 1 ELSE held[q][g]
<1>1. held[p][f] \in 0 .. MaxPins /\ MaxPins \in Nat
  BY PoolAssumption DEF TypeOK
<1>2. held[p][f] + 1 \in 0 .. MaxPins
  BY <1>1
<1> QED
  BY <1>2 DEF TypeOK, Take

LEMMA FetchHitBase ==
  ASSUME BaseInv, NEW p \in Pages, FetchHit(p)
  PROVE  BaseInv'
<1> DEFINE f == page_table_[p]
<1> USE DEF BaseInv
<1>1. f \in Frames
  BY DEF TypeOK, FetchHit, Mapped
<1>2. DiskInv' /\ AllocatedPages' = AllocatedPages /\ UNCHANGED <<page_table_, free_list_, owned, spoils>>
  BY DiskUnchanged DEF FetchHit
<1>3. lru' \in Seq(Frames) /\ IsInjective(lru') /\ \A x : Contains(lru', x) <=> Contains(lru, x) /\ x # f
  BY <1>1, RemoveFirstProperties DEF FetchHit, ReplacerPin, TypeOK
<1>4. held' \in [Pages -> [Frames -> 0 .. MaxPins]]
  BY <1>1, TakeType DEF FetchHit
<1>5. frame[f].pin \in Nat
  BY <1>1 DEF TypeOK
<1>6. /\ frame' \in [Frames -> [page : Pages \cup {NoPage}, pin : Nat, dirty : BOOLEAN, data : Values]]
      /\ \A g \in Frames \ {f} : frame'[g] = frame[g]
  <2>1. frame' = [frame EXCEPT ![f].pin = frame[f].pin + 1] /\ frame[f].pin + 1 \in Nat
    BY <1>1, <1>5 DEF FetchHit, TypeOK
  <2> QED BY <1>1, <2>1 DEF TypeOK
<1>7. \A g \in Frames : Contains(lru', g) => frame'[g].pin = 0
  BY <1>3, <1>6, VictimsUnpinned DEF TypeOK
<1> QED
  BY <1>2, <1>3, <1>4, <1>6, <1>7, BaseKept DEF TypeOK

LEMMA SpoilType ==
  ASSUME TypeOK, (Spoil \/ UNCHANGED spoils)
  PROVE  /\ spoils' \in 0 .. MaxSpoils
         /\ spoils' = 0 => spoils = 0 /\ ~Spoil
BY PoolAssumption DEF TypeOK, Spoil

LEMMA TableAfterType ==
  ASSUME TypeOK, NEW p \in Pages, NEW f \in Frames
  PROVE  TableAfter(p, f) \in [Pages -> Frames \cup {NoFrame}]
BY DEF TypeOK, TableAfter

LEMMA FetchMissBase ==
  ASSUME BaseInv, NEW p \in Pages, FetchMiss(p)
  PROVE  BaseInv'
<1> DEFINE f == ChosenFrame
<1> USE DEF BaseInv
<1>1. /\ f \in Frames /\ FreeListAfter \in Seq(Frames)
      /\ LruAfter \in Seq(Frames) /\ IsInjective(LruAfter)
      /\ \A x : Contains(LruAfter, x) <=> Contains(lru, x) /\ x # f
  BY Chosen DEF FetchMiss
<1> HIDE DEF f
<1>2. frame[f].data \in Values /\ frame[f].dirty \in BOOLEAN
  BY <1>1 DEF TypeOK
<1>3. DiskInv' /\ AllocatedPages' = AllocatedPages
  <2>1. CASE frame[f].dirty
    <3>1. WritePage(p, frame[f].data)
      BY <2>1 DEF FetchMiss, WritePage, f
    <3> QED BY <1>2, <3>1, WriteKeepsPages
  <2>2. CASE ~frame[f].dirty
    BY <2>2, DiskUnchanged DEF FetchMiss, diskVars, f
  <2> QED BY <2>1, <2>2
<1>4. file'[MapPageId(p)] \in Values
  BY <1>3 DEF DiskInv, DiskTypeOK
<1>5. frame' = [frame EXCEPT ![f] = [page |-> p, pin |-> 1, dirty |-> FALSE, data |-> file'[MapPageId(p)]]]
  BY DEF FetchMiss, f
<1>6. /\ frame' \in [Frames -> [page : Pages \cup {NoPage}, pin : Nat, dirty : BOOLEAN, data : Values]]
      /\ \A g \in Frames \ {f} : frame'[g] = frame[g]
  BY <1>1, <1>4, <1>5 DEF TypeOK
<1>7. held' \in [Pages -> [Frames -> 0 .. MaxPins]]
  BY <1>1, TakeType DEF FetchMiss, f
<1>8. spoils' \in 0 .. MaxSpoils
  BY SpoilType DEF FetchMiss
<1>9. page_table_' = TableAfter(p, f) /\ free_list_' = FreeListAfter /\ lru' = LruAfter /\ owned' = owned
  BY DEF FetchMiss, f
<1>10. page_table_' \in [Pages -> Frames \cup {NoFrame}]
  BY <1>1, <1>9, TableAfterType
<1>11. \A g \in Frames : Contains(lru', g) => frame'[g].pin = 0
  BY <1>1, <1>6, <1>9, VictimsUnpinned DEF TypeOK
<1> QED
  BY <1>1, <1>3, <1>6, <1>7, <1>8, <1>9, <1>10, <1>11, BaseKept

(* NewPage allocates a page in the file and may write a victim there. *)
LEMMA NewPageDisk ==
  ASSUME BaseInv, NewPage
  PROVE  /\ DiskInv'
         /\ AllocatedPage \in Pages /\ IsPageFree(AllocatedPage)
         /\ AllocatedPages' = AllocatedPages \cup {AllocatedPage}
         /\ \A q \in Pages \ {AllocatedPage} : ReadPage(q)' = ReadPage(q)
         /\ ~frame[ChosenFrame].dirty => file'[MapPageId(AllocatedPage)] = ReadPage(AllocatedPage)
<1> DEFINE f == ChosenFrame
           p == AllocatedPage
<1> USE DEF BaseInv
<1>1. f \in Frames
  BY Chosen DEF NewPage
<1>2. frame[f].data \in Values /\ frame[f].dirty \in BOOLEAN
  BY <1>1 DEF TypeOK
<1>3. ~DiskFull
  <2>1. Cardinality(Pages) = MaxBitmap * BitmapSize /\ MaxBitmap * BitmapSize \in Nat
    <3>1. MaxBitmap * BitmapSize \in Nat
      BY DiskAssumption
    <3>2. MaxBitmap * BitmapSize - 1 \in Int /\ 0 \in Int
      BY <3>1
    <3>3. Cardinality(Pages) = IF 0 > MaxBitmap * BitmapSize - 1 THEN 0
                               ELSE (MaxBitmap * BitmapSize - 1) - 0 + 1
      BY <3>2, FS_Interval DEF Pages
    <3> QED BY <3>1, <3>3
  <2>2. Cardinality(owned) < MaxOwned /\ MaxOwned \in Nat /\ MaxOwned < MaxBitmap * BitmapSize
    BY PoolAssumption DEF NewPage
  <2>3. Cardinality(owned) \in Nat
    BY PagesFinite, FS_CardinalityType
  <2>4. AllocatedPages # Pages
    BY <2>1, <2>2, <2>3
  <2> QED BY <2>4, RoomInFile
<1>4. PICK e \in Extents : e = ExtentToUse
  BY <1>3, ChosenExtentHasRoom
<1>5. p \in Pages
  <2>1. Bitmap(e).next_free_page_ \in Slots
    BY DEF DiskInv, GoodBitmap, BitmapPage
  <2> QED BY <1>4, <2>1, PageOfSlot DEF AllocatedPage
<1> DEFINE file1 == [file EXCEPT ![BitmapPageId(e)] = BitmapAllocate(Bitmap(e))]
<1>6. FileAfterAllocate = file1
  BY <1>4 DEF FileAfterAllocate, Bitmap
<1>7. DOMAIN file = PhysicalIds /\ file[MetaPageId] \in MetaPage /\ MetaPageId \in PhysicalIds
  <2>1. MaxBitmap * (BitmapSize + 1) \in Nat
    BY DiskAssumption
  <2> QED BY <2>1 DEF DiskInv, DiskTypeOK, MetaPageId, PhysicalIds
<1>8. /\ DOMAIN file1 = PhysicalIds
      /\ file1[BitmapPageId(e)] = BitmapAllocate(Bitmap(e))
      /\ \A i \in Extents \ {e} : file1[BitmapPageId(i)] = Bitmap(i)
      /\ \A q \in Pages : file1[MapPageId(q)] = file[MapPageId(q)]
      /\ file1[MetaPageId] = file[MetaPageId]
  BY <1>7, BitmapPlaces, BitmapPlacesDiffer, DataPlaces DEF Bitmap
<1> HIDE DEF file1, p, f
<1>9. file' = IF frame[f].dirty THEN [file1 EXCEPT ![MapPageId(p)] = frame[f].data] ELSE file1
  BY <1>6 DEF NewPage, p, f
<1>10. /\ DOMAIN file' = PhysicalIds
       /\ \A i \in Extents : file'[BitmapPageId(i)] = file1[BitmapPageId(i)]
       /\ \A q \in Pages \ {p} : file'[MapPageId(q)] = file[MapPageId(q)]
       /\ ~frame[f].dirty => file'[MapPageId(p)] = file[MapPageId(p)]
       /\ frame[f].dirty => file'[MapPageId(p)] = frame[f].data
       /\ file'[MetaPageId] = file[MetaPageId]
  BY <1>5, <1>7, <1>8, <1>9, BitmapPlaces, DataPlaces, DataPlacesDiffer
<1>11. \A q \in Pages : file'[MapPageId(q)] \in Values
  BY <1>2, <1>5, <1>10 DEF DiskInv, DiskTypeOK
<1>12. meta' = MetaAfterAllocate
  BY DEF NewPage
<1>13. AllocateEffect
  BY <1>3, <1>4, <1>8, <1>10, <1>11, <1>12 DEF AllocateEffect
<1>14. DiskInv' /\ p \in Pages /\ IsPageFree(p) /\ AllocatedPages' = AllocatedPages \cup {p}
  BY <1>13, AllocateInv, AllocateStep DEF p
<1> QED
  BY <1>10, <1>14 DEF ReadPage, p, f

LEMMA NewPageBase ==
  ASSUME BaseInv, NewPage
  PROVE  BaseInv'
<1> DEFINE f == ChosenFrame
           p == AllocatedPage
<1> USE DEF BaseInv
<1>1. /\ f \in Frames /\ FreeListAfter \in Seq(Frames)
      /\ LruAfter \in Seq(Frames) /\ IsInjective(LruAfter)
      /\ \A x : Contains(LruAfter, x) <=> Contains(lru, x) /\ x # f
  BY Chosen DEF NewPage
<1>2. DiskInv' /\ p \in Pages /\ AllocatedPages' = AllocatedPages \cup {p}
  BY NewPageDisk
<1> HIDE DEF f, p
<1>3. frame[f].pin + 1 \in Nat /\ frame[f].dirty \in BOOLEAN /\ Zero \in Values
  BY <1>1, DiskAssumption DEF TypeOK
<1>4. frame' = [frame EXCEPT ![f] = [page |-> p, pin |-> frame[f].pin + 1, dirty |-> frame[f].dirty,
                                     data |-> Zero]]
  BY <1>1 DEF NewPage, f, p, TypeOK
<1>5. /\ frame' \in [Frames -> [page : Pages \cup {NoPage}, pin : Nat, dirty : BOOLEAN, data : Values]]
      /\ \A g \in Frames \ {f} : frame'[g] = frame[g]
  BY <1>1, <1>2, <1>3, <1>4 DEF TypeOK
<1>6. held' \in [Pages -> [Frames -> 0 .. MaxPins]]
  BY <1>1, <1>2, TakeType DEF NewPage, f, p
<1>7. spoils' \in 0 .. MaxSpoils
  BY SpoilType DEF NewPage
<1>8. /\ page_table_' = TableAfter(p, f) /\ free_list_' = FreeListAfter /\ lru' = LruAfter
      /\ owned' = owned \cup {p}
  BY DEF NewPage, f, p
<1>9. page_table_' \in [Pages -> Frames \cup {NoFrame}]
  BY <1>1, <1>2, <1>8, TableAfterType
<1>10. \A g \in Frames : Contains(lru', g) => frame'[g].pin = 0
  BY <1>1, <1>5, <1>8, VictimsUnpinned DEF TypeOK
<1> QED
  BY <1>1, <1>2, <1>5, <1>6, <1>7, <1>8, <1>9, <1>10, BaseKept

(* What UnpinPage does to the frames: the client may write the frame f it
   holds, and the frame g of the page loses a pin. *)
LEMMA UnpinFrames ==
  ASSUME TypeOK, NEW p \in Pages, NEW f \in Frames, NEW dirty \in BOOLEAN, NEW value \in Values,
         UnpinPage(p, f, dirty, value)
  PROVE  /\ frame' \in [Frames -> [page : Pages \cup {NoPage}, pin : Nat, dirty : BOOLEAN, data : Values]]
         /\ \A h \in Frames :
              LET known == h = page_table_[p] /\ frame[h].pin > 0 IN
              /\ frame'[h].page = frame[h].page
              /\ frame'[h].pin = IF known THEN frame[h].pin - 1 ELSE frame[h].pin
              /\ frame'[h].dirty = IF known THEN frame[h].dirty \/ dirty ELSE frame[h].dirty
              /\ frame'[h].data = IF dirty /\ h = f THEN value ELSE frame[h].data
<1> DEFINE F == [page : Pages \cup {NoPage}, pin : Nat, dirty : BOOLEAN, data : Values]
           g == page_table_[p]
           written == IF dirty THEN [frame EXCEPT ![f].data = value] ELSE frame
           known == Mapped(p) /\ frame[g].pin > 0
<1>1. frame \in [Frames -> F] /\ g \in Frames \cup {NoFrame} /\ NoFrame \notin Frames
  BY FramesAreNat DEF TypeOK
<1>2. /\ written \in [Frames -> F]
      /\ \A h \in Frames :
           /\ written[h].page = frame[h].page /\ written[h].pin = frame[h].pin
           /\ written[h].dirty = frame[h].dirty
           /\ written[h].data = IF dirty /\ h = f THEN value ELSE frame[h].data
  <2>1. CASE dirty
    BY <1>1, <2>1
  <2>2. CASE ~dirty
    BY <1>1, <2>2
  <2> QED BY <2>1, <2>2
<1> HIDE DEF written
<1>3. CASE known
  <2>1. g \in Frames /\ frame[g].pin > 0
    BY <1>1, <1>3 DEF Mapped
  <2>2. frame[g] \in F /\ written[g] \in F /\ frame[g].pin - 1 \in Nat
    BY <1>1, <1>2, <2>1
  <2> DEFINE u == [UnpinnedFrame(g, dirty) EXCEPT !.data = written[g].data]
  <2>3. frame' = [written EXCEPT ![g] = u]
    BY <1>3 DEF UnpinPage, written
  <2>4. /\ u \in F /\ u.page = frame[g].page /\ u.pin = frame[g].pin - 1
        /\ u.dirty = (frame[g].dirty \/ dirty) /\ u.data = written[g].data
    BY <2>2 DEF UnpinnedFrame
  <2> HIDE DEF u
  <2>5. frame' \in [Frames -> F] /\ frame'[g] = u /\ \A h \in Frames \ {g} : frame'[h] = written[h]
    BY <1>2, <2>1, <2>3, <2>4
  <2> QED BY <1>2, <2>1, <2>4, <2>5
<1>4. CASE ~known
  <2>1. frame' = written
    BY <1>4 DEF UnpinPage, written
  <2>2. \A h \in Frames : ~(h = g /\ frame[h].pin > 0)
    BY <1>1, <1>4 DEF Mapped
  <2> QED BY <1>2, <2>1, <2>2
<1> QED
  BY <1>3, <1>4

LEMMA UnpinLists ==
  ASSUME TypeOK, NEW p \in Pages, NEW f \in Frames, NEW dirty \in BOOLEAN, NEW value \in Values,
         UnpinPage(p, f, dirty, value)
  PROVE  /\ lru' \in Seq(Frames) /\ IsInjective(lru')
         /\ \A x : Contains(lru', x) <=>
              (Contains(lru, x) \/ (x \in Frames /\ x = page_table_[p] /\ frame[x].pin = 1))
         /\ held' \in [Pages -> [Frames -> 0 .. MaxPins]]
         /\ \A q \in Pages, h \in Frames :
              held'[q][h] = IF q = p /\ h = f THEN held[q][h] - 1 ELSE held[q][h]
<1> DEFINE g == page_table_[p]
           known == Mapped(p) /\ frame[g].pin > 0
<1>1. lru \in Seq(Frames) /\ IsInjective(lru) /\ g \in Frames \cup {NoFrame} /\ NoFrame \notin Frames
  BY FramesAreNat DEF TypeOK
<1>2. /\ lru' \in Seq(Frames) /\ IsInjective(lru')
      /\ \A x : Contains(lru', x) <=>
           (Contains(lru, x) \/ (x \in Frames /\ x = g /\ frame[x].pin = 1))
  <2>1. CASE known /\ frame[g].pin = 1
    <3>1. g \in Frames /\ lru' = ReplacerUnpin(lru, g)
      BY <1>1, <2>1 DEF Mapped, UnpinPage
    <3>2. CASE Contains(lru, g)
      BY <1>1, <2>1, <3>1, <3>2 DEF ReplacerUnpin
    <3>3. CASE ~Contains(lru, g)
      <4>1. lru' = <<g>> \o lru
        BY <3>1, <3>3 DEF ReplacerUnpin
      <4> QED BY <1>1, <2>1, <3>1, <3>3, <4>1, ConsProperties
    <3> QED BY <3>2, <3>3
  <2>2. CASE ~(known /\ frame[g].pin = 1)
    <3>1. lru' = lru
      BY <2>2 DEF UnpinPage
    <3>2. \A x : ~(x \in Frames /\ x = g /\ frame[x].pin = 1)
      BY <1>1, <2>2 DEF Mapped
    <3> QED BY <1>1, <3>1, <3>2
  <2> QED BY <2>1, <2>2
<1>3. /\ held' \in [Pages -> [Frames -> 0 .. MaxPins]]
      /\ \A q \in Pages, h \in Frames :
           held'[q][h] = IF q = p /\ h = f THEN held[q][h] - 1 ELSE held[q][h]
  <2>1. held[p][f] \in 0 .. MaxPins /\ held[p][f] > 0 /\ MaxPins \in Nat
    BY PoolAssumption DEF TypeOK, UnpinPage
  <2>2. held[p][f] - 1 \in 0 .. MaxPins
    BY <2>1
  <2> QED BY <2>2 DEF TypeOK, UnpinPage
<1> QED
  BY <1>2, <1>3

LEMMA UnpinBase ==
  ASSUME BaseInv, NEW p \in Pages, NEW f \in Frames, NEW dirty \in BOOLEAN, NEW value \in Values,
         UnpinPage(p, f, dirty, value)
  PROVE  BaseInv'
<1> USE DEF BaseInv
<1>1. DiskInv' /\ AllocatedPages' = AllocatedPages /\ UNCHANGED <<page_table_, free_list_, owned, spoils>>
  BY DiskUnchanged DEF UnpinPage
<1>2. \A h \in Frames : Contains(lru', h) => frame'[h].pin = 0
  <2> SUFFICES ASSUME NEW h \in Frames, Contains(lru', h) PROVE frame'[h].pin = 0
    OBVIOUS
  <2>1. frame[h].pin \in Nat
    BY DEF TypeOK
  <2>2. CASE Contains(lru, h)
    <3>1. frame[h].pin = 0
      BY <2>2, VictimsUnpinned DEF TypeOK
    <3> QED BY <3>1, UnpinFrames
  <2>3. CASE h = page_table_[p] /\ frame[h].pin = 1
    BY <2>3, UnpinFrames
  <2> QED BY <2>2, <2>3, UnpinLists
<1>3. frame' \in [Frames -> [page : Pages \cup {NoPage}, pin : Nat, dirty : BOOLEAN, data : Values]]
  BY UnpinFrames
<1>4. lru' \in Seq(Frames) /\ IsInjective(lru') /\ held' \in [Pages -> [Frames -> 0 .. MaxPins]]
  BY UnpinLists
<1>5. /\ page_table_' \in [Pages -> Frames \cup {NoFrame}] /\ free_list_' \in Seq(Frames)
      /\ spoils' \in 0 .. MaxSpoils
  BY <1>1 DEF TypeOK
<1> QED
  BY <1>1, <1>2, <1>3, <1>4, <1>5, BaseKept

LEMMA FlushBase ==
  ASSUME BaseInv, NEW p \in Pages, FlushPage(p)
  PROVE  BaseInv'
<1> DEFINE f == page_table_[p]
<1> USE DEF BaseInv
<1>1. f \in Frames /\ frame[f].data \in Values
  BY DEF TypeOK, FlushPage, Mapped
<1>2. DiskInv' /\ AllocatedPages' = AllocatedPages
  BY <1>1, WriteKeepsPages DEF FlushPage
<1>3. frame' = [frame EXCEPT ![f].dirty = FALSE] /\ UNCHANGED <<page_table_, free_list_, lru, held, owned, spoils>>
  BY DEF FlushPage, clientVars
<1>4. /\ frame' \in [Frames -> [page : Pages \cup {NoPage}, pin : Nat, dirty : BOOLEAN, data : Values]]
      /\ \A g \in Frames : frame'[g].pin = frame[g].pin
  <2>1. frame \in [Frames -> [page : Pages \cup {NoPage}, pin : Nat, dirty : BOOLEAN, data : Values]]
    BY DEF TypeOK
  <2> HIDE DEF f
  <2> QED BY <1>1, <1>3, <2>1
<1>5. \A g \in Frames : Contains(lru', g) => frame'[g].pin = 0
  BY <1>3, <1>4, VictimsUnpinned DEF TypeOK
<1> QED
  BY <1>2, <1>3, <1>4, <1>5, BaseKept DEF TypeOK

LEMMA DeleteMappedBase ==
  ASSUME BaseInv, NEW p \in Pages, DeleteMapped(p)
  PROVE  BaseInv'
<1> USE DEF BaseInv
<1>1. DiskInv' /\ owned' = AllocatedPages'
  BY DeAllocateInv DEF DeleteMapped, AllocatedPages
<1>2. UNCHANGED <<frame, page_table_, free_list_, lru, held>> /\ spoils' \in 0 .. MaxSpoils
  BY SpoilType DEF DeleteMapped, poolVars
<1>3. \A g \in Frames : Contains(lru', g) => frame'[g].pin = 0
  BY <1>2, VictimsUnpinned DEF TypeOK
<1> QED
  BY <1>1, <1>2, <1>3, BaseKept DEF TypeOK

LEMMA DeleteUnmappedBase ==
  ASSUME BaseInv, NEW p \in Pages, DeleteUnmapped(p)
  PROVE  BaseInv'
<1> USE DEF BaseInv
<1>1. UNCHANGED <<lru, held>> /\ spoils' \in 0 .. MaxSpoils
  BY SpoilType DEF DeleteUnmapped
<1>2. CASE frame[0].pin # 0
  <2>1. UNCHANGED <<diskVars, frame, free_list_, owned>> /\ page_table_' = [page_table_ EXCEPT ![p] = 0]
    BY <1>2 DEF DeleteUnmapped
  <2>2. DiskInv' /\ AllocatedPages' = AllocatedPages
    BY <2>1, DiskUnchanged
  <2>3. page_table_' \in [Pages -> Frames \cup {NoFrame}]
    BY <2>1, FramesAreNat DEF TypeOK
  <2>4. \A g \in Frames : Contains(lru', g) => frame'[g].pin = 0
    BY <1>1, <2>1, VictimsUnpinned DEF TypeOK
  <2> QED BY <1>1, <2>1, <2>2, <2>3, <2>4, BaseKept DEF TypeOK
<1>3. CASE frame[0].pin = 0
  <2>1. /\ DeAllocatePage(p) /\ ~IsPageFree(p)
        /\ frame' = [frame EXCEPT ![0] = EmptyFrame]
        /\ free_list_' = <<0>> \o free_list_
        /\ owned' = owned \ {p} /\ UNCHANGED page_table_
    BY <1>3 DEF DeleteUnmapped, AllocatedPages
  <2>2. DiskInv' /\ owned' = AllocatedPages'
    BY <2>1, DeAllocateInv
  <2>3. free_list_' \in Seq(Frames)
    BY <2>1, FramesAreNat, ConsProperties DEF TypeOK
  <2>4. /\ frame' \in [Frames -> [page : Pages \cup {NoPage}, pin : Nat, dirty : BOOLEAN, data : Values]]
        /\ frame'[0].pin = 0 /\ \A g \in Frames \ {0} : frame'[g] = frame[g]
    BY <2>1, FramesAreNat, DiskAssumption DEF TypeOK, EmptyFrame
  <2>5. \A g \in Frames : Contains(lru', g) => frame'[g].pin = 0
    BY <1>1, <2>4, VictimsUnpinned DEF TypeOK
  <2> QED BY <1>1, <2>1, <2>2, <2>3, <2>4, <2>5, BaseKept DEF TypeOK
<1> QED
  BY <1>2, <1>3

(* The destructor writes every page in the page table where it belongs and
   touches no bitmap page; the next DiskManager reads the same counters. *)
LEMMA RestartDisk ==
  ASSUME TypeOK, DiskInv, Restart
  PROVE  /\ DiskInv' /\ AllocatedPages' = AllocatedPages
         /\ \A q \in Pages : ReadPage(q)' = Current(q)
<1> DEFINE flushed == [k \in PhysicalIds |->
                         IF \E p \in Pages : Mapped(p) /\ MapPageId(p) = k
                         THEN frame[page_table_[CHOOSE p \in Pages :
                                                  Mapped(p) /\ MapPageId(p) = k]].data
                         ELSE file[k]]
<1>1. file' = [flushed EXCEPT ![MetaPageId] = meta] /\ meta' = meta
  BY DEF Restart, Reopened
<1>2. ASSUME NEW q \in Pages PROVE flushed[MapPageId(q)] = Current(q)
  <2>1. MapPageId(q) \in PhysicalIds
    BY DataPlaces
  <2>2. CASE Mapped(q)
    <3>1. \A p \in Pages : Mapped(p) /\ MapPageId(p) = MapPageId(q) => p = q
      BY DataPlacesDiffer
    <3>2. (CHOOSE p \in Pages : Mapped(p) /\ MapPageId(p) = MapPageId(q)) = q
      BY <2>2, <3>1
    <3> QED BY <2>1, <2>2, <3>2 DEF Current
  <2>3. CASE ~Mapped(q)
    <3>1. ~ \E p \in Pages : Mapped(p) /\ MapPageId(p) = MapPageId(q)
      BY <2>3, DataPlacesDiffer
    <3> QED BY <2>1, <2>3, <3>1 DEF Current, ReadPage
  <2> QED BY <2>2, <2>3
<1>3. ASSUME NEW i \in Extents PROVE flushed[BitmapPageId(i)] = file[BitmapPageId(i)]
  <2>1. BitmapPageId(i) \in PhysicalIds /\ \A p \in Pages : MapPageId(p) # BitmapPageId(i)
    BY BitmapPlaces, DataPlaces
  <2> QED BY <2>1
<1>4. DOMAIN flushed = PhysicalIds
  OBVIOUS
<1> HIDE DEF flushed
<1>5. ASSUME NEW q \in Pages PROVE Current(q) \in Values
  BY DEF Current, ReadPage, TypeOK, DiskTypeOK, Mapped
<1>6. \A q \in Pages : file'[MapPageId(q)] = Current(q)
  BY <1>1, <1>2, <1>4, DataPlaces
<1>7. \A i \in Extents : Bitmap(i)' = Bitmap(i)
  BY <1>1, <1>3, <1>4, BitmapPlaces DEF Bitmap
<1>8. MetaPageId \in PhysicalIds
  <2>1. MaxBitmap * (BitmapSize + 1) \in Nat
    BY DiskAssumption
  <2> QED BY <2>1 DEF MetaPageId, PhysicalIds
<1>9. DiskTypeOK'
  BY <1>1, <1>4, <1>5, <1>6, <1>7, <1>8 DEF DiskInv, DiskTypeOK
<1>10. DiskInv'
  BY <1>1, <1>7, <1>9, SameBitmapsInv
<1>11. AllocatedPages' = AllocatedPages
  BY <1>7, PageParts DEF AllocatedPages, IsPageFree, IsFree
<1> QED
  BY <1>6, <1>10, <1>11 DEF ReadPage

(* An empty pool: every frame is in the free list once. *)
LEMMA EmptyPool ==
  /\ [f \in Frames |-> EmptyFrame] \in
        [Frames -> [page : Pages \cup {NoPage}, pin : Nat, dirty : BOOLEAN, data : Values]]
  /\ [p \in Pages |-> NoFrame] \in [Pages -> Frames \cup {NoFrame}]
  /\ [i \in 1 .. PoolSize |-> i - 1] \in Seq(Frames)
  /\ IsInjective([i \in 1 .. PoolSize |-> i - 1])
  /\ \A f \in Frames : Contains([i \in 1 .. PoolSize |-> i - 1], f)
  /\ <<>> \in Seq(Frames) /\ IsInjective(<<>>) /\ \A x : ~Contains(<<>>, x)
  /\ [p \in Pages |-> NotHeld] \in [Pages -> [Frames -> 0 .. MaxPins]]
<1> DEFINE list == [i \in 1 .. PoolSize |-> i - 1]
<1>1. PoolSize \in Nat \ {0} /\ MaxPins \in Nat
  BY PoolAssumption
<1>2. list \in [1 .. PoolSize -> Frames]
  BY <1>1 DEF Frames
<1>3. list \in Seq(Frames) /\ Len(list) = PoolSize
  BY <1>1, <1>2
<1>4. IsInjective(list)
  BY <1>1 DEF IsInjective
<1>5. ASSUME NEW f \in Frames PROVE Contains(list, f)
  <2>1. f + 1 \in 1 .. PoolSize /\ (f + 1) - 1 = f
    BY <1>1 DEF Frames
  <2> QED BY <1>3, <2>1 DEF Contains
<1>6. <<>> \in Seq(Frames) /\ IsInjective(<<>>) /\ \A x : ~Contains(<<>>, x)
  BY DEF IsInjective, Contains
<1>7. [f \in Frames |-> EmptyFrame] \in
        [Frames -> [page : Pages \cup {NoPage}, pin : Nat, dirty : BOOLEAN, data : Values]]
  BY DiskAssumption DEF EmptyFrame
<1>8. [p \in Pages |-> NotHeld] \in [Pages -> [Frames -> 0 .. MaxPins]]
  BY <1>1 DEF NotHeld
<1> HIDE DEF list
<1>9. [p \in Pages |-> NoFrame] \in [Pages -> Frames \cup {NoFrame}]
  OBVIOUS
<1> QED
  BY <1>3, <1>4, <1>5, <1>6, <1>7, <1>8, <1>9 DEF list

LEMMA RestartBase ==
  ASSUME BaseInv, Restart
  PROVE  BaseInv'
<1> USE DEF BaseInv
<1>1. DiskInv' /\ AllocatedPages' = AllocatedPages
  BY RestartDisk
<1>2. /\ frame' = [f \in Frames |-> EmptyFrame] /\ page_table_' = [p \in Pages |-> NoFrame]
      /\ free_list_' = [i \in 1 .. PoolSize |-> i - 1] /\ lru' = <<>>
      /\ UNCHANGED <<held, owned, spoils>>
  BY DEF Restart, clientVars
<1> QED
  BY <1>1, <1>2, EmptyPool, BaseKept DEF TypeOK

LEMMA InitBase == Init => BaseInv /\ CleanPool
<1> SUFFICES ASSUME Init PROVE BaseInv /\ CleanPool
  OBVIOUS
<1>1. DiskInv
  BY InitInv DEF Init
<1>2. /\ frame = [f \in Frames |-> EmptyFrame] /\ page_table_ = [p \in Pages |-> NoFrame]
      /\ free_list_ = [i \in 1 .. PoolSize |-> i - 1] /\ lru = <<>>
      /\ held = [p \in Pages |-> NotHeld] /\ owned = {} /\ spoils = 0
  BY DEF Init
<1>3. TypeOK
  <2>1. spoils \in 0 .. MaxSpoils /\ owned \subseteq Pages
    BY <1>2, PoolAssumption
  <2> QED BY <1>1, <1>2, <2>1, EmptyPool DEF TypeOK, DiskInv
<1>4. AllocatedPages = {}
  <2>1. \A i \in Extents : Bitmap(i) = EmptyBitmap
    BY BitmapPlaces DEF Init, DiskInit, Bitmap, BitmapIds
  <2> QED BY <2>1, PageParts DEF AllocatedPages, IsPageFree, IsFree, EmptyBitmap
<1>5. NoPinnedVictim
  BY <1>2 DEF NoPinnedVictim
<1>6. OnePool
  BY <1>2, EmptyPool DEF OnePool, Mapped, EmptyFrame
<1>7. \A p \in Pages : ReadPage(p) = Zero
  <2> SUFFICES ASSUME NEW p \in Pages PROVE ReadPage(p) = Zero
    OBVIOUS
  <2>1. MapPageId(p) \notin BitmapIds /\ MapPageId(p) \in PhysicalIds /\ MapPageId(p) # MetaPageId
    BY DataPlaces DEF BitmapIds
  <2> QED BY <2>1 DEF ReadPage, Init, DiskInit
<1>8. CleanPool
  BY <1>2, <1>6, <1>7 DEF CleanPool, EmptyFrame, NotHeld
<1> QED
  BY <1>1, <1>2, <1>3, <1>4, <1>5, <1>8 DEF BaseInv

-----------------------------------------------------------------------------
(* The pool before the first spoil                                         *)

(* A page that is not in the pool is loaded into a clean frame. *)
LEMMA LoadClean ==
  ASSUME BaseInv, CleanPool, HasFrame, NEW p \in Pages, NEW f \in Frames, f = ChosenFrame,
         ~Mapped(p), held[p][f] < MaxPins, Take(p, f),
         frame' = [frame EXCEPT ![f] = [page |-> p, pin |-> 1, dirty |-> FALSE,
                                        data |-> ReadPage(p)]],
         page_table_' = TableAfter(p, f), free_list_' = FreeListAfter, lru' = LruAfter,
         owned' = owned \cup {p},
         ~frame[f].dirty, \A q \in Pages : ReadPage(q)' = ReadPage(q)
  PROVE  CleanPool' /\ \A q \in Pages : Current(q)' = Current(q)
<1> USE DEF BaseInv
<1>1. /\ \A x : Contains(lru', x) <=> Contains(lru, x) /\ x # f
      /\ IsInjective(free_list_')
      /\ \A x : Contains(free_list_', x) <=> Contains(free_list_, x) /\ x # f
      /\ Contains(free_list_, f) \/ frame[f].pin = 0
  BY Chosen DEF CleanPool, OnePool
<1>2. /\ \A q \in Pages, h \in Frames : held[q][h] # 0 => frame[h].page = q
      /\ \A h \in Frames : frame[h].page = NoPage => frame[h].pin = 0 /\ ~frame[h].dirty
      /\ \A h \in Frames : frame[h].page # NoPage =>
           frame[h].page \in owned /\ (~frame[h].dirty => frame[h].data = ReadPage(frame[h].page))
  BY DEF CleanPool
<1>3. /\ \A q \in Pages : Mapped(q) => frame[page_table_[q]].page = q
      /\ \A h \in Frames :
           /\ frame[h].page # NoPage <=> ~Contains(free_list_, h)
           /\ frame[h].page # NoPage => page_table_[frame[h].page] = h
           /\ Contains(lru, h) <=> (frame[h].page # NoPage /\ frame[h].pin = 0)
           /\ frame[h].page # NoPage => frame[h].pin = held[frame[h].page][h]
  BY DEF CleanPool, OnePool
<1>4. /\ page_table_ \in [Pages -> Frames \cup {NoFrame}] /\ NoFrame \notin Frames /\ NoPage \notin Pages
      /\ \A h \in Frames : frame[h].page \in Pages \cup {NoPage}
      /\ \A q \in Pages, h \in Frames : held[q][h] \in Nat
      /\ frame \in [Frames -> [page : Pages \cup {NoPage}, pin : Nat, dirty : BOOLEAN, data : Values]]
      /\ owned \subseteq Pages
  <2>1. NoFrame \notin Frames /\ NoPage \notin Pages
    BY PagesAreNat, FramesAreNat, PoolAssumption
  <2> QED BY <2>1 DEF TypeOK
<1>5. frame[f].pin = 0
  BY <1>1, <1>2, <1>3
<1>6. \A q \in Pages : held[q][f] = 0
  BY <1>2, <1>3, <1>4, <1>5
<1>7. \A q \in Pages : page_table_'[q] = IF q = p THEN f
                                       ELSE IF q = frame[f].page THEN NoFrame ELSE page_table_[q]
  BY DEF TableAfter
<1>8. /\ frame'[f].page = p /\ frame'[f].pin = 1 /\ ~frame'[f].dirty /\ frame'[f].data = ReadPage(p)
      /\ \A h \in Frames \ {f} : frame'[h] = frame[h]
  BY <1>4
<1>9. \A q \in Pages, h \in Frames : held'[q][h] = IF q = p /\ h = f THEN 1 ELSE held[q][h]
  BY <1>6, TakeType
<1>10. ASSUME NEW q \in Pages, page_table_'[q] # NoFrame
       PROVE  /\ page_table_'[q] \in Frames /\ frame'[page_table_'[q]].page = q
              /\ q # p => page_table_'[q] = page_table_[q] /\ page_table_[q] # f
  <2>1. CASE q = p
    BY <1>7, <1>8, <2>1
  <2>2. CASE q # p
    <3>1. page_table_'[q] = page_table_[q] /\ q # frame[f].page /\ Mapped(q)
      BY <1>7, <1>10, <2>2 DEF Mapped
    <3>2. page_table_[q] \in Frames /\ frame[page_table_[q]].page = q
      BY <1>3, <1>4, <3>1 DEF Mapped
    <3> QED BY <1>8, <2>2, <3>1, <3>2
  <2> QED BY <2>1, <2>2
<1>11. ASSUME NEW h \in Frames \ {f}, frame[h].page # NoPage
       PROVE  frame[h].page # p /\ page_table_'[frame[h].page] = h
  <2>1. page_table_[frame[h].page] = h /\ frame[h].page \in Pages
    BY <1>3, <1>4, <1>11
  <2>2. frame[h].page # p
    BY <1>4, <2>1 DEF Mapped
  <2>3. frame[h].page # frame[f].page
    BY <1>3, <2>1, <1>11
  <2> QED BY <1>7, <2>1, <2>2, <2>3
<1>12. ASSUME NEW h \in Frames
       PROVE  /\ frame'[h].page # NoPage <=> ~Contains(free_list_', h)
              /\ frame'[h].page # NoPage => page_table_'[frame'[h].page] = h
              /\ Contains(lru', h) <=> (frame'[h].page # NoPage /\ frame'[h].pin = 0)
              /\ frame'[h].page # NoPage => frame'[h].pin = held'[frame'[h].page][h]
              /\ frame'[h].page = NoPage => frame'[h].pin = 0 /\ ~frame'[h].dirty
              /\ frame'[h].page # NoPage => frame'[h].page \in owned'
              /\ frame'[h].page # NoPage => (~frame'[h].dirty => frame'[h].data = ReadPage(frame'[h].page))
  <2>1. CASE h = f
    BY <1>1, <1>4, <1>7, <1>8, <1>9, <2>1
  <2>2. CASE h # f
    <3>1. frame'[h] = frame[h] /\ frame[h].page \in Pages \cup {NoPage}
      BY <1>4, <1>8, <2>2
    <3>2. frame[h].page # NoPage => held'[frame[h].page][h] = held[frame[h].page][h]
      BY <1>9, <2>2, <3>1
    <3>3. /\ Contains(free_list_', h) <=> Contains(free_list_, h)
          /\ Contains(lru', h) <=> Contains(lru, h)
      BY <1>1, <2>2
    <3>4. /\ frame[h].page # NoPage <=> ~Contains(free_list_, h)
          /\ Contains(lru, h) <=> (frame[h].page # NoPage /\ frame[h].pin = 0)
          /\ frame[h].page # NoPage => frame[h].pin = held[frame[h].page][h]
      BY <1>3
    <3>5. /\ frame[h].page = NoPage => frame[h].pin = 0 /\ ~frame[h].dirty
          /\ frame[h].page # NoPage =>
               frame[h].page \in owned /\ (~frame[h].dirty => frame[h].data = ReadPage(frame[h].page))
      BY <1>2
    <3>6. frame[h].page # NoPage => page_table_'[frame[h].page] = h
      BY <1>11, <2>2
    <3> QED BY <3>1, <3>2, <3>3, <3>4, <3>5, <3>6
  <2> QED BY <2>1, <2>2
<1>13. OnePool'
  BY <1>1, <1>10, <1>12 DEF OnePool, Mapped
<1>14. \A h \in Frames : frame'[h].page # NoPage =>
          (~frame'[h].dirty => frame'[h].data = ReadPage(frame[h].page)')
  <2> SUFFICES ASSUME NEW h \in Frames, frame'[h].page # NoPage, ~frame'[h].dirty
               PROVE  frame'[h].data = ReadPage(frame[h].page)'
    OBVIOUS
  <2>1. frame'[h].page \in Pages
    BY <1>12, <1>4
  <2>2. PICK q \in Pages : q = frame'[h].page
    BY <2>1
  <2>3. ReadPage(q)' = ReadPage(q) /\ frame'[h].data = ReadPage(q)
    BY <1>12, <2>2
  <2> QED BY <2>2, <2>3 DEF ReadPage
<1>15. \A q \in Pages, h \in Frames : held'[q][h] # 0 => frame'[h].page = q
  BY <1>2, <1>6, <1>8, <1>9
<1>16. \A q \in Pages \ owned' : ReadPage(q)' = Zero
  BY DEF CleanPool
<1>17. CleanPool'
  BY <1>12, <1>13, <1>14, <1>15, <1>16 DEF CleanPool
<1>18. ASSUME NEW q \in Pages PROVE Current(q)' = Current(q)
  <2>1. CASE q = p
    BY <1>4, <1>7, <1>8, <2>1 DEF Current, Mapped
  <2>2. CASE q # p /\ page_table_'[q] # NoFrame
    BY <1>8, <1>10, <2>2 DEF Current, Mapped
  <2>3. CASE q # p /\ page_table_'[q] = NoFrame
    <3>1. Current(q)' = ReadPage(q)
      BY <2>3 DEF Current, Mapped
    <3>2. CASE Mapped(q)
      <4>1. q = frame[f].page
        BY <1>7, <2>3, <3>2 DEF Mapped
      <4>2. page_table_[q] = f
        BY <1>3, <1>4, <4>1
      <4> QED BY <1>2, <1>4, <3>1, <3>2, <4>1, <4>2 DEF Current
    <3>3. CASE ~Mapped(q)
      BY <3>1, <3>3 DEF Current
    <3> QED BY <3>2, <3>3
  <2> QED BY <2>1, <2>2, <2>3
<1> QED
  BY <1>17, <1>18

LEMMA FetchMissClean ==
  ASSUME BaseInv, CleanPool, NEW p \in Pages, FetchMiss(p), ~frame[ChosenFrame].dirty
  PROVE  CleanPool' /\ \A q \in Pages : Current(q)' = Current(q)
<1>1. PICK f \in Frames : f = ChosenFrame
  BY Chosen DEF FetchMiss, BaseInv
<1>2. file' = file
  BY DEF FetchMiss
<1>3. \A q \in Pages : ReadPage(q)' = ReadPage(q)
  BY <1>2 DEF ReadPage
<1>4. frame' = [frame EXCEPT ![f] = [page |-> p, pin |-> 1, dirty |-> FALSE, data |-> ReadPage(p)]]
  BY <1>1 DEF FetchMiss, ReadPage
<1>5. /\ HasFrame /\ ~Mapped(p) /\ held[p][f] < MaxPins /\ Take(p, f)
      /\ page_table_' = TableAfter(p, f) /\ free_list_' = FreeListAfter /\ lru' = LruAfter
      /\ owned' = owned \cup {p} /\ ~frame[f].dirty
  BY <1>1 DEF FetchMiss
<1> QED
  BY <1>1, <1>3, <1>4, <1>5, LoadClean

LEMMA NewPageClean ==
  ASSUME BaseInv, CleanPool, NewPage, ~frame[ChosenFrame].dirty
  PROVE  CleanPool' /\ \A q \in Pages : Current(q)' = Current(q)
<1>1. PICK f \in Frames : f = ChosenFrame
  BY Chosen DEF NewPage, BaseInv
<1>2. PICK p \in Pages : p = AllocatedPage
  BY NewPageDisk
<1>3. \A q \in Pages : ReadPage(q)' = ReadPage(q)
  <2>1. \A q \in Pages \ {p} : ReadPage(q)' = ReadPage(q)
    BY <1>2, NewPageDisk
  <2>2. ReadPage(p)' = ReadPage(p)
    BY <1>2, NewPageDisk DEF ReadPage
  <2> QED BY <2>1, <2>2
<1>4. p \notin owned
  BY <1>2, NewPageDisk DEF BaseInv, AllocatedPages
<1>5. ReadPage(p) = Zero
  BY <1>4 DEF CleanPool
<1>6. ~Mapped(p)
  BY <1>4, PagesAreNat DEF CleanPool, OnePool, Mapped, BaseInv, TypeOK
<1>7. frame[f].pin = 0
  BY <1>1, Chosen DEF NewPage, BaseInv, CleanPool, OnePool
<1>8. frame' = [frame EXCEPT ![f] = [page |-> p, pin |-> 1, dirty |-> FALSE, data |-> ReadPage(p)]]
  <2>1. frame[f].dirty = FALSE
    BY <1>1 DEF BaseInv, TypeOK
  <2>2. frame' = [frame EXCEPT ![f] = [page |-> p, pin |-> frame[f].pin + 1, dirty |-> frame[f].dirty,
                                       data |-> Zero]]
    BY <1>1, <1>2 DEF NewPage, BaseInv, TypeOK
  <2>3. frame[f].pin + 1 = 1
    BY <1>7
  <2> QED BY <1>5, <2>1, <2>2, <2>3, Zenon
<1>9. /\ HasFrame /\ held[p][f] < MaxPins /\ Take(p, f)
      /\ page_table_' = TableAfter(p, f) /\ free_list_' = FreeListAfter /\ lru' = LruAfter
      /\ owned' = owned \cup {p} /\ ~frame[f].dirty
  BY <1>1, <1>2 DEF NewPage
<1> QED
  BY <1>1, <1>3, <1>6, <1>8, <1>9, LoadClean

LEMMA FetchHitClean ==
  ASSUME BaseInv, CleanPool, NEW p \in Pages, FetchHit(p)
  PROVE  CleanPool' /\ \A q \in Pages : Current(q)' = Current(q)
<1> DEFINE f == page_table_[p]
<1>0. UNCHANGED <<file, meta, page_table_, free_list_, owned, spoils>>
  BY DEF FetchHit, diskVars
<1>1. f \in Frames /\ frame[f].page = p /\ NoPage \notin Pages
  BY PagesAreNat DEF BaseInv, TypeOK, FetchHit, Mapped, CleanPool, OnePool
<1>2. \A x : Contains(lru', x) <=> Contains(lru, x) /\ x # f
  BY <1>1, RemoveFirstProperties DEF FetchHit, ReplacerPin, TypeOK, BaseInv
<1>3. /\ \A h \in Frames : /\ frame'[h].page = frame[h].page /\ frame'[h].dirty = frame[h].dirty
                           /\ frame'[h].data = frame[h].data
                           /\ frame'[h].pin = IF h = f THEN frame[h].pin + 1 ELSE frame[h].pin
      /\ frame[f].pin \in Nat
  BY <1>1 DEF FetchHit, BaseInv, TypeOK
<1>4. \A q \in Pages, h \in Frames :
         held'[q][h] = IF q = p /\ h = f THEN held[q][h] + 1 ELSE held[q][h]
  BY <1>1, TakeType DEF FetchHit, BaseInv
<1> HIDE DEF f
<1>5. \A h \in Frames : frame[h].page \in Pages \cup {NoPage}
  BY DEF BaseInv, TypeOK
<1>6. ASSUME NEW h \in Frames
      PROVE  /\ Contains(lru', h) <=> (frame[h].page # NoPage /\ frame'[h].pin = 0)
             /\ frame[h].page # NoPage => frame'[h].pin = held'[frame[h].page][h]
             /\ frame[h].page = NoPage => frame'[h].pin = 0 /\ ~frame[h].dirty
  <2>1. /\ Contains(lru, h) <=> (frame[h].page # NoPage /\ frame[h].pin = 0)
        /\ frame[h].page # NoPage => frame[h].pin = held[frame[h].page][h]
        /\ frame[h].page = NoPage => frame[h].pin = 0 /\ ~frame[h].dirty
    BY DEF CleanPool, OnePool
  <2>2. CASE h = f
    <3>1. frame'[h].pin = frame[f].pin + 1 /\ held'[p][h] = held[p][h] + 1 /\ frame'[h].pin # 0
      BY <1>1, <1>3, <1>4, <2>2
    <3> QED BY <1>1, <1>2, <2>1, <2>2, <3>1
  <2>3. CASE h # f
    BY <1>2, <1>3, <1>4, <1>5, <2>1, <2>3
  <2> QED BY <2>2, <2>3
<1>7. OnePool'
  BY <1>0, <1>3, <1>6 DEF CleanPool, OnePool, Mapped, BaseInv, TypeOK
<1>8. \A q \in Pages, h \in Frames : held'[q][h] # 0 => frame'[h].page = q
  BY <1>1, <1>3, <1>4 DEF CleanPool
<1>9. CleanPool'
  BY <1>0, <1>3, <1>6, <1>7, <1>8 DEF CleanPool, ReadPage
<1>10. \A q \in Pages : Current(q)' = Current(q)
  BY <1>0, <1>3 DEF Current, Mapped, ReadPage, BaseInv, TypeOK
<1> QED
  BY <1>9, <1>10

(* A client that unpins a page changes at most that page. *)
LEMMA UnpinClean ==
  ASSUME BaseInv, CleanPool, NEW p \in Pages, NEW f \in Frames, NEW dirty \in BOOLEAN, NEW value \in Values,
         UnpinPage(p, f, dirty, value)
  PROVE  /\ CleanPool' /\ held'[p][f] < held[p][f]
         /\ \A q \in Pages \ {p} : Current(q)' = Current(q)
<1>0. UNCHANGED <<file, meta, page_table_, free_list_, owned, spoils>>
  BY DEF UnpinPage, diskVars
<1>1. held[p][f] \in Nat /\ held[p][f] > 0
  BY PoolAssumption DEF UnpinPage, BaseInv, TypeOK
<1>2. frame[f].page = p /\ page_table_[p] = f /\ frame[f].pin = held[p][f] /\ NoPage \notin Pages
  BY <1>1, PagesAreNat DEF CleanPool, OnePool
<1>3. \A h \in Frames :
        /\ frame'[h].page = frame[h].page
        /\ frame'[h].pin = IF h = f THEN frame[h].pin - 1 ELSE frame[h].pin
        /\ frame'[h].dirty = IF h = f THEN frame[h].dirty \/ dirty ELSE frame[h].dirty
        /\ frame'[h].data = IF dirty /\ h = f THEN value ELSE frame[h].data
  BY <1>1, <1>2, UnpinFrames DEF BaseInv
<1>4. /\ \A x : Contains(lru', x) <=> (Contains(lru, x) \/ (x = f /\ frame[f].pin = 1))
      /\ \A q \in Pages, h \in Frames :
           held'[q][h] = IF q = p /\ h = f THEN held[q][h] - 1 ELSE held[q][h]
  BY <1>2, UnpinLists DEF BaseInv
<1>5. \A h \in Frames : frame[h].page \in Pages \cup {NoPage}
  BY DEF BaseInv, TypeOK
<1>6. ASSUME NEW h \in Frames
      PROVE  /\ Contains(lru', h) <=> (frame[h].page # NoPage /\ frame'[h].pin = 0)
             /\ frame[h].page # NoPage => frame'[h].pin = held'[frame[h].page][h]
             /\ frame[h].page = NoPage => frame'[h].pin = 0 /\ ~frame'[h].dirty
             /\ frame[h].page # NoPage =>
                   (~frame'[h].dirty => frame'[h].data = ReadPage(frame[h].page))
  <2>1. /\ Contains(lru, h) <=> (frame[h].page # NoPage /\ frame[h].pin = 0)
        /\ frame[h].page # NoPage => frame[h].pin = held[frame[h].page][h]
        /\ frame[h].page = NoPage => frame[h].pin = 0 /\ ~frame[h].dirty
        /\ frame[h].page # NoPage => (~frame[h].dirty => frame[h].data = ReadPage(frame[h].page))
    BY DEF CleanPool, OnePool
  <2>2. CASE h = f
    <3>1. /\ frame'[h].pin = held[p][f] - 1 /\ held'[p][h] = held[p][f] - 1
          /\ Contains(lru', h) <=> frame[f].pin = 1
      BY <1>1, <1>2, <1>3, <1>4, <2>1, <2>2
    <3>2. ~frame'[h].dirty => ~dirty /\ ~frame[h].dirty
      BY <1>3, <2>2
    <3>3. ~dirty => frame'[h].data = frame[h].data
      BY <1>3
    <3> QED BY <1>1, <1>2, <2>1, <2>2, <3>1, <3>2, <3>3
  <2>3. CASE h # f
    <3>1. /\ frame'[h].pin = frame[h].pin /\ frame'[h].dirty = frame[h].dirty /\ frame'[h].data = frame[h].data
          /\ Contains(lru', h) <=> Contains(lru, h)
          /\ frame[h].page # NoPage => held'[frame[h].page][h] = held[frame[h].page][h]
      BY <1>3, <1>4, <1>5, <2>3
    <3> QED BY <2>1, <3>1
  <2> QED BY <2>2, <2>3
<1>7. OnePool'
  BY <1>0, <1>3, <1>6 DEF CleanPool, OnePool, Mapped, BaseInv, TypeOK
<1>8. \A q \in Pages, h \in Frames : held'[q][h] # 0 => frame'[h].page = q
  BY <1>2, <1>3, <1>4 DEF CleanPool
<1>9. CleanPool'
  BY <1>0, <1>3, <1>6, <1>7, <1>8 DEF CleanPool, ReadPage
<1>10. ASSUME NEW q \in Pages \ {p} PROVE Current(q)' = Current(q)
  <2>1. Mapped(q) => page_table_[q] \in Frames /\ page_table_[q] # f
    BY <1>2 DEF CleanPool, OnePool, Mapped, BaseInv, TypeOK
  <2> QED BY <1>0, <1>3, <2>1 DEF Current, Mapped, ReadPage
<1>11. held'[p][f] < held[p][f]
  BY <1>1, <1>4
<1> QED
  BY <1>9, <1>10, <1>11

LEMMA FlushClean ==
  ASSUME BaseInv, CleanPool, NEW p \in Pages, FlushPage(p)
  PROVE  CleanPool' /\ \A q \in Pages : Current(q)' = Current(q)
<1> DEFINE f == page_table_[p]
<1>1. f \in Frames /\ frame[f].page = p /\ frame[f].data \in Values /\ NoPage \notin Pages /\ p \in owned
  BY PagesAreNat DEF BaseInv, TypeOK, FlushPage, Mapped, CleanPool, OnePool
<1>2. ReadPage(p)' = frame[f].data /\ \A q \in Pages \ {p} : ReadPage(q)' = ReadPage(q)
  BY <1>1, WriteKeepsPages DEF FlushPage, BaseInv
<1>3. frame' = [frame EXCEPT ![f].dirty = FALSE] /\ UNCHANGED <<page_table_, free_list_, lru, held, owned, spoils>>
  BY DEF FlushPage, clientVars
<1>4. \A h \in Frames :
        /\ frame'[h].page = frame[h].page /\ frame'[h].pin = frame[h].pin /\ frame'[h].data = frame[h].data
        /\ frame'[h].dirty = IF h = f THEN FALSE ELSE frame[h].dirty
  BY <1>1, <1>3 DEF BaseInv, TypeOK
<1>5. \A h \in Frames : frame[h].page \in Pages \cup {NoPage}
  BY DEF BaseInv, TypeOK
<1>6. OnePool'
  BY <1>3, <1>4 DEF CleanPool, OnePool, Mapped, BaseInv, TypeOK
<1>7. ASSUME NEW h \in Frames, frame'[h].page # NoPage, ~frame'[h].dirty
      PROVE  frame'[h].data = ReadPage(frame[h].page)'
  <2>1. PICK q \in Pages : q = frame[h].page
    BY <1>4, <1>5, <1>7
  <2>2. CASE h = f
    BY <1>1, <1>2, <1>4, <2>2 DEF ReadPage
  <2>3. CASE h # f
    <3>1. q # p
      BY <1>1, <2>1, <2>3 DEF CleanPool, OnePool
    <3>2. frame[h].data = ReadPage(q)
      BY <1>4, <1>7, <2>1, <2>3 DEF CleanPool
    <3>3. frame'[h].data = ReadPage(q)'
      BY <1>2, <1>4, <3>1, <3>2
    <3> QED BY <1>4, <2>1, <3>3 DEF ReadPage
  <2> QED BY <2>2, <2>3
<1>8. \A q \in Pages \ owned' : ReadPage(q)' = Zero
  BY <1>1, <1>2, <1>3 DEF CleanPool
<1>9. /\ \A q \in Pages, h \in Frames : held'[q][h] # 0 => frame'[h].page = q
      /\ \A h \in Frames : frame'[h].page = NoPage => frame'[h].pin = 0 /\ ~frame'[h].dirty
      /\ \A h \in Frames : frame'[h].page # NoPage => frame'[h].page \in owned'
  BY <1>3, <1>4 DEF CleanPool
<1>10. CleanPool'
  BY <1>6, <1>7, <1>8, <1>9 DEF CleanPool
<1>11. ASSUME NEW q \in Pages PROVE Current(q)' = Current(q)
  <2>1. CASE Mapped(q)
    BY <1>3, <1>4, <2>1 DEF Current, Mapped, BaseInv, TypeOK
  <2>2. CASE ~Mapped(q)
    BY <1>2, <1>3, <2>2 DEF Current, Mapped, FlushPage
  <2> QED BY <2>1, <2>2
<1> QED
  BY <1>10, <1>11

LEMMA RestartClean ==
  ASSUME BaseInv, CleanPool, Restart
  PROVE  CleanPool' /\ \A q \in Pages : Current(q)' = Current(q)
<1>1. /\ frame' = [f \in Frames |-> EmptyFrame] /\ page_table_' = [p \in Pages |-> NoFrame]
      /\ free_list_' = [i \in 1 .. PoolSize |-> i - 1] /\ lru' = <<>>
      /\ UNCHANGED <<held, owned, spoils>> /\ held = [p \in Pages |-> NotHeld]
  BY DEF Restart, clientVars
<1>2. \A q \in Pages : ReadPage(q)' = Current(q)
  BY RestartDisk DEF BaseInv
<1>3. ASSUME NEW q \in Pages \ owned PROVE Current(q) = Zero
  BY PagesAreNat DEF CleanPool, OnePool, Mapped, BaseInv, TypeOK, Current
<1>4. OnePool'
  BY <1>1, EmptyPool DEF OnePool, Mapped, EmptyFrame
<1>5. CleanPool'
  BY <1>1, <1>2, <1>3, <1>4 DEF CleanPool, EmptyFrame, NotHeld
<1>6. \A q \in Pages : Current(q)' = Current(q)
  BY <1>1, <1>2 DEF Current, Mapped
<1> QED
  BY <1>5, <1>6

-----------------------------------------------------------------------------
(* The theorems                                                            *)

LEMMA BaseStep ==
  ASSUME BaseInv, [Next]_vars
  PROVE  BaseInv'
<1>1. CASE NewPage
  BY <1>1, NewPageBase
<1>2. CASE Restart
  BY <1>2, RestartBase
<1>3. ASSUME NEW p \in Pages, FetchHit(p) \/ FetchMiss(p) \/ FlushPage(p) PROVE BaseInv'
  BY <1>3, FetchHitBase, FetchMissBase, FlushBase
<1>4. ASSUME NEW p \in Pages, DeleteMapped(p) \/ DeleteUnmapped(p) PROVE BaseInv'
  BY <1>4, DeleteMappedBase, DeleteUnmappedBase
<1>5. ASSUME NEW p \in Pages, NEW f \in Frames, UnpinPage(p, f, FALSE, Zero) PROVE BaseInv'
  <2>1. Zero \in Values
    BY DiskAssumption
  <2> QED BY <1>5, <2>1, UnpinBase
<1>6. ASSUME NEW p \in Pages, NEW f \in Frames, NEW v \in Values, UnpinPage(p, f, TRUE, v) PROVE BaseInv'
  BY <1>6, UnpinBase
<1>7. CASE UNCHANGED vars
  <2>1. UNCHANGED diskVars /\ UNCHANGED <<frame, page_table_, free_list_, lru, held, owned, spoils>>
    BY <1>7 DEF vars, poolVars, clientVars
  <2>2. DiskInv' /\ AllocatedPages' = AllocatedPages
    BY <2>1, DiskUnchanged DEF BaseInv
  <2>3. \A f \in Frames : Contains(lru', f) => frame'[f].pin = 0
    BY <2>1, VictimsUnpinned DEF BaseInv, TypeOK
  <2> QED BY <2>1, <2>2, <2>3, BaseKept DEF BaseInv, TypeOK
<1> QED
  BY <1>1, <1>2, <1>3, <1>4, <1>5, <1>6, <1>7 DEF Next

(* Every step before the first spoil keeps the pool clean, and changes what a
   page reads as only by a client that unpins it. *)
LEMMA CleanStep ==
  ASSUME BaseInv, spoils = 0 => CleanPool, [Next]_vars, spoils' = 0
  PROVE  /\ CleanPool'
         /\ \A q \in Pages : Current(q)' # Current(q) => \E f \in Frames : held'[q][f] < held[q][f]
<1>0. ASSUME Spoil PROVE FALSE
  BY <1>0 DEF Spoil, BaseInv, TypeOK
<1>1. CASE NewPage
  <2>1. spoils = 0 /\ ~frame[ChosenFrame].dirty
    BY <1>0, <1>1 DEF NewPage
  <2> QED BY <1>1, <2>1, NewPageClean
<1>2. CASE Restart
  <2>1. spoils = 0
    BY <1>2 DEF Restart, clientVars
  <2> QED BY <1>2, <2>1, RestartClean
<1>3. ASSUME NEW p \in Pages, FetchHit(p)
      PROVE  CleanPool' /\ \A q \in Pages : Current(q)' = Current(q)
  <2>1. spoils = 0
    BY <1>3 DEF FetchHit
  <2> QED BY <1>3, <2>1, FetchHitClean
<1>4. ASSUME NEW p \in Pages, FetchMiss(p)
      PROVE  CleanPool' /\ \A q \in Pages : Current(q)' = Current(q)
  <2>1. spoils = 0 /\ ~frame[ChosenFrame].dirty
    BY <1>0, <1>4 DEF FetchMiss
  <2> QED BY <1>4, <2>1, FetchMissClean
<1>5. ASSUME NEW p \in Pages, FlushPage(p)
      PROVE  CleanPool' /\ \A q \in Pages : Current(q)' = Current(q)
  <2>1. spoils = 0
    BY <1>5 DEF FlushPage, clientVars
  <2> QED BY <1>5, <2>1, FlushClean
<1>6. ASSUME NEW p \in Pages, DeleteMapped(p) \/ DeleteUnmapped(p) PROVE FALSE
  BY <1>0, <1>6 DEF DeleteMapped, DeleteUnmapped
<1>7. ASSUME NEW p \in Pages, NEW f \in Frames, NEW dirty \in BOOLEAN, NEW v \in Values,
             UnpinPage(p, f, dirty, v)
      PROVE  /\ CleanPool'
             /\ \A q \in Pages : Current(q)' # Current(q) => \E h \in Frames : held'[q][h] < held[q][h]
  <2>1. spoils = 0
    BY <1>7 DEF UnpinPage
  <2> QED BY <1>7, <2>1, UnpinClean
<1>8. CASE UNCHANGED vars
  <2>1. UNCHANGED <<file, frame, page_table_, free_list_, lru, held, owned, spoils>>
    BY <1>8 DEF vars, poolVars, clientVars, diskVars
  <2>2. CleanPool'
    BY <2>1 DEF CleanPool, OnePool, Mapped, ReadPage
  <2>3. \A q \in Pages : Current(q)' = Current(q)
    BY <2>1 DEF Current, Mapped, ReadPage
  <2> QED BY <2>2, <2>3
<1>9. Zero \in Values
  BY DiskAssumption
<1> QED
  BY <1>1, <1>2, <1>3, <1>4, <1>5, <1>6, <1>7, <1>8, <1>9 DEF Next

(* PoolInv holds in every state of the pool: it is true of an empty pool on an
   empty file and kept by every operation of BufferPoolManager and by closing
   and opening the database. *)
THEOREM PoolInvariance == Spec => []PoolInv
<1>1. Init => PoolInv
  BY InitBase DEF PoolInv, BaseInv
<1>2. PoolInv /\ [Next]_vars => PoolInv'
  <2> SUFFICES ASSUME PoolInv, [Next]_vars PROVE PoolInv'
    OBVIOUS
  <2>1. BaseInv'
    BY BaseStep DEF PoolInv, BaseInv
  <2>2. spoils' = 0 => CleanPool'
    BY CleanStep DEF PoolInv, BaseInv
  <2> QED BY <2>1, <2>2 DEF PoolInv, BaseInv
<1> QED
  BY <1>1, <1>2, PTL DEF Spec

(* Page table, frames, free list and replacer agree until a page is deleted or
   a dirty frame is evicted, and no pinned frame is ever up for eviction
   (FetchPage, NewPage, UnpinPage, DeletePage of buffer_pool_manager.cpp). *)
THEOREM PoolStaysConsistent == Spec => []PoolConsistent
<1>1. PoolInv => PoolConsistent
  BY DEF PoolInv, CleanPool, PoolConsistent
<1> QED
  BY <1>1, PoolInvariance, PTL

(* A page reads as its last writer left it, through fetches, evictions of clean
   frames, flushes, allocations and restarts. *)
THEOREM ContentIsKeptClean == Spec => ContentKeptClean
<1>1. PoolInv /\ [Next]_vars =>
        [spoils' = 0 =>
           \A p \in owned : Current(p)' # Current(p) =>
               \E f \in Frames : held'[p][f] < held[p][f]]_vars
  <2> SUFFICES ASSUME PoolInv, [Next]_vars, spoils' = 0, NEW p \in owned, Current(p)' # Current(p)
               PROVE  \E f \in Frames : held'[p][f] < held[p][f]
    OBVIOUS
  <2>1. p \in Pages
    BY DEF PoolInv, TypeOK
  <2> QED BY <2>1, CleanStep DEF PoolInv, BaseInv
<1> QED
  BY <1>1, PoolInvariance, PTL DEF Spec, ContentKeptClean

(* The counters of the file agree with its bits under every use the pool makes
   of the DiskManager, restarts included. *)
THEOREM PoolCountersSafe == Spec => []CountersAgree
<1>1. PoolInv => CountersAgree
  BY DEF PoolInv, DiskInv, GoodBitmap, CountersAgree
<1> QED
  BY <1>1, PoolInvariance, PTL

(* NewPage never hands out a page that the client has. *)
THEOREM PoolIssuesOnce == Spec => PageIssuedOnce
<1>1. ASSUME PoolInv, [Next]_vars, meta'.num_allocated_pages_ > meta.num_allocated_pages_
      PROVE  \E p \in Pages : IsPageFree(p) /\ AllocatedPages' = AllocatedPages \cup {p}
  <2>0. meta.num_allocated_pages_ \in Nat /\ meta \in MetaPage
    BY <1>1 DEF PoolInv, DiskInv, DiskTypeOK, MetaPage
  <2>1. CASE NewPage
    BY <1>1, <2>1, NewPageDisk DEF PoolInv, BaseInv
  <2>2. CASE UNCHANGED meta
    BY <1>1, <2>0, <2>2
  <2>3. ASSUME NEW p \in Pages, DeAllocatePage(p) PROVE FALSE
    <3>1. meta'.num_allocated_pages_ = meta.num_allocated_pages_ - 1
      BY <2>0, <2>3 DEF DeAllocatePage, MetaAfterDeAllocate, MetaPage
    <3> QED BY <1>1, <2>0, <3>1
  <2>4. CASE Restart
    BY <2>2, <2>4 DEF Restart, Reopened
  <2>5. ASSUME NEW p \in Pages, FetchHit(p) \/ FetchMiss(p) \/ FlushPage(p) PROVE UNCHANGED meta
    BY <2>5 DEF FetchHit, FetchMiss, FlushPage, WritePage, diskVars
  <2>6. ASSUME NEW p \in Pages, DeleteMapped(p) \/ DeleteUnmapped(p)
        PROVE  DeAllocatePage(p) \/ UNCHANGED meta
    BY <2>6 DEF DeleteMapped, DeleteUnmapped, diskVars
  <2>7. ASSUME NEW p, NEW f, NEW dirty, NEW v, UnpinPage(p, f, dirty, v) PROVE UNCHANGED meta
    BY <2>7 DEF UnpinPage, diskVars
  <2>8. CASE UNCHANGED vars
    BY <2>2, <2>8 DEF vars, diskVars
  <2> QED BY <1>1, <2>1, <2>2, <2>3, <2>4, <2>5, <2>6, <2>7, <2>8 DEF Next
<1>2. PoolInv /\ [Next]_vars =>
        [meta'.num_allocated_pages_ > meta.num_allocated_pages_ =>
           \E p \in Pages : IsPageFree(p) /\ AllocatedPages' = AllocatedPages \cup {p}]_diskVars
  BY <1>1
<1> QED
  BY <1>2, PoolInvariance, PTL DEF Spec, PageIssuedOnce
=============================================================================
