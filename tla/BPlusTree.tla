----------------------------- MODULE BPlusTree -----------------------------
(***************************************************************************)
(* The B+ tree index of the kernel: BPlusTree of b_plus_tree.cpp with its  *)
(* internal and leaf pages, the entry of the index in the IndexRootsPage,  *)
(* and the scans of BPlusTreeIndex::ScanKey.                               *)
(*                                                                         *)
(* One call of the tree is one action: the kernel runs one statement at a  *)
(* time.  Positions count from 1, so keys[1] is KeyAt(0).  A key and its   *)
(* row id are copied together by every method of a page, so a pair is its  *)
(* key.  The buffer pool holds every page of the tree; what the calls do   *)
(* to the pin counts is kept, without the FetchPage and UnpinPage pairs    *)
(* that cancel out within one method.                                      *)
(***************************************************************************)
EXTENDS Integers, FiniteSets, SequencesExt

CONSTANTS
  Keys,                \* the keys, integers
  Pages,               \* the page ids, positive integers
  leaf_max_size_, internal_max_size_,
  Calls,               \* the calls the client makes after Script
  Script               \* the first calls, in order, as <<call, key>>

INVALID_PAGE_ID == 0

(* Key sizes of at most 256 bytes, see CreateIndex, give at least 14 pairs. *)
ASSUME TreeAssumption ==
  /\ Keys \subseteq Int /\ Pages \subseteq Nat \ {INVALID_PAGE_ID}
  /\ leaf_max_size_ \in Nat /\ leaf_max_size_ > 1
  /\ internal_max_size_ \in Nat /\ internal_max_size_ > 3
  /\ Calls \subseteq {"insert", "remove", "scan", "reopen", "destroy"}

VARIABLES
  page,          \* the pages: nodes of the tree, or Free
  root_page_id_, \* the root the tree knows
  roots,         \* the root in the IndexRootsPage; 0: the index has no entry
  held,          \* the pins the last call left on each page
  stored,        \* history: the keys that were inserted and not removed
  dropped,       \* history: those of them that went with a leaf root
  tall,          \* history: what became of the tree at four levels
  alive,         \* the tree was not destroyed
  calls          \* how many calls of Script are done

vars == <<page, root_page_id_, roots, held, stored, dropped, tall, alive, calls>>

Free == [leaf |-> TRUE, parent |-> 0, keys |-> <<>>, kids |-> <<>>, next |-> -1]
Nodes == [leaf : BOOLEAN, parent : Pages \cup {0}, keys : Seq(Keys), kids : Seq(Pages),
          next : Pages \cup {0}] \cup {Free}

(* A tree as the methods hand it on: the variables above as one record. *)
Tree == [page |-> page, root |-> root_page_id_, roots |-> roots, pin |-> [p \in Pages |-> 0]]

Init ==
  /\ page = [p \in Pages |-> Free]
  /\ root_page_id_ = INVALID_PAGE_ID /\ roots = INVALID_PAGE_ID
  /\ held = [p \in Pages |-> 0]
  /\ stored = {} /\ dropped = {} /\ tall = "no" /\ alive = TRUE /\ calls = 0

-----------------------------------------------------------------------------
(* Pages. *)

FetchPage(t, p) == [t EXCEPT !.pin[p] = @ + 1]
UnpinPage(t, p) == [t EXCEPT !.pin[p] = IF @ = 0 THEN 0 ELSE @ - 1]
DeletePage(t, p) == [t EXCEPT !.page[p] = Free]
NewPageId(t) == CHOOSE p \in Pages : /\ t.page[p] = Free
                                     /\ \A q \in Pages : t.page[q] = Free => p <= q

GetSize(n) == Len(n.keys)
GetMaxSize(n) == IF n.leaf THEN leaf_max_size_ ELSE internal_max_size_
GetMinSize(n) == GetMaxSize(n) \div 2
ValueIndex(n, p) == CHOOSE i \in 1 .. Len(n.kids) : n.kids[i] = p

KeyIndex_After(n, k) == 1 + Len(SelectSeq(n.keys, LAMBDA x : x <= k))

(* The first position of a leaf whose key is not below k. *)
KeyIndex(n, k) == 1 + Len(SelectSeq(n.keys, LAMBDA x : x < k))

Lookup_EqualLeft(n, k) ==
  LET s == GetSize(n) IN
  IF n.keys[2] >= k THEN n.kids[1]
  ELSE IF n.keys[s] < k THEN n.kids[s]
  ELSE n.kids[CHOOSE i \in 2 .. s - 1 : n.keys[i] < k /\ k <= n.keys[i + 1]]

(* InternalPage::Lookup never looks at the first key. *)
Lookup(n, k) ==
  LET s == GetSize(n) IN
  IF n.keys[2] > k THEN n.kids[1]
  ELSE IF n.keys[s] <= k THEN n.kids[s]
  ELSE n.kids[CHOOSE i \in 2 .. s - 1 : n.keys[i] <= k /\ k < n.keys[i + 1]]

(* The children of a page that moved adopt their new parent. *)
Adopt(pg, kids, q) ==
  [p \in DOMAIN pg |-> IF p \in Range(kids) THEN [pg[p] EXCEPT !.parent = q] ELSE pg[p]]

RECURSIVE FindLeafPage(_, _, _)
FindLeafPage(pg, p, k) ==
  IF pg[p].leaf THEN p ELSE FindLeafPage(pg, Lookup(pg[p], k), k)

RECURSIVE LeftMostPage(_, _)
LeftMostPage(pg, p) == IF pg[p].leaf THEN p ELSE LeftMostPage(pg, pg[p].kids[1])

GetValue(t, k) == t.root # 0 /\ k \in Range(t.page[FindLeafPage(t.page, t.root, k)].keys)

-----------------------------------------------------------------------------
(* Insertion. *)

(* IndexRootsPage::Insert fails when the index has an entry. *)
StartNewTree(t, k) ==
  LET p == NewPageId(t) IN
  [t EXCEPT !.page[p] = [leaf |-> TRUE, parent |-> 0, keys |-> <<k>>, kids |-> <<>>, next |-> 0],
            !.root = p,
            !.roots = IF @ = 0 THEN p ELSE @]

(* The right half of p goes to the new page q. *)
Split(t, p, q) ==
  LET n == t.page[p]
      left == GetSize(n) - (GetSize(n) \div 2)
      kids == SubSeq(n.kids, left + 1, Len(n.kids))
      new == [n EXCEPT !.keys = SubSeq(@, left + 1, Len(@)), !.kids = kids]
      old == [n EXCEPT !.keys = SubSeq(@, 1, left),
                       !.kids = IF n.leaf THEN @ ELSE SubSeq(@, 1, left),
                       !.next = IF n.leaf THEN q ELSE @]
  IN  [t EXCEPT !.page = Adopt([@ EXCEPT ![p] = old, ![q] = new], kids, q)]

NewRoot(t, old, k, new) ==
  LET r == NewPageId(t) IN
  [t EXCEPT !.page = Adopt([@ EXCEPT ![r] = [leaf |-> FALSE, parent |-> 0, next |-> 0,
                                             keys |-> <<t.page[old].keys[1], k>>,
                                             kids |-> <<old, new>>]],
                           <<old, new>>, r),
            !.root = r,
            !.roots = IF @ = 0 THEN 0 ELSE r]

InsertNodeAfter(n, p, k, q) ==
  LET i == ValueIndex(n, p) + 1
  IN  [n EXCEPT !.keys = InsertAt(@, i, k), !.kids = InsertAt(@, i, q)]

RECURSIVE InsertIntoParent(_, _, _)
InsertIntoParent(t, old, new) ==
  LET k == t.page[new].keys[1]
      q == t.page[old].parent
      u == [t EXCEPT !.page[q] = InsertNodeAfter(@, old, k, new)]
      r == NewPageId(u)
  IN  IF q = 0 THEN NewRoot(t, old, k, new)
      ELSE IF GetSize(u.page[q]) > internal_max_size_
      THEN InsertIntoParent(Split(u, q, r), q, r)
      ELSE u

(* Every page that Insert pins, it unpins. *)
InsertIntoLeaf(t, k) ==
  LET p == FindLeafPage(t.page, t.root, k)
      u == [t EXCEPT !.page[p].keys = InsertAt(@, KeyIndex(t.page[p], k), k)]
      q == NewPageId(u)
  IN  IF k \in Range(t.page[p].keys) THEN t
      ELSE IF GetSize(u.page[p]) > leaf_max_size_ THEN InsertIntoParent(Split(u, p, q), p, q)
      ELSE u

InsertKey(t, k) == IF t.root = 0 THEN StartNewTree(t, k) ELSE InsertIntoLeaf(t, k)

-----------------------------------------------------------------------------
(* Removal. *)

AdjustRoot_KeepsOld(t, p) ==
  LET n == t.page[p]
      r == n.kids[1]
  IN  IF GetSize(n) > 1 THEN t
      ELSE IF n.leaf THEN [t EXCEPT !.root = 0]
      ELSE [FetchPage(t, r) EXCEPT !.root = r, !.page[r].parent = 0]

(* A leaf root goes also when it holds one key, which it does as soon as   *)
(* the minimal size of a leaf is above 1, from leaf_max_size_ 4 on.        *)
(* UpdateRootPageId is not called.  The child that becomes the root was     *)
(* merged from two, so it is not empty; it is fetched twice and unpinned    *)
(* once.                                                                    *)
AdjustRoot(t, p) ==
  LET n == t.page[p]
      r == n.kids[1]
  IN  IF GetSize(n) > 1 THEN t
      ELSE IF n.leaf THEN DeletePage([t EXCEPT !.root = 0], p)
      ELSE DeletePage([FetchPage(t, r) EXCEPT !.root = r, !.page[r].parent = 0], p)

(* One pair of the sibling s moves to p, the child i of q. *)
Redistribute(t, s, p, q, i) ==
  LET from == t.page[s]
      to == t.page[p]
      last == GetSize(from)
      moved == IF i = 1 THEN 1 ELSE last        \* MoveFirstToEndOf, MoveLastToFrontOf
      key == IF i = 1 /\ ~to.leaf THEN t.page[q].keys[2] ELSE from.keys[moved]
      At(n) == IF i = 1 THEN GetSize(n) + 1 ELSE 1
      taken == [from EXCEPT !.keys = RemoveAt(@, moved),
                            !.kids = IF to.leaf THEN @ ELSE RemoveAt(@, moved)]
      given == [to EXCEPT !.keys = InsertAt(@, At(to), key),
                          !.kids = IF to.leaf THEN @ ELSE InsertAt(@, At(to), from.kids[moved])]
      pg == [t.page EXCEPT ![s] = taken, ![p] = given,
                           ![q].keys[IF i = 1 THEN 2 ELSE i] =
                              IF i = 1 THEN taken.keys[1] ELSE given.keys[1]]
  IN  [t EXCEPT !.page = IF to.leaf THEN pg ELSE Adopt(pg, <<from.kids[moved]>>, p)]

(* MoveAllTo keeps the first key of the right page as it is; the separator  *)
(* of the parent is not used.  InternalPage::Remove(index) drops the pair   *)
(* after index.                                                             *)
MoveAllTo(pg, p, left) ==
  LET n == pg[p]
  IN  Adopt([pg EXCEPT ![left].keys = @ \o n.keys, ![left].kids = @ \o n.kids,
                       ![left].next = IF n.leaf THEN n.next ELSE @],
            n.kids, left)

RECURSIVE CoalesceOrRedistribute(_, _)
CoalesceOrRedistribute(t, p) ==
  LET q == t.page[p].parent
      i == ValueIndex(t.page[q], p)
      s == t.page[q].kids[IF i = 1 THEN 2 ELSE i - 1]
      fetched == FetchPage(FetchPage(t, q), s)
      l == IF i = 1 THEN 1 ELSE i - 1
      left == IF i = 1 THEN p ELSE s
      right == IF i = 1 THEN s ELSE p
      moved == DeletePage(UnpinPage([fetched EXCEPT !.page = MoveAllTo(@, right, left)], right), right)
      merged == [moved EXCEPT !.page[q].keys = RemoveAt(@, l + 1), !.page[q].kids = RemoveAt(@, l + 1)]
      coalesced == IF GetSize(merged.page[q]) < GetMinSize(merged.page[q])
                   THEN CoalesceOrRedistribute(merged, q) ELSE merged
      after == IF GetSize(t.page[p]) + GetSize(t.page[s]) < GetMaxSize(t.page[p])
               THEN coalesced ELSE Redistribute(fetched, s, p, q, i)
  IN  IF q = 0 THEN AdjustRoot(t, p) ELSE UnpinPage(UnpinPage(after, s), q)

(* The key of the leaf p in its parent, and in its grandparent when p is   *)
(* the first child; an emptied leaf still shows the key it held.           *)
UpdateParents(pg, p, k) ==
  LET q == pg[p].parent
      i == ValueIndex(pg[q], p)
      first == IF pg[p].keys = <<>> THEN k ELSE pg[p].keys[1]
      one == [pg EXCEPT ![q].keys[i] = first]
      g == pg[q].parent
  IN  IF q = 0 THEN pg
      ELSE IF i = 1 /\ g # 0 THEN [one EXCEPT ![g].keys[ValueIndex(pg[g], q)] = first]
      ELSE one

RemoveKey(t, k) ==
  LET p == FindLeafPage(t.page, t.root, k)
      keys == SelectSeq(t.page[p].keys, LAMBDA x : x # k)
      u == [FetchPage(t, p) EXCEPT !.page = UpdateParents([@ EXCEPT ![p].keys = keys], p, k)]
  IN  IF t.root = 0 THEN t
      ELSE UnpinPage(IF Len(keys) < GetMinSize(u.page[p]) THEN CoalesceOrRedistribute(u, p) ELSE u, p)

-----------------------------------------------------------------------------
(* Scans.  An iterator is a page and a position, End is <<0, 1>>; it        *)
(* walks along the next pointers.                                           *)

End == <<0, 1>>
BeginFirst(t) == IF t.root = 0 THEN End ELSE <<LeftMostPage(t.page, t.root), 1>>
Begin(t, k) ==
  LET p == FindLeafPage(t.page, t.root, k)
      i == KeyIndex(t.page[p], k)
  IN  IF t.root = 0 \/ i > GetSize(t.page[p]) THEN End ELSE <<p, i>>

Advance(t, it) ==
  LET n == t.page[it[1]]
  IN  IF it[2] < GetSize(n) THEN <<it[1], it[2] + 1>> ELSE <<n.next, 1>>

RECURSIVE Collect(_, _, _)
Collect(t, it, stop) ==
  IF it = stop \/ it = End THEN <<>>
  ELSE <<t.page[it[1]].keys[it[2]]>> \o Collect(t, Advance(t, it), stop)

ScanKey(t, k, op) ==
  LET found == GetValue(t, k)
      here == Begin(t, k)
      equal == IF found THEN <<k>> ELSE <<>>
  IN  CASE op = "=" -> equal
        [] op = ">" -> Collect(t, IF found THEN Advance(t, here) ELSE here, End)
        [] op = ">=" -> Collect(t, here, End)
        [] op = "<" -> Collect(t, BeginFirst(t), here)
        [] op = "<=" -> Collect(t, BeginFirst(t), here) \o equal
        [] op = "<>" -> SelectSeq(Collect(t, BeginFirst(t), End), LAMBDA x : x # k)

(* What a scan leaves pinned: Begin does not unpin the leaf that           *)
(* FindLeafPage pinned.                                                    *)
PinsOfScan(t, k, op) ==
  LET at == FindLeafPage(t.page, t.root, k)
      first == LeftMostPage(t.page, t.root)
  IN  IF t.root = 0 \/ op = "=" THEN t
      ELSE IF op \in {">", ">="} THEN FetchPage(t, at)
      ELSE IF op = "<>" THEN FetchPage(t, first)
      ELSE FetchPage(FetchPage(t, at), first)

-----------------------------------------------------------------------------
(* The client. *)

May(call, k) ==
  /\ alive
  /\ IF calls < Len(Script) THEN Script[calls + 1] = <<call, k>> ELSE call \in Calls
  /\ calls' = IF calls < Len(Script) THEN calls + 1 ELSE calls

Becomes(t) ==
  /\ page' = t.page /\ root_page_id_' = t.root /\ roots' = t.roots /\ held' = t.pin

RECURSIVE Levels(_, _)
Levels(pg, p) == IF pg[p].leaf THEN 1 ELSE 1 + Levels(pg, pg[p].kids[1])

(* "grown": the tree has had four levels; "cut": keys were removed since;  *)
(* "again": and keys inserted after that.                                  *)
CallInsert(k) ==
  LET t == InsertKey(Tree, k) IN
  /\ May("insert", k)
  /\ Becomes(t)
  /\ stored' = stored \cup {k}
  /\ dropped' = dropped \ {k}
  /\ tall' = CASE tall \in {"cut", "again"} -> "again"
               [] Levels(t.page, t.root) > 3 -> "grown"
               [] OTHER -> tall
  /\ UNCHANGED alive

CallRemove(k) ==
  LET t == RemoveKey(Tree, k) IN
  /\ May("remove", k)
  /\ Becomes(t)
  /\ stored' = stored \ {k}
  /\ dropped' = IF t.root = 0 THEN stored \ {k} ELSE dropped \ {k}
  /\ tall' = IF tall = "grown" THEN "cut" ELSE tall
  /\ UNCHANGED alive

CallScanKey(k, op) ==
  /\ May("scan", k)
  /\ Becomes(PinsOfScan(Tree, k, op))
  /\ UNCHANGED <<stored, dropped, tall, alive>>

(* The database is closed and opened: the constructor reads the root. *)
Reopen ==
  /\ May("reopen", 0)
  /\ Becomes([Tree EXCEPT !.root = roots])
  /\ UNCHANGED <<stored, dropped, tall, alive>>

RECURSIVE DestroyFrom(_, _)
DestroyFrom(t, p) ==
  DeletePage(FoldLeft(DestroyFrom, t, t.page[p].kids), p)

Destroy ==
  /\ May("destroy", 0)
  /\ Becomes(IF root_page_id_ = 0 THEN Tree ELSE DestroyFrom(Tree, root_page_id_))
  /\ stored' = {} /\ dropped' = {} /\ alive' = FALSE /\ UNCHANGED tall

Operators == {"=", "<", "<=", ">", ">=", "<>"}

Next ==
  \/ \E k \in Keys :
       \/ CallInsert(k) \/ CallRemove(k)
       \/ \E op \in Operators : CallScanKey(k, op)
  \/ Reopen
  \/ Destroy

Spec == Init /\ [][Next]_vars

-----------------------------------------------------------------------------
RECURSIVE Below(_, _)
Below(pg, p) == {p} \cup UNION {Below(pg, q) : q \in Range(pg[p].kids)}

InTree == IF root_page_id_ = 0 \/ ~alive THEN {} ELSE Below(page, root_page_id_)
Inner == {p \in InTree : ~page[p].leaf}

(* Types of all variables; between calls no page holds more pairs than its *)
(* maximum.                                                                *)
TypeOK ==
  /\ page \in [Pages -> Nodes]
  /\ \A p \in Pages : Len(page[p].keys) <= GetMaxSize(page[p])
  /\ {root_page_id_, roots} \subseteq Pages \cup {0}
  /\ held \in [Pages -> 0 .. 2]
  /\ stored \subseteq Keys /\ dropped \subseteq stored
  /\ tall \in {"no", "grown", "cut", "again"} /\ alive \in BOOLEAN /\ calls \in 0 .. Len(Script)

(* GetValue finds exactly the keys that were inserted and not removed,     *)
(* through every split, merge and redistribution, but for those that       *)
(* AdjustRoot gave up with a leaf root; and it does so until keys were     *)
(* inserted, removed and inserted again in a tree of four levels, where    *)
(* Remove and MoveAllTo leave separators behind that are not the parent's. *)
LookupExact ==
  alive /\ tall # "again" => \A k \in Keys : GetValue(Tree, k) <=> k \in stored \ dropped

Sorted(S) == [i \in 1 .. Cardinality(S) |-> CHOOSE x \in S : Cardinality({y \in S : y < x}) = i - 1]

(* The leaves, walked along their next pointers, hold the stored keys in   *)
(* order, each once.                                                       *)
LeafChain == alive => Collect(Tree, BeginFirst(Tree), End) = Sorted(stored)

(* Parent pointers agree with the children, keys within a page grow, no    *)
(* page but the root is below its minimal size and all leaves are at one   *)
(* depth.                                                                  *)
RECURSIVE Depth(_)
Depth(p) == IF page[p].parent = 0 THEN 0 ELSE 1 + Depth(page[p].parent)

Balanced ==
  /\ \A p \in Inner : \A q \in Range(page[p].kids) : page[q].parent = p
  /\ \A p \in InTree :
       /\ \A i \in 1 .. Len(page[p].keys) - 1 : (i > 1 \/ page[p].leaf) => page[p].keys[i] < page[p].keys[i + 1]
       /\ p # root_page_id_ => GetSize(page[p]) >= GetMinSize(page[p])
  /\ \A p, q \in InTree \ Inner : Depth(p) = Depth(q)

(* Every page the tree allocated is in the tree or was given back, and     *)
(* no page that was given back is still in the tree: Destroy frees all.    *)
NoLeakedPage == {p \in Pages : page[p] # Free} = InTree

(* A call unpins every page it pinned: what Check asks. *)
AllUnpinned == \A p \in Pages : held[p] = 0

(* Remove unpins every page but the one that AdjustRoot made the root. *)
OnlyRootPinned == \A p \in Pages : held[p] # 0 => p = root_page_id_ /\ held[p] = 1

(* The index roots page names the root: reopening finds the tree. *)
RootRecorded == alive => roots = root_page_id_

(* The row ids that a scan with a comparison must return. *)
Compare(x, op, k) ==
  CASE op = "=" -> x = k [] op = "<" -> x < k [] op = "<=" -> x <= k
    [] op = ">" -> x > k [] op = ">=" -> x >= k [] op = "<>" -> x # k

ScanAnswers(ks) ==
  \A k \in ks, op \in Operators :
    ScanKey(Tree, k, op) = SelectSeq(Sorted(stored), LAMBDA x : Compare(x, op, k))

(* A scan relative to a key of the tree returns the rows of the comparison. *)
ScanOfStored == alive => ScanAnswers(stored)

(* A scan relative to any key returns the rows of the comparison. *)
ScanExact == alive => ScanAnswers(Keys)
=============================================================================
