---------------------------- MODULE MCBPlusTree ----------------------------
(***************************************************************************)
(* Four instances of BPlusTree in one run.  "small" has the constants of   *)
(* the configuration: the smallest pages, keys inserted and removed in     *)
(* every order, up to three levels.  "deep" removes the keys of a tree of  *)
(* four levels in every order.  "wide" has pages for which redistribution  *)
(* and merging choose between siblings.  "grow" has no removals, and scans,*)
(* reopens and destroys the index.                                         *)
(***************************************************************************)
EXTENDS BPlusTree

VARIABLE scenario  \* which of the instances the behaviour is of

NoScript == <<>>

(* Twelve insertions, largest key first, build four levels. *)
FourLevels == [i \in 1 .. 12 |-> <<"insert", 13 - i>>]

Deep == INSTANCE BPlusTree WITH
  Keys <- 1 .. 12, Pages <- 1 .. 20, Calls <- {"remove"}, Script <- FourLevels

Wide == INSTANCE BPlusTree WITH
  Keys <- 1 .. 9, Pages <- 1 .. 6, leaf_max_size_ <- 4

Grow == INSTANCE BPlusTree WITH Calls <- {"insert", "scan", "reopen", "destroy"}

MCInit ==
  \/ scenario = "small" /\ Init
  \/ scenario = "deep" /\ Deep!Init
  \/ scenario = "wide" /\ Wide!Init
  \/ scenario = "grow" /\ Grow!Init

MCNext ==
  /\ \/ scenario = "small" /\ Next
     \/ scenario = "deep" /\ Deep!Next
     \/ scenario = "wide" /\ Wide!Next
     \/ scenario = "grow" /\ Grow!Next
  /\ UNCHANGED scenario

MCSpec == MCInit /\ [][MCNext]_<<vars, scenario>>

(* GetValue finds exactly the keys that were inserted and not removed,     *)
(* through every split, merge and redistribution, and after a growing tree *)
(* was opened again by the root in its index roots page.  Two limits of    *)
(* the code are in LookupExact: keys that AdjustRoot gave up with a leaf   *)
(* root that still held one are gone, and nothing is claimed once keys     *)
(* were inserted again in a tree of four levels that had lost some.        *)
LookupExactAll ==
  CASE scenario \in {"small", "grow"} -> LookupExact
    [] scenario = "deep" -> Deep!LookupExact
    [] scenario = "wide" -> Wide!LookupExact

(* Parent pointers agree with the children, keys within a page grow, no    *)
(* page but the root is below its minimal size, none above its maximal one,*)
(* all leaves are at one depth (Split, CoalesceOrRedistribute), and every  *)
(* page that was allocated is in the tree or was given back (AdjustRoot,   *)
(* Destroy), in every instance.                                            *)
TreeShapeAll ==
  CASE scenario = "small" -> TypeOK /\ Balanced /\ NoLeakedPage /\ OnlyRootPinned
    [] scenario = "deep" -> Deep!TypeOK /\ Deep!Balanced /\ Deep!NoLeakedPage
    [] scenario = "wide" -> Wide!TypeOK /\ Wide!Balanced /\ Wide!NoLeakedPage
    [] scenario = "grow" -> Grow!TypeOK /\ Balanced /\ NoLeakedPage /\ RootRecorded

(* At the smallest pages the leaves, walked along their next pointers,     *)
(* hold the stored keys in order, each once, and ScanKey relative to a key *)
(* of the tree returns the rows of its comparison, after any removals.     *)
ScanOfStoredSmall == scenario \in {"small", "grow"} => LeafChain /\ ScanOfStored
=============================================================================
