------------------------- MODULE MCDistributedRead --------------------------
(***************************************************************************)
(* Three instances of DistributedRead in one run, with two shards on three *)
(* nodes, one of which is a replica of both.  "read" has the constants of  *)
(* the configuration: selects and aggregates while nodes leave properly.   *)
(* "join" joins two tables.  "failing" has nodes that fail at any time.    *)
(***************************************************************************)
EXTENDS DistributedRead

VARIABLE scenario  \* which of the instances the behaviour is of

ThreeNodes   == {1, 2, 3}
TwoReplicas  == (0 :> {1, 2}) @@ (1 :> {2, 3})
TwoKeys      == (1 :> 0) @@ (2 :> 1)
NumberOrNull == {NullValue, 1, 2}
Conditional  == {NoWhere, 1}

Join == INSTANCE DistributedRead WITH
    ShardOf <- TwoKeys, Values <- {1, 2}, Queries <- {"join"},
    Wheres <- {NoWhere}, MaxRows <- 3

Failing == INSTANCE DistributedRead WITH
    ShardOf <- TwoKeys, Values <- {1}, Queries <- {"select", "count"},
    Wheres <- {NoWhere}, MayFail <- TRUE

MCInit == \/ scenario = "read" /\ Init
          \/ scenario = "join" /\ Join!Init
          \/ scenario = "failing" /\ Failing!Init

MCNext ==
    /\ \/ scenario = "read" /\ Next
       \/ scenario = "join" /\ Join!Next
       \/ scenario = "failing" /\ Failing!Next
    /\ UNCHANGED scenario

MCSpec == MCInit /\ [][MCNext]_<<vars, scenario>>

(* A join that no INSERT overlaps has each pair of rows with equal values  *)
(* once (equiJoin), whichever shards the rows of either table are in; rows *)
(* that are alike count as one (merge).                                    *)
JoinExactShards == scenario = "join" => Join!JoinExact

(* While nodes leave together with their ZooKeeper sessions, a select has  *)
(* every row of the shards it asked whose INSERT was reported before it    *)
(* began, no row that was never inserted, and none twice (also when it was *)
(* inserted twice: merge), in the order it asks for (distributedRead,      *)
(* applyOrderBy).  When nodes fail at any time, also *)
(* while they are asked, this holds of a select whose responses are all    *)
(* good (SqlResponse.ok carries them all).                                 *)
SelectComplete ==
    /\ scenario = "read" => TypeOK /\ ReadSeesAll /\ OrderedRows
    /\ scenario = "failing" => Failing!TypeOK /\ Failing!CompleteWhenAnswered
=============================================================================
