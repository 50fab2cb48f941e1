---------------------------- MODULE MCZkMetadata ----------------------------
(***************************************************************************)
(* Three instances of ZkMetadata in one run.  "serial" has the constants   *)
(* of the configuration: one coordinator call at a time on several shards  *)
(* and nodes.  "long" has more such calls on one shard of two nodes, and   *)
(* "racing" two calls at a time on it.                                     *)
(***************************************************************************)
EXTENDS ZkMetadata

CONSTANTS
    LongMaxVersion, RacingWorkers, RacingMaxVersion,
    OneShardMaxLogIndex  \* the bound on log indexes in "long" and "racing"

VARIABLE scenario  \* which of the instances the behaviour is of

TwoNodes == {1, 2}
ThreeNodes == {1, 2, 3}

Long == INSTANCE ZkMetadata WITH
    Nodes <- TwoNodes, ShardCount <- 1,
    MaxLogIndex <- OneShardMaxLogIndex, MaxVersion <- LongMaxVersion

Racing == INSTANCE ZkMetadata WITH
    Nodes <- TwoNodes, ShardCount <- 1, MaxLogIndex <- OneShardMaxLogIndex,
    Workers <- RacingWorkers, MaxVersion <- RacingMaxVersion

MCInit == \/ scenario = "serial" /\ Init
          \/ scenario = "long" /\ Long!Init
          \/ scenario = "racing" /\ Racing!Init

MCNext ==
    /\ \/ scenario = "serial" /\ Next
       \/ scenario = "long" /\ Long!Next
       \/ scenario = "racing" /\ Racing!Next
    /\ UNCHANGED scenario

(* A worker that has begun goes on: ZooKeeper answers every request.       *)
MCSpec ==
    /\ MCInit /\ [][MCNext]_<<vars, scenario>>
    /\ \A w \in RacingWorkers : WF_vars(scenario = "racing" /\ Racing!WorkerStep(w))

(* Both of two racing calls end, though nextShardLogIndex loops.  Nothing  *)
(* tells the workers apart, so one of them stands for both.                *)
CallsEndRacing ==
    LET w == CHOOSE v \in RacingWorkers : TRUE IN
    (scenario = "racing" /\ pc[w] # "idle") ~> (scenario = "racing" /\ pc[w] = "idle")
=============================================================================
