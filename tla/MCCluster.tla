------------------------------ MODULE MCCluster -----------------------------
(***************************************************************************)
(* Three instances of Cluster in one run, all of a shard with three        *)
(* replicas.  "serial" has the constants of the configuration: one writer, *)
(* one node at a time away, more requests than two snapshots hold.         *)
(* "writers" has two writers.  "outages" loses requests and answers, and   *)
(* lets either any number of nodes go at any time or a node be started     *)
(* within the session of its last process.                                 *)
(***************************************************************************)
EXTENDS Cluster

CONSTANTS TwoWriters, WriterRequests, WriterThreshold, OutageRequests

VARIABLE scenario  \* which of the instances the behaviour is of

ThreeNodes == {1, 2, 3}
NoFaults == {{}}
Outage == {FaultKinds \ {"quick"}, {"quick", "overlap", "lost"}}

Concurrent == INSTANCE Cluster WITH
    Writers <- TwoWriters, RequestIds <- WriterRequests,
    SnapshotThreshold <- WriterThreshold

Outages == INSTANCE Cluster WITH
    RequestIds <- OutageRequests, FaultSets <- Outage

MCInit == \/ scenario = "serial" /\ Init
          \/ scenario = "writers" /\ Concurrent!Init
          \/ scenario = "outages" /\ Outages!Init

MCNext ==
    /\ \/ scenario = "serial" /\ Next
       \/ scenario = "writers" /\ Concurrent!Next
       \/ scenario = "outages" /\ Outages!Next
    /\ UNCHANGED scenario

(* The coordinator's calls return within their 20 seconds, ZooKeeper ends  *)
(* the session of a process that is gone, and a node that is down is       *)
(* started again and works through its list of peers.                      *)
MCSpec ==
    /\ MCInit /\ [][MCNext]_<<vars, scenario>>
    /\ \A w \in TwoWriters :
          WF_vars(scenario = "writers" /\ Concurrent!WriterStep(w) /\ UNCHANGED faults)
    /\ \A n \in Nodes :
          /\ WF_vars(scenario = "writers" /\ Concurrent!NodeStep(n) /\ UNCHANGED faults)
          /\ WF_vars(scenario = "writers" /\ Concurrent!SessionExpires(n) /\ UNCHANGED faults)

(* With one node at a time away, everything the coordinator begins ends,   *)
(* and every node that is down comes back, whatever its peers do meanwhile:*)
(* again and again no write is under way and all nodes serve.              *)
AllComeBack ==
    []<>(scenario = "writers" =>
            /\ \A w \in TwoWriters : write[w].pc = "idle"
            /\ \A n \in Nodes : node[n].state = "SERVING")
=============================================================================
