----------------------------- MODULE ReplicaLog -----------------------------
(***************************************************************************)
(* What a DataNode promises, without WAL files, snapshots, an engine       *)
(* process or threads: a list of requests in the order in which they were  *)
(* logged, each of them once, and a set of acknowledged requests, all of   *)
(* them in the list.  Snapshots, compactions, engine rebuilds, crashes and *)
(* restarts leave both alone.                                              *)
(***************************************************************************)
EXTENDS Sequences

CONSTANT RequestIds

VARIABLES
    log,     \* the requests logged so far
    acked    \* the requests that were answered with ok

Logged == {log[i] : i \in DOMAIN log}

Init == log = <<>> /\ acked = {}

(* A write, a replicated write or an entry recovered from a peer is logged.*)
Log(id) == id \notin Logged /\ log' = Append(log, id) /\ UNCHANGED acked

(* A logged request is answered; a replay of one is answered right away.   *)
Ack(id) == id \in Logged /\ acked' = acked \cup {id} /\ UNCHANGED log

Next == \E id \in RequestIds : Log(id) \/ Ack(id)

Spec == Init /\ [][Next]_<<log, acked>>
=============================================================================
