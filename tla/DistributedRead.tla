--------------------------- MODULE DistributedRead --------------------------
(***************************************************************************)
(* A query over all shards: the coordinator asks one serving replica of    *)
(* every shard, one after the other (CoordinatorServer.readResponses),     *)
(* merges the tables that come back (MiniSqlResultParser.merge) and sorts, *)
(* aggregates or joins the rows in memory (QueryPostProcessor), while      *)
(* another client's INSERT goes from replica to replica.                   *)
(*                                                                         *)
(* A node runs one MiniSQL for all its shards, so what it answers for one  *)
(* shard holds its rows of the others too.  The write's term, log and      *)
(* recovery are the subject of module Cluster.                             *)
(***************************************************************************)
EXTENDS Integers, Sequences, FiniteSets, SequencesExt, FiniteSetsExt

CONSTANTS
    Nodes,      \* numbers, in the order of the nodes' names
    Replicas,   \* per shard: its replicas; DOMAIN Replicas are the shards
    ShardOf,    \* per value of the first column: its shard (SHA-256)
    Values,     \* values of the second column, NullValue among them or not
    Queries,    \* the kinds of queries that clients ask
    Wheres,     \* the conditions of queries, NoWhere among them
    MaxRows,    \* bound on the rows inserted
    MayFail     \* a node may fail while it is registered

(* How NULL sorts: its text is below what a number is compared as.         *)
NullValue == -1

(* The condition that every row meets                                      *)
NoWhere == -2

Keys   == DOMAIN ShardOf
Shards == DOMAIN Replicas
Tables == {"t", "u"}
Row    == [key : Keys, value : Values]

(* The counter of a shard is used modulo the number of candidates, at most *)
(* that of the replicas: 6 is a multiple of 1, 2 and 3.                    *)
CounterPeriod == IF \A s \in Shards : Cardinality(Replicas[s]) <= 2 THEN 2 ELSE 6

ASSUME ReadAssumption ==
    /\ Nodes \subseteq Nat /\ Cardinality(Nodes) <= 3
    /\ Shards \subseteq Nat
    /\ \A s \in Shards : Replicas[s] \subseteq Nodes /\ Replicas[s] # {}
    /\ \A k \in Keys : ShardOf[k] \in Shards
    /\ Values \subseteq Nat \cup {NullValue}
    /\ Wheres \subseteq Values \cup {NoWhere}
    /\ MayFail \in BOOLEAN /\ MaxRows \in Nat

VARIABLES
    db,        \* per node and table: the rows of its MiniSQL
    up,        \* nodes whose process runs
    live,      \* nodes that are registered as SERVING
    counters,  \* ReplicaChooser.counters
    write,     \* the INSERT under way
    read,      \* the query under way
    begun,     \* per table: rows of the INSERTs that were sent
    acked      \* per table: rows of those that were reported as successful

vars == <<db, up, live, counters, write, read, begun, acked>>

Elements(s) == {s[i] : i \in DOMAIN s}

EmptyTables == [t \in Tables |-> <<>>]

NoWrite == [pc |-> "idle", table |-> "t", row |-> <<>>, todo |-> <<>>, oks |-> 0, quorum |-> 0]

NoRead == [pc |-> "idle", kind |-> "none", where |-> NoWhere, todo |-> <<>>, nodes |-> {},
           got |-> EmptyTables, asked |-> {}, before |-> EmptyTables, torn |-> FALSE,
           failed |-> FALSE, rows |-> <<>>, value |-> <<>>]

AggregateKinds == {"count", "sum", "min", "max"}
SelectKinds    == {"select", "asc", "desc"}
Kinds          == AggregateKinds \cup SelectKinds \cup {"join"}

(* Only a join looks at a second table.                                    *)
UsedTables == IF "join" \in Queries THEN Tables ELSE {"t"}

TypeOK ==
    /\ \A n \in Nodes, t \in Tables : Elements(db[n][t]) \subseteq Row
    /\ live \subseteq Nodes /\ up \subseteq Nodes
    /\ counters \in [Shards -> 0 .. CounterPeriod - 1]
    /\ write.oks <= Cardinality(Nodes) /\ Elements(write.todo) \subseteq Nodes
    /\ read.kind \in Kinds \cup {"none"} /\ read.asked \subseteq Shards
    /\ \A t \in Tables : Elements(acked[t]) \subseteq Elements(begun[t])

Init ==
    /\ db = [n \in Nodes |-> EmptyTables]
    /\ up = Nodes /\ live = Nodes
    /\ counters = [s \in Shards |-> 0]
    /\ write = NoWrite /\ read = NoRead
    /\ begun = EmptyTables /\ acked = EmptyTables

-----------------------------------------------------------------------------
(* Tables as the coordinator holds them: sequences of rows.                *)

(* A bug: rows that several nodes hold are kept each time.                 *)
merge_KeepsAll(tables) == FlattenSeq(tables)

(* MiniSqlResultParser.merge: a row that was seen before is left out.      *)
merge(tables) ==
    FoldLeft(LAMBDA acc, row : IF row \in Elements(acc) THEN acc ELSE Append(acc, row),
             <<>>, FlattenSeq(tables))

Numbers(rows) == SelectSeq([i \in DOMAIN rows |-> rows[i].value], LAMBDA v : v # NullValue)

SumOf(numbers) == FoldLeft(LAMBDA a, v : a + v, 0, numbers)

(* QueryPostProcessor.aggregate over the second column; <<>> is the blank  *)
(* answer of mergeSelect when no node sent a table.                        *)
aggregate(kind, rows) ==
    LET numbers == Numbers(rows)
    IN  CASE rows = <<>>    -> <<>>
          [] kind = "count" -> <<Len(rows)>>
          [] numbers = <<>> -> <<NullValue>>
          [] kind = "sum"   -> <<SumOf(numbers)>>
          [] kind = "min"   -> <<Min(Elements(numbers))>>
          [] kind = "max"   -> <<Max(Elements(numbers))>>

(* QueryPostProcessor.applyOrderBy, by the second column                   *)
applyOrderBy(kind, rows) ==
    CASE kind = "asc"  -> SortSeq(rows, LAMBDA a, b : a.value < b.value)
      [] kind = "desc" -> SortSeq(rows, LAMBDA a, b : a.value > b.value)
      [] OTHER         -> rows

(* A bug: a key of the right table leads to its last row only.             *)
equiJoin_LastMatch(left, right) ==
    FlattenSeq([i \in DOMAIN left |->
        LET found == SelectSeq(right, LAMBDA r : r.value = left[i].key)
        IN  IF found = <<>> THEN <<>> ELSE << <<left[i], Last(found)>> >>])

(* QueryPostProcessor.equiJoin on t.key = u.value: for each row of the     *)
(* left table the rows of the right table under its key, in their order    *)
equiJoin(left, right) ==
    FlattenSeq([i \in DOMAIN left |->
        LET found == SelectSeq(right, LAMBDA r : r.value = left[i].key)
        IN  [j \in DOMAIN found |-> <<left[i], found[j]>>]])

-----------------------------------------------------------------------------
(* Writes.                                                                 *)

quorumSize(n) == n \div 2 + 1

(* routedWrite of INSERT INTO table VALUES (key, value): the shard is that *)
(* of the first value, and its primary, any live replica, comes first.     *)
BeginInsert(table, row) ==
    LET replicas == Replicas[ShardOf[row.key]]
    IN  /\ write.pc = "idle"
        /\ Len(begun["t"]) + Len(begun["u"]) < MaxRows
        /\ \E primary \in replicas \cap live :
              write' = [pc |-> "sending", table |-> table, row |-> row,
                        todo |-> <<primary>> \o
                                 SetToSortSeq((replicas \cap live) \ {primary}, <),
                        oks |-> 0, quorum |-> quorumSize(Cardinality(replicas))]
        /\ begun' = [begun EXCEPT ![table] = Append(@, row)]
        /\ read' = [read EXCEPT !.torn = TRUE]
        /\ UNCHANGED <<db, up, live, counters, acked>>

(* The next replica runs the INSERT, or is not there.                      *)
DeliverInsert ==
    LET n == Head(write.todo)
    IN  /\ write.pc = "sending" /\ write.todo # <<>>
        /\ db' = IF n \in up THEN [db EXCEPT ![n][write.table] = Append(@, write.row)] ELSE db
        /\ write' = [write EXCEPT !.todo = Tail(@), !.oks = IF n \in up THEN @ + 1 ELSE @]
        /\ UNCHANGED <<up, live, counters, read, begun, acked>>

EndInsert ==
    /\ write.pc = "sending" /\ write.todo = <<>>
    /\ acked' = IF write.oks >= write.quorum
                THEN [acked EXCEPT ![write.table] = Append(@, write.row)] ELSE acked
    /\ write' = NoWrite
    /\ UNCHANGED <<db, up, live, counters, read, begun>>

-----------------------------------------------------------------------------
(* Queries.                                                                *)

(* The table that is asked for: of a join the left one, then the right one *)
TableOf(r) == IF r.kind = "join" /\ r.pc = "right" THEN "u" ELSE "t"

(* execute, distributedRead, distributedJoin, and the start of             *)
(* readResponses: the live nodes are listed once per table.  With a shard  *)
(* key, only that key's shard is asked; joins have none.                   *)
BeginRead(kind, where, shards) ==
    /\ read.pc = "idle"
    /\ live # {}
    /\ kind = "join" => where = NoWhere
    /\ shards # Shards => Cardinality(shards) = 1 /\ kind # "join"
    /\ read' = [NoRead EXCEPT
          !.pc = IF kind = "join" THEN "left" ELSE "asking", !.kind = kind, !.where = where,
          !.todo = SetToSortSeq(shards, <), !.nodes = live, !.asked = shards,
          !.before = acked, !.torn = write.pc # "idle"]
    /\ UNCHANGED <<db, up, live, counters, write, begun, acked>>

Meets(row, where) == where = NoWhere \/ row.value = where

(* baseSqlForAggregate: what is sent to the nodes for an aggregate has no  *)
(* condition.                                                              *)
DispatchedWhere(r) == IF r.kind \in AggregateKinds THEN NoWhere ELSE r.where

Candidates(s, nodes) == SetToSortSeq(Replicas[s] \cap nodes, <)

(* A bug: any live node is asked for a shard.                              *)
chooseForRead_AnyNode(s, nodes) ==
    SetToSortSeq(nodes, <)[(counters[s] % Cardinality(nodes)) + 1]

(* ReplicaChooser.chooseForRead                                            *)
chooseForRead(s, nodes) ==
    Candidates(s, nodes)[(counters[s] % Len(Candidates(s, nodes))) + 1]

(* send: the chosen replica answers with all rows of the table that it     *)
(* has, whatever their shard; no answer of a node that is gone.            *)
AskShard ==
    LET s == Head(read.todo)
        n == chooseForRead(s, read.nodes)
        t == TableOf(read)
    IN  /\ read.pc \in {"asking", "left", "right"} /\ read.todo # <<>>
        /\ Candidates(s, read.nodes) # <<>>
        /\ counters' = [counters EXCEPT ![s] = (@ + 1) % CounterPeriod]
        /\ read' = [read EXCEPT
              !.todo = Tail(@), !.failed = @ \/ n \notin up,
              !.got[t] = IF n \notin up THEN @
                         ELSE Append(@, SelectSeq(db[n][t],
                                          LAMBDA row : Meets(row, DispatchedWhere(read))))]
        /\ UNCHANGED <<db, up, live, write, begun, acked>>

(* chooseForRead throws: the query fails.                                  *)
NoCandidate ==
    /\ read.pc \in {"asking", "left", "right"} /\ read.todo # <<>>
    /\ Candidates(Head(read.todo), read.nodes) = <<>>
    /\ read' = NoRead
    /\ UNCHANGED <<db, up, live, counters, write, begun, acked>>

(* distributedJoin: the left table has been read, now the right one; no    *)
(* shard is asked when no node is live.                                    *)
RightSide ==
    /\ read.pc = "left" /\ read.todo = <<>>
    /\ read' = [read EXCEPT !.pc = "right", !.nodes = live,
                            !.todo = IF live = {} THEN <<>> ELSE SetToSortSeq(Shards, <)]
    /\ UNCHANGED <<db, up, live, counters, write, begun, acked>>

(* mergeSelect, or join                                                    *)
EndRead ==
    LET rows == merge(read.got["t"])
    IN  /\ read.pc \in {"asking", "right"} /\ read.todo = <<>>
        /\ read' = [read EXCEPT
              !.pc = "done",
              !.rows = CASE read.kind = "join" -> equiJoin(rows, merge(read.got["u"]))
                         [] read.kind \in SelectKinds -> applyOrderBy(read.kind, rows)
                         [] OTHER -> <<>>,
              !.value = IF read.kind \in AggregateKinds
                        THEN aggregate(read.kind, rows) ELSE <<>>]
        /\ UNCHANGED <<db, up, live, counters, write, begun, acked>>

Return ==
    /\ read.pc = "done"
    /\ read' = NoRead
    /\ UNCHANGED <<db, up, live, counters, write, begun, acked>>

-----------------------------------------------------------------------------
(* Nodes that go away.                                                     *)

(* A node stops between the calls of the coordinator, and its registration *)
(* ends with it; with MayFail at any time, and the registration ends later.*)
Stop(n) ==
    /\ n \in up
    /\ IF MayFail THEN live' = live
       ELSE read.pc = "idle" /\ write.pc = "idle" /\ live' = live \ {n}
    /\ up' = up \ {n}
    /\ UNCHANGED <<db, counters, write, read, begun, acked>>

SessionExpires(n) ==
    /\ n \in live \ up
    /\ live' = live \ {n}
    /\ UNCHANGED <<db, up, counters, write, read, begun, acked>>

Next ==
    \/ \E t \in UsedTables, row \in Row : BeginInsert(t, row)
    \/ DeliverInsert \/ EndInsert
    \/ \E kind \in Queries, where \in Wheres, shards \in SUBSET Shards :
          BeginRead(kind, where, shards)
    \/ AskShard \/ NoCandidate \/ RightSide \/ EndRead \/ Return
    \/ \E n \in Nodes : Stop(n) \/ SessionExpires(n)

Spec == Init /\ [][Next]_vars

-----------------------------------------------------------------------------
(* Properties.                                                             *)

Asked(rows) ==
    {row \in Elements(rows) : ShardOf[row.key] \in read.asked /\ Meets(row, read.where)}

Complete ==
    /\ Asked(read.before["t"]) \subseteq Elements(read.rows)
    /\ Elements(read.rows) \subseteq {row \in Elements(begun["t"]) : Meets(row, read.where)}
    /\ Cardinality(Elements(read.rows)) = Len(read.rows)

(* A select that is answered has every row of the shards it asked whose    *)
(* INSERT was reported as successful before it began, no row that was      *)
(* never inserted, and none twice, whatever INSERT goes on meanwhile and   *)
(* whichever replicas are asked (distributedRead).                         *)
ReadSeesAll == (read.pc = "done" /\ read.kind \in SelectKinds) => Complete

(* The same of a select for which every node that was asked answered, also *)
(* when nodes fail at any time: the responses are part of the answer, so a *)
(* client can tell (SqlResponse.ok(route, responses, merged)).             *)
CompleteWhenAnswered ==
    (read.pc = "done" /\ read.kind \in SelectKinds /\ ~read.failed) => Complete

(* order by: the merged rows are in the order asked for (applyOrderBy).    *)
OrderedRows ==
    (read.pc = "done" /\ read.kind \in {"asc", "desc"}) =>
        \A i, j \in DOMAIN read.rows : i < j =>
            IF read.kind = "asc" THEN read.rows[i].value <= read.rows[j].value
            ELSE read.rows[i].value >= read.rows[j].value

(* No two rows of a table are alike: merge cannot tell them from one row   *)
(* that several nodes hold.                                                *)
NoTwins(rows) == Cardinality(Elements(rows)) = Len(rows)

(* An aggregate without a condition, over all shards, that no INSERT       *)
(* overlaps and for which every node that was asked answered, is the one   *)
(* of all rows of the table (baseSqlForAggregate, merge, aggregate), as    *)
(* long as no two of them are alike; a blank answer stands for no rows.    *)
(* With a condition it is the aggregate of the whole table all the same:   *)
(* the nodes are asked without it.                                         *)
AggregateExact ==
    (/\ read.pc = "done" /\ read.kind \in AggregateKinds /\ read.where = NoWhere
     /\ read.asked = Shards /\ ~read.torn /\ ~read.failed
     /\ acked = begun /\ NoTwins(read.before["t"]) /\ read.before["t"] # <<>>) =>
        read.value = aggregate(read.kind, read.before["t"])

(* A join that no INSERT overlaps has each pair of rows with equal values  *)
(* once (equiJoin), whichever shards the rows are in; rows that are alike  *)
(* count as one, which merge makes of them.                                *)
JoinExact ==
    (read.pc = "done" /\ read.kind = "join" /\ ~read.torn /\ acked = begun) =>
        /\ Elements(read.rows) =
              {p \in Elements(begun["t"]) \X Elements(begun["u"]) : p[1].key = p[2].value}
        /\ Cardinality(Elements(read.rows)) = Len(read.rows)
=============================================================================
