----------------------------- MODULE QueryPlan -----------------------------
(***************************************************************************)
(* SELECT on the table of TableExecutor: Planner::PlanSelect chooses       *)
(* between a SeqScanExecutor and an IndexScanExecutor, which combines the  *)
(* answers of the indexes.                                                 *)
(*                                                                         *)
(* A WHERE clause is a comparison [op, col, val] or a connector [op, left, *)
(* right] with op "and" or "or".  Values are integers.  An index answers a *)
(* comparison as a tree of one leaf does (BPlusTree).                      *)
(***************************************************************************)
EXTENDS TableExecutor

CONSTANT Wheres   \* the WHERE clauses of the client

IsConnector(w) == w.op \in {"and", "or"}

Compare(x, op, v) ==
  CASE op = "=" -> x = v [] op = "<" -> x < v [] op = "<=" -> x <= v
    [] op = ">" -> x > v [] op = ">=" -> x >= v [] op = "<>" -> x # v

(* Evaluate of the expressions. *)
RECURSIVE Evaluate(_, _)
Evaluate(w, row) ==
  CASE w.op = "and" -> Evaluate(w.left, row) /\ Evaluate(w.right, row)
    [] w.op = "or" -> Evaluate(w.left, row) \/ Evaluate(w.right, row)
    [] OTHER -> Compare(row[w.col], w.op, w.val)

(* MakePredicate collects the columns of the clause, each once; has_or is  *)
(* set for the outermost connector only.                                   *)
RECURSIVE ColumnsInCondition(_)
ColumnsInCondition(w) ==
  IF IsConnector(w) THEN ColumnsInCondition(w.left) \cup ColumnsInCondition(w.right) ELSE {w.col}
HasOr(w) == w.op = "or"

AvailableIndex(w) == indexed \cap ColumnsInCondition(w)
NeedFilter_Never(w) == FALSE

NeedFilter(w) == AvailableIndex(w) # ColumnsInCondition(w)

-----------------------------------------------------------------------------
(* IndexScanExecutor. *)

ScanKey(c, op, v) == {entry[c][k] : k \in {x \in Values : Compare(x, op, v) /\ entry[c][x] # NoRowId}}

(* An empty side gives the other side, any connector the intersection. *)
RECURSIVE IndexScan(_)
IndexScan(w) ==
  IF IsConnector(w)
  THEN LET lhs == IndexScan(w.left)
           rhs == IndexScan(w.right)
       IN  IF lhs = {} THEN rhs ELSE IF rhs = {} THEN lhs ELSE lhs \cap rhs
  ELSE IF w.col \in indexed THEN ScanKey(w.col, w.op, w.val) ELSE {}

SeqScan(w) == {r \in Scanned : Evaluate(w, heap[r])}

IndexScanExecutor(w) == {r \in IndexScan(w) : NeedFilter(w) => Evaluate(w, heap[r])}

UsesIndex(w) == AvailableIndex(w) # {} /\ ~HasOr(w)
PlanSelect(w) == IF UsesIndex(w) THEN IndexScanExecutor(w) ELSE SeqScan(w)

-----------------------------------------------------------------------------
(* Every live row is in the chain of the heap, and the first page has one. *)
ScanReachesAll ==
  /\ \A r \in live : place[r] # "outside"
  /\ live # {} => \E r \in live : place[r] = "first"

(* The clause has one comparison with an indexed column at most, and no OR *)
(* below another connector.                                                *)
RECURSIVE Parts(_)
Parts(w) == {w} \cup (IF IsConnector(w) THEN Parts(w.left) \cup Parts(w.right) ELSE {})
OneIndexed(w) ==
  LET leaves == {p \in Parts(w) : ~IsConnector(p) /\ p.col \in indexed}
  IN  /\ \A p, q \in leaves : p = q
      /\ \A p \in Parts(w) \ {w} : p.op # "or"

(* A SELECT returns the live rows for which its WHERE clause holds,        *)
(* whichever scan the planner (PlanSelect) chooses and whatever statements *)
(* and restarts came before, under what each scan needs.  SeqScanExecutor: *)
(* a live row in the first page of the heap and none outside its chain.    *)
(* IndexScanExecutor: undamaged indexes of unique columns, of one leaf     *)
(* each; no two comparisons that an index answers, which it intersects     *)
(* wrongly; and no OR inside, which the planner overlooks.                 *)
SelectExact ==
  stmt = Idle => \A w \in Wheres :
    (IF UsesIndex(w)
     THEN OneIndexed(w) /\ AvailableIndex(w) \subseteq UniqueColumns \ (astray \cup cut)
     ELSE ScanReachesAll)
    => PlanSelect(w) = {r \in live : Evaluate(w, heap[r])}
=============================================================================
