---------------------------- MODULE MCQueryPlan ----------------------------
(***************************************************************************)
(* TableExecutor for TLC, with the SELECTs of QueryPlan: indexes come and  *)
(* go, updates that need more room fail, and the table is opened again.    *)
(***************************************************************************)
EXTENDS QueryPlan

IdAndAge == [c \in Columns |-> IF c = "id" THEN Values ELSE {1, 3}]

Comparisons(c, ops) == [op : ops, col : {c}, val : Domain[c]]
Connect(ops, L, R) == [op : ops, left : L, right : R]
AllOps == {"=", "<", "<=", ">", ">=", "<>"}

(* Comparisons, connectors with one and with two columns, and disjunctions *)
(* above and below them.                                                   *)
Clauses ==
  Comparisons("id", AllOps) \cup Comparisons("age", AllOps)
  \cup Connect({"and", "or"}, Comparisons("id", {"=", ">"}), Comparisons("age", {"=", "<>"}))
  \cup Connect({"and"}, Comparisons("id", {">"}), Comparisons("id", {"="}))
  \cup Connect({"and", "or"},
               Connect({"and", "or"}, Comparisons("id", {">"}), Comparisons("age", {"="})),
               Comparisons("age", {"="}))
=============================================================================
