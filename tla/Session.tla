------------------------------ MODULE Session ------------------------------
(***************************************************************************)
(* What the clients of a MiniSQL process do, and what happens to it, in    *)
(* one behaviour: which statements on databases, tables and indexes they   *)
(* give, whether they restart the process, whether they are careless, and  *)
(* whether the process ends without closing its databases.  A behaviour    *)
(* has one set of habits, from its first state on; every theorem and       *)
(* property that speaks of some sessions only says so by these habits.     *)
(***************************************************************************)
CONSTANT Clients  \* the sets of habits that are considered

Habits == {
  "create table", "create index", "list", "drop table", "drop index",
  "reopen",         \* the databases are closed and opened again
  "drop database",
  "careless",       \* drops the selected database, works on rows or quits before one is
                    \* selected, drops indexes while a table has no entry for them
  "quit in file",   \* executes files that have a QUIT
  "kill"}           \* the process may be killed

ASSUME ClientAssumption == Clients \subseteq SUBSET Habits

VARIABLE client  \* the habits of the behaviour

Careful == "careless" \notin client

(* The process may end without the destructor of its engine. *)
EndsUnclosed == client \cap {"kill", "quit in file"} # {}
=============================================================================
