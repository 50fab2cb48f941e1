------------------------------- MODULE Kernel -------------------------------
(***************************************************************************)
(* The databases of a MiniSQL process (ExecuteEngine) together with the    *)
(* catalog of one of them (Catalog): statements on tables and indexes go   *)
(* to the catalog of the selected database, and the catalog is created,    *)
(* closed and opened by the constructor and the destructor of the storage  *)
(* engine of its database (common/instance.cpp), whoever calls them.       *)
(* Sessions that may end without closing (Session) are those of            *)
(* ExecuteEngine: what such an end leaves of a catalog is not modelled.    *)
(***************************************************************************)
EXTENDS ExecuteEngine, Catalog

CONSTANT Db  \* the database whose catalog is modelled

ASSUME KernelAssumption ==
  /\ Db \in Databases
  /\ UniqueColumns \subseteq IndexNames /\ IsFiniteSet(UniqueColumns)
  /\ {MaxTables, MaxIndexes, MaxLive, MetaSlots} \subseteq Nat
  /\ MaxTables + MaxIndexes <= MetaSlots

vars == <<client, engineVars, catalogVars>>

Init == client \in Clients /\ EngineInit /\ CatalogInit

(* A statement on tables or indexes while Db is the selected database; it
   may take the process with it. *)
TableStatement ==
  /\ Executing /\ current_db_ = Db
  /\ Statement
  /\ Careful => ~failed'
  /\ process' = IF failed' THEN "dead" ELSE process
  /\ UNCHANGED <<dbs_, current_db_, file, created>>

CreatesCatalog == CreateDatabase(Db) /\ Create

(* ~DBStorageEngine of Db runs. *)
ClosesCatalog ==
  /\ DropDatabase(Db) \/ (Db \in dbs_ /\ (Quit \/ EndOfInput))
  /\ Close

OpensCatalog == Start /\ file[Db] # "absent" /\ Open

(* Steps that leave the storage engine of Db alone. *)
OtherStep ==
  /\ \/ \E d \in Databases \ {Db} : CreateDatabase(d) \/ DropDatabase(d)
     \/ \E d \in Databases : UseDatabase(d)
     \/ Db \notin dbs_ /\ (Quit \/ EndOfInput)
     \/ file[Db] = "absent" /\ Start
     \/ StatementWithoutEngine \/ RowStatementWithoutDatabase \/ QuitWithoutDatabase
  /\ UNCHANGED catalogVars

Next ==
  /\ IF EndsUnclosed
     THEN EngineNext /\ UNCHANGED catalogVars
     ELSE TableStatement \/ CreatesCatalog \/ ClosesCatalog \/ OpensCatalog \/ OtherStep
  /\ UNCHANGED client

Spec == Init /\ [][Next]_vars

-----------------------------------------------------------------------------
(* In a session that selects a database before it works on rows or quits,  *)
(* keeps the one it selected, executes no file with a QUIT and is not      *)
(* killed: no statement meets a database without a storage engine          *)
(* (Execute), a process that stops leaves a file that can be loaded for    *)
(* every database that was created, and every start succeeds.              *)
NeverDiesCareful ==
  Careful /\ ~EndsUnclosed => EngineTypeOK /\ NeverDies /\ CreatedSurvive

(* Through every order of creating, dropping and loading tables, indexes   *)
(* and their database, a name that is known leads to an object that is     *)
(* there, so no lookup logs its "Unknown Error" (GetTable, CreateIndex,    *)
(* GetTableIndexes, DropAllIndexes), and an index is filled from the table *)
(* it was created for: table ids are not used again (GetNextTableId).      *)
NamesResolve == CatalogTypeOK /\ NamesKnown /\ FilledFromItsTable

(* While no session drops a table, or drops an index and then restarts,    *)
(* GetTable and GetTableIndexes find the tables and the indexes that were  *)
(* created and not dropped, and no other, and the indexes of a table are   *)
(* those created for it, after every restart of the process.               *)
CatalogExactKept ==
  "drop table" \notin client /\ ~({"drop index", "reopen"} \subseteq client) =>
    CatalogExact /\ IndexesOfTable
=============================================================================
