--------------------------- MODULE ExecuteEngine ---------------------------
(***************************************************************************)
(* The databases of one MiniSQL process (executor/execute_engine.cpp,      *)
(* common/instance.cpp, main.cpp): the storage engines in dbs_, the        *)
(* selected database and the files in ./databases.  A storage engine       *)
(* writes its catalog page, its pages and the meta page of its file in its *)
(* destructor, so a file whose engine never got there cannot be loaded.    *)
(***************************************************************************)
EXTENDS Session

CONSTANT Databases  \* the names of databases

NoDatabase == "none"

VARIABLES
  dbs_,         \* the databases with a storage engine
  current_db_,  \* the selected database, which need not have one
  file,         \* each file of ./databases: absent, fresh or closed
  process,      \* running, stopped, or dead after a fault
  created       \* the databases that were created and not dropped

engineVars == <<dbs_, current_db_, file, process, created>>

EngineInit ==
  /\ dbs_ = {} /\ current_db_ = NoDatabase
  /\ file = [d \in Databases |-> "absent"]
  /\ process = "running" /\ created = {}

(* Execute asks dbs_[current_db_] for a context before every statement; with
   no database selected the context is null, which CREATE, DROP and SHOW
   check for and the statements on rows do not. *)
HasContext == current_db_ = NoDatabase \/ current_db_ \in dbs_
Executing == process = "running" /\ HasContext

StatementWithoutEngine ==
  /\ process = "running" /\ ~HasContext
  /\ process' = "dead"
  /\ UNCHANGED <<dbs_, current_db_, file, created>>

(* SELECT, INSERT, DELETE and UPDATE ask the null context for its catalog. *)
RowStatementWithoutDatabase ==
  /\ Executing /\ current_db_ = NoDatabase /\ ~Careful
  /\ process' = "dead"
  /\ UNCHANGED <<dbs_, current_db_, file, created>>

CreateDatabase(d) ==
  /\ Executing /\ d \notin dbs_
  /\ dbs_' = dbs_ \cup {d}
  /\ file' = [file EXCEPT ![d] = "fresh"]
  /\ created' = created \cup {d}
  /\ UNCHANGED <<current_db_, process>>

(* remove() gets the name without the directory; the destructor then writes
   the file. *)
DropDatabase(d) ==
  /\ Executing /\ d \in dbs_
  /\ "drop database" \in client /\ (Careful => d # current_db_)
  /\ dbs_' = dbs_ \ {d}
  /\ file' = [file EXCEPT ![d] = "closed"]
  /\ created' = created \ {d}
  /\ UNCHANGED <<current_db_, process>>

UseDatabase_Unchecked(d) ==
  /\ Executing
  /\ current_db_' = d
  /\ UNCHANGED <<dbs_, file, process, created>>

UseDatabase(d) ==
  /\ Executing /\ d \in dbs_
  /\ current_db_' = d
  /\ UNCHANGED <<dbs_, file, process, created>>

(* main returns: ~ExecuteEngine deletes every storage engine. *)
Written == [d \in Databases |-> IF d \in dbs_ THEN "closed" ELSE file[d]]

Quit ==
  /\ Executing /\ current_db_ # NoDatabase
  /\ process' = "stopped" /\ file' = Written
  /\ UNCHANGED <<dbs_, current_db_, created>>

(* ExecuteQuit reads the catalog of dbs_[""]. *)
QuitWithoutDatabase ==
  /\ Executing /\ current_db_ = NoDatabase /\ ~Careful
  /\ process' = "dead"
  /\ UNCHANGED <<dbs_, current_db_, file, created>>

(* ExecuteExecfile calls exit(0) for a QUIT of its file: the engine of main
   is not destroyed and writes nothing. *)
QuitInFile ==
  /\ Executing /\ current_db_ # NoDatabase /\ "quit in file" \in client
  /\ process' = "stopped"
  /\ UNCHANGED <<dbs_, current_db_, file, created>>

(* The input of --batch or --repl ends and main returns. *)
EndOfInput ==
  /\ process = "running"
  /\ process' = "stopped" /\ file' = Written
  /\ UNCHANGED <<dbs_, current_db_, created>>

Kill ==
  /\ "kill" \in client /\ process = "running"
  /\ process' = "stopped"
  /\ UNCHANGED <<dbs_, current_db_, file, created>>

Start_SkipsFresh ==
  LET files == {d \in Databases : file[d] = "closed"}
  IN  /\ process = "stopped"
      /\ process' = "running"
      /\ dbs_' = files /\ current_db_' = NoDatabase
      /\ UNCHANGED <<file, created>>

(* The constructor loads every file; one that was never closed has no
   catalog page, and an assertion (debug is the default build) stops it. *)
Start ==
  LET files == {d \in Databases : file[d] # "absent"}
  IN  /\ process = "stopped"
      /\ process' = IF \E d \in files : file[d] = "fresh" THEN "dead" ELSE "running"
      /\ dbs_' = files /\ current_db_' = NoDatabase
      /\ UNCHANGED <<file, created>>

EngineNext ==
  \/ \E d \in Databases : CreateDatabase(d) \/ DropDatabase(d) \/ UseDatabase(d)
  \/ StatementWithoutEngine \/ RowStatementWithoutDatabase
  \/ Quit \/ QuitWithoutDatabase \/ QuitInFile \/ EndOfInput \/ Kill \/ Start

-----------------------------------------------------------------------------
(* Every component has its type, and every storage engine its file. *)
EngineTypeOK ==
  /\ dbs_ \subseteq {d \in Databases : file[d] # "absent"} /\ created \subseteq Databases
  /\ current_db_ \in Databases \cup {NoDatabase}
  /\ file \in [Databases -> {"absent", "fresh", "closed"}]
  /\ process \in {"running", "stopped", "dead"}

(* What CREATE DATABASE made and nobody dropped is there in every later
   session that starts, also after a kill, a fault or a QUIT in a file. *)
CreatedLoaded == process = "running" => created \subseteq dbs_

(* A process that stops leaves a file that can be loaded for every database
   that was created. *)
CreatedSurvive == process = "stopped" => \A d \in created : file[d] = "closed"

(* No statement of Execute meets a database without a storage engine, and
   the files of the last session can be loaded. *)
NeverDies == process # "dead"

(* A database is there because CREATE DATABASE made it. *)
DatabasesExplicit == process = "running" => dbs_ \subseteq created

(* A new process can load the files in ./databases. *)
Loadable == process = "stopped" => \A d \in Databases : file[d] # "fresh"
=============================================================================
