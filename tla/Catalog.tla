------------------------------ MODULE Catalog ------------------------------
(***************************************************************************)
(* CatalogManager (catalog/catalog.cpp) of one database: the names and ids *)
(* of its tables and indexes in memory, the metadata pages they are loaded *)
(* from, and the catalog page that lists those pages and is written by the *)
(* destructor only.  A unique column is named like the index CreateTable   *)
(* makes for it.                                                           *)
(***************************************************************************)
EXTENDS Session, Integers, FiniteSetsExt, SequencesExt

CONSTANTS
  TableNames,
  UniqueColumns, \* the columns a schema may declare as unique
  IndexNames,    \* the names of indexes, those of unique columns included
  MaxTables,     \* how many tables and
  MaxIndexes,    \* how many indexes are ever created
  MaxLive,       \* how many tables and indexes exist at a time
  MetaSlots      \* how many entries fit into the catalog page

VARIABLES
  table_names_,  \* the id of a table name
  tables_,       \* the tables in memory: which creation made the one with an id
  index_names_,  \* the ids of the index names of a table name
  indexes_,      \* the indexes in memory: for which table they were created, and over which they were filled
  table_meta_pages_, \* the metadata pages of tables, by id
  index_meta_pages_, \* the metadata pages of indexes, by id
  catalog_page,      \* the ids in the catalog page of the file
  running,       \* whether the database is open
  failed,        \* whether the process has died
  tables_created, \* how many tables were created so far
  wanted         \* the tables the client has, and the names of their indexes

meta == <<table_meta_pages_, index_meta_pages_>>
memory == <<table_names_, tables_, index_names_, indexes_>>
catalogVars == <<memory, meta, catalog_page, running, failed, tables_created, wanted>>

NoMap == [x \in {} |-> 0]
Set(f, x, y) == [z \in DOMAIN f \cup {x} |-> IF z = x THEN y ELSE f[z]]
Erase(f, x) == [z \in DOMAIN f \ {x} |-> f[z]]

(* No database: nothing was created yet.                                   *)
CatalogInit ==
  /\ table_names_ = NoMap /\ tables_ = NoMap
  /\ index_names_ = NoMap /\ indexes_ = NoMap
  /\ table_meta_pages_ = NoMap /\ index_meta_pages_ = NoMap
  /\ catalog_page = [tables |-> {}, indexes |-> {}]
  /\ running = FALSE /\ failed = FALSE
  /\ tables_created = 0 /\ wanted = NoMap

(* The constructor with init: an empty catalog in a new file.              *)
Create ==
  /\ ~running /\ ~failed
  /\ table_names_' = NoMap /\ tables_' = NoMap
  /\ index_names_' = NoMap /\ indexes_' = NoMap
  /\ table_meta_pages_' = NoMap /\ index_meta_pages_' = NoMap
  /\ catalog_page' = [tables |-> {}, indexes |-> {}]
  /\ running' = TRUE /\ tables_created' = 0 /\ wanted' = NoMap
  /\ UNCHANGED failed

GetNextId(pages) == IF DOMAIN pages = {} THEN 0 ELSE Max(DOMAIN pages) + 1

(* index_names_[table_name] makes an empty entry. *)
IndexMap(t) == IF t \in DOMAIN index_names_ THEN index_names_[t] ELSE NoMap

Live == Cardinality(DOMAIN wanted) + SumFunctionOnSet([t \in DOMAIN wanted |-> Cardinality(wanted[t])], DOMAIN wanted)

Ready(s) == s \in client /\ running /\ ~failed

-----------------------------------------------------------------------------

(* CreateIndex for the given names on the table that has id tid; a name that
   table_name already has is refused. *)
AddIndexes(t, tid, born, names) ==
  LET new == SetToSeq(names \ DOMAIN IndexMap(t))
      first == GetNextId(index_meta_pages_)
      ids == first .. first + Len(new) - 1
      NameOf(id) == new[id - first + 1]
  IN  /\ index_names_' = Set(index_names_, t,
            [n \in DOMAIN IndexMap(t) \cup names |->
               IF n \in DOMAIN IndexMap(t) THEN IndexMap(t)[n] ELSE CHOOSE id \in ids : NameOf(id) = n])
      /\ indexes_' = [id \in DOMAIN indexes_ \cup ids |->
                        IF id \in ids THEN [madeFor |-> born, filledFrom |-> born] ELSE indexes_[id]]
      /\ index_meta_pages_' = [id \in DOMAIN index_meta_pages_ \cup ids |->
            IF id \in ids THEN [name |-> NameOf(id), table |-> tid, madeFor |-> born] ELSE index_meta_pages_[id]]

CreateTable(t, unique) ==
  LET id == GetNextId(table_meta_pages_)
  IN  /\ Ready("create table")
      /\ tables_created < MaxTables /\ Live + 1 + Cardinality(unique) <= MaxLive
      /\ Cardinality(DOMAIN index_meta_pages_) + Cardinality(unique) <= MaxIndexes
      /\ t \notin DOMAIN table_names_
      /\ tables_created' = tables_created + 1
      /\ table_names_' = Set(table_names_, t, id)
      /\ tables_' = Set(tables_, id, tables_created')
      /\ table_meta_pages_' = Set(table_meta_pages_, id, [name |-> t, born |-> tables_created'])
      /\ IF unique = {}
         THEN UNCHANGED <<index_names_, indexes_, index_meta_pages_>>
         ELSE AddIndexes(t, id, tables_created', unique)
      /\ wanted' = Set(wanted, t, unique)
      /\ UNCHANGED <<catalog_page, running, failed>>

CreateIndex(t, n) ==
  LET id == table_names_[t]
  IN  /\ Ready("create index")
      /\ t \in DOMAIN table_names_ /\ n \notin DOMAIN IndexMap(t)
      /\ Cardinality(DOMAIN index_meta_pages_) < MaxIndexes /\ Live < MaxLive
      /\ AddIndexes(t, id, tables_[id], {n})
      /\ wanted' = IF t \in DOMAIN wanted THEN [wanted EXCEPT ![t] = @ \cup {n}] ELSE wanted
      /\ UNCHANGED <<table_names_, tables_, table_meta_pages_, catalog_page, running, failed, tables_created>>

(* GetTableIndexes, and CreateIndex when it is refused, leave an entry for
   the table behind; every statement on rows of a table calls the first. *)
GetTableIndexes(t) ==
  /\ Ready("list")
  /\ t \in DOMAIN table_names_ \ DOMAIN index_names_
  /\ index_names_' = Set(index_names_, t, NoMap)
  /\ UNCHANGED <<table_names_, tables_, indexes_, meta, catalog_page, running, failed, tables_created, wanted>>

(* index_names_ and the metadata page keep what they have. *)
DropTable(t) ==
  /\ Ready("drop table")
  /\ t \in DOMAIN table_names_
  /\ tables_' = Erase(tables_, table_names_[t])
  /\ table_names_' = Erase(table_names_, t)
  /\ wanted' = Erase(wanted, t)
  /\ UNCHANGED <<index_names_, indexes_, meta, catalog_page, running, failed, tables_created>>

Having(n) == {t \in DOMAIN table_names_ : n \in DOMAIN IndexMap(t)}

DropAllIndexes_InfoOnly(n) ==
  /\ Ready("drop index")
  /\ DOMAIN table_names_ \subseteq DOMAIN index_names_
  /\ indexes_' = [id \in DOMAIN indexes_ \ {index_names_[t][n] : t \in Having(n)} |-> indexes_[id]]
  /\ wanted' = [t \in DOMAIN wanted |-> wanted[t] \ {n}]
  /\ UNCHANGED <<table_names_, tables_, index_names_, meta, catalog_page, running, failed, tables_created>>

DropAllIndexes(n) ==
  /\ Ready("drop index")
  /\ DOMAIN table_names_ \subseteq DOMAIN index_names_
  /\ indexes_' = [id \in DOMAIN indexes_ \ {index_names_[t][n] : t \in Having(n)} |-> indexes_[id]]
  /\ index_names_' = [t \in DOMAIN index_names_ |->
                        IF t \in Having(n) THEN Erase(index_names_[t], n) ELSE index_names_[t]]
  /\ wanted' = [t \in DOMAIN wanted |-> wanted[t] \ {n}]
  /\ UNCHANGED <<table_names_, tables_, meta, catalog_page, running, failed, tables_created>>

(* Line 368 dereferences index_names_.find(table_name) of a table that has
   no entry: end()->second is not a map, and the process dies. *)
DropAllIndexesFails(n) ==
  /\ Ready("drop index")
  /\ ~(DOMAIN table_names_ \subseteq DOMAIN index_names_)
  /\ failed' = TRUE
  /\ UNCHANGED <<memory, meta, catalog_page, running, tables_created, wanted>>

(* ~CatalogManager: FlushCatalogMetaPage, then the maps are gone. *)
Fits == Cardinality(DOMAIN table_meta_pages_) + Cardinality(DOMAIN index_meta_pages_) <= MetaSlots

Close_TablesOnly ==
  /\ Ready("reopen") /\ Fits
  /\ catalog_page' = [catalog_page EXCEPT !.tables = DOMAIN table_meta_pages_]
  /\ running' = FALSE
  /\ table_names_' = NoMap /\ tables_' = NoMap /\ index_names_' = NoMap /\ indexes_' = NoMap
  /\ UNCHANGED <<meta, failed, tables_created, wanted>>

Close ==
  /\ Ready("reopen") /\ Fits
  /\ catalog_page' = [tables |-> DOMAIN table_meta_pages_, indexes |-> DOMAIN index_meta_pages_]
  /\ running' = FALSE
  /\ table_names_' = NoMap /\ tables_' = NoMap /\ index_names_' = NoMap /\ indexes_' = NoMap
  /\ UNCHANGED <<meta, failed, tables_created, wanted>>

(* The entries are loaded in the order of their ids: of two with the same
   name the last one stays. *)
LastNamed(pages, ids) ==
  [x \in {pages[id].name : id \in ids} |-> Max({id \in ids : pages[id].name = x})]

Open ==
  LET tids == catalog_page.tables
      iids == catalog_page.indexes
      TableOf(id) == index_meta_pages_[id].table
      NameOfTable(id) == table_meta_pages_[TableOf(id)].name
  IN  /\ ~running /\ ~failed
      /\ running' = TRUE
      /\ tables_' = [id \in tids |-> table_meta_pages_[id].born]
      /\ table_names_' = LastNamed(table_meta_pages_, tids)
      /\ indexes_' = [id \in iids |-> [madeFor |-> index_meta_pages_[id].madeFor,
                                       filledFrom |-> table_meta_pages_[TableOf(id)].born]]
      /\ index_names_' = [t \in {NameOfTable(id) : id \in iids} |->
                            LastNamed(index_meta_pages_, {id \in iids : NameOfTable(id) = t})]
      /\ table_meta_pages_' = [id \in tids |-> table_meta_pages_[id]]
      /\ index_meta_pages_' = [id \in iids |-> index_meta_pages_[id]]
      /\ UNCHANGED <<catalog_page, failed, tables_created, wanted>>

Statement ==
  \/ \E t \in TableNames :
       \/ \E unique \in SUBSET UniqueColumns : CreateTable(t, unique)
       \/ \E n \in IndexNames : CreateIndex(t, n)
       \/ GetTableIndexes(t) \/ DropTable(t)
  \/ \E n \in IndexNames : DropAllIndexes(n) \/ DropAllIndexesFails(n)

-----------------------------------------------------------------------------
(* Every map has its type, and the ids of the metadata pages are dense. *)
CatalogTypeOK ==
  LET tids == DOMAIN table_meta_pages_
      iids == DOMAIN index_meta_pages_
  IN  /\ tids = 0 .. Cardinality(tids) - 1 /\ iids = 0 .. Cardinality(iids) - 1
      /\ DOMAIN table_names_ \subseteq TableNames /\ DOMAIN index_names_ \subseteq TableNames
      /\ \A t \in DOMAIN index_names_ : DOMAIN index_names_[t] \subseteq IndexNames
      /\ DOMAIN tables_ \subseteq tids /\ DOMAIN indexes_ \subseteq iids
      /\ \A id \in DOMAIN tables_ : tables_[id] \in 1 .. tables_created
      /\ DOMAIN wanted \subseteq TableNames

(* The lookups that log an "Unknown Error" (GetTable, GetTables, CreateIndex,
   GetTableIndexes, DropAllIndexes) never do: a name that is known leads to
   an object that is there, through every order of creating, dropping and
   loading. *)
NamesKnown ==
  /\ \A t \in DOMAIN table_names_ : table_names_[t] \in DOMAIN tables_
  /\ \A t \in DOMAIN table_names_ \cap DOMAIN index_names_ :
       \A n \in DOMAIN index_names_[t] : index_names_[t][n] \in DOMAIN indexes_

(* An index is filled from the table it was created for, also when the
   catalog is loaded after that table was dropped and another one has its
   name: table ids are not used again (GetNextTableId, catalog.h). *)
FilledFromItsTable == \A id \in DOMAIN indexes_ : indexes_[id].madeFor = indexes_[id].filledFrom

(* GetTable and GetTableIndexes find the tables and the indexes that were
   created and not dropped, and no other. *)
CatalogExact ==
  running /\ ~failed =>
    /\ DOMAIN table_names_ = DOMAIN wanted
    /\ \A t \in DOMAIN wanted : DOMAIN IndexMap(t) = wanted[t]

(* The indexes a statement on a table uses are indexes of that table, not of
   one that had its name before. *)
IndexesOfTable ==
  \A t \in DOMAIN table_names_ : \A n \in DOMAIN IndexMap(t) :
    IndexMap(t)[n] \in DOMAIN indexes_ => indexes_[IndexMap(t)[n]].madeFor = tables_[table_names_[t]]

(* DropAllIndexes returns, whatever tables there are. *)
DropIndexReturns == ~failed

(* The assertion of SerializeTo: the catalog fits into its page when the
   tables and indexes that exist do. *)
CatalogFits == MaxLive <= MetaSlots => Fits
=============================================================================
