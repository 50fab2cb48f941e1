---------------------------- MODULE KernelProofs ----------------------------
(***************************************************************************)
(* Proofs about Kernel, for any databases, tables and indexes and for any  *)
(* sessions: the databases of the process first, then the catalog.         *)
(***************************************************************************)
EXTENDS Kernel, TLAPS, FiniteSetTheorems, SequenceTheorems, WellFoundedInduction

-----------------------------------------------------------------------------
(* The databases                                                           *)

(* What a step of the kernel is to the databases: a step of ExecuteEngine,
   or a table statement, after which the process may be dead. *)
LEMMA EngineSteps ==
  ASSUME [Next]_vars
  PROVE  \/ EngineNext /\ (~EndsUnclosed => ~Kill /\ ~QuitInFile)
         \/ TableStatement
         \/ UNCHANGED engineVars
<1> USE DEF EndsUnclosed
<1>1. CASE EndsUnclosed /\ EngineNext
  BY <1>1
<1>2. CASE TableStatement
  BY <1>2
<1>3. CASE CreatesCatalog
  BY <1>3, KernelAssumption DEF CreatesCatalog, EngineNext, CreateDatabase, Kill, QuitInFile
<1>4. CASE ClosesCatalog
  BY <1>4, KernelAssumption DEF ClosesCatalog, EngineNext, Kill, QuitInFile
<1>5. CASE OpensCatalog
  BY <1>5 DEF OpensCatalog, EngineNext, Kill, QuitInFile
<1>6. CASE OtherStep
  BY <1>6 DEF OtherStep, EngineNext, Kill, QuitInFile
<1>7. CASE UNCHANGED vars
  BY <1>7 DEF vars
<1> QED
  BY <1>1, <1>2, <1>3, <1>4, <1>5, <1>6, <1>7 DEF Next

(* The habits of a behaviour never change. *)
LEMMA SameClient == [Next]_vars => client' = client
  BY DEF Next, vars

(* What the induction needs beside the types: a database that was created
   has a file, and a running process has loaded it. *)
CreatedHasFile ==
  /\ EngineTypeOK
  /\ created \subseteq {d \in Databases : file[d] # "absent"}
  /\ CreatedLoaded

LEMMA CreatedHasFileInit == Init => CreatedHasFile
  BY DEF Init, EngineInit, CreatedHasFile, EngineTypeOK, CreatedLoaded, NoDatabase

LEMMA CreatedHasFileStep == CreatedHasFile /\ [Next]_vars => CreatedHasFile'
<1> SUFFICES ASSUME CreatedHasFile, [Next]_vars PROVE CreatedHasFile'
  OBVIOUS
<1> USE DEF CreatedHasFile, EngineTypeOK, CreatedLoaded
<1>1. ASSUME NEW d \in Databases, CreateDatabase(d) PROVE CreatedHasFile'
  BY <1>1 DEF CreateDatabase, Executing
<1>2. ASSUME NEW d \in Databases, DropDatabase(d) PROVE CreatedHasFile'
  BY <1>2 DEF DropDatabase, Executing
<1>3. ASSUME NEW d \in Databases, UseDatabase(d) PROVE CreatedHasFile'
  BY <1>3 DEF UseDatabase, Executing
<1>4. CASE StatementWithoutEngine
  BY <1>4 DEF StatementWithoutEngine
<1>5. CASE Quit
  BY <1>5 DEF Quit, Executing, Written
<1>6. CASE QuitWithoutDatabase
  BY <1>6 DEF QuitWithoutDatabase
<1>7. CASE EndOfInput
  BY <1>7 DEF EndOfInput, Written
<1>8. CASE Kill
  BY <1>8 DEF Kill
<1>9. CASE Start
  BY <1>9 DEF Start, NoDatabase
<1>10. CASE TableStatement
  BY <1>10 DEF TableStatement
<1>11. CASE UNCHANGED engineVars
  BY <1>11 DEF engineVars
<1>12. CASE RowStatementWithoutDatabase
  BY <1>12 DEF RowStatementWithoutDatabase
<1>13. CASE QuitInFile
  BY <1>13 DEF QuitInFile
<1> QED
  BY EngineSteps, <1>1, <1>2, <1>3, <1>4, <1>5, <1>6, <1>7, <1>8, <1>9, <1>10, <1>11, <1>12, <1>13
     DEF EngineNext

(* A session that starts has every database that was created and not
   dropped (the constructor reads the directory), through kills and faults. *)
THEOREM CreatedLoadedSafe == Spec => []CreatedLoaded
<1>1. CreatedHasFile => CreatedLoaded
  BY DEF CreatedHasFile
<1> QED
  BY <1>1, CreatedHasFileInit, CreatedHasFileStep, PTL DEF Spec

(* For a careful client whose process ends by its destructors: a file that was not written yet
   belongs to a storage engine of the running process, and the selected
   database has a storage engine. *)
FreshIsOpen ==
  /\ NeverDies
  /\ process = "running" => HasContext /\ \A d \in Databases : file[d] = "fresh" => d \in dbs_
  /\ process = "stopped" => \A d \in Databases : file[d] # "fresh"

EngineInv == CreatedHasFile /\ (Careful /\ ~EndsUnclosed => FreshIsOpen)

LEMMA EngineInvInit == Init => EngineInv
  BY CreatedHasFileInit DEF Init, EngineInit, EngineInv, FreshIsOpen, NeverDies, HasContext

LEMMA EngineInvStep == EngineInv /\ [Next]_vars => EngineInv'
<1> SUFFICES ASSUME EngineInv, [Next]_vars, Careful, ~EndsUnclosed, FreshIsOpen
             PROVE  FreshIsOpen'
  BY CreatedHasFileStep, SameClient DEF EngineInv, Careful, EndsUnclosed
<1>a. EngineTypeOK
  BY DEF EngineInv, CreatedHasFile
<1> USE <1>a DEF FreshIsOpen, NeverDies, HasContext, Executing, EngineTypeOK
<1>1. ASSUME NEW d \in Databases, CreateDatabase(d) PROVE FreshIsOpen'
  BY <1>1 DEF CreateDatabase
<1>2. ASSUME NEW d \in Databases, DropDatabase(d) PROVE FreshIsOpen'
  BY <1>2 DEF DropDatabase
<1>3. ASSUME NEW d \in Databases, UseDatabase(d) PROVE FreshIsOpen'
  BY <1>3 DEF UseDatabase
<1>4. CASE StatementWithoutEngine
  BY <1>4 DEF StatementWithoutEngine
<1>5. CASE Quit
  BY <1>5 DEF Quit, Written
<1>6. CASE QuitWithoutDatabase
  BY <1>6 DEF QuitWithoutDatabase
<1>7. CASE EndOfInput
  BY <1>7 DEF EndOfInput, Written
<1>8. CASE Start
  BY <1>8 DEF Start, NoDatabase
<1>9. CASE TableStatement
  BY <1>9 DEF TableStatement
<1>10. CASE UNCHANGED engineVars
  BY <1>10 DEF engineVars
<1>11. CASE RowStatementWithoutDatabase
  BY <1>11 DEF RowStatementWithoutDatabase
<1> QED
  BY EngineSteps, <1>1, <1>2, <1>3, <1>4, <1>5, <1>6, <1>7, <1>8, <1>9, <1>10, <1>11
     DEF EngineNext

(* A client that selects a database before it works on rows or quits, keeps
   the selected one and executes no file with a QUIT, in a process that is
   not killed, never meets a database without a storage engine, nor files
   that cannot be loaded, and the next process can load what it created. *)
THEOREM CarefulNeverDies == Spec => []NeverDiesCareful
<1>1. EngineInv => NeverDiesCareful
  BY DEF EngineInv, FreshIsOpen, CreatedHasFile, CreatedSurvive, NeverDiesCareful, EngineTypeOK
<1> QED
  BY <1>1, EngineInvInit, EngineInvStep, PTL DEF Spec

-----------------------------------------------------------------------------
(* Numbers and sequences                                                   *)

(* A set of numbers with an upper bound has a largest element. *)
LEMMA MaxIsMember ==
  ASSUME NEW b \in Nat, NEW S \in SUBSET (0 .. b), S # {}
  PROVE  Max(S) \in S /\ \A x \in S : x <= Max(S)
<1> DEFINE R == {b - x : x \in S}
<1>a. \A x \in S : x \in Nat /\ b - x \in Nat
  OBVIOUS
<1>b. \E x : x \in S
  OBVIOUS
<1>1. R \subseteq Nat /\ R # {} /\ S \subseteq Nat
  BY <1>a, <1>b
<1>2. PICK r \in R : \A y \in R : ~(<<y, r>> \in OpToRel(<, Nat))
  BY <1>1, WFMin, NatLessThanWellFounded
<1>3. PICK m \in S : r = b - m
  BY <1>2
<1>4. ASSUME NEW x \in S PROVE x <= m
  <2> SUFFICES ASSUME x > m PROVE FALSE
    BY <1>1
  <2>1. b - x \in R /\ b - x \in Nat /\ r \in Nat /\ b - x < r
    BY <1>1, <1>3
  <2>2. <<b - x, r>> \in OpToRel(<, Nat)
    BY <2>1 DEF OpToRel
  <2> QED BY <1>2, <2>1, <2>2
<1>5. \E m2 \in S : \A y \in S : m2 >= y
  BY <1>1, <1>4
<1>6. Max(S) \in S /\ \A y \in S : Max(S) >= y
  BY <1>5 DEF Max
<1> QED
  BY <1>1, <1>6

(* The ids given so far: 0 up to one below the next. *)
Dense(ids) == \E k \in Nat : ids = 0 .. k - 1

(* GetNextId gives the first id that was never given. *)
LEMMA NextIdIs ==
  ASSUME NEW pages, NEW k \in Nat, DOMAIN pages = 0 .. k - 1
  PROVE  GetNextId(pages) = k
<1>1. CASE k = 0
  BY <1>1 DEF GetNextId
<1>2. CASE k # 0
  <2>1. k - 1 \in DOMAIN pages /\ DOMAIN pages # {} /\ DOMAIN pages \in SUBSET (0 .. k)
    BY <1>2
  <2>2. Max(DOMAIN pages) \in DOMAIN pages /\ \A x \in DOMAIN pages : x <= Max(DOMAIN pages)
    BY <2>1, MaxIsMember
  <2>3. Max(DOMAIN pages) = k - 1
    BY <2>1, <2>2
  <2> QED BY <2>1, <2>3 DEF GetNextId
<1> QED BY <1>1, <1>2

(* SetToSeq lists every element of a finite set once. *)
LEMMA SetToSeqLists ==
  ASSUME NEW S, IsFiniteSet(S)
  PROVE  /\ Len(SetToSeq(S)) \in Nat
         /\ SetToSeq(S) \in [1 .. Len(SetToSeq(S)) -> S]
         /\ \A x \in S : \E i \in 1 .. Len(SetToSeq(S)) : SetToSeq(S)[i] = x
<1> DEFINE n == Cardinality(S)
           f == SetToSeq(S)
<1>1. n \in Nat /\ ExistsBijection(1 .. n, S)
  BY FS_CardinalityType
<1>2. PICK g : g \in Bijection(1 .. n, S)
  BY <1>1 DEF ExistsBijection
<1>3. g \in [1 .. n -> S] /\ IsInjective(g)
  BY <1>2 DEF Bijection, Injection
<1>4. f \in [1 .. n -> S] /\ IsInjective(f)
  BY <1>3 DEF SetToSeq
<1>5. f \in Injection(1 .. n, S)
  BY <1>4 DEF Injection
<1>6. Cardinality(1 .. n) = n
  BY <1>1, FS_Interval
<1>7. f \in Surjection(1 .. n, S)
  BY <1>5, <1>6, FS_Injection
<1>8. \A x \in S : \E i \in 1 .. n : f[i] = x
  BY <1>7 DEF Surjection
<1>9. Len(f) = n
  <2> HIDE DEF f, n
  <2> QED BY <1>1, <1>4, LenProperties
<1> QED
  BY <1>1, <1>4, <1>8, <1>9

-----------------------------------------------------------------------------
(* The catalog                                                             *)

(* The name of the table that the metadata page of an index refers to. *)
Owner(id) == table_meta_pages_[index_meta_pages_[id].table].name

(* The metadata pages: ids are given in order and never again, and the page
   of an index names the table it was made for. *)
PagesOK ==
  /\ Dense(DOMAIN table_meta_pages_) /\ Dense(DOMAIN index_meta_pages_)
  /\ tables_created \in Nat
  /\ \A id \in DOMAIN table_meta_pages_ :
       /\ table_meta_pages_[id].name \in TableNames
       /\ table_meta_pages_[id].born \in 1 .. tables_created
  /\ \A id \in DOMAIN index_meta_pages_ :
       /\ index_meta_pages_[id].name \in IndexNames
       /\ index_meta_pages_[id].table \in DOMAIN table_meta_pages_
       /\ index_meta_pages_[id].madeFor = table_meta_pages_[index_meta_pages_[id].table].born

(* The tables in memory are those of their pages, under the names of those. *)
TablesOK ==
  /\ DOMAIN tables_ \subseteq DOMAIN table_meta_pages_
  /\ \A id \in DOMAIN tables_ : tables_[id] = table_meta_pages_[id].born
  /\ \A t \in DOMAIN table_names_ :
       table_names_[t] \in DOMAIN tables_ /\ table_meta_pages_[table_names_[t]].name = t

(* The same for indexes.  A name that was left behind by a dropped table is
   included: the page under it says of which name and index it is, so that
   erasing one index never takes another one with it. *)
IndexesOK ==
  /\ DOMAIN indexes_ \subseteq DOMAIN index_meta_pages_
  /\ \A id \in DOMAIN indexes_ :
       /\ indexes_[id].madeFor = index_meta_pages_[id].madeFor
       /\ indexes_[id].filledFrom = index_meta_pages_[id].madeFor
  /\ DOMAIN index_names_ \subseteq TableNames
  /\ \A t \in DOMAIN index_names_ : \A n \in DOMAIN index_names_[t] :
       /\ index_names_[t][n] \in DOMAIN indexes_
       /\ index_meta_pages_[index_names_[t][n]].name = n
       /\ Owner(index_names_[t][n]) = t

(* A catalog that is closed is in its page. *)
ClosedOK ==
  ~running => catalog_page = [tables |-> DOMAIN table_meta_pages_, indexes |-> DOMAIN index_meta_pages_]

CatalogInv ==
  PagesOK /\ TablesOK /\ IndexesOK /\ ClosedOK /\ DOMAIN wanted \subseteq TableNames

(* CatalogInv is what NamesResolve needs. *)
LEMMA InvResolves == CatalogInv => NamesResolve
<1> SUFFICES ASSUME CatalogInv PROVE NamesResolve
  OBVIOUS
<1>1. ASSUME NEW ids, Dense(ids) PROVE ids = 0 .. Cardinality(ids) - 1
  <2>1. PICK k \in Nat : ids = 0 .. k - 1
    BY <1>1 DEF Dense
  <2>2. Cardinality(ids) = k
    BY <2>1, FS_Interval
  <2> QED BY <2>1, <2>2
<1>2. /\ DOMAIN table_meta_pages_ = 0 .. Cardinality(DOMAIN table_meta_pages_) - 1
      /\ DOMAIN index_meta_pages_ = 0 .. Cardinality(DOMAIN index_meta_pages_) - 1
  BY <1>1 DEF CatalogInv, PagesOK
<1>3. DOMAIN table_names_ \subseteq TableNames
  BY DEF CatalogInv, PagesOK, TablesOK
<1>4. \A t \in DOMAIN index_names_ : DOMAIN index_names_[t] \subseteq IndexNames
  BY DEF CatalogInv, PagesOK, IndexesOK
<1>5. CatalogTypeOK
  BY <1>2, <1>3, <1>4 DEF CatalogInv, PagesOK, TablesOK, IndexesOK, CatalogTypeOK
<1>6. NamesKnown
  BY DEF CatalogInv, TablesOK, IndexesOK, NamesKnown
<1>7. FilledFromItsTable
  BY DEF CatalogInv, IndexesOK, FilledFromItsTable
<1> QED
  BY <1>5, <1>6, <1>7 DEF NamesResolve

LEMMA EmptyIsDense == Dense({})
<1>1. {} = 0 .. 0 - 1
  OBVIOUS
<1> QED BY <1>1 DEF Dense

LEMMA CatalogInvInit == CatalogInit => CatalogInv
  BY EmptyIsDense DEF CatalogInit, CatalogInv, PagesOK, TablesOK, IndexesOK, ClosedOK, NoMap

LEMMA CreateInv == CatalogInv /\ Create => CatalogInv'
  BY EmptyIsDense DEF Create, CatalogInv, PagesOK, TablesOK, IndexesOK, ClosedOK, NoMap, Owner

LEMMA CloseInv == CatalogInv /\ Close => CatalogInv'
  BY DEF Close, CatalogInv, PagesOK, TablesOK, IndexesOK, ClosedOK, NoMap, Owner, meta

LEMMA GetTableIndexesInv ==
  ASSUME CatalogInv, NEW t \in TableNames, GetTableIndexes(t)
  PROVE  CatalogInv'
<1>1. PagesOK' /\ TablesOK' /\ ClosedOK' /\ (DOMAIN wanted \subseteq TableNames)'
  BY DEF GetTableIndexes, CatalogInv, PagesOK, TablesOK, ClosedOK, meta
<1>2. IndexesOK'
  BY DEF GetTableIndexes, CatalogInv, IndexesOK, Set, NoMap, Owner, meta
<1> QED BY <1>1, <1>2 DEF CatalogInv

LEMMA DropTableInv ==
  ASSUME CatalogInv, NEW t \in TableNames, DropTable(t)
  PROVE  CatalogInv'
<1>1. UNCHANGED <<index_names_, indexes_, table_meta_pages_, index_meta_pages_, catalog_page,
                  running, tables_created>>
  BY DEF DropTable, meta
<1>2. PagesOK' /\ ClosedOK'
  BY <1>1 DEF CatalogInv, PagesOK, ClosedOK
<1>3. IndexesOK'
  BY <1>1 DEF CatalogInv, IndexesOK, Owner
<1>4. TablesOK'
  BY DEF DropTable, CatalogInv, TablesOK, Erase, meta
<1>5. (DOMAIN wanted \subseteq TableNames)'
  BY DEF DropTable, CatalogInv, Erase
<1> QED BY <1>2, <1>3, <1>4, <1>5 DEF CatalogInv

LEMMA DropAllIndexesInv ==
  ASSUME CatalogInv, NEW n \in IndexNames, DropAllIndexes(n)
  PROVE  CatalogInv'
<1>1. PagesOK' /\ TablesOK' /\ ClosedOK' /\ (DOMAIN wanted \subseteq TableNames)'
  BY DEF DropAllIndexes, CatalogInv, PagesOK, TablesOK, ClosedOK, meta
<1> DEFINE gone == {index_names_[t][n] : t \in Having(n)}
<1>2. \A t \in Having(n) : t \in DOMAIN index_names_ /\ n \in DOMAIN index_names_[t]
  BY DEF Having, IndexMap, NoMap
<1>3. ASSUME NEW t \in DOMAIN index_names_', NEW m \in DOMAIN index_names_'[t]
      PROVE  /\ t \in DOMAIN index_names_ /\ m \in DOMAIN index_names_[t]
             /\ index_names_'[t][m] = index_names_[t][m]
             /\ index_names_[t][m] \notin gone
  <2>1. t \in DOMAIN index_names_ /\ m \in DOMAIN index_names_[t]
        /\ index_names_'[t][m] = index_names_[t][m] /\ (t \in Having(n) => m # n)
    BY DEF DropAllIndexes, Erase
  <2>2. ASSUME NEW u \in Having(n), index_names_[t][m] = index_names_[u][n] PROVE FALSE
    <3>1. m = n /\ t = u
      BY <1>2, <2>1, <2>2 DEF CatalogInv, IndexesOK
    <3> QED BY <2>1, <3>1
  <2> QED BY <2>1, <2>2
<1>4. indexes_' = [id \in DOMAIN indexes_ \ gone |-> indexes_[id]]
  BY DEF DropAllIndexes
<1>5. DOMAIN index_names_' = DOMAIN index_names_ /\ index_meta_pages_' = index_meta_pages_
      /\ table_meta_pages_' = table_meta_pages_
  BY DEF DropAllIndexes, meta
<1>6. IndexesOK'
  <2> HIDE DEF gone
  <2> QED BY <1>3, <1>4, <1>5 DEF CatalogInv, IndexesOK, Owner
<1> QED BY <1>1, <1>6 DEF CatalogInv

(* What AddIndexes does: new ids follow the old ones, each with a name that
   the table did not have, and every name leads to an index of that name. *)
Adds(t, tid, born, names, new) ==
  /\ Dense(DOMAIN index_meta_pages_')
  /\ DOMAIN index_meta_pages_' = DOMAIN index_meta_pages_ \cup new
  /\ DOMAIN indexes_' = DOMAIN indexes_ \cup new
  /\ new \cap DOMAIN index_meta_pages_ = {}
  /\ \A id \in DOMAIN index_meta_pages_ : index_meta_pages_'[id] = index_meta_pages_[id]
  /\ \A id \in DOMAIN indexes_ : indexes_'[id] = indexes_[id]
  /\ \A id \in new :
       /\ index_meta_pages_'[id].name \in names \ DOMAIN IndexMap(t)
       /\ index_meta_pages_'[id].table = tid
       /\ index_meta_pages_'[id].madeFor = born
       /\ indexes_'[id] = [madeFor |-> born, filledFrom |-> born]
  /\ DOMAIN index_names_' = DOMAIN index_names_ \cup {t}
  /\ \A u \in DOMAIN index_names_ : u # t => index_names_'[u] = index_names_[u]
  /\ DOMAIN index_names_'[t] = DOMAIN IndexMap(t) \cup names
  /\ \A n \in DOMAIN IndexMap(t) : index_names_'[t][n] = IndexMap(t)[n]
  /\ \A n \in names \ DOMAIN IndexMap(t) :
       index_names_'[t][n] \in new /\ index_meta_pages_'[index_names_'[t][n]].name = n

LEMMA AddIndexesDoes ==
  ASSUME CatalogInv, NEW t, NEW tid, NEW born, NEW names, IsFiniteSet(names),
         AddIndexes(t, tid, born, names)
  PROVE  \E new : Adds(t, tid, born, names, new)
<1> DEFINE fresh == names \ DOMAIN IndexMap(t)
<1>1. PICK list : list = SetToSeq(fresh)
  OBVIOUS
<1>2. PICK k \in Nat : DOMAIN index_meta_pages_ = 0 .. k - 1
  BY DEF CatalogInv, PagesOK, Dense
<1>3. GetNextId(index_meta_pages_) = k
  BY <1>2, NextIdIs
<1>4. PICK len \in Nat : /\ len = Len(list) /\ list \in [1 .. len -> fresh]
                         /\ \A x \in fresh : \E i \in 1 .. len : list[i] = x
  <2>1. IsFiniteSet(fresh)
    BY FS_Difference
  <2> HIDE DEF fresh
  <2> QED BY <1>1, <2>1, SetToSeqLists
<1> DEFINE new == k .. k + len - 1
<1>5. /\ index_names_' = Set(index_names_, t,
            [n \in DOMAIN IndexMap(t) \cup names |->
               IF n \in DOMAIN IndexMap(t) THEN IndexMap(t)[n]
               ELSE CHOOSE id \in new : list[id - k + 1] = n])
      /\ indexes_' = [id \in DOMAIN indexes_ \cup new |->
            IF id \in new THEN [madeFor |-> born, filledFrom |-> born] ELSE indexes_[id]]
      /\ index_meta_pages_' = [id \in DOMAIN index_meta_pages_ \cup new |->
            IF id \in new THEN [name |-> list[id - k + 1], table |-> tid, madeFor |-> born]
            ELSE index_meta_pages_[id]]
  BY <1>1, <1>3, <1>4 DEF AddIndexes
<1>6. /\ DOMAIN index_meta_pages_' = 0 .. (k + len) - 1
      /\ new \cap DOMAIN index_meta_pages_ = {} /\ DOMAIN indexes_ \subseteq DOMAIN index_meta_pages_
  BY <1>2, <1>5 DEF CatalogInv, IndexesOK
<1>7. Dense(DOMAIN index_meta_pages_')
  <2>1. k + len \in Nat
    BY <1>4
  <2> QED BY <1>6, <2>1 DEF Dense
<1>8. \A id \in new : id - k + 1 \in 1 .. len /\ list[id - k + 1] \in fresh
  BY <1>4
<1>9. \A n \in fresh : \E id \in new : list[id - k + 1] = n
  <2> SUFFICES ASSUME NEW n \in fresh PROVE \E id \in new : list[id - k + 1] = n
    OBVIOUS
  <2>1. PICK i \in 1 .. len : list[i] = n
    BY <1>4
  <2>2. k + i - 1 \in new /\ (k + i - 1) - k + 1 = i
    OBVIOUS
  <2> QED BY <2>1, <2>2
<1>10. DOMAIN index_names_' = DOMAIN index_names_ \cup {t}
       /\ (\A u \in DOMAIN index_names_ : u # t => index_names_'[u] = index_names_[u])
       /\ index_names_'[t] = [n \in DOMAIN IndexMap(t) \cup names |->
               IF n \in DOMAIN IndexMap(t) THEN IndexMap(t)[n]
               ELSE CHOOSE id \in new : list[id - k + 1] = n]
  BY <1>5 DEF Set
<1>11. \A id \in new : /\ index_meta_pages_'[id] = [name |-> list[id - k + 1], table |-> tid, madeFor |-> born]
                       /\ indexes_'[id] = [madeFor |-> born, filledFrom |-> born]
  BY <1>5
<1>12. /\ \A id \in DOMAIN index_meta_pages_ : index_meta_pages_'[id] = index_meta_pages_[id]
       /\ \A id \in DOMAIN indexes_ : indexes_'[id] = indexes_[id]
       /\ DOMAIN index_meta_pages_' = DOMAIN index_meta_pages_ \cup new
       /\ DOMAIN indexes_' = DOMAIN indexes_ \cup new
  BY <1>5, <1>6
<1> HIDE DEF new
<1>13. \A n \in fresh : index_names_'[t][n] \in new /\ list[index_names_'[t][n] - k + 1] = n
  <2> SUFFICES ASSUME NEW n \in fresh
               PROVE  index_names_'[t][n] \in new /\ list[index_names_'[t][n] - k + 1] = n
    OBVIOUS
  <2>1. index_names_'[t][n] = CHOOSE id \in new : list[id - k + 1] = n
    BY <1>10
  <2> QED BY <1>9, <2>1
<1>14. \A id \in new : /\ index_meta_pages_'[id].name = list[id - k + 1]
                       /\ index_meta_pages_'[id].table = tid
                       /\ index_meta_pages_'[id].madeFor = born
  <2> SUFFICES ASSUME NEW id \in new
               PROVE  /\ index_meta_pages_'[id].name = list[id - k + 1]
                      /\ index_meta_pages_'[id].table = tid
                      /\ index_meta_pages_'[id].madeFor = born
    BY Zenon
  <2>1. PICK x : x = list[id - k + 1]
    OBVIOUS
  <2>2. index_meta_pages_'[id] = [name |-> x, table |-> tid, madeFor |-> born]
    BY <1>11, <2>1, Zenon
  <2> QED BY <2>1, <2>2
<1>15. /\ DOMAIN index_names_'[t] = DOMAIN IndexMap(t) \cup names
       /\ \A n \in DOMAIN IndexMap(t) : index_names_'[t][n] = IndexMap(t)[n]
  BY <1>10
<1> HIDE DEF fresh
<1>16. /\ \A id \in new : index_meta_pages_'[id].name \in fresh
       /\ \A n \in fresh : /\ index_names_'[t][n] \in new
                           /\ index_meta_pages_'[index_names_'[t][n]].name = n
  BY <1>8, <1>9, <1>13, <1>14
<1> WITNESS new
<1> QED
  BY <1>6, <1>7, <1>10, <1>11, <1>12, <1>14, <1>15, <1>16 DEF fresh, Adds

(* The metadata pages of tables stay, or one more is added. *)
TablePagesKept ==
  /\ DOMAIN table_meta_pages_ \subseteq DOMAIN table_meta_pages_'
  /\ \A id \in DOMAIN table_meta_pages_ : table_meta_pages_'[id] = table_meta_pages_[id]

(* The metadata pages of indexes are those of PagesOK. *)
IndexPagesOK ==
  \A id \in DOMAIN index_meta_pages_ :
    /\ index_meta_pages_[id].name \in IndexNames
    /\ index_meta_pages_[id].table \in DOMAIN table_meta_pages_
    /\ index_meta_pages_[id].madeFor = table_meta_pages_[index_meta_pages_[id].table].born

LEMMA AddIndexesInv ==
  ASSUME CatalogInv, NEW t \in TableNames, NEW tid, NEW born, NEW names \in SUBSET IndexNames,
         IsFiniteSet(names), AddIndexes(t, tid, born, names), TablePagesKept,
         tid \in DOMAIN table_meta_pages_',
         table_meta_pages_'[tid].name = t, table_meta_pages_'[tid].born = born
  PROVE  Dense(DOMAIN index_meta_pages_') /\ IndexPagesOK' /\ IndexesOK'
<1>1. PICK new : Adds(t, tid, born, names, new)
  BY AddIndexesDoes
<1> USE DEF Adds
<1>2. IndexPagesOK'
  BY <1>1 DEF CatalogInv, PagesOK, TablePagesKept, IndexPagesOK
<1>3. DOMAIN indexes_' \subseteq DOMAIN index_meta_pages_' /\ DOMAIN index_names_' \subseteq TableNames
  BY <1>1 DEF CatalogInv, IndexesOK
<1>4. \A id \in DOMAIN indexes_' :
        /\ indexes_'[id].madeFor = index_meta_pages_'[id].madeFor
        /\ indexes_'[id].filledFrom = index_meta_pages_'[id].madeFor
  BY <1>1 DEF CatalogInv, IndexesOK
<1>5. \A id \in DOMAIN index_meta_pages_ : Owner(id)' = Owner(id)
  BY <1>1 DEF CatalogInv, PagesOK, TablePagesKept, Owner
<1>6. \A id \in new : Owner(id)' = t
  BY <1>1 DEF Owner
<1>7. ASSUME NEW u \in DOMAIN index_names_, NEW n \in DOMAIN index_names_[u]
      PROVE  /\ index_names_[u][n] \in DOMAIN indexes_'
             /\ index_meta_pages_'[index_names_[u][n]].name = n
             /\ table_meta_pages_'[index_meta_pages_'[index_names_[u][n]].table].name = u
  <2>1. PICK id : id = index_names_[u][n]
    OBVIOUS
  <2>2. id \in DOMAIN indexes_ /\ id \in DOMAIN index_meta_pages_ /\ index_meta_pages_[id].name = n
        /\ Owner(id) = u
    BY <2>1 DEF CatalogInv, IndexesOK
  <2>3. id \in DOMAIN indexes_' /\ index_meta_pages_'[id].name = n /\ Owner(id)' = u
    BY <1>1, <1>5, <2>2
  <2> QED BY <2>1, <2>3 DEF Owner
<1>8. ASSUME NEW u \in DOMAIN index_names_', NEW n \in DOMAIN index_names_'[u]
      PROVE  /\ index_names_'[u][n] \in DOMAIN indexes_'
             /\ index_meta_pages_'[index_names_'[u][n]].name = n
             /\ table_meta_pages_'[index_meta_pages_'[index_names_'[u][n]].table].name = u
  <2>1. CASE u # t
    BY <1>1, <1>7, <2>1 DEF Owner
  <2>2. CASE u = t /\ n \in DOMAIN IndexMap(t)
    <3>1. t \in DOMAIN index_names_ /\ n \in DOMAIN index_names_[t] /\ IndexMap(t) = index_names_[t]
      BY <2>2 DEF IndexMap, NoMap
    <3> QED BY <1>1, <1>7, <2>2, <3>1 DEF Owner
  <2>3. CASE u = t /\ n \notin DOMAIN IndexMap(t)
    <3>1. index_names_'[t][n] \in new /\ index_meta_pages_'[index_names_'[t][n]].name = n
      BY <1>1, <2>3
    <3> QED BY <1>1, <2>3, <3>1
  <2> QED BY <2>1, <2>2, <2>3
<1>9. IndexesOK'
  BY <1>3, <1>4, <1>8 DEF IndexesOK, Owner
<1> QED
  BY <1>1, <1>2, <1>9

LEMMA CreateIndexInv ==
  ASSUME CatalogInv, NEW t \in TableNames, NEW n \in IndexNames, CreateIndex(t, n)
  PROVE  CatalogInv'
<1>1. PICK id, born : id = table_names_[t] /\ born = tables_[id]
  OBVIOUS
<1>2. AddIndexes(t, id, born, {n}) /\ t \in DOMAIN table_names_
  BY <1>1 DEF CreateIndex
<1>3. UNCHANGED <<table_names_, tables_, table_meta_pages_, catalog_page, running, tables_created>>
      /\ running /\ DOMAIN wanted' = DOMAIN wanted
  BY DEF CreateIndex, Ready
<1>4. /\ id \in DOMAIN table_meta_pages_' /\ table_meta_pages_'[id].name = t
      /\ table_meta_pages_'[id].born = born /\ TablePagesKept
  BY <1>1, <1>2, <1>3 DEF CatalogInv, TablesOK, TablePagesKept
<1>5. IsFiniteSet({n}) /\ {n} \in SUBSET IndexNames
  BY FS_Singleton
<1>6. Dense(DOMAIN index_meta_pages_') /\ IndexPagesOK' /\ IndexesOK'
  BY <1>2, <1>4, <1>5, AddIndexesInv
<1>7. PagesOK'
  BY <1>3, <1>6 DEF CatalogInv, PagesOK, IndexPagesOK
<1>8. TablesOK' /\ ClosedOK' /\ (DOMAIN wanted \subseteq TableNames)'
  BY <1>3 DEF CatalogInv, TablesOK, ClosedOK
<1> QED
  BY <1>6, <1>7, <1>8 DEF CatalogInv

(* What CreateTable does to the tables. *)
LEMMA CreateTableDoes ==
  ASSUME CatalogInv, NEW t \in TableNames, NEW unique \in SUBSET UniqueColumns,
         CreateTable(t, unique)
  PROVE  \E id, born :
         /\ id \notin DOMAIN table_meta_pages_ /\ Dense(DOMAIN table_meta_pages_')
         /\ DOMAIN table_meta_pages_' = DOMAIN table_meta_pages_ \cup {id} /\ TablePagesKept
         /\ table_meta_pages_'[id].name = t /\ table_meta_pages_'[id].born = born
         /\ born = tables_created + 1 /\ tables_created' = born
         /\ TablesOK'
         /\ IF unique = {} THEN UNCHANGED <<index_names_, indexes_, index_meta_pages_>>
                           ELSE AddIndexes(t, id, born, unique)
<1>1. PICK k \in Nat : DOMAIN table_meta_pages_ = 0 .. k - 1
  BY DEF CatalogInv, PagesOK, Dense
<1>2. GetNextId(table_meta_pages_) = k
  BY <1>1, NextIdIs
<1>3. PICK born : born = tables_created + 1
  OBVIOUS
<1>4. /\ tables_created' = born
      /\ table_names_' = Set(table_names_, t, k)
      /\ tables_' = Set(tables_, k, born)
      /\ table_meta_pages_' = Set(table_meta_pages_, k, [name |-> t, born |-> born])
      /\ IF unique = {} THEN UNCHANGED <<index_names_, indexes_, index_meta_pages_>>
                        ELSE AddIndexes(t, k, born, unique)
  BY <1>2, <1>3 DEF CreateTable
<1>5. /\ k \notin DOMAIN table_meta_pages_
      /\ DOMAIN table_meta_pages_' = DOMAIN table_meta_pages_ \cup {k}
      /\ DOMAIN table_meta_pages_' = 0 .. (k + 1) - 1
  BY <1>1, <1>4 DEF Set
<1>6. Dense(DOMAIN table_meta_pages_')
  <2>1. k + 1 \in Nat
    OBVIOUS
  <2> QED BY <1>5, <2>1 DEF Dense
<1>7. table_meta_pages_'[k] = [name |-> t, born |-> born] /\ TablePagesKept
  BY <1>4, <1>5 DEF Set, TablePagesKept
<1>8. TablesOK'
  <2>1. DOMAIN tables_' \subseteq DOMAIN table_meta_pages_'
    BY <1>4, <1>5 DEF CatalogInv, TablesOK, Set
  <2>2. \A id \in DOMAIN tables_' : tables_'[id] = table_meta_pages_'[id].born
    BY <1>4, <1>5, <1>7 DEF CatalogInv, TablesOK, Set, TablePagesKept
  <2>3. \A u \in DOMAIN table_names_' :
          table_names_'[u] \in DOMAIN tables_' /\ table_meta_pages_'[table_names_'[u]].name = u
    BY <1>4, <1>5, <1>7 DEF CatalogInv, TablesOK, Set, TablePagesKept
  <2> QED BY <2>1, <2>2, <2>3 DEF TablesOK
<1> WITNESS k, born
<1> QED
  BY <1>3, <1>4, <1>5, <1>6, <1>7, <1>8

LEMMA CreateTableInv ==
  ASSUME CatalogInv, NEW t \in TableNames, NEW unique \in SUBSET UniqueColumns,
         CreateTable(t, unique)
  PROVE  CatalogInv'
<1>1. PICK id, born :
         /\ id \notin DOMAIN table_meta_pages_ /\ Dense(DOMAIN table_meta_pages_')
         /\ DOMAIN table_meta_pages_' = DOMAIN table_meta_pages_ \cup {id} /\ TablePagesKept
         /\ table_meta_pages_'[id].name = t /\ table_meta_pages_'[id].born = born
         /\ born = tables_created + 1 /\ tables_created' = born
         /\ TablesOK'
         /\ IF unique = {} THEN UNCHANGED <<index_names_, indexes_, index_meta_pages_>>
                           ELSE AddIndexes(t, id, born, unique)
  BY CreateTableDoes, Zenon
<1>2. running /\ running' /\ DOMAIN wanted' = DOMAIN wanted \cup {t}
  BY DEF CreateTable, Ready, Set
<1>3. Dense(DOMAIN index_meta_pages_') /\ IndexPagesOK' /\ IndexesOK'
  <2>1. CASE unique # {}
    <3>1. unique \in SUBSET IndexNames /\ IsFiniteSet(unique)
      BY KernelAssumption, FS_Subset
    <3> QED BY <1>1, <2>1, <3>1, AddIndexesInv
  <2>2. CASE unique = {}
    <3>1. UNCHANGED <<index_names_, indexes_, index_meta_pages_>>
      BY <1>1, <2>2
    <3>2. IndexPagesOK' /\ Dense(DOMAIN index_meta_pages_')
      BY <1>1, <3>1 DEF CatalogInv, PagesOK, IndexPagesOK, TablePagesKept
    <3>3. \A i \in DOMAIN index_meta_pages_ : Owner(i)' = Owner(i)
      BY <1>1, <3>1 DEF CatalogInv, PagesOK, TablePagesKept, Owner
    <3>4. IndexesOK'
      BY <3>1, <3>3 DEF CatalogInv, IndexesOK, Owner
    <3> QED BY <3>2, <3>4
  <2> QED BY <2>1, <2>2
<1>4. born \in Nat /\ born >= 1 /\ tables_created \in Nat /\ tables_created <= born
  BY <1>1 DEF CatalogInv, PagesOK
<1>5. \A i \in DOMAIN table_meta_pages_' :
        /\ table_meta_pages_'[i].name \in TableNames
        /\ table_meta_pages_'[i].born \in 1 .. tables_created'
  BY <1>1, <1>4 DEF CatalogInv, PagesOK, TablePagesKept
<1>6. PagesOK'
  BY <1>1, <1>3, <1>4, <1>5 DEF PagesOK, IndexPagesOK
<1> QED
  BY <1>1, <1>2, <1>3, <1>6 DEF CatalogInv, ClosedOK

(* Of several entries with a name, loading keeps one that has the name. *)
LEMMA LastNamedIs ==
  ASSUME NEW pages, Dense(DOMAIN pages), NEW ids \in SUBSET DOMAIN pages
  PROVE  /\ DOMAIN LastNamed(pages, ids) = {pages[id].name : id \in ids}
         /\ \A x \in DOMAIN LastNamed(pages, ids) :
              LastNamed(pages, ids)[x] \in ids /\ pages[LastNamed(pages, ids)[x]].name = x
<1>1. PICK k \in Nat : DOMAIN pages = 0 .. k - 1
  BY DEF Dense
<1>2. DOMAIN LastNamed(pages, ids) = {pages[id].name : id \in ids}
  BY DEF LastNamed
<1>3. ASSUME NEW x \in DOMAIN LastNamed(pages, ids)
      PROVE  LastNamed(pages, ids)[x] \in ids /\ pages[LastNamed(pages, ids)[x]].name = x
  <2> DEFINE S == {id \in ids : pages[id].name = x}
  <2>1. S # {} /\ S \in SUBSET (0 .. k)
    BY <1>1, <1>2
  <2>2. LastNamed(pages, ids)[x] = Max(S)
    BY <1>2 DEF LastNamed
  <2>3. Max(S) \in S
    <3> HIDE DEF S
    <3> QED BY <2>1, MaxIsMember
  <2> QED BY <2>2, <2>3
<1> QED BY <1>2, <1>3

(* What Open does to a catalog that was closed: every page is loaded. *)
LEMMA OpenDoes ==
  ASSUME CatalogInv, Open
  PROVE  /\ tables_' = [id \in DOMAIN table_meta_pages_ |-> table_meta_pages_[id].born]
         /\ table_names_' = LastNamed(table_meta_pages_, DOMAIN table_meta_pages_)
         /\ DOMAIN indexes_' = DOMAIN index_meta_pages_
         /\ \A id \in DOMAIN index_meta_pages_ :
              /\ indexes_'[id].madeFor = index_meta_pages_[id].madeFor
              /\ indexes_'[id].filledFrom = index_meta_pages_[id].madeFor
         /\ index_names_' = [t \in {Owner(id) : id \in DOMAIN index_meta_pages_} |->
              LastNamed(index_meta_pages_, {id \in DOMAIN index_meta_pages_ : Owner(id) = t})]
         /\ DOMAIN table_meta_pages_' = DOMAIN table_meta_pages_
         /\ DOMAIN index_meta_pages_' = DOMAIN index_meta_pages_
         /\ \A id \in DOMAIN table_meta_pages_ : table_meta_pages_'[id] = table_meta_pages_[id]
         /\ \A id \in DOMAIN index_meta_pages_ : index_meta_pages_'[id] = index_meta_pages_[id]
         /\ UNCHANGED <<tables_created, wanted>> /\ running' = TRUE /\ ~running
<1>1. catalog_page.tables = DOMAIN table_meta_pages_ /\ catalog_page.indexes = DOMAIN index_meta_pages_
      /\ ~running
  BY DEF Open, CatalogInv, ClosedOK
<1>2. tables_' = [id \in DOMAIN table_meta_pages_ |-> table_meta_pages_[id].born]
      /\ table_names_' = LastNamed(table_meta_pages_, DOMAIN table_meta_pages_)
  BY <1>1 DEF Open
<1>3. indexes_' = [id \in DOMAIN index_meta_pages_ |->
         [madeFor |-> index_meta_pages_[id].madeFor,
          filledFrom |-> table_meta_pages_[index_meta_pages_[id].table].born]]
  BY <1>1 DEF Open
<1>4. \A id \in DOMAIN index_meta_pages_ :
        index_meta_pages_[id].madeFor = table_meta_pages_[index_meta_pages_[id].table].born
  BY DEF CatalogInv, PagesOK
<1>5. \A id \in DOMAIN index_meta_pages_ :
              /\ indexes_'[id].madeFor = index_meta_pages_[id].madeFor
              /\ indexes_'[id].filledFrom = index_meta_pages_[id].madeFor
  BY <1>3, <1>4
<1>6. index_names_' = [t \in {Owner(id) : id \in DOMAIN index_meta_pages_} |->
        LastNamed(index_meta_pages_, {id \in DOMAIN index_meta_pages_ : Owner(id) = t})]
  BY <1>1 DEF Open, Owner
<1>7. table_meta_pages_' = [id \in DOMAIN table_meta_pages_ |-> table_meta_pages_[id]]
      /\ index_meta_pages_' = [id \in DOMAIN index_meta_pages_ |-> index_meta_pages_[id]]
  BY <1>1 DEF Open
<1>8. UNCHANGED <<tables_created, wanted>> /\ running' = TRUE
  BY DEF Open
<1> QED
  BY <1>1, <1>2, <1>3, <1>5, <1>6, <1>7, <1>8

LEMMA OpenInv ==
  ASSUME CatalogInv, Open
  PROVE  CatalogInv'
<1>1. /\ DOMAIN table_meta_pages_' = DOMAIN table_meta_pages_
      /\ DOMAIN index_meta_pages_' = DOMAIN index_meta_pages_
      /\ \A id \in DOMAIN table_meta_pages_ : table_meta_pages_'[id] = table_meta_pages_[id]
      /\ \A id \in DOMAIN index_meta_pages_ : index_meta_pages_'[id] = index_meta_pages_[id]
      /\ UNCHANGED <<tables_created, wanted>> /\ running' = TRUE
  BY OpenDoes
<1>2. PagesOK'
  BY <1>1 DEF CatalogInv, PagesOK
<1>3. TablesOK'
  <2>1. tables_' = [id \in DOMAIN table_meta_pages_ |-> table_meta_pages_[id].born]
        /\ table_names_' = LastNamed(table_meta_pages_, DOMAIN table_meta_pages_)
    BY OpenDoes
  <2>2. \A x \in DOMAIN table_names_' :
          table_names_'[x] \in DOMAIN table_meta_pages_ /\ table_meta_pages_[table_names_'[x]].name = x
    <3>1. Dense(DOMAIN table_meta_pages_)
      BY DEF CatalogInv, PagesOK
    <3> QED BY <2>1, <3>1, LastNamedIs
  <2> QED BY <1>1, <2>1, <2>2 DEF TablesOK
<1>4. ASSUME NEW t \in DOMAIN index_names_', NEW n \in DOMAIN index_names_'[t]
      PROVE  /\ index_names_'[t][n] \in DOMAIN index_meta_pages_
             /\ index_meta_pages_[index_names_'[t][n]].name = n
             /\ Owner(index_names_'[t][n]) = t
  <2> DEFINE ids == {id \in DOMAIN index_meta_pages_ : Owner(id) = t}
  <2>1. index_names_'[t] = LastNamed(index_meta_pages_, ids)
    BY OpenDoes
  <2>2. Dense(DOMAIN index_meta_pages_) /\ ids \in SUBSET DOMAIN index_meta_pages_
    BY DEF CatalogInv, PagesOK
  <2>3. index_names_'[t][n] \in ids /\ index_meta_pages_[index_names_'[t][n]].name = n
    <3> HIDE DEF ids
    <3>1. \A x \in DOMAIN LastNamed(index_meta_pages_, ids) :
            /\ LastNamed(index_meta_pages_, ids)[x] \in ids
            /\ index_meta_pages_[LastNamed(index_meta_pages_, ids)[x]].name = x
      BY <2>2, LastNamedIs
    <3> QED BY <2>1, <3>1
  <2> QED BY <2>3
<1>5. DOMAIN index_names_' = {Owner(id) : id \in DOMAIN index_meta_pages_}
  BY OpenDoes
<1>6. DOMAIN index_names_' \subseteq TableNames
  BY <1>5 DEF CatalogInv, PagesOK, Owner
<1>7. /\ DOMAIN indexes_' = DOMAIN index_meta_pages_
      /\ \A id \in DOMAIN index_meta_pages_ :
           /\ indexes_'[id].madeFor = index_meta_pages_[id].madeFor
           /\ indexes_'[id].filledFrom = index_meta_pages_[id].madeFor
  BY OpenDoes
<1>8. ASSUME NEW id \in DOMAIN index_meta_pages_
      PROVE  table_meta_pages_'[index_meta_pages_'[id].table].name = Owner(id)
  <2>1. index_meta_pages_[id].table \in DOMAIN table_meta_pages_
    BY DEF CatalogInv, PagesOK
  <2> QED BY <1>1, <2>1 DEF Owner
<1>9. IndexesOK'
  <2>1. \A t \in DOMAIN index_names_' : \A n \in DOMAIN index_names_'[t] :
          /\ index_names_'[t][n] \in DOMAIN indexes_'
          /\ index_meta_pages_'[index_names_'[t][n]].name = n
          /\ table_meta_pages_'[index_meta_pages_'[index_names_'[t][n]].table].name = t
    BY <1>1, <1>4, <1>7, <1>8
  <2> QED BY <1>1, <1>6, <1>7, <2>1 DEF IndexesOK, Owner
<1> QED
  BY <1>1, <1>2, <1>3, <1>9 DEF CatalogInv, ClosedOK

(* What a step of the kernel is to the catalog. *)
LEMMA CatalogSteps ==
  ASSUME [Next]_vars
  PROVE  Create \/ Statement \/ Close \/ Open \/ UNCHANGED catalogVars
  BY DEF Next, vars, TableStatement, CreatesCatalog, ClosesCatalog, OpensCatalog, OtherStep

LEMMA CatalogInvStep == CatalogInv /\ [Next]_vars => CatalogInv'
<1> SUFFICES ASSUME CatalogInv, [Next]_vars PROVE CatalogInv'
  OBVIOUS
<1>1. ASSUME NEW n \in IndexNames, DropAllIndexesFails(n) PROVE CatalogInv'
  <2>1. UNCHANGED <<memory, meta, catalog_page, running, tables_created, wanted>>
    BY <1>1 DEF DropAllIndexesFails
  <2> QED BY <2>1 DEF CatalogInv, PagesOK, TablesOK, IndexesOK, ClosedOK, Owner, memory, meta
<1>2. CASE UNCHANGED catalogVars
  BY <1>2 DEF catalogVars, CatalogInv, PagesOK, TablesOK, IndexesOK, ClosedOK, Owner, memory, meta
<1>3. CASE Statement
  BY <1>1, <1>3, CreateTableInv, CreateIndexInv, GetTableIndexesInv, DropTableInv, DropAllIndexesInv
     DEF Statement
<1> QED
  BY <1>2, <1>3, CatalogSteps, CreateInv, CloseInv, OpenInv

(* Whatever tables and indexes are created, dropped and loaded, a name that
   the catalog knows leads to an object that is there, and no index is
   filled from the rows of a table that only has the name of its own. *)
THEOREM NamesResolveSafe == Spec => []NamesResolve
<1>1. Init => CatalogInv
  BY CatalogInvInit DEF Init
<1> QED
  BY <1>1, CatalogInvStep, InvResolves, PTL DEF Spec

(* The sessions of CatalogExactKept. *)
KeepsCatalog == "drop table" \notin client /\ ~({"drop index", "reopen"} \subseteq client)

IndexesOfName(t) == {id \in DOMAIN index_meta_pages_ : Owner(id) = t}
Known(t) == DOMAIN IndexMap(t)
NamesIn(t) == {index_meta_pages_[id].name : id \in IndexesOfName(t)}

(* In such sessions no two pages are of tables with one name, and what the
   client has is what the pages say: of tables always, of indexes while none
   is dropped.  A session that drops indexes never closes the catalog. *)
OneName ==
  \A i, j \in DOMAIN table_meta_pages_ :
    table_meta_pages_[i].name = table_meta_pages_[j].name => i = j

TablesWanted ==
  \A t : t \in DOMAIN wanted <=> \E id \in DOMAIN table_meta_pages_ : table_meta_pages_[id].name = t

IndexesWanted ==
  "drop index" \notin client =>
    \A t \in DOMAIN wanted : wanted[t] = NamesIn(t)

NeverClosed ==
  "drop index" \in client /\ ~running =>
    DOMAIN table_meta_pages_ = {} /\ DOMAIN index_meta_pages_ = {}

OpenIsWanted ==
  running => /\ DOMAIN table_names_ = DOMAIN wanted
             /\ DOMAIN index_names_ \subseteq DOMAIN wanted
             /\ \A t \in DOMAIN wanted : Known(t) = wanted[t]

ExactInv == OneName /\ TablesWanted /\ IndexesWanted /\ NeverClosed /\ OpenIsWanted

LEMMA ExactInit == CatalogInit => ExactInv
  BY DEF CatalogInit, ExactInv, OneName, TablesWanted, IndexesWanted, NeverClosed, OpenIsWanted,
         NoMap, IndexMap, Known

LEMMA CreateExact == Create => ExactInv'
  BY DEF Create, ExactInv, OneName, TablesWanted, IndexesWanted, NeverClosed, OpenIsWanted,
         NoMap, IndexMap, Known

(* ExactInv implies what CatalogExactKept says of a state. *)
LEMMA ExactIs ==
  ASSUME CatalogInv, ExactInv
  PROVE  CatalogExact /\ IndexesOfTable
<1>1. CatalogExact
  BY DEF ExactInv, OpenIsWanted, CatalogExact, Known
<1>2. ASSUME NEW t \in DOMAIN table_names_, NEW n \in DOMAIN IndexMap(t)
      PROVE  indexes_[IndexMap(t)[n]].madeFor = tables_[table_names_[t]]
  <2>1. t \in DOMAIN index_names_ /\ n \in DOMAIN index_names_[t] /\ IndexMap(t) = index_names_[t]
    BY <1>2 DEF IndexMap, Known, NoMap
  <2>2. PICK id : id = index_names_[t][n]
    OBVIOUS
  <2>3. id \in DOMAIN indexes_ /\ id \in DOMAIN index_meta_pages_ /\ Owner(id) = t
        /\ indexes_[id].madeFor = index_meta_pages_[id].madeFor
    BY <2>1, <2>2 DEF CatalogInv, IndexesOK
  <2>4. PICK tid : tid = index_meta_pages_[id].table
    OBVIOUS
  <2>5. tid \in DOMAIN table_meta_pages_ /\ table_meta_pages_[tid].name = t
        /\ index_meta_pages_[id].madeFor = table_meta_pages_[tid].born
    BY <2>3, <2>4 DEF CatalogInv, PagesOK, Owner
  <2>6. PICK own : own = table_names_[t]
    OBVIOUS
  <2>7. own \in DOMAIN table_meta_pages_ /\ table_meta_pages_[own].name = t
        /\ tables_[own] = table_meta_pages_[own].born
    BY <2>6 DEF CatalogInv, TablesOK
  <2>8. own = tid
    BY <2>5, <2>7 DEF ExactInv, OneName
  <2> QED BY <2>1, <2>2, <2>3, <2>5, <2>6, <2>7, <2>8
<1> QED
  BY <1>1, <1>2 DEF IndexesOfTable

(* The indexes of a name stay while the pages do. *)
LEMMA IndexesWantedKept ==
  ASSUME CatalogInv, IndexesWanted, client' = client, wanted' = wanted, TablePagesKept,
         DOMAIN index_meta_pages_' = DOMAIN index_meta_pages_,
         \A id \in DOMAIN index_meta_pages_ : index_meta_pages_'[id] = index_meta_pages_[id]
  PROVE  IndexesWanted'
<1>1. \A id \in DOMAIN index_meta_pages_ : Owner(id)' = Owner(id)
  BY DEF CatalogInv, PagesOK, TablePagesKept, Owner
<1>2. \A t : IndexesOfName(t)' = IndexesOfName(t)
  BY <1>1 DEF IndexesOfName
<1>3. \A t : NamesIn(t)' = NamesIn(t)
  BY <1>2 DEF NamesIn, IndexesOfName
<1> QED
  BY <1>3 DEF IndexesWanted

LEMMA CloseExact ==
  ASSUME CatalogInv, KeepsCatalog, ExactInv, client' = client, Close
  PROVE  ExactInv'
<1>1. "drop index" \notin client /\ ~running'
  BY DEF Close, Ready, KeepsCatalog
<1>2. UNCHANGED <<table_meta_pages_, index_meta_pages_, wanted>>
  BY DEF Close, meta
<1>3. OneName' /\ TablesWanted'
  BY <1>2 DEF ExactInv, OneName, TablesWanted
<1>4. IndexesWanted'
  BY <1>2, IndexesWantedKept DEF ExactInv, TablePagesKept
<1> QED
  BY <1>1, <1>3, <1>4 DEF ExactInv, NeverClosed, OpenIsWanted

LEMMA GetTableIndexesExact ==
  ASSUME CatalogInv, ExactInv, client' = client, NEW t \in TableNames, GetTableIndexes(t)
  PROVE  ExactInv'
<1>1. UNCHANGED <<table_meta_pages_, index_meta_pages_, wanted, running, table_names_>> /\ running
      /\ t \in DOMAIN table_names_ /\ t \notin DOMAIN index_names_
      /\ index_names_' = Set(index_names_, t, NoMap)
  BY DEF GetTableIndexes, meta, Ready
<1>2. \A u : Known(u)' = Known(u)
  BY <1>1 DEF IndexMap, Known, Set, NoMap
<1>3. DOMAIN index_names_' \subseteq DOMAIN wanted'
  BY <1>1 DEF ExactInv, OpenIsWanted, Set
<1>4. OneName' /\ TablesWanted' /\ NeverClosed'
  BY <1>1 DEF ExactInv, OneName, TablesWanted, NeverClosed
<1>5. IndexesWanted'
  BY <1>1, IndexesWantedKept DEF ExactInv, TablePagesKept
<1>6. OpenIsWanted'
  BY <1>1, <1>2, <1>3 DEF ExactInv, OpenIsWanted
<1> QED
  BY <1>4, <1>5, <1>6 DEF ExactInv

LEMMA DropAllIndexesExact ==
  ASSUME CatalogInv, KeepsCatalog, ExactInv, client' = client, NEW n \in IndexNames,
         DropAllIndexes(n)
  PROVE  ExactInv'
<1>1. UNCHANGED <<table_meta_pages_, index_meta_pages_, running, table_names_>> /\ running
      /\ "drop index" \in client
      /\ wanted' = [t \in DOMAIN wanted |-> wanted[t] \ {n}]
      /\ index_names_' = [t \in DOMAIN index_names_ |->
                            IF t \in Having(n) THEN Erase(index_names_[t], n) ELSE index_names_[t]]
  BY DEF DropAllIndexes, meta, Ready
<1>2. ASSUME NEW t \in DOMAIN wanted PROVE Known(t)' = wanted[t] \ {n}
  <2>1. Known(t) = wanted[t] /\ t \in DOMAIN table_names_
    BY <1>1 DEF ExactInv, OpenIsWanted
  <2>2. t \in Having(n) <=> n \in Known(t)
    BY <2>1 DEF Having, Known
  <2>3. CASE t \in DOMAIN index_names_
    BY <1>1, <2>1, <2>2, <2>3 DEF IndexMap, Known, Erase
  <2>4. CASE t \notin DOMAIN index_names_
    BY <1>1, <2>1, <2>4 DEF IndexMap, Known, NoMap
  <2> QED BY <2>3, <2>4
<1>3. OneName' /\ TablesWanted' /\ NeverClosed' /\ IndexesWanted'
  BY <1>1 DEF ExactInv, OneName, TablesWanted, NeverClosed, IndexesWanted
<1>4. OpenIsWanted'
  BY <1>1, <1>2 DEF ExactInv, OpenIsWanted
<1> QED
  BY <1>3, <1>4 DEF ExactInv

LEMMA OpenExact ==
  ASSUME CatalogInv, KeepsCatalog, ExactInv, client' = client, Open
  PROVE  ExactInv'
<1>1. /\ table_names_' = LastNamed(table_meta_pages_, DOMAIN table_meta_pages_)
      /\ index_names_' = [t \in {Owner(id) : id \in DOMAIN index_meta_pages_} |->
              LastNamed(index_meta_pages_, {id \in DOMAIN index_meta_pages_ : Owner(id) = t})]
      /\ DOMAIN table_meta_pages_' = DOMAIN table_meta_pages_
      /\ DOMAIN index_meta_pages_' = DOMAIN index_meta_pages_
      /\ \A id \in DOMAIN table_meta_pages_ : table_meta_pages_'[id] = table_meta_pages_[id]
      /\ \A id \in DOMAIN index_meta_pages_ : index_meta_pages_'[id] = index_meta_pages_[id]
      /\ wanted' = wanted /\ running' = TRUE /\ ~running
  BY OpenDoes
<1>2. \A id \in DOMAIN index_meta_pages_ :
        Owner(id)' = Owner(id) /\ index_meta_pages_[id].table \in DOMAIN table_meta_pages_
  BY <1>1 DEF CatalogInv, PagesOK, Owner
<1>5. DOMAIN table_names_' = DOMAIN wanted
  <2>1. DOMAIN table_names_' = {table_meta_pages_[id].name : id \in DOMAIN table_meta_pages_}
    BY <1>1 DEF LastNamed
  <2> QED BY <2>1 DEF ExactInv, TablesWanted
<1>6. DOMAIN index_names_' \subseteq DOMAIN wanted
  BY <1>1, <1>2 DEF ExactInv, TablesWanted, Owner
<1>7. ASSUME NEW t \in DOMAIN wanted PROVE Known(t)' = wanted[t]
  <2>1. wanted[t] = NamesIn(t)
    <3>1. CASE "drop index" \notin client
      BY <3>1 DEF ExactInv, IndexesWanted
    <3>2. CASE "drop index" \in client
      BY <1>1, <3>2 DEF ExactInv, NeverClosed, TablesWanted
    <3> QED BY <3>1, <3>2
  <2>2. CASE t \in DOMAIN index_names_'
    <3>1. index_names_'[t] = LastNamed(index_meta_pages_, IndexesOfName(t))
      BY <1>1, <2>2 DEF IndexesOfName
    <3>2. DOMAIN LastNamed(index_meta_pages_, IndexesOfName(t)) = NamesIn(t)
      BY DEF LastNamed, NamesIn
    <3> QED BY <2>1, <2>2, <3>1, <3>2 DEF IndexMap, Known
  <2>3. CASE t \notin DOMAIN index_names_'
    <3>1. IndexesOfName(t) = {}
      BY <1>1, <2>3 DEF IndexesOfName
    <3> QED BY <2>1, <2>3, <3>1 DEF IndexMap, Known, NoMap, NamesIn
  <2> QED BY <2>2, <2>3
<1>8. IndexesWanted'
  BY <1>1, IndexesWantedKept DEF ExactInv, TablePagesKept
<1>9. OneName' /\ TablesWanted'
  BY <1>1 DEF ExactInv, OneName, TablesWanted
<1>10. OpenIsWanted' /\ NeverClosed'
  BY <1>1, <1>5, <1>6, <1>7 DEF OpenIsWanted, NeverClosed
<1> QED
  BY <1>8, <1>9, <1>10 DEF ExactInv

(* The names of the indexes of a table after AddIndexes, in memory and in
   the pages. *)
NamesGrow(t, names) ==
  /\ Known(t)' = Known(t) \cup names
  /\ \A u : u # t => Known(u)' = Known(u)
  /\ NamesIn(t)' = NamesIn(t) \cup (names \ Known(t))
  /\ \A u : u # t => NamesIn(u)' = NamesIn(u)

LEMMA AddsNames ==
  ASSUME CatalogInv, NEW t, NEW tid, NEW born, NEW names, NEW new,
         Adds(t, tid, born, names, new), TablePagesKept, table_meta_pages_'[tid].name = t
  PROVE  NamesGrow(t, names)
<1>1. Known(t)' = Known(t) \cup names
  BY DEF Adds, IndexMap, Known
<1>2. \A u : u # t => Known(u)' = Known(u)
  BY DEF Adds, IndexMap, Known
<1>3. \A id \in DOMAIN index_meta_pages_ : Owner(id)' = Owner(id)
  BY DEF CatalogInv, PagesOK, TablePagesKept, Adds, Owner
<1>4. \A id \in new : Owner(id)' = t
  BY DEF Adds, Owner
<1>5. IndexesOfName(t)' = IndexesOfName(t) \cup new
  BY <1>3, <1>4 DEF Adds, IndexesOfName
<1>6. \A u : u # t => IndexesOfName(u)' = IndexesOfName(u)
  BY <1>3, <1>4 DEF Adds, IndexesOfName
<1>7. \A u : \A id \in IndexesOfName(u) : index_meta_pages_'[id].name = index_meta_pages_[id].name
  BY DEF Adds, IndexesOfName
<1>8. /\ \A id \in new : index_meta_pages_'[id].name \in names \ Known(t)
      /\ \A n \in names \ Known(t) : \E id \in new : index_meta_pages_'[id].name = n
  BY DEF Adds, Known
<1>9. NamesIn(t)' = NamesIn(t) \cup (names \ Known(t))
  <2> DEFINE fresh == names \ Known(t)
  <2>1. NamesIn(t)' = {index_meta_pages_'[id].name : id \in IndexesOfName(t) \cup new}
    BY <1>5 DEF NamesIn
  <2>2. ASSUME NEW n \in NamesIn(t) PROVE n \in NamesIn(t)'
    BY <1>7, <2>1, <2>2 DEF NamesIn
  <2>3. ASSUME NEW n \in fresh PROVE n \in NamesIn(t)'
    BY <1>8, <2>1, <2>3
  <2>4. ASSUME NEW n \in NamesIn(t)' PROVE n \in NamesIn(t) \cup fresh
    BY <1>7, <1>8, <2>1, <2>4 DEF NamesIn
  <2> HIDE DEF fresh
  <2>5. NamesIn(t)' = NamesIn(t) \cup fresh
    BY <2>2, <2>3, <2>4
  <2> QED BY <2>5 DEF fresh
<1>10. \A u : u # t => NamesIn(u)' = NamesIn(u)
  BY <1>6, <1>7 DEF NamesIn
<1> QED
  BY <1>1, <1>2, <1>9, <1>10, Zenon DEF NamesGrow

LEMMA CreateIndexExact ==
  ASSUME CatalogInv, ExactInv, client' = client, NEW t \in TableNames, NEW n \in IndexNames,
         CreateIndex(t, n)
  PROVE  ExactInv'
<1>1. PICK id, born : id = table_names_[t] /\ born = tables_[id]
  OBVIOUS
<1>2. AddIndexes(t, id, born, {n}) /\ t \in DOMAIN table_names_ /\ n \notin Known(t)
  BY <1>1 DEF CreateIndex, Known
<1>3. UNCHANGED <<table_names_, table_meta_pages_, running>> /\ running
  BY DEF CreateIndex, Ready
<1>4. t \in DOMAIN wanted /\ wanted' = [wanted EXCEPT ![t] = @ \cup {n}]
  BY <1>2, <1>3 DEF CreateIndex, ExactInv, OpenIsWanted
<1>5. table_meta_pages_'[id].name = t /\ TablePagesKept
  BY <1>1, <1>2, <1>3 DEF CatalogInv, TablesOK, TablePagesKept
<1>6. PICK names : names = {n}
  OBVIOUS
<1>7. PICK new : Adds(t, id, born, names, new)
  BY <1>2, <1>6, FS_Singleton, AddIndexesDoes
<1>a. NamesGrow(t, names)
  BY <1>5, <1>7, AddsNames
<1>8. /\ Known(t)' = Known(t) \cup names
      /\ \A u : u # t => Known(u)' = Known(u)
  BY <1>a, Zenon DEF NamesGrow
<1>9. /\ NamesIn(t)' = NamesIn(t) \cup (names \ Known(t))
      /\ \A u : u # t => NamesIn(u)' = NamesIn(u)
  BY <1>a, Zenon DEF NamesGrow
<1>10. /\ DOMAIN wanted' = DOMAIN wanted /\ wanted'[t] = wanted[t] \cup {n}
      /\ \A u \in DOMAIN wanted : u # t => wanted'[u] = wanted[u]
  BY <1>4
<1>11. OneName' /\ TablesWanted' /\ NeverClosed'
  BY <1>3, <1>10 DEF ExactInv, OneName, TablesWanted, NeverClosed
<1>12. IndexesWanted'
  <2>1. NamesIn(t)' = NamesIn(t) \cup {n}
    BY <1>2, <1>9, <1>6
  <2> QED BY <1>4, <1>9, <1>10, <2>1 DEF ExactInv, IndexesWanted
<1>13. OpenIsWanted'
  <2>1. DOMAIN index_names_' \subseteq DOMAIN wanted'
    BY <1>3, <1>4, <1>7, <1>10 DEF ExactInv, OpenIsWanted, Adds
  <2>2. \A u \in DOMAIN wanted' : Known(u)' = wanted'[u]
    BY <1>3, <1>4, <1>8, <1>10, <1>6 DEF ExactInv, OpenIsWanted
  <2> QED BY <1>3, <1>10, <2>1, <2>2 DEF ExactInv, OpenIsWanted
<1> QED
  BY <1>11, <1>12, <1>13 DEF ExactInv

LEMMA CreateTableExact ==
  ASSUME CatalogInv, ExactInv, client' = client, NEW t \in TableNames,
         NEW unique \in SUBSET UniqueColumns, CreateTable(t, unique)
  PROVE  ExactInv'
<1>1. PICK id, born :
         /\ id \notin DOMAIN table_meta_pages_
         /\ DOMAIN table_meta_pages_' = DOMAIN table_meta_pages_ \cup {id} /\ TablePagesKept
         /\ table_meta_pages_'[id].name = t
         /\ IF unique = {} THEN UNCHANGED <<index_names_, indexes_, index_meta_pages_>>
                           ELSE AddIndexes(t, id, born, unique)
  BY CreateTableDoes, Zenon
<1>2. running /\ running' /\ t \notin DOMAIN table_names_
      /\ DOMAIN table_names_' = DOMAIN table_names_ \cup {t} /\ wanted' = Set(wanted, t, unique)
  BY DEF CreateTable, Ready, Set
<1>3. DOMAIN table_names_ = DOMAIN wanted /\ DOMAIN index_names_ \subseteq DOMAIN wanted
      /\ t \notin DOMAIN wanted /\ t \notin DOMAIN index_names_
  BY <1>2 DEF ExactInv, OpenIsWanted
<1>4. /\ DOMAIN wanted' = DOMAIN wanted \cup {t} /\ wanted'[t] = unique
      /\ \A u \in DOMAIN wanted : u # t => wanted'[u] = wanted[u]
  BY <1>2 DEF Set
<1>5. Known(t) = {}
  BY <1>3 DEF IndexMap, Known, NoMap
<1>6. \A i \in DOMAIN table_meta_pages_ : table_meta_pages_[i].name # t
  BY <1>3 DEF ExactInv, TablesWanted
<1>7. NamesIn(t) = {}
  BY <1>6 DEF NamesIn, IndexesOfName, Owner, CatalogInv, PagesOK
<1>8. OneName' /\ TablesWanted'
  BY <1>1, <1>4, <1>6 DEF ExactInv, OneName, TablesWanted, TablePagesKept
<1>9. /\ Known(t)' = unique
      /\ \A u : u # t => Known(u)' = Known(u)
      /\ NamesIn(t)' = unique
      /\ \A u : u # t => NamesIn(u)' = NamesIn(u)
      /\ DOMAIN index_names_' \subseteq DOMAIN index_names_ \cup {t}
  <2>1. CASE unique # {}
    <3>1. IsFiniteSet(unique)
      BY KernelAssumption, FS_Subset
    <3>2. PICK new : Adds(t, id, born, unique, new)
      BY <1>1, <2>1, <3>1, AddIndexesDoes
    <3>3. DOMAIN index_names_' \subseteq DOMAIN index_names_ \cup {t}
      BY <3>2 DEF Adds
    <3>a. NamesGrow(t, unique)
      <4>1. TablePagesKept /\ table_meta_pages_'[id].name = t
        BY <1>1
      <4> QED BY <3>2, <4>1, AddsNames
    <3>4. /\ Known(t)' = Known(t) \cup unique
          /\ \A u : u # t => Known(u)' = Known(u)
      BY <3>a, Zenon DEF NamesGrow
    <3>5. NamesIn(t)' = NamesIn(t) \cup (unique \ Known(t))
      BY <3>a, Zenon DEF NamesGrow
    <3>6. \A u : u # t => NamesIn(u)' = NamesIn(u)
      BY <3>a, Zenon DEF NamesGrow
    <3>7. NamesIn(t)' = unique
      BY <1>5, <1>7, <3>5
    <3>8. Known(t)' = unique
      BY <1>5, <3>4
    <3> QED BY <3>3, <3>4, <3>6, <3>7, <3>8
  <2>2. CASE unique = {}
    <3>1. UNCHANGED <<index_names_, index_meta_pages_>>
      BY <1>1, <2>2
    <3>2. \A u : Known(u)' = Known(u)
      BY <3>1 DEF IndexMap, Known
    <3>3. \A i \in DOMAIN index_meta_pages_ : Owner(i)' = Owner(i)
      BY <1>1, <3>1 DEF CatalogInv, PagesOK, TablePagesKept, Owner
    <3>4. \A u : IndexesOfName(u)' = IndexesOfName(u)
      BY <3>1, <3>3 DEF IndexesOfName
    <3>5. Known(t)' = {}
      BY <1>5, <3>2
    <3>6. \A u : NamesIn(u)' = NamesIn(u)
      BY <3>1, <3>4 DEF NamesIn
    <3>7. NamesIn(t)' = {}
      BY <1>7, <3>6
    <3> QED BY <2>2, <3>1, <3>2, <3>5, <3>6, <3>7
  <2> QED BY <2>1, <2>2
<1>10. IndexesWanted'
  BY <1>4, <1>9 DEF ExactInv, IndexesWanted
<1>11. OpenIsWanted'
  <2>1. \A u \in DOMAIN wanted' : Known(u)' = wanted'[u]
    BY <1>2, <1>4, <1>9 DEF ExactInv, OpenIsWanted
  <2> QED BY <1>2, <1>3, <1>4, <1>9, <2>1 DEF OpenIsWanted
<1> QED
  BY <1>2, <1>8, <1>10, <1>11 DEF ExactInv, NeverClosed

LEMMA ExactStep ==
  ASSUME CatalogInv, KeepsCatalog => ExactInv, [Next]_vars
  PROVE  KeepsCatalog' => ExactInv'
<1>1. client' = client
  BY SameClient
<1> SUFFICES ASSUME KeepsCatalog, ExactInv PROVE ExactInv'
  BY <1>1 DEF KeepsCatalog
<1>2. CASE UNCHANGED <<memory, meta, running, wanted>>
  <2>1. OneName' /\ TablesWanted' /\ NeverClosed'
    BY <1>1, <1>2 DEF ExactInv, OneName, TablesWanted, NeverClosed, meta
  <2>2. IndexesWanted'
    BY <1>1, <1>2, IndexesWantedKept DEF ExactInv, TablePagesKept, meta
  <2>3. OpenIsWanted'
    BY <1>2 DEF ExactInv, OpenIsWanted, IndexMap, Known, memory
  <2> QED BY <2>1, <2>2, <2>3 DEF ExactInv
<1>3. ASSUME NEW t \in TableNames, DropTable(t) PROVE FALSE
  BY <1>3 DEF DropTable, Ready, KeepsCatalog
<1>4. CASE Statement
  BY <1>1, <1>2, <1>3, <1>4, CreateTableExact, CreateIndexExact, GetTableIndexesExact,
     DropAllIndexesExact DEF Statement, DropAllIndexesFails
<1>5. CASE UNCHANGED catalogVars
  BY <1>2, <1>5 DEF catalogVars
<1> QED
  BY <1>1, <1>4, <1>5, CatalogSteps, CreateExact, CloseExact, OpenExact

(* In sessions that drop no table, and restart only if they drop no index,
   the catalog knows exactly the tables and indexes that were created and
   not dropped, after every restart of the process. *)
THEOREM CatalogStaysExact == Spec => []CatalogExactKept
<1> DEFINE Inv == CatalogInv /\ (KeepsCatalog => ExactInv)
<1>1. Init => Inv
  BY CatalogInvInit, ExactInit DEF Init
<1>2. Inv /\ [Next]_vars => Inv'
  BY CatalogInvStep, ExactStep
<1>3. Inv => CatalogExactKept
  BY ExactIs DEF KeepsCatalog, CatalogExactKept
<1> QED
  BY <1>1, <1>2, <1>3, PTL DEF Spec
=============================================================================
