SPECIFICATION Spec
CONSTANTS
  Databases = {"a", "b"}
  Clients = {
    {"create table", "create index", "list", "drop table", "drop index", "reopen", "drop database"},
    {"create table", "create index", "list", "reopen", "drop database"},
    {"create table", "create index", "list", "drop index"},
    {"create table", "create index", "list", "drop table", "drop index", "reopen", "drop database", "careless"},
    {"drop database", "quit in file"},
    {"drop database", "careless", "quit in file", "kill"}}
  Db = "a"
  TableNames = {"s", "t"}
  UniqueColumns = {"id"}
  IndexNames = {"id", "k"}
  MaxTables = 3
  MaxIndexes = 2
  MaxLive = 6
  MetaSlots = 6
CHECK_DEADLOCK FALSE
INVARIANTS
  CreatedLoaded
  NeverDiesCareful
  NamesResolve
  CatalogExactKept
