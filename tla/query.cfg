SPECIFICATION Spec
CONSTANTS
  Columns = {"id", "age"}
  UniqueColumns = {"id"}
  Values = {1, 2, 3}
  Domain <- IdAndAge
  Wide = {3}
  MaxRows = 3
  Statements = {"insert", "delete", "update", "create index", "drop index", "reopen"}
  Wheres <- Clauses
CHECK_DEADLOCK FALSE
INVARIANTS
  IndexSound
  UniqueIndexComplete
  SelectExact
