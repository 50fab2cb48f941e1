SPECIFICATION MCSpec
CONSTANTS
  Rows <- SmallRows
  RowSize <- SmallRowSize
  Pages = {1, 2, 3}
  PAGE_SIZE = 5
  SIZE_TABLE_PAGE_HEADER = 1
  SIZE_TUPLE = 1
  SIZE_MAX_PAIR = 3
  UintMod = 65536
  Calls = {"insert", "mark", "update", "apply", "delete"}
CHECK_DEADLOCK FALSE
INVARIANTS
  RowsIntactAll
  ChainSound
PROPERTIES
  NewPageOnlyWhenFull
