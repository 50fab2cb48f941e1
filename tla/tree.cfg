SPECIFICATION MCSpec
CONSTANTS
  Keys = {1, 2, 3, 4, 5, 6}
  Pages = {1, 2, 3, 4, 5, 6, 7, 8, 9, 10}
  leaf_max_size_ = 2
  internal_max_size_ = 4
  Calls = {"insert", "remove"}
  Script <- NoScript
CHECK_DEADLOCK FALSE
INVARIANTS
  LookupExactAll
  TreeShapeAll
  ScanOfStoredSmall
