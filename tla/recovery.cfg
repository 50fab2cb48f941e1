SPECIFICATION MCSpec
CONSTANTS
  Txns = {t1, t2}
  Keys = {a, b}
  Vals = {0}
  None = None
  NeedsCheckpoint = TRUE
  MaxLog = 5
  MaxCrashes = 1
  ShortMaxLog = 4
  OneKey = {a}
  TwoVals = {0, 1}
CHECK_DEADLOCK FALSE
INVARIANTS
  RecoveredIsCommitted
  RedoRepeatsHistory
PROPERTIES
  RecoveryEnds
