SPECIFICATION Spec
CONSTANTS
    RequestIds = {r1, r2}
    CliSql = cli
    DatabaseSql = {r1}
    SnapshotThreshold = 2
    MaxSequence = 4
    FaultSets = {{"overlap"}}
INVARIANTS
    AckedDurable
