SPECIFICATION FairSpec
CONSTANTS
    RequestIds = {r1, r2, r3}
    CliSql = cli
    DatabaseSql = {r1}
    SnapshotThreshold = 2
    MaxSequence = 3
    FaultSets = {{"engine"}, {"cli", "peer"}}
CHECK_DEADLOCK FALSE
INVARIANTS
    LogAheadOfSnapshot
    EngineMatchesLogAlone
PROPERTIES
    ImplementsReplicaLogAlone
    MonitorReleased
