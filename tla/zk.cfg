SPECIFICATION MCSpec
CONSTANTS
    Nodes <- ThreeNodes
    ShardCount = 2
    ReplicationFactor = 2
    Workers = {w1}
    MaxLogIndex = 1
    MaxVersion = 2
    RacingWorkers = {w1, w2}
    RacingMaxVersion = 1
    LongMaxVersion = 3
    OneShardMaxLogIndex = 2
INVARIANTS
    MetadataSound
PROPERTIES
    TermFencesPrimary
    IndexIssuedOnce
    CallsEndRacing
