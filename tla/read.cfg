SPECIFICATION MCSpec
CONSTANTS
    Nodes <- ThreeNodes
    Replicas <- TwoReplicas
    ShardOf <- TwoKeys
    Values <- NumberOrNull
    Queries = {"select", "asc", "desc", "count", "sum", "min", "max"}
    Wheres <- Conditional
    MaxRows = 2
    MayFail = FALSE
CHECK_DEADLOCK FALSE
INVARIANTS
    SelectComplete
    AggregateExact
    JoinExactShards
