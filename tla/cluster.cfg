SPECIFICATION MCSpec
CONSTANTS
    Nodes <- ThreeNodes
    RequestIds = {r1, r2, r3, r4}
    Writers = {w1}
    SnapshotThreshold = 2
    FaultSets <- NoFaults
    TwoWriters = {w1, w2}
    WriterRequests = {r1, r2, r3}
    WriterThreshold = 3
    OutageRequests = {r1}
CHECK_DEADLOCK FALSE
INVARIANTS
    ServingComplete
    CommittedSurvives
    SerialLog
PROPERTIES
    AllComeBack
