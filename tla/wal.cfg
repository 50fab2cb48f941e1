SPECIFICATION FairSpec
CONSTANTS
    RequestIds = {r1, r2, r3}
    MaxSequence = 4
CHECK_DEADLOCK FALSE
INVARIANTS
    DedupCoversLog
    LastSequenceCoversLog
    IdleCrashRestartable
PROPERTIES
    SequencesGrow
    AlwaysReadyAgain
