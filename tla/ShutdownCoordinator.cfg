SPECIFICATION FairSpec
CONSTANTS
    ComponentCount = 3
    PhaseOf <- MCPhaseOf
    TimeoutOf <- MCTimeoutOf
    KindOf <- MCKindOf
    CutoffOf <- MCCutoffOf
    TaskCount = 1
    Deadline = 4
    MaxReserve = 2
    Attached <- MCAttached
    LatestStart = 1
    MaxDrops = 1
    None = None
INVARIANTS
    TypeOK
    EndsInTime
    ReserveIsKept
    ClosuresRunOnce
    ReportIsTruthful
PROPERTIES
    AlwaysReports
CHECK_DEADLOCK FALSE
