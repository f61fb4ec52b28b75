SPECIFICATION Spec
CONSTANTS
    N = 3
    Kind <- MixedKinds
    Priority <- MixedPriorities
    Limit <- SmallLimits
    Window = 1
    ExitCodes <- CodesBadOnly
INVARIANTS
    TypeOK
    DisabledOnlyAfterStreak
    FailuresAreIsolated
    NothingOutlivesSupervisor
PROPERTIES
    GracefulStop
    ShutdownCompletes
CHECK_DEADLOCK FALSE
