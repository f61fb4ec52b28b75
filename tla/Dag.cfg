SPECIFICATION FairSpec
CONSTANTS
    Modules <- GraphModules
    DependsOn <- Graph
    MaxWorkers = 2
    Hanging <- OneHangs
INVARIANTS
    TypeOK
    NoCallBetweenLevels
    OnlyCyclesAreLeftOut
PROPERTIES
    RespectsDependencies
    StatusDespiteHang
CHECK_DEADLOCK FALSE
