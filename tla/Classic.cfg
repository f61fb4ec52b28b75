SPECIFICATION FairSpec
CONSTANTS
    Modules <- PipelineModules
    Phases <- FivePhases
    Parallel <- PhaseTwo
    Dependencies <- ModuleDependencies
    MaxWorkers = 2
    Hanging <- OneHangs
    Disabled <- SwitchedOff
INVARIANTS
    TypeOK
    PhasesDoNotOverlap
PROPERTIES
    KeepsOrderOfPhases
    StatusDespiteHungCall
CHECK_DEADLOCK FALSE
