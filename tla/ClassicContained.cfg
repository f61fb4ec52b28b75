SPECIFICATION FairSpec
CONSTANTS
    Modules <- PipelineModules
    Phases <- FivePhases
    Parallel <- PhaseTwo
    Dependencies <- ModuleDependencies
    MaxWorkers = 2
    Hanging <- OneHangs
    Disabled <- SwitchedOff
PROPERTY
    FailuresStayContained
CHECK_DEADLOCK FALSE
