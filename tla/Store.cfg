SPECIFICATION Spec
CONSTANTS
    Jobs <- MCJobs
    Program <- MCProgram
    Pool <- MCPool
    Deployments <- MCDeployments
    Fresh <- MCFresh
    Tables <- MCTables
    Histories <- MCHistories
    Unrecorded <- MCUnrecorded
    Slow <- MCSlow
    Rereading <- MCRereading
    MaxStamp = 2
    MaxAgain = 1
    None = None
INVARIANTS
    TypeOK
    LockIsGivenBack
    NobodyWaitsWithLock
    FinishedMeansCommitted
    OnlyRereadersGetStuck
PROPERTIES
    LatestOnlyAdvances
    HistoryCoversLatest
    SavesAreAtomic
