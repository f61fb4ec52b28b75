SPECIFICATION FairSpec
CONSTANTS
    Jobs <- StuckJobs
    Program <- StuckProgram
    Pool <- StuckPool
    Deployments = {{"ticker", "open_interest"}}
    Fresh = {}
    Tables = {}
    Histories <- NoHistories
    Unrecorded = {}
    Slow = {}
    Rereading = {"open_interest"}
    MaxStamp = 1
    MaxAgain = 1
    None = None
PROPERTY SessionsRecover
