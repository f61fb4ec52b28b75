SPECIFICATION FairSpec
CONSTANTS
    Callers <- ThreeCallers
    FailureThreshold = 2
    HalfOpenMaxCalls = 1
    MaxRetries = 2
INVARIANTS
    TypeOK
    FewProbes
    ProbeDecides
PROPERTIES
    Recovers
