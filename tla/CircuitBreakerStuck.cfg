SPECIFICATION Spec
CONSTANTS
    Callers <- ThreeCallers
    FailureThreshold = 2
    HalfOpenMaxCalls = 1
    MaxRetries = 2
INVARIANT
    NeverStuck
