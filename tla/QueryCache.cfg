SPECIFICATION Spec
CONSTANTS
    tickers = tickers
    klines = klines
    none = none
    Keys <- TwoKeys
    Callers = {c1, c2}
    Refreshers = {r1}
    Groups <- OneGroup
    GroupOf <- GroupOfKey
    NoGroup = none
    Prefixes <- TwoPrefixes
    KeysUnder <- KeysOfPrefix
    Downstream <- BelowPrefix
    MaxSize = 1
    MaxVersion <- Writes
    NoKey = none
    c1 = c1
    c2 = c2
SYMMETRY CallerSymmetry
INVARIANTS
    TypeOK
    GroupsCoverStore
    NoEventIsForgotten
PROPERTY
    InvalidationTakesEffect
