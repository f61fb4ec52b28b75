SPECIFICATION Spec
CONSTANTS
    Keys = {btc}
    Kinds <- OnlyLookback
    Horizon = 5
    Width = 2
    Delay = 1
    Lookback = 2
    FetchLimit = 3
PROPERTY
    BarsKeepTheirEvents
CHECK_DEADLOCK FALSE
