SPECIFICATION FairSpec
CONSTANTS
    station = station
    plug = plug
    Homes <- OneOrBoth
    None = None
    KeepOwed <- OneOrTwo
    AtOnce = 2
    PerCall = 2
    MaxLists = 1
    MaxMoves <- FewerOfBoth
INVARIANT TypeOK
INVARIANT NoneLost
PROPERTY KeysKept
PROPERTY StoreNeverBack
PROPERTY HoldsAsListed
PROPERTY Drains
CHECK_DEADLOCK FALSE
