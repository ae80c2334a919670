SPECIFICATION FairSpec
CONSTANTS
    SubCaches <- MCSubCaches
    Txs = {x1}
    MaxCommits = 2
    MaxUpdates = 2
    MaxHarvests = 1
    MaxViews = 1
INVARIANTS
    ViewConsistent
    DeltaConsistent
    DeltaLockable
    UnconfirmedExact
    UnconfirmedCurrent
PROPERTIES
    CallsReturn
CHECK_DEADLOCK FALSE
