SPECIFICATION FairSpec
CONSTANTS
    AccountState = AccountState
    Mosaic = Mosaic
    SubCaches <- MCSubCaches
    MaxRollback = 2
    MaxBlocks = 2
    MaxCommits = 2
    MaxSaves = 1
    MaxCrashes = 2
INVARIANTS
    RestoredToCheckpoint
    BrokerExact
    RefusesOnlyTornMoves
PROPERTY
    ReturnsToService
CHECK_DEADLOCK FALSE
