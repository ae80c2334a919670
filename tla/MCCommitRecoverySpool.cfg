SPECIFICATION Spec
CONSTANTS
    AccountState = AccountState
    Mosaic = Mosaic
    SubCaches <- MCSubCaches
    MaxRollback = 1
    MaxBlocks = 1
    MaxCommits = 1
    MaxSaves = 0
    MaxCrashes = 1
INVARIANT
    StateChangesSafeToIgnore
CHECK_DEADLOCK FALSE
