SPECIFICATION FairSpec
CONSTANTS
    Runs = {1, 2}
    PoolSize = 2
    Limit <- UpToOne
    Raw = {1}
INVARIANT PoolConserved
INVARIANT ReleasedInOrder
INVARIANT NothingLeft
INVARIANT LibsLoaded
PROPERTY StopHeeded
CHECK_DEADLOCK FALSE
