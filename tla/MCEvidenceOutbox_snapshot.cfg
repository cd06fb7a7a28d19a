\* Nothing fails.
SPECIFICATION FairSpec
CONSTANTS
    Need = 3
    BatchGames = 1
    MaxPending = 1
    Setups <- MCNone
INVARIANT
    FinalSnapshotIsRemote
CHECK_DEADLOCK FALSE
