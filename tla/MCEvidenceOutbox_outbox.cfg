\* A restart and a failed upload anywhere.
SPECIFICATION FairSpec
CONSTANTS
    Need = 3
    BatchGames = 1
    MaxPending = 1
    Setups <- MCTrouble
INVARIANTS
    TypeOK
    EvidenceSurvives
    PublishedIsComplete
    ReceiptsAreVerified
    DoneIsPublished
    SpoolIsBounded
PROPERTY
    GamesArePublished
CHECK_DEADLOCK FALSE
