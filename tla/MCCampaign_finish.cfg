\* A campaign to its end: quotas, handshakes, one table.
SPECIFICATION MCSpec
CONSTANTS
    Stacks = 2
    Seats = 2
    Looks <- MCLooks
    Analyses <- MCAnalyses
    Tables = {t1, t2}
    Troubles <- MCTroubles
    Capacity = 2
    Need = 2
    MaxGames = 3
    Faults <- MCFaults
    Names = {n1, n2, n3}
    Hitches <- MCHitches
INVARIANT
    QuotasAreKept
PROPERTIES
    DepartureIsProved
    Finishes
CHECK_DEADLOCK FALSE
