\* Two tables, two primary games, a process death in every state.
SPECIFICATION Spec
CONSTANTS
    Tables = {t1, t2}
    Capacity = 2
    Need = 2
    MaxGames = 2
    Faults <- MCFaults
INVARIANTS
    DiskIsSound
    TablesAreAgreed
    GamesAreAssigned
CHECK_DEADLOCK FALSE
