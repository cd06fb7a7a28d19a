\* Executor, a lost connection or a restart, interleaved resignations.
SPECIFICATION Spec
CONSTANTS
    Games = {g1}
    Actions = {"a", "b"}
    Forms = {"a", "b"}
    Renders <- MCRenders
    MyTurns = {0, 2}
    OutOfTurn = {"resign"}
    Workers = 2
    Futures = {f1, f2, f3}
    MaxMoves = 3
    Setups <- MCRestart
INVARIANTS
    ThreadsAreSound
    NoTurnForgotten
PROPERTIES
    SendsOnlyFresh
    UsesJournalSerially
CHECK_DEADLOCK FALSE
