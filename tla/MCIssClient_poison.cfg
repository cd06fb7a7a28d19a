\* A table error while a worker thread sends.
SPECIFICATION Spec
CONSTANTS
    Games = {g1}
    Actions = {"a"}
    Forms = {"a"}
    Renders <- MCRenders
    MyTurns = {0, 2}
    OutOfTurn = {}
    Workers = 1
    Futures = {f1, f2, f3}
    MaxMoves = 2
    Setups <- MCError
INVARIANT
    JournalStaysReadable
CHECK_DEADLOCK FALSE
