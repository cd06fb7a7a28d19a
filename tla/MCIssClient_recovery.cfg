\* Lost connections, restarts and failing decisions: no turn of ours is
\* dropped, with an executor and without.
SPECIFICATION FairSpec
CONSTANTS
    Games = {g1}
    Actions = {"a"}
    Forms = {"a"}
    Renders <- MCRenders
    MyTurns = {0, 2}
    OutOfTurn = {"resign"}
    Workers = 1
    Futures = {f1, f2, f3}
    MaxMoves = 3
    Setups <- MCTrouble
INVARIANT
    FailedGameIsSettled
PROPERTY
    TurnsAreServed
CHECK_DEADLOCK FALSE
