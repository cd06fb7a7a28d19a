\* The whole interface, authorised retries included.
SPECIFICATION ApiSpec
CONSTANTS
    Games = {g1}
    Actions <- MCActions
    Forms <- MCForms
    Renders <- MCRenders
    MyTurns <- MCMyTurns
    OutOfTurn = {"resign"}
    MaxErrors = 1
    MaxMoves = 2
    MaxGrants = 1
    MaxLines = 2
INVARIANTS
    TypeOK
    AtMostOnePending
PROPERTY
    SettledStays
CHECK_DEADLOCK FALSE
