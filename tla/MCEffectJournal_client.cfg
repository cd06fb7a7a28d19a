\* The calls the client makes, server interleaving resignations.
SPECIFICATION ClientSpec
CONSTANTS
    Games = {g1}
    Actions <- MCActions
    Forms <- MCForms
    Renders <- MCRenders
    MyTurns <- MCMyTurns
    OutOfTurn = {"resign", "leave"}
    MaxErrors = 1
    MaxMoves = 4
    MaxGrants = 1
    MaxLines = 3
INVARIANTS
    SecondLineOnlyAfterError
    OutcomeIsTrue
PROPERTY
    ImplementsAuthority
CHECK_DEADLOCK FALSE
