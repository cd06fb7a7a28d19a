SPECIFICATION MCSpec
CONSTANTS
    MaxCalls = 4
    MaxRounds = 2
    MaxRecon = 1
    MaxDenials = 2
    MaxVerification = 1
    MaxEffects = 2
    MaxIdentical = 3
    MaxSubmits = 3
    MaxAutonomous = 2
    PermitTokens = 5
    DayTokens = 6
    Reservation = 2
    TurnCosts = {3}
    SessionSubmits = 1
    MaxRotations = 2
    Cases <- MCCases
    t1 = t1
    t2 = t2
    f = f
    Tasks = {t1, t2}
    Writes <- MCWrites
    PlaneCases <- MCPlaneCases
    MaxSessions = 2
    MaxRuns = 2
INVARIANTS
    TurnsAreSound
    SpendIsCovered
    TurnsAreSerial
    TasksAreTracked
    NoLostWakeUp
PROPERTY
    WorkStopsWhenTold
