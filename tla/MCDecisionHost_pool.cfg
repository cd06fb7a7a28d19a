SPECIFICATION DecisionsSpec
CONSTANTS
    thread1 = thread1
    thread2 = thread2
    Callers = {thread1, thread2}
    Keys <- Hands
    MaxProcs = 5
    Cases <- MCCases
    Top = 2
    Series = 2
    HandOf <- MCHandOf
    Host = thread1
    ViewTop = 3
    Tricks = 1
    Shows = 1
INVARIANTS
    PoolIsSound
    DialogueIsSound
    TurnsAreAgreed
PROPERTIES
    EveryCallEnds
CHECK_DEADLOCK FALSE
