SPECIFICATION MCSpec
CONSTANTS
    guardian = guardian
    operator = operator
    Hunters = {guardian, operator}
    Once = {operator}
    MaxPods = 2
    MaxOffers = 2
    MaxDeaths = 2
    MaxFaults = 2
    MaxLaunches = 2
    MaxRecoveries = 2
    Games = {g1, g2}
    Cases <- AllCases
    g1 = g1
    g2 = g2
INVARIANTS
    SpendIsKnown
    ProcessesAreApart
PROPERTIES
    GoneIsNoticed
    AuthorityIsKept
    SupervisionGoesOn
CHECK_DEADLOCK FALSE
