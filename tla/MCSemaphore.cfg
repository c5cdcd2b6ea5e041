CONSTANTS
    p1 = p1
    p2 = p2
    p3 = p3
    s1 = s1
    s2 = s2
    NULL = NULL
    Process = {p1, p2, p3}
    Sem = {s1, s2}
    Priority <- MCPriority
    Charges <- MCCharges
SPECIFICATION SemSpec
CONSTRAINT SBound
INVARIANTS
    SemTypeOK
    ValueCountsWaiters
    WaitersSleep
    OnePlace
    StateAgreesWithPlace
PROPERTIES
    VWakesTheFirstWaiter
    SemImplementsSched
    NoOvertaking
    ImplementsLifecycle
CHECK_DEADLOCK FALSE
SYMMETRY Symmetry
