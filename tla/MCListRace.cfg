CONSTANTS
    n1 = n1
    n2 = n2
    n3 = n3
    n4 = n4
    cpu = cpu
    other = other
    NULL = NULL
    Node = {n1, n2, n3, n4}
    Thread = {cpu, other}
    Uses <- ReadyQueueOnly
SPECIFICATION StepsSpec
INVARIANT AddedIsListed
CHECK_DEADLOCK FALSE
