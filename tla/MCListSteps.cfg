CONSTANTS
    n1 = n1
    n2 = n2
    n3 = n3
    n4 = n4
    cpu = cpu
    other = other
    NULL = NULL
    Node = {n1, n2, n3, n4}
    Thread = {cpu, other}
    Uses <- AllUses
SPECIFICATION StepsSpec
INVARIANTS
    IntactUnlessTheyMeet
    SearchMissesNobody
PROPERTIES
    LoneCallIsAtomic
SYMMETRY Symmetry
CHECK_DEADLOCK FALSE
