CONSTANTS
    p1 = p1
    p2 = p2
    p3 = p3
    p4 = p4
    s = s
    st = st
    r1 = r1
    r2 = r2
    r3 = r3
    NULL = NULL
    UNSET = UNSET
    Process = {p1, p2, p3, p4}
    Name = {s, st}
    Record = {r1, r2, r3}
    Cut <- MCCut
    File <- MCFile
    SegId <- MCSegId
    SegSize <- MCSegSize
    CodeLen <- MCCodeLen
    MAX_MEM_SIZE = 3
    PAGE_SIZE = 1
    INSTRUCTIONS_PER_PAGE = 2
SPECIFICATION LoaderSpec
INVARIANTS
    NoLostMemory
CHECK_DEADLOCK FALSE
