CONSTANTS
    p1 = p1
    p2 = p2
    p3 = p3
    s = s
    t = t
    NULL = NULL
    Process = {p1, p2}
    Sem = {s, t}
    Program <- ReadProgram
    BlankLines <- NoBlankLines
    UninitInstr <- MCUninitInstr
    Priority <- MCPriority
    Charges <- MCCharges
    SegId <- MCSegId
    SegSize <- MCSegSize
    MAX_MEM_SIZE = 4
    PAGE_SIZE = 1
    INSTRUCTIONS_PER_PAGE = 4
    DISK_TRACK_LIMIT = 1
    LEFT_OVERS = 2
SPECIFICATION KernelSafety
PROPERTIES
    PcWithinCode
