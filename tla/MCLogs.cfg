CONSTANTS
    p1 = p1
    p2 = p2
    i1 = i1
    cpu = cpu
    disk = disk
    Process = {p1, p2}
    Inode = {i1}
    MaxRecords = 4
    Screened = {"process", "disk", "res_acq"}
    CPU = cpu
    DISK = disk
    Thread = {cpu, disk}
SPECIFICATION LogsSpec
INVARIANTS
    CountsUsers
    ActiveIsInUse
    LogsTypeOK
    ViewHasANode
    NothingUnnoticed
    MemoryRedrawn
    TransfersWithinUse
PROPERTIES
    ShownInOrder
    ViewCatchesUp
CHECK_DEADLOCK FALSE
