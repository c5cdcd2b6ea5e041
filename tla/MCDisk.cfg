CONSTANTS
    p1 = p1
    p2 = p2
    p3 = p3
    NULL = NULL
    Process = {p1, p2, p3}
    DISK_TRACK_LIMIT = 2
    DiskTrack = {0, 1}
SPECIFICATION TravelSpec
INVARIANTS
    DiskTypeOK
    ServedNodeIsListed
    OneRequestPerProcess
    ServedWithinASweep
    ServedAsForetold
PROPERTIES
    EveryRequestIsServed
