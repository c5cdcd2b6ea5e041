CONSTANTS
    NULL = NULL
    UNSET = UNSET
    Name = {s1, s2}
SPECIFICATION SemTableSpec
INVARIANTS
    EntriesAreInitialised
