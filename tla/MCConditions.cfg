\* Three threads.  A ring of two entries and up to four pushes of a pointer or of the null
\* pointer: the ring fills, empties and wraps, and both conditions have sleepers.  Three
\* releases of one or two permits beside the one there is, of which a SZ holds three.
CONSTANTS
    Threads = {t1, t2, t3}
    None = none
    Conditions = {"readable", "writable"}
    Values = {v, null}
    Null = null
    Capacity = 2
    MaxPushes = 4
    InitialCount = 1
    Batches = {1, 2}
    LargestSZ = 3
    MaxReleases = 3
SPECIFICATION MCSpec
INVARIANTS
    SleepersSpokenFor
PROPERTIES
    IsBoundedFIFO
    NobodyStaysStranded
\* All threads may end up waiting for pointers or permits nobody provides any more,
\* and an ASSERT stops the program.
CHECK_DEADLOCK FALSE
