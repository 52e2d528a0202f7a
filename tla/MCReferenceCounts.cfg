\* Three strong pointers, a weak one and a weak one inside the object: copies
\* and locks race with the release of the last owner.
\* Three threads share three addresses for extents of one or two regions; the
\* pool keeps one region.
\* Two threads share six blocks of two homes in plates of two, and a budget of one
\* plate each; three of four slow calls run alone.
CONSTANTS
    Strong = {p1, p2, p3}
    Weak = {w1, i1}
    Inside = {i1}
    None = none
    Threads = {t1, t2, t3}
    Extents = {e1, e2, e3}
    Span = 2
    Promotion = 1
    Limit = 1
    MaxCalls = 5
    Users = {u1, u2}
    Blocks = 6
    Mappings = {1, 2}
    PlatesEach = 3
    Homes = 2
    Capacity = 2
    Budget = 2
    Slots = 1
    EmptySlots = 2
    MaxSlowCalls = 4
    Alone = 3
SPECIFICATION MCSpec
SYMMETRY Interchangeable
INVARIANTS
    CountsExact
    OwnersKeepObject
    FreedWhenUnused
    AllocatorExact
PROPERTIES
    NoResurrection
    RegionsStayMapped
\* Everything stops when the block has been freed, or the calls are made.
CHECK_DEADLOCK FALSE
