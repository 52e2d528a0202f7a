\* Two threads make four calls on up to two regions of two slots, plates of
\* one or more slots spanning both.
CONSTANTS
    Threads = {t1, t2}
    Controls = {c1, c2}
    Regions = {r1, r2}
    None = none
    SlotCount = 2
    PlateSize = 2
    MaxCalls = 4
SPECIFICATION Spec
INVARIANTS
    ClassInv
    FreeSlotsAreFound
PROPERTIES
    CallsEnd
\* The calls made, everything stops.
CHECK_DEADLOCK FALSE
