\* Four objects, one without a destructor, on each kind of platform: chains of
\* initializers three deep, a failed initialization, both ways to exit.
\* Two threads and three nodes: the first generation of two cells fills, both
\* threads race to create the second of four, mappings fail, and the words wrap
\* after two positions.
CONSTANTS
    Objects = {a, b, c, d}
    Droppable = {a, b, c}
    Platforms = {"none", "once", "sticky"}
    MaxThrows = 1
    Threads = {t1, t2}
    Nodes = {n1, n2, n3}
    None = none
    SlotCount = 2
    Generations = {1, 2}
    W = 32
    Start0 = 30
    MaxPushes = 5
SPECIFICATION MCSpec
SYMMETRY Interchangeable
INVARIANTS
    ObjectsInv
    QueueTellsTruth
PROPERTIES
    KeepsPromise
    GenerationsAreFIFO
\* A thread ends, and a panic stops it; at the bound on pushes both threads may
\* be about to claim a cell.
CHECK_DEADLOCK FALSE
