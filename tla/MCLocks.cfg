\* Safety and liveness of the futex mutex with four contending threads, and of
\* three threads accessing two globals, one used by the other's initializer,
\* with two exceptions.  Liveness is checked too, so no symmetry is used.
CONSTANTS
    Contenders = {t1, t2, t3, t4}
    Threads = {t1, t2, t3}
    Objects = {a, b}
    None = none
    a = a
    b = b
    Uses <- ChainUses
    Height <- ChainHeight
    MaxThrows = 2
SPECIFICATION MCSpec
INVARIANTS
    MutualExclusion
    NoLostWakeup
    GuardInv
PROPERTIES
    SomeoneGetsIn
    MutexKeepsPromise
    EveryAccessEnds
    KeepsPromise
