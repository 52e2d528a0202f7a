\* main and two threads, on static Linux and elsewhere: each may create,
\* hold, hand over and join others.
CONSTANTS
    Threads = {main, a, b}
    Main = main
    None = none
\* Three threads contending for one region whose reader count saturates at 2.
    Callers = {t1, t2, t3}
    ReaderLimit = 2
SPECIFICATION MCSpec
INVARIANTS
    HandleInv
    MainEndsLast
    ControlInv
PROPERTIES
    EveryJoinReturns
    DrainEnds
    EveryCallEnds
\* The process ends, or a PANIC ends it.
CHECK_DEADLOCK FALSE
