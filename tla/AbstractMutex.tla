--------------------------- MODULE AbstractMutex ---------------------------
(***************************************************************************)
(* What a mutex promises its clients: at most one thread owns it, only a   *)
(* thread that asked for it obtains it, and only its owner gives it up.    *)
(***************************************************************************)
CONSTANTS Threads, None

VARIABLES owner,  \* the owning thread, or None
          asking  \* threads inside lock() or try_lock()

vars == <<owner, asking>>

TypeOK == owner \in Threads \cup {None} /\ asking \subseteq Threads

Init == owner = None /\ asking = {}

Ask(t) ==
    /\ t \notin asking
    /\ owner # t
    /\ asking' = asking \cup {t}
    /\ UNCHANGED owner

Acquire(t) ==
    /\ t \in asking
    /\ owner = None
    /\ owner' = t
    /\ asking' = asking \ {t}

\* An uncontended lock() or try_lock(): asked and granted in one step.
AcquireAtOnce(t) ==
    /\ t \notin asking
    /\ owner = None
    /\ owner' = t
    /\ UNCHANGED asking

Release(t) ==
    /\ owner = t
    /\ owner' = None
    /\ UNCHANGED asking

Next == \E t \in Threads : Ask(t) \/ Acquire(t) \/ AcquireAtOnce(t) \/ Release(t)

Spec == Init /\ [][Next]_vars
=============================================================================
