----------------------------- MODULE Lifetimes -----------------------------
(***************************************************************************)
(* What a thread's PER_THREAD objects are promised: an object lives once,  *)
(* from its completed initialization to the thread's exit, and objects die *)
(* in reverse order of completion                                          *)
(* (website/docs/reference/thread-local-variables.md).                     *)
(***************************************************************************)
EXTENDS Naturals, Sequences

CONSTANT Droppable

VARIABLES live,     \* the living objects, oldest first
          dead,     \* the destroyed ones
          exiting

Init == live = <<>> /\ dead = {} /\ exiting = FALSE

Birth(o) ==
    /\ ~exiting
    /\ o \notin dead
    /\ \A i \in DOMAIN live : live[i] # o
    /\ live' = Append(live, o)
    /\ UNCHANGED <<dead, exiting>>

Exit == ~exiting /\ exiting' = TRUE /\ UNCHANGED <<live, dead>>

Death ==
    /\ exiting
    /\ live # <<>>
    /\ dead' = dead \cup {live[Len(live)]}
    /\ live' = SubSeq(live, 1, Len(live) - 1)
    /\ UNCHANGED exiting

Next == Exit \/ Death \/ \E o \in Droppable : Birth(o)

Spec == Init /\ [][Next]_<<live, dead, exiting>>
=============================================================================
