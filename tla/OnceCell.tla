------------------------------ MODULE OnceCell ------------------------------
(***************************************************************************)
(* What a guarded global promises (runtime-module-contracts, "Global       *)
(* initialization guards"): one caller at a time builds an object; it      *)
(* publishes the object, for good, or gives up so that a later caller can  *)
(* try again.                                                              *)
(***************************************************************************)
CONSTANTS Threads, Objects, None

VARIABLES builder, \* the thread building each object, or None
          ready    \* the published objects

vars == <<builder, ready>>

Init == builder = [o \in Objects |-> None] /\ ready = {}

Begin(t, o) ==
    /\ builder[o] = None
    /\ o \notin ready
    /\ builder' = [builder EXCEPT ![o] = t]
    /\ UNCHANGED ready

Publish(t, o) ==
    /\ builder[o] = t
    /\ builder' = [builder EXCEPT ![o] = None]
    /\ ready' = ready \cup {o}

GiveUp(t, o) ==
    /\ builder[o] = t
    /\ builder' = [builder EXCEPT ![o] = None]
    /\ UNCHANGED ready

Next == \E t \in Threads, o \in Objects :
            Begin(t, o) \/ Publish(t, o) \/ GiveUp(t, o)

Spec == Init /\ [][Next]_vars
=============================================================================
