---------------------------- MODULE MCConditions ----------------------------
(* The two programs around condition variables, the pointer queue with two  *)
(* conditions notified under the mutex (PointerQueue) and the semaphore     *)
(* with one notified after it (Semaphore), checked by one run: part says    *)
(* which of them runs.  Values are in the .cfg.                             *)
EXTENDS PointerQueue

CONSTANTS InitialCount, Batches, LargestSZ, MaxReleases

VARIABLES part, permits, adding, releases, panicked

Permits == INSTANCE Semaphore WITH Conditions <- {"permit"}, count <- permits

ASSUME SemaphoreAssumption == Permits!SemaphoreTypes

allVars == <<vars, part, permits, adding, releases, panicked>>

semaphoreVars == <<permits, adding, releases, panicked>>

\* One of the two, for the part that runs.
Either(A, B) == \/ part = "queue" /\ A /\ UNCHANGED <<part, semaphoreVars>>
                \/ part = "permits" /\ B /\ UNCHANGED <<part, queueVars>>

MCInit ==
    \/ part = "queue" /\ Init /\ permits = InitialCount /\ adding = [t \in Threads |-> 0]
       /\ releases = 0 /\ panicked = FALSE
    \/ part = "permits" /\ Permits!Init /\ entries = [i \in 0..Capacity - 1 |-> Null]
       /\ head = 0 /\ count = 0 /\ pushing = [t \in Threads |-> Null]
       /\ popped = [t \in Threads |-> Null] /\ pushes = 0

MCNext == Either(Next, Permits!Next)

\* Threads are scheduled, a free mutex is taken by somebody.
MCSpec ==
    /\ MCInit /\ [][MCNext]_allVars
    /\ \A t \in Threads : WF_allVars(Either(Step(t), Permits!Step(t)))
    /\ WF_allVars(\E t \in Threads : Either(TakeMutex(t), Permits!TakeMutex(t)))

\* A sleeper is counted, and what it sleeps for, an entry, a free slot or a permit, is
\* spoken for by threads awake and notifications on their way.
SleepersSpokenFor ==
    IF part = "queue" THEN QueueInv ELSE Permits!SemaphoreInv

\* Nobody sleeps for ever beside an entry, a free slot or a permit.
NobodyStaysStranded ==
    LET stranded(t) == IF part = "queue" THEN Stranded(t) ELSE Permits!Stranded(t) IN
    <>[][~WokenForNoReason]_allVars => \A t \in Threads : stranded(t) ~> ~stranded(t)
=============================================================================
