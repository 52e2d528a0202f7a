------------------------------ MODULE MCLocks ------------------------------
(* The two things that keep the threads of a process apart, the mutex       *)
(* (UnfairMutex) and the initialization guard (InitGuard), checked by one   *)
(* run: part says which of them runs.  The globals are a and b, and the     *)
(* initializer of a uses b.  Values are in the .cfg.                        *)
EXTENDS InitGuard, TLC

CONSTANTS Contenders, \* the threads that want the mutex
          a, b

ChainUses == a :> {b} @@ b :> {}
ChainHeight == a :> 1 @@ b :> 0

VARIABLES part, word, stand \* of the mutex: its state, and where threads stand

Mutex == INSTANCE UnfairMutex WITH Threads <- Contenders, state <- word, at <- stand

ASSUME NoneIsNoContender == Mutex!NoneNotThread

allVars == <<vars, part, word, stand>>

InMutex(A) == part = "mutex" /\ A /\ UNCHANGED <<part, vars>>
InGuards(A) == part = "guards" /\ A /\ UNCHANGED <<part, word, stand>>

MCInit == part \in {"mutex", "guards"} /\ Mutex!Init /\ Init

MCNext == InMutex(Mutex!Next) \/ InGuards(Next)

\* Every runnable thread is scheduled, critical sections and initializers end.
MCSpec ==
    /\ MCInit /\ [][MCNext]_allVars
    /\ \A t \in Contenders : /\ WF_allVars(InMutex(Mutex!LockStep(t)))
                             /\ WF_allVars(InMutex(Mutex!UnlockStep(t)))
    /\ \A t \in Threads : WF_allVars(InGuards(Progress(t)))

\* At most one thread is between the instructions that acquire and free the mutex.
MutualExclusion == Mutex!MutualExclusion

\* Whoever sleeps in lock is owed a wake-up by a thread awake or by the owner.
NoLostWakeup == Mutex!NoLostWakeup

\* The mutex never stays unobtained while threads ask for it.
SomeoneGetsIn == Mutex!SomeoneGetsIn

\* The futex mutex implements AbstractMutex.
MutexKeepsPromise == Mutex!KeepsPromise
=============================================================================
