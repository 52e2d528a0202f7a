----------------------------- MODULE Semaphore -----------------------------
(***************************************************************************)
(* semaphore of std/sources/synchronization.qxs: a number of permits under *)
(* a mutex, and a condition notified after the mutex has been released, so *)
(* that other threads may take the permits, or add more, before anybody is *)
(* woken for them.                                                         *)
(***************************************************************************)
EXTENDS ConditionVariable

CONSTANTS InitialCount,
          Batches,     \* counts passed to release, none of them 0
          LargestSZ,   \* the largest number of permits a SZ holds
          MaxReleases  \* bound: calls of release

\* What the program gives the constants; who instantiates the module assumes it.
SemaphoreTypes ==
    /\ IsFiniteSet(Threads)
    /\ Conditions = {"permit"}
    /\ Batches \subseteq Nat \ {0}
    /\ LargestSZ \in Nat /\ InitialCount \in 0..LargestSZ
    /\ MaxReleases \in Nat

VARIABLES count,
          adding,    \* the argument of each thread's release
          releases,  \* calls of release so far
          panicked   \* an ASSERT failed and the program has stopped

semaphoreVars == <<count, adding, releases, panicked>>

vars == <<cvVars, semaphoreVars>>

Places == CallPlaces \cup {"out", "acquireLock", "acquireTest", "tryLock", "tryTest",
                           "releaseLock", "releaseTest", "releaseUnlock", "notify",
                           "unlocking"}

TypeOK ==
    /\ owner \in Threads \cup {None}
    /\ at \in [Threads -> Places]
    /\ count \in 0..LargestSZ

Init ==
    /\ CVInit
    /\ count = InitialCount
    /\ adding = [t \in Threads |-> 0]
    /\ releases = 0
    /\ panicked = FALSE

-----------------------------------------------------------------------------
Call(t, place) ==
    /\ at[t] = "out"
    /\ Goto(t, place)
    /\ UNCHANGED <<owner, sequence, waiters, call>>

CallAcquire(t) == Call(t, "acquireLock") /\ UNCHANGED semaphoreVars

CallTryAcquire(t) == Call(t, "tryLock") /\ UNCHANGED semaphoreVars

CallRelease(t) ==
    /\ releases < MaxReleases
    /\ releases' = releases + 1
    /\ \E n \in Batches : adding' = [adding EXCEPT ![t] = n]
    /\ Call(t, "releaseLock")
    /\ UNCHANGED <<count, panicked>>

LockForAcquire(t) == Lock(t, "acquireLock", "acquireTest") /\ UNCHANGED semaphoreVars

LockForTry(t) == Lock(t, "tryLock", "tryTest") /\ UNCHANGED semaphoreVars

LockForRelease(t) == Lock(t, "releaseLock", "releaseTest") /\ UNCHANGED semaphoreVars

WaitForPermit(t) ==
    /\ at[t] = "acquireTest"
    /\ count = 0
    /\ EnterWait(t, "permit", "acquireTest")
    /\ UNCHANGED semaphoreVars

TakePermit(t) ==
    /\ at[t] \in {"acquireTest", "tryTest"}
    /\ count # 0
    /\ count' = count - 1
    /\ Goto(t, "unlocking")
    /\ UNCHANGED <<owner, sequence, waiters, call, adding, releases, panicked>>

GiveUp(t) ==
    /\ at[t] = "tryTest"
    /\ count = 0
    /\ Goto(t, "unlocking")
    /\ UNCHANGED <<owner, sequence, waiters, call, semaphoreVars>>

UnlockAndReturn(t) == Unlock(t, "unlocking", "out") /\ UNCHANGED semaphoreVars

\* The permits are counted, or too many for a SZ, which an ASSERT notices.
AddPermits(t) ==
    /\ at[t] = "releaseTest"
    /\ IF count <= LargestSZ - adding[t]
       THEN count' = count + adding[t] /\ UNCHANGED panicked
       ELSE panicked' = TRUE /\ UNCHANGED count
    /\ Goto(t, "releaseUnlock")
    /\ UNCHANGED <<owner, sequence, waiters, call, adding, releases>>

UnlockThenNotify(t) == Unlock(t, "releaseUnlock", "notify") /\ UNCHANGED semaphoreVars

\* mutant: several permits wake one thread.
NotifyOne(t) ==
    /\ at[t] = "notify"
    /\ EnterNotify(t, "permit", "out")
    /\ adding' = [adding EXCEPT ![t] = 0]
    /\ UNCHANGED <<count, releases, panicked>>

Notify(t) ==
    /\ at[t] = "notify"
    /\ IF adding[t] = 1 THEN EnterNotify(t, "permit", "out")
                        ELSE EnterNotifyAll(t, "permit", "out")
    /\ adding' = [adding EXCEPT ![t] = 0]
    /\ UNCHANGED <<count, releases, panicked>>

-----------------------------------------------------------------------------
Step(t) ==
    /\ ~panicked
    /\ \/ WaitForPermit(t) \/ TakePermit(t) \/ GiveUp(t) \/ UnlockAndReturn(t)
       \/ AddPermits(t) \/ UnlockThenNotify(t) \/ Notify(t)
       \/ CallStep(t) /\ UNCHANGED semaphoreVars

TakeMutex(t) ==
    /\ ~panicked
    /\ \/ LockForAcquire(t) \/ LockForTry(t) \/ LockForRelease(t)
       \/ Relock(t) /\ UNCHANGED semaphoreVars

Next == \E t \in Threads :
    \/ Step(t) \/ TakeMutex(t)
    \/ /\ ~panicked
       /\ \/ CallAcquire(t) \/ CallTryAcquire(t) \/ CallRelease(t)
          \/ WakeSpuriously(t) /\ UNCHANGED semaphoreVars

Spec == Init /\ [][Next]_vars

\* Threads are scheduled, a free mutex is taken by somebody.
FairSpec ==
    /\ Spec
    /\ \A t \in Threads : WF_vars(Step(t))
    /\ WF_vars(\E t \in Threads : TakeMutex(t))

-----------------------------------------------------------------------------
\* Threads that will look at the permits, or wake somebody who does.
OnTheirWay ==
    {t \in Threads : at[t] \in {"deregister", "relock", "acquireTest", "tryTest",
                                "releaseUnlock", "notify", "check", "wake"}}

\* Somebody is about to wake all.
AllAreCalled ==
    \E t \in Threads :
       \/ at[t] \in {"checkAll", "wakeAll"}
       \/ at[t] \in {"releaseUnlock", "notify"} /\ adding[t] > 1

\* While a thread sleeps, each permit is spoken for by another one on its way to it or
\* by a notification, although the mutex is free between the permit and the
\* notification, and notifications overtake each other.
PermitsSpokenFor ==
    ~panicked /\ Asleep("permit") # {} /\ ~AllAreCalled => count <= Cardinality(OnTheirWay)

SemaphoreInv == TypeOK /\ WaitersCounted /\ PermitsSpokenFor

\* Hence nobody sleeps for ever beside a permit, if the system does not go on waking
\* threads for no reason.
WokenForNoReason == \E t \in Threads : WakeSpuriously(t)

Stranded(t) == t \in Asleep("permit") /\ count > 0 /\ ~panicked

NobodyStranded ==
    <>[][~WokenForNoReason]_vars => \A t \in Threads : Stranded(t) ~> ~Stranded(t)
=============================================================================
