---------------------------- MODULE UnfairMutex ----------------------------
(***************************************************************************)
(* The three-state futex mutex of runtime/sources/memory.qxs (`mutex',     *)
(* which serializes the allocator) and of std/sources/synchronization.qxs  *)
(* (`thin_mutex', the same instructions on Linux and Windows).             *)
(*                                                                         *)
(* Every atomic instruction and every system call is a step of its own.    *)
(* `at' is where a thread stands in the call it is executing:              *)
(*   "out"     in no call, not owning       "owns"    critical section     *)
(*   "mark"    before CAS 1 -> 2            "release" before STORE 0       *)
(*   "load"    before LOAD                  "wake"    before the wake      *)
(*   "retake"  before CAS 0 -> 2            "asleep"  blocked in the wait  *)
(*   "sleep"   before the wait on value 2                                  *)
(***************************************************************************)
EXTENDS Naturals, Futex

CONSTANTS Threads, None

NoneNotThread == None \notin Threads

VARIABLES state, \* the ATOMIC#I32 word: 0 free, 1 owned, 2 owned and contended
          at     \* where each thread stands

vars == <<state, at>>

Places == {"out", "mark", "load", "retake", "sleep", "asleep",
           "owns", "release", "wake"}

TypeOK == state \in 0..2 /\ at \in [Threads -> Places]

Init == state = 0 /\ at = [t \in Threads |-> "out"]

Goto(t, place) == at' = [at EXCEPT ![t] = place]

Asleep == {t \in Threads : at[t] = "asleep"}

-----------------------------------------------------------------------------
\* try_lock: a single CAS 0 -> 1, giving up when it fails.
TryLock(t) ==
    /\ at[t] = "out"
    /\ state = 0
    /\ state' = 1
    /\ Goto(t, "owns")

TryLockFails(t) ==
    /\ at[t] = "out"
    /\ state # 0
    /\ UNCHANGED vars

\* lock: the fast path succeeds exactly as try_lock does, or enters the loop.
LockContended(t) ==
    /\ at[t] = "out"
    /\ state # 0
    /\ Goto(t, "mark")
    /\ UNCHANGED state

MarkContended(t) ==
    /\ at[t] = "mark"
    /\ state' = IF state = 1 THEN 2 ELSE state
    /\ Goto(t, "load")

Load(t) ==
    /\ at[t] = "load"
    /\ Goto(t, IF state = 0 THEN "retake"
               ELSE IF state = 2 THEN "sleep" ELSE "mark")
    /\ UNCHANGED state

RetakeUnmarked(t) == \* mutant: a late acquirer forgets that others may sleep
    /\ at[t] = "retake"
    /\ IF state = 0
       THEN state' = 1 /\ Goto(t, "owns")
       ELSE UNCHANGED state /\ Goto(t, "mark")

RetakeBlindly(t) == \* mutant: trusts the earlier LOAD instead of a CAS
    /\ at[t] = "retake"
    /\ state' = 2
    /\ Goto(t, "owns")

Retake(t) ==
    /\ at[t] = "retake"
    /\ IF state = 0
       THEN state' = 2 /\ Goto(t, "owns")
       ELSE UNCHANGED state /\ Goto(t, "mark")

Sleep(t) ==
    /\ at[t] = "sleep"
    /\ Goto(t, IF FutexSleeps(state, 2) THEN "asleep" ELSE "mark")
    /\ UNCHANGED state

\* A wait may return although nobody woke the word (signal, spurious wake).
WakeSpuriously(t) ==
    /\ at[t] = "asleep"
    /\ Goto(t, "mark")
    /\ UNCHANGED state

-----------------------------------------------------------------------------
\* unlock: CAS 1 -> 0 succeeds, or the contended path stores 0 and wakes one.
UnlockUncontended(t) ==
    /\ at[t] = "owns"
    /\ state = 1
    /\ state' = 0
    /\ Goto(t, "out")

UnlockContended(t) ==
    /\ at[t] = "owns"
    /\ state # 1
    /\ Goto(t, "release")
    /\ UNCHANGED state

StoreUnlocked(t) ==
    /\ at[t] = "release"
    /\ state' = 0
    /\ Goto(t, "wake")

Wake(t) ==
    /\ at[t] = "wake"
    /\ \E woken \in WakeOne(Asleep) :
          at' = [u \in Threads |-> IF u = t THEN "out"
                                   ELSE IF u \in woken THEN "mark" ELSE at[u]]
    /\ UNCHANGED state

-----------------------------------------------------------------------------
LockStep(t) ==
    MarkContended(t) \/ Load(t) \/ Retake(t) \/ Sleep(t)

UnlockStep(t) ==
    UnlockUncontended(t) \/ UnlockContended(t) \/ StoreUnlocked(t) \/ Wake(t)

Next == \E t \in Threads :
           \/ TryLock(t) \/ TryLockFails(t) \/ LockContended(t)
           \/ LockStep(t) \/ WakeSpuriously(t) \/ UnlockStep(t)

Spec == Init /\ [][Next]_vars

\* The scheduler eventually runs every runnable thread and critical sections
\* end; nobody is obliged to lock, and no spurious wake-up is promised.
Fairness == \A t \in Threads : WF_vars(LockStep(t)) /\ WF_vars(UnlockStep(t))

FairSpec == Spec /\ Fairness

-----------------------------------------------------------------------------
Owning(t) == at[t] \in {"owns", "release"}

\* Mutual exclusion: between the instruction that acquires the mutex and the
\* one that frees it, no other thread is between the same two instructions.
MutualExclusion ==
    \A t, u \in Threads : Owning(t) /\ Owning(u) => t = u

\* The word agrees with ownership: it is 0 exactly when nobody owns the mutex,
\* and an owner past its failed CAS finds 2, the value unlock ASSERTs.
WordMatchesOwner ==
    /\ state = 0 <=> \A t \in Threads : ~Owning(t)
    /\ \A t \in Threads : at[t] = "release" => state = 2

\* No lost wake-up: while a thread sleeps, either the word says "contended",
\* so that the owner will wake one sleeper, or some thread is on its way to
\* wake one or to mark or retake the word.
Awake == {"mark", "load", "retake", "sleep", "wake"}

NoLostWakeup ==
    Asleep # {} => state = 2 \/ \E t \in Threads : at[t] \in Awake

\* The mutex never stays unobtained while threads ask for it.
Waiting(t) == at[t] \in {"mark", "load", "retake", "sleep", "asleep"}

SomeoneGetsIn ==
    (\E t \in Threads : Waiting(t)) ~> (\E t \in Threads : at[t] = "owns")

-----------------------------------------------------------------------------
\* Refinement of the promise: the owner is the thread between the acquiring
\* and the freeing instruction.
OwnerOf == IF \E t \in Threads : Owning(t)
           THEN CHOOSE t \in Threads : Owning(t) ELSE None

Promise == INSTANCE AbstractMutex WITH owner <- OwnerOf,
                                       asking <- {t \in Threads : Waiting(t)}

\* The mutex keeps the promise of AbstractMutex: every step is a step of the
\* promise or changes nothing the client can see.
KeepsPromise == Promise!Spec
=============================================================================
