--------------------------- MODULE RegionControl ---------------------------
(***************************************************************************)
(* The 32-bit shared/exclusive semaphore of an allocation region           *)
(* (layer3_region_control in runtime/sources/allocation_regions.qxs).      *)
(* Returning threads take shared access; refilling and retiring threads    *)
(* try for exclusive access, which refuses new readers at once and then    *)
(* spins until the readers inside have left.                               *)
(*                                                                         *)
(* The word is a record: x the exclusive bit, r the requested bit (some    *)
(* reader wants a notification), n the reader count.  `seen' is the local  *)
(* variable `observed' of the call a thread is executing.                  *)
(***************************************************************************)
EXTENDS Naturals, FiniteSets, Futex

CONSTANTS Threads,
          ReaderLimit  \* layer3_region_readers: 2^30 - 1 in the code

\* Assumed by the instances.
ReaderLimitIsPositive == ReaderLimit \in Nat \ {0}
ThreadsIsFinite == IsFiniteSet(Threads)

VARIABLES word, seen, at,
          blocking \* does the thread's shared access wait, or only try?

vars == <<word, seen, at, blocking>>

Words == [x : BOOLEAN, r : BOOLEAN, n : 0..ReaderLimit]

Zero == [x |-> FALSE, r |-> FALSE, n |-> 0]

Places == {"out", "sLoad", "sCas", "wLoad", "wMark", "wSleep", "asleep",
           "shared", "xLoad", "xCas", "drain", "exclusive", "xUnlock",
           "notify"}

TypeOK ==
    /\ word \in Words
    /\ seen \in [Threads -> Words]
    /\ at \in [Threads -> Places]
    /\ blocking \in [Threads -> BOOLEAN]

Init ==
    /\ word = Zero
    /\ seen = [t \in Threads |-> Zero]
    /\ at = [t \in Threads |-> "out"]
    /\ blocking = [t \in Threads |-> FALSE]

\* The places where `observed' is alive; elsewhere the model forgets it.
Watching == {"sCas", "wMark", "wSleep", "xCas", "xUnlock"}

Goto(t, place) == at' = [at EXCEPT ![t] = place]

\* Continue at `place' having observed w.
Observe(t, w, place) ==
    /\ Goto(t, place)
    /\ seen' = [seen EXCEPT ![t] = IF place \in Watching THEN w ELSE Zero]

\* A COMPARE_EXCHANGE: install `desired' and continue at `won', or observe the
\* word again and continue at `lost'.
Cas(t, desired, won, lost) ==
    IF word = seen[t]
    THEN word' = desired /\ Observe(t, desired, won)
    ELSE Observe(t, word, lost) /\ UNCHANGED word

\* Where a thread goes after observing w: the loop conditions of the calls.
SharedDespiteClaim(t, w) == \* mutant: admits readers while the claimant drains
    IF w.n # ReaderLimit THEN "sCas"
    ELSE IF blocking[t] THEN "wLoad" ELSE "out"

AfterSharedSees(t, w) ==
    IF ~w.x /\ w.n # ReaderLimit THEN "sCas"
    ELSE IF blocking[t] THEN "wLoad" ELSE "out"

AfterWaiterSees(w) == IF w.x THEN "wMark" ELSE "sLoad"

AfterExclusiveSees(w) == IF w.x THEN "out" ELSE "xCas"

-----------------------------------------------------------------------------
\* try_shared (not blocking) and shared (blocking).
CallShared(t) ==
    /\ at[t] = "out"
    /\ \E b \in BOOLEAN : blocking' = [blocking EXCEPT ![t] = b]
    /\ Goto(t, "sLoad")
    /\ UNCHANGED <<word, seen>>

SharedLoad(t) ==
    /\ at[t] = "sLoad"
    /\ Observe(t, word, AfterSharedSees(t, word))
    /\ UNCHANGED <<word, blocking>>

SharedCas(t) ==
    /\ at[t] = "sCas"
    /\ Cas(t, [seen[t] EXCEPT !.n = @ + 1], "shared", AfterSharedSees(t, word))
    /\ UNCHANGED blocking

WaiterLoad(t) ==
    /\ at[t] = "wLoad"
    /\ Observe(t, word, AfterWaiterSees(word))
    /\ UNCHANGED <<word, blocking>>

\* Register for a notification unless the observed word is marked already.
WaiterMark(t) ==
    /\ at[t] = "wMark"
    /\ IF seen[t].r
       THEN Observe(t, seen[t], "wSleep") /\ UNCHANGED word
       ELSE Cas(t, [seen[t] EXCEPT !.r = TRUE], "wSleep", AfterWaiterSees(word))
    /\ UNCHANGED blocking

WaiterSleep(t) ==
    /\ at[t] = "wSleep"
    /\ Observe(t, word, IF FutexSleeps(word, seen[t]) THEN "asleep" ELSE "sLoad")
    /\ UNCHANGED <<word, blocking>>

WakeSpuriously(t) ==
    /\ at[t] = "asleep"
    /\ Goto(t, "sLoad")
    /\ UNCHANGED <<word, seen, blocking>>

ReleaseShared(t) ==
    /\ at[t] = "shared"
    /\ word' = [word EXCEPT !.n = @ - 1]
    /\ Goto(t, "out")
    /\ UNCHANGED <<seen, blocking>>

-----------------------------------------------------------------------------
\* try_exclusive: claim the bit, then drain the readers that are inside.
CallExclusive(t) ==
    /\ at[t] = "out"
    /\ Goto(t, "xLoad")
    /\ UNCHANGED <<word, seen, blocking>>

ExclusiveLoad(t) ==
    /\ at[t] = "xLoad"
    /\ Observe(t, word, AfterExclusiveSees(word))
    /\ UNCHANGED <<word, blocking>>

ExclusiveCas(t) ==
    /\ at[t] = "xCas"
    /\ Cas(t, [seen[t] EXCEPT !.x = TRUE], "drain", AfterExclusiveSees(word))
    /\ UNCHANGED blocking

DrainNothing(t) == \* mutant: takes the bit for the whole lock
    /\ at[t] = "drain"
    /\ Goto(t, "exclusive")
    /\ UNCHANGED <<word, seen, blocking>>

Drain(t) ==
    /\ at[t] = "drain"
    /\ word.n = 0
    /\ Goto(t, "exclusive")
    /\ UNCHANGED <<word, seen, blocking>>

\* release_exclusive: load, CAS to zero until it succeeds, notify if asked to.
ReleaseLoad(t) ==
    /\ at[t] = "exclusive"
    /\ Observe(t, word, "xUnlock")
    /\ UNCHANGED <<word, blocking>>

ReleaseStore(t) == \* mutant: a plain store after the load
    /\ at[t] = "xUnlock"
    /\ word' = Zero
    /\ Observe(t, Zero, IF seen[t].r THEN "notify" ELSE "out")
    /\ UNCHANGED blocking

ReleaseCas(t) ==
    /\ at[t] = "xUnlock"
    /\ Cas(t, Zero, IF seen[t].r THEN "notify" ELSE "out", "xUnlock")
    /\ UNCHANGED blocking

Notify(t) ==
    /\ at[t] = "notify"
    /\ at' = [u \in Threads |-> IF u = t THEN "out"
                                ELSE IF at[u] = "asleep" THEN "sLoad" ELSE at[u]]
    /\ UNCHANGED <<word, seen, blocking>>

-----------------------------------------------------------------------------
SharedStep(t) ==
    \/ SharedLoad(t) \/ SharedCas(t) \/ ReleaseShared(t)
    \/ WaiterLoad(t) \/ WaiterMark(t) \/ WaiterSleep(t)

ExclusiveStep(t) ==
    \/ ExclusiveLoad(t) \/ ExclusiveCas(t) \/ Drain(t)
    \/ ReleaseLoad(t) \/ ReleaseCas(t) \/ Notify(t)

Next == \E t \in Threads :
           \/ CallShared(t) \/ CallExclusive(t) \/ WakeSpuriously(t)
           \/ SharedStep(t) \/ ExclusiveStep(t)

Spec == Init /\ [][Next]_vars

\* Every runnable thread is eventually scheduled, and whoever obtained access
\* gives it back; calls and spurious wake-ups are not promised.
FairSpec ==
    Spec /\ \A t \in Threads : WF_vars(SharedStep(t)) /\ WF_vars(ExclusiveStep(t))

-----------------------------------------------------------------------------
Readers == {t \in Threads : at[t] = "shared"}

Claims(t) == at[t] \in {"drain", "exclusive", "xUnlock"}

\* The word tells the truth: the count is the number of threads with shared
\* access, and the exclusive bit belongs to exactly one claimant.
WordTellsTruth ==
    /\ word.n = Cardinality(Readers)
    /\ word.x <=> \E t \in Threads : Claims(t)
    /\ word.r => word.x

\* Exclusive access excludes: once the drain has ended, no reader is inside
\* and none enters before the release, and no two threads claim the region.
ExclusiveExcludes ==
    /\ \A t, u \in Threads : Claims(t) /\ Claims(u) => t = u
    /\ (\E t \in Threads : at[t] \in {"exclusive", "xUnlock"}) => Readers = {}

\* A reader sleeps only on a word that obliges the claimant to notify it, or
\* while that notification is on its way.
SleeperIsOwedNotice ==
    (\E t \in Threads : at[t] = "asleep") =>
        (word.x /\ word.r) \/ \E t \in Threads : at[t] = "notify"

\* The word tells who has access, exclusive access excludes, and every sleeper
\* is owed its notification.
ControlInv == TypeOK /\ WordTellsTruth /\ ExclusiveExcludes /\ SleeperIsOwedNotice

\* The spin in try_exclusive ends: readers leave and no new one gets in.
DrainEnds == \A t \in Threads : at[t] = "drain" ~> at[t] = "exclusive"

\* When callers stop arriving, every call under way ends: shared() is neither
\* left asleep nor sent around its loops for ever.
NobodyArrives == \A t \in Threads : at[t] = "out" => at'[t] = "out"

EveryCallEnds ==
    <>[][NobodyArrives]_vars => \A t \in Threads : at[t] # "out" ~> at[t] = "out"
=============================================================================
