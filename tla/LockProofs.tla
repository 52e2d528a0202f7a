----------------------------- MODULE LockProofs -----------------------------
(***************************************************************************)
(* Proofs about the two things that keep the threads of a process apart,   *)
(* the mutex (UnfairMutex) and the initialization guard (InitGuard), for   *)
(* any set of threads and, for the guard, any acyclic uses of the globals. *)
(***************************************************************************)
EXTENDS MCLocks, TLAPS

-----------------------------------------------------------------------------
(* The mutex. *)

\* The word is a small integer and every thread stands at a known place, in
\* every behaviour of the lock/try_lock/unlock code.
THEOREM MutexTypeCorrect == Mutex!Spec => []Mutex!TypeOK
<1>1. Mutex!Init => Mutex!TypeOK
  BY DEF Mutex!Init, Mutex!TypeOK, Mutex!Places
<1>2. Mutex!TypeOK /\ [Mutex!Next]_(Mutex!vars) => Mutex!TypeOK'
  <2> SUFFICES ASSUME Mutex!TypeOK, [Mutex!Next]_(Mutex!vars) PROVE Mutex!TypeOK'
    OBVIOUS
  <2> USE DEF Mutex!TypeOK, Mutex!Places, Mutex!Goto
  <2>1. ASSUME NEW t \in Contenders, Mutex!TryLock(t) PROVE Mutex!TypeOK'
    BY <2>1 DEF Mutex!TryLock
  <2>2. ASSUME NEW t \in Contenders, Mutex!TryLockFails(t) PROVE Mutex!TypeOK'
    BY <2>2 DEF Mutex!TryLockFails, Mutex!vars
  <2>3. ASSUME NEW t \in Contenders, Mutex!LockContended(t) PROVE Mutex!TypeOK'
    BY <2>3 DEF Mutex!LockContended
  <2>4. ASSUME NEW t \in Contenders, Mutex!LockStep(t) PROVE Mutex!TypeOK'
    BY <2>4 DEF Mutex!LockStep, Mutex!MarkContended, Mutex!Load, Mutex!Retake, Mutex!Sleep
  <2>5. ASSUME NEW t \in Contenders, Mutex!WakeSpuriously(t) PROVE Mutex!TypeOK'
    BY <2>5 DEF Mutex!WakeSpuriously
  <2>6. ASSUME NEW t \in Contenders, Mutex!UnlockStep(t) PROVE Mutex!TypeOK'
    BY <2>6 DEF Mutex!UnlockStep, Mutex!UnlockUncontended, Mutex!UnlockContended,
                Mutex!StoreUnlocked, Mutex!Wake
  <2>7. CASE UNCHANGED Mutex!vars
    BY <2>7 DEF Mutex!vars
  <2> QED
    BY <2>1, <2>2, <2>3, <2>4, <2>5, <2>6, <2>7 DEF Mutex!Next
<1> QED
  BY <1>1, <1>2, PTL DEF Mutex!Spec

\* The inductive core: at most one thread owns the mutex and the word tells.
Exclusion == Mutex!MutualExclusion /\ Mutex!WordMatchesOwner

LEMMA ExclusionStep ==
  ASSUME Mutex!TypeOK, Exclusion, [Mutex!Next]_(Mutex!vars)
  PROVE  Exclusion'
<1> USE DEF Mutex!TypeOK, Exclusion, Mutex!MutualExclusion, Mutex!WordMatchesOwner,
            Mutex!Owning, Mutex!Goto,
            Mutex!Places
<1>1. ASSUME NEW t \in Contenders, Mutex!TryLock(t) PROVE Exclusion'
  BY <1>1 DEF Mutex!TryLock
<1>2. ASSUME NEW t \in Contenders, Mutex!TryLockFails(t) PROVE Exclusion'
  BY <1>2 DEF Mutex!TryLockFails, Mutex!vars
<1>3. ASSUME NEW t \in Contenders, Mutex!LockContended(t) PROVE Exclusion'
  BY <1>3 DEF Mutex!LockContended
<1>4. ASSUME NEW t \in Contenders, Mutex!MarkContended(t) PROVE Exclusion'
  BY <1>4 DEF Mutex!MarkContended
<1>5. ASSUME NEW t \in Contenders, Mutex!Load(t) PROVE Exclusion'
  BY <1>5 DEF Mutex!Load
<1>6. ASSUME NEW t \in Contenders, Mutex!Retake(t) PROVE Exclusion'
  BY <1>6 DEF Mutex!Retake
<1>7. ASSUME NEW t \in Contenders, Mutex!Sleep(t) PROVE Exclusion'
  BY <1>7 DEF Mutex!Sleep
<1>8. ASSUME NEW t \in Contenders, Mutex!WakeSpuriously(t) PROVE Exclusion'
  BY <1>8 DEF Mutex!WakeSpuriously
<1>9. ASSUME NEW t \in Contenders, Mutex!UnlockUncontended(t) PROVE Exclusion'
  BY <1>9 DEF Mutex!UnlockUncontended
<1>10. ASSUME NEW t \in Contenders, Mutex!UnlockContended(t) PROVE Exclusion'
  BY <1>10 DEF Mutex!UnlockContended
<1>11. ASSUME NEW t \in Contenders, Mutex!StoreUnlocked(t) PROVE Exclusion'
  BY <1>11 DEF Mutex!StoreUnlocked
<1>12. ASSUME NEW t \in Contenders, Mutex!Wake(t) PROVE Exclusion'
  BY <1>12 DEF Mutex!Wake, Mutex!WakeOne, Mutex!Asleep
<1>13. CASE UNCHANGED Mutex!vars
  BY <1>13 DEF Mutex!vars
<1> QED
  BY <1>1, <1>2, <1>3, <1>4, <1>5, <1>6, <1>7, <1>8, <1>9, <1>10, <1>11,
     <1>12, <1>13 DEF Mutex!Next, Mutex!LockStep, Mutex!UnlockStep

LEMMA ExclusionAlways == Mutex!Spec => []Exclusion
<1>1. Mutex!Init => Exclusion
  BY DEF Mutex!Init, Exclusion, Mutex!MutualExclusion, Mutex!WordMatchesOwner, Mutex!Owning
<1> QED
  BY <1>1, MutexTypeCorrect, ExclusionStep, PTL DEF Mutex!Spec

\* Two threads are never both between the instruction that acquires the mutex
\* and the one that frees it.
THEOREM MutualExclusionHolds == Mutex!Spec => []MutualExclusion
<1>1. Exclusion => MutualExclusion
  BY DEF Exclusion, MutualExclusion
<1> QED
  BY <1>1, ExclusionAlways, PTL

\* The state word is 0 exactly when no thread owns the mutex, and the contended
\* unlock always finds 2: its ASSERT cannot fail.
THEOREM WordMatchesOwnerHolds == Mutex!Spec => []Mutex!WordMatchesOwner
<1>1. Exclusion => Mutex!WordMatchesOwner
  BY DEF Exclusion
<1> QED
  BY <1>1, ExclusionAlways, PTL

\* Needs no strengthening beyond the types: each step that could leave a
\* sleeper behind leaves a thread at one of the Awake places.
LEMMA WakeupStep ==
  ASSUME Mutex!TypeOK, Mutex!NoLostWakeup, [Mutex!Next]_(Mutex!vars)
  PROVE  Mutex!NoLostWakeup'
<1> USE DEF Mutex!TypeOK, Mutex!NoLostWakeup, Mutex!Asleep, Mutex!Awake, Mutex!Goto,
            Mutex!Places
<1>1. ASSUME NEW t \in Contenders, Mutex!TryLock(t) PROVE Mutex!NoLostWakeup'
  BY <1>1 DEF Mutex!TryLock
<1>2. ASSUME NEW t \in Contenders, Mutex!TryLockFails(t) PROVE Mutex!NoLostWakeup'
  BY <1>2 DEF Mutex!TryLockFails, Mutex!vars
<1>3. ASSUME NEW t \in Contenders, Mutex!LockContended(t) PROVE Mutex!NoLostWakeup'
  BY <1>3 DEF Mutex!LockContended
<1>4. ASSUME NEW t \in Contenders, Mutex!MarkContended(t) PROVE Mutex!NoLostWakeup'
  BY <1>4 DEF Mutex!MarkContended
<1>5. ASSUME NEW t \in Contenders, Mutex!Load(t) PROVE Mutex!NoLostWakeup'
  BY <1>5 DEF Mutex!Load
<1>6. ASSUME NEW t \in Contenders, Mutex!Retake(t) PROVE Mutex!NoLostWakeup'
  BY <1>6 DEF Mutex!Retake
<1>7. ASSUME NEW t \in Contenders, Mutex!Sleep(t) PROVE Mutex!NoLostWakeup'
  BY <1>7 DEF Mutex!Sleep, Mutex!FutexSleeps
<1>8. ASSUME NEW t \in Contenders, Mutex!WakeSpuriously(t) PROVE Mutex!NoLostWakeup'
  BY <1>8 DEF Mutex!WakeSpuriously
<1>9. ASSUME NEW t \in Contenders, Mutex!UnlockUncontended(t) PROVE Mutex!NoLostWakeup'
  BY <1>9 DEF Mutex!UnlockUncontended
<1>10. ASSUME NEW t \in Contenders, Mutex!UnlockContended(t) PROVE Mutex!NoLostWakeup'
  BY <1>10 DEF Mutex!UnlockContended
<1>11. ASSUME NEW t \in Contenders, Mutex!StoreUnlocked(t) PROVE Mutex!NoLostWakeup'
  BY <1>11 DEF Mutex!StoreUnlocked
<1>12. ASSUME NEW t \in Contenders, Mutex!Wake(t) PROVE Mutex!NoLostWakeup'
  <2>1. PICK woken \in Mutex!WakeOne(Mutex!Asleep) :
           stand' = [u \in Contenders |-> IF u = t THEN "out"
                                    ELSE IF u \in woken THEN "mark" ELSE stand[u]]
    BY <1>12 DEF Mutex!Wake
  <2>2. CASE Mutex!Asleep = {}
    BY <1>12, <2>1, <2>2 DEF Mutex!Wake, Mutex!WakeOne
  <2>3. CASE Mutex!Asleep # {}
    <3>1. PICK s \in Mutex!Asleep : woken = {s}
      BY <2>1, <2>3 DEF Mutex!WakeOne
    <3>2. stand'[s] = "mark"
      BY <1>12, <2>1, <3>1 DEF Mutex!Wake
    <3> QED
      BY <3>1, <3>2
  <2> QED
    BY <2>2, <2>3
<1>13. CASE UNCHANGED Mutex!vars
  BY <1>13 DEF Mutex!vars
<1> QED
  BY <1>1, <1>2, <1>3, <1>4, <1>5, <1>6, <1>7, <1>8, <1>9, <1>10, <1>11,
     <1>12, <1>13 DEF Mutex!Next, Mutex!LockStep, Mutex!UnlockStep

\* No thread is left asleep on a word that nobody is going to mark, retake or
\* wake.
THEOREM NoLostWakeupHolds == Mutex!Spec => []NoLostWakeup
<1>1. Mutex!Init => Mutex!NoLostWakeup
  BY DEF Mutex!Init, Mutex!NoLostWakeup, Mutex!Asleep
<1> QED
  BY <1>1, MutexTypeCorrect, WakeupStep, PTL DEF Mutex!Spec, NoLostWakeup

-----------------------------------------------------------------------------
\* The refinement mapping, made explicit: the owner is t exactly when t owns,
\* and None exactly when nobody does.
OwnerIsExact ==
    /\ \A t \in Contenders : Mutex!Owning(t) <=> Mutex!OwnerOf = t
    /\ Mutex!OwnerOf \in Contenders \cup {None}

LEMMA OwnerIsUnique == Mutex!MutualExclusion => OwnerIsExact
<1> SUFFICES ASSUME Mutex!MutualExclusion PROVE OwnerIsExact
  OBVIOUS
<1>1. CASE \E t \in Contenders : Mutex!Owning(t)
  <2>1. Mutex!OwnerOf \in Contenders /\ Mutex!Owning(Mutex!OwnerOf)
    BY <1>1 DEF Mutex!OwnerOf
  <2> QED
    BY <2>1 DEF Mutex!MutualExclusion, OwnerIsExact
<1>2. CASE ~\E t \in Contenders : Mutex!Owning(t)
  BY <1>2, NoneIsNoContender DEF Mutex!NoneNotThread, Mutex!OwnerOf, OwnerIsExact
<1> QED
  BY <1>1, <1>2

Asking == {t \in Contenders : Mutex!Waiting(t)}

\* A step that changes neither who owns nor who waits is invisible.
LEMMA Invisible ==
  ASSUME OwnerIsExact, OwnerIsExact',
         \A t \in Contenders : Mutex!Owning(t)' <=> Mutex!Owning(t),
         \A t \in Contenders : Mutex!Waiting(t)' <=> Mutex!Waiting(t)
  PROVE  UNCHANGED <<Mutex!OwnerOf, Asking>>
<1>1. Mutex!OwnerOf' = Mutex!OwnerOf
  BY NoneIsNoContender DEF Mutex!NoneNotThread, OwnerIsExact
<1>2. Asking' = Asking
  BY DEF Asking
<1> QED
  BY <1>1, <1>2

LEMMA MutexPromiseStep ==
  ASSUME Mutex!TypeOK, Exclusion, OwnerIsExact, OwnerIsExact', [Mutex!Next]_(Mutex!vars)
  PROVE  [Mutex!Promise!Next]_(Mutex!Promise!vars)
<1> USE DEF Mutex!TypeOK, Mutex!Places, Mutex!Goto, Asking
<1>a. \A t \in Contenders : Mutex!Owning(t) => word # 0
  BY DEF Exclusion, Mutex!WordMatchesOwner
<1>b. word = 0 => Mutex!OwnerOf = None
  BY <1>a DEF OwnerIsExact
<1>c. ASSUME UNCHANGED <<Mutex!OwnerOf, Asking>>
      PROVE  [Mutex!Promise!Next]_(Mutex!Promise!vars)
  BY <1>c DEF Mutex!Promise!vars
<1>1. ASSUME NEW t \in Contenders, Mutex!TryLock(t) PROVE Mutex!Promise!AcquireAtOnce(t)
  <2>1. /\ Mutex!Owning(t)' /\ ~Mutex!Waiting(t)
        /\ \A u \in Contenders : Mutex!Waiting(u)' <=> Mutex!Waiting(u)
    BY <1>1 DEF Mutex!TryLock, Mutex!Owning, Mutex!Waiting
  <2> QED
    BY <1>1, <1>b, <2>1 DEF Mutex!TryLock, OwnerIsExact, Mutex!Promise!AcquireAtOnce
<1>2. ASSUME NEW t \in Contenders, Mutex!LockContended(t) PROVE Mutex!Promise!Ask(t)
  <2>1. /\ \A u \in Contenders : Mutex!Owning(u)' <=> Mutex!Owning(u)
        /\ \A u \in Contenders : Mutex!Waiting(u)' <=> (Mutex!Waiting(u) \/ u = t)
        /\ ~Mutex!Waiting(t) /\ ~Mutex!Owning(t)
    BY <1>2 DEF Mutex!LockContended, Mutex!Owning, Mutex!Waiting
  <2> QED
    BY <2>1, NoneIsNoContender DEF Mutex!NoneNotThread, OwnerIsExact, Mutex!Promise!Ask
<1>3. ASSUME NEW t \in Contenders, Mutex!Retake(t), word = 0 PROVE Mutex!Promise!Acquire(t)
  <2>1. /\ Mutex!Owning(t)' /\ Mutex!Waiting(t)
        /\ \A u \in Contenders : Mutex!Waiting(u)' <=> (Mutex!Waiting(u) /\ u # t)
    BY <1>3 DEF Mutex!Retake, Mutex!Owning, Mutex!Waiting
  <2> QED
    BY <1>3, <1>b, <2>1 DEF OwnerIsExact, Mutex!Promise!Acquire
<1>4. ASSUME NEW t \in Contenders, Mutex!UnlockUncontended(t) \/ Mutex!StoreUnlocked(t)
      PROVE  Mutex!Promise!Release(t)
  <2>1. /\ Mutex!Owning(t)
        /\ \A u \in Contenders : Mutex!Owning(u)' <=> (Mutex!Owning(u) /\ u # t)
        /\ \A u \in Contenders : Mutex!Waiting(u)' <=> Mutex!Waiting(u)
    BY <1>4 DEF Mutex!UnlockUncontended, Mutex!StoreUnlocked, Mutex!Owning, Mutex!Waiting
  <2>2. \A u \in Contenders : ~Mutex!Owning(u)'
    BY <2>1 DEF Exclusion, Mutex!MutualExclusion
  <2> QED
    BY <2>1, <2>2, NoneIsNoContender DEF Mutex!NoneNotThread, OwnerIsExact,
      Mutex!Promise!Release
<1>5. ASSUME NEW t \in Contenders,
             \/ Mutex!MarkContended(t) \/ Mutex!Load(t) \/ Mutex!Sleep(t)
             \/ Mutex!WakeSpuriously(t)
             \/ (Mutex!Retake(t) /\ word # 0) \/ Mutex!UnlockContended(t)
      PROVE  UNCHANGED <<Mutex!OwnerOf, Asking>>
  <2>1. /\ \A u \in Contenders : Mutex!Owning(u)' <=> Mutex!Owning(u)
        /\ \A u \in Contenders : Mutex!Waiting(u)' <=> Mutex!Waiting(u)
    BY <1>5 DEF Mutex!MarkContended, Mutex!Load, Mutex!Sleep, Mutex!WakeSpuriously,
                Mutex!Retake,
                Mutex!UnlockContended, Mutex!Owning, Mutex!Waiting
  <2> QED
    BY <2>1, Invisible
<1>6. ASSUME NEW t \in Contenders, Mutex!Wake(t) PROVE UNCHANGED <<Mutex!OwnerOf, Asking>>
  <2>1. \A u \in Contenders : (stand'[u] = stand[u])
                           \/ (u = t /\ stand[u] = "wake" /\ stand'[u] = "out")
                           \/ (stand[u] = "asleep" /\ stand'[u] = "mark")
    BY <1>6 DEF Mutex!Wake, Mutex!WakeOne, Mutex!Asleep
  <2>2. /\ \A u \in Contenders : Mutex!Owning(u)' <=> Mutex!Owning(u)
        /\ \A u \in Contenders : Mutex!Waiting(u)' <=> Mutex!Waiting(u)
    BY <2>1 DEF Mutex!Owning, Mutex!Waiting
  <2> QED
    BY <2>2, Invisible
<1>7. CASE UNCHANGED Mutex!vars
  <2>1. /\ \A u \in Contenders : Mutex!Owning(u)' <=> Mutex!Owning(u)
        /\ \A u \in Contenders : Mutex!Waiting(u)' <=> Mutex!Waiting(u)
    BY <1>7 DEF Mutex!vars, Mutex!Owning, Mutex!Waiting
  <2> QED
    BY <1>c, <2>1, Invisible
<1>8. ASSUME NEW t \in Contenders, Mutex!Promise!Ask(t) \/ Mutex!Promise!Acquire(t)
                 \/ Mutex!Promise!AcquireAtOnce(t) \/ Mutex!Promise!Release(t)
      PROVE  [Mutex!Promise!Next]_(Mutex!Promise!vars)
  BY <1>8 DEF Mutex!Promise!Next
<1>9. ASSUME NEW t \in Contenders, Mutex!TryLockFails(t)
      PROVE  [Mutex!Promise!Next]_(Mutex!Promise!vars)
  BY <1>7, <1>9 DEF Mutex!TryLockFails
<1> QED
  BY <1>c, <1>1, <1>2, <1>3, <1>4, <1>5, <1>6, <1>7, <1>8, <1>9
  DEF Mutex!Next, Mutex!LockStep, Mutex!UnlockStep

\* The futex mutex implements AbstractMutex: whatever the interleaving of its
\* instructions, clients see asks, grants to at most one owner, and releases.
THEOREM MutexImplements == Mutex!Spec => MutexKeepsPromise
<1>1. Mutex!Init => Mutex!Promise!Init
  <2> SUFFICES ASSUME Mutex!Init PROVE Mutex!Promise!Init
    OBVIOUS
  <2>1. \A t \in Contenders : ~Mutex!Owning(t) /\ ~Mutex!Waiting(t)
    BY DEF Mutex!Init, Mutex!Owning, Mutex!Waiting
  <2> QED
    BY <2>1 DEF Mutex!Promise!Init, Mutex!OwnerOf
<1>2. Mutex!TypeOK /\ Exclusion /\ OwnerIsExact /\ OwnerIsExact'
      /\ [Mutex!Next]_(Mutex!vars)
        => [Mutex!Promise!Next]_(Mutex!Promise!vars)
  BY MutexPromiseStep
<1>3. Exclusion => OwnerIsExact
  BY OwnerIsUnique DEF Exclusion
<1> QED
  BY <1>1, <1>2, <1>3, MutexTypeCorrect, ExclusionAlways, PTL
  DEF Mutex!Spec, MutexKeepsPromise, Mutex!KeepsPromise, Mutex!Promise!Spec

-----------------------------------------------------------------------------
(* The guard: the stacks of accesses. *)

LEMMA Popped ==
  ASSUME NEW s \in Seq(Objects), s # <<>>
  PROVE  LET p == SubSeq(s, 1, Len(s) - 1) IN
         /\ p \in Seq(Objects)
         /\ Len(p) = Len(s) - 1
         /\ \A i \in 1..Len(s) - 1 : p[i] = s[i]
         /\ p = <<>> <=> Len(s) = 1
<1>1. Len(s) - 1 \in Nat /\ Len(s) - 1 <= Len(s)
  OBVIOUS
<1>2. ASSUME NEW n \in Nat, n <= Len(s)
      PROVE  /\ SubSeq(s, 1, n) \in Seq(Objects)
             /\ Len(SubSeq(s, 1, n)) = n
             /\ \A i \in 1..n : SubSeq(s, 1, n)[i] = s[i]
  BY <1>2
<1> DEFINE p == SubSeq(s, 1, Len(s) - 1)
<1>3. p \in Seq(Objects) /\ Len(p) = Len(s) - 1 /\ \A i \in 1..Len(s) - 1 : p[i] = s[i]
  BY <1>1, <1>2
<1>4. \A q \in Seq(Objects) : q = <<>> <=> Len(q) = 0
  OBVIOUS
<1> HIDE DEF p
<1>5. p = <<>> <=> Len(s) = 1
  BY <1>1, <1>3, <1>4
<1> QED
  BY <1>3, <1>5 DEF p

LEMMA Pushed ==
  ASSUME NEW s \in Seq(Objects), NEW o \in Objects
  PROVE  LET p == Append(s, o) IN
         /\ p \in Seq(Objects)
         /\ Len(p) = Len(s) + 1
         /\ \A i \in 1..Len(s) : p[i] = s[i]
         /\ p[Len(p)] = o
         /\ p # <<>>
OBVIOUS

LEMMA TopIsObject ==
  ASSUME TypeOK, NEW t \in Threads, at[t] # "idle"
  PROVE  Top(t) \in Objects /\ Len(stack[t]) \in Nat \ {0}
BY DEF TypeOK, Top

-----------------------------------------------------------------------------

LEMMA TypeStep ==
  ASSUME TypeOK, [Next]_vars
  PROVE  TypeOK'
<1> USE UsesIsAcyclic, MaxThrowsIsNat DEF TypeOK, Places, Goto
<1>1. ASSUME NEW t \in Threads, NEW o \in Objects, Access(t, o) PROVE TypeOK'
  <2>1. <<o>> \in Seq(Objects) /\ <<o>> # <<>>
    OBVIOUS
  <2> QED
    BY <1>1, <2>1 DEF Access
<1>2. ASSUME NEW t \in Threads, NEW u \in Objects, AccessFromInitializer(t, u) PROVE TypeOK'
  <2>1. Append(stack[t], u) \in Seq(Objects) /\ Append(stack[t], u) # <<>>
    BY Pushed
  <2> QED
    BY <1>2, <2>1 DEF AccessFromInitializer
<1>3. ASSUME NEW t \in Threads, at[t] # "idle", Pop(t), NEW resume \in Places \ {"idle"},
             guard' \in [Objects -> 0..2], throws' = throws,
             at' \in [Threads -> Places], at'[t] = Resumed(t, resume),
             \A u \in Threads \ {t} : at'[u] = "idle" <=> at[u] = "idle"
      PROVE  TypeOK'
  <2>1. stack[t] # <<>>
    BY <1>3
  <2>2. SubSeq(stack[t], 1, Len(stack[t]) - 1) \in Seq(Objects)
    BY <2>1, Popped
  <2>3. SubSeq(stack[t], 1, Len(stack[t]) - 1) = <<>> <=> Len(stack[t]) = 1
    BY <2>1, Popped
  <2> QED
    BY <1>3, <2>2, <2>3 DEF Pop, Resumed
<1>4. ASSUME NEW t \in Threads, Load(t) PROVE TypeOK'
  <2>1. CASE guard[Top(t)] = 2
    <3>1. Resumed(t, "init") \in Places
      BY DEF Resumed
    <3> QED
      BY <1>3, <1>4, <2>1, <3>1 DEF Load
  <2>2. CASE guard[Top(t)] = 0
    BY <1>4, <2>2, TopIsObject DEF Load
  <2>3. CASE guard[Top(t)] = 1
    BY <1>4, <2>3, TopIsObject DEF Load
  <2> QED
    BY <1>4, <2>1, <2>2, <2>3, TopIsObject DEF Load
<1>5. ASSUME NEW t \in Threads, Cas(t) PROVE TypeOK'
  BY <1>5 DEF Cas
<1>6. ASSUME NEW t \in Threads, Wait(t) PROVE TypeOK'
  BY <1>6 DEF Wait
<1>7. ASSUME NEW t \in Threads, WakeSpuriously(t) PROVE TypeOK'
  BY <1>7 DEF WakeSpuriously
<1>8. ASSUME NEW t \in Threads, Complete(t) PROVE TypeOK'
  BY <1>8, TopIsObject DEF Complete
<1>9. ASSUME NEW t \in Threads, Throw(t) PROVE TypeOK'
  BY <1>9 DEF Throw
<1>10. ASSUME NEW t \in Threads, Abort(t) PROVE TypeOK'
  BY <1>10, TopIsObject DEF Abort
<1>11. ASSUME NEW t \in Threads, Notify(t) PROVE TypeOK'
  <2>1. PICK resume \in {"init", "unwind"} :
          at' = [u \in Threads |->
                    IF u = t THEN Resumed(t, resume)
                    ELSE IF u \in AsleepOn(Top(t)) THEN "load" ELSE at[u]]
    BY <1>11 DEF Notify
  <2>2. at' \in [Threads -> Places]
    BY <2>1 DEF Resumed
  <2>3. \A u \in Threads \ {t} : at'[u] = "idle" <=> at[u] = "idle"
    BY <2>1 DEF AsleepOn
  <2> QED
    BY <1>3, <1>11, <2>1, <2>2, <2>3 DEF Notify
<1>12. CASE UNCHANGED vars
  BY <1>12 DEF vars
<1> QED
  BY <1>1, <1>2, <1>4, <1>5, <1>6, <1>7, <1>8, <1>9, <1>10, <1>11, <1>12
     DEF Next, Progress

-----------------------------------------------------------------------------
(* Who builds what.  A step leaves that alone, or begins or ends the build of *)
(* the object on top of one thread's stack.                                   *)

BuildsAt(t, i, o) ==
    i \in 1..Len(stack[t]) /\ Building(t, i) /\ stack[t][i] = o

Alone ==
    \A t, u \in Threads, i, j \in Nat, o \in Objects :
       BuildsAt(t, i, o) /\ BuildsAt(u, j, o) => t = u /\ i = j

GuardTells ==
    \A o \in Objects : guard[o] = 1 <=> \E t \in Threads, i \in Nat : BuildsAt(t, i, o)

LEMMA OneInitializerIs ==
  ASSUME TypeOK
  PROVE  OneInitializer <=> Alone /\ GuardTells
<1>1. \A t \in Threads : /\ Len(stack[t]) \in Nat
                         /\ \A i \in 1..Len(stack[t]) : stack[t][i] \in Objects
  BY DEF TypeOK
<1>2. \A t \in Threads, o \in Objects : Builds(t, o) <=> \E i \in Nat : BuildsAt(t, i, o)
  BY <1>1 DEF Builds, BuildsAt
<1> QED
  BY <1>1, <1>2 DEF OneInitializer, Alone, GuardTells, BuildsAt

NoBuildChanges ==
    /\ UNCHANGED guard
    /\ \A t \in Threads, i \in Nat, o \in Objects : BuildsAt(t, i, o)' <=> BuildsAt(t, i, o)

BuildBegins(t) ==
    /\ guard[Top(t)] = 0 /\ guard' = [guard EXCEPT ![Top(t)] = 1]
    /\ \A u \in Threads, i \in Nat, o \in Objects :
         BuildsAt(u, i, o)' <=>
           BuildsAt(u, i, o) \/ (u = t /\ i = Len(stack[t]) /\ o = Top(t))

BuildEnds(t, outcome) ==
    /\ at[t] \in {"init", "unwind"}
    /\ guard' = [guard EXCEPT ![Top(t)] = outcome]
    /\ BuildsAt(t, Len(stack[t]), Top(t))
    /\ \A u \in Threads, i \in Nat, o \in Objects :
         BuildsAt(u, i, o)' <=>
           BuildsAt(u, i, o) /\ ~(u = t /\ i = Len(stack[t]) /\ o = Top(t))

\* A thread moves without crossing the border of its initializer.
LEMMA ThreadMoves ==
  ASSUME TypeOK, UNCHANGED stack, at' \in [Threads -> Places],
         \A u \in Threads : at'[u] \in {"init", "unwind"} <=> at[u] \in {"init", "unwind"}
  PROVE  \A u \in Threads, i \in Nat, o \in Objects :
           BuildsAt(u, i, o)' <=> BuildsAt(u, i, o)
BY DEF BuildsAt, Building

LEMMA AccessReturns ==
  ASSUME TypeOK, NEW t \in Threads, at[t] \notin {"idle", "init", "unwind"}, Pop(t),
         NEW resume \in {"init", "unwind"}, at'[t] = Resumed(t, resume),
         \A u \in Threads \ {t} :
            at'[u] \in {"init", "unwind"} <=> at[u] \in {"init", "unwind"}
  PROVE  \A u \in Threads, i \in Nat, o \in Objects :
           BuildsAt(u, i, o)' <=> BuildsAt(u, i, o)
<1>1. stack[t] \in Seq(Objects) /\ stack[t] # <<>>
  BY DEF TypeOK
<1>2. /\ Len(stack'[t]) = Len(stack[t]) - 1
      /\ \A i \in 1..Len(stack[t]) - 1 : stack'[t][i] = stack[t][i]
      /\ Len(stack[t]) \in Nat
  BY <1>1, Popped DEF Pop, TypeOK
<1>3. ASSUME NEW i \in Nat, NEW o \in Objects
      PROVE  BuildsAt(t, i, o)' <=> BuildsAt(t, i, o)
  <2>1. CASE Len(stack[t]) = 1
    BY <1>2, <2>1 DEF BuildsAt, Building
  <2>2. CASE Len(stack[t]) # 1
    <3>1. at'[t] \in {"init", "unwind"}
      BY <2>2 DEF Resumed
    <3> QED
      BY <1>2, <3>1 DEF BuildsAt, Building
  <2> QED
    BY <2>1, <2>2
<1>4. ASSUME NEW u \in Threads \ {t}, NEW i \in Nat, NEW o \in Objects
      PROVE  BuildsAt(u, i, o)' <=> BuildsAt(u, i, o)
  BY DEF BuildsAt, Building, Pop, TypeOK
<1> QED
  BY <1>3, <1>4

LEMMA BuildStep ==
  ASSUME TypeOK, [Next]_vars
  PROVE  \/ NoBuildChanges
         \/ \E t \in Threads : /\ at[t] # "idle"
                               /\ BuildBegins(t) \/ BuildEnds(t, 0) \/ BuildEnds(t, 2)
<1> USE DEF Goto
<1>0. TypeOK'
  BY TypeStep
<1>1. ASSUME NEW t \in Threads, NEW o \in Objects, Access(t, o) PROVE NoBuildChanges
  <2>1. stack[t] = <<>> /\ stack'[t] = <<o>> /\ Len(<<o>>) = 1 /\ Len(stack[t]) = 0
    BY <1>1 DEF Access, TypeOK
  <2>2. at'[t] = "load"
    BY <1>1 DEF Access, TypeOK
  <2>3. ASSUME NEW i \in Nat, NEW p \in Objects PROVE ~BuildsAt(t, i, p) /\ ~BuildsAt(t, i, p)'
    BY <2>1, <2>2 DEF BuildsAt, Building
  <2>4. ASSUME NEW u \in Threads \ {t}, NEW i \in Nat, NEW p \in Objects
        PROVE  BuildsAt(u, i, p)' <=> BuildsAt(u, i, p)
    BY <1>1 DEF Access, BuildsAt, Building, TypeOK
  <2> QED
    BY <1>1, <2>3, <2>4 DEF Access, NoBuildChanges
<1>2. ASSUME NEW t \in Threads, NEW u \in Objects, AccessFromInitializer(t, u)
      PROVE  NoBuildChanges
  <2>1. /\ Len(stack'[t]) = Len(stack[t]) + 1
        /\ \A i \in 1..Len(stack[t]) : stack'[t][i] = stack[t][i]
        /\ Len(stack[t]) \in Nat
    BY <1>2, Pushed DEF AccessFromInitializer, TypeOK
  <2>2. at[t] = "init" /\ at'[t] = "load"
    BY <1>2 DEF AccessFromInitializer, TypeOK
  <2>3. ASSUME NEW i \in Nat, NEW p \in Objects
        PROVE  BuildsAt(t, i, p)' <=> BuildsAt(t, i, p)
    BY <2>1, <2>2 DEF BuildsAt, Building
  <2>4. ASSUME NEW v \in Threads \ {t}, NEW i \in Nat, NEW p \in Objects
        PROVE  BuildsAt(v, i, p)' <=> BuildsAt(v, i, p)
    BY <1>2 DEF AccessFromInitializer, BuildsAt, Building, TypeOK
  <2> QED
    BY <1>2, <2>3, <2>4 DEF AccessFromInitializer, NoBuildChanges
<1>3. ASSUME NEW t \in Threads, Load(t) PROVE NoBuildChanges
  <2>1. CASE guard[Top(t)] = 2
    <3>1. /\ Pop(t)
          /\ at'[t] = Resumed(t, "init")
          /\ \A u \in Threads \ {t} : at'[u] = at[u]
      BY <1>3, <2>1 DEF Load, TypeOK
    <3> QED
      BY <1>3, <3>1, AccessReturns DEF Load, NoBuildChanges
  <2>2. ASSUME UNCHANGED stack, NEW place \in {"cas", "wait"}, Goto(t, place)
        PROVE  NoBuildChanges
    BY <1>0, <1>3, <2>2, ThreadMoves DEF Load, NoBuildChanges, TypeOK
  <2>3. CASE guard[Top(t)] = 0
    BY <1>3, <2>2, <2>3 DEF Load
  <2>4. CASE guard[Top(t)] = 1
    BY <1>3, <2>2, <2>4 DEF Load
  <2> QED
    BY <1>3, <2>1, <2>3, <2>4, TopIsObject DEF Load, TypeOK
<1>4. ASSUME NEW t \in Threads, Cas(t) PROVE NoBuildChanges \/ BuildBegins(t)
  <2>1. CASE guard[Top(t)] # 0
    BY <1>4, <2>1, <1>0, ThreadMoves DEF Cas, NoBuildChanges, TypeOK
  <2>2. CASE guard[Top(t)] = 0
    <3>1. at'[t] = "init" /\ at[t] = "cas" /\ UNCHANGED stack
      BY <1>4, <2>2 DEF Cas, TypeOK
    <3>2. ASSUME NEW u \in Threads \ {t}, NEW i \in Nat, NEW o \in Objects
          PROVE  BuildsAt(u, i, o)' <=> BuildsAt(u, i, o)
      BY <1>4, <2>2 DEF Cas, BuildsAt, Building, TypeOK
    <3>3. ASSUME NEW i \in Nat, NEW o \in Objects
          PROVE  BuildsAt(t, i, o)' <=>
                    BuildsAt(t, i, o) \/ (i = Len(stack[t]) /\ o = Top(t))
      BY <3>1, TopIsObject DEF BuildsAt, Building, Top
    <3> QED
      BY <1>4, <2>2, <3>2, <3>3 DEF Cas, BuildBegins
  <2> QED
    BY <2>1, <2>2
<1>5. ASSUME NEW t \in Threads, Wait(t) PROVE NoBuildChanges
  BY <1>5, <1>0, ThreadMoves DEF Wait, NoBuildChanges, TypeOK
<1>6. ASSUME NEW t \in Threads, WakeSpuriously(t) PROVE NoBuildChanges
  BY <1>6, <1>0, ThreadMoves DEF WakeSpuriously, NoBuildChanges, TypeOK
<1>7. ASSUME NEW t \in Threads, Throw(t) PROVE NoBuildChanges
  BY <1>7, <1>0, ThreadMoves DEF Throw, NoBuildChanges, TypeOK
<1>8. ASSUME NEW t \in Threads, NEW outcome \in {0, 2}, NEW place \in {"completed", "aborted"},
             at[t] \in {"init", "unwind"}, guard' = [guard EXCEPT ![Top(t)] = outcome],
             Goto(t, place), UNCHANGED stack
      PROVE  BuildEnds(t, outcome)
  <2>1. Top(t) = stack[t][Len(stack[t])] /\ Len(stack[t]) \in Nat \ {0}
    BY <1>8, TopIsObject DEF Top
  <2>2. at'[t] = place
    BY <1>8 DEF TypeOK
  <2>3. ASSUME NEW u \in Threads \ {t}, NEW i \in Nat, NEW o \in Objects
        PROVE  BuildsAt(u, i, o)' <=> BuildsAt(u, i, o)
    BY <1>8 DEF BuildsAt, Building, TypeOK
  <2>4. ASSUME NEW i \in Nat, NEW o \in Objects
        PROVE  BuildsAt(t, i, o)' <=>
                  BuildsAt(t, i, o) /\ ~(i = Len(stack[t]) /\ o = Top(t))
    BY <1>8, <2>1, <2>2 DEF BuildsAt, Building
  <2>5. BuildsAt(t, Len(stack[t]), Top(t))
    BY <1>8, <2>1 DEF BuildsAt, Building
  <2> QED
    BY <1>8, <2>3, <2>4, <2>5 DEF BuildEnds
<1>9. ASSUME NEW t \in Threads, Complete(t) PROVE BuildEnds(t, 2)
  BY <1>8, <1>9 DEF Complete
<1>10. ASSUME NEW t \in Threads, Abort(t) PROVE BuildEnds(t, 0)
  BY <1>8, <1>10 DEF Abort
<1>11. ASSUME NEW t \in Threads, Notify(t) PROVE NoBuildChanges
  <2>1. PICK resume \in {"init", "unwind"} :
          at' = [u \in Threads |->
                    IF u = t THEN Resumed(t, resume)
                    ELSE IF u \in AsleepOn(Top(t)) THEN "load" ELSE at[u]]
    BY <1>11 DEF Notify
  <2>2. at'[t] = Resumed(t, resume)
    BY <2>1
  <2>3. \A u \in Threads \ {t} :
          at'[u] \in {"init", "unwind"} <=> at[u] \in {"init", "unwind"}
    BY <2>1 DEF AsleepOn
  <2> QED
    BY <1>11, <2>2, <2>3, AccessReturns DEF Notify, NoBuildChanges
<1>12. CASE UNCHANGED vars
  BY <1>12 DEF vars, NoBuildChanges, BuildsAt, Building
<1> QED
  BY <1>1, <1>2, <1>3, <1>4, <1>5, <1>6, <1>7, <1>9, <1>10, <1>11, <1>12
     DEF Next, Progress, Cas, Complete, Abort

LEMMA OneInitializerStep ==
  ASSUME TypeOK, OneInitializer, [Next]_vars
  PROVE  OneInitializer'
<1>1. TypeOK'
  BY TypeStep
<1>2. Alone /\ GuardTells
  BY OneInitializerIs
<1>3. ASSUME NoBuildChanges PROVE Alone' /\ GuardTells'
  BY <1>2, <1>3 DEF NoBuildChanges, Alone, GuardTells
<1>4. ASSUME NEW t \in Threads, at[t] # "idle", BuildBegins(t) PROVE Alone' /\ GuardTells'
  <2>1. Top(t) \in Objects /\ Len(stack[t]) \in Nat
    BY <1>4, TopIsObject
  <2>2. \A u \in Threads, i \in Nat : ~BuildsAt(u, i, Top(t))
    BY <1>2, <1>4, <2>1 DEF GuardTells, BuildBegins
  <2>3. Alone'
    BY <1>2, <1>4, <2>1, <2>2 DEF BuildBegins, Alone
  <2>4. GuardTells'
    BY <1>2, <1>4, <2>1, <2>2 DEF BuildBegins, GuardTells, TypeOK
  <2> QED
    BY <2>3, <2>4
<1>5. ASSUME NEW t \in Threads, at[t] # "idle", NEW outcome \in {0, 2}, BuildEnds(t, outcome)
      PROVE  Alone' /\ GuardTells'
  <2>1. Top(t) \in Objects /\ Len(stack[t]) \in Nat
    BY <1>5, TopIsObject
  <2>2. \A u \in Threads, i \in Nat, o \in Objects : o = Top(t) => ~BuildsAt(u, i, o)'
    BY <1>2, <1>5, <2>1 DEF Alone, BuildEnds
  <2>3. Alone'
    BY <1>2, <1>5, <2>1 DEF BuildEnds, Alone
  <2>4. GuardTells'
    BY <1>2, <1>5, <2>1, <2>2 DEF BuildEnds, GuardTells, TypeOK
  <2> QED
    BY <2>3, <2>4
<1>6. Alone' /\ GuardTells'
  BY <1>3, <1>4, <1>5, BuildStep
<1> QED
  BY <1>1, <1>6, OneInitializerIs, PTL

-----------------------------------------------------------------------------
(* Whoever sleeps is told. *)

\* A step that leaves the sleepers, their guards and those who will notify them
\* as they are.
LEMMA StillOwed ==
  ASSUME NoSleeperForgotten,
         \A u \in Threads : at'[u] = "asleep" =>
            /\ at[u] = "asleep" /\ stack'[u] = stack[u]
            /\ guard[Top(u)] = 1 => guard'[Top(u)] = 1
            /\ \A w \in Threads : at[w] \in {"completed", "aborted"} /\ Top(w) = Top(u)
                                      => at'[w] = at[w] /\ stack'[w] = stack[w]
  PROVE  NoSleeperForgotten'
<1> SUFFICES ASSUME NEW u \in Threads, at'[u] = "asleep",
                    ~\E w \in Threads : /\ at'[w] \in {"completed", "aborted"}
                                        /\ Top(w)' = Top(u)'
             PROVE  guard'[Top(u)'] = 1
  BY DEF NoSleeperForgotten
<1>1. Top(u)' = Top(u)
  BY DEF Top
<1>2. ASSUME NEW w \in Threads, at[w] \in {"completed", "aborted"}, Top(w) = Top(u)
      PROVE  FALSE
  <2>1. Top(w)' = Top(w) /\ at'[w] = at[w]
    BY <1>2 DEF Top
  <2> QED
    BY <1>1, <1>2, <2>1
<1> QED
  BY <1>1, <1>2 DEF NoSleeperForgotten

LEMMA NoSleeperStep ==
  ASSUME TypeOK, NoSleeperForgotten, [Next]_vars
  PROVE  NoSleeperForgotten'
<1> USE DEF TypeOK, Goto
<1>1. ASSUME NEW t \in Threads, NEW o \in Objects, Access(t, o) PROVE NoSleeperForgotten'
  BY <1>1, StillOwed DEF Access
<1>2. ASSUME NEW t \in Threads, NEW u \in Objects, AccessFromInitializer(t, u)
      PROVE  NoSleeperForgotten'
  BY <1>2, StillOwed DEF AccessFromInitializer
<1>3. ASSUME NEW t \in Threads, at[t] = "load", UNCHANGED guard,
             NEW place \in Places \ {"asleep"}, Goto(t, place),
             Pop(t) \/ UNCHANGED stack
      PROVE  NoSleeperForgotten'
  <2>1. \A u \in Threads : at'[u] = "asleep" => u # t /\ at[u] = "asleep" /\ stack'[u] = stack[u]
    BY <1>3 DEF Pop
  <2>2. \A u \in Threads : at[u] \in {"completed", "aborted"} =>
                               at'[u] = at[u] /\ stack'[u] = stack[u]
    BY <1>3 DEF Pop
  <2> QED
    BY <1>3, <2>1, <2>2, StillOwed
<1>4. ASSUME NEW t \in Threads, Load(t) PROVE NoSleeperForgotten'
  <2>1. Resumed(t, "init") \in Places \ {"asleep"}
    BY DEF Resumed, Places
  <2>2. guard[Top(t)] \in 0..2
    BY <1>4, TopIsObject DEF Load
  <2>3. CASE guard[Top(t)] = 2
    BY <1>3, <1>4, <2>1, <2>3 DEF Load
  <2>4. CASE guard[Top(t)] = 0
    BY <1>3, <1>4, <2>4 DEF Load, Places
  <2>5. CASE guard[Top(t)] = 1
    BY <1>3, <1>4, <2>5 DEF Load, Places
  <2> QED
    BY <2>2, <2>3, <2>4, <2>5
<1>5. ASSUME NEW t \in Threads, Cas(t) PROVE NoSleeperForgotten'
  <2>1. \A u \in Threads : at'[u] = "asleep" => at[u] = "asleep" /\ stack'[u] = stack[u]
    BY <1>5 DEF Cas
  <2>2. \A u \in Threads : at[u] \in {"completed", "aborted"} =>
                               at'[u] = at[u] /\ stack'[u] = stack[u]
    BY <1>5 DEF Cas
  <2>3. \A o \in Objects : guard[o] = 1 => guard'[o] = 1
    BY <1>5 DEF Cas
  <2>4. \A u \in Threads : at[u] = "asleep" => Top(u) \in Objects
    BY TopIsObject
  <2> QED
    BY <2>1, <2>2, <2>3, <2>4, StillOwed
<1>6. ASSUME NEW t \in Threads, Wait(t) PROVE NoSleeperForgotten'
  BY <1>6 DEF Wait, FutexSleeps, NoSleeperForgotten, Top
<1>7. ASSUME NEW t \in Threads, WakeSpuriously(t) PROVE NoSleeperForgotten'
  BY <1>7, StillOwed DEF WakeSpuriously
<1>8. ASSUME NEW t \in Threads, Complete(t) PROVE NoSleeperForgotten'
  BY <1>8 DEF Complete, NoSleeperForgotten, Top
<1>9. ASSUME NEW t \in Threads, Throw(t) PROVE NoSleeperForgotten'
  BY <1>9, StillOwed DEF Throw
<1>10. ASSUME NEW t \in Threads, Abort(t) PROVE NoSleeperForgotten'
  BY <1>10 DEF Abort, NoSleeperForgotten, Top
<1>11. ASSUME NEW t \in Threads, Notify(t) PROVE NoSleeperForgotten'
  <2>1. PICK resume \in {"init", "unwind"} :
          at' = [u \in Threads |->
                    IF u = t THEN Resumed(t, resume)
                    ELSE IF u \in AsleepOn(Top(t)) THEN "load" ELSE at[u]]
    BY <1>11 DEF Notify
  <2>2. \A u \in Threads : at'[u] = "asleep" =>
          u # t /\ at[u] = "asleep" /\ Top(u) # Top(t) /\ stack'[u] = stack[u]
    BY <1>11, <2>1 DEF Resumed, AsleepOn, Notify, Pop
  <2>3. \A u \in Threads \ {t} : at[u] \in {"completed", "aborted"} =>
          at'[u] = at[u] /\ stack'[u] = stack[u]
    BY <1>11, <2>1 DEF AsleepOn, Notify, Pop
  <2> QED
    BY <1>11, <2>2, <2>3, StillOwed DEF Notify
<1>12. CASE UNCHANGED vars
  BY <1>12 DEF vars, NoSleeperForgotten, Top
<1> QED
  BY <1>1, <1>2, <1>4, <1>5, <1>6, <1>7, <1>8, <1>9, <1>10, <1>11, <1>12
     DEF Next, Progress

\* For any globals and threads: a guard says "running" exactly while one access
\* is inside the object's initializer, nested initializers and exceptions
\* included, and nobody sleeps on a guard that is decided without a
\* notification on its way.
THEOREM GuardTold == Spec => []GuardInv
<1>1. Init => GuardInv
  <2> SUFFICES ASSUME Init PROVE GuardInv
    OBVIOUS
  <2>1. TypeOK
    BY MaxThrowsIsNat DEF Init, TypeOK, Places
  <2>2. OneInitializer
    BY DEF Init, OneInitializer, Builds
  <2>3. NoSleeperForgotten
    BY DEF Init, NoSleeperForgotten
  <2> QED
    BY <2>1, <2>2, <2>3 DEF GuardInv
<1>2. GuardInv /\ [Next]_vars => GuardInv'
  BY TypeStep, OneInitializerStep, NoSleeperStep DEF GuardInv
<1> QED
  BY <1>1, <1>2, PTL DEF Spec

-----------------------------------------------------------------------------
(* The refinement. *)

HasBuilder(t, o) == \E i \in Nat : BuildsAt(t, i, o)

BuildersKnown ==
    \A o \in Objects :
       /\ \A t \in Threads : HasBuilder(t, o) <=> BuilderOf(o) = t
       /\ BuilderOf(o) = None <=> guard[o] # 1

LEMMA BuilderIs == GuardInv => BuildersKnown
<1> SUFFICES ASSUME GuardInv, NEW o \in Objects
             PROVE  /\ \A t \in Threads : HasBuilder(t, o) <=> BuilderOf(o) = t
                    /\ BuilderOf(o) = None <=> guard[o] # 1
  BY DEF BuildersKnown
<1>1. Alone /\ GuardTells
  BY OneInitializerIs DEF GuardInv
<1>2. \A t \in Threads : Builds(t, o) <=> HasBuilder(t, o)
  BY DEF GuardInv, TypeOK, Builds, BuildsAt, HasBuilder
<1>3. CASE \E t \in Threads : HasBuilder(t, o)
  <2>1. PICK t \in Threads : HasBuilder(t, o)
    BY <1>3
  <2>2. \A u \in Threads : HasBuilder(u, o) => u = t
    BY <1>1, <2>1 DEF HasBuilder, Alone
  <2>3. BuilderOf(o) = t
    BY <1>2, <2>1, <2>2 DEF BuilderOf
  <2>4. guard[o] = 1
    BY <1>1, <2>1 DEF GuardTells, HasBuilder
  <2> QED
    BY <2>1, <2>2, <2>3, <2>4, NoneIsNotAThread
<1>4. CASE ~\E t \in Threads : HasBuilder(t, o)
  <2>1. BuilderOf(o) = None
    BY <1>2, <1>4 DEF BuilderOf
  <2>2. guard[o] # 1
    BY <1>1, <1>4 DEF GuardTells, HasBuilder
  <2> QED
    BY <1>4, <2>1, <2>2, NoneIsNotAThread
<1> QED
  BY <1>3, <1>4

BuilderMap == [o \in Objects |-> BuilderOf(o)]
ReadySet == {o \in Objects : guard[o] = 2}

\* Every step of an access begins, publishes or gives up one build, or leaves
\* what OnceCell sees alone.
LEMMA PromiseStep ==
  ASSUME GuardInv, GuardInv', [Next]_vars
  PROVE  [Promise!Next]_(Promise!vars)
<1>1. TypeOK /\ TypeOK'
  BY DEF GuardInv
<1>0. BuildersKnown'
  BY BuilderIs, PTL
<1>2. \A o \in Objects :
        /\ \A t \in Threads : HasBuilder(t, o) <=> BuilderOf(o) = t
        /\ BuilderOf(o) = None <=> guard[o] # 1
  BY BuilderIs DEF BuildersKnown
<1>3. \A o \in Objects :
        /\ \A t \in Threads : HasBuilder(t, o)' <=> BuilderOf(o)' = t
        /\ BuilderOf(o)' = None <=> guard'[o] # 1
  BY <1>0 DEF BuildersKnown
<1>4. \A o \in Objects : /\ BuilderOf(o) \in Threads \cup {None}
                         /\ BuilderOf(o)' \in Threads \cup {None}
  BY DEF BuilderOf
<1>5. ASSUME NoBuildChanges PROVE UNCHANGED <<BuilderMap, ReadySet>>
  <2>1. \A o \in Objects, t \in Threads : HasBuilder(t, o)' <=> HasBuilder(t, o)
    BY <1>5 DEF NoBuildChanges, HasBuilder
  <2>2. \A o \in Objects : BuilderOf(o)' = BuilderOf(o)
    BY <1>2, <1>3, <1>4, <2>1, NoneIsNotAThread
  <2> QED
    BY <1>5, <2>2 DEF NoBuildChanges, BuilderMap, ReadySet
<1>6. ASSUME NEW t \in Threads, at[t] # "idle", BuildBegins(t), NEW top, top = Top(t)
      PROVE  Promise!Begin(t, top)
  <2>1. top \in Objects /\ Len(stack[t]) \in Nat
    BY <1>1, <1>6, TopIsObject
  <2>2. \A o \in Objects, u \in Threads :
          HasBuilder(u, o)' <=> HasBuilder(u, o) \/ (u = t /\ o = top)
    BY <1>6, <2>1 DEF BuildBegins, HasBuilder
  <2>3. BuilderOf(top) = None /\ BuilderOf(top)' = t
    BY <1>2, <1>3, <1>6, <2>1, <2>2 DEF BuildBegins
  <2>4. \A o \in Objects \ {top} : BuilderOf(o)' = BuilderOf(o)
    BY <1>2, <1>3, <1>4, <2>2, NoneIsNotAThread
  <2>5. ReadySet' = ReadySet /\ top \notin ReadySet
    BY <1>1, <1>6, <2>1 DEF BuildBegins, ReadySet, TypeOK
  <2>6. BuilderMap' = [BuilderMap EXCEPT ![top] = t] /\ BuilderMap[top] = None
    BY <2>1, <2>3, <2>4 DEF BuilderMap
  <2> QED
    BY <2>5, <2>6 DEF Promise!Begin, BuilderMap, ReadySet
<1>7. ASSUME NEW t \in Threads, at[t] # "idle", NEW outcome \in {0, 2}, BuildEnds(t, outcome),
             NEW top, top = Top(t)
      PROVE  Promise!Publish(t, top) \/ Promise!GiveUp(t, top)
  <2>1. top \in Objects /\ Len(stack[t]) \in Nat
    BY <1>1, <1>7, TopIsObject
  <2>2. \A o \in Objects \ {top}, u \in Threads : HasBuilder(u, o)' <=> HasBuilder(u, o)
    BY <1>7, <2>1 DEF BuildEnds, HasBuilder
  <2>3. BuilderOf(top) = t /\ guard[top] = 1
    BY <1>2, <1>7, <2>1, NoneIsNotAThread DEF BuildEnds, HasBuilder
  <2>4. BuilderOf(top)' = None
    BY <1>1, <1>3, <1>7, <2>1 DEF BuildEnds, TypeOK
  <2>5. \A o \in Objects \ {top} : BuilderOf(o)' = BuilderOf(o)
    BY <1>2, <1>3, <1>4, <2>2, NoneIsNotAThread
  <2>6. ReadySet' = IF outcome = 2 THEN ReadySet \cup {top} ELSE ReadySet
    BY <1>1, <1>7, <2>1, <2>3 DEF BuildEnds, ReadySet, TypeOK
  <2>7. BuilderMap' = [BuilderMap EXCEPT ![top] = None] /\ BuilderMap[top] = t
    BY <2>1, <2>3, <2>4, <2>5 DEF BuilderMap
  <2> QED
    BY <2>6, <2>7 DEF Promise!Publish, Promise!GiveUp, BuilderMap, ReadySet
<1> QED
  BY <1>1, <1>5, <1>6, <1>7, BuildStep, TopIsObject
     DEF Promise!Next, Promise!vars, BuilderMap, ReadySet

\* For any globals and threads the guards implement OnceCell: one builder at a
\* time, what is published stays, what is given up can be tried again.
THEOREM GuardsKeepPromise == Spec => KeepsPromise
<1>1. Init => Promise!Init
  BY DEF Init, Promise!Init, BuilderOf, Builds
<1> QED
  BY <1>1, GuardTold, PromiseStep, PTL DEF Spec, KeepsPromise, Promise!Spec

-----------------------------------------------------------------------------
(* Both in one program, as the run has them. *)

\* A behaviour of either part is a behaviour of the mutex and of the guards, the
\* one that does not run standing still: all of the above holds of MCSpec.
THEOREM PartsAreLocks == MCSpec => Mutex!Spec /\ Spec
<1>1. MCInit => Mutex!Init /\ Init
  BY DEF MCInit
<1>2. [MCNext]_allVars => [Mutex!Next]_(Mutex!vars) /\ [Next]_vars
  <2> USE DEF vars, Mutex!vars
  <2>1. ASSUME InMutex(Mutex!Next) PROVE [Mutex!Next]_(Mutex!vars) /\ [Next]_vars
    BY <2>1 DEF InMutex
  <2>2. ASSUME InGuards(Next) PROVE [Mutex!Next]_(Mutex!vars) /\ [Next]_vars
    BY <2>2 DEF InGuards
  <2>3. ASSUME UNCHANGED allVars PROVE [Mutex!Next]_(Mutex!vars) /\ [Next]_vars
    BY <2>3 DEF allVars
  <2> QED
    BY <2>1, <2>2, <2>3 DEF MCNext
<1> QED
  BY <1>1, <1>2, PTL DEF MCSpec, Mutex!Spec, Spec

\* Whatever the run executes, in any number of threads and globals: one owner, no
\* lost wake-up, and guards that are running exactly while they are built.
THEOREM LocksTold == MCSpec => [](MutualExclusion /\ NoLostWakeup /\ GuardInv)
BY PartsAreLocks, MutualExclusionHolds, NoLostWakeupHolds, GuardTold, PTL
=============================================================================
