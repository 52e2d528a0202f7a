-------------------------- MODULE ConditionsProofs --------------------------
(***************************************************************************)
(* Proofs about the pointer queue, for any finite set of threads, any      *)
(* capacity and any pointers, about the semaphore, for any numbers of      *)
(* permits released at once, and about the program MCConditions checks,    *)
(* which is one of the two.                                                *)
(***************************************************************************)
EXTENDS MCConditions, FiniteSetTheorems, SequenceTheorems, TLAPS

Waits == {"register", "unlock", "sleep", "asleep", "deregister", "relock"}
Notifications == {"check", "wake"}
UnderMutex == {"pushTest", "popTest", "register", "unlock", "check", "wake", "unlocking"}

TestOf(c) == IF c = "readable" THEN "popTest" ELSE "pushTest"

\* What a call in progress is about and where it returns, and what a push carries.
CallKnown(t) ==
    /\ at[t] \notin {"checkAll", "wakeAll"}
    /\ at[t] \in Waits => /\ call[t].on \in Conditions
                          /\ call[t].resume = TestOf(call[t].on)
                          /\ call[t].observed <= sequence[call[t].on]
    /\ at[t] \in Notifications => call[t].on \in Conditions /\ call[t].resume = "unlocking"
    /\ at[t] \in {"pushLock", "pushTest"} => pushing[t] \in Values
    /\ at[t] \in Waits /\ call[t].on = "writable" => pushing[t] \in Values

CallsKnown ==
    /\ sequence \in [Conditions -> Nat] /\ waiters \in [Conditions -> Nat]
    /\ call \in [Threads -> [on : Conditions \cup {None}, resume : Places, observed : Nat]]
    /\ pushing \in [Threads -> Values \cup {Null}]
    /\ \A t \in Threads : CallKnown(t)

\* One thread at a time looks at the ring.
MutexHeld == \A t \in Threads : at[t] \in UnderMutex => owner = t

\* A waiter that would sleep, because nobody has notified since it loaded the sequence,
\* finds as little as it did then.
Fresh(t) ==
    /\ at[t] \in {"register", "unlock", "sleep"}
    /\ call[t].observed = sequence[call[t].on]

FreshFoundNone == \A t \in Threads : Fresh(t) => Available(call[t].on) = 0

QueueIInv ==
    /\ TypeOK /\ CallsKnown /\ MutexHeld /\ WaitersCounted /\ VacatedIsNull
    /\ FreshFoundNone /\ EntriesSpokenFor

\* A step is some thread's, and a call's step leaves the queue alone.
CallStepOf(t) == (CallStep(t) \/ Relock(t) \/ WakeSpuriously(t)) /\ UNCHANGED queueVars

StepOf(t) ==
    \/ CallPop(t) \/ (\E v \in Values : CallPush(t, v))
    \/ LockForPush(t) \/ LockForPop(t)
    \/ WaitForRoom(t) \/ Insert(t) \/ WaitForEntry(t) \/ Extract(t) \/ UnlockAndReturn(t)
    \/ CallStepOf(t)

LEMMA StepsAre == Next => \E t \in Threads : StepOf(t)
BY DEF Next, Step, TakeMutex, StepOf, CallStepOf

-----------------------------------------------------------------------------
(* Counting. *)

LEMMA SetsOfThreads ==
  ASSUME NEW A \in SUBSET Threads
  PROVE  /\ IsFiniteSet(A) /\ Cardinality(A) \in Nat
         /\ A # {} <=> Cardinality(A) > 0
<1>1. IsFiniteSet(A)
  BY QueueBounds, FS_Subset
<1>2. Cardinality(A) \in Nat /\ (Cardinality(A) = 0 <=> A = {})
  BY <1>1, FS_CardinalityType, FS_EmptySet
<1> QED
  BY <1>1, <1>2

LEMMA OneJoins ==
  ASSUME NEW A \in SUBSET Threads, NEW B \in SUBSET Threads, NEW t \in Threads,
         t \notin A, B = A \cup {t}
  PROVE  Cardinality(B) = Cardinality(A) + 1
BY SetsOfThreads, FS_AddElement

LEMMA MoreAre ==
  ASSUME NEW A \in SUBSET Threads, NEW B \in SUBSET Threads, A \subseteq B
  PROVE  Cardinality(A) <= Cardinality(B)
BY SetsOfThreads, FS_Subset

-----------------------------------------------------------------------------
(* Types, calls and the mutex. *)

LEMMA TypesKept ==
  ASSUME QueueIInv, NEW t \in Threads, StepOf(t)
  PROVE  TypeOK'
<1> USE QueueBounds DEF QueueIInv, TypeOK, Goto, Places, CallPlaces
<1>1. CASE CallPop(t) \/ \E v \in Values : CallPush(t, v)
  BY <1>1 DEF CallPop, CallPush, queueVars
<1>2. CASE LockForPush(t) \/ LockForPop(t)
  BY <1>2 DEF LockForPush, LockForPop, Lock, queueVars
<1>3. CASE WaitForRoom(t) \/ WaitForEntry(t)
  BY <1>3 DEF WaitForRoom, WaitForEntry, EnterWait, queueVars
<1>4. CASE Insert(t)
  BY <1>4 DEF Insert, EnterNotify, Publish, CallsKnown
<1>5. CASE Extract(t)
  <2>1. (head + 1) % Capacity \in 0..Capacity - 1
    OBVIOUS
  <2>2. /\ owner' \in Threads \cup {None} /\ at' \in [Threads -> Places]
        /\ entries' \in [0..Capacity - 1 -> Values \cup {Null}]
        /\ count' \in 0..Capacity
    BY <1>5 DEF Extract, EnterNotify, Publish
  <2> QED
    BY <1>5, <2>1, <2>2 DEF Extract
<1>6. CASE UnlockAndReturn(t)
  BY <1>6 DEF UnlockAndReturn, Unlock
<1>7. CASE CallStepOf(t)
  <2>1. CASE Register(t) \/ ReleaseMutex(t) \/ Sleep(t) \/ Deregister(t) \/ WakeSpuriously(t)
    BY <1>7, <2>1 DEF CallStepOf, Register, ReleaseMutex, Sleep, Deregister, WakeSpuriously, queueVars
  <2>2. CASE Relock(t) \/ CheckWaiters(t)
    <3>1. call[t].resume \in Places
      BY DEF CallsKnown
    <3> QED
      BY <1>7, <2>2, <3>1 DEF CallStepOf, Relock, CheckWaiters, Return, queueVars
  <2>3. CASE Wake(t) \/ WakeAll(t)
    BY <1>7, <2>3 DEF CallStepOf, Wake, WakeAll, Release, CallsKnown, queueVars
  <2> QED
    BY <1>7, <2>1, <2>2, <2>3 DEF CallStepOf, CallStep
<1> QED
  BY <1>1, <1>2, <1>3, <1>4, <1>5, <1>6, <1>7 DEF StepOf

\* A notification wakes one thread or none, or vanishes.
LEMMA WakesAre ==
  ASSUME QueueIInv, NEW t \in Threads, Wake(t) \/ WakeAll(t)
  PROVE  /\ at[t] = "wake" /\ call[t].on \in Conditions
         /\ at'[t] = "unlocking" /\ call'[t] = NoCall
         /\ UNCHANGED <<owner, sequence, waiters>>
         /\ \/ /\ Asleep(call[t].on) = {}
               /\ \A u \in Threads \ {t} : at'[u] = at[u] /\ call'[u] = call[u]
            \/ \E v \in Asleep(call[t].on) :
                  /\ v # t /\ at'[v] = "deregister" /\ call'[v] = call[v]
                  /\ \A u \in Threads \ {t, v} : at'[u] = at[u] /\ call'[u] = call[u]
<1> USE DEF QueueIInv, TypeOK, CallsKnown, CallKnown, Notifications, Waits
<1>1. at[t] = "wake" /\ call[t].on \in Conditions /\ call[t].resume = "unlocking"
  BY DEF Wake, WakeAll
<1>2. PICK woken \in WakeOne(Asleep(call[t].on)) : Release(t, woken)
  BY <1>1 DEF Wake, WakeAll
<1>3. /\ at'[t] = "unlocking" /\ call'[t] = NoCall
      /\ UNCHANGED <<owner, sequence, waiters>>
      /\ \A u \in Threads \ {t} : /\ call'[u] = call[u]
                                  /\ u \in woken => at'[u] = "deregister"
                                  /\ u \notin woken => at'[u] = at[u]
  BY <1>1, <1>2 DEF Release
<1>4. CASE Asleep(call[t].on) = {}
  BY <1>1, <1>2, <1>3, <1>4 DEF WakeOne
<1>5. CASE Asleep(call[t].on) # {}
  <2>1. PICK v \in Asleep(call[t].on) : woken = {v}
    BY <1>2, <1>5 DEF WakeOne
  <2>2. v \in Threads /\ v # t
    BY <1>1, <2>1 DEF Asleep
  <2> QED
    BY <1>1, <1>3, <2>1, <2>2
<1> QED
  BY <1>4, <1>5

LEMMA WakesDisturbNobodyElse ==
  ASSUME QueueIInv, NEW t \in Threads, Wake(t) \/ WakeAll(t)
  PROVE  /\ at[t] = "wake" /\ at'[t] = "unlocking"
         /\ UNCHANGED <<owner, sequence, waiters>>
         /\ \A u \in Threads \ {t} :
               /\ call'[u] = call[u]
               /\ at'[u] = at[u] \/ (at[u] = "asleep" /\ at'[u] = "deregister")
<1>1. CASE \A u \in Threads \ {t} : at'[u] = at[u] /\ call'[u] = call[u]
  BY <1>1, WakesAre
<1>2. ASSUME NEW v \in Threads, at[v] = "asleep",
             at'[v] = "deregister" /\ call'[v] = call[v],
             \A u \in Threads \ {t, v} : at'[u] = at[u] /\ call'[u] = call[u]
      PROVE  \A u \in Threads \ {t} :
                /\ call'[u] = call[u]
                /\ at'[u] = at[u] \/ (at[u] = "asleep" /\ at'[u] = "deregister")
  BY <1>2
<1> QED
  BY <1>1, <1>2, WakesAre DEF Asleep

LEMMA CallsKept ==
  ASSUME QueueIInv, NEW t \in Threads, StepOf(t)
  PROVE  CallsKnown'
<1> USE QueueBounds, NoneNoThread
    DEF QueueIInv, TypeOK, CallsKnown, CallKnown, Goto, Waits, Notifications, Places, CallPlaces, TestOf
<1>1. CASE CallPop(t) \/ \E v \in Values : CallPush(t, v)
  <2>1. CASE CallPop(t)
    BY <2>1 DEF CallPop, queueVars
  <2>2. ASSUME NEW v \in Values, CallPush(t, v) PROVE CallsKnown'
    BY <2>2 DEF CallPush
  <2> QED
    BY <1>1, <2>1, <2>2
<1>2. CASE LockForPush(t) \/ LockForPop(t)
  BY <1>2 DEF LockForPush, LockForPop, Lock, queueVars
<1>3. CASE WaitForRoom(t) \/ WaitForEntry(t)
  <2>1. /\ UNCHANGED <<sequence, waiters, pushing>>
        /\ \E c \in Conditions :
              /\ call' = [call EXCEPT ![t] = [on |-> c, resume |-> TestOf(c),
                                             observed |-> sequence[c]]]
              /\ at[t] = TestOf(c)
        /\ at' = [at EXCEPT ![t] = "register"]
    BY <1>3 DEF WaitForRoom, WaitForEntry, EnterWait, queueVars
  <2> QED
    BY <2>1
<1>4. CASE Insert(t)
  BY <1>4 DEF Insert, EnterNotify, Publish
<1>5. CASE Extract(t)
  BY <1>5 DEF Extract, EnterNotify, Publish
<1>6. CASE UnlockAndReturn(t)
  BY <1>6 DEF UnlockAndReturn, Unlock
<1>7. CASE CallStepOf(t)
  <2>1. CASE Register(t)
    BY <1>7, <2>1 DEF CallStepOf, Register, queueVars
  <2>2. CASE ReleaseMutex(t) \/ Sleep(t) \/ WakeSpuriously(t)
    BY <1>7, <2>2 DEF CallStepOf, ReleaseMutex, Sleep, WakeSpuriously, queueVars
  <2>3. CASE Deregister(t)
    <3>1. call[t].on \in Conditions /\ t \in Registered(call[t].on)
      BY <2>3 DEF Deregister, Registered
    <3>2. waiters[call[t].on] > 0
      <4>1. Registered(call[t].on) \in SUBSET Threads /\ Registered(call[t].on) # {}
        BY <3>1 DEF Registered
      <4> QED
        BY <3>1, <4>1, SetsOfThreads DEF WaitersCounted
    <3> QED
      BY <1>7, <2>3, <3>1, <3>2 DEF CallStepOf, Deregister, queueVars
  <2>4. CASE Relock(t) \/ CheckWaiters(t)
    <3>1. CASE at' = [at EXCEPT ![t] = call[t].resume] /\ call' = [call EXCEPT ![t] = NoCall]
      BY <1>7, <2>4, <3>1 DEF CallStepOf, Relock, CheckWaiters, NoCall, queueVars
    <3>2. CASE at' = [at EXCEPT ![t] = "wake"] /\ call' = call
      <4>1. /\ at[t] = "check" /\ at'[t] = "wake"
            /\ UNCHANGED <<owner, sequence, waiters, queueVars>>
        BY <1>7, <2>4, <3>2 DEF CallStepOf, Relock, CheckWaiters, Return
      <4> QED
        BY <3>2, <4>1 DEF queueVars
    <3> QED
      BY <2>4, <3>1, <3>2 DEF Relock, CheckWaiters, Return
  <2>5. CASE Wake(t) \/ WakeAll(t)
    <3>1. /\ at'[t] = "unlocking" /\ sequence' = sequence /\ waiters' = waiters
          /\ \A u \in Threads \ {t} :
                /\ call'[u] = call[u]
                /\ at'[u] = at[u] \/ (at[u] = "asleep" /\ at'[u] = "deregister")
      BY <2>5, WakesDisturbNobodyElse
    <3>2. call' \in [Threads -> [on : Conditions \cup {None}, resume : Places, observed : Nat]]
      <4>1. call' = [call EXCEPT ![t] = NoCall]
        BY <2>5 DEF Wake, WakeAll, Release
      <4>2. NoCall \in [on : Conditions \cup {None}, resume : Places, observed : Nat]
        BY DEF NoCall
      <4> HIDE DEF NoCall
      <4> QED
        BY <4>1, <4>2
    <3> QED
      <4>1. UNCHANGED <<sequence, waiters, pushing>>
        BY <1>7, <3>1 DEF CallStepOf, queueVars
      <4>2. ASSUME NEW u \in Threads \ {t}, at'[u] \in Waits
            PROVE  at[u] \in Waits /\ call'[u] = call[u]
        BY <3>1, <4>2
      <4>3. ASSUME NEW u \in Threads \ {t}, at'[u] \notin Waits
            PROVE  at'[u] = at[u] /\ call'[u] = call[u]
        BY <3>1, <4>3
      <4> QED
        <5>1. CallKnown(t)'
          BY <3>1
        <5>2. ASSUME NEW u \in Threads \ {t}, at'[u] \in Waits PROVE CallKnown(u)'
          BY <4>1, <4>2, <5>2
        <5>3. ASSUME NEW u \in Threads \ {t}, at'[u] \notin Waits PROVE CallKnown(u)'
          BY <4>1, <4>3, <5>3
        <5> HIDE DEF CallKnown
        <5> QED
          BY <3>2, <4>1, <5>1, <5>2, <5>3
  <2> QED
    BY <1>7, <2>1, <2>2, <2>3, <2>4, <2>5 DEF CallStepOf, CallStep
<1> QED
  BY <1>1, <1>2, <1>3, <1>4, <1>5, <1>6, <1>7 DEF StepOf

LEMMA MutexKept ==
  ASSUME QueueIInv, NEW t \in Threads, StepOf(t)
  PROVE  MutexHeld'
<1> USE NoneNoThread DEF QueueIInv, TypeOK, CallsKnown, CallKnown, MutexHeld, Goto, UnderMutex, Waits,
        Notifications, TestOf
<1>1. CASE CallPop(t) \/ \E v \in Values : CallPush(t, v)
  BY <1>1 DEF CallPop, CallPush
<1>2. CASE LockForPush(t) \/ LockForPop(t)
  BY <1>2 DEF LockForPush, LockForPop, Lock
<1>3. CASE WaitForRoom(t) \/ WaitForEntry(t)
  BY <1>3 DEF WaitForRoom, WaitForEntry, EnterWait
<1>4. CASE Insert(t) \/ Extract(t)
  BY <1>4 DEF Insert, Extract, EnterNotify, Publish
<1>5. CASE UnlockAndReturn(t) \/ ReleaseMutex(t)
  BY <1>5 DEF UnlockAndReturn, Unlock, ReleaseMutex
<1>6. CASE Register(t) \/ Sleep(t) \/ WakeSpuriously(t) \/ Deregister(t)
  BY <1>6 DEF Register, Sleep, WakeSpuriously, Deregister
<1>7. CASE Relock(t) \/ CheckWaiters(t)
  BY <1>7 DEF Relock, CheckWaiters, Return
<1>8. CASE Wake(t) \/ WakeAll(t)
  <2>1. /\ at[t] = "wake" /\ owner' = owner
        /\ \A u \in Threads \ {t} : at'[u] \in UnderMutex => at[u] \in UnderMutex
    BY <1>8, WakesAre
  <2> QED
    BY <2>1
<1> QED
  BY <1>1, <1>2, <1>3, <1>4, <1>5, <1>6, <1>7, <1>8 DEF StepOf, CallStepOf, CallStep

-----------------------------------------------------------------------------
(* The waiters counted. *)

\* Who is registered changes only for the thread that registers or deregisters.
LEMMA RegisteredMove ==
  ASSUME QueueIInv, NEW t \in Threads, StepOf(t), NEW c \in Conditions
  PROVE  \/ /\ Register(t) /\ call[t].on = c /\ waiters'[c] = waiters[c] + 1
            /\ t \notin Registered(c) /\ Registered(c)' = Registered(c) \cup {t}
         \/ /\ Deregister(t) /\ call[t].on = c /\ waiters'[c] = waiters[c] - 1
            /\ t \notin Registered(c)' /\ Registered(c) = Registered(c)' \cup {t}
         \/ /\ waiters'[c] = waiters[c] /\ Registered(c)' = Registered(c)
<1> USE DEF QueueIInv, TypeOK, CallsKnown, CallKnown, Goto, Waits, Notifications, TestOf, Registered
<1>1. CASE Register(t)
  BY <1>1 DEF Register
<1>2. CASE Deregister(t)
  BY <1>2 DEF Deregister
<1>3. CASE Wake(t) \/ WakeAll(t)
  <2>1. /\ waiters' = waiters
        /\ \A u \in Threads : u \in Registered(c) <=> u \in Registered(c)'
    BY <1>3, WakesAre DEF Asleep
  <2> QED
    BY <2>1
<1>4. CASE ~(Register(t) \/ Deregister(t) \/ Wake(t) \/ WakeAll(t))
  <2>1. /\ waiters' = waiters
        /\ \A u \in Threads : u \in Registered(c) <=> u \in Registered(c)'
    BY <1>4 DEF StepOf, CallPop, CallPush, LockForPush, LockForPop, Lock, WaitForRoom,
       WaitForEntry, EnterWait, Insert, Extract, EnterNotify, Publish, UnlockAndReturn,
       Unlock, CallStepOf, CallStep, Relock, WakeSpuriously, ReleaseMutex, Sleep,
       CheckWaiters, Return
  <2> QED
    BY <2>1
<1> QED
  BY <1>1, <1>2, <1>3, <1>4

LEMMA WaitersKept ==
  ASSUME QueueIInv, NEW t \in Threads, StepOf(t)
  PROVE  WaitersCounted'
<1> SUFFICES ASSUME NEW c \in Conditions
             PROVE  waiters'[c] = Cardinality(Registered(c)')
  BY DEF WaitersCounted
<1>1. Registered(c) \in SUBSET Threads /\ Registered(c)' \in SUBSET Threads
  BY DEF Registered
<1>2. waiters[c] = Cardinality(Registered(c)) /\ waiters[c] \in Nat
  BY DEF QueueIInv, WaitersCounted, CallsKnown
<1>3. Cardinality(Registered(c)') \in Nat
  BY <1>1, SetsOfThreads
<1>4. CASE /\ waiters'[c] = waiters[c] + 1
           /\ t \notin Registered(c) /\ Registered(c)' = Registered(c) \cup {t}
  BY <1>1, <1>2, <1>4, OneJoins
<1>5. CASE /\ waiters'[c] = waiters[c] - 1
           /\ t \notin Registered(c)' /\ Registered(c) = Registered(c)' \cup {t}
  <2>1. Cardinality(Registered(c)) = Cardinality(Registered(c)') + 1
    BY <1>1, <1>5, OneJoins
  <2> QED
    BY <1>2, <1>3, <1>5, <2>1
<1> QED
  BY <1>2, <1>4, <1>5, RegisteredMove

-----------------------------------------------------------------------------
(* The ring. *)

\* The k-th position of the ring behind position h.
Position(h, k) == (h + k) % Capacity

LEMMA Positions ==
  ASSUME NEW h \in 0..Capacity - 1, NEW k \in 0..Capacity
  PROVE  /\ Position(h, k) = IF h + k < Capacity THEN h + k ELSE h + k - Capacity
         /\ Position(h, k) \in 0..Capacity - 1
BY QueueBounds DEF Position

LEMMA PositionsDiffer ==
  ASSUME NEW h \in 0..Capacity - 1, NEW k \in 0..Capacity - 1, NEW l \in 0..Capacity - 1, k # l
  PROVE  Position(h, k) # Position(h, l)
<1>1. k \in 0..Capacity /\ l \in 0..Capacity
  BY QueueBounds
<1>2. /\ Position(h, k) = IF h + k < Capacity THEN h + k ELSE h + k - Capacity
      /\ Position(h, l) = IF h + l < Capacity THEN h + l ELSE h + l - Capacity
  BY <1>1, Positions
<1> QED
  BY <1>2, QueueBounds

LEMMA NextPosition ==
  ASSUME NEW h \in 0..Capacity - 1, NEW k \in 0..Capacity - 1
  PROVE  Position(Position(h, 1), k) = Position(h, k + 1)
<1>0. 1 \in 0..Capacity /\ k \in 0..Capacity /\ k + 1 \in 0..Capacity
  BY QueueBounds
<1>1. /\ Position(h, 1) = IF h + 1 < Capacity THEN h + 1 ELSE h + 1 - Capacity
      /\ Position(h, 1) \in 0..Capacity - 1
  BY <1>0, Positions
<1>2. Position(Position(h, 1), k)
         = IF Position(h, 1) + k < Capacity THEN Position(h, 1) + k ELSE Position(h, 1) + k - Capacity
  BY <1>0, <1>1, Positions
<1>3. Position(h, k + 1) = IF h + (k + 1) < Capacity THEN h + (k + 1) ELSE h + (k + 1) - Capacity
  BY <1>0, Positions
<1> QED
  BY <1>1, <1>2, <1>3, QueueBounds

LEMMA RingKept ==
  ASSUME QueueIInv, NEW t \in Threads, StepOf(t)
  PROVE  VacatedIsNull'
<1> USE QueueBounds DEF QueueIInv, TypeOK
<1>1. \A i \in 0..Capacity - 1 :
         entries[i] # Null => \E k \in 0..count - 1 : i = Position(head, k)
  BY DEF VacatedIsNull, Position
<1>2. SUFFICES ASSUME NEW i \in 0..Capacity - 1, entries'[i] # Null
               PROVE  \E k \in 0..count' - 1 : i = Position(head', k)
  BY DEF VacatedIsNull, Position
<1>3. CASE Insert(t)
  <2>1. /\ entries' = [entries EXCEPT ![Position(head, count)] = pushing[t]]
        /\ count' = count + 1 /\ head' = head /\ count \in Nat
    BY <1>3 DEF Insert, Position
  <2>2. CASE i = Position(head, count)
    BY <2>1, <2>2
  <2>3. CASE i # Position(head, count)
    <3>1. PICK k \in 0..count - 1 : i = Position(head, k)
      BY <1>1, <1>2, <2>1, <2>3
    <3> QED
      BY <2>1, <3>1
  <2> QED
    BY <2>2, <2>3
<1>4. CASE Extract(t)
  <2>1. /\ entries' = [entries EXCEPT ![head] = Null]
        /\ count' = count - 1 /\ head' = Position(head, 1) /\ count \in Nat
    BY <1>4 DEF Extract, Position
  <2>2. i # head /\ entries[i] # Null
    BY <1>2, <2>1
  <2>3. PICK k \in 0..count - 1 : i = Position(head, k)
    BY <1>1, <2>2
  <2>4. k # 0
    BY <2>2, <2>3, Positions
  <2>5. k - 1 \in 0..count' - 1 /\ i = Position(head', k - 1)
    <3>1. k - 1 \in 0..Capacity - 1 /\ (k - 1) + 1 = k
      BY <2>4
    <3>2. Position(Position(head, 1), k - 1) = Position(head, k)
      BY <3>1, NextPosition
    <3> QED
      BY <2>1, <2>3, <2>4, <3>2
  <2> QED
    BY <2>5
<1>5. CASE ~Insert(t) /\ ~Extract(t)
  <2>1. UNCHANGED <<entries, head, count>>
    BY <1>5 DEF StepOf, CallPop, CallPush, LockForPush, LockForPop, WaitForRoom, WaitForEntry,
       UnlockAndReturn, CallStepOf, queueVars
  <2> QED
    BY <1>1, <1>2, <2>1
<1> QED
  BY <1>3, <1>4, <1>5

\* The occupied part of a ring.
RingOf(e, h, n) == [i \in 1..n |-> e[Position(h, i - 1)]]

IsRing(V, e, h, n) ==
    e \in [0..Capacity - 1 -> V] /\ h \in 0..Capacity - 1 /\ n \in 0..Capacity

LEMMA RingsAre ==
  ASSUME NEW V, NEW e, NEW h, NEW n, IsRing(V, e, h, n)
  PROVE  /\ RingOf(e, h, n) \in Seq(V)
         /\ Len(RingOf(e, h, n)) = n
         /\ \A i \in 1..n : RingOf(e, h, n)[i] = e[Position(h, i - 1)]
<1> USE DEF IsRing
<1>1. ASSUME NEW i \in 1..n PROVE Position(h, i - 1) \in 0..Capacity - 1
  <2>1. i - 1 \in 0..Capacity
    BY QueueBounds
  <2> QED
    BY <2>1, Positions
<1>2. RingOf(e, h, n) \in [1..n -> V] /\ n \in Nat
  BY <1>1, QueueBounds DEF RingOf
<1>3. RingOf(e, h, n) \in Seq(V)
  BY <1>2
<1>4. Len(RingOf(e, h, n)) = n
  BY <1>2
<1> QED
  BY <1>3, <1>4 DEF RingOf

LEMMA ContentsAre ==
  ASSUME NEW e, NEW h \in 0..Capacity - 1, NEW n \in 0..Capacity
  PROVE  [i \in 1..n |-> e[(h + i - 1) % Capacity]] = RingOf(e, h, n)
<1>1. \A i \in 1..n : h + i - 1 = h + (i - 1)
  BY QueueBounds
<1> QED
  BY <1>1 DEF RingOf, Position

\* What Insert and Extract do to the contents.
LEMMA RingGrows ==
  ASSUME NEW V, NEW e, NEW h, NEW n, IsRing(V, e, h, n),
         NEW g, NEW m, IsRing(V, g, h, m), m = n + 1,
         NEW v \in V, g[Position(h, n)] = v,
         \A i \in 0..Capacity - 1 : i # Position(h, n) => g[i] = e[i]
  PROVE  RingOf(g, h, m) = Append(RingOf(e, h, n), v)
<1> DEFINE old == RingOf(e, h, n)
           new == RingOf(g, h, m)
<1>2. /\ old \in Seq(V) /\ Len(old) = n
      /\ \A i \in 1..n : old[i] = e[Position(h, i - 1)]
  BY RingsAre
<1>3. /\ new \in Seq(V) /\ Len(new) = m
      /\ \A i \in 1..m : new[i] = g[Position(h, i - 1)]
  BY RingsAre
<1> HIDE DEF old, new
<1> USE DEF IsRing
<1>1. n \in 0..Capacity - 1 /\ m \in 0..Capacity /\ n \in Nat
  BY QueueBounds
<1>4. ASSUME NEW i \in 1..n PROVE new[i] = old[i]
  <2>1. i - 1 \in 0..Capacity - 1 /\ i - 1 # n /\ i - 1 \in 0..Capacity
    BY QueueBounds
  <2>2. Position(h, i - 1) # Position(h, n)
    <3>1. h \in 0..Capacity - 1
      OBVIOUS
    <3> QED
      BY <1>1, <2>1, <3>1, PositionsDiffer
  <2>3. Position(h, i - 1) \in 0..Capacity - 1
    BY <2>1, Positions
  <2>4. i \in 1..m
    BY <1>1
  <2> QED
    BY <1>2, <1>3, <2>2, <2>3, <2>4
<1>5. new[n + 1] = v
  BY <1>1, <1>3
<1>6. Append(old, v) \in Seq(V) /\ Len(Append(old, v)) = n + 1
  BY <1>2
<1>7. \A i \in 1..n + 1 : Append(old, v)[i] = new[i]
  BY <1>1, <1>2, <1>4, <1>5
<1>8. new = Append(old, v)
  BY <1>3, <1>6, <1>7, SeqEqual
<1> QED
  BY <1>8 DEF old, new

LEMMA RingShrinks ==
  ASSUME NEW V, NEW e, NEW h, NEW n, IsRing(V, e, h, n), n # 0,
         NEW g, NEW k, NEW m, IsRing(V, g, k, m), m = n - 1, k = Position(h, 1),
         \A i \in 0..Capacity - 1 : i # h => g[i] = e[i]
  PROVE  RingOf(g, k, m) = Tail(RingOf(e, h, n))
<1> DEFINE old == RingOf(e, h, n)
           new == RingOf(g, k, m)
<1>3. /\ old \in Seq(V) /\ Len(old) = n
      /\ \A i \in 1..n : old[i] = e[Position(h, i - 1)]
  BY RingsAre
<1>4. /\ new \in Seq(V) /\ Len(new) = m
      /\ \A i \in 1..m : new[i] = g[Position(k, i - 1)]
  BY RingsAre
<1> HIDE DEF old, new
<1> USE DEF IsRing
<1>1. n \in 1..Capacity /\ m \in 0..Capacity /\ n \in Nat
  BY QueueBounds
<1>2. k \in 0..Capacity - 1
  OBVIOUS
<1>5. ASSUME NEW i \in 1..n - 1 PROVE new[i] = old[i + 1]
  <2>1. i - 1 \in 0..Capacity - 1 /\ i \in 0..Capacity - 1 /\ i # 0 /\ (i - 1) + 1 = i
        /\ i + 1 \in 1..n /\ (i + 1) - 1 = i /\ 0 \in 0..Capacity - 1 /\ i \in 0..Capacity
    BY <1>1, QueueBounds
  <2>2. Position(k, i - 1) = Position(h, i)
    BY <2>1, NextPosition
  <2>3. Position(h, i) # h /\ Position(h, i) \in 0..Capacity - 1
    <3>1. Position(h, 0) = h
      BY Positions, QueueBounds
    <3> QED
      BY <2>1, <3>1, Positions, PositionsDiffer
  <2>4. new[i] = e[Position(h, i)]
    BY <1>4, <2>2, <2>3
  <2>5. old[i + 1] = e[Position(h, i)]
    BY <1>3, <2>1
  <2> QED
    BY <2>4, <2>5
<1>6. /\ Tail(old) \in Seq(V) /\ Len(Tail(old)) = n - 1
      /\ \A i \in 1..n - 1 : Tail(old)[i] = old[i + 1]
  <2>1. old # <<>>
    BY <1>3
  <2> QED
    BY <1>3, <2>1, HeadTailProperties
<1>7. new = Tail(old)
  <2>1. \A i \in 1..Len(new) : new[i] = Tail(old)[i]
    BY <1>4, <1>5, <1>6
  <2> QED
    BY <1>4, <1>6, <2>1, SeqEqual
<1> QED
  BY <1>7 DEF old, new

\* A step puts a pointer into the queue, takes the oldest out, or leaves the queue alone.
LEMMA Refines ==
  ASSUME QueueIInv, NEW t \in Threads, StepOf(t)
  PROVE  Promise!Next \/ Contents' = Contents
<1> DEFINE V == Values \cup {Null}
<1>0. IsRing(V, entries, head, count) /\ IsRing(V, entries', head', count')
  BY TypesKept DEF QueueIInv, TypeOK, IsRing
<1> HIDE DEF V
<1>1. Contents = RingOf(entries, head, count)
  BY <1>0, ContentsAre DEF Contents, IsRing
<1>2. Contents' = RingOf(entries', head', count')
  BY <1>0, ContentsAre DEF Contents, IsRing
<1>3. CASE Insert(t)
  <2>1. /\ entries' = [entries EXCEPT ![Position(head, count)] = pushing[t]]
        /\ count' = count + 1 /\ head' = head /\ count # Capacity
        /\ pushing[t] \in Values
    BY <1>3 DEF Insert, Position, QueueIInv, CallsKnown, CallKnown
  <2>2. /\ entries'[Position(head, count)] = pushing[t]
        /\ \A i \in 0..Capacity - 1 : i # Position(head, count) => entries'[i] = entries[i]
    BY <1>0, <2>1, Positions DEF IsRing
  <2>3. Contents' = Append(Contents, pushing[t])
    <3>1. pushing[t] \in V
      BY <2>1 DEF V
    <3>2. IsRing(V, entries', head, count')
      BY <1>0, <2>1
    <3>3. count' = count + 1
      BY <2>1
    <3>4. RingOf(entries', head, count') = Append(RingOf(entries, head, count), pushing[t])
      BY <1>0, <2>2, <3>1, <3>2, <3>3, RingGrows
    <3> QED
      BY <1>1, <1>2, <2>1, <3>4
  <2>4. Len(Contents) < Capacity
    <3>1. Len(Contents) = count
      BY <1>0, <1>1, RingsAre
    <3> QED
      BY <1>0, <2>1, <3>1, QueueBounds DEF IsRing
  <2> QED
    BY <2>1, <2>3, <2>4 DEF Promise!Next, Promise!Put
<1>4. CASE Extract(t)
  <2>1. /\ entries' = [entries EXCEPT ![head] = Null]
        /\ count' = count - 1 /\ head' = Position(head, 1) /\ count # 0
    BY <1>4 DEF Extract, Position
  <2>2. \A i \in 0..Capacity - 1 : i # head => entries'[i] = entries[i]
    BY <1>0, <2>1 DEF IsRing
  <2>3. Contents' = Tail(Contents)
    <3>0. count # 0 /\ count' = count - 1 /\ head' = Position(head, 1)
      BY <2>1
    <3>1. RingOf(entries', head', count') = Tail(RingOf(entries, head, count))
      BY <1>0, <2>2, <3>0, RingShrinks
    <3> QED
      BY <1>1, <1>2, <3>1
  <2>4. Contents # <<>>
    <3>1. Len(Contents) = count
      BY <1>0, <1>1, RingsAre
    <3> QED
      BY <2>1, <3>1
  <2> QED
    BY <2>3, <2>4 DEF Promise!Next, Promise!Take
<1>5. CASE ~Insert(t) /\ ~Extract(t)
  <2>1. UNCHANGED <<entries, head, count>>
    BY <1>5 DEF StepOf, CallPop, CallPush, LockForPush, LockForPop, WaitForRoom, WaitForEntry,
       UnlockAndReturn, CallStepOf, queueVars
  <2> QED
    BY <2>1, <1>1, <1>2
<1> QED
  BY <1>3, <1>4, <1>5

-----------------------------------------------------------------------------
(* What sleepers wait for. *)

LEMMA FreshKept ==
  ASSUME QueueIInv, NEW t \in Threads, StepOf(t)
  PROVE  FreshFoundNone'
<1> USE QueueBounds DEF QueueIInv, TypeOK, CallsKnown, CallKnown, Goto, Fresh, Available, Waits,
        Notifications, TestOf
<1> SUFFICES ASSUME NEW u \in Threads, Fresh(u)'
             PROVE  Available(call[u].on)' = 0
  BY DEF FreshFoundNone
<1>1. CASE WaitForRoom(t) \/ WaitForEntry(t)
  <2>1. CASE u = t
    BY <1>1, <2>1 DEF WaitForRoom, WaitForEntry, EnterWait, queueVars
  <2>2. CASE u # t
    <3>1. Fresh(u) /\ call'[u] = call[u] /\ count' = count
      BY <1>1, <2>2 DEF WaitForRoom, WaitForEntry, EnterWait, queueVars
    <3> QED
      BY <3>1 DEF FreshFoundNone
  <2> QED
    BY <2>1, <2>2
<1>2. CASE Insert(t)
  <2>1. /\ u # t /\ at'[u] = at[u] /\ call'[u] = call[u] /\ count' = count + 1
        /\ sequence' = [sequence EXCEPT !["readable"] = @ + 1] /\ count # Capacity
    BY <1>2 DEF Insert, EnterNotify, Publish
  <2>2. call[u].on = "writable"
    BY <2>1
  <2>3. Fresh(u)
    BY <2>1, <2>2
  <2> QED
    BY <2>1, <2>2, <2>3 DEF FreshFoundNone
<1>3. CASE Extract(t)
  <2>1. /\ u # t /\ at'[u] = at[u] /\ call'[u] = call[u] /\ count' = count - 1
        /\ sequence' = [sequence EXCEPT !["writable"] = @ + 1] /\ count # 0
    BY <1>3 DEF Extract, EnterNotify, Publish
  <2>2. call[u].on = "readable"
    BY <2>1
  <2>3. Fresh(u)
    BY <2>1, <2>2
  <2> QED
    BY <2>1, <2>2, <2>3 DEF FreshFoundNone
<1>4. CASE ~(WaitForRoom(t) \/ WaitForEntry(t) \/ Insert(t) \/ Extract(t))
  <2>1. UNCHANGED <<count, sequence>> /\ Fresh(u) /\ call'[u] = call[u]
    <3>1. CASE Wake(t) \/ WakeAll(t)
      <4>1. count' = count
        BY <1>4 DEF StepOf, CallPop, CallPush, LockForPush, LockForPop, UnlockAndReturn,
           CallStepOf, queueVars
      <4> QED
        BY <3>1, <4>1, WakesDisturbNobodyElse
    <3>2. CASE ~Wake(t) /\ ~WakeAll(t)
      BY <1>4, <3>2 DEF StepOf, CallPop, CallPush, LockForPush, LockForPop, Lock, UnlockAndReturn,
         Unlock, CallStepOf, CallStep, Relock, WakeSpuriously, Register, ReleaseMutex, Sleep,
         Deregister, CheckWaiters, Return, queueVars
    <3> QED
      BY <3>1, <3>2
  <2> QED
    BY <2>1 DEF FreshFoundNone
<1> QED
  BY <1>1, <1>2, <1>3, <1>4

\* What is available to the sleepers stays spoken for.
LEMMA SpokenForKept ==
  ASSUME QueueIInv, NEW t \in Threads, StepOf(t)
  PROVE  EntriesSpokenFor'
<1> SUFFICES ASSUME NEW c \in Conditions, NEW s \in Threads, s \in Asleep(c)'
             PROVE  Available(c)' <= Cardinality(OnTheirWay(c)')
  BY DEF EntriesSpokenFor, Asleep
<1> DEFINE old == OnTheirWay(c)
           new == OnTheirWay(c)'
<1>1. /\ old \in SUBSET Threads /\ new \in SUBSET Threads
      /\ Cardinality(old) \in Nat /\ Cardinality(new) \in Nat
  <2>1. old \in SUBSET Threads /\ new \in SUBSET Threads
    BY DEF OnTheirWay
  <2> HIDE DEF old, new
  <2> QED
    BY <2>1, SetsOfThreads
<1>2. Available(c) \in 0..Capacity /\ Available(c)' \in 0..Capacity
  BY QueueBounds, TypesKept DEF QueueIInv, TypeOK, Available
<1>3. s \in Asleep(c) => Available(c) <= Cardinality(old)
  BY DEF QueueIInv, EntriesSpokenFor
<1>4. ASSUME s \in Asleep(c), old \subseteq new, Available(c)' = Available(c)
      PROVE  Available(c)' <= Cardinality(new)
  BY <1>1, <1>2, <1>3, <1>4, MoreAre, QueueBounds
<1>5. ASSUME s \in Asleep(c), t \notin old, new = old \cup {t}, Available(c)' = Available(c) + 1
      PROVE  Available(c)' <= Cardinality(new)
  <2> HIDE DEF old, new
  <2> QED
    BY <1>1, <1>2, <1>3, <1>5, OneJoins, QueueBounds
<1>6. ASSUME s \in Asleep(c), t \notin new, old = new \cup {t}, Available(c)' = Available(c) - 1
      PROVE  Available(c)' <= Cardinality(new)
  <2> HIDE DEF old, new
  <2> QED
    BY <1>1, <1>2, <1>3, <1>6, OneJoins, QueueBounds
<1> USE QueueBounds DEF QueueIInv, TypeOK, CallsKnown, CallKnown, Goto, Waits, Notifications, TestOf
<1>7. CASE Insert(t)
  <2>1. /\ at[t] = "pushTest" /\ at'[t] = "check" /\ call'[t].on = "readable"
        /\ \A u \in Threads \ {t} : at'[u] = at[u] /\ call'[u] = call[u]
        /\ count' = count + 1
    BY <1>7 DEF Insert, EnterNotify, Publish
  <2>2. s \in Asleep(c)
    BY <2>1 DEF Asleep
  <2>3. CASE c = "readable"
    BY <1>5, <2>1, <2>2, <2>3 DEF OnTheirWay, Available
  <2>4. CASE c = "writable"
    <3>1. t \notin new /\ old = new \cup {t}
      BY <2>1, <2>4 DEF OnTheirWay
    <3> QED
      BY <1>6, <2>1, <2>2, <2>4, <3>1 DEF Available
  <2> QED
    BY <2>3, <2>4
<1>8. CASE Extract(t)
  <2>1. /\ at[t] = "popTest" /\ at'[t] = "check" /\ call'[t].on = "writable"
        /\ \A u \in Threads \ {t} : at'[u] = at[u] /\ call'[u] = call[u]
        /\ count' = count - 1
    BY <1>8 DEF Extract, EnterNotify, Publish
  <2>2. s \in Asleep(c)
    BY <2>1 DEF Asleep
  <2>3. CASE c = "writable"
    BY <1>5, <2>1, <2>2, <2>3 DEF OnTheirWay, Available
  <2>4. CASE c = "readable"
    <3>1. t \notin new /\ old = new \cup {t}
      BY <2>1, <2>4 DEF OnTheirWay
    <3> QED
      BY <1>6, <2>1, <2>2, <2>4, <3>1 DEF Available
  <2> QED
    BY <2>3, <2>4
<1>9. CASE WaitForRoom(t) \/ WaitForEntry(t)
  <2>1. /\ at'[t] = "register" /\ call'[t].on \in Conditions /\ at[t] = TestOf(call'[t].on)
        /\ Available(call'[t].on) = 0
        /\ \A u \in Threads \ {t} : at'[u] = at[u] /\ call'[u] = call[u]
        /\ count' = count
    BY <1>9 DEF WaitForRoom, WaitForEntry, EnterWait, queueVars, Available
  <2>2. s \in Asleep(c) /\ Available(c)' = Available(c)
    BY <2>1 DEF Asleep, Available
  <2>3. CASE c = call'[t].on
    BY <1>1, <2>1, <2>2, <2>3
  <2>4. CASE c # call'[t].on
    <3>1. old \subseteq new
      BY <2>1, <2>4 DEF OnTheirWay
    <3> QED
      BY <1>4, <2>2, <3>1
  <2> QED
    BY <2>3, <2>4
<1>10. CASE Sleep(t) /\ UNCHANGED queueVars
  <2>1. Available(c)' = Available(c)
    BY <1>10 DEF Available, queueVars
  <2>2. CASE at'[t] = "asleep" /\ call[t].on = c
    <3>1. Fresh(t)
      BY <1>10, <2>2 DEF Sleep, FutexSleeps, Fresh
    <3> QED
      BY <1>1, <2>1, <2>2, <3>1 DEF FreshFoundNone
  <2>3. CASE ~(at'[t] = "asleep" /\ call[t].on = c)
    <3>1. s \in Asleep(c) /\ old \subseteq new
      BY <1>10, <2>3 DEF Sleep, Asleep, OnTheirWay
    <3> QED
      BY <1>4, <2>1, <3>1
  <2> QED
    BY <2>2, <2>3
<1>11. CASE CheckWaiters(t) /\ UNCHANGED queueVars
  <2>1. Available(c)' = Available(c)
    BY <1>11 DEF Available, queueVars
  <2>2. /\ at[t] = "check" /\ call[t].on \in Conditions /\ call[t].resume = "unlocking"
        /\ \A u \in Threads \ {t} : at'[u] = at[u] /\ call'[u] = call[u]
        /\ at'[t] \in {"wake", "unlocking"}
        /\ at'[t] = "wake" => call'[t] = call[t]
        /\ at'[t] = "unlocking" => waiters[call[t].on] = 0
    BY <1>11 DEF CheckWaiters, Return
  <2>3. s \in Asleep(c)
    BY <2>2 DEF Asleep
  <2>4. at'[t] = "unlocking" => call[t].on # c
    <3>1. s \in Registered(c) /\ Registered(c) \in SUBSET Threads
      BY <2>3 DEF Registered, Asleep
    <3>2. Cardinality(Registered(c)) > 0
      BY <3>1, SetsOfThreads
    <3> QED
      BY <2>2, <3>2 DEF WaitersCounted
  <2>5. old \subseteq new
    BY <2>2, <2>4 DEF OnTheirWay
  <2> QED
    BY <1>4, <2>1, <2>3, <2>5
<1>12. CASE (Wake(t) \/ WakeAll(t)) /\ UNCHANGED queueVars
  <2>1. Available(c)' = Available(c)
    BY <1>12 DEF Available, queueVars
  <2>2. /\ at[t] = "wake" /\ call[t].on \in Conditions /\ at'[t] = "unlocking"
    BY <1>12, WakesAre
  <2>3. CASE /\ Asleep(call[t].on) = {}
             /\ \A u \in Threads \ {t} : at'[u] = at[u] /\ call'[u] = call[u]
    <3>1. s \in Asleep(c)
      BY <2>2, <2>3 DEF Asleep
    <3>2. call[t].on # c
      BY <2>3, <3>1
    <3>3. old \subseteq new
      BY <2>2, <2>3, <3>2 DEF OnTheirWay
    <3> QED
      BY <1>4, <2>1, <3>1, <3>3
  <2>4. ASSUME NEW v \in Asleep(call[t].on), v # t, at'[v] = "deregister", call'[v] = call[v],
               \A u \in Threads \ {t, v} : at'[u] = at[u] /\ call'[u] = call[u]
        PROVE  Available(c)' <= Cardinality(new)
    <3>1. v \in Threads /\ at[v] = "asleep" /\ call[v].on = call[t].on
      BY DEF Asleep
    <3>2. s \in Asleep(c)
      BY <2>2, <2>4, <3>1 DEF Asleep
    <3>3. CASE call[t].on # c
      <4>1. old \subseteq new
        BY <2>2, <2>4, <3>1, <3>3 DEF OnTheirWay
      <4> QED
        BY <1>4, <2>1, <3>2, <4>1
    <3>4. CASE call[t].on = c
      <4> DEFINE rest == old \ {t}
      <4>1. t \in old /\ v \notin old
        BY <2>2, <3>1, <3>4 DEF OnTheirWay
      <4>2. new = rest \cup {v}
        BY <2>2, <2>4, <3>1, <3>4 DEF OnTheirWay
      <4>3. rest \in SUBSET Threads /\ t \notin rest /\ v \notin rest /\ old = rest \cup {t}
        BY <1>1, <4>1
      <4> HIDE DEF rest, old, new
      <4>4. Cardinality(old) = Cardinality(rest) + 1 /\ Cardinality(new) = Cardinality(rest) + 1
        BY <1>1, <3>1, <4>2, <4>3, OneJoins
      <4> QED
        BY <1>3, <2>1, <3>2, <4>4
    <3> QED
      BY <3>3, <3>4
  <2>5. \/ /\ Asleep(call[t].on) = {}
           /\ \A u \in Threads \ {t} : at'[u] = at[u] /\ call'[u] = call[u]
        \/ \E v \in Asleep(call[t].on) :
              /\ v # t /\ at'[v] = "deregister" /\ call'[v] = call[v]
              /\ \A u \in Threads \ {t, v} : at'[u] = at[u] /\ call'[u] = call[u]
    BY <1>12, WakesAre
  <2> QED
    BY <2>3, <2>4, <2>5
<1>13. CASE ~(\/ Insert(t) \/ Extract(t) \/ WaitForRoom(t) \/ WaitForEntry(t) \/ Sleep(t)
              \/ CheckWaiters(t) \/ Wake(t) \/ WakeAll(t))
  <2>1. s \in Asleep(c) /\ old \subseteq new /\ count' = count
    BY <1>13 DEF StepOf, CallPop, CallPush, LockForPush, LockForPop, Lock, UnlockAndReturn, Unlock,
       CallStepOf, CallStep, Relock, WakeSpuriously, Register, ReleaseMutex, Deregister, Return,
       Asleep, OnTheirWay, queueVars
  <2>2. Available(c)' = Available(c)
    BY <2>1 DEF Available
  <2> QED
    BY <1>4, <2>1, <2>2
<1>14. UNCHANGED queueVars \/ ~(Sleep(t) \/ CheckWaiters(t) \/ Wake(t) \/ WakeAll(t))
  BY DEF StepOf, CallPop, CallPush, LockForPush, LockForPop, Lock, WaitForRoom, WaitForEntry,
     EnterWait, Insert, Extract, EnterNotify, Publish, UnlockAndReturn, Unlock, CallStepOf, Sleep,
     CheckWaiters, Wake, WakeAll
<1> QED
  BY <1>7, <1>8, <1>9, <1>10, <1>11, <1>12, <1>13, <1>14

-----------------------------------------------------------------------------
LEMMA Starts == Init => QueueIInv
<1> SUFFICES ASSUME Init PROVE QueueIInv
  OBVIOUS
<1>1. TypeOK /\ CallsKnown /\ MutexHeld
  BY QueueBounds DEF Init, CVInit, TypeOK, CallsKnown, CallKnown, MutexHeld, Places, CallPlaces,
     NoCall, Waits, Notifications, UnderMutex
<1>2. WaitersCounted
  <2>1. \A c \in Conditions : Registered(c) = {}
    BY DEF Init, CVInit, Registered
  <2> QED
    BY <2>1, FS_EmptySet DEF Init, CVInit, WaitersCounted
<1>3. VacatedIsNull
  BY DEF Init, VacatedIsNull
<1>4. FreshFoundNone /\ EntriesSpokenFor
  BY DEF Init, CVInit, FreshFoundNone, Fresh, EntriesSpokenFor, Asleep
<1> QED
  BY <1>1, <1>2, <1>3, <1>4 DEF QueueIInv

LEMMA Stutters == QueueIInv /\ UNCHANGED vars => QueueIInv' /\ Contents' = Contents
<1> SUFFICES ASSUME QueueIInv, UNCHANGED vars PROVE QueueIInv' /\ Contents' = Contents
  OBVIOUS
<1> USE DEF vars, cvVars, queueVars, QueueIInv
<1>1. TypeOK' /\ CallsKnown' /\ MutexHeld'
  BY DEF TypeOK, CallsKnown, CallKnown, MutexHeld
<1>2. WaitersCounted' /\ VacatedIsNull'
  BY DEF WaitersCounted, Registered, VacatedIsNull
<1>3. FreshFoundNone' /\ EntriesSpokenFor'
  BY DEF FreshFoundNone, Fresh, Available, EntriesSpokenFor, Asleep, OnTheirWay
<1>4. Contents' = Contents
  BY DEF Contents
<1> QED
  BY <1>1, <1>2, <1>3, <1>4

LEMMA QueueKept == QueueIInv /\ [Next]_vars => QueueIInv' /\ [Promise!Next]_Contents
<1> SUFFICES ASSUME QueueIInv, [Next]_vars PROVE QueueIInv' /\ [Promise!Next]_Contents
  OBVIOUS
<1>1. CASE UNCHANGED vars
  BY <1>1, Stutters
<1>2. ASSUME NEW t \in Threads, StepOf(t) PROVE QueueIInv' /\ (Promise!Next \/ Contents' = Contents)
  BY <1>2, TypesKept, CallsKept, MutexKept, WaitersKept, RingKept, FreshKept, SpokenForKept, Refines
     DEF QueueIInv
<1> QED
  BY <1>1, <1>2, StepsAre

LEMMA StartsEmpty == Init => Promise!Init
<1> SUFFICES ASSUME Init PROVE Contents = <<>>
  BY DEF Promise!Init
<1>1. IsRing(Values \cup {Null}, entries, head, count) /\ count = 0
  BY QueueBounds DEF Init, IsRing
<1>2. Contents = RingOf(entries, head, count)
  BY <1>1, ContentsAre DEF Contents, IsRing
<1>3. Contents \in Seq(Values \cup {Null}) /\ Len(Contents) = 0
  BY <1>1, <1>2, RingsAre
<1> QED
  BY <1>3

\* A queue of any capacity, used by any number of threads: the waiters of both conditions
\* are counted, a vacated entry is nulled, and while a popper (a pusher) sleeps each
\* pointer (each free slot) is spoken for by a thread that comes for it or a notification.
THEOREM QueueTold == Spec => []QueueInv
<1>1. QueueIInv => QueueInv
  BY DEF QueueIInv, QueueInv
<1> QED
  BY <1>1, Starts, QueueKept, PTL DEF Spec

\* Whatever its capacity, a queue hands out the pointers once each and in the order in
\* which they were pushed, across the end of the ring, and never holds more than fit.
THEOREM QueueIsFIFO == Spec => IsBoundedFIFO
BY StartsEmpty, Starts, QueueKept, PTL DEF Spec, IsBoundedFIFO, Promise!Spec

-----------------------------------------------------------------------------
(* The semaphore. *)

LEMMA PermitTypes ==
  /\ IsFiniteSet(Threads)
  /\ Batches \subseteq Nat \ {0}
  /\ LargestSZ \in Nat /\ InitialCount \in 0..LargestSZ
BY SemaphoreAssumption DEF Permits!SemaphoreTypes, Permits!IsFiniteSet, IsFiniteSet

LEMMA SameCardinality == \A S : Permits!Cardinality(S) = Cardinality(S)
BY DEF Permits!Cardinality, Cardinality, Permits!IsFiniteSet, IsFiniteSet

Announcements == {"check", "wake", "checkAll", "wakeAll"}
Releases == {"releaseUnlock", "notify"}

\* What a call in progress is about, where it returns, and what a release adds.
PermitCallsKnown ==
    /\ sequence \in [{"permit"} -> Nat] /\ waiters \in [{"permit"} -> Nat]
    /\ call \in [Threads -> [on : {"permit", None}, resume : Permits!Places, observed : Nat]]
    /\ adding \in [Threads -> Nat]
    /\ panicked \in BOOLEAN
    /\ \A t \in Threads :
          /\ at[t] \in Waits => call[t].on = "permit" /\ call[t].resume = "acquireTest"
          /\ at[t] \in Announcements => call[t].on = "permit" /\ call[t].resume = "out"
          /\ at[t] \in Waits => call[t].observed <= sequence["permit"]
          /\ at[t] \in Releases \cup {"releaseLock", "releaseTest"} => adding[t] > 0

\* How many threads stand at some places.
HowMany(f, P) == Cardinality({u \in Threads : f[u] \in P})

\* A waiter that would sleep: nobody has notified since it loaded the sequence.
FreshForPermit(t) ==
    /\ at[t] \in {"register", "unlock", "sleep"}
    /\ call[t].observed = sequence["permit"]

\* The permits such a waiter has not seen are still to be announced: there was none
\* when it looked, and who has added one since has not yet notified.
FreshAreTold ==
    /\ ~panicked
    /\ \E t \in Threads : FreshForPermit(t)
    /\ \A t \in Threads : at[t] \in Releases => adding[t] = 1
    => permits <= HowMany(at, Releases)

PermitIInv ==
    /\ Permits!TypeOK /\ PermitCallsKnown /\ Permits!WaitersCounted /\ FreshAreTold
    /\ Permits!PermitsSpokenFor

\* A step is some thread's.
PermitStepOf(t) ==
    \/ Permits!CallAcquire(t) \/ Permits!CallTryAcquire(t) \/ Permits!CallRelease(t)
    \/ Permits!LockForAcquire(t) \/ Permits!LockForTry(t) \/ Permits!LockForRelease(t)
    \/ Permits!WaitForPermit(t) \/ Permits!TakePermit(t) \/ Permits!GiveUp(t)
    \/ Permits!UnlockAndReturn(t) \/ Permits!AddPermits(t) \/ Permits!UnlockThenNotify(t) \/ Permits!Notify(t)
    \/ /\ Permits!CallStep(t) \/ Permits!Relock(t) \/ Permits!WakeSpuriously(t)
       /\ UNCHANGED Permits!semaphoreVars

LEMMA PermitStepsAre == Permits!Next => ~panicked /\ \E t \in Threads : PermitStepOf(t)
BY DEF Permits!Next, Permits!Step, Permits!TakeMutex, PermitStepOf

-----------------------------------------------------------------------------
(* Places and counts. *)

LEMMA SomeStand ==
  ASSUME NEW P, NEW f
  PROVE  /\ IsFiniteSet({u \in Threads : f[u] \in P})
         /\ HowMany(f, P) \in Nat
         /\ \A t \in Threads : f[t] \in P => HowMany(f, P) > 0
<1> DEFINE F == {u \in Threads : f[u] \in P}
<1>1. IsFiniteSet(F)
  BY FS_Subset, PermitTypes
<1>2. Cardinality(F) \in Nat
  BY <1>1, FS_CardinalityType
<1>3. ASSUME NEW t \in Threads, f[t] \in P PROVE Cardinality(F) > 0
  <2>1. F # {}
    BY <1>3
  <2> HIDE DEF F
  <2> QED
    BY <2>1, <1>1, <1>2, FS_EmptySet
<1> QED
  BY <1>1, <1>2, <1>3 DEF HowMany

LEMMA OneMoves ==
  ASSUME NEW P, NEW f, NEW g, NEW t \in Threads,
         \A u \in Threads \ {t} : g[u] = f[u]
  PROVE  /\ (f[t] \in P <=> g[t] \in P) => HowMany(g, P) = HowMany(f, P)
         /\ f[t] \in P /\ g[t] \notin P => HowMany(g, P) = HowMany(f, P) - 1
         /\ f[t] \notin P /\ g[t] \in P => HowMany(g, P) = HowMany(f, P) + 1
<1> DEFINE F == {u \in Threads : f[u] \in P}
           G == {u \in Threads : g[u] \in P}
<1>1. IsFiniteSet(F)
  BY SomeStand
<1>2. CASE f[t] \in P <=> g[t] \in P
  <2>1. F = G
    BY <1>2
  <2> QED
    BY <1>2, <2>1 DEF HowMany
<1>3. CASE f[t] \in P /\ g[t] \notin P
  <2>1. G = F \ {t} /\ t \in F
    BY <1>3
  <2>2. Cardinality(G) = Cardinality(F) - 1
    <3> HIDE DEF F, G
    <3> QED
      BY <2>1, <1>1, FS_RemoveElement
  <2> QED
    BY <1>3, <2>2 DEF HowMany
<1>4. CASE f[t] \notin P /\ g[t] \in P
  <2>1. G = F \cup {t} /\ t \notin F
    BY <1>4
  <2>2. Cardinality(G) = Cardinality(F) + 1
    <3> HIDE DEF F, G
    <3> QED
      BY <2>1, <1>1, FS_AddElement
  <2> QED
    BY <1>4, <2>2 DEF HowMany
<1> QED
  BY <1>2, <1>3, <1>4

LEMMA MoreStand ==
  ASSUME NEW P, NEW Q, NEW f, NEW g,
         \A u \in Threads : f[u] \in P => g[u] \in Q
  PROVE  HowMany(f, P) <= HowMany(g, Q)
<1>1. {u \in Threads : f[u] \in P} \in SUBSET {u \in Threads : g[u] \in Q}
  OBVIOUS
<1> QED
  BY <1>1, SomeStand, FS_Subset DEF HowMany

\* The sets the properties speak of are those of the threads at some places.
Counted == {"unlock", "sleep", "asleep", "deregister"}
Ways == {"deregister", "relock", "acquireTest", "tryTest", "releaseUnlock", "notify",
         "check", "wake"}

LEMMA PermitSetsAre ==
  ASSUME PermitCallsKnown
  PROVE  /\ Permits!Registered("permit") = {u \in Threads : at[u] \in Counted}
         /\ Permits!Asleep("permit") = {u \in Threads : at[u] = "asleep"}
BY DEF PermitCallsKnown, Permits!Registered, Permits!Asleep, Counted, Waits

-----------------------------------------------------------------------------
(* Types, and what calls are about. *)

LEMMA PermitTypesKept ==
  ASSUME PermitIInv, NEW t \in Threads, PermitStepOf(t)
  PROVE  Permits!TypeOK'
<1> USE DEF PermitIInv, Permits!TypeOK, Permits!Goto, Permits!Places, Permits!CallPlaces
<1>1. CASE Permits!CallAcquire(t) \/ Permits!CallTryAcquire(t) \/ Permits!CallRelease(t)
  BY <1>1 DEF Permits!CallAcquire, Permits!CallTryAcquire, Permits!CallRelease, Permits!Call,
     Permits!semaphoreVars
<1>2. CASE Permits!LockForAcquire(t) \/ Permits!LockForTry(t) \/ Permits!LockForRelease(t)
  BY <1>2 DEF Permits!LockForAcquire, Permits!LockForTry, Permits!LockForRelease, Permits!Lock,
     Permits!semaphoreVars
<1>3. CASE Permits!WaitForPermit(t) \/ Permits!GiveUp(t)
  BY <1>3 DEF Permits!WaitForPermit, Permits!EnterWait, Permits!GiveUp, Permits!semaphoreVars
<1>4. CASE Permits!TakePermit(t)
  BY <1>4, PermitTypes DEF Permits!TakePermit
<1>5. CASE Permits!UnlockAndReturn(t) \/ Permits!UnlockThenNotify(t)
  BY <1>5 DEF Permits!UnlockAndReturn, Permits!UnlockThenNotify, Permits!Unlock,
     Permits!semaphoreVars
<1>6. CASE Permits!AddPermits(t)
  BY <1>6, PermitTypes DEF Permits!AddPermits, PermitCallsKnown
<1>7. CASE Permits!Notify(t)
  BY <1>7 DEF Permits!Notify, Permits!EnterNotify, Permits!EnterNotifyAll, Permits!Publish
<1>8. CASE /\ Permits!CallStep(t) \/ Permits!Relock(t) \/ Permits!WakeSpuriously(t)
           /\ UNCHANGED Permits!semaphoreVars
  <2>1. CASE \/ Permits!Register(t) \/ Permits!ReleaseMutex(t) \/ Permits!Sleep(t)
             \/ Permits!Deregister(t) \/ Permits!WakeSpuriously(t)
    BY <1>8, <2>1 DEF Permits!Register, Permits!ReleaseMutex, Permits!Sleep, Permits!Deregister,
       Permits!WakeSpuriously, Permits!semaphoreVars
  <2>2. CASE Permits!Relock(t) \/ Permits!CheckWaiters(t)
    BY <1>8, <2>2 DEF Permits!Relock, Permits!CheckWaiters, Permits!Return, PermitCallsKnown,
       Permits!semaphoreVars
  <2>3. CASE Permits!Wake(t) \/ Permits!WakeAll(t)
    BY <1>8, <2>3 DEF Permits!Wake, Permits!WakeAll, Permits!Release, PermitCallsKnown,
       Permits!semaphoreVars
  <2> QED
    BY <1>8, <2>1, <2>2, <2>3 DEF Permits!CallStep
<1> QED
  BY <1>1, <1>2, <1>3, <1>4, <1>5, <1>6, <1>7, <1>8 DEF PermitStepOf

LEMMA PermitCallsKept ==
  ASSUME PermitIInv, NEW t \in Threads, PermitStepOf(t)
  PROVE  PermitCallsKnown'
<1> USE DEF PermitIInv, Permits!TypeOK, PermitCallsKnown, Permits!Goto, Waits, Announcements,
   Releases, Permits!Places, Permits!CallPlaces
<1>1. CASE Permits!CallAcquire(t) \/ Permits!CallTryAcquire(t)
  BY <1>1 DEF Permits!CallAcquire, Permits!CallTryAcquire, Permits!Call, Permits!semaphoreVars
<1>2. CASE Permits!CallRelease(t)
  BY <1>2, PermitTypes DEF Permits!CallRelease, Permits!Call
<1>3. CASE Permits!LockForAcquire(t) \/ Permits!LockForTry(t) \/ Permits!LockForRelease(t)
  BY <1>3 DEF Permits!LockForAcquire, Permits!LockForTry, Permits!LockForRelease, Permits!Lock,
     Permits!semaphoreVars
<1>4. CASE Permits!WaitForPermit(t)
  BY <1>4 DEF Permits!WaitForPermit, Permits!EnterWait, Permits!semaphoreVars
<1>5. CASE Permits!GiveUp(t) \/ Permits!TakePermit(t)
  BY <1>5 DEF Permits!GiveUp, Permits!TakePermit, Permits!semaphoreVars
<1>6. CASE Permits!UnlockAndReturn(t) \/ Permits!UnlockThenNotify(t)
  BY <1>6 DEF Permits!UnlockAndReturn, Permits!UnlockThenNotify, Permits!Unlock,
     Permits!semaphoreVars
<1>7. CASE Permits!AddPermits(t)
  BY <1>7 DEF Permits!AddPermits
<1>8. CASE Permits!Notify(t)
  <2>1. /\ adding' = [adding EXCEPT ![t] = 0] /\ panicked' = panicked /\ waiters' = waiters
        /\ sequence' = [sequence EXCEPT !["permit"] = @ + 1]
        /\ call' = [call EXCEPT ![t] = [on |-> "permit", resume |-> "out", observed |-> 0]]
        /\ at' = [at EXCEPT ![t] = "check"] \/ at' = [at EXCEPT ![t] = "checkAll"]
    BY <1>8 DEF Permits!Notify, Permits!EnterNotify, Permits!EnterNotifyAll, Permits!Publish
  <2>2. call' \in [Threads -> [on : {"permit", None}, resume : Permits!Places, observed : Nat]]
    BY <2>1
  <2> QED
    BY <2>1, <2>2
<1>9. CASE /\ Permits!CallStep(t) \/ Permits!Relock(t) \/ Permits!WakeSpuriously(t)
           /\ UNCHANGED Permits!semaphoreVars
  <2>1. CASE Permits!Register(t)
    BY <1>9, <2>1 DEF Permits!Register, Permits!semaphoreVars
  <2>2. CASE Permits!ReleaseMutex(t) \/ Permits!Sleep(t) \/ Permits!WakeSpuriously(t)
    BY <1>9, <2>2 DEF Permits!ReleaseMutex, Permits!Sleep, Permits!WakeSpuriously,
       Permits!semaphoreVars
  <2>3. CASE Permits!Deregister(t)
    <3>1. waiters["permit"] - 1 \in Nat
      <4>1. HowMany(at, Counted) > 0
        BY <2>3, SomeStand DEF Permits!Deregister, Counted
      <4>2. Permits!Registered("permit") = {u \in Threads : at[u] \in Counted}
        BY PermitSetsAre
      <4>3. waiters["permit"] = HowMany(at, Counted)
        BY <4>2, SameCardinality DEF Permits!WaitersCounted, HowMany
      <4> QED
        BY <4>1, <4>3
    <3> QED
      BY <1>9, <2>3, <3>1 DEF Permits!Deregister, Permits!semaphoreVars
  <2>4. CASE Permits!Relock(t) \/ Permits!CheckWaiters(t)
    BY <1>9, <2>4 DEF Permits!Relock, Permits!CheckWaiters, Permits!Return, Permits!NoCall,
       Permits!semaphoreVars
  <2>5. CASE Permits!Wake(t) \/ Permits!WakeAll(t)
    <3>1. PICK woken \in SUBSET Permits!Asleep("permit") : Permits!Release(t, woken)
      BY <2>5 DEF Permits!Wake, Permits!WakeAll, Permits!WakeOne
    <3>2. /\ call[t].resume = "out" /\ at'[t] = "out"
          /\ \A u \in Threads \ {t} :
                /\ call'[u] = call[u]
                /\ at'[u] = at[u] \/ (at[u] = "asleep" /\ at'[u] = "deregister")
      BY <2>5, <3>1 DEF Permits!Release, Permits!Asleep, Permits!Wake, Permits!WakeAll
    <3>3. call' \in [Threads -> [on : {"permit", None}, resume : Permits!Places, observed : Nat]]
      BY <3>1 DEF Permits!Release, Permits!NoCall
    <3> QED
      BY <1>9, <3>1, <3>2, <3>3 DEF Permits!Release, Permits!semaphoreVars
  <2> QED
    BY <1>9, <2>1, <2>2, <2>3, <2>4, <2>5 DEF Permits!CallStep
<1> QED
  BY <1>1, <1>2, <1>3, <1>4, <1>5, <1>6, <1>7, <1>8, <1>9 DEF PermitStepOf

-----------------------------------------------------------------------------
(* The waiters counted. *)

LEMMA PermitWaitersKept ==
  ASSUME PermitIInv, NEW t \in Threads, PermitStepOf(t)
  PROVE  Permits!WaitersCounted'
<1> USE DEF PermitIInv, Permits!TypeOK, Permits!Goto
<1>1. /\ PermitCallsKnown'
      /\ waiters["permit"] = HowMany(at, Counted)
  BY PermitCallsKept, PermitSetsAre, SameCardinality DEF Permits!WaitersCounted, HowMany
<1>2. Permits!Registered("permit")' = {u \in Threads : at'[u] \in Counted}
  <2> USE <1>1 DEF PermitCallsKnown
  <2> QED
    BY DEF Permits!Registered, Counted, Waits
<1>3. SUFFICES waiters'["permit"] = HowMany(at', Counted)
  BY <1>2, SameCardinality DEF Permits!WaitersCounted, HowMany
<1>4. CASE Permits!Register(t)
  <2>1. /\ \A u \in Threads \ {t} : at'[u] = at[u]
        /\ at[t] \notin Counted /\ at'[t] \in Counted
    BY <1>4 DEF Permits!Register, Counted
  <2>2. HowMany(at', Counted) = HowMany(at, Counted) + 1
    BY <2>1, OneMoves
  <2>3. waiters'["permit"] = waiters["permit"] + 1
    BY <1>4 DEF Permits!Register, PermitCallsKnown, Waits
  <2> QED
    BY <1>1, <2>2, <2>3
<1>5. CASE Permits!Deregister(t)
  <2>1. /\ \A u \in Threads \ {t} : at'[u] = at[u]
        /\ at[t] \in Counted /\ at'[t] \notin Counted
    BY <1>5 DEF Permits!Deregister, Counted
  <2>2. HowMany(at', Counted) = HowMany(at, Counted) - 1
    BY <2>1, OneMoves
  <2>3. waiters'["permit"] = waiters["permit"] - 1
    BY <1>5 DEF Permits!Deregister, PermitCallsKnown, Waits
  <2> QED
    BY <1>1, <2>2, <2>3
<1>6. CASE Permits!Wake(t) \/ Permits!WakeAll(t)
  <2>1. PICK woken \in SUBSET Permits!Asleep("permit") : Permits!Release(t, woken)
    BY <1>6 DEF Permits!Wake, Permits!WakeAll, Permits!WakeOne, PermitCallsKnown, Announcements
  <2>2. call[t].resume = "out"
    BY <1>6 DEF Permits!Wake, Permits!WakeAll, PermitCallsKnown, Announcements
  <2>3. \A u \in Threads : at'[u] \in Counted <=> at[u] \in Counted
    BY <1>6, <2>1, <2>2 DEF Permits!Release, Permits!Asleep, Counted, Permits!Wake,
       Permits!WakeAll
  <2>4. {u \in Threads : at'[u] \in Counted} = {u \in Threads : at[u] \in Counted}
    BY <2>3
  <2> QED
    BY <1>1, <2>1, <2>4 DEF Permits!Release, HowMany
<1>7. CASE ~(Permits!Register(t) \/ Permits!Deregister(t) \/ Permits!Wake(t) \/ Permits!WakeAll(t))
  <2>1. /\ waiters' = waiters
        /\ \A u \in Threads : at'[u] \in Counted <=> at[u] \in Counted
    BY <1>7 DEF PermitStepOf, Permits!CallAcquire, Permits!CallTryAcquire, Permits!CallRelease,
       Permits!Call, Permits!LockForAcquire, Permits!LockForTry, Permits!LockForRelease,
       Permits!Lock, Permits!WaitForPermit, Permits!EnterWait, Permits!TakePermit,
       Permits!GiveUp, Permits!UnlockAndReturn, Permits!UnlockThenNotify, Permits!Unlock,
       Permits!AddPermits, Permits!Notify, Permits!EnterNotify, Permits!EnterNotifyAll,
       Permits!Publish, Permits!CallStep, Permits!Relock, Permits!WakeSpuriously,
       Permits!ReleaseMutex, Permits!Sleep, Permits!CheckWaiters, Permits!Return,
       PermitCallsKnown, Waits, Announcements, Counted
  <2>2. {u \in Threads : at'[u] \in Counted} = {u \in Threads : at[u] \in Counted}
    BY <2>1
  <2> QED
    BY <1>1, <2>1, <2>2 DEF HowMany
<1> QED
  BY <1>4, <1>5, <1>6, <1>7 DEF PermitStepOf, Permits!CallStep

-----------------------------------------------------------------------------
(* The permits. *)

\* Nobody becomes a waiter that would sleep but by finding no permit, and a
\* notification leaves none.
LEMMA FreshBefore ==
  ASSUME PermitIInv, NEW t \in Threads, PermitStepOf(t), NEW u \in Threads, FreshForPermit(u)'
  PROVE  Permits!WaitForPermit(t) \/ (FreshForPermit(u) /\ ~Permits!Notify(t))
<1> USE DEF PermitIInv, Permits!TypeOK, PermitCallsKnown, Permits!Goto, FreshForPermit
<1>1. CASE Permits!Notify(t)
  <2>1. sequence'["permit"] = sequence["permit"] + 1
    BY <1>1 DEF Permits!Notify, Permits!EnterNotify, Permits!EnterNotifyAll, Permits!Publish
  <2>2. u # t /\ at[u] \in {"register", "unlock", "sleep"} /\ call'[u] = call[u]
    BY <1>1 DEF Permits!Notify, Permits!EnterNotify, Permits!EnterNotifyAll, Permits!Publish
  <2> QED
    BY <2>1, <2>2 DEF Waits
<1>2. CASE Permits!Wake(t) \/ Permits!WakeAll(t)
  <2>1. PICK woken \in SUBSET Permits!Asleep("permit") : Permits!Release(t, woken)
    BY <1>2 DEF Permits!Wake, Permits!WakeAll, Permits!WakeOne, Announcements
  <2>2. call[t].resume = "out"
    BY <1>2 DEF Permits!Wake, Permits!WakeAll, Announcements
  <2>3. u # t /\ at'[u] = at[u] /\ call'[u] = call[u]
    BY <2>1, <2>2 DEF Permits!Release
  <2>4. ~Permits!Notify(t)
    BY <1>2 DEF Permits!Wake, Permits!WakeAll, Permits!Notify
  <2> QED
    BY <2>1, <2>3, <2>4 DEF Permits!Release
<1>3. CASE ~Permits!Notify(t) /\ ~Permits!WaitForPermit(t) /\ ~Permits!Wake(t) /\ ~Permits!WakeAll(t)
  BY <1>3 DEF PermitStepOf, Permits!CallAcquire, Permits!CallTryAcquire, Permits!CallRelease,
     Permits!Call, Permits!LockForAcquire, Permits!LockForTry, Permits!LockForRelease,
     Permits!Lock, Permits!TakePermit, Permits!GiveUp, Permits!UnlockAndReturn,
     Permits!UnlockThenNotify, Permits!Unlock, Permits!AddPermits, Permits!CallStep,
     Permits!Relock, Permits!WakeSpuriously, Permits!Register, Permits!ReleaseMutex,
     Permits!Sleep, Permits!Deregister, Permits!CheckWaiters, Permits!Return, Waits,
     Announcements
<1> QED
  BY <1>1, <1>2, <1>3

LEMMA FreshPermitsKept ==
  ASSUME PermitIInv, NEW t \in Threads, PermitStepOf(t)
  PROVE  FreshAreTold'
<1> USE DEF PermitIInv, Permits!TypeOK, PermitCallsKnown, Permits!Goto
<1> SUFFICES ASSUME ~panicked', NEW w \in Threads, FreshForPermit(w)',
                    \A u \in Threads : at'[u] \in Releases => adding'[u] = 1
             PROVE  permits' <= HowMany(at', Releases)
  BY DEF FreshAreTold
<1>1. /\ HowMany(at, Releases) \in Nat /\ HowMany(at', Releases) \in Nat
      /\ permits \in Nat /\ permits' \in Nat
  <2>1. HowMany(at, Releases) \in Nat /\ HowMany(at', Releases) \in Nat
    BY SomeStand
  <2>2. Permits!TypeOK'
    BY PermitTypesKept
  <2> QED
    BY <2>1, <2>2, PermitTypes
<1>2. CASE Permits!WaitForPermit(t)
  BY <1>1, <1>2 DEF Permits!WaitForPermit, Permits!semaphoreVars
<1>3. CASE Permits!TakePermit(t)
  <2>1. FreshForPermit(w) /\ (\A u \in Threads : at[u] \in Releases => at'[u] \in Releases)
    BY <1>3, FreshBefore DEF Permits!TakePermit, Permits!WaitForPermit, Releases
  <2>2. HowMany(at, Releases) <= HowMany(at', Releases)
    BY <2>1, MoreStand
  <2>3. permits <= HowMany(at, Releases)
    BY <1>3, <2>1 DEF Permits!TakePermit, FreshAreTold
  <2> QED
    BY <1>1, <1>3, <2>2, <2>3 DEF Permits!TakePermit
<1>4. CASE Permits!AddPermits(t)
  <2>1. /\ FreshForPermit(w)
        /\ \A u \in Threads \ {t} : at'[u] = at[u]
        /\ at[t] \notin Releases /\ at'[t] \in Releases
    BY <1>4, FreshBefore DEF Permits!AddPermits, Permits!WaitForPermit, Releases
  <2>2. HowMany(at', Releases) = HowMany(at, Releases) + 1
    BY <2>1, OneMoves
  <2>3. adding' = adding /\ adding[t] = 1 /\ ~panicked
    BY <1>4, <2>1 DEF Permits!AddPermits
  <2>4. permits <= HowMany(at, Releases)
    BY <2>1, <2>3 DEF FreshAreTold
  <2> QED
    BY <1>1, <1>4, <2>2, <2>3, <2>4 DEF Permits!AddPermits
<1>5. CASE ~Permits!WaitForPermit(t) /\ ~Permits!TakePermit(t) /\ ~Permits!AddPermits(t)
  <2>1. FreshForPermit(w) /\ ~Permits!Notify(t)
    BY <1>5, FreshBefore
  <2>2. /\ permits' = permits /\ panicked' = panicked
        /\ \A u \in Threads : at[u] \in Releases => at'[u] \in Releases /\ adding'[u] = adding[u]
    <3>1. CASE Permits!Wake(t) \/ Permits!WakeAll(t)
      <4>1. PICK woken \in SUBSET Permits!Asleep("permit") : Permits!Release(t, woken)
        BY <3>1 DEF Permits!Wake, Permits!WakeAll, Permits!WakeOne, Announcements
      <4>2. UNCHANGED Permits!semaphoreVars
        BY <3>1 DEF PermitStepOf, Permits!Wake, Permits!WakeAll, Permits!CallAcquire,
           Permits!CallTryAcquire, Permits!CallRelease, Permits!Call, Permits!LockForAcquire,
           Permits!LockForTry, Permits!LockForRelease, Permits!Lock, Permits!GiveUp,
           Permits!UnlockAndReturn, Permits!UnlockThenNotify, Permits!Unlock,
           Permits!AddPermits, Permits!Notify, Permits!WaitForPermit, Permits!TakePermit
      <4> QED
        BY <3>1, <4>1, <4>2 DEF Permits!Release, Permits!Asleep, Permits!Wake, Permits!WakeAll,
           Releases, Permits!semaphoreVars
    <3>2. CASE ~Permits!Wake(t) /\ ~Permits!WakeAll(t)
      BY <1>5, <2>1, <3>2 DEF PermitStepOf, Permits!CallAcquire, Permits!CallTryAcquire,
         Permits!CallRelease, Permits!Call, Permits!LockForAcquire, Permits!LockForTry,
         Permits!LockForRelease, Permits!Lock, Permits!GiveUp, Permits!UnlockAndReturn,
         Permits!UnlockThenNotify, Permits!Unlock, Permits!CallStep, Permits!Relock,
         Permits!WakeSpuriously, Permits!Register, Permits!ReleaseMutex, Permits!Sleep,
         Permits!Deregister, Permits!CheckWaiters, Permits!Return, Releases,
         Permits!semaphoreVars
    <3> QED
      BY <3>1, <3>2
  <2>3. HowMany(at, Releases) <= HowMany(at', Releases)
    BY <2>2, MoreStand
  <2>4. permits <= HowMany(at, Releases)
    BY <2>1, <2>2 DEF FreshAreTold
  <2> QED
    BY <1>1, <2>2, <2>3, <2>4
<1> QED
  BY <1>2, <1>3, <1>4, <1>5

LEMMA PermitsSpokenForKept ==
  ASSUME PermitIInv, NEW t \in Threads, PermitStepOf(t)
  PROVE  Permits!PermitsSpokenFor'
<1> USE DEF PermitIInv, Permits!TypeOK, PermitCallsKnown, Permits!Goto
<1> SUFFICES ASSUME ~panicked', NEW s \in Threads, at'[s] = "asleep", ~Permits!AllAreCalled'
             PROVE  permits' <= HowMany(at', Ways)
  BY SameCardinality DEF Permits!PermitsSpokenFor, Permits!Asleep, Permits!OnTheirWay, HowMany,
     Ways
<1>0. ASSUME ~panicked, NEW u \in Threads, at[u] = "asleep", ~Permits!AllAreCalled
      PROVE  permits <= HowMany(at, Ways)
  BY <1>0, PermitSetsAre, SameCardinality DEF Permits!PermitsSpokenFor, Permits!OnTheirWay,
     HowMany, Ways
<1>1. /\ HowMany(at, Ways) \in Nat /\ HowMany(at', Ways) \in Nat
      /\ permits \in Nat /\ permits' \in Nat
  <2>1. HowMany(at, Ways) \in Nat /\ HowMany(at', Ways) \in Nat
    BY SomeStand
  <2>2. Permits!TypeOK'
    BY PermitTypesKept
  <2> QED
    BY <2>1, <2>2, PermitTypes
<1>2. CASE Permits!Sleep(t) /\ UNCHANGED Permits!semaphoreVars
  <2>1. CASE at'[t] = "asleep"
    <3>1. FreshForPermit(t)
      BY <1>2, <2>1 DEF Permits!Sleep, FreshForPermit, Permits!FutexSleeps, Waits
    <3>2. \A u \in Threads : at[u] \in Releases => adding[u] = 1 /\ at'[u] = at[u]
      BY <1>2 DEF Permits!Sleep, Permits!AllAreCalled, Releases, Permits!semaphoreVars
    <3>3. permits <= HowMany(at, Releases)
      BY <1>2, <3>1, <3>2 DEF FreshAreTold, Permits!semaphoreVars
    <3>4. HowMany(at, Releases) <= HowMany(at', Ways)
      BY <3>2, MoreStand DEF Ways, Releases
    <3>5. HowMany(at, Releases) \in Nat
      BY SomeStand
    <3> QED
      BY <1>1, <1>2, <3>3, <3>4, <3>5 DEF Permits!semaphoreVars
  <2>2. CASE at'[t] # "asleep"
    <3>1. \A u \in Threads : at[u] \in Ways => at'[u] \in Ways
      BY <1>2 DEF Permits!Sleep, Ways
    <3>2. HowMany(at, Ways) <= HowMany(at', Ways)
      BY <3>1, MoreStand
    <3>3. at[s] = "asleep" /\ ~Permits!AllAreCalled
      BY <1>2, <2>2 DEF Permits!Sleep, Permits!AllAreCalled, Permits!semaphoreVars
    <3> QED
      BY <1>0, <1>1, <1>2, <3>2, <3>3 DEF Permits!semaphoreVars
  <2> QED
    BY <2>1, <2>2
<1>3. CASE Permits!TakePermit(t)
  <2>1. /\ \A u \in Threads \ {t} : at'[u] = at[u]
        /\ at[t] \in Ways /\ at'[t] \notin Ways
        /\ at[s] = "asleep" /\ ~Permits!AllAreCalled /\ ~panicked
    BY <1>3 DEF Permits!TakePermit, Ways, Permits!AllAreCalled
  <2>2. HowMany(at', Ways) = HowMany(at, Ways) - 1
    BY <2>1, OneMoves
  <2> QED
    BY <1>0, <1>1, <1>3, <2>1, <2>2 DEF Permits!TakePermit
<1>4. CASE Permits!GiveUp(t) \/ Permits!WaitForPermit(t)
  BY <1>1, <1>4 DEF Permits!GiveUp, Permits!WaitForPermit, Permits!semaphoreVars
<1>5. CASE Permits!AddPermits(t)
  <2>1. adding[t] = 1 /\ ~panicked
    BY <1>5 DEF Permits!AddPermits, Permits!AllAreCalled, Releases
  <2>2. /\ \A u \in Threads \ {t} : at'[u] = at[u]
        /\ at[t] \notin Ways /\ at'[t] \in Ways
        /\ at[s] = "asleep" /\ ~Permits!AllAreCalled
    BY <1>5 DEF Permits!AddPermits, Ways, Permits!AllAreCalled
  <2>3. HowMany(at', Ways) = HowMany(at, Ways) + 1
    BY <2>2, OneMoves
  <2> QED
    BY <1>0, <1>1, <1>5, <2>1, <2>2, <2>3 DEF Permits!AddPermits
<1>6. CASE Permits!Notify(t)
  <2>1. adding[t] = 1
    BY <1>6 DEF Permits!Notify, Permits!EnterNotify, Permits!EnterNotifyAll, Permits!Publish,
       Permits!AllAreCalled
  <2>2. /\ \A u \in Threads \ {t} : at'[u] = at[u] /\ adding'[u] = adding[u]
        /\ at[t] \in Ways /\ at'[t] \in Ways
        /\ at[s] = "asleep" /\ permits' = permits /\ ~panicked
    BY <1>6, <2>1 DEF Permits!Notify, Permits!EnterNotify, Permits!EnterNotifyAll,
       Permits!Publish, Ways
  <2>3. ~Permits!AllAreCalled
    BY <1>6, <2>1, <2>2 DEF Permits!Notify, Permits!AllAreCalled
  <2>4. HowMany(at', Ways) = HowMany(at, Ways)
    <3>1. /\ \A u \in Threads \ {t} : at'[u] = at[u]
          /\ at[t] \in Ways <=> at'[t] \in Ways
      BY <2>2
    <3> QED
      BY <3>1, OneMoves
  <2> QED
    BY <1>0, <1>1, <2>2, <2>3, <2>4
<1>7. CASE Permits!CheckWaiters(t) /\ UNCHANGED Permits!semaphoreVars
  <2>1. at[s] = "asleep"
    BY <1>7 DEF Permits!CheckWaiters, Permits!Return, Announcements
  <2>2. waiters["permit"] > 0
    <3>1. HowMany(at, Counted) > 0
      BY <2>1, SomeStand DEF Counted
    <3>2. Permits!Registered("permit") = {u \in Threads : at[u] \in Counted}
      BY PermitSetsAre DEF PermitIInv
    <3>3. waiters["permit"] = Cardinality(Permits!Registered("permit"))
      BY PermitTypes, SameCardinality DEF PermitIInv, Permits!WaitersCounted
    <3> QED
      BY <3>1, <3>2, <3>3 DEF HowMany
  <2>3. /\ \A u \in Threads : at[u] \in Ways => at'[u] \in Ways
        /\ ~Permits!AllAreCalled
    BY <1>7, <2>2 DEF Permits!CheckWaiters, Ways, Permits!AllAreCalled, Announcements,
       Permits!semaphoreVars
  <2>4. HowMany(at, Ways) <= HowMany(at', Ways)
    BY <2>3, MoreStand
  <2> QED
    BY <1>0, <1>1, <1>7, <2>1, <2>3, <2>4 DEF Permits!semaphoreVars
<1>8. CASE (Permits!Wake(t) \/ Permits!WakeAll(t)) /\ UNCHANGED Permits!semaphoreVars
  <2>1. PICK woken \in SUBSET Permits!Asleep("permit") :
           /\ Permits!Release(t, woken)
           /\ woken = {} \/ Permits!WakeAll(t) => Permits!Asleep("permit") = woken
           /\ Permits!Wake(t) /\ woken # {} => \E u \in Permits!Asleep("permit") : woken = {u}
    BY <1>8 DEF Permits!Wake, Permits!WakeAll, Permits!WakeOne, Announcements
  <2>2. call[t].resume = "out" /\ at[t] \in {"wake", "wakeAll"}
    BY <1>8 DEF Permits!Wake, Permits!WakeAll, Announcements
  <2>3. at[s] = "asleep" /\ s \notin woken
    BY <2>1, <2>2 DEF Permits!Release
  <2>4. s \in Permits!Asleep("permit")
    BY <2>3, PermitSetsAre
  <2>5. PICK v \in Threads : woken = {v} /\ at[v] = "asleep" /\ Permits!Wake(t)
    BY <1>8, <2>1, <2>3, <2>4, PermitSetsAre
  <2>6. at[t] = "wake"
    BY <2>5 DEF Permits!Wake
  <2> DEFINE g == [u \in Threads |-> IF u = t THEN "out" ELSE at[u]]
  <2>7. HowMany(g, Ways) = HowMany(at, Ways) - 1
    <3>1. (\A u \in Threads \ {t} : g[u] = at[u]) /\ at[t] \in Ways /\ g[t] \notin Ways
      BY <2>6 DEF Ways
    <3> HIDE DEF g
    <3> QED
      BY <3>1, OneMoves
  <2>8. HowMany(at', Ways) = HowMany(g, Ways) + 1
    <3>1. /\ \A u \in Threads \ {v} : at'[u] = g[u]
          /\ g[v] \notin Ways /\ at'[v] \in Ways
      BY <2>1, <2>2, <2>5, <2>6 DEF Permits!Release, Ways
    <3> HIDE DEF g
    <3> QED
      BY <3>1, OneMoves
  <2>9. ~Permits!AllAreCalled
    BY <1>8, <2>1, <2>2, <2>5, <2>6 DEF Permits!Release, Permits!AllAreCalled,
       Permits!semaphoreVars
  <2> QED
    BY <1>0, <1>1, <1>8, <2>3, <2>7, <2>8, <2>9 DEF Permits!semaphoreVars
<1>9. CASE ~(\/ Permits!Sleep(t) \/ Permits!TakePermit(t) \/ Permits!GiveUp(t)
             \/ Permits!WaitForPermit(t) \/ Permits!AddPermits(t) \/ Permits!Notify(t)
             \/ Permits!CheckWaiters(t) \/ Permits!Wake(t) \/ Permits!WakeAll(t))
  <2>1. /\ \A u \in Threads : at[u] \in Ways => at'[u] \in Ways
        /\ permits' = permits /\ ~panicked /\ at[s] = "asleep" /\ ~Permits!AllAreCalled
    BY <1>9 DEF PermitStepOf, Permits!CallAcquire, Permits!CallTryAcquire, Permits!CallRelease,
       Permits!Call, Permits!LockForAcquire, Permits!LockForTry, Permits!LockForRelease,
       Permits!Lock, Permits!UnlockAndReturn, Permits!UnlockThenNotify, Permits!Unlock,
       Permits!CallStep, Permits!Relock, Permits!WakeSpuriously, Permits!Register,
       Permits!ReleaseMutex, Permits!Deregister, Permits!Return, Ways, Permits!AllAreCalled,
       Waits, Permits!semaphoreVars
  <2>2. HowMany(at, Ways) <= HowMany(at', Ways)
    BY <2>1, MoreStand
  <2> QED
    BY <1>0, <1>1, <2>1, <2>2
<1>10. \/ UNCHANGED Permits!semaphoreVars
       \/ ~(\/ Permits!Sleep(t) \/ Permits!CheckWaiters(t)
            \/ Permits!Wake(t) \/ Permits!WakeAll(t))
  BY DEF PermitStepOf, Permits!CallAcquire, Permits!CallTryAcquire, Permits!CallRelease,
     Permits!Call, Permits!LockForAcquire, Permits!LockForTry, Permits!LockForRelease,
     Permits!Lock, Permits!WaitForPermit, Permits!TakePermit, Permits!GiveUp,
     Permits!UnlockAndReturn, Permits!UnlockThenNotify, Permits!Unlock, Permits!AddPermits,
     Permits!Notify, Permits!Sleep, Permits!CheckWaiters, Permits!Wake, Permits!WakeAll
<1> QED
  BY <1>2, <1>3, <1>4, <1>5, <1>6, <1>7, <1>8, <1>9, <1>10

-----------------------------------------------------------------------------
LEMMA PermitStarts == Permits!Init => PermitIInv
<1> SUFFICES ASSUME Permits!Init PROVE PermitIInv
  OBVIOUS
<1>1. Permits!TypeOK /\ PermitCallsKnown
  BY PermitTypes DEF Permits!Init, Permits!CVInit, Permits!TypeOK, PermitCallsKnown,
     Permits!Places, Permits!CallPlaces, Permits!NoCall, Waits, Announcements, Releases
<1>2. Permits!Registered("permit") = {}
  BY DEF Permits!Init, Permits!CVInit, Permits!Registered
<1>3. Permits!WaitersCounted
  BY <1>2, FS_EmptySet, PermitTypes, SameCardinality DEF Permits!Init, Permits!CVInit,
     Permits!WaitersCounted
<1>4. FreshAreTold /\ Permits!PermitsSpokenFor
  BY SameCardinality DEF Permits!Init, Permits!CVInit, FreshAreTold, FreshForPermit,
     Permits!PermitsSpokenFor, Permits!Asleep
<1> QED
  BY <1>1, <1>3, <1>4 DEF PermitIInv

LEMMA PermitStutters == PermitIInv /\ UNCHANGED Permits!vars => PermitIInv'
BY SameCardinality DEF Permits!vars, Permits!cvVars, Permits!semaphoreVars, PermitIInv,
   Permits!TypeOK, PermitCallsKnown, Permits!WaitersCounted, Permits!Registered, FreshAreTold,
   FreshForPermit, HowMany, Permits!PermitsSpokenFor, Permits!Asleep, Permits!OnTheirWay,
   Permits!AllAreCalled

LEMMA PermitsKept == PermitIInv /\ [Permits!Next]_Permits!vars => PermitIInv'
BY PermitStepsAre, PermitTypesKept, PermitCallsKept, PermitWaitersKept, FreshPermitsKept,
   PermitsSpokenForKept, PermitStutters, SameCardinality DEF PermitIInv

\* The condition's waiters are counted, and while a thread sleeps each permit is spoken
\* for by an awake thread that comes to take it or by a notification under way, although
\* release adds permits and announces them in separate steps and in any order.
THEOREM PermitsAreSpokenFor == Permits!Spec => []Permits!SemaphoreInv
<1>1. Permits!Init => PermitIInv
  BY PermitStarts
<1>2. PermitIInv /\ [Permits!Next]_Permits!vars => PermitIInv'
  BY PermitsKept
<1>3. PermitIInv => Permits!SemaphoreInv
  BY DEF PermitIInv, Permits!SemaphoreInv
<1> QED
  BY <1>1, <1>2, <1>3, PTL DEF Permits!Spec

-----------------------------------------------------------------------------
(* The queue or the semaphore. *)

EitherIInv ==
    \/ part = "queue" /\ QueueIInv
    \/ part = "permits" /\ PermitIInv

LEMMA EitherStarts == MCInit => EitherIInv /\ Promise!Init
<1> SUFFICES ASSUME MCInit PROVE EitherIInv /\ Promise!Init
  OBVIOUS
<1>1. CASE part = "queue" /\ Init
  BY <1>1, Starts, StartsEmpty DEF EitherIInv
<1>2. CASE part = "permits" /\ Permits!Init /\ count = 0
  <2>2. PermitIInv
    BY <1>2, PermitStarts
  <2>3. Contents = <<>>
    <3> DEFINE at1(i) == entries[(head + i - 1) % Capacity]
    <3>1. Contents = [i \in 1..0 |-> at1(i)]
      BY <1>2 DEF Contents
    <3> HIDE DEF at1
    <3> QED
      BY <3>1
  <2> QED
    BY <1>2, <2>2, <2>3 DEF EitherIInv, Promise!Init
<1> QED
  BY <1>1, <1>2 DEF MCInit

LEMMA EitherSteps ==
  EitherIInv /\ [MCNext]_allVars => EitherIInv' /\ [Promise!Next]_Contents
<1> SUFFICES ASSUME EitherIInv, [MCNext]_allVars PROVE EitherIInv' /\ [Promise!Next]_Contents
  OBVIOUS
<1>1. CASE part = "queue" /\ QueueIInv
  <2>1. part' = part /\ [Next]_vars
    BY <1>1 DEF MCNext, Either, allVars
  <2> QED
    BY <1>1, <2>1, QueueKept DEF EitherIInv
<1>2. CASE part = "permits" /\ PermitIInv
  <2>1. part' = part /\ UNCHANGED queueVars /\ (Permits!Next \/ UNCHANGED <<vars, semaphoreVars>>)
    BY <1>2 DEF MCNext, Either, allVars, vars, semaphoreVars
  <2>2. [Permits!Next]_Permits!vars
    BY <2>1 DEF vars, queueVars, semaphoreVars, cvVars, Permits!vars, Permits!cvVars,
       Permits!semaphoreVars
  <2>3. Contents' = Contents
    BY <2>1 DEF queueVars, Contents
  <2>4. PermitIInv'
    BY <1>2, <2>2, PermitsKept
  <2> QED
    BY <1>2, <2>1, <2>3, <2>4 DEF EitherIInv
<1> QED
  BY <1>1, <1>2 DEF EitherIInv

LEMMA EitherTold == EitherIInv => SleepersSpokenFor
<1>1. PermitIInv => Permits!SemaphoreInv
  BY DEF PermitIInv, Permits!SemaphoreInv
<1> QED
  BY <1>1 DEF EitherIInv, SleepersSpokenFor, QueueIInv, QueueInv

\* Whichever of the two programs runs, its sleepers are counted, and what they sleep for
\* is spoken for by threads awake or by notifications on their way.
THEOREM SleepersAreSpokenFor == MCSpec => []SleepersSpokenFor
BY EitherStarts, EitherSteps, EitherTold, PTL DEF MCSpec

\* The pointer queue is a bounded FIFO in the program that is model-checked, too.
THEOREM QueueStaysFIFO == MCSpec => IsBoundedFIFO
BY EitherStarts, EitherSteps, PTL DEF MCSpec, IsBoundedFIFO, Promise!Spec
=============================================================================
