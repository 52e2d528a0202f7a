---------------------------- MODULE PointerQueue ----------------------------
(***************************************************************************)
(* std/sources/synchronized_pointer_queue.qxs: a ring of `Capacity'        *)
(* pointers under one unfair mutex, with a condition for readers and one   *)
(* for writers, each notified before the mutex is released.                *)
(***************************************************************************)
EXTENDS ConditionVariable, Sequences

CONSTANTS Values,   \* the pointers pushed, Null among them as the code allows
          Null,     \* what a vacated entry holds
          Capacity,
          MaxPushes \* bound: calls of push

ASSUME QueueBounds ==
    /\ IsFiniteSet(Threads)
    /\ Capacity \in Nat \ {0}
    /\ MaxPushes \in Nat
    /\ Conditions = {"readable", "writable"}

VARIABLES entries, head, count,
          pushing,  \* the argument of each thread's push
          popped,   \* the local `value' of each thread's pop
          pushes    \* calls of push so far

queueVars == <<entries, head, count, pushing, popped, pushes>>

vars == <<cvVars, queueVars>>

Places == CallPlaces \cup {"out", "pushLock", "pushTest", "popLock", "popTest",
                           "unlocking"}

TypeOK ==
    /\ owner \in Threads \cup {None}
    /\ at \in [Threads -> Places]
    /\ entries \in [0..Capacity - 1 -> Values \cup {Null}]
    /\ head \in 0..Capacity - 1
    /\ count \in 0..Capacity

Init ==
    /\ CVInit
    /\ entries = [i \in 0..Capacity - 1 |-> Null]
    /\ head = 0
    /\ count = 0
    /\ pushing = [t \in Threads |-> Null]
    /\ popped = [t \in Threads |-> Null]
    /\ pushes = 0

-----------------------------------------------------------------------------
CallPush(t, v) ==
    /\ at[t] = "out"
    /\ pushes < MaxPushes
    /\ pushes' = pushes + 1
    /\ pushing' = [pushing EXCEPT ![t] = v]
    /\ Goto(t, "pushLock")
    /\ UNCHANGED <<owner, sequence, waiters, call, entries, head, count, popped>>

CallPop(t) ==
    /\ at[t] = "out"
    /\ Goto(t, "popLock")
    /\ UNCHANGED <<owner, sequence, waiters, call, queueVars>>

LockForPush(t) == Lock(t, "pushLock", "pushTest") /\ UNCHANGED queueVars

LockForPop(t) == Lock(t, "popLock", "popTest") /\ UNCHANGED queueVars

WaitForRoom(t) ==
    /\ at[t] = "pushTest"
    /\ count = Capacity
    /\ EnterWait(t, "writable", "pushTest")
    /\ UNCHANGED queueVars

InsertBeyond(t) == \* mutant: the position ignores the head of the ring
    /\ at[t] = "pushTest"
    /\ count # Capacity
    /\ entries' = [entries EXCEPT ![count % Capacity] = pushing[t]]
    /\ count' = count + 1
    /\ pushing' = [pushing EXCEPT ![t] = Null]
    /\ EnterNotify(t, "readable", "unlocking")
    /\ UNCHANGED <<head, popped, pushes>>

\* Store the pointer and begin notifying a reader, under the mutex.
Insert(t) ==
    /\ at[t] = "pushTest"
    /\ count # Capacity
    /\ entries' = [entries EXCEPT ![(head + count) % Capacity] = pushing[t]]
    /\ count' = count + 1
    /\ pushing' = [pushing EXCEPT ![t] = Null]
    /\ EnterNotify(t, "readable", "unlocking")
    /\ UNCHANGED <<head, popped, pushes>>

WaitForEntry(t) ==
    /\ at[t] = "popTest"
    /\ count = 0
    /\ EnterWait(t, "readable", "popTest")
    /\ UNCHANGED queueVars

ExtractWrongNotice(t) == \* mutant: the readers are notified of the free slot
    /\ at[t] = "popTest"
    /\ count # 0
    /\ popped' = [popped EXCEPT ![t] = entries[head]]
    /\ entries' = [entries EXCEPT ![head] = Null]
    /\ head' = (head + 1) % Capacity
    /\ count' = count - 1
    /\ EnterNotify(t, "readable", "unlocking")
    /\ UNCHANGED <<pushing, pushes>>

Extract(t) ==
    /\ at[t] = "popTest"
    /\ count # 0
    /\ popped' = [popped EXCEPT ![t] = entries[head]]
    /\ entries' = [entries EXCEPT ![head] = Null]
    /\ head' = (head + 1) % Capacity
    /\ count' = count - 1
    /\ EnterNotify(t, "writable", "unlocking")
    /\ UNCHANGED <<pushing, pushes>>

\* Unlock and return; pop hands over `value'.
UnlockAndReturn(t) ==
    /\ Unlock(t, "unlocking", "out")
    /\ popped' = [popped EXCEPT ![t] = Null]
    /\ UNCHANGED <<entries, head, count, pushing, pushes>>

-----------------------------------------------------------------------------
Step(t) ==
    \/ WaitForRoom(t) \/ Insert(t) \/ WaitForEntry(t) \/ Extract(t)
    \/ UnlockAndReturn(t)
    \/ CallStep(t) /\ UNCHANGED queueVars

TakeMutex(t) ==
    \/ LockForPush(t) \/ LockForPop(t)
    \/ Relock(t) /\ UNCHANGED queueVars

Next == \E t \in Threads :
    \/ CallPop(t) \/ \E v \in Values : CallPush(t, v)
    \/ Step(t) \/ TakeMutex(t)
    \/ WakeSpuriously(t) /\ UNCHANGED queueVars

Spec == Init /\ [][Next]_vars

\* Threads are scheduled, a free mutex is taken by somebody.
FairSpec ==
    /\ Spec
    /\ \A t \in Threads : WF_vars(Step(t))
    /\ WF_vars(\E t \in Threads : TakeMutex(t))

-----------------------------------------------------------------------------
\* The occupied part of the ring, oldest first.
Contents == [i \in 1..count |-> entries[(head + i - 1) % Capacity]]

Promise == INSTANCE BoundedQueue WITH contents <- Contents

\* The ring, its wrap-around and its two conditions implement a bounded FIFO:
\* pointers come out once each, in the order in which they went in.
IsBoundedFIFO == Promise!Spec

\* Only the occupied entries hold pointers; a vacated entry is nulled.
VacatedIsNull ==
    \A i \in 0..Capacity - 1 :
       entries[i] # Null => \E k \in 0..count - 1 : i = (head + k) % Capacity

\* Threads that will look at the queue for the sake of condition `c' without
\* being woken again, and notifications of `c' still on their way.
OnTheirWay(c) ==
    {t \in Threads :
       \/ at[t] \in {"deregister", "relock", "check", "wake"} /\ call[t].on = c
       \/ at[t] = IF c = "readable" THEN "popTest" ELSE "pushTest"}

Available(c) == IF c = "readable" THEN count ELSE Capacity - count

\* While a popper sleeps, each entry is spoken for by another popper already
\* awake or by a notification on its way; while a pusher sleeps, so is each
\* free slot.  A notification that vanished, or that went to the other
\* condition's sleepers, leaves an entry nobody comes for.
EntriesSpokenFor ==
    \A c \in Conditions :
       Asleep(c) # {} => Available(c) <= Cardinality(OnTheirWay(c))

\* Sleepers are counted before they sleep, and somebody is on the way to what
\* they wait for.
QueueInv == TypeOK /\ WaitersCounted /\ VacatedIsNull /\ EntriesSpokenFor

\* Hence, once the kernel stops waking threads for no reason, nobody sleeps
\* for ever through what it waits for.  (Spurious wake-ups without end may let
\* one thread barge ahead of all others at the unfair mutex.)
WokenForNoReason == \E t \in Threads : WakeSpuriously(t)

Stranded(t) == \E c \in Conditions : t \in Asleep(c) /\ Available(c) > 0

NobodyStranded ==
    <>[][~WokenForNoReason]_vars => \A t \in Threads : Stranded(t) ~> ~Stranded(t)
=============================================================================
