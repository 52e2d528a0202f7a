------------------------- MODULE ConditionVariable -------------------------
(***************************************************************************)
(* condition_variable of std/sources/synchronization.qxs, as the steps of  *)
(* the threads that wait on it and notify it.  PointerQueue and Semaphore  *)
(* extend this module with the code that calls it.                         *)
(*                                                                         *)
(* The mutex is the abstract one that UnfairMutex is shown to implement:   *)
(* `owner' is the owning thread.  A thread inside wait or notify stands at *)
(* one of CallPlaces and continues at call[t].resume when the call returns.*)
(* The sequence is a natural number here and an I32 in the code: a waiter  *)
(* is deceived only if 2^32 notifications fall between its LOAD and its    *)
(* wait, which no bound below reaches.                                     *)
(***************************************************************************)
EXTENDS Naturals, FiniteSets, Futex

CONSTANTS Threads, None,
          Conditions  \* the condition variables sharing the mutex

ASSUME NoneNoThread == None \notin Threads

VARIABLES owner,     \* owner of the mutex
          sequence,  \* notification sequence of each condition
          waiters,   \* registered waiters of each condition
          at,        \* where each thread stands
          call       \* the call in progress: condition, resume place, `observed'

cvVars == <<owner, sequence, waiters, at, call>>

CallPlaces == {"register", "unlock", "sleep", "asleep", "deregister", "relock",
               "check", "wake", "checkAll", "wakeAll"}

NoCall == [on |-> None, resume |-> "out", observed |-> 0]

CVInit ==
    /\ owner = None
    /\ sequence = [c \in Conditions |-> 0]
    /\ waiters = [c \in Conditions |-> 0]
    /\ at = [t \in Threads |-> "out"]
    /\ call = [t \in Threads |-> NoCall]

Goto(t, place) == at' = [at EXCEPT ![t] = place]

Asleep(c) == {t \in Threads : at[t] = "asleep" /\ call[t].on = c}

\* The call returns to the code that made it.
Return(t) ==
    /\ Goto(t, call[t].resume)
    /\ call' = [call EXCEPT ![t] = NoCall]

-----------------------------------------------------------------------------
\* mutex.lock and mutex.unlock in the calling code.
Lock(t, from, to) ==
    /\ at[t] = from
    /\ owner = None
    /\ owner' = t
    /\ Goto(t, to)
    /\ UNCHANGED <<sequence, waiters, call>>

Unlock(t, from, to) ==
    /\ at[t] = from
    /\ owner' = None
    /\ Goto(t, to)
    /\ UNCHANGED <<sequence, waiters, call>>

\* wait: entered with the mutex owned; loads the sequence first.
EnterWait(t, c, resume) ==
    /\ call' = [call EXCEPT ![t] = [on |-> c, resume |-> resume,
                                    observed |-> sequence[c]]]
    /\ Goto(t, "register")
    /\ UNCHANGED <<owner, sequence, waiters>>

Register(t) ==
    /\ at[t] = "register"
    /\ waiters' = [waiters EXCEPT ![call[t].on] = @ + 1]
    /\ Goto(t, "unlock")
    /\ UNCHANGED <<owner, sequence, call>>

ReleaseMutex(t) ==
    /\ at[t] = "unlock"
    /\ owner' = None
    /\ Goto(t, "sleep")
    /\ UNCHANGED <<sequence, waiters, call>>

Sleep(t) ==
    /\ at[t] = "sleep"
    /\ Goto(t, IF FutexSleeps(sequence[call[t].on], call[t].observed)
               THEN "asleep" ELSE "deregister")
    /\ UNCHANGED <<owner, sequence, waiters, call>>

WakeSpuriously(t) ==
    /\ at[t] = "asleep"
    /\ Goto(t, "deregister")
    /\ UNCHANGED <<owner, sequence, waiters, call>>

Deregister(t) ==
    /\ at[t] = "deregister"
    /\ waiters' = [waiters EXCEPT ![call[t].on] = @ - 1]
    /\ Goto(t, "relock")
    /\ UNCHANGED <<owner, sequence, call>>

Relock(t) ==
    /\ at[t] = "relock"
    /\ owner = None
    /\ owner' = t
    /\ Return(t)
    /\ UNCHANGED <<sequence, waiters>>

-----------------------------------------------------------------------------
\* notify_one and notify_all: publish a new sequence, then wake one thread or all if
\* anybody is registered.
Publish(t, c, resume, place) ==
    /\ sequence' = [sequence EXCEPT ![c] = @ + 1]
    /\ call' = [call EXCEPT ![t] = [on |-> c, resume |-> resume,
                                    observed |-> 0]]
    /\ Goto(t, place)
    /\ UNCHANGED <<owner, waiters>>

EnterNotify(t, c, resume) == Publish(t, c, resume, "check")
EnterNotifyAll(t, c, resume) == Publish(t, c, resume, "checkAll")

CheckWaiters(t) ==
    /\ at[t] \in {"check", "checkAll"}
    /\ IF waiters[call[t].on] = 0
       THEN Return(t)
       ELSE Goto(t, IF at[t] = "check" THEN "wake" ELSE "wakeAll") /\ UNCHANGED call
    /\ UNCHANGED <<owner, sequence, waiters>>

\* The threads woken go on, and so does the thread that woke them.
Release(t, woken) ==
    /\ at' = [u \in Threads |-> IF u = t THEN call[t].resume
                                ELSE IF u \in woken THEN "deregister" ELSE at[u]]
    /\ call' = [call EXCEPT ![t] = NoCall]
    /\ UNCHANGED <<owner, sequence, waiters>>

Wake(t) ==
    /\ at[t] = "wake"
    /\ \E woken \in WakeOne(Asleep(call[t].on)) : Release(t, woken)

WakeAll(t) ==
    /\ at[t] = "wakeAll"
    /\ Release(t, Asleep(call[t].on))

-----------------------------------------------------------------------------
CallStep(t) ==
    \/ Register(t) \/ ReleaseMutex(t) \/ Sleep(t) \/ Deregister(t)
    \/ CheckWaiters(t) \/ Wake(t) \/ WakeAll(t)

\* Waiters from their registration to their deregistration.
Registered(c) ==
    {t \in Threads : /\ at[t] \in {"unlock", "sleep", "asleep", "deregister"}
                     /\ call[t].on = c}

\* The waiter count never says zero while a thread may be asleep: it counts
\* exactly the threads between their registration and their deregistration.
WaitersCounted == \A c \in Conditions : waiters[c] = Cardinality(Registered(c))
=============================================================================
