----------------------------- MODULE InitGuard -----------------------------
(***************************************************************************)
(* Lazy initialization of guarded globals: runtime/sources/initguard.qxs   *)
(* and the accessor code the compiler generates around it                  *)
(* (co_vmir_generator2.hpp: try-acquire, run INIT, complete; an unwinding  *)
(* initializer aborts its live lock).                                      *)
(*                                                                         *)
(* An initializer may access other globals, so a thread holds a stack of   *)
(* accesses; every access below the innermost is in the middle of its      *)
(* initializer.  `at' is where the innermost access stands:                *)
(*   "load" "cas"       TRY_ACQUIRE before its LOAD / its COMPARE_EXCHANGE *)
(*   "wait" "asleep"    before / inside the address wait on value 1        *)
(*   "init" "unwind"    running the initializer / leaving it by exception  *)
(*   "completed" "aborted"  guard stored, waiters not notified yet         *)
(***************************************************************************)
EXTENDS Naturals, Sequences, Futex

CONSTANTS Threads,
          Objects,
          None,
          Uses,       \* the globals each object's initializer accesses
          Height,     \* witnesses that initializers do not depend on themselves
          MaxThrows   \* bound: exceptions thrown by initializers

ASSUME UsesIsAcyclic ==
    /\ Uses \in [Objects -> SUBSET Objects]
    /\ Height \in [Objects -> Nat]
    /\ \A o \in Objects : \A u \in Uses[o] : Height[u] < Height[o]

ASSUME NoneIsNotAThread == None \notin Threads

ASSUME MaxThrowsIsNat == MaxThrows \in Nat

VARIABLES guard,  \* INITGUARD word of each object: 0 idle, 1 running, 2 done
          stack,  \* the objects each thread is accessing, outermost first
          at,     \* where each thread's innermost access stands
          throws  \* exceptions thrown so far

vars == <<guard, stack, at, throws>>

Places == {"idle", "load", "cas", "wait", "asleep", "init", "unwind",
           "completed", "aborted"}

TypeOK ==
    /\ guard \in [Objects -> 0..2]
    /\ stack \in [Threads -> Seq(Objects)]
    /\ at \in [Threads -> Places]
    /\ throws \in 0..MaxThrows
    /\ \A t \in Threads : at[t] = "idle" <=> stack[t] = <<>>

Init ==
    /\ guard = [o \in Objects |-> 0]
    /\ stack = [t \in Threads |-> <<>>]
    /\ at = [t \in Threads |-> "idle"]
    /\ throws = 0

Top(t) == stack[t][Len(stack[t])]

Goto(t, place) == at' = [at EXCEPT ![t] = place]

AsleepOn(o) == {t \in Threads : at[t] = "asleep" /\ Top(t) = o}

\* The access on top of t's stack ends; the initializer that made it resumes
\* at `resume'.
Pop(t) == stack' = [stack EXCEPT ![t] = SubSeq(@, 1, Len(@) - 1)]

Resumed(t, resume) == IF Len(stack[t]) = 1 THEN "idle" ELSE resume

-----------------------------------------------------------------------------
\* Code outside any initializer names a global.
Access(t, o) ==
    /\ at[t] = "idle"
    /\ stack' = [stack EXCEPT ![t] = <<o>>]
    /\ Goto(t, "load")
    /\ UNCHANGED <<guard, throws>>

\* An initializer names another global; an access to one that is done already
\* returns from its first LOAD and is left out.
AccessFromInitializer(t, u) ==
    /\ at[t] = "init"
    /\ u \in Uses[Top(t)]
    /\ guard[u] # 2
    /\ stack' = [stack EXCEPT ![t] = Append(@, u)]
    /\ Goto(t, "load")
    /\ UNCHANGED <<guard, throws>>

Load(t) ==
    /\ at[t] = "load"
    /\ CASE guard[Top(t)] = 2 -> Pop(t) /\ Goto(t, Resumed(t, "init"))
         [] guard[Top(t)] = 0 -> UNCHANGED stack /\ Goto(t, "cas")
         [] guard[Top(t)] = 1 -> UNCHANGED stack /\ Goto(t, "wait")
    /\ UNCHANGED <<guard, throws>>

CasBlindly(t) == \* mutant: trusts the earlier LOAD
    /\ at[t] = "cas"
    /\ guard' = [guard EXCEPT ![Top(t)] = 1]
    /\ Goto(t, "init")
    /\ UNCHANGED <<stack, throws>>

Cas(t) ==
    /\ at[t] = "cas"
    /\ IF guard[Top(t)] = 0
       THEN guard' = [guard EXCEPT ![Top(t)] = 1] /\ Goto(t, "init")
       ELSE UNCHANGED guard /\ Goto(t, "load")
    /\ UNCHANGED <<stack, throws>>

Wait(t) ==
    /\ at[t] = "wait"
    /\ Goto(t, IF FutexSleeps(guard[Top(t)], 1) THEN "asleep" ELSE "load")
    /\ UNCHANGED <<guard, stack, throws>>

WakeSpuriously(t) ==
    /\ at[t] = "asleep"
    /\ Goto(t, "load")
    /\ UNCHANGED <<guard, stack, throws>>

-----------------------------------------------------------------------------
\* The initializer returns; it has obtained every global it uses.
Complete(t) ==
    /\ at[t] = "init"
    /\ \A u \in Uses[Top(t)] : guard[u] = 2
    /\ guard' = [guard EXCEPT ![Top(t)] = 2]
    /\ Goto(t, "completed")
    /\ UNCHANGED <<stack, throws>>

Throw(t) ==
    /\ at[t] = "init"
    /\ throws < MaxThrows
    /\ throws' = throws + 1
    /\ Goto(t, "unwind")
    /\ UNCHANGED <<guard, stack>>

Abort(t) ==
    /\ at[t] = "unwind"
    /\ guard' = [guard EXCEPT ![Top(t)] = 0]
    /\ Goto(t, "aborted")
    /\ UNCHANGED <<stack, throws>>

NotifyOnlyReady(t) == \* mutant: an aborting initializer tells nobody
    /\ at[t] \in {"completed", "aborted"}
    /\ \E resume \in IF at[t] = "completed" THEN {"init"} ELSE {"init", "unwind"} :
          at' = [u \in Threads |->
                    IF u = t THEN Resumed(t, resume)
                    ELSE IF at[t] = "completed" /\ u \in AsleepOn(Top(t))
                    THEN "load" ELSE at[u]]
    /\ Pop(t)
    /\ UNCHANGED <<guard, throws>>

\* notify_all_at_address, and the accessor returns; after an abort the
\* exception reaches the enclosing initializer, which catches it and tries
\* again, or is unwound in turn.
Notify(t) ==
    /\ at[t] \in {"completed", "aborted"}
    /\ \E resume \in IF at[t] = "completed" THEN {"init"} ELSE {"init", "unwind"} :
          at' = [u \in Threads |->
                    IF u = t THEN Resumed(t, resume)
                    ELSE IF u \in AsleepOn(Top(t)) THEN "load" ELSE at[u]]
    /\ Pop(t)
    /\ UNCHANGED <<guard, throws>>

-----------------------------------------------------------------------------
Progress(t) ==
    \/ Load(t) \/ Cas(t) \/ Wait(t) \/ Complete(t) \/ Abort(t) \/ Notify(t)
    \/ \E u \in Objects : AccessFromInitializer(t, u)

Next == \E t \in Threads :
           \/ \E o \in Objects : Access(t, o)
           \/ Progress(t) \/ Throw(t) \/ WakeSpuriously(t)

Spec == Init /\ [][Next]_vars

\* Every runnable thread is eventually scheduled and initializers terminate;
\* nothing forces an access, an exception or a spurious wake-up.
FairSpec == Spec /\ \A t \in Threads : WF_vars(Progress(t))

-----------------------------------------------------------------------------
\* t is between winning the guard of its i-th access and storing the outcome.
Building(t, i) ==
    i < Len(stack[t]) \/ at[t] \in {"init", "unwind"}

Builds(t, o) == \E i \in 1..Len(stack[t]) : Building(t, i) /\ stack[t][i] = o

\* The guard is "running" exactly while one access, of one thread, is inside
\* the object's initializer: no object is built twice at once, none is left
\* "running" by a thread that is gone.
OneInitializer ==
    /\ \A t, u \in Threads : \A i \in 1..Len(stack[t]), j \in 1..Len(stack[u]) :
          Building(t, i) /\ Building(u, j) /\ stack[t][i] = stack[u][j]
             => t = u /\ i = j
    /\ \A o \in Objects :
          guard[o] = 1 <=> \E t \in Threads : Builds(t, o)

\* Nobody sleeps on a decided guard that no thread is about to notify.
NoSleeperForgotten ==
    \A t \in Threads : at[t] = "asleep" =>
       \/ guard[Top(t)] = 1
       \/ \E u \in Threads : /\ at[u] \in {"completed", "aborted"}
                             /\ Top(u) = Top(t)

\* A guard is "running" while one thread builds its object, and that thread will
\* wake whoever sleeps on the guard.
GuardInv == TypeOK /\ OneInitializer /\ NoSleeperForgotten

\* Every access ends: initializers terminate or throw, and whoever waits for
\* one is told.
EveryAccessEnds ==
    \A t \in Threads : at[t] # "idle" ~> at[t] = "idle"

BuilderOf(o) ==
    IF \E t \in Threads : Builds(t, o)
    THEN CHOOSE t \in Threads : Builds(t, o) ELSE None

Promise == INSTANCE OnceCell WITH
    builder <- [o \in Objects |-> BuilderOf(o)],
    ready   <- {o \in Objects : guard[o] = 2}

\* The guards implement OnceCell: one builder at a time, published for good or
\* given up for another try.
KeepsPromise == Promise!Spec
=============================================================================
