-------------------------- MODULE ThreadLifecycle --------------------------
(***************************************************************************)
(* std::thread of std/sources/thread.qxs: creation, the worker's own end,  *)
(* join and the destructor that joins, with the handles moved from thread  *)
(* to thread.  A handle is held by one thread, in its frames, its entry    *)
(* object or its PER_THREAD objects; `holder' says by which.               *)
(*                                                                         *)
(* On static Linux the runtime maps the stack and the TLS block itself and *)
(* join waits on the word the kernel clears; elsewhere the system's join   *)
(* does both.  A PANIC ends the process.                                   *)
(***************************************************************************)
EXTENDS Naturals

CONSTANTS Threads, Main, None

ASSUME ThreadTypes == Main \in Threads /\ None \notin Threads

VARIABLES static,    \* OS_LINUX && ENVIRONMENT_IS_STATIC
          control,   \* each thread's control: "none", "allocated", "freed"
          published, \* control.published
          entry,     \* control.entry: "none", "live", "destroyed"
          mapping,   \* stack_mapping and tls_block: "none", "mapped", "released"
          tid,       \* child_tid holds the thread's id
          identity,  \* the thread's current_thread_state.identity is set
          phase,     \* how far each thread has come
          holder,    \* who holds the thread object that owns the control
          call,      \* the constructor or join a thread is executing
          about,     \* the thread it constructs or joins
          panicked

memory == <<control, entry, mapping>>
words == <<published, tid, identity>>
vars == <<static, memory, words, phase, holder, call, about, panicked>>

Phases == {"unborn", "born", "program", "drain", "exit", "cleared", "gone"}
Calls == {"none", "publish", "create", "load", "wait", "asleep", "release", "delete"}

TypeOK ==
    /\ {static, panicked} \subseteq BOOLEAN
    /\ control \in [Threads -> {"none", "allocated", "freed"}]
    /\ entry \in [Threads -> {"none", "live", "destroyed"}]
    /\ mapping \in [Threads -> {"none", "mapped", "released"}]
    /\ {published, tid, identity} \subseteq [Threads -> BOOLEAN]
    /\ phase \in [Threads -> Phases]
    /\ \A t \in Threads : holder[t] = None
          \/ (holder[t] \in Threads /\ control[t] = "allocated")
    /\ call \in [Threads -> Calls]
    /\ about \in [Threads -> Threads \cup {None}]

All(value) == [t \in Threads |-> value]

\* main runs as the process starts, with nothing else created.
Init ==
    /\ static \in BOOLEAN
    /\ control = All("none") /\ entry = All("none") /\ mapping = All("none")
    /\ published = All(FALSE) /\ tid = All(FALSE) /\ identity = All(FALSE)
    /\ phase = [All("unborn") EXCEPT ![Main] = "program"]
    /\ holder = All(None)
    /\ call = All("none") /\ about = All(None)
    /\ panicked = FALSE

Set(f, t, value) == f' = [f EXCEPT ![t] = value]
Continue(u, c) == Set(call, u, c) /\ UNCHANGED about
Return(u) == Set(call, u, "none") /\ Set(about, u, None)

Panic == panicked' = TRUE
         /\ UNCHANGED <<static, memory, words, phase, holder, call, about>>

\* Code of the program runs on u: its entry, or a PER_THREAD destructor.
InProgram(u) == phase[u] \in {"program", "drain"} /\ call[u] = "none"

-----------------------------------------------------------------------------
\* The constructor: the control and the entry are made, on static Linux with
\* the stack and the TLS block.
Construct(u, t) ==
    /\ InProgram(u)
    /\ control[t] = "none" /\ t # Main
    /\ Set(control, t, "allocated")
    /\ Set(entry, t, "live")
    /\ IF static THEN Set(mapping, t, "mapped") ELSE UNCHANGED mapping
    /\ Set(call, u, "publish")
    /\ Set(about, u, t)
    /\ UNCHANGED <<static, words, phase, holder, panicked>>

Publish(u) ==
    /\ call[u] = "publish"
    /\ Set(published, about[u], TRUE)
    /\ Continue(u, "create")
    /\ UNCHANGED <<static, memory, tid, identity, phase, holder, panicked>>

CreateKeepingTid(u) == \* mutant: clone does not set child_tid
    LET t == about[u] IN
    /\ call[u] = "create"
    /\ Set(phase, t, "born")
    /\ Set(holder, t, u)
    /\ Return(u)
    /\ UNCHANGED <<static, memory, words, panicked>>

\* pthread_create, CreateThread, or clone, which stores the child's id in
\* child_tid (CLONE_PARENT_SETTID) before the child runs.
Create(u) ==
    LET t == about[u] IN
    /\ call[u] = "create"
    /\ Set(phase, t, "born")
    /\ IF static THEN Set(tid, t, TRUE) ELSE UNCHANGED tid
    /\ Set(holder, t, u)
    /\ Return(u)
    /\ UNCHANGED <<static, memory, published, identity, panicked>>

CreateFailsLeaking(u) == \* mutant: a failed clone keeps the mappings
    LET t == about[u] IN
    /\ call[u] = "create"
    /\ Set(entry, t, "destroyed")
    /\ Set(control, t, "freed")
    /\ panicked' = TRUE
    /\ UNCHANGED <<static, mapping, words, phase, holder, call, about>>

\* The thread is not created: everything is given back before the PANIC.
CreateFails(u) ==
    LET t == about[u] IN
    /\ call[u] = "create"
    /\ IF static THEN Set(mapping, t, "released") ELSE UNCHANGED mapping
    /\ Set(entry, t, "destroyed")
    /\ Set(control, t, "freed")
    /\ panicked' = TRUE
    /\ UNCHANGED <<static, words, phase, holder, call, about>>

-----------------------------------------------------------------------------
\* run_thread_entry until the entry is called.
Start(t) ==
    /\ phase[t] = "born"
    /\ Set(identity, t, TRUE)
    /\ Set(phase, t, "program")
    /\ UNCHANGED <<static, memory, published, tid, holder, call, about, panicked>>

\* The entry returns and is destroyed, after what it holds itself has been.
DestroyEntry(t) ==
    /\ phase[t] = "program" /\ call[t] = "none"
    /\ IF t = Main THEN UNCHANGED entry ELSE Set(entry, t, "destroyed")
    /\ Set(phase, t, "drain")
    /\ UNCHANGED <<static, control, mapping, words, holder, call, about, panicked>>

FinishHolding(t) == \* mutant: thread has no destructor
    /\ phase[t] = "drain" /\ call[t] = "none"
    /\ Set(identity, t, FALSE)
    /\ Set(phase, t, "exit")
    /\ UNCHANGED <<static, memory, published, tid, holder, call, about, panicked>>

\* thread_finish ends: no object of this thread is left, handles included.
Finish(t) ==
    /\ phase[t] = "drain" /\ call[t] = "none"
    /\ \A x \in Threads : holder[x] # t
    /\ Set(identity, t, FALSE)
    /\ Set(phase, t, "exit")
    /\ UNCHANGED <<static, memory, published, tid, holder, call, about, panicked>>

\* The thread is off its stack for good: the kernel clears child_tid ...
KernelClears(t) ==
    /\ phase[t] = "exit"
    /\ Set(tid, t, FALSE)
    /\ Set(phase, t, "cleared")
    /\ UNCHANGED <<static, memory, published, identity, holder, call, about, panicked>>

\* ... and wakes who waits on that word.
KernelWakes(t) ==
    /\ phase[t] = "cleared"
    /\ Set(phase, t, "gone")
    /\ call' = [u \in Threads |-> IF call[u] = "asleep" /\ about[u] = t THEN "load"
                                  ELSE call[u]]
    /\ UNCHANGED <<static, memory, words, holder, about, panicked>>

-----------------------------------------------------------------------------
\* Threads that hold each other's handles wait for each other for ever; that a
\* thread gets hold of its own is caught by join.
WaitInCircle(h) ==
    \E S \in (SUBSET Threads) \ {{}} : \A x \in S : h[x] \in S /\ h[x] # x

\* The move constructor, when the handle passes to another thread.
Give(u, v, t) ==
    /\ InProgram(u)
    /\ holder[t] = u
    /\ v # u /\ phase[v] = "program"
    /\ ~WaitInCircle([holder EXCEPT ![t] = v])
    /\ Set(holder, t, v)
    /\ UNCHANGED <<static, memory, words, phase, call, about, panicked>>

\* join, called or from the destructor.
Join(u, t) ==
    /\ InProgram(u)
    /\ holder[t] = u
    /\ IF t = u /\ identity[u]
       THEN Panic
       ELSE /\ Set(call, u, IF static THEN "load" ELSE "wait")
            /\ Set(about, u, t)
            /\ UNCHANGED <<static, memory, words, phase, holder, panicked>>

\* pthread_join or WaitForSingleObject and CloseHandle.
SystemJoin(u) ==
    /\ ~static /\ call[u] = "wait"
    /\ phase[about[u]] = "gone"
    /\ Continue(u, "delete")
    /\ UNCHANGED <<static, memory, words, phase, holder, panicked>>

\* static_linux_thread_wait: load, and wait while the word says so.
LoadTid(u) ==
    /\ call[u] = "load"
    /\ Continue(u, IF tid[about[u]] THEN "wait" ELSE "release")
    /\ UNCHANGED <<static, memory, words, phase, holder, panicked>>

SleepBlindly(u) == \* mutant: the wait does not compare the word again
    /\ static /\ call[u] = "wait"
    /\ Continue(u, "asleep")
    /\ UNCHANGED <<static, memory, words, phase, holder, panicked>>

SleepOnTid(u) ==
    /\ static /\ call[u] = "wait"
    /\ Continue(u, IF tid[about[u]] THEN "asleep" ELSE "load")
    /\ UNCHANGED <<static, memory, words, phase, holder, panicked>>

Release(u) ==
    /\ call[u] = "release"
    /\ Set(mapping, about[u], "released")
    /\ Continue(u, "delete")
    /\ UNCHANGED <<static, control, entry, words, phase, holder, panicked>>

Delete(u) ==
    /\ call[u] = "delete"
    /\ Set(control, about[u], "freed")
    /\ Set(holder, about[u], None)
    /\ Return(u)
    /\ UNCHANGED <<static, entry, mapping, words, phase, panicked>>

WakeSpuriously(u) ==
    /\ call[u] = "asleep"
    /\ Continue(u, "load")
    /\ UNCHANGED <<static, memory, words, phase, holder, panicked>>

-----------------------------------------------------------------------------
JoinStep(u) == LoadTid(u) \/ SleepOnTid(u) \/ SystemJoin(u) \/ Release(u) \/ Delete(u)
LifeStep(t) == Start(t) \/ DestroyEntry(t) \/ Finish(t)
               \/ KernelClears(t) \/ KernelWakes(t)

\* The process has ended neither by a PANIC nor by main's end.
Running == ~panicked /\ phase[Main] # "exit"

Next == Running /\ \E u \in Threads :
    \/ Publish(u) \/ Create(u) \/ CreateFails(u)
    \/ JoinStep(u) \/ WakeSpuriously(u) \/ LifeStep(u)
    \/ \E t \in Threads : Construct(u, t) \/ Join(u, t)
                          \/ \E v \in Threads : Give(u, v, t)

\* What a thread that is scheduled does sooner or later: entries and PER_THREAD
\* destructors end, and before the latter have, what the thread still holds is joined.
Proceed(u) == Running /\ (Publish(u) \/ Create(u) \/ JoinStep(u) \/ LifeStep(u))

JoinWhatIsHeld(u) == Running /\ phase[u] = "drain" /\ \E t \in Threads : Join(u, t)

\* The scheduler runs every thread.
Fairness == \A u \in Threads : WF_vars(Proceed(u)) /\ WF_vars(JoinWhatIsHeld(u))

Spec == Init /\ [][Next]_vars /\ Fairness

-----------------------------------------------------------------------------
OffItsStack(t) == phase[t] \in {"unborn", "cleared", "gone"}

\* The control, the stack and the TLS block outlive the thread's last use.
MemoryOutlivesThread ==
    \A t \in Threads :
       control[t] = "freed" \/ mapping[t] = "released" => OffItsStack(t)

\* A control that is freed, by join or by a constructor that failed, leaves
\* neither a live entry nor a mapping behind, and nobody else joins through it.
NothingLeftBehind ==
    \A t \in Threads : control[t] = "freed" =>
       /\ entry[t] = "destroyed"
       /\ mapping[t] # "mapped"
       /\ ~panicked => \A u \in Threads : about[u] # t

\* The ASSERTs of run_thread_entry.
StartsPublished ==
    \A t \in Threads : phase[t] = "born" => published[t] /\ entry[t] = "live"

\* The handle of a thread that exists is held by a thread that is still going to
\* destroy it.
HeldByLiving ==
    \A t \in Threads : phase[t] # "unborn" /\ t # Main /\ control[t] = "allocated"
       => holder[t] \in Threads /\ phase[holder[t]] \in {"program", "drain"}

\* main returns after every thread ever created has ended, unless one was handed
\* its own handle and has yet to PANIC over it.
MainEndsLast == phase[Main] = "exit"
                => \/ \A t \in Threads \ {Main} : OffItsStack(t)
                   \/ \E t \in Threads : holder[t] = t

\* Threads are started on what is published, handles are held by threads that
\* still destroy them, a freed control leaves nothing behind and no thread runs
\* on memory that is gone.
HandleInv == /\ TypeOK /\ StartsPublished /\ HeldByLiving /\ NothingLeftBehind
             /\ MemoryOutlivesThread

\* If entries and destructors end, every join returns.
EveryJoinReturns == \A u \in Threads :
    call[u] \in {"load", "wait"} ~> call[u] = "none" \/ ~Running
=============================================================================
