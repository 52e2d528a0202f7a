---------------------------- MODULE AsyncContext ----------------------------
(***************************************************************************)
(* async_context, async_file and thread_pool of std/sources/async_io.qxs   *)
(* over the io_uring of async_io_linux.qxs: a client starts transfers and  *)
(* creates, joins and replaces pools on one context; workers, or the       *)
(* client in wait_one, reap completions and run the callbacks, which start *)
(* further transfers.                                                      *)
(*                                                                         *)
(* `at' is the place of a thread in its own loop or call; `work' is the    *)
(* stack of transfers it is starting or completing on top of that (a       *)
(* refused submission is completed on the spot, inside the callback that   *)
(* made it).  The drain condition is taken as ConditionVariable provides   *)
(* it: wait releases the mutex and sleeps at once, notify_all wakes who    *)
(* sleeps.  Every submission is consumed by the kernel before the ring's   *)
(* mutex is released, so the submission ring itself is never full.         *)
(***************************************************************************)
EXTENDS Naturals, FiniteSets, Sequences, SequencesExt

CONSTANTS Client, Workers, None,
          Requests,        \* addresses of async_request objects
          Stop,            \* a completion whose user_data is null
          MaxStarts,       \* bound: transfers started
          MaxPools,        \* bound: pools created
          MaxRefusals,     \* bound: transfers the kernel refuses
          MaxStopRefusals  \* bound: stop notifications the kernel refuses

ASSUME ConstantTypes ==
    /\ Client \notin Workers /\ None \notin Workers \cup {Client}
    /\ Stop \notin Requests /\ None \notin Requests \cup {Stop}
    /\ IsFiniteSet(Requests)
    /\ {MaxStarts, MaxPools, MaxRefusals, MaxStopRefusals} \subseteq Nat

Threads == Workers \cup {Client}

VARIABLES outstanding, \* control.outstanding
          pending,     \* control.pending of the one file
          drain, ring, \* owners of drain_mutex and of completion_mutex
          completions, \* the completion ring, oldest first
          inKernel,    \* transfers the kernel has accepted and not completed
          at, work,    \* where each thread stands
          reaped,      \* the completion it has copied from the ring
          pool,        \* "none", "attached", "joining", "threw"
          crew,        \* the workers of the pool
          posted,      \* stop notifications posted by the join in progress
          context,     \* "live", "destroyed"
          starts, pools, refusals, stopRefusals

counts == <<outstanding, pending>>
kernel == <<completions, inKernel>>
poolVars == <<pool, crew, posted>>
clientVars == <<poolVars, context>>
bounds == <<starts, pools, refusals, stopRefusals>>
vars == <<counts, drain, ring, kernel, at, work, reaped, poolVars, context, bounds>>

LoopPlaces == {"out", "wait", "reap", "advance"}
JoinPlaces == {"lock", "test", "enlist", "asleep", "stop", "await", "detach"}
FramePlaces == {"count", "submit", "release", "running", "settle", "notify",
                "delete"}

TypeOK ==
    /\ outstanding \in 0..Cardinality(Requests)
    /\ pending \in 0..Cardinality(Requests)
    /\ drain \in Threads \cup {None} /\ ring \in Threads \cup {None}
    /\ completions \in Seq(Requests \cup {Stop}) /\ inKernel \subseteq Requests
    /\ at \in [Threads -> LoopPlaces \cup JoinPlaces \cup {"exited"}]
    /\ work \in [Threads -> Seq([at : FramePlaces, req : Requests])]
    /\ reaped \in [Threads -> Requests \cup {Stop, None}]
    /\ pool \in {"none", "attached", "joining", "threw"}
    /\ crew \subseteq Workers
    /\ context \in {"live", "destroyed"}

Init ==
    /\ outstanding = 0 /\ pending = 0
    /\ drain = None /\ ring = None
    /\ completions = <<>> /\ inKernel = {}
    /\ at = [t \in Threads |-> "out"]
    /\ work = [t \in Threads |-> <<>>]
    /\ reaped = [t \in Threads |-> None]
    /\ pool = "none" /\ crew = {} /\ posted = 0
    /\ context = "live"
    /\ starts = 0 /\ pools = 0 /\ refusals = 0 /\ stopRefusals = 0

-----------------------------------------------------------------------------
\* Where threads stand.
Top(t) == Last(work[t])
Stands(t, place) == work[t] # <<>> /\ Top(t).at = place
Step(t, place) == work' = [work EXCEPT ![t][Len(work[t])].at = place]
Leave(t) == work' = [work EXCEPT ![t] = Front(@)]
Goto(t, place) == at' = [at EXCEPT ![t] = place]

\* The requests between allocate_async_request and their DELETE.
HeldBy(t) == {work[t][i].req : i \in DOMAIN work[t]}
LiveRequests ==
    (UNION {HeldBy(t) : t \in Threads}) \cup inKernel \cup (ToSet(completions) \ {Stop})
    \cup ({reaped[t] : t \in Threads} \ {Stop, None})

\* Threads at code of the program: the client between calls, or a callback.
InProgram(t) ==
    \/ t = Client /\ at[t] = "out" /\ work[t] = <<>>
    \/ Stands(t, "running")

-----------------------------------------------------------------------------
\* async_file.read and write until the request is counted in the file.  A join
\* in progress forbids new transfers.
Start(t, r) ==
    /\ InProgram(t)
    /\ context = "live" /\ pool \notin {"joining", "threw"}
    /\ starts < MaxStarts /\ r \notin LiveRequests
    /\ starts' = starts + 1
    /\ pending' = pending + 1
    /\ work' = [work EXCEPT ![t] = Append(@, [at |-> "count", req |-> r])]
    /\ UNCHANGED <<outstanding, drain, ring, kernel, at, reaped, clientVars, pools,
                   refusals, stopRefusals>>

\* allocate_async_request counts it in the context, under the drain mutex.
CountRequest(t) ==
    /\ Stands(t, "count") /\ drain = None
    /\ outstanding' = outstanding + 1
    /\ Step(t, "submit")
    /\ UNCHANGED <<pending, drain, ring, kernel, at, reaped, clientVars, bounds>>

\* submit_linux_io_uring_entry: the kernel takes the entry.
Submit(t) ==
    /\ Stands(t, "submit")
    /\ inKernel' = inKernel \cup {Top(t).req}
    /\ Leave(t)
    /\ UNCHANGED <<counts, drain, ring, completions, at, reaped, clientVars, bounds>>

SubmitRefusedSilently(t) == \* mutant: a refused transfer is not completed
    /\ Stands(t, "submit") /\ refusals < MaxRefusals
    /\ refusals' = refusals + 1
    /\ Leave(t)
    /\ UNCHANGED <<counts, drain, ring, kernel, at, reaped, clientVars, starts,
                   pools, stopRefusals>>

\* It does not: read and write complete the request themselves.
SubmitRefused(t) ==
    /\ Stands(t, "submit") /\ refusals < MaxRefusals
    /\ refusals' = refusals + 1
    /\ Step(t, "release")
    /\ UNCHANGED <<counts, drain, ring, kernel, at, reaped, clientVars, starts,
                   pools, stopRefusals>>

\* The transfer ends, whichever the kernel finishes first.
KernelCompletes(r) ==
    /\ r \in inKernel
    /\ inKernel' = inKernel \ {r}
    /\ completions' = Append(completions, r)
    /\ UNCHANGED <<counts, drain, ring, at, work, reaped, clientVars, bounds>>

-----------------------------------------------------------------------------
\* complete_async_request: the file's count goes down, then the callback runs.
ReleaseFile(t) ==
    /\ Stands(t, "release")
    /\ pending' = pending - 1
    /\ Step(t, "running")
    /\ UNCHANGED <<outstanding, drain, ring, kernel, at, reaped, clientVars, bounds>>

EndCallback(t) ==
    /\ Stands(t, "running")
    /\ Step(t, "settle")
    /\ UNCHANGED <<counts, drain, ring, kernel, at, reaped, clientVars, bounds>>

SettleUnlocked(t) == \* mutant: the drain mutex is not taken
    /\ Stands(t, "settle")
    /\ outstanding' = outstanding - 1
    /\ Step(t, IF outstanding = 1 THEN "notify" ELSE "delete")
    /\ UNCHANGED <<pending, drain, ring, kernel, at, reaped, clientVars, bounds>>

\* The count goes down under the drain mutex; the last one tells after it.
Settle(t) ==
    /\ Stands(t, "settle") /\ drain = None
    /\ outstanding' = outstanding - 1
    /\ Step(t, IF outstanding = 1 THEN "notify" ELSE "delete")
    /\ UNCHANGED <<pending, drain, ring, kernel, at, reaped, clientVars, bounds>>

NotifyDrained(t) ==
    /\ Stands(t, "notify")
    /\ Step(t, "delete")
    /\ IF at[Client] = "asleep" THEN Goto(Client, "lock") ELSE UNCHANGED at
    /\ UNCHANGED <<counts, drain, ring, kernel, reaped, clientVars, bounds>>

DeleteRequest(t) ==
    /\ Stands(t, "delete")
    /\ Leave(t)
    /\ UNCHANGED <<counts, drain, ring, kernel, at, reaped, clientVars, bounds>>

-----------------------------------------------------------------------------
\* wait_for_async_completion: the completion mutex is held from before the
\* kernel is asked until the completion has been taken off the ring.
LockRing(t) ==
    /\ at[t] = "wait" /\ work[t] = <<>>
    /\ ring = None /\ ring' = t
    /\ Goto(t, "reap")
    /\ UNCHANGED <<counts, drain, kernel, work, reaped, clientVars, bounds>>

Reap(t) ==
    /\ at[t] = "reap"
    /\ completions # <<>>
    /\ reaped' = [reaped EXCEPT ![t] = Head(completions)]
    /\ Goto(t, "advance")
    /\ UNCHANGED <<counts, drain, ring, kernel, work, clientVars, bounds>>

AdvanceOnce(t) == \* mutant: a worker does not loop
    /\ at[t] = "advance"
    /\ completions # <<>>
    /\ completions' = Tail(completions)
    /\ ring' = None
    /\ reaped' = [reaped EXCEPT ![t] = None]
    /\ Goto(t, IF t = Client THEN "out" ELSE "exited")
    /\ IF reaped[t] = Stop
       THEN UNCHANGED work
       ELSE work' = [work EXCEPT ![t] = Append(@, [at |-> "release", req |-> reaped[t]])]
    /\ UNCHANGED <<counts, drain, inKernel, clientVars, bounds>>

\* After a stop a worker ends and wait_one returns FALSE.  After a transfer
\* the callback runs, then the worker waits again and wait_one returns TRUE.
Advance(t) ==
    /\ at[t] = "advance"
    /\ completions # <<>>
    /\ completions' = Tail(completions)
    /\ ring' = None
    /\ reaped' = [reaped EXCEPT ![t] = None]
    /\ Goto(t, IF t = Client THEN "out"
               ELSE IF reaped[t] = Stop THEN "exited" ELSE "wait")
    /\ IF reaped[t] = Stop
       THEN UNCHANGED work
       ELSE work' = [work EXCEPT ![t] = Append(@, [at |-> "release", req |-> reaped[t]])]
    /\ UNCHANGED <<counts, drain, inKernel, clientVars, bounds>>

\* wait_one, called while a transfer is outstanding and no pool is attached.
WaitOne ==
    /\ InProgram(Client) /\ work[Client] = <<>>
    /\ context = "live" /\ pool = "none" /\ outstanding # 0
    /\ Goto(Client, "wait")
    /\ UNCHANGED <<counts, drain, ring, kernel, work, reaped, clientVars, bounds>>

-----------------------------------------------------------------------------
\* The constructor of thread_pool.
CreatePool(W) ==
    /\ InProgram(Client) /\ work[Client] = <<>>
    /\ context = "live" /\ pool = "none"
    /\ pools < MaxPools /\ pools' = pools + 1
    /\ pool' = "attached" /\ crew' = W
    /\ at' = [t \in Threads |-> IF t \in W THEN "wait" ELSE at[t]]
    /\ UNCHANGED <<counts, drain, ring, kernel, work, reaped, posted, context, starts,
                   refusals, stopRefusals>>

\* join; the destructor calls it again after it has thrown.
Join ==
    /\ InProgram(Client) /\ work[Client] = <<>>
    /\ pool \in {"attached", "threw"}
    /\ pool' = "joining" /\ posted' = 0
    /\ Goto(Client, "lock")
    /\ UNCHANGED <<counts, drain, ring, kernel, work, reaped, crew, context, bounds>>

LockDrain ==
    /\ at[Client] = "lock"
    /\ drain = None /\ drain' = Client
    /\ Goto(Client, "test")
    /\ UNCHANGED <<counts, ring, kernel, work, reaped, clientVars, bounds>>

\* The count is tested under the mutex; waiting releases it.
TestDrained ==
    /\ at[Client] = "test"
    /\ IF outstanding = 0
       THEN drain' = None /\ Goto(Client, "stop")
       ELSE UNCHANGED drain /\ Goto(Client, "enlist")
    /\ UNCHANGED <<counts, ring, kernel, work, reaped, clientVars, bounds>>

Sleep ==
    /\ at[Client] = "enlist"
    /\ drain' = None
    /\ Goto(Client, "asleep")
    /\ UNCHANGED <<counts, ring, kernel, work, reaped, clientVars, bounds>>

WakeSpuriously ==
    /\ at[Client] = "asleep"
    /\ Goto(Client, "lock")
    /\ UNCHANGED <<counts, drain, ring, kernel, work, reaped, clientVars, bounds>>

\* request_async_stop posts one notification for each worker.
PostStop ==
    /\ at[Client] = "stop"
    /\ completions' = Append(completions, Stop)
    /\ posted' = posted + 1
    /\ Goto(Client, IF posted + 1 = Cardinality(crew) THEN "await" ELSE "stop")
    /\ UNCHANGED <<counts, drain, ring, inKernel, work, reaped, pool, crew, context,
                   bounds>>

\* The kernel refuses one: worker_stop_failed is thrown out of join.
StopRefused ==
    /\ at[Client] = "stop" /\ stopRefusals < MaxStopRefusals
    /\ stopRefusals' = stopRefusals + 1
    /\ pool' = "threw"
    /\ Goto(Client, "out")
    /\ UNCHANGED <<counts, drain, ring, kernel, work, reaped, crew, posted, context, starts,
                   pools, refusals>>

AwaitNobody == \* mutant: the workers are detached
    /\ at[Client] = "await"
    /\ Goto(Client, "detach")
    /\ UNCHANGED <<counts, drain, ring, kernel, work, reaped, clientVars, bounds>>

\* Every worker is joined, in order; the last to end lets join go on.
AwaitWorkers ==
    /\ at[Client] = "await"
    /\ \A w \in crew : at[w] = "exited"
    /\ Goto(Client, "detach")
    /\ UNCHANGED <<counts, drain, ring, kernel, work, reaped, clientVars, bounds>>

Detach ==
    /\ at[Client] = "detach" /\ drain = None
    /\ pool' = "none" /\ crew' = {}
    /\ at' = [t \in Threads |-> IF t \in crew \cup {Client} THEN "out" ELSE at[t]]
    /\ UNCHANGED <<counts, drain, ring, kernel, work, reaped, posted, context, bounds>>

\* The destructor of async_context, when its ASSERTs hold.
DestroyContext ==
    /\ InProgram(Client) /\ work[Client] = <<>>
    /\ context = "live" /\ outstanding = 0 /\ pool = "none"
    /\ context' = "destroyed"
    /\ UNCHANGED <<counts, drain, ring, kernel, at, work, reaped, poolVars, bounds>>

-----------------------------------------------------------------------------
FrameStep(t) == CountRequest(t) \/ Submit(t) \/ ReleaseFile(t) \/ EndCallback(t)
                \/ Settle(t) \/ NotifyDrained(t) \/ DeleteRequest(t)
WaitStep(t) == LockRing(t) \/ Reap(t) \/ Advance(t)
JoinStep == LockDrain \/ TestDrained \/ Sleep \/ PostStop \/ AwaitWorkers \/ Detach

Next ==
    \/ \E t \in Threads : FrameStep(t) \/ WaitStep(t) \/ SubmitRefused(t)
                          \/ \E r \in Requests : Start(t, r)
    \/ \E r \in Requests : KernelCompletes(r)
    \/ JoinStep \/ Join \/ WakeSpuriously \/ StopRefused
    \/ \E W \in (SUBSET Workers) \ {{}} : CreatePool(W)
    \/ WaitOne \/ DestroyContext

\* Threads run, callbacks return, the kernel completes what it accepted, and who
\* keeps asking for a mutex that is again and again free gets it.
Fairness ==
    /\ \A t \in Threads : SF_vars(FrameStep(t)) /\ SF_vars(WaitStep(t))
    /\ \A r \in Requests : WF_vars(KernelCompletes(r))
    /\ SF_vars(JoinStep)

Spec == Init /\ [][Next]_vars /\ Fairness

-----------------------------------------------------------------------------
InFrame(places) ==
    UNION {{<<t, i>> : i \in {j \in DOMAIN work[t] : work[t][j].at \in places}} :
           t \in Threads}
InQueue == Cardinality(inKernel)
           + Cardinality({i \in DOMAIN completions : completions[i] # Stop})

\* A request is in one place only, so its callback is run, and the request
\* deleted, by one thread.
OneHolder ==
    Cardinality(LiveRequests)
    = Cardinality(InFrame(FramePlaces)) + InQueue

\* Both counts are exact at every moment: the context's covers a request until
\* its callback has returned, the file's until it has been called.
CountsExact ==
    /\ outstanding = InQueue
          + Cardinality(InFrame({"submit", "release", "running", "settle"}))
    /\ pending = InQueue + Cardinality(InFrame({"count", "submit", "release"}))

\* When join has returned, its workers have run every callback to the end and
\* touch the context no more; it may be destroyed.
JoinedMeansQuiet ==
    /\ at[Client] = "await" => outstanding = 0
    /\ pool = "none" => \A w \in Workers : at[w] = "out" /\ work[w] = <<>>
    /\ context = "destroyed" => LiveRequests = {}

\* Every request is held once and counted as long as it must be, so that a join
\* that returns leaves nothing under way.
ContextInv == TypeOK /\ OneHolder /\ CountsExact /\ JoinedMeansQuiet

\* The pool's workers wait on the context and execute its completion callbacks.
PoolKeepsWorkers == pool = "attached" => \A w \in crew : at[w] # "exited"

\* Until the kernel refuses a stop notification, every join ends, and what was
\* started under a pool is completed.  (Afterwards a pool may lose workers, see
\* PoolKeepsWorkers, and a join then waits for ever.)
JoinReturns ==
    pool = "joining" ~> pool \in {"none", "threw"} \/ stopRefusals > 0
PoolServes == \A r \in Requests :
    pool = "attached" /\ r \in inKernel ~> r \notin LiveRequests \/ stopRefusals > 0
=============================================================================
