--------------------------- MODULE MCKernelWaits ----------------------------
(* The two parts whose threads sleep on a word in the kernel and that no    *)
(* other part here calls: joins of threads (ThreadLifecycle), which sleep   *)
(* on the word that the kernel clears, and the semaphore of an allocation   *)
(* region (RegionControl), whose readers sleep on the semaphore itself.     *)
(* Checked by one run: part says which of them runs.  Values are in the     *)
(* .cfg.                                                                    *)
EXTENDS ThreadLifecycle

CONSTANTS Callers,  \* the threads that call the semaphore
          ReaderLimit

VARIABLES part,
          semaphore, observed, stage, blocking \* of the semaphore

Sema == INSTANCE RegionControl
           WITH Threads <- Callers, word <- semaphore, seen <- observed, at <- stage

ASSUME LimitIsPositive == Sema!ReaderLimitIsPositive
ASSUME CallersAreFinite == Sema!ThreadsIsFinite

semaphoreVars == <<semaphore, observed, stage, blocking>>
allVars == <<vars, part, semaphoreVars>>

InThreads(A) == part = "threads" /\ A /\ UNCHANGED <<part, semaphoreVars>>
InSemaphore(A) == part = "semaphore" /\ A /\ UNCHANGED <<part, vars>>

\* The semaphore is the same on both kinds of platform: one of them will do.
MCInit ==
    /\ part \in {"threads", "semaphore"} /\ Init /\ Sema!Init
    /\ part = "semaphore" => static

MCNext == InThreads(Next) \/ InSemaphore(Sema!Next)

\* Every runnable thread is scheduled, and whoever obtained access to a region
\* gives it back.
MCSpec ==
    /\ MCInit /\ [][MCNext]_allVars
    /\ \A u \in Threads : /\ WF_allVars(InThreads(Proceed(u)))
                          /\ WF_allVars(InThreads(JoinWhatIsHeld(u)))
    /\ \A t \in Callers : /\ WF_allVars(InSemaphore(Sema!SharedStep(t)))
                          /\ WF_allVars(InSemaphore(Sema!ExclusiveStep(t)))

\* The semaphore's word tells who has access, exclusive access excludes, and every
\* sleeper is owed its notification.
ControlInv == Sema!ControlInv

\* The spin in try_exclusive ends: readers leave and no new one gets in.
DrainEnds == Sema!DrainEnds

\* When callers stop arriving, every call of the semaphore under way ends.
EveryCallEnds == Sema!EveryCallEnds
=============================================================================
