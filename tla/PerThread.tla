----------------------------- MODULE PerThread -----------------------------
(***************************************************************************)
(* The PER_THREAD objects of one thread: runtime/sources/thread_runtime.qxs*)
(* and the accessor the compiler generates for such an object.  Everything *)
(* here is private to the thread, so one thread is the whole system; what  *)
(* is hard is the nesting: initializers that reach other objects,          *)
(* exceptions, destructors that reach other objects while the thread       *)
(* exits, and the exit itself, which may come from THREAD_FINISH, from the *)
(* platform's exit hook, or from both.                                     *)
(*                                                                         *)
(* `work' is the stack of initializers and deinitializers in progress.     *)
(* A PANIC ends the process: `panicked' is set and nothing happens after.  *)
(***************************************************************************)
EXTENDS Naturals, Sequences, SequencesExt

CONSTANTS Objects,
          Droppable, \* those with a nontrivial destructor
          Platforms, \* kinds of exit hook: "none" (static Linux), "once" (cleared
                     \* by disarming: glibc, Windows), "sticky" (stays: macOS)
          MaxThrows  \* bound: exceptions thrown by initializers

ASSUME ConstantTypes ==
    /\ Droppable \subseteq Objects
    /\ Platforms \subseteq {"none", "once", "sticky"}
    /\ MaxThrows \in Nat

VARIABLES guard,     \* INITGUARD of each object: 0 new, 1 running, 2 done, 3 destroyed
          lifecycle, \* "unused", "running", "draining", "finished"
          registry,  \* destructor_head and its successors
          platform,  \* the kind of exit hook of this process
          armed,     \* exit_hook_armed
          hooked,    \* the platform will call thread_exit_callback
          work,      \* stack of [of, doing], innermost last
          disabled,  \* allocator_thread_caches_disabled
          cached,    \* the thread owns allocator caches
          alive,     \* the native thread has not ended
          panicked,
          obtained,  \* history: <<o, u>> when o's initializer has obtained u
          throws     \* exceptions thrown so far

exitVars == <<platform, lifecycle, armed, hooked, alive>>
vars == <<guard, registry, work, disabled, cached, exitVars, panicked, obtained, throws>>

Frame(o, doing) == [of |-> o, doing |-> doing]

TypeOK ==
    /\ guard \in [Objects -> 0..3]
    /\ lifecycle \in {"unused", "running", "draining", "finished"}
    /\ registry \in Seq(Droppable)
    /\ work \in Seq([of : Objects, doing : {"init", "deinit"}])
    /\ {armed, hooked, disabled, cached, alive, panicked} \subseteq BOOLEAN
    /\ obtained \subseteq Objects \X Objects
    /\ throws \in 0..MaxThrows

Init ==
    /\ guard = [o \in Objects |-> 0]
    /\ platform \in Platforms
    /\ lifecycle = "unused"
    /\ registry = <<>>
    /\ armed = FALSE
    /\ hooked = FALSE
    /\ work = <<>>
    /\ disabled = FALSE
    /\ cached = FALSE
    /\ alive = TRUE
    /\ panicked = FALSE
    /\ obtained = {}
    /\ throws = 0

Doing(what) == work # <<>> /\ Last(work).doing = what

\* Between two steps of the loop in thread_finish_state.
Draining == lifecycle = "draining" /\ work = <<>>

\* Code of the program runs: the thread's own, an initializer or a destructor.
InProgram == alive /\ ~panicked /\ ~Draining

Panic == panicked' = TRUE /\ UNCHANGED <<guard, registry, work, disabled, cached,
                                         exitVars, obtained, throws>>

-----------------------------------------------------------------------------
\* thread_runtime_start with the thread's identity, before the program's code.
Start ==
    /\ InProgram
    /\ work = <<>>
    /\ lifecycle = "unused"
    /\ lifecycle' = "running"
    /\ UNCHANGED <<guard, registry, work, disabled, cached, platform, armed, hooked, alive,
                   panicked, obtained, throws>>

\* The program names o and its guard says 2: the accessor returns it.
Obtain(o) ==
    /\ InProgram
    /\ guard[o] = 2
    /\ obtained' = IF Doing("init") THEN obtained \cup {<<Last(work).of, o>>}
                   ELSE obtained
    /\ UNCHANGED <<guard, registry, work, disabled, cached, exitVars, panicked, throws>>

BeginInit(o) ==
    /\ guard' = [guard EXCEPT ![o] = 1]
    /\ work' = Append(work, Frame(o, "init"))
    /\ UNCHANGED <<registry, disabled, cached, platform, armed, hooked, alive, panicked,
                   obtained, throws>>

\* THREAD_INITGUARD_TRY_ACQUIRE on an object not initialized yet; a thread the
\* runtime has not seen before is started on the way.
AcquireWhileDraining(o) == \* mutant: the lifecycle is not tested
    /\ InProgram
    /\ guard[o] = 0
    /\ lifecycle' = IF lifecycle = "unused" THEN "running" ELSE lifecycle
    /\ BeginInit(o)

Acquire(o) ==
    /\ InProgram
    /\ guard[o] = 0
    /\ lifecycle \in {"unused", "running"}
    /\ lifecycle' = "running"
    /\ BeginInit(o)

\* Recursive initialization, access to a destroyed object, initialization
\* during or after teardown.
AccessPanics(o) ==
    /\ InProgram
    /\ guard[o] \in {1, 3} \/ (guard[o] = 0 /\ lifecycle \in {"draining", "finished"})
    /\ Panic

\* The initializer throws: its lock is aborted and the exception leaves the
\* accessor; code further out catches it or throws in turn.
ThrowFinished(o) == \* mutant: the abandoned guard is left as if it were done
    /\ Doing("init") /\ Last(work).of = o
    /\ ~panicked
    /\ throws < MaxThrows
    /\ throws' = throws + 1
    /\ guard' = [guard EXCEPT ![o] = 2]
    /\ work' = Front(work)
    /\ UNCHANGED <<registry, disabled, cached, exitVars, panicked, obtained>>

Throw(o) ==
    /\ Doing("init") /\ Last(work).of = o
    /\ ~panicked
    /\ throws < MaxThrows
    /\ throws' = throws + 1
    /\ guard' = [guard EXCEPT ![o] = 0]
    /\ work' = Front(work)
    /\ UNCHANGED <<registry, disabled, cached, exitVars, panicked, obtained>>

\* INIT returns.  THREAD_DESTRUCTOR_REGISTER puts an object with a destructor at
\* the head of the registry and arms the exit hook, while the thread is running;
\* then the guard is completed and the reference goes to the code that named the
\* object.
CompleteWith(o, newRegistry) ==
    /\ Doing("init") /\ Last(work).of = o
    /\ ~panicked
    /\ IF o \in Droppable /\ lifecycle # "running"
       THEN Panic
       ELSE /\ registry' = IF o \in Droppable THEN newRegistry ELSE registry
            /\ armed' = (armed \/ (o \in Droppable /\ platform # "none"))
            /\ hooked' = (hooked \/ (o \in Droppable /\ platform # "none"))
            /\ guard' = [guard EXCEPT ![o] = 2]
            /\ work' = Front(work)
            /\ obtained' = IF Len(work) > 1 /\ Last(work').doing = "init"
                           THEN obtained \cup {<<Last(work').of, o>>} ELSE obtained
            /\ UNCHANGED <<disabled, cached, platform, lifecycle, alive, panicked, throws>>

CompleteAppending(o) == \* mutant: the registry is drained first in, first out
    CompleteWith(o, registry \o <<o>>)

Complete(o) == CompleteWith(o, <<o>> \o registry)

-----------------------------------------------------------------------------
\* An allocation or deallocation while caching is enabled may set up caches.
Allocate ==
    /\ InProgram
    /\ ~disabled
    /\ cached' = TRUE
    /\ UNCHANGED <<guard, registry, work, disabled, exitVars, panicked, obtained, throws>>

\* thread_finish_state up to its loop.  `stillHooked' is what remains of the
\* platform's hook when the call comes; disarming clears it unless sticky.
FinishState(stillHooked) ==
    /\ IF lifecycle \in {"draining", "finished"}
       THEN hooked' = stillHooked /\ UNCHANGED <<lifecycle, armed, disabled, cached>>
       ELSE /\ disabled' = TRUE
            /\ cached' = FALSE
            /\ IF lifecycle = "unused"
               THEN /\ lifecycle' = "finished"
                    /\ hooked' = stillHooked
                    /\ UNCHANGED armed
               ELSE /\ lifecycle' = "draining"
                    /\ hooked' = (stillHooked /\ platform = "sticky")
                    /\ armed' = FALSE
    /\ UNCHANGED <<guard, registry, work, platform, alive, panicked, obtained, throws>>

\* thread_finish called by the thread's own code, or by a destructor.
Finish == InProgram /\ (work = <<>> \/ Doing("deinit")) /\ FinishState(hooked)

\* The platform calls thread_exit_callback, once, as the thread ends.
ExitHook == InProgram /\ work = <<>> /\ hooked /\ FinishState(FALSE)

DrainOne ==
    /\ Draining /\ ~panicked
    /\ registry # <<>>
    /\ registry' = Tail(registry)
    /\ work' = <<Frame(Head(registry), "deinit")>>
    /\ UNCHANGED <<guard, disabled, cached, exitVars, panicked, obtained, throws>>

DeinitReturns ==
    /\ Doing("deinit") /\ ~panicked
    /\ guard' = [guard EXCEPT ![Last(work).of] = 3]
    /\ work' = Front(work)
    /\ UNCHANGED <<registry, disabled, cached, exitVars, panicked, obtained, throws>>

DrainEnds ==
    /\ Draining /\ ~panicked
    /\ registry = <<>>
    /\ cached' = FALSE
    /\ lifecycle' = "finished"
    /\ UNCHANGED <<guard, registry, work, disabled, platform, armed, hooked, alive,
                   panicked, obtained, throws>>

\* The native thread ends.  Without a hook only threads that call thread_finish
\* exist: run_thread_entry and POST_DETECT both do.
ThreadEnds ==
    /\ InProgram /\ work = <<>>
    /\ ~hooked
    /\ platform = "none" => lifecycle = "finished"
    /\ alive' = FALSE
    /\ UNCHANGED <<guard, registry, work, disabled, cached, platform, lifecycle, armed,
                   hooked, panicked, obtained, throws>>

Next ==
    \/ Start \/ Allocate \/ Finish \/ ExitHook
    \/ DrainOne \/ DeinitReturns \/ DrainEnds \/ ThreadEnds
    \/ \E o \in Objects : \/ Obtain(o) \/ Acquire(o) \/ AccessPanics(o)
                          \/ Throw(o) \/ Complete(o)

Spec == Init /\ [][Next]_vars

-----------------------------------------------------------------------------
\* The object whose destructor the drain loop is running.
Dying == IF Doing("deinit") THEN <<Last(work).of>> ELSE <<>>

\* A living object with a destructor waits in the registry, once, or is being
\* destroyed; nothing else is there.
RegistryIsExact ==
    /\ \A i, j \in DOMAIN registry : registry[i] = registry[j] => i = j
    /\ {o \in Droppable : guard[o] = 2} = Range(registry) \cup Range(Dying)
    /\ Range(registry) \cap Range(Dying) = {}

Promise == INSTANCE Lifetimes WITH
              live <- Reverse(Dying \o registry),
              dead <- {o \in Droppable : guard[o] = 3},
              exiting <- lifecycle \in {"draining", "finished"}

\* Objects are destroyed once, in reverse order of completion, and none is born
\* once the thread exits.
KeepsPromise == Promise!Spec

\* What an object's initializer obtained outlives the object, its destructor
\* included: a destructor that names nothing else cannot panic.
UsedOutlivesUser ==
    \A p \in obtained : guard[p[1]] = 2 /\ p[1] \in Droppable => guard[p[2]] # 3

\* A thread that has ended has destroyed its objects, whether it called
\* thread_finish, left it to the platform's hook, or both.
NothingOutlivesThread ==
    ~alive => \A o \in Droppable : guard[o] \in {0, 3}

\* Destructors free memory after the thread's allocator caches were returned;
\* no cache comes back to life in their course or later.
CachesStayReturned == lifecycle \in {"draining", "finished"} => ~cached
\* What the thread runtime knows of the thread's objects and caches is exact
\* until the thread's end, nothing is left then, and no object is destroyed
\* before one that was initialized with it.
ObjectsInv == /\ TypeOK /\ RegistryIsExact /\ NothingOutlivesThread /\ CachesStayReturned
              /\ UsedOutlivesUser
=============================================================================
