# Quxlang, verified: the runtime and the lifetimes of values in TLA+

Quxlang is a programming language with its own cross compiler, `qxc`, its own
run-time library and its own standard library. This directory models the parts of
it in which order matters, checks the models with TLC and proves theorems about ten
of them with TLAPS.

The repository has two halves:

* **the compiler** in C++, `quxlang/include` and `quxlang/sources`: parsers,
  semantic queries, the VMIR generator and its state engine, constant evaluation,
  LLVM and JVM back ends, linkers. A run of it is a deterministic function of the
  program compiled; its scheduler of memoised queries is an external submodule that
  is not in the tree;
* **the language's own modules** in Quxlang, under
  `quxlang/tests/testdata/testbundle/modules`: `runtime/sources` (allocator, global
  and per-thread objects, static Linux threads, exceptions) and `std/sources`
  (mutexes, threads, shared pointers, queues, asynchronous files, containers). All
  concurrency is here, in hand-written lock-free and futex code for five platforms.

The second half comes first in this project, because it is where tests say least.
Of the first half, one question is modelled from the statement to the execution:
which objects are destroyed, when, and how often, whichever way control goes.
File names without a directory below are those of `runtime/sources` (R),
`std/sources` (S), and `include/quxlang` and `sources` of the compiler (C).

## 1. Inventory

### Modelled

**Futex mutex** (R `memory.qxs` 57-160, `mutex`; S `synchronization.qxs` `thin_mutex`).
State: one 32-bit word, 0 free, 1 owned, 2 owned and contended. Operations: `lock`,
`try_lock`, `unlock`. It serialises the allocator, every condition variable and all
of `std`. Hard: barging threads, a wake-up between a load and a wait, a thread that
acquires without knowing whether others sleep. Correct if at most one thread owns
it, a sleeper is always owed a wake-up, and somebody gets in.

**Initialization guards** (R `initguard.qxs` and the accessor generated by
`co_vmir_generator2.hpp`). State: one word per guarded global, 0 idle, 1 running, 2
done. Operations: acquire, complete, abort, and the accessor around them. Hard:
initializers reach other globals and throw; waiters sleep on the word. Correct if
each global is built by one thread at a time and at most once with success, and
nobody who waits is forgotten.

**Region semaphore** (R `allocation_regions.qxs` 12-93, `layer3_region_control`).
State: reader count and two flags in one 32-bit word. Operations: shared and
exclusive access, waiting for shared. Hard: the claimant shuts readers out before
they have left; a request bit set between the claimant's load and its release.
Correct if exclusive access excludes, the count is exact, requests are answered.

**Condition variable, pointer queue, semaphore** (S `synchronization.qxs` 421-537, S
`synchronized_pointer_queue.qxs`). State: a notification sequence and a number of
waiters; a ring of pointers; a number of permits. The queue waits on two conditions under
one mutex and notifies before it unlocks, the semaphore waits on one and notifies
afterwards. Hard: notifications are skipped when nobody is registered, wake-ups are taken
by threads that find nothing, permits by threads that were not woken for them. Correct
if the queue is a bounded FIFO and nobody sleeps beside what he waits for.

**Per-thread objects** (R `thread_runtime.qxs`, R `runtime.qxs`, generated accessors).
State: a guard per object, the registry of destructors, the lifecycle of the thread,
the platform's exit hook, the thread's allocator caches. Operations: access, register,
finish, exit hook. Hard: nesting of initializers, exceptions and destructors, two
ways to exit. Correct if every finished object is destroyed exactly once, in
reverse order, and nothing is set up behind the drain.

**Shared pointers** (S `shared_ptr.qxs`). State: a control block with a strong and a
weak count. Operations: copy, move, lock, reset, destruction. Hard: a lock racing with
the last release; an object whose destructor resets weak pointers to itself. Correct
if object and block live exactly as long as they are needed, and no longer.

**Transfer queue** (R `layer2_ring.qxs`, R `layer2_growing.qxs`). State: published
generations of rings with sequence-numbered cells. Operations: `try_push` (which may
publish a larger generation) and `try_pop`. Hard: a claimed cell is filled later,
words wrap, two threads grow at once, mapping fails. Correct if each ring is a FIFO, a
node is in one place, and "full" and "empty" were true during the call.

**Threads** (S `thread.qxs`, R `static_linux_thread.qxs` 408-531, R `thread_runtime.qxs`).
State: control block, entry object, mapped stack and TLS block, the `child_tid` word
the kernel clears, handles that move between threads. Operations: construct, run,
move, join, destroy. Hard: who frees the stack a thread runs on; partial failure of
creation; a handle that travels into its own thread. Correct if memory outlives the
thread, nothing is left behind, and joins return.

**Asynchronous files** (S `async_io.qxs`, S `async_io_linux.qxs`). State: the number
of outstanding transfers, the drain mutex and condition, the kernel's ring, a pool of
workers and its stop notifications. Operations: start a transfer, reap a completion
and run its callback, create, join and replace pools, destroy the context. Hard:
callbacks start transfers, submissions are refused, a join is interrupted. Correct if
the count is exact, a joined context is quiet, joins return, transfers complete.

**Allocator, regions** (R `allocation_regions.qxs`, layers 3 and 4). State: a class's three
lists of controls with bitmaps over slab regions (`layer3_region_class`: refill, return,
retire); the pool of free regions and the reference-counted extents of mapped memory
(`layer4_region_pool`). Hard: regions fill, empty, retire and are attached again while
others claim and return without the class mutex; extents are mapped outside the
lock. Correct if no slot or region is given out twice or lost, and nothing mapped is
forgotten or unmapped in use.

**Allocator, plates and caches** (R `memory.qxs`, `layer2_shards.qxs`,
`allocator_budget.qxs`, layers 0 to 2). State: a thread's active and secondary plate of
free blocks; the stores of full and partial plates of each transfer home; the store
of empty plates and the mappings these live in; a payload credit per home. Operations:
allocate and return a block, with or without caches, by any thread; hand the caches
back. Hard: blocks are freed by threads that did not allocate them, stores refuse,
plates and memory run out halfway, caches end before their thread's last call.
Correct if every block, plate and credit is in exactly one place.

**Slot lifetimes** (C `vmir2/state_engine.hpp`). State of a routine's slots: dead,
partial or full, delegates of an object under construction, deferred destructors.
Operations: what an instruction does to the slots it names, the plan of an edge, a
return or an exception. Correct if the plan destroys what ends there and nothing else.

**Generator** (C `co_vmir_generator2.hpp`). State: the routine made so far, lexical
catcher and catch region, targets of BREAK, CONTINUE and GOTO. Operations: lowering of
statements, of constructors, copies, moves and destructors. Hard: nothing is written
down about what a path destroys; it follows from the place in the program at which a
block is forked. Correct if the engine's plans for its blocks do what the program owes.

**Execution and exceptions** (C `ir2_constexpr_interpreter.cpp`, `llvm-backend.cpp`,
R `exception.qxs`). State: frames and objects; the interpreter's plan of the transition
under way; reference-counted exceptions, the one an active handler borrows. Hard: a
destructor called by a transition runs a routine of its own; constructors fail halfway
through objects and arrays; interpreter and compiled code plan at different times.
Correct if both executors destroy every object exactly once, in reverse order of
completion, and an exception lives as long as something refers to it.

### How they interact

    thread.qxs ── runs ──> entry ── on exit ──> thread_finish (per-thread objects)
        │ join (child_tid)                         │ hands back the caches
    async_io: pool of threads                      v
        │ drain mutex + condition              allocator: layer 0 caches
        v                                          v
    condition_variable ── mutex ──> futex      layers 1, 2: plates, transfer queue
        ^                             ^            v
    pointer queue        init guards ─┘        layer 3: regions <── region semaphore
                                                   v
    shared_ptr ── NEW / DELETE ──> allocator   layer 4: extents ──> mmap

Calls go downward; the only callbacks upward are a worker's completion callbacks and
the destructors of per-thread objects. Shared state is atomics and what a mutex
protects; there are no messages between processes and nothing is persisted.

    statements ──> generator ──> routines: blocks, edges, catchers
                       │              │  interpreter (constant expressions)
                       v              v
                   state engine <── executors ──> exception frames
                                      │  LLVM back end (cleanups planned at compile time)

The generator, the interpreter and the back ends share nothing at run time but the
routine and the state engine, with which each computes for itself what is alive.

### Not modelled

`PROJECT.json` lists every component with its reason. In short:

* of the allocator, the first creation of a store and of the bank of regions
  (double-checked under a mutex), the detection of memory and shards, the routing by
  size, and the allocator of large blocks, which maps pages directly;
* the Windows and macOS asynchronous queues and the sequential containers, which are
  planned (section 7);
* of the generator, expressions beyond six representative forms, lambdas, fusions and
  MATCH; of constant evaluation, arithmetic and pointers, which are functions on data;
  of the LLVM back end, everything that translates an instruction into another;
* parsers, type layout, overload ranking, linkers, DWARF, the JVM back end: text,
  bytes and syntax-directed translation without a state that steps could disagree
  about. They are most of the repository's lines, and character by character they
  are out of a model checker's reach;
* the query scheduler, which is not in the tree.

## 2. The modules

| Module | Code | Abstract specification |
|---|---|---|
| `UnfairMutex` | `mutex`, `thin_mutex` | `AbstractMutex` |
| `InitGuard` | `INITGUARD_*`, global accessor | `OnceCell` |
| `RegionControl` | `layer3_region_control` | |
| `ConditionVariable`, `PointerQueue` | `condition_variable`, `synchronized_pointer_queue` | `BoundedQueue` |
| `Semaphore` | `semaphore` on `ConditionVariable` | |
| `PerThread` | `thread_runtime.qxs`, per-thread accessor | `Lifetimes` |
| `StrongPtr` | `strong_ptr`, `weak_ptr` | |
| `TransferQueue` | `layer2_ring_generation`, `layer2_growing_queue` | `BoundedQueue` per generation |
| `ThreadLifecycle` | `thread`, static Linux waits | |
| `AsyncContext` | `async_context`, `async_file`, `thread_pool`, io_uring | |
| `RegionClass` | `layer3_region_class` | |
| `RegionBacking` | `layer4_region_pool` | `RegionSource` |
| `SlabAllocator` | `slab_allocator`, plate stores, payload credits | |
| `SlotLifetimes` | `vmir2/state_engine.hpp` | |
| `VmirRoutines`, `VmirLowering` | what generator and executors share; blocks, edges, calls | |
| `ConstructionLowering` | generated constructors, copies, moves, destructors | |
| `StatementLowering` | statements of a body, TRY and its handlers | |
| `VmirExecution` | interpreter, cleanups of the LLVM back end, exceptions | `SlotLifetimes` (`StagesAgree`) |

`Futex` holds the two facts about the system's wait on an address that several
modules share. The proofs are in `LockProofs` (mutex and initialization guard),
`KernelWaitProofs` (threads, region semaphore), `ConditionsProofs` (queue and
semaphore), `PerThreadProofs` (objects of a thread, transfer queue),
`ReferenceCountsProofs` (shared pointers and region backing), `SlabProofs` (slab
allocator), `RegionClassProofs` and `AsyncContextProofs`. An `MC` module gives a
specification its instance; its `.cfg` names every bound. `MCConditions`,
`MCThreadMemory`, `MCReferenceCounts`, `MCKernelWaits` and `MCLocks` check two or three
specifications in one run each: the variable `part` says which of them moves while the
others keep their initial state, so the states are those of one specification after the
other.
`MCVmirPrograms` holds the small programs that the VMIR modules lower and run.

All models follow one convention. `at[t]` says before which instruction or system
call thread `t` stands in the call it is executing (`"out"` in none), so a step is
one atomic access and what surrounds it privately; the functions beside it are the
call's local variables. Where the code holds a mutex of its own for a whole section,
the section is one step, because the mutex is what `UnfairMutex` shows it to be.
Memory is sequentially consistent. The code mostly orders its accesses with acquire
and release, the positions of the rings are relaxed; what weaker orders add is
outside these models.

Correspondence, where it is not name for name:

* **UnfairMutex.** `lock` is `TryLock` or `LockContended`, then `MarkContended`
  (CAS 1 to 2), `Load`, `Retake` (CAS 0 to 2), `Sleep`. `unlock` is
  `UnlockUncontended`, or `UnlockContended`, `StoreUnlocked`, `Wake`. The system may
  wake a sleeper for no reason (`WakeSpuriously`, as documented for futexes).
* **InitGuard.** A thread keeps a stack of accesses because an initializer accesses
  other globals; `Uses` says which, and is acyclic (`UsesIsAcyclic`): an initializer
  that reaches its own global waits for ever, as the code does.
* **RegionControl.** The word is a record of the two flags and the count.
  `seen` is the code's `observed`. `Cas` fails when the word is no longer `seen`.
* **ConditionVariable** is the part of a client's steps inside `wait`, `notify_one`
  and `notify_all`; `PointerQueue` and `Semaphore` extend it. Sequence numbers are natural numbers: the
  code's 32-bit ones deceive a waiter only after 2^32 notifications between its load
  and its wait.
* **PerThread.** What a thread does to its own objects is private to it, so one
  thread is the whole system. `work` is the stack of initializers and deinitializers
  in progress, and `platform` the kind of exit hook: none (static Linux), one that
  disarming clears (glibc, Windows), or one that stays (macOS).
* **StrongPtr.** The processes are pointer variables, whichever thread works on them.
  A pointer that is being copied from is not changed meanwhile (it is passed as a
  constant reference), its siblings are. Pointers in `Inside` live in the object.
* **TransferQueue.** `W` is the number of values of a word and `Start` where it
  starts. The code has 2^64 and 0; the instance starts below `W` so that words
  wrap. Differences are compared as unsigned halves, as in the code.
* **ThreadLifecycle.** `holder[t]` is the thread that holds the handle of `t`.
  Handles in a circle longer than one are excluded (`WaitInCircle`): the destructors
  then wait for each other for ever, in the code as well.
* **AsyncContext.** `work[t]` is the stack of transfers a thread is starting or
  completing; a refused submission is completed inside the callback that made it.
  The kernel consumes a submission before the ring's mutex is released.
* **RegionClass.** Sections under the class mutex are one step, scans and claims of
  bitmap words are one step per word, a word has one slot. The semaphore is what
  `RegionControl` shows, layer 4 gives any free region or none, which is what
  `RegionBacking` is shown to implement (`RegionSource`).
* **RegionBacking.** An extent stands for its address, which the system may map
  again after it was unmapped. The code's promotion to larger extents is kept with
  its two sizes, `Span` the larger one and `Promotion` the count that brings it.
* **SlabAllocator.** A call is `todo[t]`, the list of steps it has yet to do, first
  things first: what the code's call stack holds at that point. A step is one
  operation on what threads share. A block is named by its home, because blocks of one
  home behave alike, and a store's queue is a bag of plates: which of them comes out
  first is the subject of `TransferQueue`. `used` of a plate is meaningful when the code sets it, which it
  does before it reads it; the active plate is counted by `cursor`.
* **SlotLifetimes** has no state of its own: its operators take the state of a
  routine's slots and give the next, as the engine's functions do. A definition
  returns `ok`, FALSE where the code throws a compiler bug.
* **VmirLowering, ConstructionLowering, StatementLowering** are functions as well:
  `Compiled(f)` is the routine that the generator makes of a function, a constructor or a
  destructor, evaluated once. A statement starts in block `g.at` and leaves `g` at
  the block that follows.
* **VmirExecution** steps through that routine. One action is one kind of instruction,
  an edge, a return, or a step of propagation. `executor` says who plans: the
  interpreter asks the engine again after every destructor it has called, with the stages
  its objects have; the back end's code follows the plan made from the routine's
  flow (`NativeState`). `live` and `twice` are history variables: the objects whose
  destructor is owed, in order of completion, and whether one ended a second time.

The operators commented `mutant` are the code with one plausible bug each. No
specification uses them; they are what a property must notice.

## 3. What is checked

Each run is one `MC` module with one `.cfg`. Bounds are constants of the modules and
are named in the guards they stand in.

**locks** (`MCLocks`), two parts. *Mutex* (`UnfairMutex`): four threads, nothing bounded.
`MutualExclusion`;
`NoLostWakeup`: while someone sleeps, the word says contended, or somebody awake is
on the way to mark it, to take it marked, or to wake a sleeper; `SomeoneGetsIn`: if threads wait, one
of them or a newcomer gets the mutex, again and again (the mutex is unfair, so not
"each"); `MutexKeepsPromise`: it implements `AbstractMutex`, the atomic lock that the
other models use. Two waiters beside an owner and a newcomer is where marks and
wake-ups are lost, hence four. *Guards* (`InitGuard`): three threads, two globals of which one initializer
uses the other, two exceptions. `GuardInv`: one initializer per global, and a
sleeper's guard is running or about to be announced; `EveryAccessEnds`: also under
exceptions, which wake all waiters to try again; `KeepsPromise`: `OnceCell`, a global
goes from absent to under construction to ready and stays ready.

**conditions** (`MCConditions`), two parts of three threads. *Queue* (`PointerQueue`):
capacity two, four pushes, so that the ring fills, empties and wraps and both conditions
have sleepers at once. *Permits* (`Semaphore`): one permit and three releases of one or
two more, so that two sleepers wait for a batch, notifications overtake each other, and
the ASSERT against overflow fails (a `SZ` of three permits). `SleepersSpokenFor`:
waiters are counted, vacated entries null (null is among the values pushed), and every
entry, free slot and permit that somebody sleeps for is spoken for by a thread on its
way; `IsBoundedFIFO`;
`NobodyStaysStranded`: a sleeper with an entry, a free slot or a permit beside it does
not stay so, provided spurious wake-ups do not go on for ever.

**thread_memory** (`MCThreadMemory`), two parts. *Objects* (`PerThread`): four objects,
three with destructors, initializers nested three deep, one exception, the three kinds
of exit hook. `ObjectsInv`: the registry holds exactly the finished objects, in
order; an ended thread has none; no cache is set up again after the hand-back; an
object reached by an initializer is there until the object initialized has been
destroyed. `KeepsPromise`: `Lifetimes`, the destructors run once each, last in, first
out. *Queue* (`TransferQueue`): two threads, three nodes, generations of two and four
cells, words that wrap after two positions, five pushes, failing mappings.
`QueueTellsTruth`: a cell is filled or emptied by one thread at a time, a node is in one
place, and an answer "empty" or "full" of a ring holds at the moment of the load it
rests on; `GenerationsAreFIFO`: each generation implements `BoundedQueue`. The order
across generations is not promised by the code.

**reference_counts** (`MCReferenceCounts`), three parts. *Pointers* (`StrongPtr`): three
strong pointers, a weak one, and a weak one inside the object, with symmetry:
a copier, a locker and the last owner at once. `CountsExact`, `OwnersKeepObject`,
`FreedWhenUnused` (the control block is freed exactly when nothing uses it any more),
and the action property `NoResurrection`: when the last owner has left, no lock brings
one back. *Regions* (`RegionBacking`): three threads, three extents of one or two regions, a
pool of one, five calls; `RegionsStayMapped`: `RegionSource`, which gives out regions
that are nobody else's and mapped. *Blocks* (`SlabAllocator`): two threads, six blocks of
two homes, plates of two, a budget of one plate for each home, stores of one plate, two
mappings of three plates, so that stores refuse, budgets end and plates and memory run
out; four calls that leave the thread's own plates, the last one beside another.
`AllocatorExact`: of regions, an extent's inventory is reachable, the count of issued
regions exact and an extent mapped exactly as long as it is referred to; of blocks, every
plate and block is in exactly one place, counts and homes tell the truth, no cache is set
up after the hand-back, and each home's credit is what its plates hold and what a
thread has reserved or not yet repaid, never above the budget. Two cases need plates of
four and are not reached: a partial plate that keeps something after it was merged into
another and is stored again, and a half-filled plate whose refill fails; the proof
(section 5) is for plates of any even capacity and has both. A store's
queue refuses only when it is full; a refusal that another thread's growth causes is
the subject of *queue* above.

**kernel_waits** (`MCKernelWaits`), two parts that sleep on words of their own.
*Threads* (`ThreadLifecycle`): main and two threads on both kinds of platform, each
creating, holding, handing over and joining others; creation fails.
`HandleInv`: what a worker reads was published, a handle is held by a living thread,
control, stack and TLS block are freed only when their thread has left them, and a thread
that is gone and joined, or was never created, leaves nothing allocated; `MainEndsLast`:
main ends after every thread it leads to; `EveryJoinReturns`. *Semaphore of a region*
(`RegionControl`): three threads, a count that saturates at
two, so that all of "full", "claimed with readers inside" and "request in between"
occur. `ControlInv`: the word says who is inside and who has claimed, exclusive access
excludes, and a sleeper is owed a notice; `DrainEnds`: a claimant gets its access once the readers inside
leave, even if others keep arriving; `EveryCallEnds`, if arrivals stop: the code
loops while others change the word, so nothing more can be promised.

**async_context** (`MCAsyncContext`): a client, two workers, two request objects,
three transfers, two pools, one refused submission, one refused stop notification.
`ContextInv`: the count of outstanding transfers is exact, one thread holds each, and
a joined or destroyed context has no transfer, callback or thread in it;
`JoinReturns` and `PoolServes`, both unless a stop notification was refused: see the
findings.

**async_stale_stop** (`MCAsyncContextStale`) refutes `PoolKeepsWorkers`: a worker of
an attached pool has not exited. See section 6.

**region_class** (`MCRegionClass`): two threads, two controls, two regions of two
slots, four calls. `ClassInv`: slots claimed or given out are in attached regions,
every region is free, attached or in one hand, the lists hold the controls their
names say, and the set bits are exactly the slots in plates and with the program, each
in one place; `FreeSlotsAreFound`: a control on the issued list has no free slot,
unless a return is about to put it back; `CallsEnd`.

**vmir** (`MCVmirExecution`): eleven programs, run by the interpreter and by the back
end's code. They construct structs with virtual bases, bases and fields, copy and move
them, fill arrays in a loop, return values out of nested scopes, leave
loops and TRY blocks by BREAK, CONTINUE, GOTO, RETURN and exceptions, rethrow inside
handlers, defer calls, and throw out of a NOEXCEPT function; in every run up to two
constructions or allocations fail, wherever it can happen.

* `Consistent`: the compiler never contradicts itself, and no instruction meets a slot in
  a stage it does not accept.
* `StagesAgree`: whichever way control came, the objects are in the stages that the
  engine computed for their slots at compile time.
* `EveryObjectEndsOnce`: none is destroyed twice, none is forgotten, also when
  something throws halfway.
* `CleanupReversesCompletion`: a cleanup destroys in reverse order of completion.
* `PlansAgree`: interpreter and compiled code owe the same destructors on every edge.
* `PrefixExact`: an array under construction counts exactly its living elements.
* `ExceptionsCounted`, `BorrowedExceptionsLive`: an exception lives as long as pointers
  and propagation refer to it, and CURRENT_EXCEPTION never outlives what it borrows.

Bounds: two exceptions at once, which rethrowing inside a handler needs, and 70 slots,
more than the longest routine has. In these programs the constructor of an exception's
value does not throw, destructors do not either (one that would, terminates), bodies of
constructors have no locals with destructors, and fields of record literals are
constructed without exceptions: see the next run.

**vmir_literal** (`MCVmirExecution`, `MCVmirLiteral.cfg`) refutes `EveryObjectEndsOnce`
for a record literal whose second field throws. See section 6.

Every property is also checked to be able to fail: for each, `PROJECT.json` names a
definition and its mutated form under which TLC refutes it.

## 4. Fairness

Safety is checked under no fairness. Liveness assumes only that threads run:

* Weak fairness of each thread's own steps is what any preemptive scheduler gives.
  In `UnfairMutex`, `PointerQueue`, `Semaphore`, `RegionControl` and `RegionClass` it extends to
  leaving the critical sections and shared sections modelled, none of which waits
  for the program. Steps by which the program decides to begin a call, spurious
  wake-ups and failures of the system are never fair.
* Taking a mutex in `PointerQueue` and `Semaphore` is weakly fair for the threads together, since
  `SomeoneGetsIn` is all that the mutex promises. `AsyncContext` assumes strong
  fairness of each thread's steps, that is, that a thread which finds a mutex free
  again and again gets it some time: the code's mutexes barge, so its `JoinReturns`
  and `PoolServes` hold up to such starvation, which real schedules do not keep up.
* In `AsyncContext` the kernel completes every transfer it accepted; in
  `ThreadLifecycle` the kernel clears `child_tid` of a thread that exited, and the
  destructors of an ending thread are run to their end.

## 5. What is proved

**LockProofs**, the mutex for any set of threads. `MutexTypeCorrect`; `MutualExclusionHolds`
and `WordMatchesOwnerHolds` from their conjunction `Exclusion`, which is inductive
over `TypeOK`: exclusion alone is not, because a thread may take a free word only if
"the word is 0 exactly when nobody owns" is known too. `NoLostWakeupHolds`: the
property is inductive over `TypeOK` and `Exclusion`. `MutexImplements`: with `owner`
mapped to the thread in its section, each of the twelve actions is `Ask`,
`Acquire`, `AcquireAtOnce`, `Release` or a stutter of `AbstractMutex`.

**ReferenceCountsProofs**, first half: `StrongPtr` for any finite sets of strong and weak
pointers. The inductive
invariant `IInv` joins to the type invariant

* `Provenance`: a pointer being read owns and is not changed,
* `CountsExact`: each count is the number of its holders, the strong pointers
  together holding one of the weak count,
* `LastIsAlone`: one thread at most is past the last strong release, and then nobody
  owns,
* `ObjectTold` and `BlockTold`: object and block exist exactly while somebody is
  there to destroy them.

From it follow `CountsAreExact`, `ObjectIsKept`, `BlockIsFreedWhenUnused`,
`AssertionsNeverFail` (the code's ASSERTs) and the action property
`NothingIsResurrected`. Counting needs the cardinality of sets that grow and shrink
by one, which the lemmas `Counting` and `CountedHolders` isolate; each action then
moves one pointer between such sets.

**LockProofs**, the guards for any sets of threads and globals and any acyclic uses.
`GuardTold`: `GuardInv` is inductive as it stands. Its middle part, one initializer per
running guard, is a statement about the stacks of accesses; `NoBuildChanges`,
`BuildBegins` and `BuildEnds` say the three things a step can do to the builds in
progress, and each action is shown to be one of them before the invariant is looked
at. `GuardsKeepPromise`: with the builder of a global mapped to the thread that
has its initializer on its stack, every step is a step of `OnceCell` or a stutter.
`PartsAreLocks` carries all of it over to the program of the run (`LocksTold`).

**KernelWaitProofs**, second half: the semaphore of a region, for any finite set of threads
and any limit on readers.
`ControlTold`: `ControlInv` needs `SeenTells` beside it, which says what a call knows of
the word it observed: the compare-and-swap succeeds only on that word, and what the
loop conditions established of it is all that keeps a reader from entering a claimed
semaphore. The count of readers is a cardinality; `ReaderEnters`, `ReaderLeaves` and
`NoReaderMoves` are the three things a step does to it. `ClaimShutsReadersOut`, an
action property: from the claim to its release no reader enters.

First half: threads, for any set of them on both kinds of platform.
`HandleTold`: `HandleInv` follows from an invariant in six parts: `TypesKnown`;
`CallsKnown`, only a running thread is in a call; `ConstructionKnown`, what is under
construction is unborn and constructed by one thread, without which a failed
construction might free another's block; `JoinKnown`, a joiner holds the handle and
past its wait the thread has left its memory; `ThreadKnown`, what follows of a thread's
memory from how far it has come; `MainKnown`, main has no handle and owns nothing
here. The invariant is proved part by part over all actions, because each action
disturbs few of them.

`MainOutlivesThreads`: `MainEndsLast` needs one part more, `NoCircle`: no threads but one
that holds its own handle hold each other's handles in a circle. The model excludes
such circles (section 2, ThreadLifecycle); the proof shows that the only ways for handles
to change hands keep them out. Without a circle there would be a holder that nobody
holds but main, and main has joined what it held before it ends. `PartsAreAlone` carries
both over to the program of the run.

**ConditionsProofs**, the pointer queue for any finite set of threads, any pointers with
null among them and any capacity of at least one. `QueueTold`: `QueueInv` becomes
inductive with three parts. `CallsKnown` says what a call in progress is about and that a
waiter has loaded no later sequence number than the current one. `MutexHeld`: the threads
that look at the ring are the owner of the mutex, one at a time. `FreshFoundNone` is the
heart of the protocol: a waiter that would still sleep, because nobody has notified
since it loaded the sequence, finds as little in the ring as when it looked. It holds
because the waiter loads the sequence before it gives up the mutex and because the
queue notifies before it does; that the counter of waiters is raised before, too, is what
lets a notification find the sleepers. `QueueIsFIFO`: the occupied part of the ring,
read from its head, is the abstract queue; a push appends to it (`RingGrows`), a
pop takes its first element (`RingShrinks`), whatever the head wraps to, and no other step
changes it.

The semaphore, for any initial count and any numbers of permits released at once, in the
second half of the module. `PermitsAreSpokenFor`: its invariant is like the queue's but
for `FreshAreTold`. The semaphore notifies after it has released the mutex, so a waiter
that would still sleep may find permits by now: they belong to releases that have
not notified yet. When it falls asleep it therefore meets `PermitsSpokenFor`. Awake
threads are counted by cardinalities of places; `OneMoves` and `MoreStand` say what a step
does to such a count. `SleepersAreSpokenFor` and `QueueStaysFIFO` put the two together
for the program of the run.

**ReferenceCountsProofs**, second half: `RegionBacking` for any finite sets of threads and
extents, any pool limit and both sizes of extents. `BooksAreTrue`: the exact counts are
not inductive. They become so with `CallsKnown`, what a thread knows of the extent in its
hands: above all that a *surplus* extent, mapped while another thread installed one, has
a single reference and its whole inventory; `EachInOnePlace`, a region in use is out, in
one hand or once in the pool; `IssuedInOrder`, an extent issues its regions from the
front, so that the next one is nobody's; `ReferencesBounded`, an extent has at most a
reference for each region issued and one for its inventory, which bounds the counter
from above; and `InventoryKnown`, an inventory that is not exhausted belongs to the
active extent or to a surplus one. With exact references, `WhoRefers` reads off the
count what the code reads off it: the thread that drops the last reference is alone with
the extent and may unmap it outside the lock. `RegionsStayMappedHolds`: each step is a
step of `RegionSource` or a stutter, with the regions of mapped extents for `mapped`.

`AllocatorIsExact` joins these books to those of SlabProofs for the program of the run.

**SlabProofs**, for any finite set of threads, any numbers of blocks, mappings and homes,
any budget, queues of any length and plates of any even capacity. `SlabStaysExact`:
`SlabInv` counts sets of plates, blocks and steps, and says nothing of what a thread in the
middle of a call is going to do with what it holds. The inductive invariant `SlabKnown` has
two halves. `Shape` is what a thread keeps and owes: `Keeps`, its two plates come and go
together, the cursor counts the active one and the secondary one is empty, half full or
full; and its call's `todo` is a list of *errands*, which only get rid of a plate or of a
credit, followed by one of the few continuations of `AfterErrands`, each with what it
needs to find (to install a full plate both own plates must be empty, to make room the
active one must be full). Errands may push errands, so an invariant that
named every list would not end; that they are all of one kind is what makes the list's
length irrelevant. `Books` restates `SlabInv` as sums: an *account* (the plates of a
mapping, the blocks in plates, the blocks calls return, the credit of a home) gives
every plate in a hand, every step to be done and every plate in a store a worth,
and `Owned` of the account, their sum, is what the counters say. A sum is the cardinality
of weights laid side by side (`SumOf`), since the prover cannot unfold a fold; the lemmas
on sums say what putting one element in or taking it out does. Then every action needs
only its *exchange* (`BooksMove`): what it changes in one thread's hands and list, in one
queue and in the counters adds up to nothing in every account, and the thread's new list
is again errands and a continuation. The last section goes back from sums to the sets
that `SlabInv` counts.

**RegionClassProofs**, for any finite set of threads, any regions and controls and any
number of slots. `SlotsAndRegionsAccounted` and `FreeSlotsStayFound` rest on `AccessKnown`
(the semaphores say who is inside and who has claimed, and an access claimed and drained
excludes the readers), `CallsKnown` (what a thread knows of its control and region at
each place, above all that a region read under shared access stays attached),
`SlotsAccounted` and `OwnedSlotsAttached` (a set bit has one owner, a slot of no attached
region has none), `RegionsApart` (a region is attached to one control, in one hand or
in layer 4), `ListsKnown` (a control is once on the list that its region and its flag
say) and `FreeSlotsAreFound` itself, which is inductive only together with them. The lists
are sequences; what taking a control out of one or appending it does to them is
stated position by position in the lemmas before.

**PerThreadProofs**, for any objects, however initializers, destructors, exceptions and
exits are nested, and the three kinds of exit hook. `ObjectsAreKept`: `ObjectsInv` needs
`WorkKnown`, which says of the stack of initializers and deinitializers that each object
whose guard is held is on it once, and that a destructor run by the exit is on it alone;
`LifeKnown`, how far the thread has come; `RegistryIsExact`, the registry holds the
finished objects, each once; and `BeforeItsSources`, an object in the registry comes
before what its initializer obtained. It does, because it enters at the front only when it
is complete, after all that, and so the drain, from the front, destroys it first. `ObjectsKeepPromise`: with
the living objects mapped to the registry, the one being destroyed first, every step is a
birth, a destruction, the exit or a stutter of `Lifetimes`.

The transfer queue, in the second half of the module, for any finite set of threads, any
nodes, any number of generations and any width of the sequence words. `QueueIsTruthful`
and `QueueIsFirstInFirstOut`: everything is said of *distances*, how far a word is from
the first position of its ring. The bound on pushes keeps distances below half of
what a word holds, so the sign of the difference that the code computes tells which of
two positions is further (`PushCompares`, `PopCompares`): this is the only place where the
wrap matters. The invariant `QueueIInv` has five parts. `QueueTypes`. `RingKnown`: the
positions claimed and not popped are those between the two counters, at most a
capacity of them, and the sequence word of a cell (`Turn`) says whether the push or the
pop of the last position that used the cell has finished. `CallKnown`: what a thread still
knows of the ring after its load; above all, a compare-and-swap that succeeds on an
unchanged counter meets a cell whose turn is as it was when the thread looked, although the
cell and the counter are read at different moments. `ClaimsHeld`: a position that is claimed
and not finished is worked on by exactly one thread, from which `CellHeldOnce` and both
refusals follow. `NodesKnown`: there is exactly one of the `Spots` (a thread that owns it, a
call, a position of a generation) where a node is; `NodeTakenUp`, `NodePutDown`,
`NodeGoesIn` and `NodeComesOut` say what the steps do to it, and the three cardinalities of
`NodeOnce` follow at the end. For the order, each step is shown to keep every ring, to put
one node at the end of one, or to take the first from one (`Moves`).

**AsyncContextProofs**, for any workers, any finite set of requests and any bounds.
`ContextStaysSound`: `ContextInv` follows from an invariant that counts sets of requests,
not frames. `RequestsApart`, a request is in one frame, in the kernel or once on the ring,
turns the one into the other (`CountedIsHeld`, a bijection) and lets each step be seen as
what it does to one request: `FrameStepCounts`, `LeaveCounts`, `FrameCounts` and
`RingCounts` say it for every set of places at once, and both counts follow
(`CountsFollow`). `ReaderKnown`: the completion a thread has copied is still the first on
the ring when it takes it off, since it holds the ring's mutex from before the kernel is
asked. `ThreadsKnown` ties stacks to loops and pools. `StackKnown` carries the argument
that a join which has seen the count at zero may stop its workers: a request that
is not counted yet would be counted later, but it is started by the client, which is in
join, or on top of a callback, whose own request is still counted.

The only assumptions are the `ASSUME`s of the modules: that `None` is not a thread, an
extent, a region or a plate, that pointers form finite disjoint sets, that threads and extents are
finite where they are counted, that requests are finitely many, that uses of globals are acyclic, that a release adds at least one permit, that capacities are at least one, those of plates even, and larger
extents larger, that the transfer queue's capacities divide the number of values of a sequence word
and that its pushes do not exhaust half of them, and that bounds are natural numbers. `UnfairMutex`, `Semaphore`, `TransferQueue`, `SlabAllocator`, `RegionControl` and
`RegionBacking`, which the `MC` modules instantiate, state theirs as definitions that the
`MC` modules assume.

Only model-checked: the VMIR modules, whose routines are computed by recursive
functions over programs, which this prover cannot reason about; liveness under fairness
and whatever involves ENABLED, which it does not reach either.

## 6. Findings

**`thread_pool.join` on Linux.** `request_async_stop` posts one stop notification per
worker and throws when the kernel refuses one (S `async_io_linux.qxs` 536-540). The
join that is then repeated, by the caller or by the pool's destructor (S
`async_io.qxs` 525-531), posts one for every worker again. Those posted before the
failure remain in the ring after all workers have gone, and a pool created later on
the same context loses as many workers as soon as it starts, although `thread_pool`
is said to own "native worker threads that wait on one async_context and execute its
completion callbacks" (S `async_io.qxs` 465-466). If it loses all, its transfers are
never completed and its join waits for ever, which is why `JoinReturns` and
`PoolServes` exclude runs with a refused stop notification.

**Record literals.** `co_construct_composite` (C `co_vmir_generator2.hpp` 3644)
constructs the fields of a literal one after the other and, unlike the generated
constructors, defers no destructor for a field that is complete. If a later field's
constructor throws, the slots of the fields end with the literal and the
completed ones are never destroyed, although "partially constructed objects clean
up their completed fields, bases, or array elements" (`website/docs/reference/exceptions.md`
158). The run vmir_literal constructs the first field of two, lets the second throw, and
shows the first still owed when the program has ended.

## 7. Plan

Modelled so far, in this order: mutex, initialization guards, region semaphore,
condition, queue and semaphore, per-thread objects, shared pointers, transfer queue, threads,
asynchronous files, region class, region backing, plates and caches of the allocator,
slot lifetimes, the generator, execution with exceptions. Next:

1. `SlabAllocator` with plates of four, which needs a cheaper instance, and the
   double-checked creation of its stores.
2. The macOS aio list (S `async_io_macos.qxs`).
3. The generator's remaining statements: MATCH, PLACE, DESTROY AT, ASSERT, LOOP with BY
   and UNTIL; bodies of array initializers, whose CONTINUE completes an element;
   destructors declared NOEXCEPT_IF(FALSE), and payloads whose constructor throws inside
   EXCEPTION_CREATE; literals whose fields throw, once the finding is settled.
4. Pure algorithms against reference definitions over bounded inputs: AVL tree,
   overload ranking, struct layout, symbol resolution of the linker.

Proofs: every property of every module outside the VMIR is proved but for liveness.
What is left needs other forms of the model: `SlotLifetimes` with folds for its
recursive functions, so that `StagesAgree` can be proved for the steps of a given routine.

## 8. Running

    tlc -config MCLocks.cfg MCLocks                    # any MC module with its cfg
    tlc -config MCVmirLiteral.cfg MCVmirExecution      # the run of the second finding
    tlapm LockProofs.tla                               # and KernelWaitProofs, ConditionsProofs,
                                                       # PerThreadProofs, RegionClassProofs,
                                                       # AsyncContextProofs, SlabProofs,
                                                       # ReferenceCountsProofs

The runs of `PROJECT.json` end within about two minutes each on two cores.
