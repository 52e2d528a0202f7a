--------------------------- MODULE SlabAllocator ---------------------------
(***************************************************************************)
(* The upper layers of the allocator for one block size (runtime/sources/  *)
(* memory.qxs, layer2_shards.qxs, allocator_budget.qxs): the two plates    *)
(* that cache a thread's free blocks, the stores of full and partial       *)
(* plates of each transfer home with their payload credits, the store of   *)
(* empty plates and the mappings these live in.                            *)
(*                                                                         *)
(* A step is one operation on what threads share: on a store's queue       *)
(* (TransferQueue), on a credit, on layer 3 (RegionClass), on a mapping's  *)
(* count.  Blocks of one home are alike, so a block is its home: the       *)
(* transfer_home of its region's class control.  A region has one slot.    *)
(***************************************************************************)
EXTENDS Sequences, FiniteSetsExt

CONSTANTS Threads,
          Blocks,      \* number of them
          Mappings,    \* where plates live
          PlatesEach,  \* plates in a mapping
          Homes,       \* number of transfer homes
          Capacity,    \* address_cache_count: blocks a plate holds, even
          Budget,      \* allocator_payload_budget_per_shard, in blocks
          Slots,       \* plates a queue of a store takes
          EmptySlots,  \* plates the store of empty ones takes
          MaxCalls,    \* bound: calls that leave the thread's own plates
          Alone,       \* bound: so many of them begin while no other is under way
          None

AllHomes == 0..(Homes - 1)
Stores == {"full", "partial"}
Half == Capacity \div 2

\* Assumed by the instances.
SlabSizes ==
    /\ IsFiniteSet(Threads)
    /\ {Blocks, Budget} \subseteq Nat /\ {PlatesEach, Homes, Half} \subseteq Nat \ {0}
    /\ Capacity = 2 * Half
    /\ None \notin AllHomes
    /\ None \notin [of : Mappings, entries : Seq(AllHomes), used : Nat]

VARIABLES free,      \* how many blocks layer 3 has
          issued,    \* how many blocks of each home the program has
          stored,    \* the queues of each store by home
          empty,     \* the store of empty plates: how many of each mapping
          credit,    \* allocator_payload_credits
          remaining, \* of each mapping, 0 when it is not mapped
          node, secondary, cursor, home, disabled, \* the thread's own state
          todo,      \* what a thread's call has yet to do, first things first
          plate,     \* the plate a call has acquired
          calls

layer2 == <<stored, empty, credit, remaining>>
layer1 == <<node, secondary, cursor, home, disabled>>
vars == <<free, issued, layer2, layer1, todo, plate, calls>>

\* An addr_cache_node: its mapping, cache.entries as far as they are alive, and
\* cache.used, which is set before it is read: 0 while the plate is an active one.
EmptyPlate(m) == [of |-> m, entries |-> <<>>, used |-> 0]

\* move_entries_to: the last n entries of p follow those of q.
Less(p, n) == [p EXCEPT !.entries = SubSeq(@, 1, p.used - n), !.used = @ - n]
More(q, p, n) == [q EXCEPT !.entries = @ \o SubSeq(p.entries, p.used - n + 1, p.used),
                           !.used = @ + n]

\* What fits of plate p into plate q.
Fitting(p, q) == Min({p.used, Capacity - q.used})

OwnerHome(p) == p.entries[1]

\* The block that a plate gives next.
Top(p) == p.entries[Len(p.entries)]

\* A queue of a store, whatever its order, is a bag of plates: how many there are of
\* each.  (Written out: with Bags the proofs would carry that module and all it extends.)
NoPlates == [p \in {} |-> 0]
Adding(queue, p) == [q \in DOMAIN queue \cup {p} |->
    IF q # p THEN queue[q] ELSE IF p \in DOMAIN queue THEN queue[p] + 1 ELSE 1]
Removing(queue, p) == [q \in DOMAIN queue \ {x \in {p} : queue[p] = 1} |->
    IF q # p THEN queue[q] ELSE queue[p] - 1]
Length(queue) == MapThenSumSet(LAMBDA p : queue[p], DOMAIN queue)

Init ==
    /\ free = Blocks /\ issued = [h \in AllHomes |-> 0]
    /\ stored = [s \in Stores |-> [h \in AllHomes |-> NoPlates]]
    /\ empty = [m \in Mappings |-> 0] /\ remaining = [m \in Mappings |-> 0]
    /\ credit = [h \in AllHomes |-> 0]
    /\ node = [t \in Threads |-> None] /\ secondary = [t \in Threads |-> None]
    /\ cursor = [t \in Threads |-> 0] /\ home = [t \in Threads |-> None]
    /\ disabled = [t \in Threads |-> FALSE]
    /\ todo = [t \in Threads |-> <<>>] /\ plate = [t \in Threads |-> None]
    /\ calls = 0

-----------------------------------------------------------------------------
(* A call is a list of steps to do, each with the plate, the block, the    *)
(* store or the credit it is about.                                        *)

Do(what) == [do |-> what]
DoOn(what, p) == [do |-> what, on |-> p]
DoFor(what, b) == [do |-> what, block |-> b]
Store(p) == [do |-> "reserve", on |-> p,
             store |-> IF p.used = Capacity THEN "full" ELSE "partial"]
Repay(h, p) == [do |-> "repay", home |-> h, bytes |-> p.used]

\* A plate that lost entries to another is empty, or stored again.
Leftover(p) == IF p.used = 0 THEN DoOn("pushEmpty", p) ELSE Store(p)

First(t) == Head(todo[t])
At(t, what) == todo[t] # <<>> /\ First(t).do = what
Then(t, steps) == todo' = [todo EXCEPT ![t] = steps \o Tail(@)]
Set(f, x, value) == f' = [f EXCEPT ![x] = value]

-----------------------------------------------------------------------------
(* Empty plates.                                                           *)

PopEmpty(t) ==
    /\ At(t, "popEmpty")
    /\ \/ \E m \in Mappings :
             /\ empty[m] > 0
             /\ Set(empty, m, empty[m] - 1)
             /\ Set(plate, t, EmptyPlate(m))
             /\ Then(t, <<>>)
       \/ /\ \A m \in Mappings : empty[m] = 0
          /\ Then(t, <<Do("mapPlates")>>)
          /\ UNCHANGED <<empty, plate>>
    /\ UNCHANGED <<free, issued, stored, credit, remaining, layer1, calls>>

\* layer2_refill_empty_cache_nodes keeps the first plate and offers the others.
MapPlates(t) ==
    LET unmapped == {m \in Mappings : remaining[m] = 0}
        m == CHOOSE x \in unmapped : TRUE
    IN
    /\ At(t, "mapPlates")
    /\ \/ /\ unmapped # {}
          /\ Set(remaining, m, PlatesEach)
          /\ Set(plate, t, EmptyPlate(m))
          /\ Then(t, [i \in 1..(PlatesEach - 1) |-> DoOn("pushEmpty", EmptyPlate(m))])
       \/ /\ unmapped = {}
          /\ Set(plate, t, None)
          /\ Then(t, <<>>)
          /\ UNCHANGED remaining
    /\ UNCHANGED <<free, issued, stored, empty, credit, layer1, calls>>

\* layer2_release_empty_cache_node: the last plate discarded unmaps the mapping.
PushEmpty(t) ==
    LET m == First(t).on.of IN
    /\ At(t, "pushEmpty")
    /\ IF MapThenSumSet(LAMBDA x : empty[x], Mappings) < EmptySlots
       THEN Set(empty, m, empty[m] + 1) /\ UNCHANGED remaining
       ELSE Set(remaining, m, remaining[m] - 1) /\ UNCHANGED empty
    /\ Then(t, <<>>)
    /\ UNCHANGED <<free, issued, stored, credit, layer1, plate, calls>>

-----------------------------------------------------------------------------
(* layer2_home_plate_store.try_push; a plate that is not kept is drained.  *)

\* allocator_payload_try_reserve.
Reserve(t) ==
    LET p == First(t).on
        h == OwnerHome(p)
    IN
    /\ At(t, "reserve")
    /\ IF credit[h] + p.used <= Budget
       THEN /\ Set(credit, h, credit[h] + p.used)
            /\ Then(t, <<[First(t) EXCEPT !.do = "push"]>>)
       ELSE /\ Then(t, <<DoOn("drain", p)>>)
            /\ UNCHANGED credit
    /\ UNCHANGED <<free, issued, stored, empty, remaining, layer1, plate, calls>>

\* mutant: the credit of a plate that was refused stays reserved.
PushUnpaid(t) ==
    LET p == First(t).on
        queue == stored[First(t).store][OwnerHome(p)]
    IN
    /\ At(t, "push")
    /\ IF Length(queue) < Slots
       THEN /\ stored' = [stored EXCEPT ![First(t).store][OwnerHome(p)] = Adding(queue, p)]
            /\ Then(t, <<>>)
       ELSE /\ Then(t, <<DoOn("drain", p)>>)
            /\ UNCHANGED stored
    /\ UNCHANGED <<free, issued, empty, credit, remaining, layer1, plate, calls>>

Push(t) ==
    LET p == First(t).on
        h == OwnerHome(p)
        queue == stored[First(t).store][h]
    IN
    /\ At(t, "push")
    /\ IF Length(queue) < Slots
       THEN /\ stored' = [stored EXCEPT ![First(t).store][h] = Adding(queue, p)]
            /\ Then(t, <<>>)
       ELSE /\ Then(t, <<Repay(h, p), DoOn("drain", p)>>)
            /\ UNCHANGED stored
    /\ UNCHANGED <<free, issued, empty, credit, remaining, layer1, plate, calls>>

\* allocator_payload_release, of a push that failed or of the plate popped.
RepayCredit(t) ==
    LET h == First(t).home IN
    /\ At(t, "repay")
    /\ Set(credit, h, credit[h] - First(t).bytes)
    /\ Then(t, <<>>)
    /\ UNCHANGED <<free, issued, stored, empty, remaining, layer1, plate, calls>>

\* layer2_drain_cache, after which the plate is empty.
Drain(t) ==
    LET p == First(t).on IN
    /\ At(t, "drain")
    /\ free' = free + Len(p.entries)
    /\ Then(t, <<DoOn("pushEmpty", EmptyPlate(p.of))>>)
    /\ UNCHANGED <<issued, layer2, layer1, plate, calls>>

\* pop_at, without the credit that is due then.
Popped(s, h, p) == stored' = [stored EXCEPT ![s][h] = Removing(@, p)]

-----------------------------------------------------------------------------
(* layer2_acquire_full_cache                                               *)

\* layer2_next_home goes round; layer2_allocation_home takes it on first demand.
NextHome == Cardinality({u \in Threads : home[u] # None}) % Homes

SeekFull(t) ==
    LET h == IF home[t] = None THEN NextHome ELSE home[t] IN
    /\ At(t, "seekFull")
    /\ Set(home, t, h)
    /\ \/ \E p \in DOMAIN stored["full"][h] : /\ Popped("full", h, p)
                                       /\ Set(plate, t, p)
                                       /\ Then(t, <<Repay(h, p)>>)
       \/ /\ stored["full"][h] = NoPlates
          /\ Then(t, <<Do("seekPartial")>>)
          /\ UNCHANGED <<stored, plate>>
    /\ UNCHANGED <<free, issued, empty, credit, remaining, node, secondary, cursor,
                   disabled, calls>>

SeekPartial(t) ==
    LET h == home[t] IN
    /\ At(t, "seekPartial")
    /\ \/ \E p \in DOMAIN stored["partial"][h] : /\ Popped("partial", h, p)
                                          /\ Set(plate, t, p)
                                          /\ Then(t, <<Repay(h, p), Do("fill")>>)
       \/ /\ stored["partial"][h] = NoPlates
          /\ Then(t, <<Do("popEmpty"), Do("fill")>>)
          /\ UNCHANGED <<stored, plate>>
    /\ UNCHANGED <<free, issued, empty, credit, remaining, layer1, calls>>

\* While the plate is not full, another partial plate is merged into it.
Fill(t) ==
    LET q == plate[t]
        h == home[t]
    IN
    /\ At(t, "fill")
    /\ IF q = None \/ q.used = Capacity
       THEN Then(t, <<>>) /\ UNCHANGED <<stored, plate>>
       ELSE \/ \E p \in DOMAIN stored["partial"][h] :
                  /\ Popped("partial", h, p)
                  /\ Set(plate, t, More(q, p, Fitting(p, q)))
                  /\ Then(t, <<Repay(h, p), Leftover(Less(p, Fitting(p, q))), Do("fill")>>)
            \/ /\ stored["partial"][h] = NoPlates
               /\ Then(t, <<Do("refill")>>)
               /\ UNCHANGED <<stored, plate>>
    /\ UNCHANGED <<free, issued, empty, credit, remaining, layer1, calls>>

\* layer3_region_refill fills the plate, lowest slots first, or memory runs out on
\* the way and what there is goes back.
Refill(t) ==
    LET q == plate[t]
        n == Min({Capacity - q.used, free})
        filled == [q EXCEPT !.entries = @ \o [i \in 1..n |-> home[t]], !.used = @ + n]
    IN
    /\ At(t, "refill")
    /\ free' = free - n
    /\ IF filled.used = Capacity
       THEN Set(plate, t, filled) /\ Then(t, <<>>)
       ELSE Set(plate, t, None) /\ Then(t, <<DoOn("drain", filled)>>)
    /\ UNCHANGED <<issued, stored, empty, credit, remaining, layer1, calls>>

-----------------------------------------------------------------------------
\* layer2_release_cache: a plate that is neither empty nor full is filled up from one
\* partial plate of some home, then kept.
Release(t) ==
    LET q == First(t).on IN
    /\ At(t, "release")
    /\ IF q.used \in {0, Capacity}
       THEN Then(t, <<Leftover(q)>>) /\ UNCHANGED stored
       ELSE \E h \in AllHomes :
            \/ \E p \in DOMAIN stored["partial"][h] :
                  /\ Popped("partial", h, p)
                  /\ Then(t, <<Repay(h, p), Leftover(Less(p, Fitting(p, q))),
                               Store(More(q, p, Fitting(p, q)))>>)
            \/ /\ stored["partial"][h] = NoPlates
               /\ Then(t, <<Store(q)>>)
               /\ UNCHANGED stored
    /\ UNCHANGED <<free, issued, empty, credit, remaining, layer1, plate, calls>>

-----------------------------------------------------------------------------
(* layer1_initialize_thread_cache, for an allocation (no block) or for the *)
(* return of a block, which goes to its region if there are no plates.     *)

GotActive(t) ==
    LET b == First(t).block IN
    /\ At(t, "gotActive")
    /\ Then(t, IF plate[t] = None THEN <<DoFor("failed", b)>>
               ELSE <<Do("popEmpty"),
                        [do |-> "gotSecondary", on |-> plate[t], block |-> b]>>)
    /\ Set(plate, t, None)
    /\ UNCHANGED <<free, issued, layer2, layer1, calls>>

\* mutant: the first plate is kept when there is no second.
GotSecondaryKeeping(t) ==
    /\ At(t, "gotSecondary")
    /\ IF plate[t] = None
       THEN /\ Then(t, <<DoFor("failed", First(t).block)>>)
            /\ UNCHANGED <<node, secondary>>
       ELSE /\ Set(node, t, First(t).on)
            /\ Set(secondary, t, plate[t])
            /\ Then(t, IF First(t).block = None THEN <<Do("seekFull"), Do("install")>>
                       ELSE <<DoFor("place", First(t).block)>>)
    /\ Set(plate, t, None)
    /\ UNCHANGED <<free, issued, layer2, cursor, home, disabled, calls>>

GotSecondary(t) ==
    LET active == First(t).on
        b == First(t).block
    IN
    /\ At(t, "gotSecondary")
    /\ IF plate[t] = None
       THEN /\ Then(t, <<DoOn("pushEmpty", active), DoFor("failed", b)>>)
            /\ UNCHANGED <<node, secondary>>
       ELSE /\ Set(node, t, active)
            /\ Set(secondary, t, plate[t])
            /\ Then(t, IF b = None THEN <<Do("seekFull"), Do("install")>>
                       ELSE <<DoFor("place", b)>>)
    /\ Set(plate, t, None)
    /\ UNCHANGED <<free, issued, layer2, cursor, home, disabled, calls>>

Failed(t) ==
    /\ At(t, "failed")
    /\ free' = free + (IF First(t).block = None THEN 0 ELSE 1)
    /\ Then(t, <<>>)
    /\ UNCHANGED <<issued, layer2, layer1, plate, calls>>

-----------------------------------------------------------------------------
(* Allocation.                                                             *)

Idle(t) == todo[t] = <<>>

\* Threads work on their own plates while no call is under way: such steps commute
\* with those of the others' calls.
Quiet == \A t \in Threads : Idle(t)

Leave == /\ calls < MaxCalls /\ calls' = calls + 1
         /\ calls < Alone => Quiet

\* The last of so many entries of plate p, now the active one, is the program's.
TakeFrom(t, p, size) ==
    /\ Set(node, t, [p EXCEPT !.entries = SubSeq(@, 1, Len(@) - 1), !.used = 0])
    /\ Set(cursor, t, size - 1)
    /\ issued' = [issued EXCEPT ![Top(p)] = @ + 1]

\* layer0_allocate.
AllocateCached(t) ==
    /\ Quiet /\ cursor[t] > 0
    /\ TakeFrom(t, node[t], cursor[t])
    /\ UNCHANGED <<free, layer2, secondary, home, disabled, todo, plate, calls>>

\* layer1_allocate: half of a full secondary plate moves to the active one, or the
\* half-full secondary plate takes its place.
AllocateSwapping(t) ==
    LET a == [node[t] EXCEPT !.used = 0]
        s == secondary[t]
    IN
    /\ Quiet /\ node[t] # None /\ cursor[t] = 0
    /\ s.used # 0
    /\ IF s.used = Capacity
       THEN /\ TakeFrom(t, More(a, s, Half), Half)
            /\ Set(secondary, t, Less(s, Half))
       ELSE /\ TakeFrom(t, s, s.used)
            /\ Set(secondary, t, a)
    /\ UNCHANGED <<free, layer2, home, disabled, todo, plate, calls>>

\* The secondary plate is empty too: a full one is to take its place.
AllocateRefilling(t) ==
    /\ Idle(t) /\ Leave /\ node[t] # None /\ cursor[t] = 0
    /\ secondary[t].used = 0
    /\ Set(node, t, [node[t] EXCEPT !.used = 0])
    /\ Set(todo, t, <<Do("seekFull"), Do("install")>>)
    /\ UNCHANGED <<free, issued, layer2, secondary, cursor, home, disabled, plate>>

\* mutant: the empty secondary plate is not given back for the full one.
InstallDropping(t) ==
    LET q == plate[t] IN
    /\ At(t, "install")
    /\ Then(t, <<>>)
    /\ IF q = None
       THEN UNCHANGED <<issued, node, secondary, cursor>>
       ELSE /\ Set(secondary, t, Less(q, Half))
            /\ TakeFrom(t, More(node[t], q, Half), node[t].used + Half)
    /\ Set(plate, t, None)
    /\ UNCHANGED <<free, layer2, home, disabled, calls>>

Install(t) ==
    LET q == plate[t] IN
    /\ At(t, "install")
    /\ IF q = None
       THEN Then(t, <<>>) /\ UNCHANGED <<issued, node, secondary, cursor>>
       ELSE /\ Set(secondary, t, Less(q, Half))
            /\ TakeFrom(t, More(node[t], q, Half), node[t].used + Half)
            /\ Then(t, <<DoOn("pushEmpty", secondary[t])>>)
    /\ Set(plate, t, None)
    /\ UNCHANGED <<free, layer2, home, disabled, calls>>

AllocateInitializing(t) ==
    /\ Idle(t) /\ Leave /\ node[t] = None /\ ~disabled[t]
    /\ Set(todo, t, <<Do("popEmpty"), DoFor("gotActive", None)>>)
    /\ UNCHANGED <<free, issued, layer2, layer1, plate>>

\* layer2_allocate_without_thread_cache.
AllocateDirectly(t) ==
    /\ Idle(t) /\ Leave /\ disabled[t]
    /\ Set(todo, t, <<Do("seekFull"), Do("direct")>>)
    /\ UNCHANGED <<free, issued, layer2, layer1, plate>>

Direct(t) ==
    LET q == plate[t] IN
    /\ At(t, "direct")
    /\ IF q = None
       THEN Then(t, <<>>) /\ UNCHANGED issued
       ELSE /\ issued' = [issued EXCEPT ![Top(q)] = @ + 1]
            /\ Then(t, <<DoOn("release", Less(q, 1))>>)
    /\ Set(plate, t, None)
    /\ UNCHANGED <<free, layer2, layer1, calls>>

-----------------------------------------------------------------------------
(* The return of a block, by whichever thread.                             *)

PutInto(t, p, size, b) ==
    /\ Set(node, t, [p EXCEPT !.entries = Append(@, b), !.used = 0])
    /\ Set(cursor, t, size + 1)

\* layer0_deallocate.
DeallocateCached(t, b) ==
    /\ Quiet /\ node[t] # None /\ cursor[t] < Capacity
    /\ issued' = [issued EXCEPT ![b] = @ - 1]
    /\ PutInto(t, node[t], cursor[t], b)
    /\ UNCHANGED <<free, layer2, secondary, home, disabled, todo, plate, calls>>

\* layer1_deallocate: half of the full active plate moves to an empty secondary one,
\* or the half-full secondary plate takes its place.
DeallocateSwapping(t, b) ==
    LET a == [node[t] EXCEPT !.used = Capacity]
        s == secondary[t]
    IN
    /\ Quiet /\ node[t] # None /\ cursor[t] = Capacity
    /\ s.used # Capacity
    /\ issued' = [issued EXCEPT ![b] = @ - 1]
    /\ IF s.used = 0
       THEN /\ PutInto(t, Less(a, Half), Half, b)
            /\ Set(secondary, t, More(s, a, Half))
       ELSE /\ PutInto(t, s, s.used, b)
            /\ Set(secondary, t, a)
    /\ UNCHANGED <<free, layer2, home, disabled, todo, plate, calls>>

\* Both are full: the secondary plate is to be released for an empty one.
DeallocateReleasing(t, b) ==
    /\ Idle(t) /\ Leave /\ node[t] # None /\ cursor[t] = Capacity
    /\ secondary[t].used = Capacity
    /\ issued' = [issued EXCEPT ![b] = @ - 1]
    /\ Set(node, t, [node[t] EXCEPT !.used = Capacity])
    /\ Set(todo, t, <<Do("popEmpty"), DoFor("gotEmpty", b)>>)
    /\ UNCHANGED <<free, layer2, secondary, cursor, home, disabled, plate>>

GotEmpty(t) ==
    LET b == First(t).block IN
    /\ At(t, "gotEmpty")
    /\ IF plate[t] = None
       THEN Then(t, <<DoFor("failed", b)>>) /\ UNCHANGED secondary
       ELSE /\ Set(secondary, t, plate[t])
            /\ Then(t, <<DoOn("release", secondary[t]), DoFor("makeRoom", b)>>)
    /\ Set(plate, t, None)
    /\ UNCHANGED <<free, issued, layer2, node, cursor, home, disabled, calls>>

MakeRoom(t) ==
    /\ At(t, "makeRoom")
    /\ PutInto(t, Less(node[t], Half), node[t].used - Half, First(t).block)
    /\ Set(secondary, t, More(secondary[t], node[t], Half))
    /\ Then(t, <<>>)
    /\ UNCHANGED <<free, issued, layer2, home, disabled, plate, calls>>

DeallocateInitializing(t, b) ==
    /\ Idle(t) /\ Leave /\ node[t] = None /\ ~disabled[t]
    /\ issued' = [issued EXCEPT ![b] = @ - 1]
    /\ Set(todo, t, <<Do("popEmpty"), DoFor("gotActive", b)>>)
    /\ UNCHANGED <<free, layer2, layer1, plate>>

Place(t) ==
    /\ At(t, "place")
    /\ PutInto(t, node[t], node[t].used, First(t).block)
    /\ Then(t, <<>>)
    /\ UNCHANGED <<free, issued, layer2, secondary, home, disabled, plate, calls>>

\* layer3_deallocate_without_thread_cache.
DeallocateDirectly(t, b) ==
    /\ Idle(t) /\ Leave /\ disabled[t]
    /\ issued' = [issued EXCEPT ![b] = @ - 1]
    /\ Set(todo, t, <<DoFor("failed", b)>>)
    /\ UNCHANGED <<free, layer2, layer1, plate>>

-----------------------------------------------------------------------------
\* allocator_thread_cache_shutdown_begin with layer1_release_thread_cache; nothing is
\* left for allocator_thread_cache_shutdown_finish.
Shutdown(t) ==
    LET a == [node[t] EXCEPT !.used = cursor[t]] IN
    /\ Idle(t) /\ Leave /\ ~disabled[t]
    /\ Set(disabled, t, TRUE)
    /\ IF node[t] = None
       THEN UNCHANGED <<node, secondary, cursor, todo>>
       ELSE /\ Set(todo, t, <<DoOn("release", a), DoOn("release", secondary[t])>>)
            /\ Set(node, t, None) /\ Set(secondary, t, None) /\ Set(cursor, t, 0)
    /\ UNCHANGED <<free, issued, layer2, home, plate>>

Step(t) ==
    \/ PopEmpty(t) \/ MapPlates(t) \/ PushEmpty(t)
    \/ Reserve(t) \/ Push(t) \/ RepayCredit(t) \/ Drain(t)
    \/ SeekFull(t) \/ SeekPartial(t) \/ Fill(t) \/ Refill(t) \/ Release(t)
    \/ GotActive(t) \/ GotSecondary(t) \/ Failed(t)
    \/ Install(t) \/ Direct(t) \/ GotEmpty(t) \/ MakeRoom(t) \/ Place(t)

Returnable == {h \in AllHomes : issued[h] > 0}

Begin(t) ==
    \/ AllocateCached(t) \/ AllocateSwapping(t) \/ AllocateRefilling(t)
    \/ AllocateInitializing(t) \/ AllocateDirectly(t) \/ Shutdown(t)
    \/ \E b \in Returnable :
          \/ DeallocateCached(t, b) \/ DeallocateSwapping(t, b) \/ DeallocateReleasing(t, b)
          \/ DeallocateInitializing(t, b) \/ DeallocateDirectly(t, b)

Next == \E t \in Threads : Step(t) \/ Begin(t)

Spec == Init /\ [][Next]_vars

-----------------------------------------------------------------------------
\* The steps threads have yet to do, each thread's numbered from the last: <<thread,
\* number, step>>.
StepsToDo ==
    UNION {{<<t, i, todo[t][Len(todo[t]) - i]>> : i \in 0..(Len(todo[t]) - 1)} :
              t \in Threads}

\* Where plates are that are not in the store of empty ones: <<where, number, plate>>.
InStores ==
    UNION {UNION {{<<s, <<h, i>>, p>> : i \in 1..stored[s][h][p]} : p \in DOMAIN stored[s][h]} :
              s \in Stores, h \in AllHomes}
InHands(where, plates) == {<<where, t, plates[t]>> : t \in {u \in Threads : plates[u] # None}}
InSteps == {<<"todo", <<x[1], x[2]>>, x[3].on>> :
               x \in {y \in StepsToDo : "on" \in DOMAIN y[3]}}
Placed == InStores \cup InHands("active", node) \cup InHands("secondary", secondary)
          \cup InHands("plate", plate) \cup InSteps

\* How many blocks some of these plates hold together.
BlocksIn(placed) ==
    Cardinality(UNION {{<<x, i>> : i \in DOMAIN x[3].entries} : x \in placed})

\* A mapping is there as long as one of its plates is, each counted once.
PlatesAccounted(placed) ==
    \A m \in Mappings : remaining[m] = empty[m] + Cardinality({x \in placed : x[3].of = m})

\* A block is free, with the program, on its way back, or once in one plate.
BlocksConserved(placed) ==
    LET given == UNION {{<<h, i>> : i \in 1..issued[h]} : h \in AllHomes}
        returning == {x \in StepsToDo : "block" \in DOMAIN x[3] /\ x[3].block # None}
    IN free + Cardinality(given) + Cardinality(returning) + BlocksIn(placed) = Blocks

\* The cursor counts the active plate, `used' every other; between calls a secondary
\* plate is empty, half full or full; a stored one is as full as its store says, and
\* at the home of its first block.
CountsTellTruth(placed) ==
    /\ \A x \in placed : /\ x[1] # "active" => x[3].used = Len(x[3].entries)
                         /\ x[1] = "full" => x[3].used = Capacity
                         /\ x[1] = "partial" => x[3].used \in 1..(Capacity - 1)
                         /\ x[1] \in Stores => OwnerHome(x[3]) = x[2][1]
    /\ \A t \in Threads :
          /\ cursor[t] = IF node[t] = None THEN 0 ELSE Len(node[t].entries)
          /\ node[t] # None /\ Idle(t) => secondary[t].used \in {0, Half, Capacity}

\* Caches handed back are not set up again.
NoCacheAfterShutdown ==
    \A t \in Threads : disabled[t] => node[t] = None /\ secondary[t] = None

\* What a home has been charged is what its stores hold and what a thread has reserved
\* and not yet stored, or popped and not yet repaid; it is never above the budget.
CreditsExact(placed) ==
    \A h \in AllHomes :
       LET kept == {x \in placed : x[1] \in Stores /\ x[2][1] = h}
           storing == {x \in StepsToDo : x[3].do = "push" /\ OwnerHome(x[3].on) = h}
           owing == {x \in StepsToDo : x[3].do = "repay" /\ x[3].home = h}
       IN /\ credit[h] = BlocksIn(kept)
                + Cardinality(UNION {{<<x, i>> : i \in 1..x[3].on.used} : x \in storing})
                + Cardinality(UNION {{<<x, i>> : i \in 1..x[3].bytes} : x \in owing})
          /\ credit[h] <= Budget

\* No block is lost, doubled or given out while a plate or layer 3 has it; the credits
\* are exact.
SlabInv ==
    LET placed == Placed
    IN /\ PlatesAccounted(placed) /\ BlocksConserved(placed) /\ CountsTellTruth(placed)
       /\ NoCacheAfterShutdown /\ CreditsExact(placed)
=============================================================================
