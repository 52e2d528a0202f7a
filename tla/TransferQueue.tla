--------------------------- MODULE TransferQueue ---------------------------
(***************************************************************************)
(* The allocator's transfer store: layer2_growing_queue over generations   *)
(* of layer2_ring_generation (runtime/sources/layer2_growing.qxs), one     *)
(* shared access per step.                                                 *)
(*                                                                         *)
(* Each generation is a bounded multi-producer multi-consumer ring whose   *)
(* cells carry sequence numbers.  Generation g is twice as large as g - 1; *)
(* `head' is the newest published one and a search goes down from it.      *)
(* A sequence word holds W values; the code starts at 0 with W = 2^64, an  *)
(* instance starts close enough below W for the words to wrap.             *)
(***************************************************************************)
EXTENDS Naturals, Sequences, FiniteSets

CONSTANTS Threads, Nodes, None,
          SlotCount,   \* capacity of the first generation
          Generations, \* 1..n, the last at allocator_transfer_queue_maximum_capacity
          W,           \* number of values of a sequence word
          Start,       \* the first position of every generation
          MaxPushes    \* bound: cells claimed by pushes; stale positions stay
                       \* within half of W, as 2^63 pushes during one call would not

Cap(g) == SlotCount * 2^(g - 1)

\* Assumed by the instances.
QueueSizes ==
    /\ IsFiniteSet(Threads) /\ None \notin Nodes
    /\ SlotCount \in Nat /\ SlotCount >= 2
    /\ IsFiniteSet(Generations) /\ Generations = 1..Cardinality(Generations)
    /\ 1 \in Generations
    /\ W \in Nat /\ Start \in 0..W - 1 /\ MaxPushes \in Nat
    /\ \A g \in Generations : /\ Cap(g) \in Nat /\ Cap(g) >= 2 /\ W % Cap(g) = 0
                            /\ MaxPushes + Cap(g) <= W \div 2

VARIABLES head,              \* newest published generation, 0 for none
          enqueue, dequeue,  \* positions of each generation
          sequence, cell,    \* sequence word and node of each cell
          held,              \* the nodes each thread owns
          at, item, gen, base, position, \* each thread's place and locals
          pushes             \* cells claimed by pushes so far

rings == <<enqueue, dequeue, sequence, cell>>
locals == <<item, gen, base, position>>
vars == <<head, rings, held, at, locals, pushes>>

Cells(g) == 0..Cap(g) - 1
Plus(p, n) == (p + n) % W
Minus(p, n) == (p + W - n) % W
Negative(difference) == difference > (W - 1) \div 2
Index(g, p) == p % Cap(g)

Places == {"out", "pushHead", "pushLoad", "pushCell", "pushCas", "storeNode", "publish",
           "create", "publishGeneration", "popHead", "popLoad", "popCell",
           "popCas", "takeNode", "vacate"}

TypeOK ==
    /\ head \in {0} \cup Generations
    /\ \A g \in Generations :
          /\ enqueue[g] \in 0..W - 1 /\ dequeue[g] \in 0..W - 1
          /\ sequence[g] \in [Cells(g) -> 0..W - 1]
          /\ cell[g] \in [Cells(g) -> Nodes \cup {None}]
    /\ held \in [Threads -> SUBSET Nodes]
    /\ at \in [Threads -> Places]
    /\ item \in [Threads -> Nodes \cup {None}]
    /\ \A t \in Threads : at[t] \in {"create", "publishGeneration"} =>
          base[t] + 1 \in Generations

\* All generations as their creation leaves them; `head' says which exist.
Init ==
    /\ head = 0
    /\ enqueue = [g \in Generations |-> Start]
    /\ dequeue = [g \in Generations |-> Start]
    /\ sequence = [g \in Generations |-> [i \in Cells(g) |->
                      CHOOSE s \in {Plus(Start, k) : k \in Cells(g)} : Index(g, s) = i]]
    /\ cell = [g \in Generations |-> [i \in Cells(g) |-> None]]
    /\ held \in {h \in [Threads -> SUBSET Nodes] :
                    \A n \in Nodes : Cardinality({t \in Threads : n \in h[t]}) = 1}
    /\ at = [t \in Threads |-> "out"]
    /\ item = [t \in Threads |-> None]
    /\ gen = [t \in Threads |-> 0]
    /\ base = [t \in Threads |-> 0]
    /\ position = [t \in Threads |-> 0]
    /\ pushes = 0

Goto(t, place) == at' = [at EXCEPT ![t] = place]

At(t, g, place) == gen' = [gen EXCEPT ![t] = g] /\ Goto(t, place)

\* The call is over: forget its locals, keep the node it ends with.
Return(t, nodes) ==
    /\ Goto(t, "out")
    /\ held' = [held EXCEPT ![t] = @ \cup nodes]
    /\ item' = [item EXCEPT ![t] = None]
    /\ gen' = [gen EXCEPT ![t] = 0]
    /\ base' = [base EXCEPT ![t] = 0]
    /\ position' = [position EXCEPT ![t] = 0]

Position(t, p) == position' = [position EXCEPT ![t] = p]

SeqAt(t) == sequence[gen[t]][Index(gen[t], position[t])]

-----------------------------------------------------------------------------
CallPush(t, n) ==
    /\ at[t] = "out"
    /\ n \in held[t]
    /\ held' = [held EXCEPT ![t] = @ \ {n}]
    /\ item' = [item EXCEPT ![t] = n]
    /\ Goto(t, "pushHead")
    /\ UNCHANGED <<head, rings, gen, base, position, pushes>>

PushHead(t) ==
    /\ at[t] = "pushHead"
    /\ base' = [base EXCEPT ![t] = head]
    /\ At(t, head, IF head = 0 THEN "create" ELSE "pushLoad")
    /\ UNCHANGED <<head, rings, held, item, position, pushes>>

PushLoad(t) ==
    /\ at[t] = "pushLoad"
    /\ Position(t, enqueue[gen[t]])
    /\ Goto(t, "pushCell")
    /\ UNCHANGED <<head, rings, held, item, gen, base, pushes>>

PushDifference(t) == Minus(SeqAt(t), position[t])

PushCellFree(t) ==
    /\ at[t] = "pushCell"
    /\ PushDifference(t) = 0
    /\ Goto(t, "pushCas")
    /\ UNCHANGED <<head, rings, held, locals, pushes>>

PushCellStale(t) ==
    /\ at[t] = "pushCell"
    /\ PushDifference(t) # 0 /\ ~Negative(PushDifference(t))
    /\ Goto(t, "pushLoad")
    /\ UNCHANGED <<head, rings, held, locals, pushes>>

\* The ring is full: grow if it is the newest and may, else try an older one,
\* else give up.
PushRingFull(t) ==
    /\ at[t] = "pushCell"
    /\ Negative(PushDifference(t))
    /\ IF gen[t] = base[t] /\ base[t] + 1 \in Generations
       THEN Goto(t, "create") /\ UNCHANGED <<held, locals>>
       ELSE IF gen[t] > 1
       THEN At(t, gen[t] - 1, "pushLoad") /\ UNCHANGED <<held, item, base, position>>
       ELSE Return(t, {item[t]})
    /\ UNCHANGED <<head, rings, pushes>>

PushCasBlindly(t) == \* mutant: claims the cell with a STORE
    /\ at[t] = "pushCas"
    /\ pushes < MaxPushes
    /\ pushes' = pushes + 1
    /\ enqueue' = [enqueue EXCEPT ![gen[t]] = Plus(position[t], 1)]
    /\ Goto(t, "storeNode")
    /\ UNCHANGED <<head, dequeue, sequence, cell, held, locals>>

PushCas(t) ==
    /\ at[t] = "pushCas"
    /\ IF enqueue[gen[t]] = position[t]
       THEN /\ pushes < MaxPushes
            /\ pushes' = pushes + 1
            /\ enqueue' = [enqueue EXCEPT ![gen[t]] = Plus(@, 1)]
            /\ Goto(t, "storeNode")
            /\ UNCHANGED position
       ELSE /\ Position(t, enqueue[gen[t]])
            /\ Goto(t, "pushCell")
            /\ UNCHANGED <<enqueue, pushes>>
    /\ UNCHANGED <<head, dequeue, sequence, cell, held, item, gen, base>>

StoreNode(t) ==
    /\ at[t] = "storeNode"
    /\ cell' = [cell EXCEPT ![gen[t]][Index(gen[t], position[t])] = item[t]]
    /\ Goto(t, "publish")
    /\ UNCHANGED <<head, enqueue, dequeue, sequence, held, locals, pushes>>

Publish(t) ==
    /\ at[t] = "publish"
    /\ sequence' = [sequence EXCEPT ![gen[t]][Index(gen[t], position[t])] =
                       Plus(position[t], 1)]
    /\ Return(t, {})
    /\ UNCHANGED <<head, enqueue, dequeue, cell, pushes>>

\* The mapping of a new generation fails, and with it the push.
CreateFails(t) ==
    /\ at[t] = "create"
    /\ Return(t, {item[t]})
    /\ UNCHANGED <<head, rings, pushes>>

Create(t) ==
    /\ at[t] = "create"
    /\ Goto(t, "publishGeneration")
    /\ UNCHANGED <<head, rings, held, locals, pushes>>

PublishBlindly(t) == \* mutant: publishes the generation with a STORE
    /\ at[t] = "publishGeneration"
    /\ head' = base[t] + 1
    /\ enqueue' = [enqueue EXCEPT ![base[t] + 1] = Start]
    /\ dequeue' = [dequeue EXCEPT ![base[t] + 1] = Start]
    /\ Goto(t, "pushHead")
    /\ UNCHANGED <<sequence, cell, held, locals, pushes>>

\* The loser of the race for a generation unmaps its own and starts over too.
PublishGeneration(t) ==
    /\ at[t] = "publishGeneration"
    /\ head' = IF head = base[t] THEN base[t] + 1 ELSE head
    /\ Goto(t, "pushHead")
    /\ UNCHANGED <<rings, held, locals, pushes>>

-----------------------------------------------------------------------------
\* try_pop goes on to the next older generation, or returns NULL.
PopFrom(t, g) ==
    IF g = 0 THEN Return(t, {})
    ELSE At(t, g, "popLoad") /\ UNCHANGED <<held, item, base, position>>

CallPop(t) ==
    /\ at[t] = "out"
    /\ Goto(t, "popHead")
    /\ UNCHANGED <<head, rings, held, locals, pushes>>

PopHead(t) ==
    /\ at[t] = "popHead"
    /\ PopFrom(t, head)
    /\ UNCHANGED <<head, rings, pushes>>

PopLoad(t) ==
    /\ at[t] = "popLoad"
    /\ Position(t, dequeue[gen[t]])
    /\ Goto(t, "popCell")
    /\ UNCHANGED <<head, rings, held, item, gen, base, pushes>>

PopDifference(t) == Minus(SeqAt(t), Plus(position[t], 1))

PopCellReady(t) ==
    /\ at[t] = "popCell"
    /\ PopDifference(t) = 0
    /\ Goto(t, "popCas")
    /\ UNCHANGED <<head, rings, held, locals, pushes>>

PopCellStale(t) ==
    /\ at[t] = "popCell"
    /\ PopDifference(t) # 0 /\ ~Negative(PopDifference(t))
    /\ Goto(t, "popLoad")
    /\ UNCHANGED <<head, rings, held, locals, pushes>>

PopRingEmpty(t) ==
    /\ at[t] = "popCell"
    /\ Negative(PopDifference(t))
    /\ PopFrom(t, gen[t] - 1)
    /\ UNCHANGED <<head, rings, pushes>>

PopCas(t) ==
    /\ at[t] = "popCas"
    /\ IF dequeue[gen[t]] = position[t]
       THEN /\ dequeue' = [dequeue EXCEPT ![gen[t]] = Plus(@, 1)]
            /\ Goto(t, "takeNode")
            /\ UNCHANGED position
       ELSE /\ Position(t, dequeue[gen[t]])
            /\ Goto(t, "popCell")
            /\ UNCHANGED dequeue
    /\ UNCHANGED <<head, enqueue, sequence, cell, held, item, gen, base, pushes>>

TakeNode(t) ==
    /\ at[t] = "takeNode"
    /\ item' = [item EXCEPT ![t] = cell[gen[t]][Index(gen[t], position[t])]]
    /\ Goto(t, "vacate")
    /\ UNCHANGED <<head, rings, held, gen, base, position, pushes>>

VacateEarly(t) == \* mutant: hands the cell to the push of the same round
    /\ at[t] = "vacate"
    /\ sequence' = [sequence EXCEPT ![gen[t]][Index(gen[t], position[t])] = position[t]]
    /\ Return(t, {item[t]})
    /\ UNCHANGED <<head, enqueue, dequeue, cell, pushes>>

Vacate(t) ==
    /\ at[t] = "vacate"
    /\ sequence' = [sequence EXCEPT ![gen[t]][Index(gen[t], position[t])] =
                       Plus(position[t], Cap(gen[t]))]
    /\ Return(t, {item[t]})
    /\ UNCHANGED <<head, enqueue, dequeue, cell, pushes>>

-----------------------------------------------------------------------------
Next == \E t \in Threads :
    \/ CallPop(t) \/ \E n \in Nodes : CallPush(t, n)
    \/ PushHead(t) \/ PushLoad(t) \/ PushCellFree(t) \/ PushCellStale(t)
    \/ PushRingFull(t) \/ PushCas(t) \/ StoreNode(t) \/ Publish(t)
    \/ CreateFails(t) \/ Create(t) \/ PublishGeneration(t)
    \/ PopHead(t) \/ PopLoad(t) \/ PopCellReady(t) \/ PopCellStale(t)
    \/ PopRingEmpty(t) \/ PopCas(t) \/ TakeNode(t) \/ Vacate(t)

Spec == Init /\ [][Next]_vars

-----------------------------------------------------------------------------
\* How many pushes of generation g have been claimed and not popped.
Size(g) == Minus(enqueue[g], dequeue[g])

Published(g, p) == sequence[g][Index(g, p)] = Plus(p, 1)

\* The threads between their claim of position p of generation g and the store
\* that publishes or vacates the cell.
Pushers(g, p) == {t \in Threads : /\ at[t] \in {"storeNode", "publish"}
                                  /\ gen[t] = g /\ position[t] = p}

\* What a claimed position holds or is about to hold.
NodeAt(g, p) == IF Published(g, p) THEN cell[g][Index(g, p)]
                ELSE item[CHOOSE t \in Pushers(g, p) : TRUE]

Contents(g) == [i \in 1..Size(g) |-> NodeAt(g, Plus(dequeue[g], i - 1))]

Ring(g) == INSTANCE BoundedQueue WITH
              Values <- Nodes, Capacity <- Cap(g), contents <- Contents(g)

\* Each generation hands its nodes out in the order in which pushes claimed
\* its cells, never holds more than its capacity and loses none, across the
\* wrap of the sequence words.
GenerationsAreFIFO ==
    [][\A g \in Generations : Ring(g)!Next \/ UNCHANGED Contents(g)]_vars

\* A cell is claimed by one thread at a time: the plain loads and stores of
\* `cell.node' never race.
CellHeldOnce ==
    \A t, u \in Threads :
       /\ {at[t], at[u]} \subseteq {"storeNode", "publish", "takeNode", "vacate"}
       /\ gen[t] = gen[u]
       /\ Index(gen[t], position[t]) = Index(gen[u], position[u])
       => t = u

\* The claimed positions of all generations, counted from the oldest of each.
Claimed == UNION {{g} \X (1..Size(g)) : g \in Generations}

\* Wherever growth, failed publication, failed allocation and give-up may take
\* it, a node is in one place: owned by a thread, in the hands of its push or
\* pop, or in one position of one generation.
NodeOnce ==
    \A n \in Nodes :
       Cardinality({t \in Threads : n \in held[t]})
       + Cardinality({t \in Threads :
            \/ item[t] = n /\ at[t] \notin {"storeNode", "publish"}
            \/ at[t] = "takeNode" /\ cell[gen[t]][Index(gen[t], position[t])] = n})
       + Cardinality({gi \in Claimed : Contents(gi[1])[gi[2]] = n})
       = 1

\* A cell is in one thread's hands, a node in one place.
RingInv == TypeOK /\ CellHeldOnce /\ NodeOnce

\* A pop that gives up on a generation found it empty, or its oldest position
\* claimed by a push that has not published yet.
EmptyIsTrue ==
    \A t \in Threads : at[t] = "popCell" /\ Negative(PopDifference(t)) =>
       \/ Size(gen[t]) = 0
       \/ Pushers(gen[t], dequeue[gen[t]]) # {}

\* A push that gives up on a generation found every cell claimed, or its next
\* cell still in the hands of a pop.
FullIsTrue ==
    \A t \in Threads : at[t] = "pushCell" /\ Negative(PushDifference(t)) =>
       \/ Size(gen[t]) = Cap(gen[t])
       \/ \E u \in Threads : /\ at[u] \in {"takeNode", "vacate"} /\ gen[u] = gen[t]
                             /\ Plus(position[u], Cap(gen[t])) = enqueue[gen[t]]

\* try_pop and try_push refuse only what they may refuse.
RefusalsAreTrue == EmptyIsTrue /\ FullIsTrue
=============================================================================
