--------------------------- MODULE MCThreadMemory ---------------------------
(* Two parts of the runtime's memory management that share no state, the   *)
(* objects and caches of one thread (PerThread) and the queue by which     *)
(* threads hand memory over (TransferQueue), checked by one run: part says *)
(* which of them moves, the other keeps its initial state.  Values are in  *)
(* the .cfg.                                                               *)
EXTENDS PerThread, TLC

CONSTANTS Threads, Nodes, None, SlotCount, Generations, W, Start0, MaxPushes

VARIABLES part,
          head, enqueue, dequeue, sequence, cell, held, at, item, gen, base,
          position, pushes

queueVars == <<head, enqueue, dequeue, sequence, cell, held, at, item, gen, base,
               position, pushes>>

Queue == INSTANCE TransferQueue WITH Start <- Start0

ASSUME QueueAssumption == Queue!QueueSizes

\* Threads and nodes are interchangeable, and no liveness is checked.
Interchangeable == Permutations(Threads) \cup Permutations(Nodes)

\* The part that does not move starts in one way only.
MCInit == /\ Init /\ Queue!Init /\ part \in {"objects", "queue"}
          /\ part = "queue" => platform = CHOOSE p \in Platforms : TRUE
          /\ part = "objects" => \E t \in Threads : held[t] = Nodes

MCNext == \/ part = "objects" /\ Next /\ UNCHANGED <<part, queueVars>>
          \/ part = "queue" /\ Queue!Next /\ UNCHANGED <<part, vars>>

MCSpec == MCInit /\ [][MCNext]_<<part, vars, queueVars>>

\* The cells of the queue are held once, its nodes are in one place, and a push
\* or pop that gives up was right to.
QueueTellsTruth == Queue!RingInv /\ Queue!RefusalsAreTrue

\* Each generation of the queue is a bounded FIFO that loses nothing.
GenerationsAreFIFO == Queue!GenerationsAreFIFO
=============================================================================
