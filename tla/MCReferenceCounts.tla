------------------------- MODULE MCReferenceCounts -------------------------
(* Three parts of the runtime that count who still needs a piece of memory, *)
(* the owners of an object (StrongPtr), the regions of an extent            *)
(* (RegionBacking) and the plates and blocks of a slab allocator            *)
(* (SlabAllocator).  They share no state and are checked by one run: part   *)
(* says which of them moves, the others keep their initial state.  Values   *)
(* are in the .cfg.                                                         *)
EXTENDS StrongPtr, TLC

CONSTANTS Threads, Extents, Span, Promotion, Limit, MaxCalls,
          Users, Blocks, Mappings, PlatesEach, Homes, Capacity, Budget,
          Slots, EmptySlots, MaxSlowCalls, Alone

VARIABLES part,
          mapped, references, size, unissued, active, pool, issuedCount, out,
          place, extent, region, span, calls,
          free, issued, stored, empty, credit, remaining,
          node, secondary, cursor, home, disabled, todo, plate, slowCalls

backingVars == <<mapped, references, size, unissued, active, pool, issuedCount, out,
                 place, extent, region, span, calls>>
slabVars == <<free, issued, stored, empty, credit, remaining,
              node, secondary, cursor, home, disabled, todo, plate, slowCalls>>

Backing == INSTANCE RegionBacking WITH at <- place
Slab == INSTANCE SlabAllocator
           WITH Threads <- Users, MaxCalls <- MaxSlowCalls, calls <- slowCalls

ASSUME BackingAssumption == Backing!ConstantTypes
ASSUME SlabAssumption == Slab!SlabSizes

\* Pointers of a kind and the threads of the slab allocator are interchangeable, and
\* no liveness is checked.
Interchangeable ==
    Permutations(Strong) \cup Permutations(Weak \ Inside) \cup Permutations(Users)

MCInit == /\ Init /\ Backing!Init /\ Slab!Init
          /\ part \in {"pointers", "regions", "blocks"}

MCNext == \/ part = "pointers" /\ Next /\ UNCHANGED <<part, backingVars, slabVars>>
          \/ part = "regions" /\ Backing!Next /\ UNCHANGED <<part, vars, slabVars>>
          \/ part = "blocks" /\ Slab!Next /\ UNCHANGED <<part, vars, backingVars>>

MCSpec == MCInit /\ [][MCNext]_<<part, vars, backingVars, slabVars>>

\* The allocator's books are true: an extent is mapped exactly as long as it is
\* referred to, every plate and block is in one place, and a home's credit is what its
\* plates hold.
AllocatorExact ==
    CASE part = "regions" -> Backing!PoolInv /\ Backing!ReferencesExact
      [] part = "blocks" -> Slab!SlabInv
      [] OTHER -> TRUE

\* A region given out is nobody else's and stays mapped until it is given back.
RegionsStayMapped == Backing!KeepsPromise
=============================================================================
