---------------------------- MODULE RegionBacking ----------------------------
(***************************************************************************)
(* Layer 4 of the allocator, runtime/sources/allocation_regions.qxs: the   *)
(* pool of regions shared by all size classes.  A region is a part of an   *)
(* extent, a mapping that lives as long as it is referred to: once for its *)
(* inventory of regions never issued, and once for each region issued.     *)
(* Up to Limit regions given back are kept with their references.          *)
(*                                                                         *)
(* Sections under the pool's mutex are one step each.  An extent stands    *)
(* for its address, which the system may map again after it was unmapped.  *)
(***************************************************************************)
EXTENDS Naturals, Sequences, FiniteSets

CONSTANTS Threads, Extents, None,
          Span,      \* regions in an extent of the larger size
          Promotion, \* issued regions from which larger extents are mapped
          Limit,     \* regions kept in the pool
          MaxCalls   \* bound: acquisitions and releases begun

Regions == Extents \X (1..Span)

\* Assumed by the instances.
ConstantTypes ==
    /\ IsFiniteSet(Threads) /\ IsFiniteSet(Extents)
    /\ None \notin Extents \cup Regions
    /\ Span \in Nat \ {0, 1} /\ {Promotion, Limit, MaxCalls} \subseteq Nat

VARIABLES mapped,     \* mapped extents
          references, \* extent.references
          size,       \* regions an extent was made with
          unissued,   \* extent.unissued
          active,     \* the extent regions are issued from
          pool,       \* the stack of regions kept
          issuedCount,
          out,        \* regions layer 3 has
          at, extent, region, span, \* where each thread is, and its locals
          calls

extents == <<mapped, references, size, unissued>>
shared == <<active, pool, issuedCount>>
vars == <<extents, shared, out, at, extent, region, span, calls>>

Places == {"out", "take", "create", "count", "install", "drop", "unmap"}

TypeOK ==
    /\ mapped \subseteq Extents
    /\ references \in [Extents -> 0..Span + 1]
    /\ size \in [Extents -> 0..Span] /\ unissued \in [Extents -> 0..Span]
    /\ active \in Extents \cup {None}
    /\ pool \in Seq(Regions) /\ Len(pool) <= Limit
    /\ issuedCount \in 0..Cardinality(Regions)
    /\ out \subseteq Regions
    /\ at \in [Threads -> Places]
    /\ extent \in [Threads -> Extents \cup {None}]
    /\ region \in [Threads -> Regions \cup {None}]
    /\ span \in [Threads -> {0, 1, Span}]

Init ==
    /\ mapped = {}
    /\ references = [e \in Extents |-> 0]
    /\ size = [e \in Extents |-> 0] /\ unissued = [e \in Extents |-> 0]
    /\ active = None /\ pool = <<>> /\ issuedCount = 0
    /\ out = {}
    /\ at = [t \in Threads |-> "out"]
    /\ extent = [t \in Threads |-> None]
    /\ region = [t \in Threads |-> None]
    /\ span = [t \in Threads |-> 0]
    /\ calls = 0

Set(f, t, value) == f' = [f EXCEPT ![t] = value]

\* The call returns, with a region unless it is None.
End(t, r) ==
    /\ Set(at, t, "out")
    /\ Set(extent, t, None) /\ Set(region, t, None) /\ Set(span, t, 0)
    /\ out' = IF r = None THEN out ELSE out \cup {r}

-----------------------------------------------------------------------------
\* layer4_region_acquire.
Acquire(t) ==
    /\ at[t] = "out" /\ calls < MaxCalls
    /\ calls' = calls + 1
    /\ Set(at, t, "take")
    /\ UNCHANGED <<extents, shared, out, extent, region, span>>

TakePooled(t) ==
    /\ at[t] = "take" /\ pool # <<>>
    /\ pool' = Tail(pool)
    /\ issuedCount' = issuedCount + 1
    /\ End(t, Head(pool))
    /\ UNCHANGED <<extents, active, calls>>

TakeUncounted(t) == \* mutant: the region issued takes no reference
    /\ at[t] = "take" /\ pool = <<>> /\ active # None
    /\ Set(unissued, active, unissued[active] - 1)
    /\ issuedCount' = issuedCount + 1
    /\ LET r == <<active, size[active] - unissued[active] + 1>> IN
       IF unissued[active] = 1
       THEN /\ active' = None
            /\ Set(region, t, r) /\ Set(extent, t, active)
            /\ Set(at, t, "drop")
            /\ UNCHANGED <<out, span>>
       ELSE End(t, r) /\ UNCHANGED active
    /\ UNCHANGED <<mapped, references, size, pool, calls>>

\* The next region of the active extent; with the last one goes the inventory.
TakeFromActive(t) ==
    /\ at[t] = "take" /\ pool = <<>> /\ active # None
    /\ Set(unissued, active, unissued[active] - 1)
    /\ Set(references, active, references[active] + 1)
    /\ issuedCount' = issuedCount + 1
    /\ LET r == <<active, size[active] - unissued[active] + 1>> IN
       IF unissued[active] = 1
       THEN /\ active' = None
            /\ Set(region, t, r) /\ Set(extent, t, active)
            /\ Set(at, t, "drop")
            /\ UNCHANGED <<out, span>>
       ELSE End(t, r) /\ UNCHANGED active
    /\ UNCHANGED <<mapped, size, pool, calls>>

ChooseSpan(t) ==
    /\ at[t] = "take" /\ pool = <<>> /\ active = None
    /\ Set(span, t, IF issuedCount >= Promotion THEN Span ELSE 1)
    /\ Set(at, t, "create")
    /\ UNCHANGED <<extents, shared, out, extent, region, calls>>

\* layer4_extent_create, outside the mutex, with the smaller size where memory
\* for the larger one cannot be had.  The one region of a small extent takes
\* over the inventory's reference.
Create(t, e) ==
    /\ at[t] = "create" /\ e \notin mapped
    /\ mapped' = mapped \cup {e}
    /\ Set(references, e, 1)
    /\ Set(extent, t, e)
    /\ \E n \in {1, span[t]} :
          /\ Set(size, e, n)
          /\ Set(unissued, e, IF n = 1 THEN 0 ELSE n)
          /\ Set(at, t, IF n = 1 THEN "count" ELSE "install")
          /\ Set(region, t, IF n = 1 THEN <<e, 1>> ELSE None)
    /\ UNCHANGED <<shared, out, span, calls>>

CreateFails(t) ==
    /\ at[t] = "create"
    /\ End(t, None)
    /\ UNCHANGED <<extents, shared, calls>>

CountSole(t) ==
    /\ at[t] = "count"
    /\ issuedCount' = issuedCount + 1
    /\ End(t, region[t])
    /\ UNCHANGED <<extents, active, pool, calls>>

InstallAnyhow(t) == \* mutant: an extent installed meanwhile is replaced
    /\ at[t] = "install"
    /\ active' = extent[t]
    /\ Set(at, t, "take") /\ Set(extent, t, None)
    /\ UNCHANGED <<extents, pool, issuedCount, out, region, span, calls>>

\* The extent becomes the active one, unless another thread was faster.
Install(t) ==
    /\ at[t] = "install"
    /\ IF active = None
       THEN active' = extent[t] /\ Set(at, t, "take") /\ Set(extent, t, None)
       ELSE Set(at, t, "drop") /\ UNCHANGED <<active, extent>>
    /\ UNCHANGED <<extents, pool, issuedCount, out, region, span, calls>>

-----------------------------------------------------------------------------
\* layer4_region_release.
Release(t, r) ==
    /\ at[t] = "out" /\ r \in out /\ calls < MaxCalls
    /\ calls' = calls + 1
    /\ out' = out \ {r}
    /\ issuedCount' = issuedCount - 1
    /\ IF Len(pool) < Limit
       THEN pool' = <<r>> \o pool /\ UNCHANGED <<at, extent>>
       ELSE Set(at, t, "drop") /\ Set(extent, t, r[1]) /\ UNCHANGED pool
    /\ UNCHANGED <<extents, active, region, span>>

\* After layer4_extent_release: a release returns, an acquisition returns its
\* region, or starts over when the extent dropped was its own surplus one.
Dropped(t) ==
    IF span[t] = 0 \/ region[t] # None
    THEN End(t, region[t])
    ELSE Set(at, t, "take") /\ Set(extent, t, None) /\ UNCHANGED <<out, region, span>>

Drop(t) ==
    /\ at[t] = "drop"
    /\ Set(references, extent[t], references[extent[t]] - 1)
    /\ IF references[extent[t]] = 1
       THEN Set(at, t, "unmap") /\ UNCHANGED <<out, extent, region, span>>
       ELSE Dropped(t)
    /\ UNCHANGED <<mapped, size, unissued, shared, calls>>

Unmap(t) ==
    /\ at[t] = "unmap"
    /\ mapped' = mapped \ {extent[t]}
    /\ Set(size, extent[t], 0) /\ Set(unissued, extent[t], 0)
    /\ Dropped(t)
    /\ UNCHANGED <<references, shared, calls>>

-----------------------------------------------------------------------------
Step(t) == \/ TakePooled(t) \/ TakeFromActive(t) \/ ChooseSpan(t)
           \/ CreateFails(t) \/ (\E e \in Extents : Create(t, e))
           \/ CountSole(t) \/ Install(t) \/ Drop(t) \/ Unmap(t)

Next == \E t \in Threads :
    Acquire(t) \/ Step(t) \/ \E r \in Regions : Release(t, r)

\* Every thread that can go on does.
Fairness == \A t \in Threads : WF_vars(Step(t))

Spec == Init /\ [][Next]_vars /\ Fairness

-----------------------------------------------------------------------------
InHand == {region[t] : t \in Threads} \ {None}
Pooled == {pool[i] : i \in DOMAIN pool}
Referring(e) == {r \in out \cup InHand \cup Pooled : r[1] = e}
Holding(e, places) == {t \in Threads : at[t] \in places /\ extent[t] = e}

\* An extent is referred to by every region issued from it, by its inventory,
\* which is active, not yet installed or about to be dropped, and by a release
\* that has not dropped its region's reference yet; with no reference left it
\* is unmapped.
ReferencesExact ==
    \A e \in Extents :
       /\ references[e] = Cardinality(Referring(e))
             + (IF active = e THEN 1 ELSE 0)
             + Cardinality(Holding(e, {"install", "drop"}))
       /\ e \in mapped <=> references[e] > 0 \/ Holding(e, {"unmap"}) # {}

\* The inventory of an extent is the active one, or on its way there: what was
\* never issued can still be.
InventoryReachable ==
    \A e \in Extents : unissued[e] > 0
       => active = e \/ Holding(e, {"install", "drop", "unmap"}) # {}

\* The count that decides on the size of extents is the number of regions out,
\* but for a thread between taking and counting, or counting and returning.
IssuedExact ==
    issuedCount = Cardinality(out)
       + Cardinality({t \in Threads : at[t] \in {"drop", "unmap"} /\ region[t] # None})

\* The pool's own books are true.
PoolInv == TypeOK /\ InventoryReachable /\ IssuedExact

\* A region given out is nobody else's and stays mapped until it is given back.
MappedRegions == {r \in Regions : r[1] \in mapped /\ r[2] <= size[r[1]]}
Source == INSTANCE RegionSource WITH mapped <- MappedRegions
KeepsPromise == Source!Spec
=============================================================================
