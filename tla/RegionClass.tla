----------------------------- MODULE RegionClass -----------------------------
(***************************************************************************)
(* Layer 3 of the allocator, runtime/sources/allocation_regions.qxs: the   *)
(* regions of one size class, refilled from and returned to by all threads.*)
(*                                                                         *)
(* A control is found on one of three lists, may have a region attached,   *)
(* and is locked as RegionControl shows: shared for claiming and returning *)
(* slots, exclusively for attaching, marking full and retiring.  Sections  *)
(* under the class mutex are one step each.  A bitmap word holds one slot  *)
(* here; slots of one word are claimed and returned at once in the code.   *)
(* Layer 4 (RegionBacking) gives any free region, or none.                 *)
(***************************************************************************)
EXTENDS Naturals, FiniteSets, Sequences, SequencesExt

CONSTANTS Threads, Controls, Regions, None,
          SlotCount, \* payload slots of a region
          PlateSize, \* slots a refill wants
          MaxCalls   \* bound: refills and returns begun

ASSUME ConstantTypes ==
    /\ IsFiniteSet(Threads)
    /\ None \notin Controls \cup Regions
    /\ {SlotCount, PlateSize} \subseteq Nat \ {0}
    /\ MaxCalls \in Nat

Slots == Regions \X (1..SlotCount)

VARIABLES available, detached, \* lists of controls, first to last
          issued,              \* the set of controls on the third list
          regionOf,  \* control.region
          controlOf, \* region.control
          flag,      \* region.available
          bits,      \* the slots set in the bitmaps
          exclusive, readers, \* the control's semaphore
          free,      \* regions in layer 4
          out,       \* slots owned above this layer
          at,        \* where each thread stands
          control, region,    \* its locals
          cache,     \* slots of its plate, claimed or still to be returned
          word,      \* the bitmap word it is at
          initial,   \* slots in the plate when the scan began
          calls

lists == <<available, detached, issued>>
attachment == <<regionOf, controlOf, flag>>
semaphore == <<exclusive, readers>>
locals == <<control, region, cache, word, initial>>
vars == <<lists, attachment, bits, semaphore, free, out, at, locals, calls>>

RefillPlaces == {"select", "controls", "share", "look", "load", "claim", "scanned",
                 "unshare", "tryFull", "drainFull", "testFull", "tryAttach",
                 "drainAttach", "attach", "publish"}
ReturnPlaces == {"access", "clear", "raise", "scanEmpty", "leave", "leaveEmpty",
                 "tryRetire", "drainRetire", "testRetire", "giveBack"}

TypeOK ==
    /\ {available, detached} \subseteq Seq(Controls) /\ issued \subseteq Controls
    /\ regionOf \in [Controls -> Regions \cup {None}]
    /\ controlOf \in [Regions -> Controls \cup {None}]
    /\ flag \in [Regions -> BOOLEAN] /\ exclusive \in [Controls -> BOOLEAN]
    /\ readers \in [Controls -> 0..Cardinality(Threads)]
    /\ bits \subseteq Slots /\ out \subseteq Slots /\ free \subseteq Regions
    /\ at \in [Threads -> {"out", "unclaim"} \cup RefillPlaces \cup ReturnPlaces]
    /\ control \in [Threads -> Controls \cup {None}]
    /\ region \in [Threads -> Regions \cup {None}]
    /\ cache \in [Threads -> SUBSET Slots]
    /\ word \in [Threads -> 1..SlotCount + 1]
    /\ initial \in [Threads -> 0..PlateSize]

Init ==
    /\ available = <<>> /\ detached = <<>> /\ issued = {}
    /\ regionOf = [c \in Controls |-> None]
    /\ controlOf = [r \in Regions |-> None]
    /\ flag = [r \in Regions |-> FALSE]
    /\ bits = {} /\ out = {} /\ free = Regions
    /\ exclusive = [c \in Controls |-> FALSE]
    /\ readers = [c \in Controls |-> 0]
    /\ at = [t \in Threads |-> "out"]
    /\ control = [t \in Threads |-> None]
    /\ region = [t \in Threads |-> None]
    /\ cache = [t \in Threads |-> {}]
    /\ word = [t \in Threads |-> 1]
    /\ initial = [t \in Threads |-> 0]
    /\ calls = 0

Set(f, t, value) == f' = [f EXCEPT ![t] = value]
Goto(t, place) == Set(at, t, place)
Slot(t) == <<region[t], word[t]>>

\* unlink and layer3_region_insert, under the class mutex.
Unlinked(list, c) ==
    IF \E i \in DOMAIN list : list[i] = c
    THEN RemoveAt(list, CHOOSE i \in DOMAIN list : list[i] = c)
    ELSE list

ToFront(c) == /\ available' = <<c>> \o Unlinked(available, c)
              /\ detached' = Unlinked(detached, c)
              /\ issued' = issued \ {c}
ToBack(c) == /\ available' = Unlinked(available, c) \o <<c>>
             /\ detached' = Unlinked(detached, c)
             /\ issued' = issued \ {c}
ToIssued(c) == /\ available' = Unlinked(available, c)
               /\ detached' = Unlinked(detached, c)
               /\ issued' = issued \cup {c}
ToDetached(c) == /\ available' = Unlinked(available, c)
                 /\ detached' = Unlinked(detached, c) \o <<c>>
                 /\ issued' = issued \ {c}

\* The call ends; what the plate holds is its caller's.
End(t) ==
    /\ Goto(t, "out")
    /\ out' = out \cup cache[t]
    /\ Set(cache, t, {}) /\ Set(control, t, None) /\ Set(region, t, None)
    /\ Set(word, t, 1) /\ Set(initial, t, 0)

-----------------------------------------------------------------------------
\* The region semaphore.
TryShared(t, from, to, otherwise) ==
    LET c == control[t] IN
    /\ at[t] = from
    /\ IF exclusive[c]
       THEN Goto(t, otherwise) /\ UNCHANGED readers
       ELSE Goto(t, to) /\ Set(readers, c, readers[c] + 1)
    /\ UNCHANGED <<lists, attachment, bits, exclusive, free, out, locals, calls>>

ReleaseShared(t, from, to) ==
    /\ at[t] = from
    /\ Set(readers, control[t], readers[control[t]] - 1)
    /\ Goto(t, to)
    /\ UNCHANGED <<lists, attachment, bits, exclusive, free, out, locals, calls>>

\* try_exclusive claims, then waits until the readers have left.
ClaimExclusive(t, from, to, otherwise) ==
    LET c == control[t] IN
    /\ at[t] = from
    /\ IF exclusive[c]
       THEN Goto(t, otherwise) /\ UNCHANGED exclusive
       ELSE Goto(t, to) /\ Set(exclusive, c, TRUE)
    /\ UNCHANGED <<lists, attachment, bits, readers, free, out, locals, calls>>

Drain(t, from, to) ==
    /\ at[t] = from
    /\ readers[control[t]] = 0
    /\ Goto(t, to)
    /\ UNCHANGED <<lists, attachment, bits, semaphore, free, out, locals, calls>>

\* release_exclusive, in refill or at the end of a return.
Unclaim(t) ==
    /\ at[t] \in {"unclaim", "giveBack"}
    /\ at[t] = "giveBack" => region[t] = None
    /\ Set(exclusive, control[t], FALSE)
    /\ IF at[t] = "unclaim"
       THEN Goto(t, "select") /\ UNCHANGED <<out, locals>>
       ELSE End(t)
    /\ UNCHANGED <<lists, attachment, bits, readers, free, calls>>

-----------------------------------------------------------------------------
\* layer3_region_refill, until a control is chosen or found missing.
Refill(t) ==
    /\ at[t] = "out" /\ calls < MaxCalls
    /\ calls' = calls + 1
    /\ Goto(t, "select")
    /\ UNCHANGED <<lists, attachment, bits, semaphore, free, out, locals>>

RefillDone(t) ==
    /\ at[t] = "select" /\ Cardinality(cache[t]) = PlateSize
    /\ End(t)
    /\ UNCHANGED <<lists, attachment, bits, semaphore, free, calls>>

\* The first control of the list nobody has claimed; with all of them claimed
\* the thread yields and looks again.
Select(t) ==
    /\ at[t] = "select" /\ Cardinality(cache[t]) < PlateSize
    /\ \/ \E i \in DOMAIN available :
             /\ ~exclusive[available[i]]
             /\ \A j \in 1..i - 1 : exclusive[available[j]]
             /\ Set(control, t, available[i]) /\ Goto(t, "share")
       \/ /\ available = <<>> /\ detached # <<>>
          /\ Set(control, t, Head(detached)) /\ Goto(t, "tryAttach")
       \/ /\ available = <<>> /\ detached = <<>>
          /\ Goto(t, "controls") /\ UNCHANGED control
    /\ UNCHANGED <<lists, attachment, bits, semaphore, free, out, region, cache, word,
                   initial, calls>>

\* layer3_region_controls: a new control, where the code makes a chunk of them;
\* another thread may have made some meanwhile.
CreateControls(t, c) ==
    /\ at[t] = "controls"
    /\ c \notin issued \cup ToSet(available) \cup ToSet(detached)
    /\ detached' = Append(detached, c)
    /\ Goto(t, "select")
    /\ UNCHANGED <<available, issued, attachment, bits, semaphore, free, out, locals,
                   calls>>

ControlsFail(t) ==
    /\ at[t] = "controls"
    /\ End(t)
    /\ UNCHANGED <<lists, attachment, bits, semaphore, free, calls>>

-----------------------------------------------------------------------------
\* A detached control gets a region.
Attach(t) ==
    /\ at[t] = "attach" /\ regionOf[control[t]] = None
    /\ \E r \in free :
          /\ free' = free \ {r}
          /\ Set(region, t, r)
          /\ Set(controlOf, r, control[t])
          /\ bits' = bits \ ({r} \X (1..SlotCount))
          /\ Set(flag, r, FALSE)
    /\ Goto(t, "publish")
    /\ UNCHANGED <<lists, regionOf, semaphore, out, control, cache, word, initial,
                   calls>>

AttachedAlready(t) ==
    /\ at[t] = "attach" /\ regionOf[control[t]] # None
    /\ Goto(t, "unclaim")
    /\ UNCHANGED <<lists, attachment, bits, semaphore, free, out, locals, calls>>

AttachFailsClaimed(t) == \* mutant: the access is not given up
    /\ at[t] = "attach" /\ regionOf[control[t]] = None
    /\ End(t)
    /\ UNCHANGED <<lists, attachment, bits, semaphore, free, calls>>

\* Layer 4 has no memory: the control stays detached and the refill fails.
AttachFails(t) ==
    /\ at[t] = "attach" /\ regionOf[control[t]] = None
    /\ Set(exclusive, control[t], FALSE)
    /\ End(t)
    /\ UNCHANGED <<lists, attachment, bits, readers, free, calls>>

Publish(t) ==
    /\ at[t] = "publish"
    /\ Set(regionOf, control[t], region[t])
    /\ ToFront(control[t])
    /\ Set(flag, region[t], TRUE)
    /\ Goto(t, "unclaim")
    /\ UNCHANGED <<controlOf, bits, semaphore, free, out, locals, calls>>

-----------------------------------------------------------------------------
\* Slots are claimed under shared access; the region may be gone by then.
Look(t) ==
    LET r == regionOf[control[t]] IN
    /\ at[t] = "look"
    /\ IF r = None
       THEN /\ Set(readers, control[t], readers[control[t]] - 1)
            /\ Goto(t, "select")
            /\ UNCHANGED <<region, word, initial>>
       ELSE /\ Set(region, t, r) /\ Set(word, t, 1)
            /\ Set(initial, t, Cardinality(cache[t]))
            /\ Goto(t, "load")
            /\ UNCHANGED readers
    /\ UNCHANGED <<lists, attachment, bits, exclusive, free, out, control, cache, calls>>

LoadWord(t) ==
    /\ at[t] = "load"
    /\ IF word[t] > SlotCount \/ Cardinality(cache[t]) = PlateSize
       THEN Goto(t, "scanned") /\ UNCHANGED word
       ELSE IF Slot(t) \in bits
       THEN Set(word, t, word[t] + 1) /\ UNCHANGED at
       ELSE Goto(t, "claim") /\ UNCHANGED word
    /\ UNCHANGED <<lists, attachment, bits, semaphore, free, out, control, region,
                   cache, initial, calls>>

ClaimBlindly(t) == \* mutant: STORE instead of COMPARE_EXCHANGE
    /\ at[t] = "claim"
    /\ bits' = bits \cup {Slot(t)}
    /\ Set(cache, t, cache[t] \cup {Slot(t)})
    /\ Goto(t, "load")
    /\ UNCHANGED <<lists, attachment, semaphore, free, out, control, region, word,
                   initial, calls>>

\* COMPARE_EXCHANGE; a failure shows the word as it is.
Claim(t) ==
    /\ at[t] = "claim"
    /\ IF Slot(t) \in bits
       THEN UNCHANGED <<bits, cache>>
       ELSE /\ bits' = bits \cup {Slot(t)}
            /\ Set(cache, t, cache[t] \cup {Slot(t)})
    /\ Goto(t, "load")
    /\ UNCHANGED <<lists, attachment, semaphore, free, out, control, region, word,
                   initial, calls>>

\* A region that gave nothing goes to the end of the list.
Scanned(t) ==
    /\ at[t] = "scanned"
    /\ Goto(t, "unshare")
    /\ IF Cardinality(cache[t]) = initial[t] /\ flag[region[t]]
       THEN ToBack(control[t])
       ELSE UNCHANGED lists
    /\ UNCHANGED <<attachment, bits, semaphore, free, out, locals, calls>>

IssueUntested(t) == \* mutant: a region is taken for full without looking again
    LET r == regionOf[control[t]] IN
    /\ at[t] = "testFull"
    /\ IF r # None
       THEN ToIssued(control[t]) /\ Set(flag, r, FALSE)
       ELSE UNCHANGED <<lists, flag>>
    /\ Goto(t, "unclaim")
    /\ UNCHANGED <<regionOf, controlOf, bits, semaphore, free, out, locals, calls>>

\* Under exclusive access a full region leaves the list.
Issue(t) ==
    LET r == regionOf[control[t]] IN
    /\ at[t] = "testFull"
    /\ IF r # None /\ {r} \X (1..SlotCount) \subseteq bits
       THEN ToIssued(control[t]) /\ Set(flag, r, FALSE)
       ELSE UNCHANGED <<lists, flag>>
    /\ Goto(t, "unclaim")
    /\ UNCHANGED <<regionOf, controlOf, bits, semaphore, free, out, locals, calls>>

-----------------------------------------------------------------------------
\* layer3_region_return_batch of slots of one region.
ReturnBatch(t, r) ==
    /\ at[t] = "out" /\ calls < MaxCalls
    /\ \E batch \in SUBSET (out \cap ({r} \X (1..SlotCount))) :
          batch # {} /\ out' = out \ batch /\ Set(cache, t, batch)
    /\ calls' = calls + 1
    /\ Set(region, t, r) /\ Set(control, t, controlOf[r])
    /\ Goto(t, "access")
    /\ UNCHANGED <<lists, attachment, bits, semaphore, free, word, initial>>

\* shared() waits while somebody has exclusive access.
Access(t) == /\ at[t] = "access" /\ ~exclusive[control[t]]
             /\ TryShared(t, "access", "clear", "access")

\* The slots of one word; the first ones cleared may be claimed already while
\* the others are still set.
ClearWord(t) ==
    /\ at[t] = "clear"
    /\ \E s \in cache[t] :
          /\ \A other \in cache[t] : s[2] <= other[2]
          /\ bits' = bits \ {s}
          /\ Set(cache, t, cache[t] \ {s})
          /\ IF cache[t] = {s} THEN Goto(t, "raise") ELSE UNCHANGED at
    /\ UNCHANGED <<lists, attachment, semaphore, free, out, control, region, word,
                   initial, calls>>

\* A region that was full is available again; the flag is read before and again
\* under the mutex.
Raise(t) ==
    /\ at[t] = "raise"
    /\ IF flag[region[t]]
       THEN UNCHANGED <<lists, flag>>
       ELSE ToFront(control[t]) /\ Set(flag, region[t], TRUE)
    /\ Set(word, t, 1) /\ Goto(t, "scanEmpty")
    /\ UNCHANGED <<regionOf, controlOf, bits, semaphore, free, out, control, region,
                   cache, initial, calls>>

\* layer3_region_empty, word by word, with other threads at work.
ScanEmpty(t) ==
    /\ at[t] = "scanEmpty"
    /\ IF word[t] > SlotCount
       THEN Goto(t, "leaveEmpty") /\ UNCHANGED word
       ELSE IF Slot(t) \in bits
       THEN Goto(t, "leave") /\ UNCHANGED word
       ELSE Set(word, t, word[t] + 1) /\ UNCHANGED at
    /\ UNCHANGED <<lists, attachment, bits, semaphore, free, out, control, region,
                   cache, initial, calls>>

Leave(t) ==
    /\ at[t] = "leave"
    /\ Set(readers, control[t], readers[control[t]] - 1)
    /\ End(t)
    /\ UNCHANGED <<lists, attachment, bits, exclusive, free, calls>>

\* layer3_region_retire, when nobody else has claimed the control.
GiveUpRetire(t) ==
    /\ at[t] = "tryRetire" /\ exclusive[control[t]]
    /\ End(t)
    /\ UNCHANGED <<lists, attachment, bits, semaphore, free, calls>>

ClaimRetire(t) == /\ at[t] = "tryRetire" /\ ~exclusive[control[t]]
                  /\ ClaimExclusive(t, "tryRetire", "drainRetire", "tryRetire")

RetireUntested(t) == \* mutant: the region is not looked at again
    LET r == regionOf[control[t]] IN
    /\ at[t] = "testRetire"
    /\ IF r # None
       THEN /\ Set(flag, r, FALSE)
            /\ Set(regionOf, control[t], None)
            /\ ToDetached(control[t])
       ELSE UNCHANGED <<lists, flag, regionOf>>
    /\ Set(region, t, r)
    /\ Goto(t, "giveBack")
    /\ UNCHANGED <<controlOf, bits, semaphore, free, out, control, cache, word,
                   initial, calls>>

\* Under exclusive access the region is looked at again: the control may have
\* another one by now, or slots may have been claimed.
Retire(t) ==
    LET r == regionOf[control[t]]
        empty == r # None /\ bits \cap ({r} \X (1..SlotCount)) = {}
    IN
    /\ at[t] = "testRetire"
    /\ IF empty
       THEN /\ Set(flag, r, FALSE)
            /\ Set(regionOf, control[t], None)
            /\ ToDetached(control[t])
       ELSE UNCHANGED <<lists, flag, regionOf>>
    /\ Set(region, t, IF empty THEN r ELSE None)
    /\ Goto(t, "giveBack")
    /\ UNCHANGED <<controlOf, bits, semaphore, free, out, control, cache, word,
                   initial, calls>>

\* layer4_region_release.
GiveBack(t) ==
    /\ at[t] = "giveBack" /\ region[t] # None
    /\ free' = free \cup {region[t]}
    /\ Set(region, t, None)
    /\ UNCHANGED <<lists, attachment, bits, semaphore, out, at, control, cache,
                   word, initial, calls>>

-----------------------------------------------------------------------------
RefillStep(t) ==
    \/ RefillDone(t) \/ Select(t) \/ ControlsFail(t)
    \/ TryShared(t, "share", "look", "select") \/ Look(t)
    \/ LoadWord(t) \/ Claim(t) \/ Scanned(t)
    \/ ReleaseShared(t, "unshare",
                     IF Cardinality(cache[t]) < PlateSize THEN "tryFull" ELSE "select")
    \/ ClaimExclusive(t, "tryFull", "drainFull", "select")
    \/ Drain(t, "drainFull", "testFull") \/ Issue(t)
    \/ ClaimExclusive(t, "tryAttach", "drainAttach", "select")
    \/ Drain(t, "drainAttach", "attach")
    \/ Attach(t) \/ AttachedAlready(t) \/ AttachFails(t) \/ Publish(t)
    \/ \E c \in Controls : CreateControls(t, c)

ReturnStep(t) ==
    \/ Access(t) \/ ClearWord(t) \/ Raise(t) \/ ScanEmpty(t) \/ Leave(t)
    \/ ReleaseShared(t, "leaveEmpty", "tryRetire")
    \/ GiveUpRetire(t) \/ ClaimRetire(t)
    \/ Drain(t, "drainRetire", "testRetire") \/ Retire(t) \/ GiveBack(t)

Next == \E t \in Threads :
    \/ Refill(t) \/ RefillStep(t) \/ ReturnStep(t) \/ Unclaim(t)
    \/ \E r \in Regions : ReturnBatch(t, r)

\* Every thread that can go on does.
Fairness == \A t \in Threads :
    WF_vars(RefillStep(t) \/ ReturnStep(t) \/ Unclaim(t))

Spec == Init /\ [][Next]_vars /\ Fairness

-----------------------------------------------------------------------------

\* Every bit set has one owner and every owned slot has its bit set: no slot is
\* handed out twice, none is lost, whatever interrupts a refill or a return.
SlotsAccounted ==
    /\ bits = out \cup UNION {cache[t] : t \in Threads}
    /\ \A t \in Threads : cache[t] \cap out = {}
    /\ \A t, u \in Threads : t # u => cache[t] \cap cache[u] = {}

\* The region of a slot somebody owns is attached, and its header leads the
\* returner to the right control.
OwnedSlotsAttached ==
    \A s \in bits : controlOf[s[1]] # None /\ regionOf[controlOf[s[1]]] = s[1]

InHand == {region[t] : t \in {u \in Threads : at[u] \in {"publish", "giveBack"}}}

\* Each region is in layer 4, attached to one control, or on its way between;
\* and nobody reads or writes a region that is in layer 4.
RegionsAccounted ==
    /\ \A r \in Regions :
          Cardinality({c \in Controls : regionOf[c] = r})
          + (IF r \in free THEN 1 ELSE 0) + (IF r \in InHand THEN 1 ELSE 0) = 1
    /\ \A t \in Threads :
          at[t] \in {"load", "claim", "scanned", "access", "clear", "raise", "scanEmpty"}
             => region[t] \notin free

\* Each control is on one list only: with a region on the list its flag tells,
\* without one on the detached list.
ListsTellTruth ==
    /\ Len(available) = Cardinality(ToSet(available))
    /\ Len(detached) = Cardinality(ToSet(detached))
    /\ \A c \in Controls :
          /\ c \in ToSet(available) <=> regionOf[c] # None /\ flag[regionOf[c]]
          /\ c \in issued <=> regionOf[c] # None /\ ~flag[regionOf[c]]
          /\ c \in ToSet(detached) => regionOf[c] = None

\* Slots, their owners, regions, controls and lists agree about who belongs to
\* whom.
ClassInv == /\ TypeOK /\ SlotsAccounted /\ OwnedSlotsAttached /\ RegionsAccounted
            /\ ListsTellTruth

\* A region with a slot to give is on the available list, unless the thread
\* that has just returned the slot is about to put it there.
FreeSlotsAreFound ==
    \A c \in issued :
       \/ {regionOf[c]} \X (1..SlotCount) \subseteq bits
       \/ \E t \in Threads : control[t] = c /\ at[t] \in {"clear", "raise"}

\* Every refill ends, with a plate or in failure, and every return ends.
CallsEnd == \A t \in Threads : at[t] # "out" ~> at[t] = "out"
=============================================================================
