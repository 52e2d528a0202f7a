---------------------- MODULE ReferenceCountsProofs ----------------------
(***************************************************************************)
(* Proofs about StrongPtr for any finite sets of pointers and, in the      *)
(* second half, about RegionBacking for any finite sets of threads and     *)
(* extents and, with SlabProofs, about the allocator of MCReferenceCounts. *)
(***************************************************************************)
EXTENDS SlabProofs

\* What the proofs need of finite sets, in the form the counts use it.
LEMMA Counting ==
  ASSUME NEW S, IsFiniteSet(S)
  PROVE  /\ Cardinality(S) \in Nat
         /\ Cardinality(S) = 0 <=> S = {}
         /\ \A x \in S : Cardinality(S) = 1 <=> S = {x}
         /\ \A x : x \notin S => Cardinality(S \cup {x}) = Cardinality(S) + 1
         /\ \A x \in S : Cardinality(S \ {x}) = Cardinality(S) - 1
<1>1. Cardinality(S) \in Nat
  BY FS_CardinalityType
<1>2. Cardinality(S) = 0 <=> S = {}
  BY FS_EmptySet
<1>3. \A x \in S : Cardinality(S) = 1 <=> S = {x}
  BY FS_Singleton
<1>4. \A x : x \notin S => Cardinality(S \cup {x}) = Cardinality(S) + 1
  BY FS_AddElement
<1>5. \A x \in S : Cardinality(S \ {x}) = Cardinality(S) - 1
  BY FS_RemoveElement
<1> QED
  BY <1>1, <1>2, <1>3, <1>4, <1>5

LEMMA FiniteHolders ==
  /\ IsFiniteSet(Owners) /\ IsFiniteSet(Owners')
  /\ IsFiniteSet(Observers) /\ IsFiniteSet(Observers')
<1>1. Owners \subseteq Strong /\ Owners' \subseteq Strong
  BY DEF Owners
<1>2. Observers \subseteq Weak /\ Observers' \subseteq Weak
  BY DEF Observers
<1> QED
  BY <1>1, <1>2, PointerTypes, FS_Subset

-----------------------------------------------------------------------------
\* The inductive invariant.  Where pointers come from: what is being read holds
\* the block, a lock that goes on has seen an owner.
Provenance ==
    /\ \A w \in Weak : at[w] \notin {"destroy", "dropImplicit"}
    /\ \A x \in Pointers : at[x] \in {"load", "cas"} =>
          source[x] \in Pointers /\ at[source[x]] = "owning"
    /\ \A p \in Strong : at[p] = "cas" => observed[p] # 0

\* The release that found one owner left is the only one to end the object.
LastIsAlone ==
    /\ LastOwner # {} => Owners = {}
    /\ \A p, q \in LastOwner : p = q

Destroying == \E p \in Strong : at[p] = "destroy"
ObjectTold == object = "live" <=> Owners # {} \/ Destroying

Deleting == {x \in Pointers : at[x] = "delete"}
BlockTold ==
    /\ weakCount = 0 <=> block = "freed" \/ Deleting # {}
    /\ block = "freed" => Deleting = {}
    /\ \A x, y \in Deleting : x = y

IInv == TypeOK /\ Provenance /\ CountsExact /\ LastIsAlone
        /\ ObjectTold /\ BlockTold

LEMMA InitIInv == Init => IInv
<1> SUFFICES ASSUME Init PROVE IInv
  OBVIOUS
<1>1. PICK p \in Strong :
         at = [x \in Pointers |-> IF x = p THEN "owning" ELSE "empty"]
  BY DEF Init
<1>2. Owners = {p} /\ Observers = {} /\ LastOwner = {} /\ Deleting = {}
      /\ ~Destroying
  BY <1>1, PointerTypes
  DEF Owners, Observers, LastOwner, Deleting, Destroying, Pointers
<1>3. Cardinality(Owners) = 1 /\ Cardinality(Observers) = 0
  BY <1>2, FS_EmptySet, FS_Singleton
<1>4. TypeOK /\ Provenance
  BY <1>1, PointerTypes DEF Init, TypeOK, Provenance, Places, Pointers
<1>5. CountsExact /\ LastIsAlone /\ ObjectTold /\ BlockTold
  BY <1>2, <1>3 DEF Init, CountsExact, LastIsAlone, ObjectTold, BlockTold
<1> QED
  BY <1>4, <1>5 DEF IInv

-----------------------------------------------------------------------------
\* What each step does to those who hold the block.
Holders == <<Owners, Observers, LastOwner, Deleting, Destroying>>

LEMMA QuietStep ==
  ASSUME IInv, UNCHANGED <<Holders, counts, object, block>>
  PROVE  CountsExact' /\ LastIsAlone' /\ ObjectTold' /\ BlockTold'
BY DEF IInv, Holders, counts, CountsExact, LastIsAlone, ObjectTold, BlockTold

\* A count that somebody is behind is not zero.
LEMMA CountedHolders ==
  ASSUME CountsExact
  PROVE  /\ strongCount \in Nat /\ (strongCount = 0 <=> Owners = {})
         /\ weakCount \in Nat
         /\ weakCount = 0 <=> Owners = {} /\ LastOwner = {} /\ Observers = {}
<1>1. /\ Cardinality(Owners) \in Nat /\ Cardinality(Observers) \in Nat
      /\ Cardinality(Owners) = 0 <=> Owners = {}
      /\ Cardinality(Observers) = 0 <=> Observers = {}
  BY FiniteHolders, Counting
<1> QED
  BY <1>1 DEF CountsExact

LEMMA ProvenanceStep ==
  ASSUME IInv, [Next]_vars
  PROVE  TypeOK' /\ Provenance'
<1> USE PointerTypes DEF IInv, TypeOK, Provenance, Places, Pointers, Goto
<1>1. ASSUME NEW x \in Pointers, Load(x) PROVE TypeOK' /\ Provenance'
  BY <1>1 DEF Load, Observe, Count, counts
<1>2. ASSUME NEW x \in Pointers, Retain(x) PROVE TypeOK' /\ Provenance'
  BY <1>2 DEF Retain, AddTo
<1>3. ASSUME NEW x \in Pointers, RetainFails(x) PROVE TypeOK' /\ Provenance'
  BY <1>3 DEF RetainFails, Observe, Count, counts
<1>4. ASSUME NEW x \in Pointers, Reset(x) PROVE TypeOK' /\ Provenance'
  BY <1>4 DEF Reset, Unread, counts
<1>5. ASSUME NEW x \in Pointers, ReleaseStrong(x) PROVE TypeOK' /\ Provenance'
  <2>1. strongCount # 0
    BY <1>5, CountedHolders DEF ReleaseStrong, Owners
  <2> QED
    BY <1>5, <2>1 DEF ReleaseStrong
<1>6. ASSUME NEW x \in Pointers, ReleaseWeak(x) PROVE TypeOK' /\ Provenance'
  <2>1. weakCount # 0
    BY <1>6, CountedHolders DEF ReleaseWeak, Observers
  <2> QED
    BY <1>6, <2>1 DEF ReleaseWeak
<1>7. ASSUME NEW x \in Pointers, Destroy(x) PROVE TypeOK' /\ Provenance'
  BY <1>7 DEF Destroy, counts
<1>8. ASSUME NEW x \in Pointers, DropImplicit(x) PROVE TypeOK' /\ Provenance'
  <2>1. weakCount # 0
    BY <1>8, CountedHolders DEF DropImplicit, LastOwner
  <2> QED
    BY <1>8, <2>1 DEF DropImplicit
<1>9. ASSUME NEW x \in Pointers, Delete(x) PROVE TypeOK' /\ Provenance'
  BY <1>9 DEF Delete, counts
<1>10. ASSUME NEW x \in Pointers, NEW q \in Pointers, Make(x, q)
       PROVE  TypeOK' /\ Provenance'
  BY <1>10 DEF Make, counts
<1>11. ASSUME NEW x \in Pointers, NEW q \in Pointers, Move(x, q)
       PROVE  TypeOK' /\ Provenance'
  BY <1>11 DEF Move, Unread, counts
<1>12. CASE UNCHANGED vars
  BY <1>12 DEF vars, counts
<1> QED
  BY <1>1, <1>2, <1>3, <1>4, <1>5, <1>6, <1>7, <1>8, <1>9, <1>10, <1>11,
     <1>12 DEF Next

Counted == CountsExact /\ LastIsAlone /\ ObjectTold /\ BlockTold

\* A new owner: there was one to be made from, or lock saw one.
LEMMA RetainStep ==
  ASSUME IInv, NEW x \in Pointers, Retain(x)
  PROVE  Counted'
<1> USE PointerTypes DEF IInv, TypeOK, Pointers, Places, Goto
<1>1. ~Destroying' <=> ~Destroying
  BY DEF Retain, Destroying
<1>2. LastOwner' = LastOwner /\ Deleting' = Deleting
  BY DEF Retain, LastOwner, Deleting
<1>3. CASE x \in Strong
  <2>1. /\ Owners' = Owners \cup {x} /\ x \notin Owners
        /\ Observers' = Observers
    BY <1>3 DEF Retain, Owners, Observers
  <2>2. strongCount' = strongCount + 1 /\ weakCount' = weakCount
    BY <1>3 DEF Retain, AddTo, Count
  <2>3. strongCount # 0
    BY <1>3 DEF Retain, Count, Provenance
  <2>4. Owners # {}
    BY <2>3, CountedHolders
  <2>5. Cardinality(Owners') = Cardinality(Owners) + 1
    BY <2>1, FiniteHolders, Counting
  <2> QED
    BY <1>1, <1>2, <2>1, <2>2, <2>4, <2>5
    DEF Retain, Counted, CountsExact, LastIsAlone, ObjectTold, BlockTold
<1>4. CASE x \in Weak
  <2>1. /\ Observers' = Observers \cup {x} /\ x \notin Observers
        /\ Owners' = Owners
    BY <1>4 DEF Retain, Owners, Observers
  <2>2. strongCount' = strongCount /\ weakCount' = weakCount + 1
    BY <1>4 DEF Retain, AddTo, Count
  <2>3. weakCount # 0
    BY CountedHolders DEF Retain, Provenance, Owners, Observers
  <2>4. Cardinality(Observers') = Cardinality(Observers) + 1
    BY <2>1, FiniteHolders, Counting
  <2>5. weakCount' # 0
    BY <2>2
  <2>6. CountsExact'
    BY <1>2, <2>1, <2>2, <2>4, FiniteHolders, Counting DEF CountsExact
  <2> QED
    BY <1>1, <1>2, <2>1, <2>3, <2>5, <2>6
    DEF Retain, Counted, LastIsAlone, ObjectTold, BlockTold
<1> QED
  BY <1>3, <1>4

\* An owner's place is taken by another owner, an observer's by an observer.
LEMMA MoveStep ==
  ASSUME IInv, NEW x \in Pointers, NEW q \in Pointers, Move(x, q)
  PROVE  Counted'
<1> USE PointerTypes DEF IInv, TypeOK, Pointers, Places
<1>1. ~Destroying' <=> ~Destroying
  BY DEF Move, Destroying
<1>2. LastOwner' = LastOwner /\ Deleting' = Deleting
  BY DEF Move, LastOwner, Deleting
<1>3. CASE {x, q} \subseteq Strong
  <2>1. /\ Owners' = (Owners \ {q}) \cup {x} /\ q \in Owners /\ x \notin Owners
        /\ Observers' = Observers
    BY <1>3 DEF Move, Owners, Observers
  <2>2. Cardinality(Owners') = Cardinality(Owners)
    <3>1. /\ Cardinality(Owners \ {q}) = Cardinality(Owners) - 1
          /\ Cardinality(Owners) \in Nat
      BY <2>1, FiniteHolders, Counting
    <3>2. IsFiniteSet(Owners \ {q})
      BY FiniteHolders, FS_RemoveElement
    <3>3. Cardinality(Owners') = Cardinality(Owners \ {q}) + 1
      BY <2>1, <3>2, Counting
    <3> QED
      BY <3>1, <3>3
  <2> QED
    BY <1>1, <1>2, <2>1, <2>2
    DEF Move, counts, Counted, CountsExact, LastIsAlone, ObjectTold, BlockTold
<1>4. CASE {x, q} \subseteq Weak
  <2>1. /\ Observers' = (Observers \ {q}) \cup {x}
        /\ q \in Observers /\ x \notin Observers
        /\ Owners' = Owners
    BY <1>4 DEF Move, Owners, Observers
  <2>2. Cardinality(Observers') = Cardinality(Observers)
    <3>1. /\ Cardinality(Observers \ {q}) = Cardinality(Observers) - 1
          /\ Cardinality(Observers) \in Nat
      BY <2>1, FiniteHolders, Counting
    <3>2. IsFiniteSet(Observers \ {q})
      BY FiniteHolders, FS_RemoveElement
    <3>3. Cardinality(Observers') = Cardinality(Observers \ {q}) + 1
      BY <2>1, <3>2, Counting
    <3> QED
      BY <3>1, <3>3
  <2> QED
    BY <1>1, <1>2, <2>1, <2>2
    DEF Move, counts, Counted, CountsExact, LastIsAlone, ObjectTold, BlockTold
<1> QED
  BY <1>3, <1>4 DEF Move

\* An owner less; if it was the only one, it goes on to destroy the object.
LEMMA ReleaseStrongStep ==
  ASSUME IInv, NEW p \in Pointers, ReleaseStrong(p)
  PROVE  Counted'
<1> USE PointerTypes DEF IInv, TypeOK, Pointers, Places, Goto
<1>1. /\ p \in Owners /\ Owners' = Owners \ {p}
      /\ Observers' = Observers /\ Deleting' = Deleting
  BY DEF ReleaseStrong, Owners, Observers, Deleting
<1>2. LastOwner = {} /\ ~Destroying
  BY <1>1 DEF LastIsAlone, LastOwner, Destroying
<1>3. /\ Cardinality(Owners') = Cardinality(Owners) - 1
      /\ strongCount = 1 <=> Owners = {p}
      /\ strongCount \in Nat
  BY <1>1, FiniteHolders, Counting DEF CountsExact
<1>4. strongCount' = strongCount - 1 /\ UNCHANGED <<weakCount, object, block>>
  BY DEF ReleaseStrong
<1>5. CASE strongCount = 1
  <2>1. Owners' = {} /\ LastOwner' = {p} /\ Destroying'
    BY <1>1, <1>2, <1>3, <1>5 DEF ReleaseStrong, LastOwner, Destroying
  <2> QED
    BY <1>1, <1>2, <1>3, <1>4, <2>1
    DEF Counted, CountsExact, LastIsAlone, ObjectTold, BlockTold
<1>6. CASE strongCount # 1
  <2>1. Owners' # {}
    BY <1>1, <1>3, <1>6
  <2>2. LastOwner' = {} /\ ~Destroying'
    BY <1>2, <1>6 DEF ReleaseStrong, LastOwner, Destroying
  <2> QED
    BY <1>1, <1>2, <1>3, <1>4, <2>1, <2>2
    DEF Counted, CountsExact, LastIsAlone, ObjectTold, BlockTold
<1> QED
  BY <1>5, <1>6

\* Nobody is deleting the block while somebody is counted.
LEMMA CountedKeepsBlock ==
  ASSUME BlockTold, weakCount # 0
  PROVE  Deleting = {} /\ block # "freed"
BY DEF BlockTold

\* An observer less; if nobody else is counted, it goes on to free the block.
LEMMA ReleaseWeakStep ==
  ASSUME IInv, NEW w \in Pointers, ReleaseWeak(w)
  PROVE  Counted'
<1> USE PointerTypes DEF IInv, TypeOK, Pointers, Places, Goto
<1>1. /\ w \in Observers /\ Observers' = Observers \ {w}
      /\ Owners' = Owners /\ LastOwner' = LastOwner
      /\ ~Destroying' <=> ~Destroying
  BY DEF ReleaseWeak, Owners, Observers, LastOwner, Destroying
<1>2. Cardinality(Observers') = Cardinality(Observers) - 1
  BY <1>1, FiniteHolders, Counting
<1>3. weakCount # 0 /\ weakCount \in Nat
  BY <1>1, CountedHolders
<1>4. Deleting = {} /\ block # "freed"
  BY <1>3, CountedKeepsBlock
<1>5. weakCount' = weakCount - 1 /\ UNCHANGED <<strongCount, object, block>>
  BY DEF ReleaseWeak
<1>6. CountsExact'
  BY <1>1, <1>2, <1>5, FiniteHolders, Counting DEF CountsExact
<1>7. Deleting' = IF weakCount = 1 THEN {w} ELSE {}
  BY <1>4 DEF ReleaseWeak, Deleting
<1>8. BlockTold'
  BY <1>3, <1>4, <1>5, <1>7 DEF BlockTold
<1> QED
  BY <1>1, <1>5, <1>6, <1>8 DEF Counted, LastIsAlone, ObjectTold

\* The object ends; its last owner still holds the implicit weak count.
LEMMA DestroyStep ==
  ASSUME IInv, NEW p \in Pointers, Destroy(p)
  PROVE  Counted'
<1> USE PointerTypes DEF IInv, TypeOK, Pointers, Places, Goto
<1>1. /\ p \in LastOwner /\ LastOwner' = LastOwner
      /\ Owners' = Owners /\ Observers' = Observers /\ Deleting' = Deleting
  BY DEF Destroy, Provenance, LastOwner, Owners, Observers, Deleting
<1>2. LastOwner = {p} /\ Owners = {}
  BY <1>1 DEF LastIsAlone
<1>3. ~Destroying'
  BY <1>2 DEF Destroy, Destroying, LastOwner
<1>4. object' = "destroyed" /\ UNCHANGED <<counts, block>>
  BY DEF Destroy
<1> QED
  BY <1>1, <1>2, <1>3, <1>4
  DEF Counted, counts, CountsExact, LastIsAlone, ObjectTold, BlockTold

\* The owners' implicit weak count is given back.
LEMMA DropImplicitStep ==
  ASSUME IInv, NEW p \in Pointers, DropImplicit(p)
  PROVE  Counted'
<1> USE PointerTypes DEF IInv, TypeOK, Pointers, Places, Goto
<1>1. p \in LastOwner /\ Owners' = Owners /\ Observers' = Observers
  BY DEF DropImplicit, Provenance, LastOwner, Owners, Observers
<1>2. LastOwner = {p} /\ Owners = {}
  BY <1>1 DEF LastIsAlone
<1>3. LastOwner' = {} /\ (~Destroying' <=> ~Destroying)
  BY <1>2 DEF DropImplicit, LastOwner, Destroying
<1>4. weakCount # 0 /\ weakCount \in Nat
  BY <1>1, CountedHolders
<1>5. Deleting = {} /\ block # "freed"
  BY <1>4, CountedKeepsBlock
<1>6. weakCount' = weakCount - 1 /\ UNCHANGED <<strongCount, object, block>>
  BY DEF DropImplicit
<1>7. CountsExact'
  <2>1. weakCount = Cardinality(Observers) + 1 /\ Cardinality(Observers) \in Nat
    BY <1>1, FiniteHolders, Counting DEF CountsExact
  <2>2. Owners' \cup LastOwner' = {}
    BY <1>1, <1>2, <1>3
  <2> QED
    BY <1>1, <1>6, <2>1, <2>2 DEF CountsExact
<1>8. Deleting' = IF weakCount = 1 THEN {p} ELSE {}
  BY <1>5 DEF DropImplicit, Deleting
<1>9. BlockTold'
  BY <1>4, <1>5, <1>6, <1>8 DEF BlockTold
<1> QED
  BY <1>1, <1>2, <1>3, <1>6, <1>7, <1>9 DEF Counted, LastIsAlone, ObjectTold

\* The block is freed, with nobody counted.
LEMMA DeleteStep ==
  ASSUME IInv, NEW x \in Pointers, Delete(x)
  PROVE  Counted'
<1> USE PointerTypes DEF IInv, TypeOK, Pointers, Places, Goto
<1>1. /\ Owners' = Owners /\ Observers' = Observers /\ LastOwner' = LastOwner
      /\ ~Destroying' <=> ~Destroying
  BY DEF Delete, Owners, Observers, LastOwner, Destroying
<1>2. x \in Deleting /\ Deleting' = Deleting \ {x}
  BY DEF Delete, Deleting
<1>3. Deleting' = {} /\ weakCount = 0
  BY <1>2 DEF BlockTold
<1>4. block' = "freed" /\ UNCHANGED <<counts, object>>
  BY DEF Delete
<1> QED
  BY <1>1, <1>3, <1>4
  DEF Counted, counts, CountsExact, LastIsAlone, ObjectTold, BlockTold

LEMMA CountedStep ==
  ASSUME IInv, [Next]_vars
  PROVE  Counted'
<1> USE PointerTypes DEF IInv, TypeOK, Pointers, Places, Goto
<1>a. ASSUME UNCHANGED <<Holders, counts, object, block>> PROVE Counted'
  BY <1>a, QuietStep DEF Counted
<1>1. ASSUME NEW x \in Pointers,
             Load(x) \/ RetainFails(x) \/ Reset(x)
             \/ \E q \in Pointers : Make(x, q)
      PROVE  Counted'
  <2>1. UNCHANGED <<counts, object, block>>
    BY <1>1 DEF Load, RetainFails, Observe, Reset, Make
  <2>2. \A y \in Pointers : at'[y] = at[y]
           \/ {at[y], at'[y]} \subseteq {"empty", "load", "cas"}
           \/ {at[y], at'[y]} \subseteq {"owning", "decrement"}
    BY <1>1 DEF Load, RetainFails, Observe, Reset, Make
  <2>3. UNCHANGED <<Owners, Observers, LastOwner, Deleting, Destroying>>
    BY <2>2 DEF Owners, Observers, LastOwner, Deleting, Destroying
  <2> QED
    BY <1>a, <2>1, <2>3 DEF Holders
<1>2. CASE UNCHANGED vars
  <2>1. UNCHANGED <<counts, object, block, at>>
    BY <1>2 DEF vars
  <2>2. UNCHANGED <<Owners, Observers, LastOwner, Deleting, Destroying>>
    BY <2>1 DEF Owners, Observers, LastOwner, Deleting, Destroying
  <2> QED
    BY <1>a, <2>1, <2>2 DEF Holders
<1> QED
  BY <1>1, <1>2, RetainStep, MoveStep, ReleaseStrongStep, ReleaseWeakStep,
     DestroyStep, DropImplicitStep, DeleteStep DEF Next

LEMMA IInvAlways == Spec => []IInv
<1>1. IInv /\ [Next]_vars => IInv'
  BY ProvenanceStep, CountedStep DEF IInv, Counted
<1> QED
  BY <1>1, InitIInv, PTL DEF Spec

-----------------------------------------------------------------------------
\* The counts never go below zero and every pointer stands at a known place.
THEOREM TypeCorrect == Spec => []TypeOK
<1>1. IInv => TypeOK
  BY DEF IInv
<1> QED
  BY <1>1, IInvAlways, PTL

\* strong_count is the number of owners, weak_count the number of weak pointers
\* and one for all owners together, whatever races for them.
THEOREM CountsAreExact == Spec => []CountsExact
<1>1. IInv => CountsExact
  BY DEF IInv
<1> QED
  BY <1>1, IInvAlways, PTL

\* The destructor of the object never runs while somebody owns it.
THEOREM ObjectIsKept == Spec => []OwnersKeepObject
<1>1. IInv => OwnersKeepObject
  BY DEF IInv, ObjectTold, OwnersKeepObject
<1> QED
  BY <1>1, IInvAlways, PTL

\* The control block is freed once, when no pointer holds it and no
\* constructor, lock or reset is at work on it.
THEOREM BlockIsKept == Spec => []NothingUsesFreedBlock
<1>1. IInv => NothingUsesFreedBlock
  <2> SUFFICES ASSUME IInv, block = "freed", NEW x \in Pointers
               PROVE  at[x] = "empty"
    BY DEF NothingUsesFreedBlock
  <2>1. Owners = {} /\ LastOwner = {} /\ Observers = {} /\ Deleting = {}
    BY CountedHolders DEF IInv, BlockTold
  <2>2. \A y \in Pointers : at[y] \in {"empty", "load", "cas"}
    BY <2>1 DEF IInv, TypeOK, Provenance, Places, Owners, LastOwner, Observers,
                Deleting, Pointers
  <2> QED
    BY <2>2 DEF IInv, Provenance
<1> QED
  BY <1>1, IInvAlways, PTL

\* The ASSERTs of shared_ptr.qxs never fail.
THEOREM AssertionsNeverFail == Spec => []AssertionsHold
<1>1. IInv => AssertionsHold
  <2> SUFFICES ASSUME IInv PROVE AssertionsHold
    OBVIOUS
  <2>1. /\ strongCount = 0 <=> Owners = {}
        /\ weakCount = 0 <=> Owners = {} /\ LastOwner = {} /\ Observers = {}
    BY CountedHolders DEF IInv
  <2>2. ASSUME NEW x \in Pointers, at[x] \in {"load", "cas"},
               x \in Weak \/ source[x] \in Strong
        PROVE  Count(x) # 0
    <3>1. source[x] \in Pointers /\ at[source[x]] = "owning"
      BY <2>2 DEF IInv, Provenance
    <3>2. source[x] \in Owners \cup Observers
      BY <3>1 DEF Owners, Observers, Pointers
    <3>3. CASE x \in Weak
      BY <2>1, <3>2, <3>3, PointerTypes DEF Count
    <3>4. CASE x \notin Weak
      BY <2>1, <2>2, <3>1, <3>4 DEF Count, Owners, Pointers
    <3> QED
      BY <3>3, <3>4
  <2>3. ASSUME NEW x \in Pointers, at[x] = "decrement" PROVE Count(x) # 0
    BY <2>1, <2>3 DEF Count, Owners, Observers, Pointers
  <2>4. ASSUME NEW x \in Pointers, at[x] = "dropImplicit" PROVE weakCount # 0
    BY <2>1, <2>4 DEF IInv, Provenance, LastOwner, Pointers
  <2>5. ASSUME NEW x \in Weak, at[x] = "delete" PROVE strongCount = 0
    BY <2>1, <2>5 DEF IInv, BlockTold, Deleting, Pointers
  <2> QED
    BY <2>2, <2>3, <2>4, <2>5 DEF AssertionsHold
<1> QED
  BY <1>1, IInvAlways, PTL

\* A block that no pointer holds any more has been freed.
THEOREM NothingIsLeaked == Spec => []NothingLeaks
<1>1. IInv => NothingLeaks
  <2> SUFFICES ASSUME IInv, \A x \in Pointers : at[x] = "empty"
               PROVE  block = "freed"
    BY DEF NothingLeaks
  <2>1. Owners = {} /\ LastOwner = {} /\ Observers = {} /\ Deleting = {}
    BY DEF Owners, LastOwner, Observers, Deleting, Pointers
  <2> QED
    BY <2>1, CountedHolders DEF IInv, BlockTold
<1> QED
  BY <1>1, IInvAlways, PTL

\* The control block is freed exactly when no pointer needs it.
THEOREM BlockIsFreedWhenUnused == Spec => []FreedWhenUnused
  BY BlockIsKept, NothingIsLeaked, PTL DEF FreedWhenUnused

\* lock succeeds only while there is an owner: an object that has lost its last
\* owner is never owned again.
THEOREM NothingIsResurrected == Spec => NoResurrection
<1>1. IInv /\ IInv' /\ [Next]_vars => [Owners = {} => Owners' = {}]_vars
  <2> SUFFICES ASSUME IInv, IInv', [Next]_vars, Owners = {}
               PROVE  Owners' = {}
    OBVIOUS
  <2>1. strongCount = 0
    BY CountedHolders DEF IInv
  <2>2. strongCount' = 0
    <3> USE PointerTypes DEF IInv, TypeOK, Pointers
    <3>1. ASSUME NEW x \in Pointers, Retain(x) PROVE strongCount' = 0
      BY <2>1, <3>1 DEF Retain, AddTo, Count, Provenance
    <3>2. ASSUME NEW x \in Pointers, ReleaseStrong(x) PROVE FALSE
      BY <3>2 DEF ReleaseStrong, Owners
    <3>3. ASSUME NEW x \in Pointers,
                 \/ Load(x) \/ RetainFails(x) \/ Reset(x) \/ ReleaseWeak(x)
                 \/ Destroy(x) \/ DropImplicit(x) \/ Delete(x)
                 \/ \E q \in Pointers : Make(x, q) \/ Move(x, q)
          PROVE  strongCount' = strongCount
      BY <3>3 DEF Load, RetainFails, Observe, Reset, ReleaseWeak, Destroy,
                  DropImplicit, Delete, Make, Move, counts
    <3>4. CASE UNCHANGED vars
      BY <2>1, <3>4 DEF vars, counts
    <3> QED
      BY <2>1, <3>1, <3>2, <3>3, <3>4 DEF Next
  <2>3. strongCount' = Cardinality(Owners')
    BY DEF IInv, CountsExact
  <2> QED
    BY <2>2, <2>3, FiniteHolders, Counting
<1> QED
  BY <1>1, IInvAlways, PTL DEF Spec, NoResurrection

-----------------------------------------------------------------------------
(* The pool of regions. *)

LEMMA PoolTypes ==
  /\ IsFiniteSet(Threads) /\ IsFiniteSet(Extents)
  /\ None \notin Extents \cup Backing!Regions
  /\ Span \in Nat \ {0, 1} /\ {Promotion, Limit, MaxCalls} \subseteq Nat
BY BackingAssumption DEF Backing!ConstantTypes, Backing!IsFiniteSet, IsFiniteSet

LEMMA SameCardinality == \A S : Backing!Cardinality(S) = Cardinality(S)
BY DEF Backing!Cardinality, Cardinality, Backing!IsFiniteSet, IsFiniteSet

\* The types, without the bounds that follow from the rest.
Typed ==
    /\ mapped \subseteq Extents
    /\ references \in [Extents -> Nat]
    /\ size \in [Extents -> 0..Span] /\ unissued \in [Extents -> 0..Span]
    /\ active \in Extents \cup {None}
    /\ pool \in Seq(Backing!Regions) /\ Len(pool) <= Limit
    /\ issuedCount \in Nat
    /\ out \subseteq Backing!Regions
    /\ place \in [Threads -> Backing!Places]
    /\ extent \in [Threads -> Extents \cup {None}]
    /\ region \in [Threads -> Backing!Regions \cup {None}]
    /\ span \in [Threads -> {0, 1, Span}]

Used == out \cup Backing!InHand \cup Backing!Pooled

\* A thread that drops a reference does so for a region given back (span 0, no region),
\* for the inventory exhausted by the region it returns, or for a surplus extent.
Surplus(t) == /\ place[t] \in {"install", "drop", "unmap"}
              /\ region[t] = None /\ span[t] # 0

\* What a thread knows of its extent and region at each place.
CallKnown(t) ==
    /\ place[t] = "out" => extent[t] = None /\ region[t] = None /\ span[t] = 0
    /\ place[t] = "take" => extent[t] = None /\ region[t] = None
    /\ place[t] = "create" => extent[t] = None /\ region[t] = None /\ span[t] # 0
    /\ place[t] = "count" => extent[t] # None /\ region[t] # None
    /\ place[t] = "install" => extent[t] # None /\ region[t] = None /\ span[t] # 0
    /\ place[t] = "drop" => extent[t] # None
    /\ place[t] = "unmap" => /\ extent[t] # None /\ region[t] = None
                          /\ references[extent[t]] = 0
    /\ region[t] # None => region[t][1] = extent[t]
    /\ Surplus(t) => /\ place[t] # "unmap" => references[extent[t]] = 1
                     /\ unissued[extent[t]] = size[extent[t]] /\ size[extent[t]] > 0

CallsKnown ==
    /\ \A t \in Threads : CallKnown(t)
    /\ \A t, u \in Threads :
          place[t] = "unmap" /\ place[u] = "unmap" /\ extent[t] = extent[u] => t = u

\* A region in use is in one place.
EachInOnePlace ==
    /\ out \cap Backing!InHand = {} /\ out \cap Backing!Pooled = {}
    /\ Backing!InHand \cap Backing!Pooled = {}
    /\ \A i, j \in DOMAIN pool : pool[i] = pool[j] => i = j
    /\ \A t, u \in Threads : region[t] # None /\ region[t] = region[u] => t = u

\* Regions are issued from the front of their extent.
IssuedInOrder ==
    /\ \A r \in Used : r[2] + unissued[r[1]] <= size[r[1]]
    /\ \A e \in Extents : unissued[e] <= size[e]

\* The references of an extent are at most one for each region issued and one for the
\* inventory.
Inventory(e) == \/ active = e
                \/ \E t \in Threads : /\ extent[t] = e /\ place[t] \in {"install", "drop"}
                                      /\ region[t] # None \/ span[t] # 0

ReferencesBounded ==
    \A e \in Extents :
       references[e] + unissued[e] <= size[e] + (IF Inventory(e) THEN 1 ELSE 0)

InventoryKnown ==
    /\ active # None => unissued[active] > 0
    /\ \A e \in Extents : unissued[e] > 0 =>
          active = e \/ \E t \in Threads : Surplus(t) /\ extent[t] = e

Handing == {t \in Threads : place[t] \in {"drop", "unmap"} /\ region[t] # None}

Told == Typed /\ CallsKnown /\ EachInOnePlace /\ IssuedInOrder /\ ReferencesBounded
        /\ InventoryKnown

PoolIInv == Told /\ Backing!ReferencesExact /\ Backing!IssuedExact

-----------------------------------------------------------------------------
\* What the counts are of is finite.
LEMMA RegionsAreFinite ==
  /\ IsFiniteSet(Backing!Regions)
  /\ \A S \in SUBSET Backing!Regions : IsFiniteSet(S)
  /\ \A S \in SUBSET Threads : IsFiniteSet(S)
<1>1. IsFiniteSet(1..Span)
  BY PoolTypes, FS_Interval
<1>2. IsFiniteSet(Backing!Regions)
  BY <1>1, PoolTypes, FS_Product DEF Backing!Regions
<1> QED
  BY <1>2, PoolTypes, FS_Subset

LEMMA UsedAreRegions == Typed => Used \subseteq Backing!Regions
<1> SUFFICES ASSUME Typed PROVE Used \subseteq Backing!Regions
  OBVIOUS
<1>1. Backing!InHand \subseteq Backing!Regions
  BY DEF Typed, Backing!InHand
<1>2. Backing!Pooled \subseteq Backing!Regions
  BY DEF Typed, Backing!Pooled
<1> QED
  BY <1>1, <1>2 DEF Typed, Used

LEMMA ReferringAre ==
  ASSUME Typed, NEW e \in Extents
  PROVE  /\ Backing!Referring(e) = {r \in Used : r[1] = e}
         /\ IsFiniteSet(Backing!Referring(e))
         /\ \A places : IsFiniteSet(Backing!Holding(e, places))
<1>1. Backing!Referring(e) = {r \in Used : r[1] = e}
  BY DEF Backing!Referring, Used
<1>2. Backing!Referring(e) \in SUBSET Backing!Regions
  BY <1>1, UsedAreRegions
<1>3. \A places : Backing!Holding(e, places) \in SUBSET Threads
  BY DEF Backing!Holding
<1> QED
  BY <1>1, <1>2, <1>3, RegionsAreFinite

\* Who still refers to an extent with one reference or none.
LEMMA WhoRefers ==
  ASSUME Typed, Backing!ReferencesExact, NEW e \in Extents
  PROVE  /\ references[e] = 0 <=> /\ \A r \in Used : r[1] # e
                                  /\ active # e
                                  /\ \A t \in Threads :
                                        place[t] \in {"install", "drop"} => extent[t] # e
         /\ \A t \in Threads :
               place[t] \in {"install", "drop"} /\ extent[t] = e /\ references[e] = 1 =>
                  /\ \A r \in Used : r[1] # e
                  /\ active # e
                  /\ \A u \in Threads \ {t} :
                        place[u] \in {"install", "drop"} => extent[u] # e
<1> DEFINE R == Backing!Referring(e)
           H == Backing!Holding(e, {"install", "drop"})
<1>1. IsFiniteSet(R) /\ IsFiniteSet(H) /\ R = {r \in Used : r[1] = e}
  BY ReferringAre
<1>2. /\ Cardinality(R) \in Nat /\ (Cardinality(R) = 0 <=> R = {})
      /\ Cardinality(H) \in Nat /\ (Cardinality(H) = 0 <=> H = {})
      /\ \A t \in H : Cardinality(H) = 1 <=> H = {t}
  BY <1>1, Counting
<1>3. references[e] = Cardinality(R) + (IF active = e THEN 1 ELSE 0) + Cardinality(H)
  BY SameCardinality DEF Backing!ReferencesExact
<1>4. H = {t \in Threads : place[t] \in {"install", "drop"} /\ extent[t] = e}
  BY DEF Backing!Holding
<1> HIDE DEF R, H
<1>5. references[e] = 0 <=> R = {} /\ active # e /\ H = {}
  <2>1. references[e] = 0 <=> Cardinality(R) = 0 /\ active # e /\ Cardinality(H) = 0
    BY <1>2, <1>3
  <2> QED
    BY <1>2, <2>1
<1>6. ASSUME NEW t \in H, references[e] = 1
      PROVE  R = {} /\ active # e /\ H = {t}
  <2>1. Cardinality(H) # 0
    BY <1>2, <1>6
  <2>2. Cardinality(R) = 0 /\ active # e /\ Cardinality(H) = 1
    BY <1>2, <1>3, <1>6, <2>1
  <2> QED
    BY <1>2, <2>2
<1>7. R = {} <=> \A r \in Used : r[1] # e
  BY <1>1
<1>8. H = {} <=> \A t \in Threads : place[t] \in {"install", "drop"} => extent[t] # e
  BY <1>4
<1>9. ASSUME NEW t \in Threads, place[t] \in {"install", "drop"}, extent[t] = e,
             references[e] = 1
      PROVE  /\ \A r \in Used : r[1] # e
             /\ active # e
             /\ \A u \in Threads \ {t} : place[u] \in {"install", "drop"} => extent[u] # e
  BY <1>4, <1>6, <1>7, <1>9
<1> QED
  BY <1>5, <1>7, <1>8, <1>9

\* The regions issued and counted, each once.
LEMMA CountBounded ==
  ASSUME Typed, EachInOnePlace
  PROVE  Cardinality(out) + Cardinality(Handing) <= Cardinality(Backing!Regions)
<1> DEFINE Handed == {region[t] : t \in Handing}
           f == [t \in Handing |-> region[t]]
<1>1. Handed \subseteq Backing!Regions /\ Handed \subseteq Backing!InHand
  BY DEF Typed, Handing, Backing!InHand
<1>2. f \in Injection(Handing, Handed)
  BY DEF Injection, IsInjective, EachInOnePlace, Handing
<1>3. IsFiniteSet(Handed) /\ IsFiniteSet(out)
  BY <1>1, RegionsAreFinite DEF Typed
<1>4. Cardinality(Handing) <= Cardinality(Handed)
  BY <1>2, <1>3, FS_Injection
<1>5. out \cap Handed = {}
  BY <1>1 DEF EachInOnePlace
<1>6. Cardinality(out \cup Handed) = Cardinality(out) + Cardinality(Handed)
                                      - Cardinality(out \cap Handed)
  BY <1>3, FS_Union
<1>7. Cardinality(out \cap Handed) = 0
  BY <1>5, FS_EmptySet
<1>8. Cardinality(out \cup Handed) <= Cardinality(Backing!Regions)
  BY <1>1, RegionsAreFinite, FS_Subset DEF Typed
<1>9. IsFiniteSet(Handing)
  BY RegionsAreFinite DEF Handing
<1>10. /\ Cardinality(out) \in Nat /\ Cardinality(Handed) \in Nat
       /\ Cardinality(Handing) \in Nat /\ Cardinality(Backing!Regions) \in Nat
  BY <1>3, <1>9, RegionsAreFinite, Counting
<1> HIDE DEF Handed
<1> QED
  BY <1>4, <1>6, <1>7, <1>8, <1>10

\* The type invariant of the model.
LEMMA TypesHold == PoolIInv => Backing!TypeOK
<1> SUFFICES ASSUME PoolIInv PROVE Backing!TypeOK
  OBVIOUS
<1>1. ASSUME NEW e \in Extents PROVE references[e] \in 0..Span + 1
  <2>1. /\ references[e] \in Nat /\ unissued[e] \in 0..Span /\ size[e] \in 0..Span
        /\ Span \in Nat
    BY PoolTypes DEF PoolIInv, Told, Typed
  <2>2. references[e] + unissued[e] <= size[e] + 1
    BY <2>1 DEF PoolIInv, Told, ReferencesBounded
  <2> QED
    BY <2>1, <2>2
<1>2. issuedCount = Cardinality(out) + Cardinality(Handing)
  BY SameCardinality DEF PoolIInv, Backing!IssuedExact, Handing
<1>3. Cardinality(out) + Cardinality(Handing) <= Cardinality(Backing!Regions)
  BY CountBounded DEF PoolIInv, Told
<1>4. Cardinality(Backing!Regions) \in Nat
  BY RegionsAreFinite, Counting
<1>5. issuedCount \in 0..Cardinality(Backing!Regions)
  BY <1>2, <1>3, <1>4 DEF PoolIInv, Told, Typed
<1>6. references \in [Extents -> 0..Span + 1]
  BY <1>1 DEF PoolIInv, Told, Typed
<1> QED
  BY <1>5, <1>6, SameCardinality DEF PoolIInv, Told, Typed, Backing!TypeOK

-----------------------------------------------------------------------------
LEMMA PoolStarts == Backing!Init => PoolIInv
<1> SUFFICES ASSUME Backing!Init PROVE PoolIInv
  OBVIOUS
<1> USE PoolTypes DEF Backing!Init
<1>1. Typed
  BY DEF Typed, Backing!Places
<1>2. Backing!InHand = {} /\ Backing!Pooled = {} /\ Used = {} /\ Handing = {}
  BY DEF Backing!InHand, Backing!Pooled, Used, Handing
<1>3. CallsKnown
  BY DEF CallsKnown, CallKnown, Surplus
<1>4. EachInOnePlace /\ IssuedInOrder
  BY <1>2 DEF EachInOnePlace, IssuedInOrder
<1>5. ReferencesBounded /\ InventoryKnown
  BY DEF ReferencesBounded, Inventory, InventoryKnown
<1>6. Cardinality({}) = 0
  BY FS_EmptySet
<1>7. Backing!ReferencesExact
  <2> SUFFICES ASSUME NEW e \in Extents
               PROVE  /\ references[e] = Cardinality(Backing!Referring(e))
                            + (IF active = e THEN 1 ELSE 0)
                            + Cardinality(Backing!Holding(e, {"install", "drop"}))
                      /\ e \in mapped <=> references[e] > 0 \/ Backing!Holding(e, {"unmap"}) # {}
    BY SameCardinality DEF Backing!ReferencesExact
  <2>1. /\ Backing!Referring(e) = {} /\ Backing!Holding(e, {"install", "drop"}) = {}
        /\ Backing!Holding(e, {"unmap"}) = {}
    BY <1>2 DEF Backing!Referring, Backing!Holding
  <2>2. references[e] = 0 /\ active # e /\ mapped = {}
    OBVIOUS
  <2>3. Cardinality(Backing!Referring(e)) = 0
      /\ Cardinality(Backing!Holding(e, {"install", "drop"})) = 0
    BY <1>6, <2>1
  <2> HIDE DEF Backing!Init
  <2>4. e \in mapped <=> references[e] > 0 \/ Backing!Holding(e, {"unmap"}) # {}
    BY <2>1, <2>2
  <2> QED
    BY <2>2, <2>3, <2>4
<1>8. Backing!IssuedExact
  <2>1. out = {} /\ issuedCount = 0
    OBVIOUS
  <2>2. issuedCount = Cardinality(out) + Cardinality(Handing)
    BY <1>2, <1>6, <2>1
  <2> QED
    BY <2>2, SameCardinality DEF Backing!IssuedExact, Handing
<1> QED
  BY <1>1, <1>3, <1>4, <1>5, <1>7, <1>8 DEF PoolIInv, Told

-----------------------------------------------------------------------------
\* What a step does to the pool and to the regions in hand.
LEMMA PoolTaken ==
  ASSUME Typed, EachInOnePlace, pool # <<>>, pool' = Tail(pool)
  PROVE  /\ Head(pool) \in Backing!Pooled /\ Head(pool) \in Backing!Regions
         /\ pool' \in Seq(Backing!Regions) /\ Len(pool') = Len(pool) - 1
         /\ Backing!Pooled' = Backing!Pooled \ {Head(pool)}
         /\ \A i, j \in DOMAIN pool' : pool'[i] = pool'[j] => i = j
<1>1. /\ pool \in Seq(Backing!Regions) /\ Len(pool) \in Nat /\ Len(pool) > 0
      /\ DOMAIN pool = 1..Len(pool) /\ Head(pool) = pool[1]
  BY DEF Typed
<1>2. /\ pool' \in Seq(Backing!Regions) /\ Len(pool') = Len(pool) - 1
      /\ DOMAIN pool' = 1..Len(pool) - 1
      /\ \A i \in 1..Len(pool) - 1 : pool'[i] = pool[i + 1]
  BY <1>1
<1>3. Head(pool) \in Backing!Pooled /\ Head(pool) \in Backing!Regions
  BY <1>1 DEF Backing!Pooled
<1>4. \A i, j \in DOMAIN pool : pool[i] = pool[j] => i = j
  BY DEF EachInOnePlace
<1>5. \A i, j \in DOMAIN pool' : pool'[i] = pool'[j] => i = j
  <2> SUFFICES ASSUME NEW i \in DOMAIN pool', NEW j \in DOMAIN pool', pool'[i] = pool'[j]
               PROVE  i = j
    OBVIOUS
  <2>1. i + 1 \in DOMAIN pool /\ j + 1 \in DOMAIN pool /\ pool[i + 1] = pool[j + 1]
    BY <1>1, <1>2
  <2> QED
    BY <1>2, <1>4, <2>1
<1>6. ASSUME NEW r PROVE r \in Backing!Pooled' <=> r \in Backing!Pooled /\ r # Head(pool)
  <2>1. r \in Backing!Pooled' <=> \E i \in 1..Len(pool) - 1 : r = pool[i + 1]
    BY <1>2 DEF Backing!Pooled
  <2>2. r \in Backing!Pooled <=> \E i \in 1..Len(pool) : r = pool[i]
    BY <1>1 DEF Backing!Pooled
  <2>3. ASSUME NEW i \in 1..Len(pool) - 1, r = pool[i + 1]
        PROVE  r \in Backing!Pooled /\ r # pool[1]
    <3>1. i + 1 \in DOMAIN pool /\ 1 \in DOMAIN pool /\ i + 1 # 1
      BY <1>1
    <3> QED
      BY <1>1, <1>4, <2>2, <2>3, <3>1
  <2>4. ASSUME NEW i \in 1..Len(pool), r = pool[i], r # pool[1] PROVE r \in Backing!Pooled'
    <3>1. i # 1 /\ i - 1 \in 1..Len(pool) - 1 /\ i = (i - 1) + 1
      BY <1>1, <2>4
    <3> QED
      BY <2>1, <2>4, <3>1
  <2> QED
    BY <1>1, <2>1, <2>2, <2>3, <2>4
<1> QED
  BY <1>2, <1>3, <1>5, <1>6

LEMMA PoolGiven ==
  ASSUME Typed, EachInOnePlace, NEW r \in Backing!Regions, r \notin Backing!Pooled,
         pool' = <<r>> \o pool
  PROVE  /\ pool' \in Seq(Backing!Regions) /\ Len(pool') = Len(pool) + 1
         /\ Backing!Pooled' = Backing!Pooled \cup {r}
         /\ \A i, j \in DOMAIN pool' : pool'[i] = pool'[j] => i = j
<1>1. /\ pool \in Seq(Backing!Regions) /\ Len(pool) \in Nat /\ DOMAIN pool = 1..Len(pool)
  BY DEF Typed
<1>2. /\ pool' \in Seq(Backing!Regions) /\ Len(pool') = Len(pool) + 1
      /\ DOMAIN pool' = 1..Len(pool) + 1 /\ pool'[1] = r
      /\ \A i \in 2..Len(pool) + 1 : pool'[i] = pool[i - 1]
  BY <1>1
<1>3. \A i, j \in DOMAIN pool : pool[i] = pool[j] => i = j
  BY DEF EachInOnePlace
<1>4. ASSUME NEW i \in DOMAIN pool', i # 1
      PROVE  i - 1 \in DOMAIN pool /\ pool'[i] = pool[i - 1] /\ pool'[i] # r
  <2>1. i \in 2..Len(pool) + 1 /\ i - 1 \in 1..Len(pool)
    BY <1>1, <1>2, <1>4
  <2> QED
    BY <1>1, <1>2, <2>1 DEF Backing!Pooled
<1>5. \A i, j \in DOMAIN pool' : pool'[i] = pool'[j] => i = j
  <2> SUFFICES ASSUME NEW i \in DOMAIN pool', NEW j \in DOMAIN pool', pool'[i] = pool'[j]
               PROVE  i = j
    OBVIOUS
  <2>1. CASE i = 1 \/ j = 1
    BY <1>2, <1>4, <2>1
  <2>2. CASE i # 1 /\ j # 1
    <3>1. i - 1 = j - 1
      BY <1>3, <1>4, <2>2
    <3> QED
      BY <1>2, <3>1
  <2> QED
    BY <2>1, <2>2
<1>6. ASSUME NEW x PROVE x \in Backing!Pooled' <=> x \in Backing!Pooled \/ x = r
  <2>1. ASSUME x \in Backing!Pooled PROVE x \in Backing!Pooled'
    <3>1. PICK i \in DOMAIN pool : x = pool[i]
      BY <2>1 DEF Backing!Pooled
    <3>2. i + 1 \in 2..Len(pool) + 1 /\ i + 1 \in DOMAIN pool' /\ (i + 1) - 1 = i
      BY <1>1, <1>2
    <3>3. x = pool'[i + 1]
      BY <1>2, <3>1, <3>2
    <3> QED
      BY <3>2, <3>3 DEF Backing!Pooled
  <2>2. r \in Backing!Pooled'
    BY <1>1, <1>2 DEF Backing!Pooled
  <2>3. ASSUME x \in Backing!Pooled', x # r PROVE x \in Backing!Pooled
    <3>1. PICK i \in DOMAIN pool' : x = pool'[i]
      BY <2>3 DEF Backing!Pooled
    <3> QED
      BY <1>2, <1>4, <2>3, <3>1 DEF Backing!Pooled
  <2> QED
    BY <2>1, <2>2, <2>3
<1> QED
  BY <1>2, <1>5, <1>6

LEMMA HandMoves ==
  ASSUME Typed, EachInOnePlace, NEW t \in Threads, NEW r \in Backing!Regions \cup {None},
         region' = [region EXCEPT ![t] = r], r = None \/ r \notin Backing!InHand
  PROVE  /\ Backing!InHand' = (Backing!InHand \ {region[t]}) \cup ({r} \ {None})
         /\ \A u, v \in Threads : region'[u] # None /\ region'[u] = region'[v] => u = v
BY DEF Typed, EachInOnePlace, Backing!InHand

-----------------------------------------------------------------------------
\* What a step of one thread does to the counts.
Holds(t, e) == place[t] \in {"install", "drop"} /\ extent[t] = e
Hands(t) == place[t] \in {"drop", "unmap"} /\ region[t] # None

LEMMA ReferringMoves ==
  ASSUME Typed, Typed', NEW e \in Extents, NEW r
  PROVE  /\ Cardinality(Backing!Referring(e)) \in Nat
         /\ Used' = Used => Cardinality(Backing!Referring(e)') = Cardinality(Backing!Referring(e))
         /\ r \notin Used /\ Used' = Used \cup {r} =>
               Cardinality(Backing!Referring(e)')
                  = Cardinality(Backing!Referring(e)) + (IF r[1] = e THEN 1 ELSE 0)
         /\ r \in Used /\ Used' = Used \ {r} =>
               Cardinality(Backing!Referring(e)')
                  = Cardinality(Backing!Referring(e)) - (IF r[1] = e THEN 1 ELSE 0)
<1>1. Backing!Referring(e) = {x \in Used : x[1] = e} /\ IsFiniteSet(Backing!Referring(e))
  BY ReferringAre
<1>2. Backing!Referring(e)' = {x \in Used' : x[1] = e}
  BY DEF Backing!Referring, Used
<1>3. /\ Cardinality(Backing!Referring(e)) \in Nat
      /\ \A x : x \notin Backing!Referring(e) =>
            Cardinality(Backing!Referring(e) \cup {x}) = Cardinality(Backing!Referring(e)) + 1
      /\ \A x \in Backing!Referring(e) :
            Cardinality(Backing!Referring(e) \ {x}) = Cardinality(Backing!Referring(e)) - 1
  BY <1>1, Counting
<1>4. Used' = Used => Backing!Referring(e)' = Backing!Referring(e)
  BY <1>1, <1>2
<1>5. ASSUME r \notin Used, Used' = Used \cup {r}
      PROVE  /\ r \notin Backing!Referring(e)
             /\ Backing!Referring(e)'
                   = IF r[1] = e THEN Backing!Referring(e) \cup {r} ELSE Backing!Referring(e)
  BY <1>1, <1>2, <1>5
<1>6. ASSUME r \in Used, Used' = Used \ {r}
      PROVE  /\ r[1] = e => r \in Backing!Referring(e)
             /\ Backing!Referring(e)'
                   = IF r[1] = e THEN Backing!Referring(e) \ {r} ELSE Backing!Referring(e)
  BY <1>1, <1>2, <1>6
<1>7. ASSUME r \notin Used, Used' = Used \cup {r}
      PROVE  Cardinality(Backing!Referring(e)')
                = Cardinality(Backing!Referring(e)) + (IF r[1] = e THEN 1 ELSE 0)
  BY <1>3, <1>5, <1>7
<1>8. ASSUME r \in Used, Used' = Used \ {r}
      PROVE  Cardinality(Backing!Referring(e)')
                = Cardinality(Backing!Referring(e)) - (IF r[1] = e THEN 1 ELSE 0)
  BY <1>3, <1>6, <1>8
<1> QED
  BY <1>3, <1>4, <1>7, <1>8

LEMMA HoldingMoves ==
  ASSUME Typed, NEW e \in Extents, NEW t \in Threads,
         \A u \in Threads \ {t} : place'[u] = place[u] /\ extent'[u] = extent[u]
  PROVE  /\ Cardinality(Backing!Holding(e, {"install", "drop"})) \in Nat
         /\ Cardinality(Backing!Holding(e, {"install", "drop"})')
               = Cardinality(Backing!Holding(e, {"install", "drop"}))
                    - (IF Holds(t, e) THEN 1 ELSE 0) + (IF Holds(t, e)' THEN 1 ELSE 0)
         /\ Holds(t, e) => Cardinality(Backing!Holding(e, {"install", "drop"})) > 0
<1> DEFINE H == Backing!Holding(e, {"install", "drop"})
<1>1. H = {u \in Threads : Holds(u, e)}
  BY DEF Backing!Holding, Holds
<1>2. H' = {u \in Threads : Holds(u, e)'}
  BY DEF Backing!Holding, Holds
<1>3. \A u \in Threads \ {t} : Holds(u, e)' = Holds(u, e)
  BY DEF Holds
<1>4. IsFiniteSet(H)
  BY ReferringAre
<1> HIDE DEF H
<1>5. /\ Cardinality(H) \in Nat /\ (Cardinality(H) = 0 <=> H = {})
      /\ t \notin H => Cardinality(H \cup {t}) = Cardinality(H) + 1
      /\ t \in H => Cardinality(H \ {t}) = Cardinality(H) - 1
  BY <1>4, Counting
<1>6. CASE Holds(t, e) /\ Holds(t, e)'
  <2>1. H' = H /\ H # {}
    BY <1>1, <1>2, <1>3, <1>6
  <2> QED
    BY <1>5, <1>6, <2>1 DEF H
<1>7. CASE Holds(t, e) /\ ~Holds(t, e)'
  <2>1. H' = H \ {t} /\ t \in H
    BY <1>1, <1>2, <1>3, <1>7
  <2>2. Cardinality(H') = Cardinality(H) - 1
    BY <1>5, <2>1
  <2>3. Holds(t, e) => Cardinality(H) > 0
    BY <1>1, <1>5
  <2> QED
    BY <1>5, <1>7, <2>2, <2>3 DEF H
<1>8. CASE ~Holds(t, e) /\ Holds(t, e)'
  <2>1. H' = H \cup {t} /\ t \notin H
    BY <1>1, <1>2, <1>3, <1>8
  <2>2. Cardinality(H') = Cardinality(H) + 1
    BY <1>5, <2>1
  <2>3. Holds(t, e) => Cardinality(H) > 0
    BY <1>1, <1>5
  <2> QED
    BY <1>5, <1>8, <2>2, <2>3 DEF H
<1>9. CASE ~Holds(t, e) /\ ~Holds(t, e)'
  <2>1. H' = H
    BY <1>1, <1>2, <1>3, <1>9
  <2> QED
    BY <1>5, <1>9, <2>1 DEF H
<1> QED
  BY <1>6, <1>7, <1>8, <1>9

LEMMA HandingMoves ==
  ASSUME NEW t \in Threads,
         \A u \in Threads \ {t} : place'[u] = place[u] /\ region'[u] = region[u]
  PROVE  /\ Cardinality(Handing) \in Nat
         /\ Cardinality(Handing') = Cardinality(Handing)
               - (IF Hands(t) THEN 1 ELSE 0) + (IF Hands(t)' THEN 1 ELSE 0)
<1>1. Handing = {u \in Threads : Hands(u)} /\ Handing' = {u \in Threads : Hands(u)'}
  BY DEF Handing, Hands
<1>2. \A u \in Threads \ {t} : Hands(u)' = Hands(u)
  BY DEF Hands
<1>3. IsFiniteSet(Handing)
  BY RegionsAreFinite DEF Handing
<1>4. /\ Cardinality(Handing) \in Nat
      /\ t \notin Handing => Cardinality(Handing \cup {t}) = Cardinality(Handing) + 1
      /\ t \in Handing => Cardinality(Handing \ {t}) = Cardinality(Handing) - 1
  BY <1>3, Counting
<1>5. CASE Hands(t) /\ ~Hands(t)'
  <2>1. Handing' = Handing \ {t} /\ t \in Handing
    BY <1>1, <1>2, <1>5
  <2> QED
    BY <1>4, <1>5, <2>1
<1>6. CASE ~Hands(t) /\ Hands(t)'
  <2>1. Handing' = Handing \cup {t} /\ t \notin Handing
    BY <1>1, <1>2, <1>6
  <2> QED
    BY <1>4, <1>6, <2>1
<1>7. CASE Hands(t) <=> Hands(t)'
  <2>1. Handing' = Handing
    BY <1>1, <1>2, <1>7
  <2> QED
    BY <1>4, <1>7, <2>1
<1> QED
  BY <1>5, <1>6, <1>7

LEMMA OutMoves ==
  ASSUME Typed
  PROVE  /\ Cardinality(out) \in Nat
         /\ \A r : r \notin out => Cardinality(out \cup {r}) = Cardinality(out) + 1
         /\ \A r \in out : Cardinality(out \ {r}) = Cardinality(out) - 1
                           /\ Cardinality(out) > 0
<1>1. IsFiniteSet(out)
  BY RegionsAreFinite DEF Typed
<1>2. /\ Cardinality(out) \in Nat /\ (Cardinality(out) = 0 <=> out = {})
      /\ \A r : r \notin out => Cardinality(out \cup {r}) = Cardinality(out) + 1
      /\ \A r \in out : Cardinality(out \ {r}) = Cardinality(out) - 1
  BY <1>1, Counting
<1> QED
  BY <1>2

-----------------------------------------------------------------------------
\* The region TakeFromActive issues, the next one of the active extent.
NextRegion == <<active, size[active] - unissued[active] + 1>>

LEMMA NextRegionIsNew ==
  ASSUME PoolIInv, active # None
  PROVE  /\ active \in Extents /\ unissued[active] \in 1..Span
         /\ size[active] \in 1..Span /\ unissued[active] <= size[active]
         /\ NextRegion \in Backing!Regions /\ NextRegion \notin Used /\ NextRegion # None
         /\ NextRegion[1] = active
         /\ NextRegion[2] + (unissued[active] - 1) = size[active]
<1>1. /\ active \in Extents /\ unissued[active] \in 0..Span /\ size[active] \in 0..Span
      /\ Span \in Nat
  BY PoolTypes DEF PoolIInv, Told, Typed
<1>2. unissued[active] > 0 /\ unissued[active] <= size[active]
  BY <1>1 DEF PoolIInv, Told, InventoryKnown, IssuedInOrder
<1>3. /\ NextRegion[1] = active /\ NextRegion[2] = size[active] - unissued[active] + 1
      /\ size[active] - unissued[active] + 1 \in 1..Span
  BY <1>1, <1>2 DEF NextRegion
<1>4. NextRegion \in Backing!Regions /\ NextRegion # None
  BY <1>1, <1>3, PoolTypes DEF NextRegion, Backing!Regions
<1>5. NextRegion \notin Used
  <2>1. ASSUME NextRegion \in Used PROVE NextRegion[2] + unissued[active] <= size[active]
    BY <2>1, <1>3 DEF PoolIInv, Told, IssuedInOrder
  <2> QED
    BY <1>1, <1>2, <1>3, <2>1
<1> QED
  BY <1>1, <1>2, <1>3, <1>4, <1>5

LEMMA TakesNext ==
  ASSUME NEW t \in Threads, Backing!TakeFromActive(t)
  PROVE  /\ place[t] = "take" /\ pool = <<>> /\ active # None
         /\ unissued' = [unissued EXCEPT ![active] = unissued[active] - 1]
         /\ references' = [references EXCEPT ![active] = references[active] + 1]
         /\ issuedCount' = issuedCount + 1
         /\ UNCHANGED <<mapped, size, pool>>
         /\ \/ /\ unissued[active] = 1
               /\ active' = None /\ place' = [place EXCEPT ![t] = "drop"]
               /\ region' = [region EXCEPT ![t] = NextRegion]
               /\ extent' = [extent EXCEPT ![t] = active]
               /\ UNCHANGED <<out, span>>
            \/ /\ unissued[active] # 1
               /\ active' = active /\ Backing!End(t, NextRegion)
BY DEF Backing!TakeFromActive, NextRegion, Backing!Set

\* Whoever drops a reference, or gives a region back, finds one counted.
LEMMA DropFinds ==
  ASSUME PoolIInv, NEW t \in Threads, place[t] = "drop"
  PROVE  extent[t] \in Extents /\ references[extent[t]] \in Nat \ {0}
<1>1. extent[t] \in Extents
  BY DEF PoolIInv, Told, Typed, CallsKnown, CallKnown
<1>2. references[extent[t]] # 0
  BY <1>1, WhoRefers DEF PoolIInv, Told
<1> QED
  BY <1>1, <1>2 DEF PoolIInv, Told, Typed

LEMMA DropsTo ==
  ASSUME PoolIInv, NEW t \in Threads, Backing!Drop(t)
  PROVE  /\ place[t] = "drop"
         /\ references' = [references EXCEPT ![extent[t]] = references[extent[t]] - 1]
         /\ UNCHANGED <<mapped, size, unissued, Backing!shared>>
         /\ \/ /\ references[extent[t]] = 1
               /\ place' = [place EXCEPT ![t] = "unmap"]
               /\ UNCHANGED <<out, extent, region, span>>
            \/ /\ references[extent[t]] # 1
               /\ span[t] = 0 \/ region[t] # None
               /\ Backing!End(t, region[t])
<1>1. Surplus(t) => references[extent[t]] = 1
  BY DEF Backing!Drop, PoolIInv, Told, CallsKnown, CallKnown
<1>2. place[t] = "drop"
  BY DEF Backing!Drop
<1>3. references[extent[t]] # 1 => span[t] = 0 \/ region[t] # None
  BY <1>1, <1>2 DEF Surplus
<1> QED
  BY <1>3 DEF Backing!Drop, Backing!Dropped, Backing!Set

LEMMA ReleaseFinds ==
  ASSUME PoolIInv, NEW r \in out
  PROVE  issuedCount - 1 \in Nat
<1>1. Typed /\ issuedCount = Cardinality(out) + Cardinality(Handing)
  BY SameCardinality DEF PoolIInv, Told, Backing!IssuedExact, Handing
<1>2. Cardinality(Handing) \in Nat
  BY RegionsAreFinite, Counting DEF Handing
<1>3. Cardinality(out) \in Nat /\ Cardinality(out) > 0
  BY <1>1, OutMoves
<1> QED
  BY <1>1, <1>2, <1>3

LEMMA Spans ==
  /\ Span \in Nat /\ Span > 1 /\ Limit \in Nat
  /\ 0 \in 0..Span /\ 1 \in 0..Span /\ 1 \in 1..Span /\ Span \in 0..Span
BY PoolTypes

LocalsTyped ==
    /\ out \subseteq Backing!Regions
    /\ place \in [Threads -> Backing!Places]
    /\ extent \in [Threads -> Extents \cup {None}]
    /\ region \in [Threads -> Backing!Regions \cup {None}]
    /\ span \in [Threads -> {0, 1, Span}]

LEMMA EndTyped ==
  ASSUME Typed, NEW t \in Threads, NEW r \in Backing!Regions \cup {None}, Backing!End(t, r)
  PROVE  LocalsTyped'
BY DEF Typed, Backing!End, Backing!Set, LocalsTyped, Backing!Places

LEMMA TakeFromActiveTyped ==
  ASSUME PoolIInv, NEW t \in Threads, Backing!TakeFromActive(t)
  PROVE  Typed'
<1>0. Typed
  BY DEF PoolIInv, Told
<1>1. /\ active \in Extents /\ unissued[active] \in 1..Span
      /\ NextRegion \in Backing!Regions
  BY NextRegionIsNew, TakesNext
<1>2. references' \in [Extents -> Nat]
  <2>1. references' = [references EXCEPT ![active] = references[active] + 1]
    BY TakesNext
  <2>2. references \in [Extents -> Nat]
    BY <1>0 DEF Typed
  <2> QED
    BY <1>1, <2>1, <2>2
<1>3. unissued' \in [Extents -> 0..Span]
  <2>1. unissued' = [unissued EXCEPT ![active] = unissued[active] - 1]
    BY TakesNext
  <2>2. unissued \in [Extents -> 0..Span]
    BY <1>0 DEF Typed
  <2>3. unissued[active] - 1 \in 0..Span
    BY <1>1, Spans
  <2> QED
    BY <1>1, <2>1, <2>2, <2>3
<1>4. issuedCount' \in Nat /\ UNCHANGED <<mapped, size, pool>>
  BY <1>0, TakesNext DEF Typed
<1>5. active' \in Extents \cup {None} /\ LocalsTyped'
  <2>1. CASE unissued[active] = 1
    <3>1. /\ active' = None /\ place' = [place EXCEPT ![t] = "drop"]
          /\ region' = [region EXCEPT ![t] = NextRegion]
          /\ extent' = [extent EXCEPT ![t] = active]
          /\ UNCHANGED <<out, span>>
      BY <2>1, TakesNext
    <3> QED
      BY <1>0, <1>1, <3>1 DEF Typed, LocalsTyped, Backing!Places
  <2>2. CASE unissued[active] # 1
    <3>1. active' = active /\ Backing!End(t, NextRegion)
      BY <2>2, TakesNext
    <3> QED
      BY <1>0, <1>1, <3>1, EndTyped
  <2> QED
    BY <2>1, <2>2
<1> QED
  BY <1>0, <1>2, <1>3, <1>4, <1>5 DEF Typed, LocalsTyped

LEMMA TypedKept ==
  ASSUME PoolIInv, [Backing!Next]_Backing!vars
  PROVE  Typed'
<1>0. Typed
  BY DEF PoolIInv, Told
<1> USE <1>0, Spans DEF Typed, Backing!Places, Backing!Set
<1>1. ASSUME NEW t \in Threads, Backing!Acquire(t) PROVE Typed'
  BY <1>1 DEF Backing!Acquire, Backing!extents, Backing!shared
<1>2. ASSUME NEW t \in Threads, Backing!TakePooled(t) PROVE Typed'
  <2>1. /\ Head(pool) \in Backing!Regions /\ pool' \in Seq(Backing!Regions)
        /\ Len(pool') = Len(pool) - 1
    BY <1>2, PoolTaken DEF Backing!TakePooled, PoolIInv, Told
  <2> QED
    BY <1>2, <2>1 DEF Backing!TakePooled, Backing!End, Backing!extents
<1>3. ASSUME NEW t \in Threads, Backing!TakeFromActive(t) PROVE Typed'
  BY <1>3, TakeFromActiveTyped
<1>4. ASSUME NEW t \in Threads, Backing!ChooseSpan(t) PROVE Typed'
  BY <1>4 DEF Backing!ChooseSpan, Backing!extents, Backing!shared
<1>5. ASSUME NEW t \in Threads, Backing!CreateFails(t) PROVE Typed'
  BY <1>5 DEF Backing!CreateFails, Backing!End, Backing!extents, Backing!shared
<1>6. ASSUME NEW t \in Threads, NEW e \in Extents, Backing!Create(t, e) PROVE Typed'
  <2>1. PICK n \in {1, span[t]} :
          /\ size' = [size EXCEPT ![e] = n]
          /\ unissued' = [unissued EXCEPT ![e] = IF n = 1 THEN 0 ELSE n]
          /\ place' = [place EXCEPT ![t] = IF n = 1 THEN "count" ELSE "install"]
          /\ region' = [region EXCEPT ![t] = IF n = 1 THEN <<e, 1>> ELSE None]
    BY <1>6 DEF Backing!Create
  <2>2. n \in 0..Span
    BY <2>1
  <2>4. <<e, 1>> \in Backing!Regions
    BY DEF Backing!Regions
  <2> QED
    BY <1>6, <2>1, <2>2, <2>4 DEF Backing!Create, Backing!shared
<1>7. ASSUME NEW t \in Threads, Backing!CountSole(t) PROVE Typed'
  <2>1. region[t] \in Backing!Regions
    BY <1>7 DEF Backing!CountSole, PoolIInv, Told, CallsKnown, CallKnown
  <2> QED
    BY <1>7, <2>1 DEF Backing!CountSole, Backing!End, Backing!extents
<1>8. ASSUME NEW t \in Threads, Backing!Install(t) PROVE Typed'
  BY <1>8 DEF Backing!Install, Backing!extents
<1>9. ASSUME NEW t \in Threads, Backing!Drop(t) PROVE Typed'
  <2>1. references' \in [Extents -> Nat]
    <3>1. extent[t] \in Extents /\ references[extent[t]] - 1 \in Nat
      BY <1>9, DropFinds DEF Backing!Drop
    <3>2. references' = [references EXCEPT ![extent[t]] = references[extent[t]] - 1]
      BY <1>9, DropsTo
    <3> QED
      BY <3>1, <3>2
  <2>2. UNCHANGED <<mapped, size, unissued, Backing!shared>>
    BY <1>9, DropsTo
  <2>3. CASE references[extent[t]] = 1
    <3>1. place' = [place EXCEPT ![t] = "unmap"] /\ UNCHANGED <<out, extent, region, span>>
      BY <1>9, <2>3, DropsTo
    <3> QED
      BY <2>1, <2>2, <3>1 DEF Backing!shared
  <2>4. CASE references[extent[t]] # 1
    <3>1. Backing!End(t, region[t])
      BY <1>9, <2>4, DropsTo
    <3>2. region[t] \in Backing!Regions \cup {None}
      OBVIOUS
    <3> QED
      BY <2>1, <2>2, <3>1, <3>2, EndTyped DEF Backing!shared, LocalsTyped
  <2> QED
    BY <2>3, <2>4
<1>10. ASSUME NEW t \in Threads, Backing!Unmap(t) PROVE Typed'
  <2>1. /\ size' \in [Extents -> 0..Span] /\ unissued' \in [Extents -> 0..Span]
        /\ mapped' \subseteq Extents /\ UNCHANGED <<references, Backing!shared>>
    BY <1>10 DEF Backing!Unmap
  <2>2. Backing!Dropped(t) /\ region[t] = None
    BY <1>10 DEF Backing!Unmap, PoolIInv, Told, CallsKnown, CallKnown
  <2>3. \/ Backing!End(t, None)
        \/ /\ place' = [place EXCEPT ![t] = "take"] /\ extent' = [extent EXCEPT ![t] = None]
           /\ UNCHANGED <<out, region, span>>
    BY <2>2 DEF Backing!Dropped
  <2>4. LocalsTyped'
    BY <2>3, EndTyped DEF LocalsTyped
  <2> QED
    BY <2>1, <2>4 DEF Backing!shared, LocalsTyped
<1>11. ASSUME NEW t \in Threads, NEW r \in Backing!Regions, Backing!Release(t, r) PROVE Typed'
  <2>1. issuedCount - 1 \in Nat
    BY <1>11, ReleaseFinds DEF Backing!Release
  <2>2. CASE Len(pool) < Limit
    <3>1. pool' = <<r>> \o pool
      BY <1>11, <2>2 DEF Backing!Release
    <3>2. <<r>> \in Seq(Backing!Regions) /\ Len(<<r>>) = 1
      OBVIOUS
    <3>3. pool' \in Seq(Backing!Regions) /\ Len(pool') = Len(pool) + 1
      BY <3>1, <3>2
    <3> QED
      BY <1>11, <2>1, <2>2, <3>3 DEF Backing!Release, Backing!extents
  <2>3. CASE ~(Len(pool) < Limit)
    <3>1. r[1] \in Extents
      BY DEF Backing!Regions
    <3> QED
      BY <1>11, <2>1, <2>3, <3>1 DEF Backing!Release, Backing!extents
  <2> QED
    BY <2>2, <2>3
<1>12. CASE UNCHANGED Backing!vars
  BY <1>12 DEF Backing!vars, Backing!extents, Backing!shared
<1> QED
  BY <1>1, <1>2, <1>3, <1>4, <1>5, <1>6, <1>7, <1>8, <1>9, <1>10, <1>11, <1>12 DEF Backing!Next,
     Backing!Step

-----------------------------------------------------------------------------
\* Where regions are after a step, action by action.
SamePlaces == EachInOnePlace' /\ Used' = Used

LEMMA NothingMoves ==
  ASSUME PoolIInv, UNCHANGED <<out, pool, region>>
  PROVE  SamePlaces
BY DEF PoolIInv, Told, SamePlaces, EachInOnePlace, Used, Backing!InHand, Backing!Pooled

\* A call returns with the region it has in hand, if any.
LEMMA EndMoves ==
  ASSUME PoolIInv, NEW t \in Threads, Backing!End(t, region[t]), pool' = pool
  PROVE  SamePlaces
<1>0. Typed /\ EachInOnePlace
  BY DEF PoolIInv, Told
<1>1. region' = [region EXCEPT ![t] = None]
  BY DEF Backing!End, Backing!Set
<1>2. Backing!InHand' = Backing!InHand \ {region[t]}
      /\ \A u, v \in Threads : region'[u] # None /\ region'[u] = region'[v] => u = v
  <2>1. None \in Backing!Regions \cup {None}
    OBVIOUS
  <2>2. /\ Backing!InHand' = (Backing!InHand \ {region[t]}) \cup ({None} \ {None})
        /\ \A u, v \in Threads : region'[u] # None /\ region'[u] = region'[v] => u = v
    BY <1>0, <1>1, <2>1, HandMoves
  <2> QED
    BY <2>2
<1>3. Backing!Pooled' = Backing!Pooled
  BY DEF Backing!Pooled
<1>4. CASE region[t] = None
  <2>1. out' = out /\ Backing!InHand' = Backing!InHand
    BY <1>2, <1>4 DEF Backing!End, Backing!InHand
  <2> QED
    BY <1>0, <1>2, <1>3, <2>1 DEF SamePlaces, EachInOnePlace, Used
<1>5. CASE region[t] # None
  <2>1. out' = out \cup {region[t]} /\ region[t] \in Backing!InHand
    BY <1>5 DEF Backing!End, Backing!InHand
  <2> QED
    BY <1>0, <1>2, <1>3, <2>1 DEF SamePlaces, EachInOnePlace, Used
<1> QED
  BY <1>4, <1>5

LEMMA TakePooledMoves ==
  ASSUME PoolIInv, NEW t \in Threads, Backing!TakePooled(t)
  PROVE  SamePlaces /\ Head(pool) \notin out
<1>0. Typed /\ EachInOnePlace /\ region[t] = None
  BY DEF Backing!TakePooled, PoolIInv, Told, CallsKnown, CallKnown
<1>1. /\ Head(pool) \in Backing!Pooled /\ Head(pool) \in Backing!Regions
      /\ Backing!Pooled' = Backing!Pooled \ {Head(pool)}
      /\ \A i, j \in DOMAIN pool' : pool'[i] = pool'[j] => i = j
  BY <1>0, PoolTaken DEF Backing!TakePooled
<1>2. Head(pool) # None
  BY <1>1, PoolTypes
<1>3. region' = region /\ out' = out \cup {Head(pool)}
  BY <1>0, <1>2 DEF Backing!TakePooled, Backing!End, Backing!Set, Typed
<1>4. Backing!InHand' = Backing!InHand
  BY <1>3 DEF Backing!InHand
<1> QED
  BY <1>0, <1>1, <1>3, <1>4 DEF SamePlaces, EachInOnePlace, Used

LEMMA TakeFromActiveMoves ==
  ASSUME PoolIInv, NEW t \in Threads, Backing!TakeFromActive(t)
  PROVE  EachInOnePlace' /\ Used' = Used \cup {NextRegion}
<1>0. Typed /\ EachInOnePlace /\ region[t] = None /\ pool' = pool
  BY TakesNext DEF PoolIInv, Told, CallsKnown, CallKnown
<1>1. NextRegion \in Backing!Regions /\ NextRegion \notin Used /\ NextRegion # None
  BY TakesNext, NextRegionIsNew
<1>2. Backing!Pooled' = Backing!Pooled
  BY <1>0 DEF Backing!Pooled
<1>3. CASE unissued[active] = 1
  <2>1. region' = [region EXCEPT ![t] = NextRegion] /\ out' = out
    BY <1>3, TakesNext
  <2>2. Backing!InHand' = Backing!InHand \cup {NextRegion}
        /\ \A u, v \in Threads : region'[u] # None /\ region'[u] = region'[v] => u = v
    <3>1. NextRegion \notin Backing!InHand
      BY <1>1 DEF Used
    <3>2. /\ Backing!InHand' = (Backing!InHand \ {region[t]}) \cup ({NextRegion} \ {None})
          /\ \A u, v \in Threads : region'[u] # None /\ region'[u] = region'[v] => u = v
      BY <1>0, <1>1, <2>1, <3>1, HandMoves
    <3>3. None \notin Backing!InHand
      BY DEF Backing!InHand
    <3> QED
      BY <1>0, <1>1, <3>2, <3>3
  <2> QED
    BY <1>0, <1>1, <1>2, <2>1, <2>2 DEF EachInOnePlace, Used
<1>4. CASE unissued[active] # 1
  <2>1. region' = region /\ out' = out \cup {NextRegion}
    BY <1>0, <1>1, <1>4, TakesNext DEF Backing!End, Backing!Set, Typed
  <2>2. Backing!InHand' = Backing!InHand
    BY <2>1 DEF Backing!InHand
  <2> QED
    BY <1>0, <1>1, <1>2, <2>1, <2>2 DEF EachInOnePlace, Used
<1> QED
  BY <1>3, <1>4

LEMMA CreateMoves ==
  ASSUME PoolIInv, NEW t \in Threads, NEW e \in Extents, Backing!Create(t, e)
  PROVE  /\ references[e] = 0 /\ active # e
         /\ \A r \in Used : r[1] # e
         /\ \A u \in Threads : place[u] \in {"install", "drop", "unmap"} => extent[u] # e
         /\ EachInOnePlace'
         /\ \/ region'[t] = <<e, 1>> /\ place'[t] = "count"
               /\ Used' = Used \cup {<<e, 1>>} /\ <<e, 1>> \notin Used
               /\ <<e, 1>> \in Backing!Regions
               /\ size'[e] = 1 /\ unissued'[e] = 0
            \/ region'[t] = None /\ place'[t] = "install"
               /\ Used' = Used
               /\ size'[e] > 1 /\ unissued'[e] = size'[e]
<1>0. Typed /\ EachInOnePlace /\ region[t] = None /\ span[t] # 0
      /\ UNCHANGED <<pool, out>>
  BY DEF Backing!Create, Backing!shared, PoolIInv, Told, CallsKnown, CallKnown
<1>1. e \notin mapped
  BY DEF Backing!Create
<1>2. references[e] = 0 /\ Backing!Holding(e, {"unmap"}) = {}
  BY <1>1, SameCardinality DEF PoolIInv, Told, Typed, Backing!ReferencesExact
<1>3. /\ active # e /\ \A r \in Used : r[1] # e
      /\ \A u \in Threads : place[u] \in {"install", "drop"} => extent[u] # e
  BY <1>2, WhoRefers DEF PoolIInv, Told
<1>4. \A u \in Threads : place[u] \in {"install", "drop", "unmap"} => extent[u] # e
  BY <1>2, <1>3 DEF Backing!Holding
<1>5. PICK n \in {1, span[t]} :
        /\ size' = [size EXCEPT ![e] = n]
        /\ unissued' = [unissued EXCEPT ![e] = IF n = 1 THEN 0 ELSE n]
        /\ place' = [place EXCEPT ![t] = IF n = 1 THEN "count" ELSE "install"]
        /\ region' = [region EXCEPT ![t] = IF n = 1 THEN <<e, 1>> ELSE None]
  BY DEF Backing!Create, Backing!Set
<1>6. Backing!Pooled' = Backing!Pooled /\ None \notin Backing!InHand
  BY <1>0 DEF Backing!Pooled, Backing!InHand
<1>7. size \in [Extents -> 0..Span] /\ unissued \in [Extents -> 0..Span]
      /\ place \in [Threads -> Backing!Places]
      /\ region \in [Threads -> Backing!Regions \cup {None}]
  BY <1>0 DEF Typed
<1>8. CASE n = 1
  <2>1. <<e, 1>> \in Backing!Regions
    BY Spans DEF Backing!Regions
  <2>2. <<e, 1>> \notin Used /\ <<e, 1>> # None
    BY <1>3, <2>1, PoolTypes
  <2>3. region' = [region EXCEPT ![t] = <<e, 1>>] /\ <<e, 1>> \notin Backing!InHand
    BY <1>5, <1>8, <2>2 DEF Used
  <2>4. /\ Backing!InHand' = (Backing!InHand \ {region[t]}) \cup ({<<e, 1>>} \ {None})
        /\ \A u, v \in Threads : region'[u] # None /\ region'[u] = region'[v] => u = v
    BY <1>0, <2>1, <2>3, HandMoves
  <2>5. Backing!InHand' = Backing!InHand \cup {<<e, 1>>}
    BY <1>0, <1>6, <2>2, <2>4
  <2>6. EachInOnePlace' /\ Used' = Used \cup {<<e, 1>>}
    BY <1>0, <1>6, <2>2, <2>4, <2>5 DEF EachInOnePlace, Used
  <2>7. region'[t] = <<e, 1>> /\ place'[t] = "count" /\ size'[e] = 1 /\ unissued'[e] = 0
    BY <1>5, <1>7, <1>8
  <2> QED
    BY <1>2, <1>3, <1>4, <2>1, <2>2, <2>6, <2>7
<1>9. CASE n # 1
  <2>1. region' = region
    BY <1>0, <1>5, <1>7, <1>9
  <2>2. SamePlaces
    BY <1>0, <2>1, NothingMoves
  <2>3. n = Span
    BY <1>0, <1>5, <1>9 DEF Typed
  <2>4. region'[t] = None /\ place'[t] = "install" /\ size'[e] > 1 /\ unissued'[e] = size'[e]
    BY <1>0, <1>5, <1>7, <1>9, <2>1, <2>3, Spans
  <2> QED
    BY <1>2, <1>3, <1>4, <2>2, <2>4 DEF SamePlaces
<1> QED
  BY <1>8, <1>9

LEMMA ReleaseMoves ==
  ASSUME PoolIInv, NEW t \in Threads, NEW r \in Backing!Regions, Backing!Release(t, r)
  PROVE  /\ EachInOnePlace' /\ r \in Used /\ r[1] \in Extents
         /\ \/ Used' = Used /\ UNCHANGED <<place, extent>>
            \/ /\ Used' = Used \ {r} /\ place[t] = "out"
               /\ place' = [place EXCEPT ![t] = "drop"] /\ extent' = [extent EXCEPT ![t] = r[1]]
<1>0. Typed /\ EachInOnePlace /\ r \in out /\ out' = out \ {r} /\ region' = region
      /\ place[t] = "out"
  BY DEF Backing!Release, PoolIInv, Told
<1>1. Backing!InHand' = Backing!InHand
  BY <1>0 DEF Backing!InHand
<1>2. r \in Used /\ r[1] \in Extents /\ r \notin Backing!InHand /\ r \notin Backing!Pooled
  BY <1>0 DEF Used, Backing!Regions, EachInOnePlace
<1>3. CASE Len(pool) < Limit
  <2>1. pool' = <<r>> \o pool /\ UNCHANGED <<place, extent>>
    BY <1>3 DEF Backing!Release
  <2>2. /\ Backing!Pooled' = Backing!Pooled \cup {r}
        /\ \A i, j \in DOMAIN pool' : pool'[i] = pool'[j] => i = j
    BY <1>0, <1>2, <2>1, PoolGiven
  <2> QED
    BY <1>0, <1>1, <1>2, <2>1, <2>2 DEF EachInOnePlace, Used
<1>4. CASE ~(Len(pool) < Limit)
  <2>1. /\ pool' = pool
        /\ place' = [place EXCEPT ![t] = "drop"] /\ extent' = [extent EXCEPT ![t] = r[1]]
    BY <1>4 DEF Backing!Release, Backing!Set
  <2>2. Backing!Pooled' = Backing!Pooled
    BY <2>1 DEF Backing!Pooled
  <2> QED
    BY <1>0, <1>1, <1>2, <2>1, <2>2 DEF EachInOnePlace, Used
<1> QED
  BY <1>3, <1>4

-----------------------------------------------------------------------------
\* The references after a step.
Balanced(e) == references[e] = Cardinality(Backing!Referring(e)) + (IF active = e THEN 1 ELSE 0)
                                  + Cardinality(Backing!Holding(e, {"install", "drop"}))

Unmapping(e) == \E t \in Threads : place[t] = "unmap" /\ extent[t] = e
MappedRight(e) == e \in mapped <=> references[e] > 0 \/ Unmapping(e)

LEMMA ExactIs == Backing!ReferencesExact <=> \A e \in Extents : Balanced(e) /\ MappedRight(e)
<1>1. \A e \in Extents : Backing!Holding(e, {"unmap"}) # {} <=> Unmapping(e)
  BY DEF Backing!Holding, Unmapping
<1> QED
  BY <1>1, SameCardinality DEF Backing!ReferencesExact, Balanced, MappedRight

LEMMA ExactAfter ==
    Backing!ReferencesExact' <=> \A e \in Extents : Balanced(e)' /\ MappedRight(e)'
<1>1. \A e \in Extents : Backing!Holding(e, {"unmap"})' # {} <=> Unmapping(e)'
  BY DEF Backing!Holding, Unmapping
<1> QED
  BY <1>1, SameCardinality DEF Backing!ReferencesExact, Balanced, MappedRight

\* The references of an extent follow its regions in use, the active extent and the
\* thread that moved.
LEMMA BalanceKept ==
  ASSUME PoolIInv, Typed', NEW e \in Extents, NEW t \in Threads, NEW r, NEW d \in Int,
         \A u \in Threads \ {t} : place'[u] = place[u] /\ extent'[u] = extent[u],
         \/ d = 0 /\ Used' = Used
         \/ d = 1 /\ r \notin Used /\ Used' = Used \cup {r}
         \/ d = -1 /\ r \in Used /\ Used' = Used \ {r},
         references'[e] = references[e] + (IF r[1] = e THEN d ELSE 0)
            + (IF active' = e THEN 1 ELSE 0) - (IF active = e THEN 1 ELSE 0)
            + (IF Holds(t, e)' THEN 1 ELSE 0) - (IF Holds(t, e) THEN 1 ELSE 0)
  PROVE  Balanced(e)'
<1>0. Typed /\ Balanced(e)
  BY ExactIs DEF PoolIInv, Told
<1>1. /\ Cardinality(Backing!Referring(e)) \in Nat
      /\ Cardinality(Backing!Referring(e)')
            = Cardinality(Backing!Referring(e)) + (IF r[1] = e THEN d ELSE 0)
  <2>1. Cardinality(Backing!Referring(e)) \in Nat
    BY <1>0, ReferringMoves
  <2>2. CASE d = 0 /\ Used' = Used
    BY <1>0, <2>1, <2>2, ReferringMoves
  <2>3. CASE d = 1 /\ r \notin Used /\ Used' = Used \cup {r}
    BY <1>0, <2>1, <2>3, ReferringMoves
  <2>4. CASE d = -1 /\ r \in Used /\ Used' = Used \ {r}
    <3>1. Cardinality(Backing!Referring(e)')
             = Cardinality(Backing!Referring(e)) - (IF r[1] = e THEN 1 ELSE 0)
      BY <1>0, <2>4, ReferringMoves
    <3> QED
      BY <2>1, <2>4, <3>1
  <2> QED
    BY <2>1, <2>2, <2>3, <2>4
<1>2. /\ Cardinality(Backing!Holding(e, {"install", "drop"})) \in Nat
      /\ Cardinality(Backing!Holding(e, {"install", "drop"})')
            = Cardinality(Backing!Holding(e, {"install", "drop"}))
                 - (IF Holds(t, e) THEN 1 ELSE 0) + (IF Holds(t, e)' THEN 1 ELSE 0)
  BY <1>0, HoldingMoves
<1>3. references[e] = Cardinality(Backing!Referring(e)) + (IF active = e THEN 1 ELSE 0)
                         + Cardinality(Backing!Holding(e, {"install", "drop"}))
  BY <1>0 DEF Balanced
<1>4. references'[e] = Cardinality(Backing!Referring(e)') + (IF active' = e THEN 1 ELSE 0)
                         + Cardinality(Backing!Holding(e, {"install", "drop"})')
  BY <1>1, <1>2, <1>3
<1> QED
  BY <1>4 DEF Balanced

\* A step that neither maps nor unmaps nor changes a count of references.
LEMMA MappedKept ==
  ASSUME PoolIInv, NEW e \in Extents, NEW t \in Threads,
         \A u \in Threads \ {t} : place'[u] = place[u] /\ extent'[u] = extent[u],
         place[t] # "unmap", place'[t] # "unmap", mapped' = mapped,
         references'[e] > 0 <=> references[e] > 0
  PROVE  MappedRight(e)'
<1>1. Unmapping(e)' <=> Unmapping(e)
  BY DEF Unmapping
<1> QED
  BY <1>1, ExactIs DEF PoolIInv, MappedRight

\* A step of a thread that holds no inventory and drops nothing.
LEMMA QuietExact ==
  ASSUME PoolIInv, Typed', NEW t \in Threads, Used' = Used,
         UNCHANGED <<mapped, references, active>>,
         place[t] \in {"out", "take", "create", "count"},
         place'[t] \in {"out", "take", "create", "count"},
         \A u \in Threads \ {t} : place'[u] = place[u] /\ extent'[u] = extent[u]
  PROVE  Backing!ReferencesExact'
<1> SUFFICES ASSUME NEW e \in Extents PROVE Balanced(e)' /\ MappedRight(e)'
  BY ExactAfter
<1>1. ~Holds(t, e) /\ ~Holds(t, e)'
  BY DEF Holds
<1>2. references[e] \in Nat
  BY DEF PoolIInv, Told, Typed
<1>3. Balanced(e)'
  BY <1>1, <1>2, BalanceKept
<1>4. MappedRight(e)'
  BY MappedKept
<1> QED
  BY <1>3, <1>4


LEMMA TakeFromActiveExact ==
  ASSUME PoolIInv, Typed', NEW t \in Threads, Backing!TakeFromActive(t)
  PROVE  Backing!ReferencesExact'
<1>1. /\ Used' = Used \cup {NextRegion} /\ NextRegion \notin Used /\ NextRegion[1] = active
      /\ active \in Extents /\ active # None
  BY TakeFromActiveMoves, NextRegionIsNew, TakesNext
<1>2. /\ place[t] = "take" /\ mapped' = mapped
      /\ references' = [references EXCEPT ![active] = references[active] + 1]
  BY TakesNext
<1>3. /\ \A u \in Threads \ {t} : place'[u] = place[u] /\ extent'[u] = extent[u]
      /\ \/ place'[t] = "drop" /\ extent'[t] = active /\ active' = None
         \/ place'[t] = "out" /\ active' = active
  <2>1. place \in [Threads -> Backing!Places] /\ extent \in [Threads -> Extents \cup {None}]
    BY DEF PoolIInv, Told, Typed
  <2>2. CASE unissued[active] = 1
    <3>1. active' = None /\ place' = [place EXCEPT ![t] = "drop"]
          /\ extent' = [extent EXCEPT ![t] = active]
      BY <2>2, TakesNext
    <3> QED
      BY <2>1, <3>1
  <2>3. CASE unissued[active] # 1
    <3>1. active' = active /\ Backing!End(t, NextRegion)
      BY <2>3, TakesNext
    <3> QED
      BY <2>1, <3>1 DEF Backing!End, Backing!Set
  <2> QED
    BY <2>2, <2>3
<1>4. references[active] \in Nat \ {0}
  BY <1>1, WhoRefers DEF PoolIInv, Told, Typed
<1> SUFFICES ASSUME NEW e \in Extents PROVE Balanced(e)' /\ MappedRight(e)'
  BY ExactAfter
<1>5. references[e] \in Nat
      /\ references'[e] = IF e = active THEN references[e] + 1 ELSE references[e]
  BY <1>1, <1>2 DEF PoolIInv, Told, Typed
<1>6. MappedRight(e)'
  <2>1. references'[e] > 0 <=> references[e] > 0
    BY <1>4, <1>5
  <2> QED
    BY <1>2, <1>3, <2>1, MappedKept
<1>7. Balanced(e)'
  <2>1. ~Holds(t, e)
    BY <1>2 DEF Holds
  <2>2. Holds(t, e)' <=> place'[t] = "drop" /\ e = active
    BY <1>3 DEF Holds
  <2>3. active # None /\ e # None
    BY <1>1, PoolTypes
  <2>4. references'[e] = references[e] + (IF NextRegion[1] = e THEN 1 ELSE 0)
            + (IF active' = e THEN 1 ELSE 0) - (IF active = e THEN 1 ELSE 0)
            + (IF Holds(t, e)' THEN 1 ELSE 0) - (IF Holds(t, e) THEN 1 ELSE 0)
    <3>1. CASE e = active
      BY <1>1, <1>3, <1>5, <2>1, <2>2, <2>3, <3>1
    <3>2. CASE e # active
      BY <1>1, <1>3, <1>5, <2>1, <2>2, <2>3, <3>2
    <3> QED
      BY <3>1, <3>2
  <2> QED
    BY <1>1, <1>3, <2>4, BalanceKept
<1> QED
  BY <1>6, <1>7

LEMMA CreateExact ==
  ASSUME PoolIInv, Typed', NEW t \in Threads, NEW x \in Extents, Backing!Create(t, x)
  PROVE  Backing!ReferencesExact'
<1>1. /\ references[x] = 0 /\ active # x
      /\ \A u \in Threads : place[u] \in {"install", "drop", "unmap"} => extent[u] # x
      /\ \/ /\ place'[t] = "count" /\ Used' = Used \cup {<<x, 1>>} /\ <<x, 1>> \notin Used
         \/ /\ place'[t] = "install" /\ Used' = Used
  BY CreateMoves
<1>2. /\ place[t] = "create" /\ active' = active /\ mapped' = mapped \cup {x}
      /\ references' = [references EXCEPT ![x] = 1]
  BY DEF Backing!Create, Backing!Set, Backing!shared
<1>3. /\ extent' = [extent EXCEPT ![t] = x]
      /\ \A u \in Threads \ {t} : place'[u] = place[u] /\ extent'[u] = extent[u]
      /\ extent'[t] = x
  BY DEF Backing!Create, Backing!Set, PoolIInv, Told, Typed
<1> SUFFICES ASSUME NEW e \in Extents PROVE Balanced(e)' /\ MappedRight(e)'
  BY ExactAfter
<1>4. /\ references[e] \in Nat
      /\ references'[e] = IF e = x THEN 1 ELSE references[e]
  BY <1>2 DEF PoolIInv, Told, Typed
<1>5. MappedRight(e)'
  <2>1. Unmapping(e)' <=> Unmapping(e)
    BY <1>1, <1>2, <1>3 DEF Unmapping
  <2>2. MappedRight(e)
    BY ExactIs DEF PoolIInv
  <2>3. CASE e = x
    BY <1>2, <1>4, <2>3 DEF MappedRight
  <2>4. CASE e # x
    BY <1>2, <1>4, <2>1, <2>2, <2>4 DEF MappedRight
  <2> QED
    BY <2>3, <2>4
<1>6. ~Holds(t, e)
  BY <1>2 DEF Holds
<1>7. CASE place'[t] = "count"
  <2>1. ~Holds(t, e)' /\ <<x, 1>>[1] = x
    BY <1>7 DEF Holds
  <2>2. references'[e] = references[e] + (IF <<x, 1>>[1] = e THEN 1 ELSE 0)
            + (IF active' = e THEN 1 ELSE 0) - (IF active = e THEN 1 ELSE 0)
            + (IF Holds(t, e)' THEN 1 ELSE 0) - (IF Holds(t, e) THEN 1 ELSE 0)
    BY <1>1, <1>2, <1>4, <1>6, <2>1
  <2>3. Balanced(e)'
    BY <1>1, <1>3, <1>7, <2>2, BalanceKept
  <2> QED
    BY <1>5, <2>3
<1>8. CASE place'[t] = "install"
  <2>1. Holds(t, e)' <=> e = x
    BY <1>3, <1>8 DEF Holds
  <2>2. references'[e] = references[e] + (IF <<x, 1>>[1] = e THEN 0 ELSE 0)
            + (IF active' = e THEN 1 ELSE 0) - (IF active = e THEN 1 ELSE 0)
            + (IF Holds(t, e)' THEN 1 ELSE 0) - (IF Holds(t, e) THEN 1 ELSE 0)
    BY <1>1, <1>2, <1>4, <1>6, <2>1
  <2>3. Balanced(e)'
    BY <1>1, <1>3, <1>8, <2>2, BalanceKept
  <2> QED
    BY <1>5, <2>3
<1> QED
  BY <1>1, <1>7, <1>8

LEMMA InstallExact ==
  ASSUME PoolIInv, Typed', NEW t \in Threads, Backing!Install(t)
  PROVE  Backing!ReferencesExact'
<1>1. /\ place[t] = "install" /\ extent[t] \in Extents /\ extent[t] # None
      /\ UNCHANGED <<mapped, references, out, pool, region>>
  BY DEF Backing!Install, Backing!extents, PoolIInv, Told, Typed, CallsKnown, CallKnown
<1>2. Used' = Used
  BY <1>1, NothingMoves DEF SamePlaces
<1>3. /\ \A u \in Threads \ {t} : place'[u] = place[u] /\ extent'[u] = extent[u]
      /\ \/ place'[t] = "take" /\ active = None /\ active' = extent[t]
         \/ place'[t] = "drop" /\ active' = active /\ extent'[t] = extent[t]
  BY DEF Backing!Install, Backing!Set, PoolIInv, Told, Typed
<1> SUFFICES ASSUME NEW e \in Extents PROVE Balanced(e)' /\ MappedRight(e)'
  BY ExactAfter
<1>4. references'[e] = references[e] /\ references[e] \in Nat /\ e # None
  BY <1>1, PoolTypes DEF PoolIInv, Told, Typed
<1>5. MappedRight(e)'
  BY <1>1, <1>3, <1>4, MappedKept
<1>6. (Holds(t, e) <=> extent[t] = e) /\ (Holds(t, e)' <=> place'[t] = "drop" /\ extent[t] = e)
  BY <1>1, <1>3 DEF Holds
<1>7. ASSUME NEW r
      PROVE  references'[e] = references[e] + (IF r[1] = e THEN 0 ELSE 0)
                + (IF active' = e THEN 1 ELSE 0) - (IF active = e THEN 1 ELSE 0)
                + (IF Holds(t, e)' THEN 1 ELSE 0) - (IF Holds(t, e) THEN 1 ELSE 0)
  <2>1. (IF r[1] = e THEN 0 ELSE 0) = 0
    OBVIOUS
  <2> QED
    BY <1>3, <1>4, <1>6, <2>1
<1>8. Balanced(e)'
  <2>1. 0 \in Int
    OBVIOUS
  <2>2. \A u \in Threads \ {t} : place'[u] = place[u] /\ extent'[u] = extent[u]
    BY <1>3
  <2> QED
    BY <1>2, <1>7, <2>1, <2>2, BalanceKept
<1> QED
  BY <1>5, <1>8

LEMMA DropExact ==
  ASSUME PoolIInv, Typed', NEW t \in Threads, Backing!Drop(t)
  PROVE  Backing!ReferencesExact'
<1>1. /\ place[t] = "drop" /\ extent[t] \in Extents /\ references[extent[t]] \in Nat \ {0}
      /\ references' = [references EXCEPT ![extent[t]] = references[extent[t]] - 1]
      /\ UNCHANGED <<mapped, active, pool>>
  BY DropsTo, DropFinds DEF Backing!shared
<1>2. Used' = Used
  <2>1. CASE references[extent[t]] = 1
    <3>1. UNCHANGED <<out, region>>
      BY <2>1, DropsTo
    <3> QED
      BY <1>1, <3>1, NothingMoves DEF SamePlaces
  <2>2. CASE references[extent[t]] # 1
    <3>1. Backing!End(t, region[t])
      BY <2>2, DropsTo
    <3> QED
      BY <1>1, <3>1, EndMoves DEF SamePlaces
  <2> QED
    BY <2>1, <2>2
<1>3. /\ \A u \in Threads \ {t} : place'[u] = place[u] /\ extent'[u] = extent[u]
      /\ references[extent[t]] = 1 => place'[t] = "unmap" /\ extent'[t] = extent[t]
      /\ references[extent[t]] # 1 => place'[t] = "out"
  <2>1. place \in [Threads -> Backing!Places] /\ extent \in [Threads -> Extents \cup {None}]
    BY DEF PoolIInv, Told, Typed
  <2>2. CASE references[extent[t]] = 1
    <3>1. place' = [place EXCEPT ![t] = "unmap"] /\ extent' = extent
      BY <2>2, DropsTo
    <3> QED
      BY <2>1, <2>2, <3>1
  <2>3. CASE references[extent[t]] # 1
    <3>1. Backing!End(t, region[t])
      BY <2>3, DropsTo
    <3> QED
      BY <2>1, <2>3, <3>1 DEF Backing!End, Backing!Set
  <2> QED
    BY <2>2, <2>3
<1> SUFFICES ASSUME NEW e \in Extents PROVE Balanced(e)' /\ MappedRight(e)'
  BY ExactAfter
<1>4. /\ references[e] \in Nat
      /\ references'[e] = IF e = extent[t] THEN references[e] - 1 ELSE references[e]
  BY <1>1 DEF PoolIInv, Told, Typed
<1>5. (Holds(t, e) <=> extent[t] = e) /\ ~Holds(t, e)'
  BY <1>1, <1>3 DEF Holds
<1>6. references'[e] = references[e] + (IF <<e, 1>>[1] = e THEN 0 ELSE 0)
            + (IF active' = e THEN 1 ELSE 0) - (IF active = e THEN 1 ELSE 0)
            + (IF Holds(t, e)' THEN 1 ELSE 0) - (IF Holds(t, e) THEN 1 ELSE 0)
  BY <1>1, <1>4, <1>5
<1>7. Balanced(e)'
  BY <1>2, <1>3, <1>6, BalanceKept
<1>8. MappedRight(e)
  BY ExactIs DEF PoolIInv
<1>9. CASE e # extent[t]
  <2>1. Unmapping(e)' <=> Unmapping(e)
    BY <1>1, <1>3, <1>9 DEF Unmapping
  <2> QED
    BY <1>1, <1>4, <1>7, <1>8, <1>9, <2>1 DEF MappedRight
<1>10. CASE e = extent[t]
  <2>1. e \in mapped'
    BY <1>1, <1>8, <1>10 DEF MappedRight
  <2>2. references'[e] > 0 \/ Unmapping(e)'
    BY <1>1, <1>3, <1>4, <1>10 DEF Unmapping
  <2> QED
    BY <1>7, <2>1, <2>2 DEF MappedRight
<1> QED
  BY <1>9, <1>10

LEMMA UnmapExact ==
  ASSUME PoolIInv, Typed', NEW t \in Threads, Backing!Unmap(t)
  PROVE  Backing!ReferencesExact'
<1>1. /\ place[t] = "unmap" /\ extent[t] \in Extents /\ references[extent[t]] = 0
      /\ region[t] = None /\ mapped' = mapped \ {extent[t]}
      /\ UNCHANGED <<references, active, pool>> /\ Backing!Dropped(t)
  BY DEF Backing!Unmap, PoolIInv, Told, Typed, CallsKnown, CallKnown, Backing!shared
<1>2. Used' = Used
  <2>1. CASE Backing!End(t, region[t])
    BY <1>1, <2>1, EndMoves DEF SamePlaces
  <2>2. CASE UNCHANGED <<out, region>>
    BY <1>1, <2>2, NothingMoves DEF SamePlaces
  <2> QED
    BY <1>1, <2>1, <2>2 DEF Backing!Dropped
<1>3. /\ \A u \in Threads \ {t} : place'[u] = place[u] /\ extent'[u] = extent[u]
      /\ place'[t] \in {"out", "take"}
  BY <1>1 DEF Backing!Dropped, Backing!End, Backing!Set, PoolIInv, Told, Typed
<1> SUFFICES ASSUME NEW e \in Extents PROVE Balanced(e)' /\ MappedRight(e)'
  BY ExactAfter
<1>4. references'[e] = references[e] /\ references[e] \in Nat
  BY <1>1 DEF PoolIInv, Told, Typed
<1>5. ~Holds(t, e) /\ ~Holds(t, e)'
  BY <1>1, <1>3 DEF Holds
<1>6. Balanced(e)'
  BY <1>1, <1>2, <1>3, <1>4, <1>5, BalanceKept
<1>7. MappedRight(e)
  BY ExactIs DEF PoolIInv
<1>8. CASE e # extent[t]
  <2>1. Unmapping(e)' <=> Unmapping(e)
    BY <1>1, <1>3, <1>8 DEF Unmapping
  <2> QED
    BY <1>1, <1>4, <1>6, <1>7, <1>8, <2>1 DEF MappedRight
<1>9. CASE e = extent[t]
  <2>1. ~Unmapping(e)'
    BY <1>1, <1>3, <1>9 DEF Unmapping, PoolIInv, Told, CallsKnown
  <2> QED
    BY <1>1, <1>4, <1>6, <1>9, <2>1 DEF MappedRight
<1> QED
  BY <1>8, <1>9

LEMMA ReleaseExact ==
  ASSUME PoolIInv, Typed', NEW t \in Threads, NEW r \in Backing!Regions, Backing!Release(t, r)
  PROVE  Backing!ReferencesExact'
<1>1. /\ place[t] = "out" /\ r \in Used /\ r[1] \in Extents
      /\ UNCHANGED <<mapped, references, active>>
      /\ \/ Used' = Used /\ UNCHANGED <<place, extent>>
         \/ /\ Used' = Used \ {r} /\ place' = [place EXCEPT ![t] = "drop"]
            /\ extent' = [extent EXCEPT ![t] = r[1]]
  BY ReleaseMoves DEF Backing!Release, Backing!extents
<1>2. /\ \A u \in Threads \ {t} : place'[u] = place[u] /\ extent'[u] = extent[u]
      /\ \/ Used' = Used /\ place'[t] = "out"
         \/ Used' = Used \ {r} /\ place'[t] = "drop" /\ extent'[t] = r[1]
  BY <1>1 DEF PoolIInv, Told, Typed
<1> SUFFICES ASSUME NEW e \in Extents PROVE Balanced(e)' /\ MappedRight(e)'
  BY ExactAfter
<1>3. references'[e] = references[e] /\ references[e] \in Nat
  BY <1>1 DEF PoolIInv, Told, Typed
<1>4. MappedRight(e)'
  BY <1>1, <1>2, <1>3, MappedKept
<1>5. ~Holds(t, e)
  BY <1>1 DEF Holds
<1>6. CASE Used' = Used /\ place'[t] = "out"
  <2>1. ~Holds(t, e)'
    BY <1>6 DEF Holds
  <2>2. Balanced(e)'
    BY <1>1, <1>2, <1>3, <1>5, <1>6, <2>1, BalanceKept
  <2> QED
    BY <1>4, <2>2
<1>7. CASE Used' = Used \ {r} /\ place'[t] = "drop" /\ extent'[t] = r[1]
  <2>1. Holds(t, e)' <=> r[1] = e
    BY <1>7 DEF Holds
  <2>2. references'[e] = references[e] + (IF r[1] = e THEN -1 ELSE 0)
            + (IF active' = e THEN 1 ELSE 0) - (IF active = e THEN 1 ELSE 0)
            + (IF Holds(t, e)' THEN 1 ELSE 0) - (IF Holds(t, e) THEN 1 ELSE 0)
    BY <1>1, <1>3, <1>5, <2>1
  <2>3. -1 \in Int /\ -1 = -1 /\ r \in Used /\ Used' = Used \ {r}
    BY <1>1, <1>7
  <2>4. \A u \in Threads \ {t} : place'[u] = place[u] /\ extent'[u] = extent[u]
    BY <1>2
  <2>5. Balanced(e)'
    BY <2>2, <2>3, <2>4, BalanceKept
  <2> QED
    BY <1>4, <2>5
<1> QED
  BY <1>2, <1>6, <1>7

-----------------------------------------------------------------------------
\* The count of issued regions after a step.
LEMMA CountKept ==
  ASSUME PoolIInv, NEW t \in Threads, NEW r, NEW d \in Int,
         \A u \in Threads \ {t} : place'[u] = place[u] /\ region'[u] = region[u],
         \/ d = 0 /\ out' = out
         \/ d = 1 /\ r \notin out /\ out' = out \cup {r}
         \/ d = -1 /\ r \in out /\ out' = out \ {r},
         issuedCount' = issuedCount + d
            + (IF Hands(t)' THEN 1 ELSE 0) - (IF Hands(t) THEN 1 ELSE 0)
  PROVE  Backing!IssuedExact'
<1>1. /\ Cardinality(out) \in Nat
      /\ Cardinality(out') = Cardinality(out) + d
  <2>1. /\ Cardinality(out) \in Nat
        /\ r \notin out => Cardinality(out \cup {r}) = Cardinality(out) + 1
        /\ r \in out => Cardinality(out \ {r}) = Cardinality(out) - 1
    BY OutMoves DEF PoolIInv, Told
  <2>2. CASE d = 0 /\ out' = out
    BY <2>1, <2>2
  <2>3. CASE d = 1 /\ r \notin out /\ out' = out \cup {r}
    BY <2>1, <2>3
  <2>4. CASE d = -1 /\ r \in out /\ out' = out \ {r}
    BY <2>1, <2>4
  <2> QED
    BY <2>2, <2>3, <2>4
<1>2. /\ Cardinality(Handing) \in Nat
      /\ Cardinality(Handing') = Cardinality(Handing)
            - (IF Hands(t) THEN 1 ELSE 0) + (IF Hands(t)' THEN 1 ELSE 0)
  BY HandingMoves
<1>3. issuedCount = Cardinality(out) + Cardinality(Handing)
  BY SameCardinality DEF PoolIInv, Backing!IssuedExact, Handing
<1>4. issuedCount' = Cardinality(out') + Cardinality(Handing')
  BY <1>1, <1>2, <1>3
<1> QED
  BY <1>4, SameCardinality DEF Backing!IssuedExact, Handing

\* A step before the region is in hand.
LEMMA QuietCount ==
  ASSUME PoolIInv, NEW t \in Threads, UNCHANGED <<issuedCount, out, region>>,
         \A u \in Threads \ {t} : place'[u] = place[u],
         \/ region[t] = None
         \/ place[t] \in {"drop", "unmap"} /\ place'[t] \in {"drop", "unmap"}
  PROVE  Backing!IssuedExact'
<1>1. Hands(t)' <=> Hands(t)
  BY DEF Hands
<1>2. issuedCount \in Nat
  BY DEF PoolIInv, Told, Typed
<1>3. issuedCount' = issuedCount + 0
            + (IF Hands(t)' THEN 1 ELSE 0) - (IF Hands(t) THEN 1 ELSE 0)
  BY <1>1, <1>2
<1> QED
  BY <1>3, CountKept

LEMMA CountStays ==
  ASSUME PoolIInv, NEW t \in Threads,
         Backing!Acquire(t) \/ Backing!ChooseSpan(t) \/ Backing!CreateFails(t)
         \/ Backing!Install(t) \/ Backing!Unmap(t)
  PROVE  Backing!IssuedExact'
<1>1. region[t] = None
  BY DEF PoolIInv, Told, CallsKnown, CallKnown, Backing!Acquire, Backing!ChooseSpan,
     Backing!CreateFails, Backing!Install, Backing!Unmap
<1>2. /\ UNCHANGED <<issuedCount, out, region>>
      /\ \A u \in Threads \ {t} : place'[u] = place[u]
  BY <1>1 DEF Backing!Acquire, Backing!ChooseSpan, Backing!CreateFails, Backing!Install,
     Backing!Unmap, Backing!Dropped, Backing!End, Backing!Set, Backing!shared, PoolIInv, Told,
     Typed
<1> QED
  BY <1>1, <1>2, QuietCount

LEMMA CountFollows ==
  ASSUME PoolIInv, Typed', NEW t \in Threads,
         \/ Backing!TakePooled(t) \/ Backing!TakeFromActive(t) \/ Backing!CountSole(t)
         \/ Backing!Drop(t)
         \/ \E e \in Extents : Backing!Create(t, e)
         \/ \E r \in Backing!Regions : Backing!Release(t, r)
  PROVE  Backing!IssuedExact'
<1>0. /\ place \in [Threads -> Backing!Places]
      /\ region \in [Threads -> Backing!Regions \cup {None}]
      /\ issuedCount \in Nat
  BY DEF PoolIInv, Told, Typed
<1>1. ASSUME Backing!TakePooled(t) PROVE Backing!IssuedExact'
  <2>1. Head(pool) \notin out /\ Head(pool) # None
    <3>1. Head(pool) \in Backing!Regions
      BY <1>1, PoolTaken DEF Backing!TakePooled, PoolIInv, Told
    <3> QED
      BY <1>1, <3>1, TakePooledMoves, PoolTypes
  <2>2. /\ out' = out \cup {Head(pool)} /\ issuedCount' = issuedCount + 1
        /\ place[t] = "take" /\ place'[t] = "out"
        /\ \A u \in Threads \ {t} : place'[u] = place[u] /\ region'[u] = region[u]
    BY <1>0, <1>1, <2>1 DEF Backing!TakePooled, Backing!End, Backing!Set
  <2>3. issuedCount' = issuedCount + 1
            + (IF Hands(t)' THEN 1 ELSE 0) - (IF Hands(t) THEN 1 ELSE 0)
    BY <1>0, <2>2 DEF Hands
  <2> QED
    BY <2>1, <2>2, <2>3, CountKept
<1>2. ASSUME Backing!TakeFromActive(t) PROVE Backing!IssuedExact'
  <2>1. /\ NextRegion \notin out /\ NextRegion # None /\ place[t] = "take"
        /\ issuedCount' = issuedCount + 1
    BY <1>2, NextRegionIsNew, TakesNext DEF Used
  <2>2. CASE unissued[active] = 1
    <3>1. /\ place' = [place EXCEPT ![t] = "drop"] /\ out' = out
          /\ region' = [region EXCEPT ![t] = NextRegion]
      BY <1>2, <2>2, TakesNext
    <3>2. /\ Hands(t)' /\ ~Hands(t)
          /\ \A u \in Threads \ {t} : place'[u] = place[u] /\ region'[u] = region[u]
      BY <1>0, <2>1, <3>1 DEF Hands
    <3>3. issuedCount' = issuedCount + 0
            + (IF Hands(t)' THEN 1 ELSE 0) - (IF Hands(t) THEN 1 ELSE 0)
      BY <1>0, <2>1, <3>2
    <3> QED
      BY <3>1, <3>2, <3>3, CountKept
  <2>3. CASE unissued[active] # 1
    <3>1. Backing!End(t, NextRegion)
      BY <1>2, <2>3, TakesNext
    <3>2. /\ out' = out \cup {NextRegion} /\ ~Hands(t)' /\ ~Hands(t)
          /\ \A u \in Threads \ {t} : place'[u] = place[u] /\ region'[u] = region[u]
      BY <1>0, <2>1, <3>1 DEF Hands, Backing!End, Backing!Set
    <3>3. issuedCount' = issuedCount + 1
            + (IF Hands(t)' THEN 1 ELSE 0) - (IF Hands(t) THEN 1 ELSE 0)
      BY <1>0, <2>1, <3>2
    <3> QED
      BY <2>1, <3>2, <3>3, CountKept
  <2> QED
    BY <2>2, <2>3
<1>3. ASSUME Backing!CountSole(t) PROVE Backing!IssuedExact'
  <2>1. region[t] # None /\ region[t] \notin out
    BY <1>3 DEF Backing!CountSole, PoolIInv, Told, CallsKnown, CallKnown, EachInOnePlace,
       Backing!InHand
  <2>2. /\ out' = out \cup {region[t]} /\ issuedCount' = issuedCount + 1
        /\ place[t] = "count" /\ place'[t] = "out"
        /\ \A u \in Threads \ {t} : place'[u] = place[u] /\ region'[u] = region[u]
    BY <1>0, <1>3, <2>1 DEF Backing!CountSole, Backing!End, Backing!Set
  <2>3. issuedCount' = issuedCount + 1
            + (IF Hands(t)' THEN 1 ELSE 0) - (IF Hands(t) THEN 1 ELSE 0)
    BY <1>0, <2>2 DEF Hands
  <2> QED
    BY <2>1, <2>2, <2>3, CountKept
<1>4. ASSUME Backing!Drop(t) PROVE Backing!IssuedExact'
  <2>1. place[t] = "drop" /\ issuedCount' = issuedCount
    BY <1>4, DropsTo DEF Backing!shared
  <2>2. CASE references[extent[t]] = 1
    <3>1. place' = [place EXCEPT ![t] = "unmap"] /\ UNCHANGED <<out, region>>
      BY <1>4, <2>2, DropsTo
    <3> QED
      BY <1>0, <2>1, <3>1, QuietCount
  <2>3. CASE references[extent[t]] # 1
    <3>1. Backing!End(t, region[t])
      BY <1>4, <2>3, DropsTo
    <3>2. /\ place'[t] = "out"
          /\ \A u \in Threads \ {t} : place'[u] = place[u] /\ region'[u] = region[u]
      BY <1>0, <3>1 DEF Backing!End, Backing!Set
    <3>3. CASE region[t] = None
      <4>1. out' = out /\ ~Hands(t) /\ ~Hands(t)'
        BY <3>1, <3>2, <3>3 DEF Backing!End, Hands
      <4>2. issuedCount' = issuedCount + 0
            + (IF Hands(t)' THEN 1 ELSE 0) - (IF Hands(t) THEN 1 ELSE 0)
        BY <1>0, <2>1, <4>1
      <4> QED
        BY <3>2, <4>1, <4>2, CountKept
    <3>4. CASE region[t] # None
      <4>1. /\ out' = out \cup {region[t]} /\ region[t] \notin out
            /\ Hands(t) /\ ~Hands(t)'
        BY <2>1, <3>1, <3>2, <3>4 DEF Backing!End, Hands, PoolIInv, Told, EachInOnePlace,
           Backing!InHand
      <4>2. issuedCount' = issuedCount + 1
            + (IF Hands(t)' THEN 1 ELSE 0) - (IF Hands(t) THEN 1 ELSE 0)
        BY <1>0, <2>1, <4>1
      <4> QED
        BY <3>2, <4>1, <4>2, CountKept
    <3> QED
      BY <3>3, <3>4
  <2> QED
    BY <2>2, <2>3
<1>5. ASSUME NEW e \in Extents, Backing!Create(t, e) PROVE Backing!IssuedExact'
  <2>1. /\ out' = out /\ issuedCount' = issuedCount /\ place[t] = "create"
        /\ \A u \in Threads \ {t} : place'[u] = place[u] /\ region'[u] = region[u]
    BY <1>0, <1>5 DEF Backing!Create, Backing!Set, Backing!shared
  <2>2. place'[t] = "count" \/ place'[t] = "install"
    BY <1>5, CreateMoves
  <2>3. issuedCount' = issuedCount + 0
            + (IF Hands(t)' THEN 1 ELSE 0) - (IF Hands(t) THEN 1 ELSE 0)
    BY <1>0, <2>1, <2>2 DEF Hands
  <2> QED
    BY <2>1, <2>3, CountKept
<1>6. ASSUME NEW r \in Backing!Regions, Backing!Release(t, r) PROVE Backing!IssuedExact'
  <2>1. /\ r \in out /\ out' = out \ {r} /\ issuedCount' = issuedCount - 1
        /\ region' = region /\ region[t] = None
        /\ \A u \in Threads \ {t} : place'[u] = place[u]
    BY <1>0, <1>6 DEF Backing!Release, Backing!Set, PoolIInv, Told, CallsKnown, CallKnown
  <2>2. ~Hands(t) /\ ~Hands(t)'
    BY <2>1 DEF Hands
  <2>3. /\ -1 \in Int
        /\ issuedCount' = issuedCount + (-1)
              + (IF Hands(t)' THEN 1 ELSE 0) - (IF Hands(t) THEN 1 ELSE 0)
    BY <1>0, <2>1, <2>2
  <2>4. /\ -1 = -1 /\ r \in out /\ out' = out \ {r}
        /\ \A u \in Threads \ {t} : place'[u] = place[u] /\ region'[u] = region[u]
    BY <2>1
  <2> QED
    BY <2>3, <2>4, CountKept
<1> QED
  BY <1>1, <1>2, <1>3, <1>4, <1>5, <1>6

-----------------------------------------------------------------------------
\* What the other threads know survives a step that changes one extent at most, which
\* is not theirs.
OthersStay(t) == \A u \in Threads \ {t} :
    place'[u] = place[u] /\ extent'[u] = extent[u] /\ region'[u] = region[u] /\ span'[u] = span[u]

LEMMA OthersKnow ==
  ASSUME PoolIInv, NEW t \in Threads, OthersStay(t), NEW x,
         \A e \in Extents \ {x} : /\ references'[e] = references[e] /\ size'[e] = size[e]
                                  /\ unissued'[e] = unissued[e],
         \A u \in Threads \ {t} : place[u] = "unmap" \/ Surplus(u) => extent[u] # x,
         CallKnown(t)',
         place'[t] = "unmap" =>
            \A u \in Threads \ {t} : place[u] = "unmap" => extent[u] # extent'[t]
  PROVE  CallsKnown'
<1>0. extent \in [Threads -> Extents \cup {None}]
  BY DEF PoolIInv, Told, Typed
<1>1. ASSUME NEW u \in Threads PROVE CallKnown(u)'
  <2>1. CASE u = t
    BY <2>1
  <2>2. CASE u # t
    <3>1. place'[u] = place[u] /\ extent'[u] = extent[u] /\ region'[u] = region[u]
          /\ span'[u] = span[u]
      BY <2>2 DEF OthersStay
    <3>2. CallKnown(u)
      BY DEF PoolIInv, Told, CallsKnown
    <3>3. Surplus(u)' <=> Surplus(u)
      BY <3>1 DEF Surplus
    <3>4. place[u] = "unmap" \/ Surplus(u) =>
             /\ references'[extent[u]] = references[extent[u]]
             /\ size'[extent[u]] = size[extent[u]]
             /\ unissued'[extent[u]] = unissued[extent[u]]
      <4>1. place[u] = "unmap" \/ Surplus(u) => extent[u] # None
        BY <3>2 DEF CallKnown, Surplus
      <4> QED
        BY <1>0, <2>2, <4>1
    <3> QED
      BY <3>1, <3>2, <3>3, <3>4 DEF CallKnown
  <2> QED
    BY <2>1, <2>2
<1>2. ASSUME NEW u \in Threads, NEW v \in Threads,
             place'[u] = "unmap", place'[v] = "unmap", extent'[u] = extent'[v]
      PROVE  u = v
  BY <1>2 DEF OthersStay, PoolIInv, Told, CallsKnown
<1> QED
  BY <1>1, <1>2 DEF CallsKnown

LEMMA CallsStay ==
  ASSUME PoolIInv, NEW t \in Threads,
         \/ Backing!Acquire(t) \/ Backing!TakePooled(t) \/ Backing!ChooseSpan(t)
         \/ Backing!CreateFails(t) \/ Backing!CountSole(t)
         \/ Backing!Install(t) \/ \E r \in Backing!Regions : Backing!Release(t, r)
  PROVE  CallsKnown'
<1>0. /\ place \in [Threads -> Backing!Places] /\ extent \in [Threads -> Extents \cup {None}]
      /\ region \in [Threads -> Backing!Regions \cup {None}] /\ span \in [Threads -> {0, 1, Span}]
      /\ CallKnown(t)
  BY DEF PoolIInv, Told, Typed, CallsKnown
<1>1. UNCHANGED <<references, size, unissued>>
  BY DEF Backing!Acquire, Backing!TakePooled, Backing!ChooseSpan, Backing!CreateFails,
     Backing!CountSole, Backing!Install, Backing!Release, Backing!extents
<1>2. OthersStay(t)
  BY <1>0 DEF Backing!Acquire, Backing!TakePooled, Backing!ChooseSpan, Backing!CreateFails,
     Backing!CountSole, Backing!Install, Backing!Release, Backing!End, Backing!Set, OthersStay
<1>3. place'[t] # "unmap"
  BY <1>0 DEF Backing!Acquire, Backing!TakePooled, Backing!ChooseSpan, Backing!CreateFails,
     Backing!CountSole, Backing!Install, Backing!Release, Backing!End, Backing!Set
<1>4. CallKnown(t)'
  <2>1. CASE Backing!Acquire(t)
    BY <1>0, <2>1 DEF Backing!Acquire, Backing!Set, CallKnown, Surplus
  <2>2. CASE Backing!TakePooled(t) \/ Backing!CreateFails(t) \/ Backing!CountSole(t)
    <3>1. /\ place'[t] = "out" /\ extent'[t] = None /\ region'[t] = None /\ span'[t] = 0
      BY <1>0, <2>2 DEF Backing!TakePooled, Backing!CreateFails, Backing!CountSole, Backing!End,
         Backing!Set
    <3> QED
      BY <3>1 DEF CallKnown, Surplus
  <2>3. CASE Backing!ChooseSpan(t)
    BY <1>0, <2>3, Spans DEF Backing!ChooseSpan, Backing!Set, CallKnown, Surplus
  <2>4. CASE Backing!Install(t)
    <3>1. CASE active = None
      BY <1>0, <2>4, <3>1 DEF Backing!Install, Backing!Set, CallKnown, Surplus
    <3>2. CASE active # None
      <4>1. place[t] = "install" /\ place'[t] = "drop" /\ UNCHANGED <<extent, region, span>>
        BY <1>0, <2>4, <3>2 DEF Backing!Install, Backing!Set
      <4> QED
        BY <1>0, <1>1, <4>1 DEF CallKnown, Surplus
    <3> QED
      BY <3>1, <3>2
  <2>5. ASSUME NEW r \in Backing!Regions, Backing!Release(t, r) PROVE CallKnown(t)'
    <3>1. place[t] = "out" /\ UNCHANGED <<region, span>> /\ r[1] \in Extents /\ r[1] # None
      BY <2>5, PoolTypes DEF Backing!Release, Backing!Regions
    <3>2. \/ place'[t] = "out" /\ extent'[t] = extent[t]
          \/ place'[t] = "drop" /\ extent'[t] = r[1]
      BY <1>0, <2>5, <3>1 DEF Backing!Release, Backing!Set
    <3> QED
      BY <1>0, <3>1, <3>2 DEF CallKnown, Surplus
  <2> QED
    BY <2>1, <2>2, <2>3, <2>4, <2>5
<1>5. PICK x : x \notin Extents \cup {None}
  BY NoSetContainsEverything
<1>6. \A e \in Extents \ {x} : /\ references'[e] = references[e] /\ size'[e] = size[e]
                               /\ unissued'[e] = unissued[e]
  BY <1>1
<1>7. \A u \in Threads \ {t} : place[u] = "unmap" \/ Surplus(u) => extent[u] # x
  BY <1>0, <1>5
<1> QED
  BY <1>2, <1>3, <1>4, <1>6, <1>7, OthersKnow

LEMMA CallsFollow ==
  ASSUME PoolIInv, NEW t \in Threads,
         \/ Backing!TakeFromActive(t) \/ Backing!Drop(t) \/ Backing!Unmap(t)
         \/ \E e \in Extents : Backing!Create(t, e)
  PROVE  CallsKnown'
<1>0. /\ place \in [Threads -> Backing!Places] /\ extent \in [Threads -> Extents \cup {None}]
      /\ region \in [Threads -> Backing!Regions \cup {None}] /\ span \in [Threads -> {0, 1, Span}]
      /\ references \in [Extents -> Nat] /\ size \in [Extents -> 0..Span]
      /\ unissued \in [Extents -> 0..Span]
      /\ CallKnown(t)
  BY DEF PoolIInv, Told, Typed, CallsKnown
\* Who needs the extent of a surplus or one that is unmapped.
<1>A. ASSUME NEW u \in Threads, place[u] = "unmap" \/ Surplus(u)
      PROVE  /\ extent[u] \in Extents
             /\ place[u] # "unmap" => /\ references[extent[u]] = 1
                                      /\ place[u] \in {"install", "drop"}
             /\ place[u] = "unmap" => references[extent[u]] = 0
             /\ active # extent[u]
             /\ \A v \in Threads \ {u} : place[v] \in {"install", "drop"} =>
                   extent[v] # extent[u]
  <2>1. CallKnown(u) /\ extent[u] # None
    BY <1>A DEF PoolIInv, Told, CallsKnown, CallKnown, Surplus
  <2>2. extent[u] \in Extents
    BY <1>0, <2>1
  <2>3. CASE place[u] = "unmap"
    BY <2>1, <2>2, <2>3, WhoRefers DEF CallKnown, PoolIInv, Told
  <2>4. CASE place[u] # "unmap"
    <3>1. references[extent[u]] = 1 /\ place[u] \in {"install", "drop"}
      BY <1>A, <2>1, <2>4 DEF CallKnown, Surplus
    <3> QED
      BY <2>2, <2>4, <3>1, WhoRefers DEF PoolIInv, Told
  <2> QED
    BY <2>3, <2>4
<1>1. ASSUME Backing!TakeFromActive(t) PROVE CallsKnown'
  <2>1. /\ place[t] = "take" /\ active \in Extents /\ active # None
        /\ NextRegion # None /\ NextRegion[1] = active
        /\ references' = [references EXCEPT ![active] = references[active] + 1]
        /\ unissued' = [unissued EXCEPT ![active] = unissued[active] - 1]
        /\ size' = size
    BY <1>1, NextRegionIsNew, TakesNext
  <2>2. OthersStay(t) /\ place'[t] # "unmap" /\ CallKnown(t)'
    <3>1. CASE unissued[active] = 1
      <4>1. /\ place' = [place EXCEPT ![t] = "drop"]
            /\ region' = [region EXCEPT ![t] = NextRegion]
            /\ extent' = [extent EXCEPT ![t] = active] /\ span' = span
        BY <1>1, <3>1, TakesNext
      <4>2. place'[t] = "drop" /\ region'[t] = NextRegion /\ extent'[t] = active
        BY <1>0, <4>1
      <4> QED
        BY <1>0, <2>1, <4>1, <4>2 DEF OthersStay, CallKnown, Surplus
    <3>2. CASE unissued[active] # 1
      <4>1. Backing!End(t, NextRegion)
        BY <1>1, <3>2, TakesNext
      <4>2. OthersStay(t)
        BY <1>0, <4>1 DEF Backing!End, Backing!Set, OthersStay
      <4>3. place'[t] = "out" /\ extent'[t] = None /\ region'[t] = None /\ span'[t] = 0
        BY <1>0, <4>1 DEF Backing!End, Backing!Set
      <4> QED
        BY <4>2, <4>3 DEF CallKnown, Surplus
    <3> QED
      BY <3>1, <3>2
  <2>3. \A e \in Extents \ {active} :
           /\ references'[e] = references[e] /\ size'[e] = size[e]
           /\ unissued'[e] = unissued[e]
    BY <1>0, <2>1
  <2>4. \A u \in Threads \ {t} : place[u] = "unmap" \/ Surplus(u) => extent[u] # active
    BY <1>A
  <2> QED
    BY <2>2, <2>3, <2>4, OthersKnow
<1>2. ASSUME Backing!Drop(t) PROVE CallsKnown'
  <2>1. /\ place[t] = "drop" /\ extent[t] \in Extents /\ references[extent[t]] \in Nat \ {0}
        /\ references' = [references EXCEPT ![extent[t]] = references[extent[t]] - 1]
        /\ UNCHANGED <<size, unissued>>
    BY <1>2, DropsTo, DropFinds
  <2>2. \A u \in Threads \ {t} : place[u] = "unmap" \/ Surplus(u) => extent[u] # extent[t]
    BY <1>A, <2>1
  <2>3. OthersStay(t) /\ CallKnown(t)' /\ (place'[t] = "unmap" => extent'[t] = extent[t])
    <3>1. CASE references[extent[t]] = 1
      <4>1. place' = [place EXCEPT ![t] = "unmap"] /\ UNCHANGED <<extent, region, span>>
        BY <1>2, <3>1, DropsTo
      <4>2. region[t] = None
        <5>1. \A r \in Used : r[1] # extent[t]
          BY <2>1, <3>1, WhoRefers DEF PoolIInv, Told
        <5>2. region[t] # None => region[t] \in Used /\ region[t][1] = extent[t]
          BY <1>0 DEF Used, Backing!InHand, CallKnown
        <5> QED
          BY <5>1, <5>2
      <4>3. place'[t] = "unmap" /\ references'[extent[t]] = 0
        BY <1>0, <2>1, <3>1, <4>1
      <4> QED
        BY <1>0, <2>1, <4>1, <4>2, <4>3 DEF OthersStay, CallKnown, Surplus
    <3>2. CASE references[extent[t]] # 1
      <4>1. Backing!End(t, region[t])
        BY <1>2, <3>2, DropsTo
      <4>2. OthersStay(t)
        BY <1>0, <4>1 DEF Backing!End, Backing!Set, OthersStay
      <4>3. place'[t] = "out" /\ extent'[t] = None /\ region'[t] = None /\ span'[t] = 0
        BY <1>0, <4>1 DEF Backing!End, Backing!Set
      <4> QED
        BY <4>2, <4>3 DEF CallKnown, Surplus
    <3> QED
      BY <3>1, <3>2
  <2>4. \A e \in Extents \ {extent[t]} :
           /\ references'[e] = references[e] /\ size'[e] = size[e]
           /\ unissued'[e] = unissued[e]
    BY <1>0, <2>1
  <2> QED
    BY <2>2, <2>3, <2>4, OthersKnow
<1>3. ASSUME Backing!Unmap(t) PROVE CallsKnown'
  <2>1. /\ place[t] = "unmap" /\ extent[t] \in Extents /\ region[t] = None
        /\ references' = references
        /\ size' = [size EXCEPT ![extent[t]] = 0]
        /\ unissued' = [unissued EXCEPT ![extent[t]] = 0]
        /\ Backing!Dropped(t)
    BY <1>0, <1>3 DEF Backing!Unmap, Backing!Set, CallKnown
  <2>2. \A u \in Threads \ {t} : place[u] = "unmap" \/ Surplus(u) => extent[u] # extent[t]
    <3>1. references[extent[t]] = 0
      BY <1>A, <2>1
    <3>2. \A u \in Threads \ {t} : place[u] = "unmap" => extent[u] # extent[t]
      BY <2>1 DEF PoolIInv, Told, CallsKnown
    <3> QED
      BY <1>A, <3>1, <3>2
  <2>3. OthersStay(t)
    BY <1>0, <2>1 DEF Backing!Dropped, Backing!End, Backing!Set, OthersStay
  <2>4. /\ region'[t] = None /\ extent'[t] = None
        /\ \/ place'[t] = "out" /\ span'[t] = 0
           \/ place'[t] = "take"
    BY <1>0, <2>1 DEF Backing!Dropped, Backing!End, Backing!Set
  <2>5. CallKnown(t)' /\ place'[t] # "unmap"
    BY <2>4 DEF CallKnown, Surplus
  <2>6. \A e \in Extents \ {extent[t]} :
           /\ references'[e] = references[e] /\ size'[e] = size[e]
           /\ unissued'[e] = unissued[e]
    BY <1>0, <2>1
  <2> QED
    BY <2>2, <2>3, <2>5, <2>6, OthersKnow
<1>4. ASSUME NEW x \in Extents, Backing!Create(t, x) PROVE CallsKnown'
  <2>1. /\ place[t] = "create" /\ region[t] = None /\ span[t] # 0 /\ span' = span
        /\ references' = [references EXCEPT ![x] = 1]
        /\ extent' = [extent EXCEPT ![t] = x]
    BY <1>0, <1>4 DEF Backing!Create, Backing!Set, CallKnown
  <2>2. PICK n \in {1, span[t]} :
          /\ size' = [size EXCEPT ![x] = n]
          /\ unissued' = [unissued EXCEPT ![x] = IF n = 1 THEN 0 ELSE n]
          /\ place' = [place EXCEPT ![t] = IF n = 1 THEN "count" ELSE "install"]
          /\ region' = [region EXCEPT ![t] = IF n = 1 THEN <<x, 1>> ELSE None]
    BY <1>4 DEF Backing!Create, Backing!Set
  <2>3. /\ \A u \in Threads \ {t} : place[u] = "unmap" \/ Surplus(u) => extent[u] # x
        /\ \/ region'[t] = <<x, 1>> /\ place'[t] = "count" /\ <<x, 1>> \in Backing!Regions
           \/ /\ region'[t] = None /\ place'[t] = "install"
              /\ size'[x] > 1 /\ unissued'[x] = size'[x]
    BY <1>4, CreateMoves DEF Surplus
  <2>4. OthersStay(t)
    BY <1>0, <2>1, <2>2 DEF OthersStay
  <2>5. \A e \in Extents \ {x} : /\ references'[e] = references[e] /\ size'[e] = size[e]
                                 /\ unissued'[e] = unissued[e]
    BY <1>0, <2>1, <2>2
  <2>6. extent'[t] = x /\ x # None /\ references'[x] = 1 /\ <<x, 1>>[1] = x /\ span'[t] # 0
    BY <1>0, <2>1, PoolTypes
  <2>7. CallKnown(t)' /\ place'[t] # "unmap"
    <3>1. CASE region'[t] = <<x, 1>> /\ place'[t] = "count" /\ <<x, 1>> \in Backing!Regions
      BY <2>6, <3>1, PoolTypes DEF CallKnown, Surplus
    <3>2. CASE /\ region'[t] = None /\ place'[t] = "install"
               /\ size'[x] > 1 /\ unissued'[x] = size'[x]
      <4>1. size'[x] > 0
        <5>1. size'[x] = n
          BY <1>0, <2>2
        <5> QED
          BY <1>0, <3>2, <5>1, Spans
      <4> QED
        BY <2>6, <3>2, <4>1 DEF CallKnown, Surplus
    <3> QED
      BY <2>3, <3>1, <3>2
  <2> QED
    BY <2>3, <2>4, <2>5, <2>7, OthersKnow
<1> QED
  BY <1>1, <1>2, <1>3, <1>4

-----------------------------------------------------------------------------
\* Where regions are, over all actions.
LEMMA PlacesKept ==
  ASSUME PoolIInv, [Backing!Next]_Backing!vars
  PROVE  EachInOnePlace'
<1>1. ASSUME NEW t \in Threads, Backing!Acquire(t) \/ Backing!ChooseSpan(t) \/ Backing!Install(t)
      PROVE  EachInOnePlace'
  BY <1>1, NothingMoves DEF Backing!Acquire, Backing!ChooseSpan, Backing!Install,
     Backing!shared, SamePlaces
<1>2. ASSUME NEW t \in Threads, Backing!TakePooled(t) PROVE EachInOnePlace'
  BY <1>2, TakePooledMoves DEF SamePlaces
<1>3. ASSUME NEW t \in Threads, Backing!TakeFromActive(t) PROVE EachInOnePlace'
  BY <1>3, TakeFromActiveMoves
<1>4. ASSUME NEW t \in Threads, Backing!CreateFails(t) \/ Backing!CountSole(t)
      PROVE  EachInOnePlace'
  <2>1. region[t] = None \/ Backing!CountSole(t)
    BY <1>4 DEF Backing!CreateFails, PoolIInv, Told, CallsKnown, CallKnown
  <2>2. Backing!End(t, region[t]) /\ pool' = pool
    BY <1>4, <2>1 DEF Backing!CreateFails, Backing!CountSole, Backing!shared, PoolIInv, Told,
       CallsKnown, CallKnown
  <2> QED
    BY <2>2, EndMoves DEF SamePlaces
<1>5. ASSUME NEW t \in Threads, NEW e \in Extents, Backing!Create(t, e) PROVE EachInOnePlace'
  BY <1>5, CreateMoves
<1>6. ASSUME NEW t \in Threads, Backing!Drop(t) PROVE EachInOnePlace'
  <2>1. pool' = pool
    BY <1>6, DropsTo DEF Backing!shared
  <2>2. CASE UNCHANGED <<out, region>>
    BY <2>1, <2>2, NothingMoves DEF SamePlaces
  <2>3. CASE Backing!End(t, region[t])
    BY <2>1, <2>3, EndMoves DEF SamePlaces
  <2> QED
    BY <1>6, <2>2, <2>3, DropsTo
<1>7. ASSUME NEW t \in Threads, Backing!Unmap(t) PROVE EachInOnePlace'
  <2>1. pool' = pool /\ Backing!Dropped(t)
    BY <1>7 DEF Backing!Unmap, Backing!shared
  <2>2. CASE UNCHANGED <<out, region>>
    BY <2>1, <2>2, NothingMoves DEF SamePlaces
  <2>3. CASE Backing!End(t, region[t])
    BY <2>1, <2>3, EndMoves DEF SamePlaces
  <2> QED
    BY <2>1, <2>2, <2>3 DEF Backing!Dropped
<1>8. ASSUME NEW t \in Threads, NEW r \in Backing!Regions, Backing!Release(t, r)
      PROVE  EachInOnePlace'
  BY <1>8, ReleaseMoves
<1>9. CASE UNCHANGED Backing!vars
  BY <1>9, NothingMoves DEF Backing!vars, Backing!shared, SamePlaces
<1> QED
  BY <1>1, <1>2, <1>3, <1>4, <1>5, <1>6, <1>7, <1>8, <1>9 DEF Backing!Next, Backing!Step

\* Which regions are in use, over all actions that issue none.
LEMMA UsedShrinks ==
  ASSUME PoolIInv, NEW t \in Threads,
         \/ Backing!Acquire(t) \/ Backing!TakePooled(t) \/ Backing!ChooseSpan(t)
         \/ Backing!CreateFails(t) \/ Backing!CountSole(t)
         \/ Backing!Install(t) \/ Backing!Drop(t) \/ Backing!Unmap(t)
         \/ \E r \in Backing!Regions : Backing!Release(t, r)
  PROVE  Used' \subseteq Used
<1>1. CASE Backing!Acquire(t) \/ Backing!ChooseSpan(t) \/ Backing!Install(t)
  BY <1>1, NothingMoves DEF Backing!Acquire, Backing!ChooseSpan, Backing!Install,
     Backing!shared, SamePlaces
<1>2. CASE Backing!TakePooled(t)
  BY <1>2, TakePooledMoves DEF SamePlaces
<1>3. CASE Backing!CreateFails(t) \/ Backing!CountSole(t)
  <2>1. Backing!End(t, region[t]) /\ pool' = pool
    BY <1>3 DEF Backing!CreateFails, Backing!CountSole, Backing!shared, PoolIInv, Told,
       CallsKnown, CallKnown
  <2> QED
    BY <2>1, EndMoves DEF SamePlaces
<1>4. CASE Backing!Drop(t) \/ Backing!Unmap(t)
  <2>1. pool' = pool
    BY <1>4, DropsTo DEF Backing!Unmap, Backing!shared
  <2>2. UNCHANGED <<out, region>> \/ Backing!End(t, region[t])
    BY <1>4, DropsTo DEF Backing!Unmap, Backing!Dropped
  <2> QED
    BY <2>1, <2>2, NothingMoves, EndMoves DEF SamePlaces
<1>5. ASSUME NEW r \in Backing!Regions, Backing!Release(t, r) PROVE Used' \subseteq Used
  BY <1>5, ReleaseMoves
<1> QED
  BY <1>1, <1>2, <1>3, <1>4, <1>5

LEMMA OrderKept ==
  ASSUME PoolIInv, [Backing!Next]_Backing!vars
  PROVE  IssuedInOrder'
<1>0. /\ Typed /\ IssuedInOrder /\ Used \subseteq Backing!Regions
      /\ references \in [Extents -> Nat] /\ size \in [Extents -> 0..Span]
      /\ unissued \in [Extents -> 0..Span]
      /\ \A r \in Backing!Regions : r[1] \in Extents /\ r[2] \in 1..Span
      /\ Span \in Nat
  BY UsedAreRegions, Spans DEF PoolIInv, Told, Typed, Backing!Regions
<1>1. ASSUME NEW t \in Threads,
             \/ Backing!Acquire(t) \/ Backing!TakePooled(t) \/ Backing!ChooseSpan(t)
             \/ Backing!CreateFails(t) \/ Backing!CountSole(t)
             \/ Backing!Install(t) \/ Backing!Drop(t)
             \/ \E r \in Backing!Regions : Backing!Release(t, r)
      PROVE  IssuedInOrder'
  <2>1. Used' \subseteq Used
    BY <1>1, UsedShrinks
  <2>2. UNCHANGED <<size, unissued>>
    BY <1>1, DropsTo DEF Backing!Acquire, Backing!TakePooled, Backing!ChooseSpan,
       Backing!CreateFails, Backing!CountSole, Backing!Install, Backing!Release, Backing!extents
  <2> QED
    BY <1>0, <2>1, <2>2 DEF IssuedInOrder
<1>2. ASSUME NEW t \in Threads, Backing!TakeFromActive(t) PROVE IssuedInOrder'
  <2>1. /\ Used' = Used \cup {NextRegion} /\ NextRegion[1] = active /\ active \in Extents
        /\ NextRegion[2] + (unissued[active] - 1) = size[active]
        /\ NextRegion \in Backing!Regions /\ unissued[active] \in 1..Span
        /\ size' = size
        /\ unissued' = [unissued EXCEPT ![active] = unissued[active] - 1]
    BY <1>2, TakeFromActiveMoves, NextRegionIsNew, TakesNext
  <2>2. \A e \in Extents : unissued'[e] <= unissued[e] /\ unissued'[e] \in Int
    BY <1>0, <2>1
  <2>3. ASSUME NEW e \in Extents PROVE unissued'[e] <= size'[e]
    <3>1. unissued[e] <= size[e] /\ unissued'[e] <= unissued[e] /\ size'[e] = size[e]
      BY <1>0, <2>1, <2>2 DEF IssuedInOrder
    <3>2. unissued[e] \in Int /\ size[e] \in Int /\ unissued'[e] \in Int
      BY <1>0, <2>2
    <3> QED
      BY <3>1, <3>2
  <2>4. ASSUME NEW r \in Used' PROVE r[2] + unissued'[r[1]] <= size'[r[1]]
    <3>1. CASE r = NextRegion
      BY <1>0, <2>1, <3>1
    <3>2. CASE r \in Used
      <4>1. /\ r[1] \in Extents /\ r[2] \in Int
            /\ r[2] + unissued[r[1]] <= size[r[1]]
        BY <1>0, <3>2 DEF IssuedInOrder
      <4>2. unissued'[r[1]] <= unissued[r[1]] /\ unissued'[r[1]] \in Int
            /\ unissued[r[1]] \in Int /\ size[r[1]] \in Int
        BY <1>0, <2>2, <4>1
      <4> QED
        BY <2>1, <4>1, <4>2
    <3> QED
      BY <2>1, <3>1, <3>2
  <2> QED
    BY <2>3, <2>4 DEF IssuedInOrder
<1>3. ASSUME NEW t \in Threads, NEW e \in Extents, Backing!Create(t, e) PROVE IssuedInOrder'
  <2>1. /\ \A r \in Used : r[1] # e
        /\ \/ /\ Used' = Used \cup {<<e, 1>>}
              /\ size'[e] = 1 /\ unissued'[e] = 0
           \/ Used' = Used /\ size'[e] > 1 /\ unissued'[e] = size'[e]
    BY <1>3, CreateMoves
  <2>2. \A x \in Extents \ {e} : size'[x] = size[x] /\ unissued'[x] = unissued[x]
    BY <1>0, <1>3 DEF Backing!Create, Backing!Set
  <2>3. size'[e] \in Int
    <3>1. PICK n \in {1, span[t]} : size' = [size EXCEPT ![e] = n]
      BY <1>3 DEF Backing!Create, Backing!Set
    <3>2. n \in Int
      BY <1>0, Spans DEF Typed
    <3> QED
      BY <1>0, <3>1, <3>2
  <2>4. \A x \in Extents : unissued'[x] <= size'[x]
    BY <1>0, <2>1, <2>2, <2>3 DEF IssuedInOrder
  <2>5. ASSUME NEW r \in Used' PROVE r[2] + unissued'[r[1]] <= size'[r[1]]
    <3>1. CASE r \in Used
      <4>1. r[1] \in Extents \ {e} /\ r[2] + unissued[r[1]] <= size[r[1]]
        BY <1>0, <2>1, <3>1 DEF IssuedInOrder
      <4> QED
        BY <2>2, <4>1
    <3>2. CASE r \notin Used
      BY <2>1, <3>2
    <3> QED
      BY <3>1, <3>2
  <2> QED
    BY <2>4, <2>5 DEF IssuedInOrder
<1>4. ASSUME NEW t \in Threads, Backing!Unmap(t) PROVE IssuedInOrder'
  <2>1. Used' \subseteq Used
    BY <1>4, UsedShrinks
  <2>2. /\ place[t] = "unmap" /\ extent[t] \in Extents /\ references[extent[t]] = 0
        /\ size' = [size EXCEPT ![extent[t]] = 0]
        /\ unissued' = [unissued EXCEPT ![extent[t]] = 0]
    BY <1>0, <1>4 DEF Backing!Unmap, Backing!Set, PoolIInv, Told, Typed, CallsKnown, CallKnown
  <2>3. \A r \in Used : r[1] # extent[t]
    BY <2>2, WhoRefers DEF PoolIInv, Told
  <2>4. \A x \in Extents : unissued'[x] <= size'[x]
    BY <1>0, <2>2 DEF IssuedInOrder
  <2>5. ASSUME NEW r \in Used' PROVE r[2] + unissued'[r[1]] <= size'[r[1]]
    <3>1. r \in Used /\ r[1] \in Extents /\ r[1] # extent[t]
      BY <1>0, <2>1, <2>3
    <3>2. r[2] + unissued[r[1]] <= size[r[1]]
      BY <1>0, <3>1 DEF IssuedInOrder
    <3> QED
      BY <1>0, <2>2, <3>1, <3>2
  <2> QED
    BY <2>4, <2>5 DEF IssuedInOrder
<1>5. CASE UNCHANGED Backing!vars
  <2>1. SamePlaces /\ UNCHANGED <<size, unissued>>
    BY <1>5, NothingMoves DEF Backing!vars, Backing!extents, Backing!shared
  <2> QED
    BY <1>0, <2>1 DEF SamePlaces, IssuedInOrder
<1> QED
  BY <1>1, <1>2, <1>3, <1>4, <1>5 DEF Backing!Next, Backing!Step

-----------------------------------------------------------------------------
\* The bound on references and the inventories.
LEMMA OthersAreLeft ==
  ASSUME PoolIInv, NEW t \in Threads,
         \/ Backing!Acquire(t) \/ Backing!Step(t)
         \/ \E r \in Backing!Regions : Backing!Release(t, r)
  PROVE  OthersStay(t)
<1>0. /\ place \in [Threads -> Backing!Places] /\ extent \in [Threads -> Extents \cup {None}]
      /\ region \in [Threads -> Backing!Regions \cup {None}] /\ span \in [Threads -> {0, 1, Span}]
  BY DEF PoolIInv, Told, Typed
<1>1. CASE Backing!TakeFromActive(t)
  <2>1. CASE unissued[active] = 1
    BY <1>0, <1>1, <2>1, TakesNext DEF OthersStay
  <2>2. CASE unissued[active] # 1
    <3>1. Backing!End(t, NextRegion)
      BY <1>1, <2>2, TakesNext
    <3> QED
      BY <1>0, <3>1 DEF Backing!End, Backing!Set, OthersStay
  <2> QED
    BY <2>1, <2>2
<1>2. CASE Backing!Drop(t) \/ Backing!Unmap(t)
  BY <1>0, <1>2 DEF Backing!Drop, Backing!Unmap, Backing!Dropped, Backing!End, Backing!Set,
     OthersStay
<1>3. ASSUME NEW e \in Extents, Backing!Create(t, e) PROVE OthersStay(t)
  BY <1>0, <1>3 DEF Backing!Create, Backing!Set, OthersStay
<1>4. CASE \/ Backing!Acquire(t) \/ Backing!TakePooled(t) \/ Backing!ChooseSpan(t)
           \/ Backing!CreateFails(t) \/ Backing!CountSole(t)
           \/ Backing!Install(t) \/ \E r \in Backing!Regions : Backing!Release(t, r)
  BY <1>0, <1>4 DEF Backing!Acquire, Backing!TakePooled, Backing!ChooseSpan,
     Backing!CreateFails, Backing!CountSole, Backing!Install, Backing!Release, Backing!End,
     Backing!Set, OthersStay
<1> QED
  BY <1>1, <1>2, <1>3, <1>4 DEF Backing!Step

\* An inventory that the thread neither holds nor takes stays one.
LEMMA InventoryStays ==
  ASSUME PoolIInv, NEW t \in Threads, OthersStay(t), NEW e \in Extents, Inventory(e),
         active = e => active' = e \/ Inventory(e)',
         ~Holds(t, e) \/ Inventory(e)'
  PROVE  Inventory(e)'
BY DEF Inventory, OthersStay, Holds

LEMMA SurplusStays ==
  ASSUME PoolIInv, NEW t \in Threads, OthersStay(t), NEW e \in Extents,
         NEW u \in Threads \ {t}, Surplus(u), extent[u] = e
  PROVE  Surplus(u)' /\ extent'[u] = e
BY DEF Surplus, OthersStay

LEMMA BoundKept ==
  ASSUME PoolIInv, [Backing!Next]_Backing!vars, Typed'
  PROVE  ReferencesBounded' /\ InventoryKnown'
<1>0. /\ references \in [Extents -> Nat] /\ size \in [Extents -> 0..Span]
      /\ unissued \in [Extents -> 0..Span] /\ Span \in Nat
      /\ references' \in [Extents -> Nat] /\ size' \in [Extents -> 0..Span]
      /\ unissued' \in [Extents -> 0..Span]
      /\ place \in [Threads -> Backing!Places] /\ extent \in [Threads -> Extents \cup {None}]
      /\ region \in [Threads -> Backing!Regions \cup {None}] /\ span \in [Threads -> {0, 1, Span}]
      /\ active \in Extents \cup {None} /\ None \notin Extents
  BY Spans, PoolTypes DEF PoolIInv, Told, Typed
<1>1. /\ \A e \in Extents :
            references[e] + unissued[e] <= size[e] + (IF Inventory(e) THEN 1 ELSE 0)
      /\ active # None => unissued[active] > 0
      /\ \A e \in Extents : unissued[e] > 0 =>
            active = e \/ \E u \in Threads : Surplus(u) /\ extent[u] = e
  BY DEF PoolIInv, Told, ReferencesBounded, InventoryKnown
<1>2. ASSUME NEW t \in Threads,
             \/ Backing!Acquire(t) \/ Backing!TakePooled(t) \/ Backing!ChooseSpan(t)
             \/ Backing!CreateFails(t) \/ Backing!CountSole(t)
             \/ \E r \in Backing!Regions : Backing!Release(t, r)
      PROVE  ReferencesBounded' /\ InventoryKnown'
  <2>1. /\ UNCHANGED <<references, size, unissued, active>>
        /\ place[t] \notin {"install", "drop", "unmap"}
    BY <1>2 DEF Backing!Acquire, Backing!TakePooled, Backing!ChooseSpan, Backing!CreateFails,
       Backing!CountSole, Backing!Release, Backing!extents, Backing!shared
  <2>2. OthersStay(t)
    BY <1>2, OthersAreLeft DEF Backing!Step, Backing!Next
  <2>3. ASSUME NEW e \in Extents, Inventory(e) PROVE Inventory(e)'
    BY <2>1, <2>2, <2>3, InventoryStays DEF Holds
  <2>4. ReferencesBounded'
    BY <1>0, <1>1, <2>1, <2>3 DEF ReferencesBounded
  <2>5. ASSUME NEW e \in Extents, unissued'[e] > 0
        PROVE  active' = e \/ \E u \in Threads : Surplus(u)' /\ extent'[u] = e
    <3>1. active = e \/ \E u \in Threads : Surplus(u) /\ extent[u] = e
      BY <1>1, <2>1, <2>5
    <3>2. ASSUME NEW u \in Threads, Surplus(u), extent[u] = e
          PROVE  Surplus(u)' /\ extent'[u] = e
      <4>1. u # t
        BY <2>1, <3>2 DEF Surplus
      <4> QED
        BY <2>2, <3>2, <4>1, SurplusStays
    <3> QED
      BY <2>1, <3>1, <3>2
  <2> QED
    BY <1>1, <2>1, <2>4, <2>5 DEF InventoryKnown
<1>3. ASSUME NEW t \in Threads, Backing!TakeFromActive(t)
      PROVE  ReferencesBounded' /\ InventoryKnown'
  <2>1. /\ place[t] = "take" /\ active \in Extents /\ active # None /\ NextRegion # None
        /\ unissued[active] \in 1..Span
        /\ references' = [references EXCEPT ![active] = references[active] + 1]
        /\ unissued' = [unissued EXCEPT ![active] = unissued[active] - 1]
        /\ size' = size
    BY <1>3, NextRegionIsNew, TakesNext
  <2>2. OthersStay(t) /\ ~Surplus(t) /\ \A e \in Extents : ~Holds(t, e)
    BY <1>3, <2>1, OthersAreLeft DEF Backing!Step, Backing!Next, Surplus, Holds
  <2>3. \/ /\ unissued[active] = 1 /\ active' = None
           /\ place'[t] = "drop" /\ extent'[t] = active /\ region'[t] # None
        \/ unissued[active] # 1 /\ active' = active
    <3>1. CASE unissued[active] = 1
      <4>1. /\ active' = None /\ place' = [place EXCEPT ![t] = "drop"]
            /\ region' = [region EXCEPT ![t] = NextRegion]
            /\ extent' = [extent EXCEPT ![t] = active]
        BY <1>3, <3>1, TakesNext
      <4> QED
        BY <1>0, <2>1, <3>1, <4>1
    <3>2. CASE unissued[active] # 1
      BY <1>3, <3>2, TakesNext
    <3> QED
      BY <3>1, <3>2
  <2>4. Inventory(active) /\ (active = active' \/ unissued[active] = 1)
    BY <2>3 DEF Inventory
  <2>5. \E u \in {active} : Inventory(u)'
    BY <2>3 DEF Inventory
  <2>6. ASSUME NEW e \in Extents, Inventory(e) PROVE Inventory(e)'
    <3>1. CASE e = active
      BY <2>5, <3>1
    <3>2. CASE e # active
      BY <2>2, <2>6, <3>2, InventoryStays
    <3> QED
      BY <3>1, <3>2
  <2>7. ASSUME NEW e \in Extents
        PROVE  references'[e] + unissued'[e] <= size'[e] + (IF Inventory(e)' THEN 1 ELSE 0)
    <3>1. references'[e] + unissued'[e] = references[e] + unissued[e] /\ size'[e] = size[e]
      BY <1>0, <2>1
    <3> QED
      BY <1>0, <1>1, <2>6, <3>1
  <2>8. ASSUME NEW e \in Extents, unissued'[e] > 0
        PROVE  active' = e \/ \E u \in Threads : Surplus(u)' /\ extent'[u] = e
    <3>1. CASE e = active
      BY <1>0, <2>1, <2>3, <2>8, <3>1
    <3>2. CASE e # active
      <4>1. PICK u \in Threads : Surplus(u) /\ extent[u] = e
        BY <1>0, <1>1, <2>1, <2>8, <3>2
      <4>2. u # t
        BY <2>2, <4>1
      <4> QED
        BY <2>2, <4>1, <4>2, SurplusStays
    <3> QED
      BY <3>1, <3>2
  <2>9. active' # None => unissued'[active'] > 0
    BY <1>0, <2>1, <2>3
  <2> QED
    BY <2>7, <2>8, <2>9 DEF ReferencesBounded, InventoryKnown
<1>4. ASSUME NEW t \in Threads, NEW x \in Extents, Backing!Create(t, x)
      PROVE  ReferencesBounded' /\ InventoryKnown'
  <2>1. /\ place[t] = "create" /\ span[t] # 0 /\ active' = active
        /\ references' = [references EXCEPT ![x] = 1]
        /\ extent' = [extent EXCEPT ![t] = x] /\ span' = span
    BY <1>4 DEF Backing!Create, Backing!Set, Backing!shared, PoolIInv, Told, CallsKnown,
       CallKnown
  <2>2. /\ active # x
        /\ \A u \in Threads : place[u] \in {"install", "drop", "unmap"} => extent[u] # x
        /\ \/ size'[x] = 1 /\ unissued'[x] = 0
           \/ /\ region'[t] = None /\ place'[t] = "install"
              /\ size'[x] > 1 /\ unissued'[x] = size'[x]
    BY <1>4, CreateMoves
  <2>3. /\ OthersStay(t) /\ ~Surplus(t) /\ extent'[t] = x /\ references'[x] = 1
        /\ \A e \in Extents : ~Holds(t, e)
    BY <1>0, <1>4, <2>1, OthersAreLeft DEF Backing!Step, Backing!Next, Surplus, Holds
  <2>4. \A e \in Extents \ {x} : /\ references'[e] = references[e] /\ size'[e] = size[e]
                                 /\ unissued'[e] = unissued[e]
    BY <1>0, <1>4, <2>1 DEF Backing!Create, Backing!Set
  <2>5. ASSUME NEW e \in Extents, Inventory(e) PROVE Inventory(e)'
    BY <2>1, <2>3, <2>5, InventoryStays
  <2>6. CASE size'[x] = 1 /\ unissued'[x] = 0
    <3>1. ReferencesBounded'
      <4> SUFFICES ASSUME NEW e \in Extents
                   PROVE  references'[e] + unissued'[e]
                             <= size'[e] + (IF Inventory(e)' THEN 1 ELSE 0)
        BY DEF ReferencesBounded
      <4>1. CASE e = x
        BY <2>3, <2>6, <4>1
      <4>2. CASE e # x
        BY <1>0, <1>1, <2>4, <2>5, <4>2
      <4> QED
        BY <4>1, <4>2
    <3>2. ASSUME NEW e \in Extents, unissued'[e] > 0
          PROVE  active' = e \/ \E u \in Threads : Surplus(u)' /\ extent'[u] = e
      <4>1. e # x /\ unissued[e] > 0
        BY <2>4, <2>6, <3>2
      <4>2. active = e \/ \E u \in Threads : Surplus(u) /\ extent[u] = e
        BY <1>1, <4>1
      <4>3. ASSUME NEW u \in Threads, Surplus(u), extent[u] = e
            PROVE  Surplus(u)' /\ extent'[u] = e
        <5>1. u # t
          BY <2>3, <4>3
        <5> QED
          BY <2>3, <4>3, <5>1, SurplusStays
      <4> QED
        BY <2>1, <4>2, <4>3
    <3>3. active' # None => unissued'[active'] > 0
      BY <1>0, <1>1, <2>1, <2>2, <2>4
    <3> QED
      BY <3>1, <3>2, <3>3 DEF InventoryKnown
  <2>7. CASE /\ region'[t] = None /\ place'[t] = "install"
             /\ size'[x] > 1 /\ unissued'[x] = size'[x]
    <3>0. Surplus(t)' /\ Inventory(x)'
      BY <2>1, <2>3, <2>7 DEF Surplus, Inventory
    <3>1. ReferencesBounded'
      <4> SUFFICES ASSUME NEW e \in Extents
                   PROVE  references'[e] + unissued'[e]
                             <= size'[e] + (IF Inventory(e)' THEN 1 ELSE 0)
        BY DEF ReferencesBounded
      <4>1. CASE e = x
        <5>1. size'[x] \in Int
          BY <1>0
        <5> QED
          BY <2>3, <2>7, <3>0, <4>1, <5>1
      <4>2. CASE e # x
        BY <1>0, <1>1, <2>4, <2>5, <4>2
      <4> QED
        BY <4>1, <4>2
    <3>2. ASSUME NEW e \in Extents, unissued'[e] > 0
          PROVE  active' = e \/ \E u \in Threads : Surplus(u)' /\ extent'[u] = e
      <4>1. CASE e = x
        BY <2>3, <3>0, <4>1
      <4>2. CASE e # x
        <5>1. active = e \/ \E u \in Threads : Surplus(u) /\ extent[u] = e
          BY <1>1, <2>4, <3>2, <4>2
        <5>2. ASSUME NEW u \in Threads, Surplus(u), extent[u] = e
              PROVE  Surplus(u)' /\ extent'[u] = e
          <6>1. u # t
            BY <2>3, <5>2
          <6> QED
            BY <2>3, <5>2, <6>1, SurplusStays
        <5> QED
          BY <2>1, <5>1, <5>2
      <4> QED
        BY <4>1, <4>2
    <3>3. active' # None => unissued'[active'] > 0
      BY <1>0, <1>1, <2>1, <2>2, <2>4
    <3> QED
      BY <3>1, <3>2, <3>3 DEF InventoryKnown
  <2> QED
    BY <2>2, <2>6, <2>7
<1>5. ASSUME NEW t \in Threads, Backing!Install(t) PROVE ReferencesBounded' /\ InventoryKnown'
  <2>1. /\ place[t] = "install" /\ Surplus(t) /\ extent[t] \in Extents
        /\ unissued[extent[t]] > 0
        /\ UNCHANGED <<references, size, unissued, region, span>>
    BY <1>0, <1>5 DEF Backing!Install, Backing!extents, PoolIInv, Told, CallsKnown, CallKnown,
       Surplus
  <2>2. OthersStay(t)
    BY <1>5, OthersAreLeft DEF Backing!Step, Backing!Next
  <2>3. \/ active = None /\ active' = extent[t]
        \/ active' = active /\ place'[t] = "drop" /\ extent'[t] = extent[t] /\ Surplus(t)'
    BY <1>0, <1>5, <2>1 DEF Backing!Install, Backing!Set, Surplus
  <2>4. Inventory(extent[t]) /\ \E u \in {extent[t]} : Inventory(u)'
    BY <2>1, <2>3 DEF Inventory, Surplus
  <2>5. ASSUME NEW e \in Extents, Inventory(e) PROVE Inventory(e)'
    <3>1. CASE e = extent[t]
      BY <2>4, <3>1
    <3>2. CASE e # extent[t]
      <4>1. ~Holds(t, e)
        BY <3>2 DEF Holds
      <4>2. active = e => active' = e
        BY <1>0, <2>3
      <4> QED
        BY <2>2, <2>5, <4>1, <4>2, InventoryStays
    <3> QED
      BY <3>1, <3>2
  <2>6. ReferencesBounded'
    BY <1>0, <1>1, <2>1, <2>5 DEF ReferencesBounded
  <2>7. ASSUME NEW e \in Extents, unissued'[e] > 0
        PROVE  active' = e \/ \E u \in Threads : Surplus(u)' /\ extent'[u] = e
    <3>1. CASE e = extent[t]
      BY <2>3, <3>1
    <3>2. CASE e # extent[t]
      <4>1. active = e \/ \E u \in Threads \ {t} : Surplus(u) /\ extent[u] = e
        BY <1>1, <2>1, <2>7, <3>2
      <4>2. active = e => active' = e
        BY <1>0, <2>3
      <4> QED
        BY <2>2, <4>1, <4>2, SurplusStays
    <3> QED
      BY <3>1, <3>2
  <2>8. active' # None => unissued'[active'] > 0
    BY <1>1, <2>1, <2>3
  <2> QED
    BY <2>6, <2>7, <2>8 DEF InventoryKnown
<1>6. ASSUME NEW t \in Threads, Backing!Drop(t) PROVE ReferencesBounded' /\ InventoryKnown'
  <2>1. /\ place[t] = "drop" /\ extent[t] \in Extents /\ references[extent[t]] \in Nat \ {0}
        /\ references' = [references EXCEPT ![extent[t]] = references[extent[t]] - 1]
        /\ UNCHANGED <<size, unissued, active>>
    BY <1>6, DropsTo, DropFinds DEF Backing!shared
  <2>2. OthersStay(t)
    BY <1>6, OthersAreLeft DEF Backing!Step, Backing!Next
  <2>3. Surplus(t) => Surplus(t)' /\ extent'[t] = extent[t]
    <3>1. Surplus(t) => references[extent[t]] = 1
      BY <2>1 DEF PoolIInv, Told, CallsKnown, CallKnown
    <3>2. references[extent[t]] = 1 =>
             place' = [place EXCEPT ![t] = "unmap"] /\ UNCHANGED <<extent, region, span>>
      BY <1>6, DropsTo
    <3> QED
      BY <1>0, <3>1, <3>2 DEF Surplus
  <2>4. ASSUME NEW e \in Extents, Inventory(e), e # extent[t] PROVE Inventory(e)'
    BY <2>1, <2>2, <2>4, InventoryStays DEF Holds
  <2>5. ASSUME NEW e \in Extents
        PROVE  references'[e] + unissued'[e] <= size'[e] + (IF Inventory(e)' THEN 1 ELSE 0)
    <3>1. CASE e = extent[t]
      <4>1. /\ references'[e] = references[e] - 1 /\ unissued'[e] = unissued[e]
            /\ size'[e] = size[e]
        BY <1>0, <2>1, <3>1
      <4>2. references[e] + unissued[e] <= size[e] + 1
        BY <1>0, <1>1
      <4> QED
        BY <1>0, <4>1, <4>2
    <3>2. CASE e # extent[t]
      <4>1. /\ references'[e] = references[e] /\ unissued'[e] = unissued[e]
            /\ size'[e] = size[e]
        BY <1>0, <2>1, <3>2
      <4> QED
        BY <1>0, <1>1, <2>4, <3>2, <4>1
    <3> QED
      BY <3>1, <3>2
  <2>6. ASSUME NEW e \in Extents, unissued'[e] > 0
        PROVE  active' = e \/ \E u \in Threads : Surplus(u)' /\ extent'[u] = e
    <3>1. active = e \/ \E u \in Threads : Surplus(u) /\ extent[u] = e
      BY <1>1, <2>1, <2>6
    <3>2. ASSUME NEW u \in Threads, Surplus(u), extent[u] = e
          PROVE  Surplus(u)' /\ extent'[u] = e
      BY <2>2, <2>3, <3>2, SurplusStays
    <3> QED
      BY <2>1, <3>1, <3>2
  <2>7. active' # None => unissued'[active'] > 0
    BY <1>1, <2>1
  <2> QED
    BY <2>5, <2>6, <2>7 DEF ReferencesBounded, InventoryKnown
<1>7. ASSUME NEW t \in Threads, Backing!Unmap(t) PROVE ReferencesBounded' /\ InventoryKnown'
  <2>1. /\ place[t] = "unmap" /\ extent[t] \in Extents /\ references[extent[t]] = 0
        /\ size' = [size EXCEPT ![extent[t]] = 0]
        /\ unissued' = [unissued EXCEPT ![extent[t]] = 0]
        /\ UNCHANGED <<references, active>>
    BY <1>0, <1>7 DEF Backing!Unmap, Backing!Set, Backing!shared, PoolIInv, Told, CallsKnown,
       CallKnown
  <2>2. OthersStay(t) /\ \A e \in Extents : ~Holds(t, e)
    BY <1>7, <2>1, OthersAreLeft DEF Backing!Step, Backing!Next, Holds
  <2>3. ASSUME NEW e \in Extents, Inventory(e) PROVE Inventory(e)'
    BY <2>1, <2>2, <2>3, InventoryStays
  <2>4. active # extent[t]
    BY <2>1, WhoRefers DEF PoolIInv, Told
  <2>5. ASSUME NEW e \in Extents
        PROVE  references'[e] + unissued'[e] <= size'[e] + (IF Inventory(e)' THEN 1 ELSE 0)
    <3>1. CASE e = extent[t]
      BY <1>0, <2>1, <3>1
    <3>2. CASE e # extent[t]
      <4>1. /\ references'[e] = references[e] /\ unissued'[e] = unissued[e]
            /\ size'[e] = size[e]
        BY <1>0, <2>1, <3>2
      <4> QED
        BY <1>0, <1>1, <2>3, <4>1
    <3> QED
      BY <3>1, <3>2
  <2>6. ASSUME NEW e \in Extents, unissued'[e] > 0
        PROVE  active' = e \/ \E u \in Threads : Surplus(u)' /\ extent'[u] = e
    <3>0. e # extent[t] /\ unissued[e] > 0
      BY <1>0, <2>1, <2>6
    <3>1. active = e \/ \E u \in Threads : Surplus(u) /\ extent[u] = e
      BY <1>1, <3>0
    <3>2. ASSUME NEW u \in Threads, Surplus(u), extent[u] = e
          PROVE  Surplus(u)' /\ extent'[u] = e
      <4>1. u # t
        BY <3>0, <3>2
      <4> QED
        BY <2>2, <3>2, <4>1, SurplusStays
    <3> QED
      BY <2>1, <3>1, <3>2
  <2>7. active' # None => unissued'[active'] > 0
    BY <1>0, <1>1, <2>1, <2>4
  <2> QED
    BY <2>5, <2>6, <2>7 DEF ReferencesBounded, InventoryKnown
<1>8. CASE UNCHANGED Backing!vars
  <2>1. UNCHANGED <<references, size, unissued, active, place, extent, region, span>>
    BY <1>8 DEF Backing!vars, Backing!extents, Backing!shared
  <2> QED
    BY <1>1, <2>1 DEF ReferencesBounded, InventoryKnown, Inventory, Surplus
<1> QED
  BY <1>2, <1>3, <1>4, <1>5, <1>6, <1>7, <1>8 DEF Backing!Next, Backing!Step

-----------------------------------------------------------------------------
LEMMA PoolKept ==
  ASSUME PoolIInv, [Backing!Next]_Backing!vars
  PROVE  PoolIInv'
<1>1. Typed'
  BY TypedKept
<1>2. CallsKnown'
  <2>1. CASE UNCHANGED Backing!vars
    BY <2>1 DEF Backing!vars, Backing!extents, Backing!shared, PoolIInv, Told, CallsKnown,
       CallKnown, Surplus
  <2> QED
    BY <2>1, CallsStay, CallsFollow DEF Backing!Next, Backing!Step
<1>3. EachInOnePlace' /\ IssuedInOrder' /\ ReferencesBounded' /\ InventoryKnown'
  BY <1>1, PlacesKept, OrderKept, BoundKept
<1>4. Backing!ReferencesExact'
  <2>1. ASSUME NEW t \in Threads,
               Backing!Acquire(t) \/ Backing!TakePooled(t) \/ Backing!ChooseSpan(t)
               \/ Backing!CreateFails(t) \/ Backing!CountSole(t)
        PROVE  Backing!ReferencesExact'
    <3>1. Used' = Used
      <4>1. CASE Backing!Acquire(t) \/ Backing!ChooseSpan(t)
        BY <4>1, NothingMoves DEF Backing!Acquire, Backing!ChooseSpan, Backing!shared,
           SamePlaces
      <4>2. CASE Backing!TakePooled(t)
        BY <4>2, TakePooledMoves DEF SamePlaces
      <4>3. CASE Backing!CreateFails(t) \/ Backing!CountSole(t)
        <5>1. Backing!End(t, region[t]) /\ pool' = pool
          BY <4>3 DEF Backing!CreateFails, Backing!CountSole, Backing!shared, PoolIInv, Told,
             CallsKnown, CallKnown
        <5> QED
          BY <5>1, EndMoves DEF SamePlaces
      <4> QED
        BY <2>1, <4>1, <4>2, <4>3
    <3>2. /\ UNCHANGED <<mapped, references, active>>
          /\ place[t] \in {"out", "take", "create", "count"}
          /\ place'[t] \in {"out", "take", "create", "count"}
      BY <2>1 DEF Backing!Acquire, Backing!TakePooled, Backing!ChooseSpan, Backing!CreateFails,
         Backing!CountSole, Backing!End, Backing!Set, Backing!extents, Backing!shared, PoolIInv,
         Told, Typed
    <3>3. \A u \in Threads \ {t} : place'[u] = place[u] /\ extent'[u] = extent[u]
      BY <2>1, OthersAreLeft DEF Backing!Step, OthersStay
    <3> QED
      BY <1>1, <3>1, <3>2, <3>3, QuietExact
  <2>2. CASE UNCHANGED Backing!vars
    <3>1. UNCHANGED <<mapped, references, active, out, pool, region, place, extent>>
      BY <2>2 DEF Backing!vars, Backing!extents, Backing!shared
    <3>2. \A e \in Extents : /\ Backing!Referring(e)' = Backing!Referring(e)
                            /\ Backing!Holding(e, {"install", "drop"})'
                                   = Backing!Holding(e, {"install", "drop"})
                            /\ Backing!Holding(e, {"unmap"})' = Backing!Holding(e, {"unmap"})
      BY <3>1 DEF Backing!Referring, Backing!Holding, Backing!InHand, Backing!Pooled
    <3> QED
      BY <3>1, <3>2, SameCardinality DEF PoolIInv, Backing!ReferencesExact
  <2> QED
    BY <1>1, <2>1, <2>2, TakeFromActiveExact, CreateExact, InstallExact, DropExact, UnmapExact,
       ReleaseExact DEF Backing!Next, Backing!Step
<1>5. Backing!IssuedExact'
  <2>1. CASE UNCHANGED Backing!vars
    BY <2>1, SameCardinality DEF Backing!vars, Backing!shared, PoolIInv, Backing!IssuedExact
  <2> QED
    BY <1>1, <2>1, CountStays, CountFollows DEF Backing!Next, Backing!Step
<1> QED
  BY <1>1, <1>2, <1>3, <1>4, <1>5 DEF PoolIInv, Told

LEMMA InventoriesReachable == PoolIInv => Backing!InventoryReachable
<1> SUFFICES ASSUME PoolIInv, NEW e \in Extents, unissued[e] > 0
             PROVE  active = e \/ Backing!Holding(e, {"install", "drop", "unmap"}) # {}
  BY DEF Backing!InventoryReachable
<1>1. active = e \/ \E t \in Threads : Surplus(t) /\ extent[t] = e
  BY DEF PoolIInv, Told, InventoryKnown
<1> QED
  BY <1>1 DEF Backing!Holding, Surplus

\* The pool's books are true: the types with their bounds, the inventory of every extent
\* can still be issued, the count of issued regions is exact, and an extent has as many
\* references as there are regions in use, inventory and releases under way.
THEOREM BooksAreTrue == Backing!Spec => [](Backing!PoolInv /\ Backing!ReferencesExact)
<1>1. Backing!Init => PoolIInv
  BY PoolStarts
<1>2. PoolIInv /\ [Backing!Next]_Backing!vars => PoolIInv'
  BY PoolKept
<1>3. PoolIInv => Backing!PoolInv /\ Backing!ReferencesExact
  BY TypesHold, InventoriesReachable DEF Backing!PoolInv, PoolIInv
<1> QED
  BY <1>1, <1>2, <1>3, PTL DEF Backing!Spec

\* The books of the allocator are true in the program MCReferenceCounts checks: of the pool
\* of regions, and of the plates, blocks and credits of a slab allocator (SlabProofs).
THEOREM AllocatorIsExact == MCSpec => []AllocatorExact
<1>1. MCInit => PoolIInv /\ SlabKnown
  BY PoolStarts, SlabStarts DEF MCInit
<1>2. ASSUME PoolIInv, SlabKnown, [MCNext]_<<part, vars, backingVars, slabVars>>
      PROVE  PoolIInv' /\ SlabKnown'
  <2>1. [Backing!Next]_Backing!vars
    BY <1>2 DEF MCNext, backingVars, Backing!vars, Backing!extents, Backing!shared
  <2>2. [Slab!Next]_Slab!vars
    BY <1>2 DEF MCNext, slabVars, Slab!vars, Slab!layer1, Slab!layer2
  <2> QED
    BY <1>2, <2>1, <2>2, PoolKept, SlabKept
<1>3. PoolIInv /\ SlabKnown => AllocatorExact
  <2> SUFFICES ASSUME PoolIInv, SlabKnown
               PROVE  AllocatorExact
    OBVIOUS
  <2>1. Backing!PoolInv /\ Backing!ReferencesExact
    BY TypesHold, InventoriesReachable DEF Backing!PoolInv, PoolIInv
  <2>2. Slab!SlabInv
    BY KnownIsExact
  <2> QED
    BY <2>1, <2>2 DEF AllocatorExact
<1> QED
  BY <1>1, <1>2, <1>3, PTL DEF MCSpec

-----------------------------------------------------------------------------
\* A region that layer 3 has is in its mapped extent.
LEMMA OutIsMapped == PoolIInv => out \subseteq Backing!MappedRegions
<1> SUFFICES ASSUME PoolIInv, NEW r \in out PROVE r \in Backing!MappedRegions
  OBVIOUS
<1>0. Typed /\ Backing!ReferencesExact /\ r \in Backing!Regions
      /\ r[1] \in Extents /\ r[2] \in 1..Span
  BY DEF PoolIInv, Told, Typed, Backing!Regions
<1>1. references[r[1]] # 0 /\ references[r[1]] \in Nat
  BY <1>0, WhoRefers DEF Used, Typed
<1>2. r[1] \in mapped
  BY <1>0, <1>1, ExactIs DEF MappedRight
<1>3. r[2] <= size[r[1]]
  <2>1. r[2] + unissued[r[1]] <= size[r[1]]
    BY DEF PoolIInv, Told, IssuedInOrder, Used
  <2>2. unissued[r[1]] \in Nat /\ size[r[1]] \in Nat /\ Span \in Nat
    BY <1>0, Spans DEF Typed
  <2> QED
    BY <1>0, <2>1, <2>2
<1> QED
  BY <1>0, <1>2, <1>3 DEF Backing!MappedRegions

\* What a step does to the regions that are out: one is taken, one given back, or none
\* moves.
LEMMA OutChanges ==
  ASSUME PoolIInv, [Backing!Next]_Backing!vars
  PROVE  \/ out' = out
         \/ /\ UNCHANGED <<mapped, size>>
            /\ \/ \E r \in Backing!Regions \ out : out' = out \cup {r}
               \/ \E r \in out : out' = out \ {r}
<1>1. ASSUME NEW t \in Threads,
             Backing!Acquire(t) \/ Backing!ChooseSpan(t) \/ Backing!CreateFails(t)
             \/ Backing!Install(t)
             \/ \E e \in Extents : Backing!Create(t, e)
      PROVE  out' = out
  BY <1>1 DEF Backing!Acquire, Backing!ChooseSpan, Backing!CreateFails, Backing!Install,
     Backing!Create, Backing!End
<1>2. ASSUME NEW t \in Threads, NEW r \in Backing!Regions \cup {None},
             Backing!End(t, r), r \notin out
      PROVE  out' = out \/ \E x \in Backing!Regions \ out : out' = out \cup {x}
  BY <1>2 DEF Backing!End
<1>3. ASSUME NEW t \in Threads, Backing!TakePooled(t)
      PROVE  /\ UNCHANGED <<mapped, size>>
             /\ out' = out \/ \E x \in Backing!Regions \ out : out' = out \cup {x}
  <2>1. Head(pool) \in Backing!Regions /\ Head(pool) \notin out
    BY <1>3, PoolTaken, TakePooledMoves DEF Backing!TakePooled, PoolIInv, Told
  <2> QED
    BY <1>2, <1>3, <2>1 DEF Backing!TakePooled, Backing!extents
<1>4. ASSUME NEW t \in Threads, Backing!TakeFromActive(t)
      PROVE  /\ UNCHANGED <<mapped, size>>
             /\ out' = out \/ \E x \in Backing!Regions \ out : out' = out \cup {x}
  <2>1. NextRegion \in Backing!Regions /\ NextRegion \notin out
    BY <1>4, TakesNext, NextRegionIsNew DEF Used
  <2> QED
    BY <1>2, <1>4, <2>1, TakesNext
<1>5. ASSUME NEW t \in Threads, Backing!CountSole(t) \/ Backing!Drop(t)
      PROVE  /\ UNCHANGED <<mapped, size>>
             /\ out' = out \/ \E x \in Backing!Regions \ out : out' = out \cup {x}
  <2>1. region[t] \in Backing!Regions \cup {None} /\ region[t] \notin out
    <3>1. None \notin Backing!Regions
      BY PoolTypes
    <3> QED
      BY <3>1 DEF PoolIInv, Told, Typed, EachInOnePlace, Backing!InHand
  <2>2. UNCHANGED <<mapped, size>> /\ (out' = out \/ Backing!End(t, region[t]))
    BY <1>5, DropsTo DEF Backing!CountSole, Backing!extents
  <2> QED
    BY <1>2, <2>1, <2>2
<1>6. ASSUME NEW t \in Threads, Backing!Unmap(t) PROVE out' = out
  <2>1. region[t] = None
    BY <1>6 DEF Backing!Unmap, PoolIInv, Told, CallsKnown, CallKnown
  <2> QED
    BY <1>6, <2>1 DEF Backing!Unmap, Backing!Dropped, Backing!End
<1>7. ASSUME NEW t \in Threads, NEW r \in Backing!Regions, Backing!Release(t, r)
      PROVE  UNCHANGED <<mapped, size>> /\ \E x \in out : out' = out \ {x}
  BY <1>7 DEF Backing!Release, Backing!extents
<1>8. CASE UNCHANGED Backing!vars
  BY <1>8 DEF Backing!vars
<1> QED
  BY <1>1, <1>3, <1>4, <1>5, <1>6, <1>7, <1>8 DEF Backing!Next, Backing!Step

\* The pool of regions implements RegionSource, whatever its fairness.
LEMMA PoolKeepsPromise == Backing!Init /\ [][Backing!Next]_Backing!vars => Backing!KeepsPromise
<1>1. Backing!Init => Backing!Source!Init
  BY DEF Backing!Init, Backing!Source!Init, Backing!MappedRegions
<1>0. (PoolIInv => out \subseteq Backing!MappedRegions)'
  BY OutIsMapped, PTL
<1>2. PoolIInv /\ PoolIInv' /\ [Backing!Next]_Backing!vars
        => [Backing!Source!Next]_<<out, Backing!MappedRegions>>
  <2> SUFFICES ASSUME PoolIInv, PoolIInv', [Backing!Next]_Backing!vars
               PROVE  [Backing!Source!Next]_<<out, Backing!MappedRegions>>
    OBVIOUS
  <2>1. out \subseteq Backing!MappedRegions /\ out' \subseteq Backing!MappedRegions'
    BY <1>0, OutIsMapped
  <2>2. CASE out' = out
    <3>1. Backing!MappedRegions' \in {m \in SUBSET Backing!Regions : out \subseteq m}
      BY <2>1, <2>2 DEF Backing!MappedRegions
    <3> QED
      BY <2>2, <3>1 DEF Backing!Source!Next, Backing!Source!Remap
  <2>3. ASSUME UNCHANGED <<mapped, size>>, NEW r \in Backing!Regions \ out, out' = out \cup {r}
        PROVE  Backing!Source!Next
    <3>1. Backing!MappedRegions' = Backing!MappedRegions
      BY <2>3 DEF Backing!MappedRegions
    <3>2. r \in Backing!MappedRegions \ out
      BY <2>1, <2>3, <3>1
    <3> QED
      BY <2>3, <3>1, <3>2 DEF Backing!Source!Next, Backing!Source!Take
  <2>4. ASSUME UNCHANGED <<mapped, size>>, NEW r \in out, out' = out \ {r}
        PROVE  Backing!Source!Next
    <3>1. Backing!MappedRegions' = Backing!MappedRegions
      BY <2>4 DEF Backing!MappedRegions
    <3> QED
      BY <2>4, <3>1 DEF Backing!Source!Next, Backing!Source!Give
  <2> QED
    BY <2>2, <2>3, <2>4, OutChanges
<1>3. Backing!Init => PoolIInv
  BY PoolStarts
<1>4. PoolIInv /\ [Backing!Next]_Backing!vars => PoolIInv'
  BY PoolKept
<1> QED
  BY <1>1, <1>2, <1>3, <1>4, PTL DEF Backing!KeepsPromise, Backing!Source!Spec

\* The same of the program MCReferenceCounts checks, whose other parts leave the pool of
\* regions alone.
THEOREM RegionsStayMappedHolds == MCSpec => RegionsStayMapped
<1>1. MCInit => Backing!Init
  BY DEF MCInit
<1>2. [MCNext]_<<part, vars, backingVars, slabVars>> => [Backing!Next]_Backing!vars
  BY DEF MCNext, backingVars, Backing!vars, Backing!extents, Backing!shared
<1>3. Backing!Init /\ [][Backing!Next]_Backing!vars => RegionsStayMapped
  BY PoolKeepsPromise DEF RegionsStayMapped
<1> QED
  BY <1>1, <1>2, <1>3, PTL DEF MCSpec
=============================================================================
