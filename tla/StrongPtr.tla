----------------------------- MODULE StrongPtr -----------------------------
(***************************************************************************)
(* strong_ptr and weak_ptr of std/sources/shared_ptr.qxs around one        *)
(* control block, one atomic access per step.  (shared_ptr there is the    *)
(* same algorithm without weak pointers.)                                  *)
(*                                                                         *)
(* The processes are the pointer objects themselves: whatever thread works *)
(* on a pointer, `at' says where the constructor, lock or reset it is      *)
(* running stands.  A pointer read by somebody else's copy or lock is not  *)
(* changed meanwhile (it is passed as CONST&), but its siblings are.  The  *)
(* shared object may itself hold weak pointers to its own control block.   *)
(***************************************************************************)
EXTENDS Naturals, FiniteSets

CONSTANTS Strong, Weak, \* the strong_ptr and weak_ptr variables
          Inside,       \* those of Weak that are members of the shared object
          None

ASSUME PointerTypes ==
    /\ IsFiniteSet(Strong) /\ IsFiniteSet(Weak)
    /\ Strong \cap Weak = {}
    /\ Inside \subseteq Weak
    /\ None \notin Strong \cup Weak

Pointers == Strong \cup Weak

VARIABLES strongCount, weakCount, \* the two counts of the control block
          object,   \* "live", "destroyed"
          block,    \* the control block: "allocated", "freed"
          at,       \* where each pointer stands
          source,   \* the pointer it is being made from
          observed  \* its local `observed'

counts == <<strongCount, weakCount>>
vars == <<counts, object, block, at, source, observed>>

Places == {"empty", "load", "cas", "owning", "decrement", "destroy",
           "dropImplicit", "delete"}

TypeOK ==
    /\ strongCount \in Nat
    /\ weakCount \in Nat
    /\ object \in {"live", "destroyed"}
    /\ block \in {"allocated", "freed"}
    /\ at \in [Pointers -> Places]
    /\ source \in [Pointers -> Pointers \cup {None}]
    /\ observed \in [Pointers -> Nat]

\* make_strong has returned its first owner.
Init ==
    /\ strongCount = 1
    /\ weakCount = 1
    /\ object = "live"
    /\ block = "allocated"
    /\ \E p \in Strong :
          at = [x \in Pointers |-> IF x = p THEN "owning" ELSE "empty"]
    /\ source = [x \in Pointers |-> None]
    /\ observed = [x \in Pointers |-> 0]

Goto(x, place) == at' = [at EXCEPT ![x] = place]

\* No copy or lock is reading x.
Unread(x) == \A y \in Pointers : source[y] # x

-----------------------------------------------------------------------------
\* Copy construction, weak construction from a strong pointer, and lock: the
\* new pointer is made from one that holds the block.  The object's own members
\* are made by somebody who holds the object.
Make(x, q) ==
    /\ at[x] = "empty"
    /\ at[q] = "owning"
    /\ x \in Inside => q \in Strong
    /\ source' = [source EXCEPT ![x] = q]
    /\ Goto(x, "load")
    /\ UNCHANGED <<counts, object, block, observed>>

Count(x) == IF x \in Strong THEN strongCount ELSE weakCount

LoadUntested(x) == \* mutant: lock retains without testing for zero
    /\ at[x] = "load"
    /\ observed' = [observed EXCEPT ![x] = Count(x)]
    /\ Goto(x, "cas")
    /\ UNCHANGED <<counts, object, block, source>>

\* The count goes to `observed'; lock gives up when no owner is left.
Observe(x) ==
    /\ observed' = [observed EXCEPT ![x] = Count(x)]
    /\ IF Count(x) = 0
       THEN Goto(x, "empty") /\ source' = [source EXCEPT ![x] = None]
       ELSE Goto(x, "cas") /\ UNCHANGED source
    /\ UNCHANGED <<counts, object, block>>

Load(x) == at[x] = "load" /\ Observe(x)

AddTo(x) ==
    IF x \in Strong
    THEN strongCount' = observed[x] + 1 /\ UNCHANGED weakCount
    ELSE weakCount' = observed[x] + 1 /\ UNCHANGED strongCount

RetainBlindly(x) == \* mutant: LOAD and STORE instead of COMPARE_EXCHANGE
    /\ at[x] = "cas"
    /\ AddTo(x)
    /\ source' = [source EXCEPT ![x] = None]
    /\ Goto(x, "owning")
    /\ UNCHANGED <<object, block, observed>>

\* COMPARE_EXCHANGE; a failure brings the current count, which lock tests again.
Retain(x) ==
    /\ at[x] = "cas"
    /\ Count(x) = observed[x]
    /\ AddTo(x)
    /\ source' = [source EXCEPT ![x] = None]
    /\ Goto(x, "owning")
    /\ UNCHANGED <<object, block, observed>>

RetainFails(x) ==
    /\ at[x] = "cas"
    /\ Count(x) # observed[x]
    /\ Observe(x)

\* The move constructors: an empty pointer takes over what q holds.
Move(x, q) ==
    /\ at[x] = "empty" /\ at[q] = "owning"
    /\ {x, q} \subseteq Strong \/ {x, q} \subseteq Weak \ Inside
    /\ Unread(q)
    /\ at' = [at EXCEPT ![x] = "owning", ![q] = "empty"]
    /\ UNCHANGED <<counts, object, block, source, observed>>

-----------------------------------------------------------------------------
\* reset and the destructors empty the pointer, then give its count back.
Reset(x) ==
    /\ at[x] = "owning"
    /\ Unread(x)
    /\ Goto(x, "decrement")
    /\ UNCHANGED <<counts, object, block, source, observed>>

ReleaseStrong(p) ==
    /\ p \in Strong
    /\ at[p] = "decrement"
    /\ strongCount' = strongCount - 1
    /\ Goto(p, IF strongCount = 1 THEN "destroy" ELSE "empty")
    /\ UNCHANGED <<weakCount, object, block, source, observed>>

ReleaseWeakEager(w) == \* mutant: frees the block as soon as no weak_ptr is left
    /\ w \in Weak
    /\ at[w] = "decrement"
    /\ weakCount' = weakCount - 1
    /\ Goto(w, IF weakCount <= 2 /\ strongCount = 0 THEN "delete" ELSE "empty")
    /\ UNCHANGED <<strongCount, object, block, source, observed>>

ReleaseWeak(w) ==
    /\ w \in Weak
    /\ at[w] = "decrement"
    /\ weakCount' = weakCount - 1
    /\ Goto(w, IF weakCount = 1 THEN "delete" ELSE "empty")
    /\ UNCHANGED <<strongCount, object, block, source, observed>>

\* The destructor of T ends; its members have been destroyed by then.
Destroy(p) ==
    /\ at[p] = "destroy"
    /\ \A w \in Inside : at[w] = "empty"
    /\ object' = "destroyed"
    /\ Goto(p, "dropImplicit")
    /\ UNCHANGED <<counts, block, source, observed>>

DropImplicitKeeping(p) == \* mutant: the last owner leaves the block to the weak pointers
    /\ at[p] = "dropImplicit"
    /\ weakCount' = weakCount - 1
    /\ Goto(p, "empty")
    /\ UNCHANGED <<strongCount, object, block, source, observed>>

DropImplicit(p) ==
    /\ at[p] = "dropImplicit"
    /\ weakCount' = weakCount - 1
    /\ Goto(p, IF weakCount = 1 THEN "delete" ELSE "empty")
    /\ UNCHANGED <<strongCount, object, block, source, observed>>

Delete(x) ==
    /\ at[x] = "delete"
    /\ block' = "freed"
    /\ Goto(x, "empty")
    /\ UNCHANGED <<counts, object, source, observed>>

-----------------------------------------------------------------------------
Next == \E x \in Pointers :
    \/ Load(x) \/ Retain(x) \/ RetainFails(x)
    \/ Reset(x) \/ ReleaseStrong(x) \/ ReleaseWeak(x)
    \/ Destroy(x) \/ DropImplicit(x) \/ Delete(x)
    \/ \E q \in Pointers : Make(x, q) \/ Move(x, q)

Spec == Init /\ [][Next]_vars

-----------------------------------------------------------------------------
Owners == {p \in Strong : at[p] \in {"owning", "decrement"}}
Observers == {w \in Weak : at[w] \in {"owning", "decrement"}}

\* The pointer of the last owner until it gives up the implicit weak count.
LastOwner == {p \in Strong : at[p] \in {"destroy", "dropImplicit"}}

\* The counts are exact: one strong count per owner, one weak count per
\* observer and one on behalf of all owners together.
CountsExact ==
    /\ strongCount = Cardinality(Owners)
    /\ weakCount = Cardinality(Observers)
                   + (IF Owners \cup LastOwner # {} THEN 1 ELSE 0)

\* An owner never sees a destroyed object.
OwnersKeepObject == Owners # {} => object = "live"

\* No constructor, lock or reset in progress, and no pointer that holds the
\* block, outlives it; in particular it is freed once.
NothingUsesFreedBlock ==
    block = "freed" => \A x \in Pointers : at[x] = "empty"

\* The ASSERTs: a copy never finds its count at zero (lock may), no count is
\* given back twice, a weak pointer frees the block only after the last owner.
AssertionsHold ==
    \A x \in Pointers :
       /\ at[x] \in {"load", "cas"} /\ (x \in Weak \/ source[x] \in Strong)
             => Count(x) # 0
       /\ at[x] = "decrement" => Count(x) # 0
       /\ at[x] = "dropImplicit" => weakCount # 0
       /\ x \in Weak /\ at[x] = "delete" => strongCount = 0

\* When every pointer is empty and idle, the block has been freed.
NothingLeaks == (\A x \in Pointers : at[x] = "empty") => block = "freed"

\* The block is freed exactly when no pointer needs it any more.
FreedWhenUnused == NothingUsesFreedBlock /\ NothingLeaks

\* lock never brings an object back that has lost its last owner.
NoResurrection == [][Owners = {} => Owners' = {}]_vars
=============================================================================
