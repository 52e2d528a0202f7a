----------------------------- MODULE SlabProofs -----------------------------
(***************************************************************************)
(* Proofs about SlabAllocator for any finite set of threads, any numbers   *)
(* of blocks, mappings and homes, and plates of any even capacity.         *)
(*                                                                         *)
(* The invariant SlabKnown says what each thread keeps and what its call   *)
(* may have yet to do (AfterErrands), and keeps books: for each mapping    *)
(* its plates, for all homes the blocks, for each home its credit are what *)
(* plates in hand, steps to be done and stores are worth together (Owned). *)
(* A step of a thread moves worth between these and loses none of it.      *)
(***************************************************************************)
EXTENDS MCReferenceCounts, Sequences, FiniteSetTheorems, SequenceTheorems, TLAPS

AllHomes == Slab!AllHomes
Half == Slab!Half

\* Plates: of all, those whose `used' tells the truth, those without blocks.
Plates == {p \in [of : Mappings, entries : Seq(AllHomes), used : Nat] : Len(p.entries) <= Capacity}
Whole == {p \in Plates : p.used = Len(p.entries)}
Bare == {p \in Whole : p.used = 0}

\* What a thread may have in hand.
Carried == Plates \cup {None}

\* Steps that get rid of a plate or of a credit, and those that get one or use it.
Errands ==
    [do : {"pushEmpty"}, on : Bare] \cup [do : {"drain", "release"}, on : Whole]
    \cup {x \in [do : {"reserve", "push"}, on : Whole, store : Slab!Stores] :
             x.on.used > 0 /\ (x.store = "full" <=> x.on.used = Capacity)}
    \cup [do : {"repay"}, home : AllHomes, bytes : Nat]

Seekers == [do : {"popEmpty", "mapPlates", "seekFull", "seekPartial", "fill", "refill",
                  "install", "direct"}]
Bearers == [do : {"gotActive", "gotEmpty", "failed", "makeRoom", "place"},
            block : AllHomes \cup {None}]
HolderSteps == [do : {"gotSecondary"}, on : Bare, block : AllHomes \cup {None}]
Steps == Errands \cup Seekers \cup Bearers \cup HolderSteps

\* The last step of a call with active plate n, secondary plate s: one that is to
\* use a full plate, one that is to use an empty one, and the others.
WantsFull(x, n, s) ==
    \/ x = Slab!Do("install") /\ n \in Bare /\ s \in Bare
    \/ x = Slab!Do("direct")

WantsEmpty(x, n, s, d) ==
    \/ x \in [do : {"gotActive"}, block : AllHomes \cup {None}] /\ n = None /\ ~d
    \/ x \in HolderSteps /\ n = None /\ ~d
    \/ /\ x \in [do : {"gotEmpty"}, block : AllHomes]
       /\ n \in Whole /\ n.used = Capacity /\ s \in Whole /\ s.used = Capacity

Finishes(x, n, s) ==
    \/ x \in [do : {"failed"}, block : AllHomes \cup {None}]
    \/ x \in [do : {"makeRoom"}, block : AllHomes] /\ n \in Whole /\ n.used = Capacity /\ s \in Bare
    \/ x \in [do : {"place"}, block : AllHomes] /\ n \in Bare /\ s \in Bare

\* What a call has yet to do once its errands are done, with plate q in hand.
AfterErrands(r, n, s, h, d, q) ==
    \/ r = <<>> /\ q = None
    \/ \E x \in Seekers : /\ WantsFull(x, n, s)
                  /\ \/ r = <<x>> /\ (q # None => q.used = Capacity)
                     \/ r = <<Slab!Do("refill"), x>> /\ h # None /\ q # None /\ q.used < Capacity
                     \/ r = <<Slab!Do("fill"), x>> /\ h # None
                     \/ r = <<Slab!Do("seekFull"), x>> /\ q = None
                     \/ r = <<Slab!Do("seekPartial"), x>> /\ q = None /\ h # None
                     \/ \E w \in {"popEmpty", "mapPlates"} :
                           r = <<Slab!Do(w), Slab!Do("fill"), x>> /\ q = None /\ h # None
    \/ \E x \in Bearers \cup HolderSteps :
          /\ WantsEmpty(x, n, s, d)
          /\ \/ r = <<x>> /\ (q # None => q \in Bare)
             \/ \E w \in {"popEmpty", "mapPlates"} : r = <<Slab!Do(w), x>> /\ q = None
    \/ \E x \in Bearers : Finishes(x, n, s) /\ r = <<x>> /\ q = None

\* A thread's own plates, whether or not it is in a call.
Keeps(n, s, c, h, d, q) ==
    /\ n = None <=> s = None
    /\ d => n = None
    /\ c = (IF n = None THEN 0 ELSE Len(n.entries))
    /\ n # None => n \in Plates /\ s \in Whole /\ s.used \in {0, Half, Capacity}
    /\ h \in AllHomes \cup {None} /\ d \in BOOLEAN
    /\ q # None => q \in Whole

Known(n, s, c, h, d, q, td) ==
    /\ Keeps(n, s, c, h, d, q)
    /\ \E e \in Seq(Errands), r \in Seq(Steps) : td = e \o r /\ AfterErrands(r, n, s, h, d, q)

\* What a queue holds: some plates, each so many times.
Bundles == {b \in UNION {[S -> Nat \ {0}] : S \in SUBSET Whole} : IsFiniteSet(DOMAIN b)}

StoreKnown ==
    /\ stored \in [Slab!Stores -> [AllHomes -> Bundles]]
    /\ \A k \in Slab!Stores, h \in AllHomes : \A p \in DOMAIN stored[k][h] :
          p.used > 0 /\ p.entries[1] = h /\ (k = "full" <=> p.used = Capacity)

SharedTypes ==
    /\ free \in Nat /\ issued \in [AllHomes -> Nat]
    /\ empty \in [Mappings -> Nat] /\ remaining \in [Mappings -> Int]
    /\ credit \in [AllHomes -> Int]

ThreadTypes ==
    /\ node \in [Users -> Carried] /\ secondary \in [Users -> Carried]
    /\ plate \in [Users -> Carried]
    /\ cursor \in [Users -> Nat] /\ home \in [Users -> AllHomes \cup {None}]
    /\ disabled \in [Users -> BOOLEAN]
    /\ todo \in [Users -> Seq(Steps)]

ThreadsKnown ==
    \A t \in Users : Known(node[t], secondary[t], cursor[t], home[t], disabled[t], plate[t], todo[t])

\* The weights W of the elements of S, put side by side, and how many that is.
Laid(W, S) == UNION {{<<x, i>> : i \in 1..W[x]} : x \in S}
SumOf(W, S) == Cardinality(Laid(W, S))

-----------------------------------------------------------------------------
(* What a plate and a step are worth in an account: <<"plates", m>>, the     *)
(* plates of a mapping; <<"entries", 0>>, the blocks plates hold;            *)
(* <<"returning", 0>>, the blocks steps are about; <<"credit", h>>, the      *)
(* blocks charged to a home.                                                 *)

HandWorth(a, p) ==
    IF p = None THEN 0
    ELSE IF a[1] = "plates" THEN (IF p.of = a[2] THEN 1 ELSE 0)
    ELSE IF a[1] = "entries" THEN Len(p.entries) ELSE 0

StoreWorth(a, p) ==
    IF a[1] = "credit" THEN (IF p.entries[1] = a[2] THEN Len(p.entries) ELSE 0)
    ELSE HandWorth(a, p)

Carriers == {"pushEmpty", "drain", "release", "reserve", "push", "gotSecondary"}

StepWorth(a, x) ==
    IF a[1] = "returning" THEN (IF x \in Bearers \cup HolderSteps /\ x.block # None THEN 1 ELSE 0)
    ELSE IF a[1] = "credit"
    THEN IF x.do = "push" /\ x.on.entries[1] = a[2] THEN x.on.used
         ELSE IF x.do = "repay" /\ x.home = a[2] THEN x.bytes ELSE 0
    ELSE IF x.do \in Carriers THEN HandWorth(a, x.on) ELSE 0

HandPlaces == {"active", "secondary", "plate"}
HandW(a) == [x \in HandPlaces \X Users \X Plates |-> HandWorth(a, x[3])]
StepW(a) == [x \in Users \X Nat \X Steps |-> StepWorth(a, x[3])]
StoreW(a) == [x \in Slab!Stores \X (AllHomes \X Nat) \X Plates |-> StoreWorth(a, x[3])]

\* The steps of one thread and of all, the plates in a home's queue and in all.
StepsOf(t, l) == {<<t, i, l[Len(l) - i]>> : i \in 0..(Len(l) - 1)}
AllSteps(f) == UNION {StepsOf(t, f[t]) : t \in Users}
QueueOf(k, h, b) == UNION {{<<k, <<h, i>>, p>> : i \in 1..b[p]} : p \in DOMAIN b}
AllQueues(s) == UNION {QueueOf(x[1], x[2], s[x[1]][x[2]]) : x \in Slab!Stores \X AllHomes}

HandSum(a, w, f) == SumOf(HandW(a), Slab!InHands(w, f))
ListWorth(a, t, l) == SumOf(StepW(a), StepsOf(t, l))
StepSum(a, f) == SumOf(StepW(a), AllSteps(f))
QueueWorth(a, k, h, b) == SumOf(StoreW(a), QueueOf(k, h, b))
StoreSum(a, s) == SumOf(StoreW(a), AllQueues(s))

\* What threads have of an account, what one of them has, and what there is of it.
Loose(a) == HandSum(a, "active", node) + HandSum(a, "secondary", secondary)
               + HandSum(a, "plate", plate) + StepSum(a, todo)
Mine(a, t, n, s, q, l) ==
    HandWorth(a, n) + HandWorth(a, s) + HandWorth(a, q) + ListWorth(a, t, l)
Owned(a) == Loose(a) + StoreSum(a, stored)

PlatesOf(m) == <<"plates", m>>
Entries == <<"entries", 0>>
Returning == <<"returning", 0>>
CreditOf(h) == <<"credit", h>>

Books ==
    /\ \A m \in Mappings : remaining[m] = empty[m] + Owned(PlatesOf(m))
    /\ free + SumOf(issued, AllHomes) + Owned(Entries) + Owned(Returning) = Blocks
    /\ \A h \in AllHomes : credit[h] = Owned(CreditOf(h)) /\ credit[h] <= Budget

Shape == SharedTypes /\ ThreadTypes /\ StoreKnown /\ ThreadsKnown
SlabKnown == Shape /\ Books

\* Thread t's own state becomes this.
Becomes(t, n, s, c, h, d, q, l) ==
    /\ node' = [node EXCEPT ![t] = n] /\ secondary' = [secondary EXCEPT ![t] = s]
    /\ cursor' = [cursor EXCEPT ![t] = c] /\ home' = [home EXCEPT ![t] = h]
    /\ disabled' = [disabled EXCEPT ![t] = d] /\ plate' = [plate EXCEPT ![t] = q]
    /\ todo' = [todo EXCEPT ![t] = l]

\* What steps e add to the worth of those that follow.
Added(a, t, e, l) == ListWorth(a, t, e \o l) - ListWorth(a, t, l)

-----------------------------------------------------------------------------
(* Sums over finite sets. *)

LEMMA LaidFinite ==
  ASSUME NEW S, IsFiniteSet(S), NEW W, \A x \in S : W[x] \in Nat
  PROVE  IsFiniteSet(Laid(W, S)) /\ SumOf(W, S) \in Nat
<1> DEFINE f == [x \in S |-> {<<x, i>> : i \in 1..W[x]}]
<1> DEFINE T == {{<<x, i>> : i \in 1..W[x]} : x \in S}
<1>1. f \in Surjection(S, T)
  BY DEF Surjection
<1>2. IsFiniteSet(T)
  <2> HIDE DEF f, T
  <2> QED
    BY <1>1, FS_Surjection
<1>3. ASSUME NEW x \in S
      PROVE  IsFiniteSet({<<x, i>> : i \in 1..W[x]})
  <2>1. {<<x, i>> : i \in 1..W[x]} = {x} \X (1..W[x])
    OBVIOUS
  <2>2. IsFiniteSet(1..W[x])
    BY FS_Interval
  <2>3. IsFiniteSet({x} \X (1..W[x]))
    BY <2>2, FS_Singleton, FS_Product
  <2> QED
    BY <2>1, <2>3
<1>4. IsFiniteSet(UNION T)
  <2>1. \A U \in T : IsFiniteSet(U)
    BY <1>3
  <2> HIDE DEF T
  <2> QED
    BY <1>2, <2>1, FS_UNION
<1> QED
  BY <1>4, FS_CardinalityType DEF Laid, SumOf

LEMMA SumOfOne ==
  ASSUME NEW W, NEW x, W[x] \in Nat
  PROVE  SumOf(W, {x}) = W[x]
<1>1. Laid(W, {x}) = {x} \X (1..W[x])
  BY DEF Laid
<1>2. IsFiniteSet({x}) /\ Cardinality({x}) = 1
  BY FS_Singleton
<1>3. IsFiniteSet(1..W[x]) /\ Cardinality(1..W[x]) = W[x]
  <2> DEFINE n == W[x]
  <2>1. n \in Nat
    OBVIOUS
  <2> HIDE DEF n
  <2>2. 1 \in Int /\ n \in Int /\ 1 <= n + 1 /\ (n - 1) + 1 = n
    BY <2>1
  <2>3. IsFiniteSet(1..n) /\ Cardinality(1..n) = n
    BY ONLY <2>2, FS_Interval
  <2> QED
    BY <2>3 DEF n
<1>4. Cardinality({x} \X (1..W[x])) = Cardinality({x}) * Cardinality(1..W[x])
  BY <1>2, <1>3, FS_Product
<1>5. \A k \in Nat : 1 * k = k
  OBVIOUS
<1> QED
  BY <1>1, <1>2, <1>3, <1>4, <1>5 DEF SumOf

LEMMA SumOfNone ==
  ASSUME NEW W
  PROVE  SumOf(W, {}) = 0
<1>1. Laid(W, {}) = {}
  BY DEF Laid
<1> QED
  BY <1>1, FS_EmptySet DEF SumOf

LEMMA Disjoint ==
  ASSUME NEW S, IsFiniteSet(S), NEW T, IsFiniteSet(T), S \cap T = {}
  PROVE  /\ IsFiniteSet(S \cup T)
         /\ Cardinality(S \cup T) = Cardinality(S) + Cardinality(T)
         /\ Cardinality(S) \in Nat /\ Cardinality(T) \in Nat
<1>1. Cardinality(S \cap T) = 0
  BY FS_EmptySet
<1>2. Cardinality(S) \in Nat /\ Cardinality(T) \in Nat
  BY FS_CardinalityType
<1>3. /\ IsFiniteSet(S \cup T)
      /\ Cardinality(S \cup T) = Cardinality(S) + Cardinality(T) - Cardinality(S \cap T)
  BY FS_Union
<1> QED
  BY <1>1, <1>2, <1>3

LEMMA SumOfBoth ==
  ASSUME NEW S, IsFiniteSet(S), NEW T, IsFiniteSet(T), S \cap T = {},
         NEW W, \A x \in S \cup T : W[x] \in Nat
  PROVE  /\ SumOf(W, S \cup T) = SumOf(W, S) + SumOf(W, T)
         /\ SumOf(W, S) \in Nat /\ SumOf(W, T) \in Nat
<1>1. /\ IsFiniteSet(Laid(W, S)) /\ IsFiniteSet(Laid(W, T))
      /\ SumOf(W, S) \in Nat /\ SumOf(W, T) \in Nat
  BY LaidFinite
<1>2. Laid(W, S \cup T) = Laid(W, S) \cup Laid(W, T)
  BY DEF Laid
<1>3. Laid(W, S) \cap Laid(W, T) = {}
  BY DEF Laid
<1> QED
  BY <1>1, <1>2, <1>3, Disjoint DEF SumOf

LEMMA SumSame ==
  ASSUME NEW S, NEW V, NEW W, \A x \in S : V[x] = W[x]
  PROVE  SumOf(V, S) = SumOf(W, S)
<1>1. Laid(V, S) = Laid(W, S)
  BY DEF Laid
<1> QED
  BY <1>1 DEF SumOf

\* Some elements, A, make way for others, B.
LEMMA SumExchange ==
  ASSUME NEW R, IsFiniteSet(R), NEW A, IsFiniteSet(A), NEW B, IsFiniteSet(B),
         R \cap A = {}, R \cap B = {},
         NEW W, \A x \in R \cup A \cup B : W[x] \in Nat
  PROVE  /\ SumOf(W, R \cup B) = (SumOf(W, R \cup A) - SumOf(W, A)) + SumOf(W, B)
         /\ SumOf(W, R \cup A) \in Nat /\ SumOf(W, A) \in Nat /\ SumOf(W, B) \in Nat
<1>1. SumOf(W, R \cup A) = SumOf(W, R) + SumOf(W, A) /\ SumOf(W, A) \in Nat /\ SumOf(W, R) \in Nat
  BY SumOfBoth
<1>2. SumOf(W, R \cup B) = SumOf(W, R) + SumOf(W, B) /\ SumOf(W, B) \in Nat
  BY SumOfBoth
<1> QED
  BY <1>1, <1>2

\* One weight changes.
LEMMA SumChange ==
  ASSUME NEW S, IsFiniteSet(S), NEW W \in [S -> Nat], NEW V \in [S -> Nat], NEW x \in S,
         \A y \in S \ {x} : V[y] = W[y]
  PROVE  SumOf(V, S) = (SumOf(W, S) - W[x]) + V[x] /\ SumOf(W, S) \in Nat
<1> DEFINE R == S \ {x}
           O == {x}
<1>1. IsFiniteSet(R) /\ IsFiniteSet(O) /\ R \cap O = {} /\ R \cup O = S
  BY FS_Difference, FS_Singleton
<1>2. \A y \in R \cup O : V[y] \in Nat /\ W[y] \in Nat
  OBVIOUS
<1>5. SumOf(V, R) = SumOf(W, R)
  BY SumSame
<1>6. SumOf(V, O) = V[x] /\ SumOf(W, O) = W[x] /\ V[x] \in Nat /\ W[x] \in Nat
  BY SumOfOne
<1> HIDE DEF R, O
<1>3. SumOf(V, R \cup O) = SumOf(V, R) + SumOf(V, O)
  BY ONLY <1>1, <1>2, SumOfBoth
<1>4. SumOf(W, R \cup O) = SumOf(W, R) + SumOf(W, O) /\ SumOf(W, R) \in Nat
  BY ONLY <1>1, <1>2, SumOfBoth
<1>7. SumOf(V, S) = SumOf(V, R \cup O) /\ SumOf(W, S) = SumOf(W, R \cup O)
  BY <1>1
<1> QED
  BY ONLY <1>3, <1>4, <1>5, <1>6, <1>7

\* The instance counts with a copy of FiniteSets of its own.
LEMMA SlabCardinality ==
  /\ \A S : Slab!Cardinality(S) = Cardinality(S)
  /\ \A S : Slab!IsFiniteSet(S) <=> IsFiniteSet(S)
BY DEF Slab!Cardinality, Cardinality, Slab!IsFiniteSet, IsFiniteSet

LEMMA SlabConstants ==
  /\ IsFiniteSet(Users) /\ Blocks \in Nat /\ Budget \in Nat
  /\ PlatesEach \in Nat /\ PlatesEach > 0 /\ Homes \in Nat /\ Homes > 0
  /\ Half \in Nat /\ Half > 0 /\ Capacity = 2 * Half /\ Capacity \in Nat /\ Half < Capacity
  /\ AllHomes = 0..Homes - 1 /\ None \notin AllHomes /\ None \notin Plates
<1>1. /\ Blocks \in Nat /\ Budget \in Nat
      /\ PlatesEach \in Nat /\ PlatesEach > 0 /\ Homes \in Nat /\ Homes > 0
      /\ Half \in Nat /\ Half > 0 /\ Capacity = 2 * Half
  BY SlabAssumption DEF Slab!SlabSizes, Half
<1>2. IsFiniteSet(Users)
  <2>1. Slab!IsFiniteSet(Users)
    BY SlabAssumption DEF Slab!SlabSizes
  <2> QED
    BY <2>1, SlabCardinality
<1>3. AllHomes = 0..Homes - 1 /\ None \notin AllHomes /\ None \notin Plates
  BY SlabAssumption DEF Slab!SlabSizes, AllHomes, Slab!AllHomes, Plates
<1> QED
  BY <1>1, <1>2, <1>3

-----------------------------------------------------------------------------
(* The sums over the plates threads have in hand, their steps and the stores. *)

LEMMA HandWorthType ==
  ASSUME NEW a, NEW p \in Carried
  PROVE  HandWorth(a, p) \in Nat
<1>1. p = None \/ Len(p.entries) \in Nat
  BY DEF Plates, Carried
<1> QED
  BY <1>1 DEF HandWorth

LEMMA StoreWorthType ==
  ASSUME NEW a, NEW p \in Plates
  PROVE  StoreWorth(a, p) \in Nat
<1>1. Len(p.entries) \in Nat
  BY DEF Plates
<1> QED
  BY <1>1, HandWorthType DEF StoreWorth, Carried

LEMMA CarriedPlate ==
  ASSUME NEW x \in Steps, x.do \in Carriers
  PROVE  x.on \in Whole
BY DEF Steps, Errands, Seekers, Bearers, HolderSteps, Carriers, Bare

LEMMA StepWorthType ==
  ASSUME NEW a, NEW x \in Steps
  PROVE  StepWorth(a, x) \in Nat
<1>1. x.do \in Carriers => x.on \in Whole /\ x.on \in Plates /\ x.on.used \in Nat
  BY CarriedPlate DEF Whole, Plates
<1>2. x.do = "repay" => x.bytes \in Nat
  BY DEF Steps, Errands, Seekers, Bearers, HolderSteps
<1>3. x.do \in Carriers => HandWorth(a, x.on) \in Nat
  BY <1>1, HandWorthType DEF Carried
<1> QED
  BY <1>1, <1>2, <1>3 DEF StepWorth, Carriers

LEMMA HandsChange ==
  ASSUME NEW f \in [Users -> Carried], NEW t \in Users, NEW v \in Carried,
         NEW w \in HandPlaces, NEW a
  PROVE  /\ HandSum(a, w, [f EXCEPT ![t] = v])
              = (HandSum(a, w, f) - HandWorth(a, f[t])) + HandWorth(a, v)
         /\ HandSum(a, w, f) \in Nat
<1> DEFINE Piece(p) == {<<w, u, p>> : u \in {u \in {t} : p # None}}
           D == {u \in Users \ {t} : f[u] # None}
           R == {<<w, u, f[u]>> : u \in D}
           g == [f EXCEPT ![t] = v]
<1>1. g \in [Users -> Carried] /\ g[t] = v /\ \A u \in Users \ {t} : g[u] = f[u]
  OBVIOUS
<1>2. f[t] \in Carried
  OBVIOUS
<1> HIDE DEF g
<1>3. Slab!InHands(w, f) = R \cup Piece(f[t]) /\ Slab!InHands(w, g) = R \cup Piece(v)
  BY <1>1 DEF Slab!InHands
<1>4. IsFiniteSet(R)
  <2>1. IsFiniteSet(D)
    BY SlabConstants, FS_Subset
  <2>2. [u \in D |-> <<w, u, f[u]>>] \in Surjection(D, R)
    BY DEF Surjection
  <2> HIDE DEF D, R
  <2> QED
    BY <2>1, <2>2, FS_Surjection
<1>5. ASSUME NEW p \in Carried
      PROVE  /\ IsFiniteSet(Piece(p)) /\ R \cap Piece(p) = {}
             /\ SumOf(HandW(a), Piece(p)) = HandWorth(a, p)
             /\ \A x \in Piece(p) : HandW(a)[x] \in Nat
  <2>1. CASE p = None
    <3>1. Piece(p) = {}
      BY <2>1
    <3> QED
      BY <3>1, <2>1, FS_EmptySet, SumOfNone DEF HandWorth
  <2>2. CASE p # None
    <3>1. Piece(p) = {<<w, t, p>>}
      BY <2>2
    <3>2. <<w, t, p>> \in HandPlaces \X Users \X Plates
      BY <2>2 DEF Carried
    <3>3. HandW(a)[<<w, t, p>>] = HandWorth(a, p) /\ HandWorth(a, p) \in Nat
      BY <3>2, HandWorthType DEF HandW
    <3>4. R \cap Piece(p) = {}
      BY <3>1
    <3>5. SumOf(HandW(a), {<<w, t, p>>}) = HandWorth(a, p)
      BY <3>3, SumOfOne
    <3> HIDE DEF Piece, R
    <3> QED
      BY <3>1, <3>3, <3>4, <3>5, FS_Singleton
  <2> QED
    BY <2>1, <2>2
<1>6. \A x \in R : HandW(a)[x] \in Nat
  <2> SUFFICES ASSUME NEW u \in D
               PROVE  HandW(a)[<<w, u, f[u]>>] \in Nat
    OBVIOUS
  <2>1. <<w, u, f[u]>> \in HandPlaces \X Users \X Plates
    BY DEF Carried
  <2>2. HandW(a)[<<w, u, f[u]>>] = HandWorth(a, f[u])
    BY <2>1 DEF HandW
  <2> QED
    BY <2>1, <2>2, HandWorthType DEF Carried
<1> HIDE DEF Piece, R
<1>7. /\ SumOf(HandW(a), R \cup Piece(v))
           = (SumOf(HandW(a), R \cup Piece(f[t])) - SumOf(HandW(a), Piece(f[t]))) + SumOf(HandW(a), Piece(v))
      /\ SumOf(HandW(a), R \cup Piece(f[t])) \in Nat
  <2> DEFINE A == Piece(f[t])
             B == Piece(v)
  <2>1. IsFiniteSet(A) /\ R \cap A = {} /\ (\A x \in A : HandW(a)[x] \in Nat)
    BY <1>2, <1>5
  <2>2. IsFiniteSet(B) /\ R \cap B = {} /\ (\A x \in B : HandW(a)[x] \in Nat)
    BY <1>5
  <2> HIDE DEF A, B
  <2>3. /\ SumOf(HandW(a), R \cup B)
             = (SumOf(HandW(a), R \cup A) - SumOf(HandW(a), A)) + SumOf(HandW(a), B)
        /\ SumOf(HandW(a), R \cup A) \in Nat
    <3>1. \A x \in R \cup A \cup B : HandW(a)[x] \in Nat
      BY <2>1, <2>2, <1>6
    <3> DEFINE W == HandW(a)
    <3> HIDE DEF W
    <3>2. SumOf(W, R \cup B) = (SumOf(W, R \cup A) - SumOf(W, A)) + SumOf(W, B)
      BY <2>1, <2>2, <1>4, <3>1, SumExchange DEF W
    <3>3. SumOf(W, R \cup A) \in Nat
      BY <2>1, <2>2, <1>4, <3>1, SumExchange DEF W
    <3> QED
      BY <3>2, <3>3 DEF W
  <2> QED
    BY <2>3 DEF A, B
<1> QED
  BY <1>2, <1>3, <1>5, <1>7 DEF HandSum, g

LEMMA StepsOfFinite ==
  ASSUME NEW t \in Users, NEW l \in Seq(Steps), NEW a
  PROVE  /\ IsFiniteSet(StepsOf(t, l))
         /\ StepsOf(t, l) \subseteq Users \X Nat \X Steps
         /\ \A x \in StepsOf(t, l) : StepW(a)[x] = StepWorth(a, x[3]) /\ StepW(a)[x] \in Nat
<1>1. Len(l) \in Nat /\ \A i \in 1..Len(l) : l[i] \in Steps
  BY ElementOfSeq, LenProperties
<1>2. [i \in 0..(Len(l) - 1) |-> <<t, i, l[Len(l) - i]>>] \in Surjection(0..(Len(l) - 1), StepsOf(t, l))
  BY DEF Surjection, StepsOf
<1>3. IsFiniteSet(StepsOf(t, l))
  BY <1>1, <1>2, FS_Interval, FS_Surjection
<1>4. ASSUME NEW i \in 0..(Len(l) - 1)
      PROVE  /\ <<t, i, l[Len(l) - i]>> \in Users \X Nat \X Steps
             /\ StepW(a)[<<t, i, l[Len(l) - i]>>] = StepWorth(a, l[Len(l) - i])
             /\ StepW(a)[<<t, i, l[Len(l) - i]>>] \in Nat
  <2>1. i \in Nat /\ Len(l) - i \in 1..Len(l)
    BY <1>1
  <2>2. l[Len(l) - i] \in Steps
    BY <1>1, <2>1
  <2>3. <<t, i, l[Len(l) - i]>> \in Users \X Nat \X Steps
    BY <2>1, <2>2
  <2> QED
    BY <2>2, <2>3, StepWorthType DEF StepW
<1> QED
  BY <1>3, <1>4 DEF StepsOf

LEMMA AllStepsFinite ==
  ASSUME NEW f \in [Users -> Seq(Steps)], NEW a
  PROVE  IsFiniteSet(AllSteps(f)) /\ StepSum(a, f) \in Nat
<1> DEFINE T == {StepsOf(t, f[t]) : t \in Users}
<1>1. [t \in Users |-> StepsOf(t, f[t])] \in Surjection(Users, T)
  BY DEF Surjection
<1>2. IsFiniteSet(T)
  <2> HIDE DEF T
  <2> QED
    BY <1>1, SlabConstants, FS_Surjection
<1>3. \A S \in T : IsFiniteSet(S)
  <2>1. \A t \in Users : IsFiniteSet(StepsOf(t, f[t]))
    BY StepsOfFinite
  <2> QED
    BY <2>1
<1>4. IsFiniteSet(UNION T)
  <2> HIDE DEF T
  <2> QED
    BY <1>2, <1>3, FS_UNION
<1>5. \A x \in AllSteps(f) : StepW(a)[x] \in Nat
  BY StepsOfFinite DEF AllSteps
<1> QED
  BY <1>4, <1>5, LaidFinite DEF AllSteps, StepSum

LEMMA StepsChange ==
  ASSUME NEW f \in [Users -> Seq(Steps)], NEW t \in Users, NEW l \in Seq(Steps), NEW a
  PROVE  StepSum(a, [f EXCEPT ![t] = l])
            = (StepSum(a, f) - ListWorth(a, t, f[t])) + ListWorth(a, t, l)
<1> DEFINE g == [f EXCEPT ![t] = l]
           R == UNION {StepsOf(u, f[u]) : u \in Users \ {t}}
           A == StepsOf(t, f[t])
           B == StepsOf(t, l)
<1>1. g \in [Users -> Seq(Steps)] /\ g[t] = l /\ \A u \in Users \ {t} : g[u] = f[u]
  OBVIOUS
<1> HIDE DEF g
<1>2. AllSteps(f) = R \cup A /\ AllSteps(g) = R \cup B
  BY <1>1 DEF AllSteps
<1>3. IsFiniteSet(R)
  <2>1. IsFiniteSet(AllSteps(f)) /\ R \subseteq AllSteps(f)
    BY <1>2, AllStepsFinite
  <2> QED
    BY <2>1, FS_Subset
<1>4. R \cap A = {} /\ R \cap B = {}
  BY DEF StepsOf
<1>5. IsFiniteSet(A) /\ IsFiniteSet(B)
  BY StepsOfFinite
<1>6. \A x \in R \cup A \cup B : StepW(a)[x] \in Nat
  <2>1. \A u \in Users : \A x \in StepsOf(u, f[u]) : StepW(a)[x] \in Nat
    BY StepsOfFinite
  <2>2. \A x \in StepsOf(t, l) : StepW(a)[x] \in Nat
    BY StepsOfFinite
  <2> QED
    BY <2>1, <2>2
<1> HIDE DEF R, A, B
<1>7. SumOf(StepW(a), R \cup B) = (SumOf(StepW(a), R \cup A) - SumOf(StepW(a), A)) + SumOf(StepW(a), B)
  BY <1>3, <1>4, <1>5, <1>6, SumExchange
<1> QED
  BY <1>2, <1>7 DEF StepSum, ListWorth, g, A, B

LEMMA ListWorthType ==
  ASSUME NEW t \in Users, NEW l \in Seq(Steps), NEW a
  PROVE  ListWorth(a, t, l) \in Nat
BY StepsOfFinite, LaidFinite DEF ListWorth

LEMMA ListOfNone ==
  ASSUME NEW t \in Users, NEW a
  PROVE  ListWorth(a, t, <<>>) = 0
<1>1. StepsOf(t, <<>>) = {}
  BY DEF StepsOf
<1> QED
  BY <1>1, SumOfNone DEF ListWorth

LEMMA ListOfMore ==
  ASSUME NEW t \in Users, NEW x \in Steps, NEW l \in Seq(Steps), NEW a
  PROVE  /\ ListWorth(a, t, <<x>> \o l) = StepWorth(a, x) + ListWorth(a, t, l)
         /\ ListWorth(a, t, l) \in Nat /\ StepWorth(a, x) \in Nat
<1> DEFINE m == <<x>> \o l
           y == <<t, Len(l), x>>
<1>1. Len(l) \in Nat /\ m \in Seq(Steps) /\ Len(m) = Len(l) + 1 /\ m[1] = x
      /\ \A i \in 1..Len(l) : m[i + 1] = l[i]
  OBVIOUS
<1> HIDE DEF m
<1>2. StepsOf(t, m) = StepsOf(t, l) \cup {y}
  <2>1. 0..(Len(m) - 1) = (0..(Len(l) - 1)) \cup {Len(l)}
    BY <1>1
  <2>2. m[Len(m) - Len(l)] = x
    BY <1>1
  <2>3. \A i \in 0..(Len(l) - 1) : m[Len(m) - i] = l[Len(l) - i]
    <3> TAKE i \in 0..(Len(l) - 1)
    <3>1. Len(l) - i \in 1..Len(l) /\ Len(m) - i = (Len(l) - i) + 1
      BY <1>1
    <3> QED
      BY <1>1, <3>1
  <2> QED
    BY <2>1, <2>2, <2>3 DEF StepsOf
<1>3. y \notin StepsOf(t, l)
  BY <1>1 DEF StepsOf
<1>4. y \in Users \X Nat \X Steps
  BY <1>1
<1>5. StepW(a)[y] = StepWorth(a, x) /\ StepWorth(a, x) \in Nat
  BY <1>4, StepWorthType DEF StepW
<1>6. IsFiniteSet(StepsOf(t, l)) /\ \A z \in StepsOf(t, l) : StepW(a)[z] \in Nat
  BY StepsOfFinite
<1> HIDE DEF y
<1>7. /\ SumOf(StepW(a), StepsOf(t, l) \cup {y})
           = SumOf(StepW(a), StepsOf(t, l)) + SumOf(StepW(a), {y})
      /\ SumOf(StepW(a), StepsOf(t, l)) \in Nat
  <2>1. StepsOf(t, l) \cap {y} = {} /\ IsFiniteSet({y})
    BY <1>3, FS_Singleton
  <2> QED
    BY <2>1, <1>5, <1>6, SumOfBoth
<1>8. SumOf(StepW(a), {y}) = StepWorth(a, x)
  BY <1>5, SumOfOne
<1>9. ListWorth(a, t, m) = StepWorth(a, x) + ListWorth(a, t, l) /\ ListWorth(a, t, l) \in Nat
  BY <1>2, <1>5, <1>7, <1>8 DEF ListWorth
<1> QED
  BY <1>5, <1>9 DEF m

LEMMA BundleFacts ==
  ASSUME NEW b \in Bundles
  PROVE  /\ DOMAIN b \subseteq Whole /\ IsFiniteSet(DOMAIN b)
         /\ \A p \in DOMAIN b : b[p] \in Nat /\ b[p] > 0
         /\ b = [p \in DOMAIN b |-> b[p]]
<1>1. PICK S \in SUBSET Whole : b \in [S -> Nat \ {0}]
  BY DEF Bundles
<1> QED
  BY <1>1 DEF Bundles

LEMMA IsBundle ==
  ASSUME NEW D \in SUBSET Whole, IsFiniteSet(D), NEW b \in [D -> Nat \ {0}]
  PROVE  b \in Bundles
BY DEF Bundles

LEMMA QueueFinite ==
  ASSUME NEW k \in Slab!Stores, NEW h \in AllHomes, NEW b \in Bundles, NEW a
  PROVE  /\ IsFiniteSet(QueueOf(k, h, b))
         /\ \A x \in QueueOf(k, h, b) :
               /\ x \in Slab!Stores \X (AllHomes \X Nat) \X Plates
               /\ StoreW(a)[x] = StoreWorth(a, x[3]) /\ StoreW(a)[x] \in Nat
<1> DEFINE Row(p) == {<<k, <<h, i>>, p>> : i \in 1..b[p]}
           T == {Row(p) : p \in DOMAIN b}
<1>1. [p \in DOMAIN b |-> Row(p)] \in Surjection(DOMAIN b, T)
  BY DEF Surjection
<1>2. IsFiniteSet(T)
  <2> HIDE DEF T
  <2> QED
    BY <1>1, BundleFacts, FS_Surjection
<1>3. ASSUME NEW p \in DOMAIN b
      PROVE  IsFiniteSet(Row(p))
  <2>1. [i \in 1..b[p] |-> <<k, <<h, i>>, p>>] \in Surjection(1..b[p], Row(p))
    BY DEF Surjection
  <2>2. IsFiniteSet(1..b[p])
    BY BundleFacts, FS_Interval
  <2> HIDE DEF Row
  <2> QED
    BY <2>1, <2>2, FS_Surjection
<1>4. IsFiniteSet(UNION T)
  <2>1. \A S \in T : IsFiniteSet(S)
    BY <1>3
  <2> HIDE DEF T
  <2> QED
    BY <1>2, <2>1, FS_UNION
<1>5. ASSUME NEW p \in DOMAIN b, NEW i \in 1..b[p]
      PROVE  /\ <<k, <<h, i>>, p>> \in Slab!Stores \X (AllHomes \X Nat) \X Plates
             /\ StoreW(a)[<<k, <<h, i>>, p>>] = StoreWorth(a, p)
             /\ StoreW(a)[<<k, <<h, i>>, p>>] \in Nat
  <2>1. p \in Plates /\ b[p] \in Nat
    BY BundleFacts DEF Whole
  <2>2. <<k, <<h, i>>, p>> \in Slab!Stores \X (AllHomes \X Nat) \X Plates
    BY <2>1
  <2> QED
    BY <2>1, <2>2, StoreWorthType DEF StoreW
<1> QED
  BY <1>4, <1>5 DEF QueueOf

LEMMA UnionOfMore ==
  ASSUME NEW K, NEW F, NEW y \in K
  PROVE  UNION {F[x] : x \in K} = (UNION {F[x] : x \in K \ {y}}) \cup F[y]
<1>1. {F[x] : x \in K} = {F[x] : x \in K \ {y}} \cup {F[y]}
  OBVIOUS
<1> QED
  BY <1>1

Put(s, k, h, b) == [s EXCEPT ![k][h] = b]

LEMMA QueueChange ==
  ASSUME NEW s \in [Slab!Stores -> [AllHomes -> Bundles]], NEW k \in Slab!Stores,
         NEW h \in AllHomes, NEW b \in Bundles, NEW a
  PROVE  /\ StoreSum(a, Put(s, k, h, b))
               = (StoreSum(a, s) - QueueWorth(a, k, h, s[k][h])) + QueueWorth(a, k, h, b)
         /\ StoreSum(a, s) \in Nat
<1> DEFINE z == Put(s, k, h, b)
           K == Slab!Stores \X AllHomes
           E == K \ {<<k, h>>}
           F == [x \in K |-> QueueOf(x[1], x[2], s[x[1]][x[2]])]
           G == [x \in K |-> QueueOf(x[1], x[2], z[x[1]][x[2]])]
           R == UNION {F[x] : x \in E}
           A == QueueOf(k, h, s[k][h])
           B == QueueOf(k, h, b)
<1>1. z[k][h] = b /\ \A x \in E : z[x[1]][x[2]] = s[x[1]][x[2]]
  BY DEF Put
<1>2. \A x \in K : x[1] \in Slab!Stores /\ x[2] \in AllHomes /\ s[x[1]][x[2]] \in Bundles
  OBVIOUS
<1>3. <<k, h>> \in K
  OBVIOUS
<1> HIDE DEF z
<1>4. AllQueues(s) = UNION {F[x] : x \in K} /\ AllQueues(z) = UNION {G[x] : x \in K}
  BY DEF AllQueues
<1>5. F[<<k, h>>] = A /\ G[<<k, h>>] = B /\ \A x \in E : G[x] = F[x]
  BY <1>1
<1>6. IsFiniteSet(K)
  <2>1. IsFiniteSet(Slab!Stores)
    <3>1. Slab!Stores = {"full"} \cup {"partial"}
      BY DEF Slab!Stores
    <3> QED
      BY <3>1, FS_Singleton, FS_Union
  <2>2. IsFiniteSet(AllHomes)
    BY SlabConstants, FS_Interval
  <2> QED
    BY <2>1, <2>2, FS_Product
<1>7. \A x \in E : IsFiniteSet(F[x]) /\ \A y \in F[x] : StoreW(a)[y] \in Nat
  <2> SUFFICES ASSUME NEW x \in E
               PROVE  IsFiniteSet(F[x]) /\ \A y \in F[x] : StoreW(a)[y] \in Nat
    OBVIOUS
  <2>1. F[x] = QueueOf(x[1], x[2], s[x[1]][x[2]])
    OBVIOUS
  <2> HIDE DEF F
  <2> QED
    BY <2>1, <1>2, QueueFinite
<1>8. IsFiniteSet(A) /\ IsFiniteSet(B) /\ \A x \in A \cup B : StoreW(a)[x] \in Nat
  <2>1. s[k][h] \in Bundles
    OBVIOUS
  <2>2. IsFiniteSet(A) /\ \A x \in A : StoreW(a)[x] \in Nat
    BY <2>1, QueueFinite
  <2>3. IsFiniteSet(B) /\ \A x \in B : StoreW(a)[x] \in Nat
    BY QueueFinite
  <2> QED
    BY <2>2, <2>3
<1>9. R \cap A = {} /\ R \cap B = {}
  BY DEF QueueOf
<1> HIDE DEF F, G
<1>10. AllQueues(s) = R \cup A /\ AllQueues(z) = R \cup B
  <2>1. UNION {G[x] : x \in E} = R
    BY <1>5
  <2>2. UNION {F[x] : x \in K} = R \cup A
    <3> HIDE DEF K, A
    <3> QED
      BY <1>3, <1>5, UnionOfMore
  <2>3. UNION {G[x] : x \in K} = (UNION {G[x] : x \in E}) \cup B
    <3> HIDE DEF K, B
    <3> QED
      BY <1>3, <1>5, UnionOfMore
  <2> QED
    BY <1>4, <2>1, <2>2, <2>3
<1>11. IsFiniteSet(R)
  <2> DEFINE T == {F[x] : x \in E}
  <2>1. [x \in E |-> F[x]] \in Surjection(E, T)
    BY DEF Surjection
  <2>2. IsFiniteSet(E)
    BY <1>6, FS_Subset
  <2>3. IsFiniteSet(T)
    <3> HIDE DEF E, T
    <3> QED
      BY <2>1, <2>2, FS_Surjection
  <2>4. \A S \in T : IsFiniteSet(S)
    BY <1>7
  <2> HIDE DEF T
  <2>5. IsFiniteSet(UNION T)
    BY <2>3, <2>4, FS_UNION
  <2> QED
    BY <2>5 DEF T
<1>12. \A x \in R \cup A \cup B : StoreW(a)[x] \in Nat
  BY <1>7, <1>8
<1> HIDE DEF R, A, B, K, E, z
<1>13. /\ SumOf(StoreW(a), R \cup B) = (SumOf(StoreW(a), R \cup A) - SumOf(StoreW(a), A)) + SumOf(StoreW(a), B)
       /\ SumOf(StoreW(a), R \cup A) \in Nat
  <2> DEFINE W == StoreW(a)
  <2>1. \A x \in R \cup A \cup B : W[x] \in Nat
    BY <1>12
  <2> HIDE DEF W
  <2>2. /\ SumOf(W, R \cup B) = (SumOf(W, R \cup A) - SumOf(W, A)) + SumOf(W, B)
        /\ SumOf(W, R \cup A) \in Nat
    <3>1. IsFiniteSet(A) /\ IsFiniteSet(B)
      BY <1>8
    <3>2. SumOf(W, R \cup B) = (SumOf(W, R \cup A) - SumOf(W, A)) + SumOf(W, B)
      BY <1>9, <1>11, <2>1, <3>1, SumExchange
    <3>3. SumOf(W, R \cup A) \in Nat
      BY <1>9, <1>11, <2>1, <3>1, SumOfBoth, SumExchange
    <3> QED
      BY <3>2, <3>3
  <2> QED
    BY <2>2 DEF W
<1> QED
  BY <1>10, <1>13 DEF StoreSum, QueueWorth, z, A, B

\* One more plate in a queue.
LEMMA QueueGrows ==
  ASSUME NEW k \in Slab!Stores, NEW h \in AllHomes, NEW b \in Bundles, NEW c \in Bundles,
         NEW p \in Whole, NEW i \in Nat,
         QueueOf(k, h, c) = QueueOf(k, h, b) \cup {<<k, <<h, i>>, p>>},
         <<k, <<h, i>>, p>> \notin QueueOf(k, h, b), NEW a
  PROVE  /\ QueueWorth(a, k, h, c) = QueueWorth(a, k, h, b) + StoreWorth(a, p)
         /\ QueueWorth(a, k, h, b) \in Nat /\ StoreWorth(a, p) \in Nat
<1> DEFINE y == <<k, <<h, i>>, p>>
<1>1. y \in Slab!Stores \X (AllHomes \X Nat) \X Plates /\ p \in Plates
  BY DEF Whole
<1>2. StoreW(a)[y] = StoreWorth(a, p) /\ StoreWorth(a, p) \in Nat
  BY <1>1, StoreWorthType DEF StoreW
<1>3. IsFiniteSet(QueueOf(k, h, b)) /\ \A x \in QueueOf(k, h, b) : StoreW(a)[x] \in Nat
  BY QueueFinite
<1> HIDE DEF y
<1>4. QueueOf(k, h, b) \cap {y} = {} /\ IsFiniteSet({y}) /\ QueueOf(k, h, c) = QueueOf(k, h, b) \cup {y}
  BY FS_Singleton DEF y
<1>5. /\ SumOf(StoreW(a), QueueOf(k, h, b) \cup {y})
           = SumOf(StoreW(a), QueueOf(k, h, b)) + SumOf(StoreW(a), {y})
      /\ SumOf(StoreW(a), QueueOf(k, h, b)) \in Nat
  BY <1>2, <1>3, <1>4, SumOfBoth, Zenon
<1>6. SumOf(StoreW(a), {y}) = StoreWorth(a, p)
  BY <1>2, SumOfOne
<1> QED
  BY <1>2, <1>4, <1>5, <1>6 DEF QueueWorth

LEMMA QueueAdded ==
  ASSUME NEW k \in Slab!Stores, NEW h \in AllHomes, NEW b \in Bundles, NEW p \in Whole, NEW a
  PROVE  /\ Slab!Adding(b, p) \in Bundles /\ \A e \in DOMAIN Slab!Adding(b, p) : e \in DOMAIN b \/ e = p
         /\ QueueWorth(a, k, h, Slab!Adding(b, p)) = QueueWorth(a, k, h, b) + StoreWorth(a, p)
         /\ QueueWorth(a, k, h, b) \in Nat /\ StoreWorth(a, p) \in Nat
<1> DEFINE c == Slab!Adding(b, p)
           n == IF p \in DOMAIN b THEN b[p] ELSE 0
<1>1. /\ c = [e \in DOMAIN b \cup {p} |-> IF e = p THEN n + 1 ELSE b[e]]
      /\ n \in Nat
  BY BundleFacts DEF Slab!Adding
<1>2. c \in [DOMAIN b \cup {p} -> Nat \ {0}] /\ DOMAIN c = DOMAIN b \cup {p}
      /\ c[p] = n + 1 /\ \A e \in DOMAIN b : e # p => c[e] = b[e]
  <2>1. \A e \in DOMAIN b : b[e] \in Nat \ {0}
    BY BundleFacts
  <2>2. n + 1 \in Nat \ {0}
    BY <1>1
  <2> HIDE DEF c, n
  <2> QED
    BY <1>1, <2>1, <2>2
<1>3. p \in DOMAIN b => b[p] = n
  OBVIOUS
<1>4. p \notin DOMAIN b => n = 0
  OBVIOUS
<1> HIDE DEF c, n
<1>5. c \in Bundles
  <2>1. DOMAIN b \in SUBSET Whole /\ IsFiniteSet(DOMAIN b)
    BY BundleFacts
  <2>2. IsFiniteSet(DOMAIN b \cup {p})
    BY <2>1, FS_AddElement
  <2>3. DOMAIN b \cup {p} \in SUBSET Whole
    BY <2>1
  <2> QED
    BY ONLY <1>2, <2>2, <2>3, IsBundle, Zenon
<1>6. QueueOf(k, h, c) = QueueOf(k, h, b) \cup {<<k, <<h, n + 1>>, p>>}
  <2>1. 1..(n + 1) = (1..n) \cup {n + 1}
    BY <1>1
  <2> QED
    BY <1>1, <1>2, <1>3, <1>4, <2>1 DEF QueueOf
<1>7. <<k, <<h, n + 1>>, p>> \notin QueueOf(k, h, b)
  BY <1>1, <1>3, <1>4 DEF QueueOf
<1>8. n + 1 \in Nat
  BY <1>1
<1>9. /\ QueueWorth(a, k, h, c) = QueueWorth(a, k, h, b) + StoreWorth(a, p)
      /\ QueueWorth(a, k, h, b) \in Nat /\ StoreWorth(a, p) \in Nat
  BY <1>5, <1>6, <1>7, <1>8, QueueGrows
<1> QED
  BY <1>2, <1>5, <1>9 DEF c

LEMMA QueueRemoved ==
  ASSUME NEW k \in Slab!Stores, NEW h \in AllHomes, NEW b \in Bundles, NEW p \in DOMAIN b, NEW a
  PROVE  /\ Slab!Removing(b, p) \in Bundles /\ DOMAIN Slab!Removing(b, p) \subseteq DOMAIN b
         /\ QueueWorth(a, k, h, b) = QueueWorth(a, k, h, Slab!Removing(b, p)) + StoreWorth(a, p)
         /\ QueueWorth(a, k, h, Slab!Removing(b, p)) \in Nat /\ StoreWorth(a, p) \in Nat
<1> DEFINE c == Slab!Removing(b, p)
           n == b[p]
           D == IF n = 1 THEN DOMAIN b \ {p} ELSE DOMAIN b
<1>1. n \in Nat /\ n > 0 /\ p \in Whole
  BY BundleFacts
<1>2. c = [e \in D |-> IF e = p THEN n - 1 ELSE b[e]]
  <2>1. CASE n = 1
    BY <2>1 DEF Slab!Removing
  <2>2. CASE n # 1
    BY <2>2 DEF Slab!Removing
  <2> QED
    BY <2>1, <2>2
<1>3. D \subseteq DOMAIN b /\ (\A e \in DOMAIN b : e # p => e \in D) /\ (p \in D <=> n # 1)
  OBVIOUS
<1> HIDE DEF c, D
<1>4. c \in [D -> Nat \ {0}] /\ DOMAIN c = D /\ (\A e \in D : e # p => c[e] = b[e])
      /\ (p \in D => c[p] = n - 1)
  BY <1>1, <1>2, <1>3, BundleFacts
<1>5. c \in Bundles
  <2>1. IsFiniteSet(D) /\ D \in SUBSET Whole
    BY <1>3, BundleFacts, FS_Subset
  <2> QED
    BY <1>4, <2>1, IsBundle
<1>6. QueueOf(k, h, b) = QueueOf(k, h, c) \cup {<<k, <<h, n>>, p>>}
  <2>1. 1..n = (1..(n - 1)) \cup {n}
    BY <1>1
  <2>2. n = 1 => 1..(n - 1) = {}
    OBVIOUS
  <2> HIDE DEF n
  <2>3. ASSUME NEW x \in QueueOf(k, h, b)
        PROVE  x \in QueueOf(k, h, c) \cup {<<k, <<h, n>>, p>>}
    <3>1. PICK e \in DOMAIN b : \E i \in 1..b[e] : x = <<k, <<h, i>>, e>>
      BY DEF QueueOf
    <3>2. PICK i \in 1..b[e] : x = <<k, <<h, i>>, e>>
      BY <3>1
    <3>3. CASE e # p
      BY <3>2, <3>3, <1>3, <1>4 DEF QueueOf
    <3>4. CASE e = p
      <4>1. i \in 1..(n - 1) \/ i = n
        BY <3>4, <2>1 DEF n
      <4> QED
        BY <4>1, <3>2, <3>4, <1>3, <1>4, <2>2 DEF QueueOf
    <3> QED
      BY <3>3, <3>4
  <2>4. ASSUME NEW x \in QueueOf(k, h, c)
        PROVE  x \in QueueOf(k, h, b)
    <3>1. PICK e \in D : \E i \in 1..c[e] : x = <<k, <<h, i>>, e>>
      BY <1>4 DEF QueueOf
    <3>2. PICK i \in 1..c[e] : x = <<k, <<h, i>>, e>>
      BY <3>1
    <3>3. e \in DOMAIN b /\ i \in 1..b[e]
      <4>1. CASE e # p
        BY <4>1, <1>3, <1>4
      <4>2. CASE e = p
        BY <4>2, <1>1, <1>3, <1>4 DEF n
      <4> QED
        BY <4>1, <4>2
    <3> QED
      BY <3>2, <3>3 DEF QueueOf
  <2>5. <<k, <<h, n>>, p>> \in QueueOf(k, h, b)
    BY <1>1 DEF QueueOf, n
  <2> QED
    BY <2>3, <2>4, <2>5
<1>7. <<k, <<h, n>>, p>> \notin QueueOf(k, h, c)
  <2> HIDE DEF n
  <2>1. p \in D => n \notin 1..c[p]
    BY <1>1, <1>4
  <2> QED
    BY <2>1, <1>4 DEF QueueOf
<1> HIDE DEF n
<1>8. /\ QueueWorth(a, k, h, b) = QueueWorth(a, k, h, c) + StoreWorth(a, p)
      /\ QueueWorth(a, k, h, c) \in Nat /\ StoreWorth(a, p) \in Nat
  BY <1>1, <1>5, <1>6, <1>7, QueueGrows
<1> QED
  BY <1>3, <1>4, <1>5, <1>8 DEF c

-----------------------------------------------------------------------------
(* A step of a thread. *)

LEMMA StepsAssociate ==
  ASSUME NEW k \in Seq(Steps), NEW l \in Seq(Steps), NEW m \in Seq(Steps)
  PROVE  (k \o l) \o m = k \o (l \o m)
BY ConcatAssociative

LEMMA ErrandsAreSteps ==
  Errands \subseteq Steps /\ Seq(Errands) \subseteq Seq(Steps)
<1>1. Errands \subseteq Steps
  BY DEF Steps
<1>2. ASSUME NEW e \in Seq(Errands)
      PROVE  e \in Seq(Steps)
  <2>1. Len(e) \in Nat /\ e \in [1..Len(e) -> Errands]
    BY SeqDef, LenProperties
  <2>2. e \in [1..Len(e) -> Steps]
    BY <1>1, <2>1
  <2> QED
    BY <2>1, <2>2, SeqDef
<1> QED
  BY <1>1, <1>2

LEMMA KnownTypes ==
  ASSUME NEW n, NEW s, NEW c, NEW h, NEW d, NEW q, NEW l, Known(n, s, c, h, d, q, l)
  PROVE  /\ n \in Carried /\ s \in Carried /\ q \in Carried
         /\ c \in Nat /\ h \in AllHomes \cup {None} /\ d \in BOOLEAN /\ l \in Seq(Steps)
<1>1. Keeps(n, s, c, h, d, q)
  BY DEF Known
<1>2. n \in Carried /\ s \in Carried /\ q \in Carried
      /\ h \in AllHomes \cup {None} /\ d \in BOOLEAN
  BY <1>1 DEF Keeps, Whole, Carried
<1>3. c \in Nat
  BY <1>1 DEF Keeps, Plates
<1>4. l \in Seq(Steps)
  BY ErrandsAreSteps DEF Known
<1> QED
  BY <1>2, <1>3, <1>4

LEMMA Moves ==
  ASSUME ThreadTypes, ThreadsKnown, NEW t \in Users,
         NEW n, NEW s, NEW c, NEW h, NEW d, NEW q, NEW l,
         Becomes(t, n, s, c, h, d, q, l), Known(n, s, c, h, d, q, l)
  PROVE  /\ ThreadTypes' /\ ThreadsKnown'
         /\ \A a : /\ Loose(a)' = (Loose(a) - Mine(a, t, node[t], secondary[t], plate[t], todo[t]))
                                   + Mine(a, t, n, s, q, l)
                   /\ Loose(a) \in Nat
<1>1. /\ n \in Carried /\ s \in Carried /\ q \in Carried
      /\ c \in Nat /\ h \in AllHomes \cup {None} /\ d \in BOOLEAN /\ l \in Seq(Steps)
  BY KnownTypes
<1>2. ThreadTypes'
  BY <1>1 DEF ThreadTypes, Becomes
<1>3. ThreadsKnown'
  <2> SUFFICES ASSUME NEW u \in Users
               PROVE  Known(node'[u], secondary'[u], cursor'[u], home'[u], disabled'[u], plate'[u], todo'[u])
    BY DEF ThreadsKnown
  <2>1. CASE u = t
    <3>1. node'[u] = n /\ secondary'[u] = s /\ cursor'[u] = c /\ home'[u] = h /\ disabled'[u] = d
          /\ plate'[u] = q /\ todo'[u] = l
      BY <2>1 DEF ThreadTypes, Becomes
    <3> QED
      BY <3>1
  <2>2. CASE u # t
    <3>1. node'[u] = node[u] /\ secondary'[u] = secondary[u] /\ cursor'[u] = cursor[u]
          /\ home'[u] = home[u] /\ disabled'[u] = disabled[u]
          /\ plate'[u] = plate[u] /\ todo'[u] = todo[u]
      BY <2>2 DEF ThreadTypes, Becomes
    <3> QED
      BY <3>1 DEF ThreadsKnown
  <2> QED
    BY <2>1, <2>2
<1>4. ASSUME NEW a
      PROVE  /\ Loose(a)' = (Loose(a) - Mine(a, t, node[t], secondary[t], plate[t], todo[t]))
                                   + Mine(a, t, n, s, q, l)
             /\ Loose(a) \in Nat
  <2>1. /\ HandSum(a, "active", node')
             = (HandSum(a, "active", node) - HandWorth(a, node[t])) + HandWorth(a, n)
        /\ HandSum(a, "active", node) \in Nat
    <3>1. node \in [Users -> Carried] /\ "active" \in HandPlaces
      BY DEF ThreadTypes, HandPlaces
    <3>2. node' = [node EXCEPT ![t] = n] /\ n \in Carried
      BY <1>1 DEF Becomes
    <3>3. ASSUME NEW w \in HandPlaces
          PROVE  /\ HandSum(a, w, node')
                       = (HandSum(a, w, node) - HandWorth(a, node[t])) + HandWorth(a, n)
                 /\ HandSum(a, w, node) \in Nat
      <4>1. t \in Users /\ n \in Carried /\ node \in [Users -> Carried] /\ w \in HandPlaces
        BY <3>1, <3>2, <3>3
      <4>2. /\ HandSum(a, w, [node EXCEPT ![t] = n])
                  = (HandSum(a, w, node) - HandWorth(a, node[t])) + HandWorth(a, n)
            /\ HandSum(a, w, node) \in Nat
        BY ONLY <4>1, HandsChange, Zenon
      <4> QED
        BY ONLY <4>2, <3>2, Zenon
    <3> QED
      BY <3>1, <3>3
  <2>2. /\ HandSum(a, "secondary", secondary')
             = (HandSum(a, "secondary", secondary) - HandWorth(a, secondary[t])) + HandWorth(a, s)
        /\ HandSum(a, "secondary", secondary) \in Nat
    <3>1. secondary \in [Users -> Carried] /\ "secondary" \in HandPlaces
      BY DEF ThreadTypes, HandPlaces
    <3>2. secondary' = [secondary EXCEPT ![t] = s] /\ s \in Carried
      BY <1>1 DEF Becomes
    <3>3. ASSUME NEW w \in HandPlaces
          PROVE  /\ HandSum(a, w, secondary')
                       = (HandSum(a, w, secondary) - HandWorth(a, secondary[t])) + HandWorth(a, s)
                 /\ HandSum(a, w, secondary) \in Nat
      <4>1. t \in Users /\ s \in Carried /\ secondary \in [Users -> Carried] /\ w \in HandPlaces
        BY <3>1, <3>2, <3>3
      <4>2. /\ HandSum(a, w, [secondary EXCEPT ![t] = s])
                  = (HandSum(a, w, secondary) - HandWorth(a, secondary[t])) + HandWorth(a, s)
            /\ HandSum(a, w, secondary) \in Nat
        BY ONLY <4>1, HandsChange, Zenon
      <4> QED
        BY ONLY <4>2, <3>2, Zenon
    <3> QED
      BY <3>1, <3>3
  <2>3. /\ HandSum(a, "plate", plate')
             = (HandSum(a, "plate", plate) - HandWorth(a, plate[t])) + HandWorth(a, q)
        /\ HandSum(a, "plate", plate) \in Nat
    <3>1. plate \in [Users -> Carried] /\ "plate" \in HandPlaces
      BY DEF ThreadTypes, HandPlaces
    <3>2. plate' = [plate EXCEPT ![t] = q] /\ q \in Carried
      BY <1>1 DEF Becomes
    <3>3. ASSUME NEW w \in HandPlaces
          PROVE  /\ HandSum(a, w, plate')
                       = (HandSum(a, w, plate) - HandWorth(a, plate[t])) + HandWorth(a, q)
                 /\ HandSum(a, w, plate) \in Nat
      <4>1. t \in Users /\ q \in Carried /\ plate \in [Users -> Carried] /\ w \in HandPlaces
        BY <3>1, <3>2, <3>3
      <4>2. /\ HandSum(a, w, [plate EXCEPT ![t] = q])
                  = (HandSum(a, w, plate) - HandWorth(a, plate[t])) + HandWorth(a, q)
            /\ HandSum(a, w, plate) \in Nat
        BY ONLY <4>1, HandsChange, Zenon
      <4> QED
        BY ONLY <4>2, <3>2, Zenon
    <3> QED
      BY <3>1, <3>3
  <2>4. /\ StepSum(a, todo') = (StepSum(a, todo) - ListWorth(a, t, todo[t])) + ListWorth(a, t, l)
        /\ StepSum(a, todo) \in Nat
    BY <1>1, StepsChange, AllStepsFinite, Zenon DEF ThreadTypes, Becomes
  <2>5. /\ HandWorth(a, node[t]) \in Nat /\ HandWorth(a, secondary[t]) \in Nat
        /\ HandWorth(a, plate[t]) \in Nat /\ ListWorth(a, t, todo[t]) \in Nat
    BY HandWorthType, ListWorthType DEF ThreadTypes
  <2>6. HandWorth(a, n) \in Nat /\ HandWorth(a, s) \in Nat /\ HandWorth(a, q) \in Nat
        /\ ListWorth(a, t, l) \in Nat
    BY <1>1, HandWorthType, ListWorthType
  <2>7. Loose(a)' = HandSum(a, "active", node') + HandSum(a, "secondary", secondary')
                       + HandSum(a, "plate", plate') + StepSum(a, todo')
    BY DEF Loose
  <2> QED
    BY <2>1, <2>2, <2>3, <2>4, <2>5, <2>6, <2>7 DEF Loose, Mine
<1> QED
  BY <1>2, <1>3, <1>4

LEMMA Stay ==
  ASSUME ThreadTypes, NEW t \in Users
  PROVE  /\ node = [node EXCEPT ![t] = node[t]] /\ secondary = [secondary EXCEPT ![t] = secondary[t]]
         /\ cursor = [cursor EXCEPT ![t] = cursor[t]] /\ home = [home EXCEPT ![t] = home[t]]
         /\ disabled = [disabled EXCEPT ![t] = disabled[t]] /\ plate = [plate EXCEPT ![t] = plate[t]]
         /\ todo = [todo EXCEPT ![t] = todo[t]]
BY DEF ThreadTypes

ErrandNames == {"pushEmpty", "drain", "release", "reserve", "push", "repay"}

LEMMA NamesOfSteps ==
  /\ \A x \in Errands : x.do \in ErrandNames
  /\ \A x \in Seekers : x.do \in {"popEmpty", "mapPlates", "seekFull", "seekPartial", "fill", "refill",
                                  "install", "direct"}
  /\ \A x \in Bearers : x.do \in {"gotActive", "gotEmpty", "failed", "makeRoom", "place"}
  /\ \A x \in HolderSteps : x.do = "gotSecondary"
BY DEF Errands, Seekers, Bearers, HolderSteps, ErrandNames

LEMMA AfterErrandsBegins ==
  ASSUME NEW r, NEW n, NEW s, NEW h, NEW d, NEW q, AfterErrands(r, n, s, h, d, q), r # <<>>
  PROVE  Head(r) \in Seekers \cup Bearers \cup HolderSteps
BY DEF AfterErrands, Seekers, Slab!Do

\* The first step is an errand, whatever the call is about ...
LEMMA ErrandFirst ==
  ASSUME NEW n, NEW s, NEW c, NEW h, NEW d, NEW q, NEW l, Known(n, s, c, h, d, q, l),
         l # <<>>, Head(l).do \in ErrandNames
  PROVE  /\ Head(l) \in Errands /\ Tail(l) \in Seq(Steps) /\ l = <<Head(l)>> \o Tail(l)
         /\ \A e \in Seq(Errands) : Known(n, s, c, h, d, q, e \o Tail(l))
<1>1. PICK e \in Seq(Errands), r \in Seq(Steps) : l = e \o r /\ AfterErrands(r, n, s, h, d, q)
  BY DEF Known
<1>2. e # <<>>
  <2> SUFFICES ASSUME e = <<>>
               PROVE  FALSE
    OBVIOUS
  <2>1. l = r
    BY <1>1
  <2> QED
    BY <2>1, <1>1, AfterErrandsBegins, NamesOfSteps DEF ErrandNames
<1>3. Head(l) = Head(e) /\ Tail(l) = Tail(e) \o r /\ Head(e) \in Errands /\ Tail(e) \in Seq(Errands)
  BY <1>1, <1>2
<1>4. l \in Seq(Steps)
  BY KnownTypes
<1>5. ASSUME NEW f \in Seq(Errands)
      PROVE  Known(n, s, c, h, d, q, f \o Tail(l))
  <2>1. f \o Tail(l) = (f \o Tail(e)) \o r /\ f \o Tail(e) \in Seq(Errands)
    <3>1. f \o Tail(e) \in Seq(Errands) /\ Tail(e) \in Seq(Steps) /\ f \in Seq(Steps)
      BY <1>3, ErrandsAreSteps
    <3>2. (f \o Tail(e)) \o r = f \o (Tail(e) \o r)
      BY ONLY <1>1, <3>1, StepsAssociate, Zenon
    <3> QED
      BY <1>3, <3>1, <3>2
  <2> QED
    BY <1>1, <2>1 DEF Known
<1> QED
  BY <1>3, <1>4, <1>5

\* ... or the call goes on.
LEMMA CallFirst ==
  ASSUME NEW n, NEW s, NEW c, NEW h, NEW d, NEW q, NEW l, Known(n, s, c, h, d, q, l),
         l # <<>> => Head(l).do \notin ErrandNames
  PROVE  Keeps(n, s, c, h, d, q) /\ AfterErrands(l, n, s, h, d, q) /\ l \in Seq(Steps)
<1>1. PICK e \in Seq(Errands), r \in Seq(Steps) : l = e \o r /\ AfterErrands(r, n, s, h, d, q)
  BY DEF Known
<1>2. e = <<>>
  <2> SUFFICES ASSUME e # <<>>
               PROVE  FALSE
    OBVIOUS
  <2>1. l # <<>> /\ Head(l) = Head(e) /\ Head(e) \in Errands
    BY <1>1
  <2> QED
    BY <2>1, NamesOfSteps
<1>3. l = r
  BY <1>1, <1>2
<1> QED
  BY <1>1, <1>3, KnownTypes DEF Known

LEMMA IsKnown ==
  ASSUME NEW n, NEW s, NEW c, NEW h, NEW d, NEW q, Keeps(n, s, c, h, d, q),
         NEW e \in Seq(Errands), NEW r \in Seq(Steps), AfterErrands(r, n, s, h, d, q)
  PROVE  Known(n, s, c, h, d, q, e \o r)
BY DEF Known

LEMMA IsKnownAtOnce ==
  ASSUME NEW n, NEW s, NEW c, NEW h, NEW d, NEW q, Keeps(n, s, c, h, d, q),
         NEW r \in Seq(Steps), AfterErrands(r, n, s, h, d, q)
  PROVE  Known(n, s, c, h, d, q, r)
<1>1. <<>> \in Seq(Errands) /\ r = <<>> \o r
  OBVIOUS
<1> QED
  BY <1>1 DEF Known

-----------------------------------------------------------------------------
(* What plates and steps are worth. *)

LEMMA PlateFacts ==
  ASSUME NEW p \in Plates
  PROVE  /\ p.of \in Mappings /\ p.entries \in Seq(AllHomes) /\ p.used \in Nat
         /\ p = [of |-> p.of, entries |-> p.entries, used |-> p.used]
         /\ Len(p.entries) \in Nat /\ Len(p.entries) <= Capacity /\ p # None
BY SlabConstants DEF Plates

LEMMA NothingInHand ==
  \A a : HandWorth(a, None) = 0
BY DEF HandWorth

LEMMA InHand ==
  ASSUME NEW p \in Plates
  PROVE  /\ \A m : HandWorth(PlatesOf(m), p) = IF p.of = m THEN 1 ELSE 0
         /\ HandWorth(Entries, p) = Len(p.entries) /\ HandWorth(Returning, p) = 0
         /\ \A h : HandWorth(CreditOf(h), p) = 0
BY PlateFacts DEF HandWorth, PlatesOf, Entries, Returning, CreditOf

LEMMA InQueue ==
  ASSUME NEW p \in Plates
  PROVE  /\ \A m : StoreWorth(PlatesOf(m), p) = IF p.of = m THEN 1 ELSE 0
         /\ StoreWorth(Entries, p) = Len(p.entries) /\ StoreWorth(Returning, p) = 0
         /\ \A h : StoreWorth(CreditOf(h), p) = IF p.entries[1] = h THEN Len(p.entries) ELSE 0
BY InHand DEF StoreWorth, PlatesOf, Entries, Returning, CreditOf

LEMMA SeekerIsNothing ==
  ASSUME NEW x \in Seekers, NEW a
  PROVE  StepWorth(a, x) = 0
<1>1. x \notin Bearers \cup HolderSteps
  BY NamesOfSteps
<1> QED
  BY <1>1 DEF StepWorth, Seekers, Carriers

LEMMA ErrandIsPlate ==
  ASSUME NEW x \in Errands, x.do # "repay"
  PROVE  /\ x.on \in Whole
         /\ \A m : StepWorth(PlatesOf(m), x) = IF x.on.of = m THEN 1 ELSE 0
         /\ StepWorth(Entries, x) = Len(x.on.entries) /\ StepWorth(Returning, x) = 0
         /\ \A h : StepWorth(CreditOf(h), x)
                      = IF x.do = "push" /\ x.on.entries[1] = h THEN Len(x.on.entries) ELSE 0
<1>1. x.on \in Whole /\ x.do \in Carriers
  BY DEF Errands, Carriers, Bare
<1>2. x.on \in Plates /\ x.on.used = Len(x.on.entries)
  BY <1>1 DEF Whole
<1>3. x \notin Bearers \cup HolderSteps
  BY NamesOfSteps DEF ErrandNames
<1> QED
  BY <1>1, <1>2, <1>3, InHand DEF StepWorth, PlatesOf, Entries, Returning, CreditOf

LEMMA RepaymentIsCredit ==
  ASSUME NEW x \in Errands, x.do = "repay"
  PROVE  /\ x.home \in AllHomes /\ x.bytes \in Nat
         /\ \A m : StepWorth(PlatesOf(m), x) = 0
         /\ StepWorth(Entries, x) = 0 /\ StepWorth(Returning, x) = 0
         /\ \A h : StepWorth(CreditOf(h), x) = IF x.home = h THEN x.bytes ELSE 0
<1>1. x.home \in AllHomes /\ x.bytes \in Nat /\ x.do \notin Carriers
  BY DEF Errands, Carriers
<1>2. x \notin Bearers \cup HolderSteps
  BY NamesOfSteps DEF ErrandNames
<1> QED
  BY <1>1, <1>2 DEF StepWorth, PlatesOf, Entries, Returning, CreditOf

LEMMA Pairs ==
  ASSUME NEW S, NEW x \in S, NEW y \in S
  PROVE  <<x>> \o <<y>> = <<x, y>> /\ <<x>> \in Seq(S) /\ <<y>> \in Seq(S) /\ <<x, y>> \in Seq(S)
<1> DEFINE s == <<x>> \o <<y>>
           p == <<x, y>>
<1>1. <<x>> \in Seq(S) /\ <<y>> \in Seq(S) /\ p \in Seq(S) /\ Len(p) = 2
  OBVIOUS
<1>2. s \in Seq(S) /\ Len(s) = 2
  BY <1>1
<1>3. s[1] = x /\ s[2] = y /\ p[1] = x /\ p[2] = y
  BY <1>1
<1>4. \A i \in 1..Len(s) : s[i] = p[i]
  BY <1>2, <1>3
<1> HIDE DEF s, p
<1>5. s = p
  BY <1>1, <1>2, <1>4, SeqEqual
<1> QED
  BY <1>1, <1>5 DEF s, p

LEMMA Triples ==
  ASSUME NEW S, NEW x \in S, NEW y \in S, NEW z \in S
  PROVE  /\ <<x>> \o <<y, z>> = <<x, y, z>> /\ <<x, y>> \o <<z>> = <<x, y, z>>
         /\ <<x, y, z>> \in Seq(S)
<1> DEFINE s == <<x>> \o <<y, z>>
           w == <<x, y>> \o <<z>>
           p == <<x, y, z>>
<1>1. <<x>> \in Seq(S) /\ <<y, z>> \in Seq(S) /\ p \in Seq(S) /\ Len(p) = 3 /\ Len(<<y, z>>) = 2
  OBVIOUS
<1>2. s \in Seq(S) /\ Len(s) = 3
  BY <1>1
<1>3. s[1] = x /\ s[2] = y /\ s[3] = z /\ p[1] = x /\ p[2] = y /\ p[3] = z
  BY <1>1
<1>4. \A i \in 1..Len(s) : s[i] = p[i]
  BY <1>2, <1>3
<1>5. <<x, y>> \in Seq(S) /\ <<z>> \in Seq(S) /\ Len(<<x, y>>) = 2
  OBVIOUS
<1>6. w \in Seq(S) /\ Len(w) = 3
  BY <1>5
<1>7. w[1] = x /\ w[2] = y /\ w[3] = z
  BY <1>5
<1>8. \A i \in 1..Len(w) : w[i] = p[i]
  BY <1>3, <1>6, <1>7
<1> HIDE DEF s, w, p
<1>9. s = p
  BY <1>1, <1>2, <1>4, SeqEqual
<1>10. w = p
  BY <1>1, <1>6, <1>8, SeqEqual
<1> QED
  BY <1>1, <1>9, <1>10 DEF s, w, p

LEMMA ListsOfMore ==
  ASSUME NEW t \in Users, NEW l \in Seq(Steps), NEW a, NEW x \in Steps, NEW y \in Steps, NEW z \in Steps
  PROVE  /\ ListWorth(a, t, <<x>> \o l) = StepWorth(a, x) + ListWorth(a, t, l)
         /\ ListWorth(a, t, <<x, y>> \o l) = StepWorth(a, x) + (StepWorth(a, y) + ListWorth(a, t, l))
         /\ ListWorth(a, t, <<x, y, z>> \o l)
               = StepWorth(a, x) + (StepWorth(a, y) + (StepWorth(a, z) + ListWorth(a, t, l)))
<1> DEFINE m == <<z>> \o l
           k == <<y, z>> \o l
           j == <<y>> \o l
<1>1. /\ <<x>> \in Seq(Steps) /\ <<y>> \in Seq(Steps) /\ <<z>> \in Seq(Steps) /\ <<y, z>> \in Seq(Steps)
      /\ <<x>> \o <<y>> = <<x, y>> /\ <<y>> \o <<z>> = <<y, z>> /\ <<x>> \o <<y, z>> = <<x, y, z>>
  BY Pairs, Triples, Zenon
<1>2. m \in Seq(Steps) /\ k \in Seq(Steps) /\ j \in Seq(Steps)
  BY <1>1
<1>3. k = <<y>> \o m /\ <<x, y>> \o l = <<x>> \o j /\ <<x, y, z>> \o l = <<x>> \o k
  <2> DEFINE X == <<x>>
             Y == <<y>>
             Z == <<z>>
             YZ == <<y, z>>
  <2>1. X \in Seq(Steps) /\ Y \in Seq(Steps)
    BY <1>1
  <2>2. Z \in Seq(Steps) /\ YZ \in Seq(Steps)
    BY <1>1
  <2>3. X \o Y = <<x, y>> /\ Y \o Z = YZ /\ X \o YZ = <<x, y, z>>
    BY <1>1
  <2> HIDE DEF X, Y, Z, YZ
  <2>4. \A i, j1 \in Seq(Steps) : (i \o j1) \o l = i \o (j1 \o l)
    BY StepsAssociate, Zenon
  <2>5. (Y \o Z) \o l = Y \o (Z \o l)
    BY ONLY <2>1, <2>2, <2>4, Zenon
  <2>6. (X \o Y) \o l = X \o (Y \o l)
    BY ONLY <2>1, <2>4, Zenon
  <2>7. (X \o YZ) \o l = X \o (YZ \o l)
    BY ONLY <2>1, <2>2, <2>4, Zenon
  <2>8. YZ \o l = Y \o (Z \o l) /\ <<x, y>> \o l = X \o (Y \o l) /\ <<x, y, z>> \o l = X \o (YZ \o l)
    BY <2>3, <2>5, <2>6, <2>7
  <2> QED
    BY <2>8 DEF X, Y, Z, YZ
<1> HIDE DEF m, k, j
<1>4. ListWorth(a, t, <<x>> \o k) = StepWorth(a, x) + ListWorth(a, t, k)
      /\ ListWorth(a, t, <<y>> \o m) = StepWorth(a, y) + ListWorth(a, t, m)
      /\ ListWorth(a, t, <<x>> \o j) = StepWorth(a, x) + ListWorth(a, t, j)
  BY <1>2, ListOfMore
<1>5. ListWorth(a, t, m) = StepWorth(a, z) + ListWorth(a, t, l)
      /\ ListWorth(a, t, j) = StepWorth(a, y) + ListWorth(a, t, l)
      /\ ListWorth(a, t, <<x>> \o l) = StepWorth(a, x) + ListWorth(a, t, l)
  BY ListOfMore DEF m, j
<1> QED
  BY <1>3, <1>4, <1>5

\* What steps first in line add.
LEMMA AddedNone ==
  ASSUME NEW t \in Users, NEW l \in Seq(Steps), NEW a
  PROVE  Added(a, t, <<>>, l) = 0
<1>1. ListWorth(a, t, l) \in Nat /\ <<>> \o l = l
  BY ListWorthType
<1> QED
  BY <1>1 DEF Added

LEMMA AddedOne ==
  ASSUME NEW t \in Users, NEW l \in Seq(Steps), NEW a, NEW x \in Steps
  PROVE  Added(a, t, <<x>>, l) = StepWorth(a, x)
<1>1. /\ ListWorth(a, t, <<x>> \o l) = StepWorth(a, x) + ListWorth(a, t, l)
      /\ StepWorth(a, x) \in Nat /\ ListWorth(a, t, l) \in Nat
  BY ListOfMore
<1> QED
  BY <1>1 DEF Added

LEMMA AddedSteps ==
  ASSUME NEW t \in Users, NEW l \in Seq(Steps), NEW a,
         NEW x \in Steps, NEW y \in Steps, NEW z \in Steps
  PROVE  /\ Added(a, t, <<x, y>>, l) = StepWorth(a, x) + StepWorth(a, y)
         /\ Added(a, t, <<x, y, z>>, l) = StepWorth(a, x) + StepWorth(a, y) + StepWorth(a, z)
<1>1. StepWorth(a, x) \in Nat /\ StepWorth(a, y) \in Nat /\ StepWorth(a, z) \in Nat
  BY StepWorthType
<1>2. /\ ListWorth(a, t, <<x>> \o l) = StepWorth(a, x) + ListWorth(a, t, l)
      /\ ListWorth(a, t, <<x, y>> \o l) = StepWorth(a, x) + (StepWorth(a, y) + ListWorth(a, t, l))
      /\ ListWorth(a, t, <<x, y, z>> \o l)
            = StepWorth(a, x) + (StepWorth(a, y) + (StepWorth(a, z) + ListWorth(a, t, l)))
  BY ListsOfMore
<1>3. ListWorth(a, t, l) \in Nat
  BY ListWorthType
<1> QED
  BY <1>1, <1>2, <1>3 DEF Added

LEMMA AddedTwo ==
  ASSUME NEW t \in Users, NEW l \in Seq(Steps), NEW a, NEW x \in Steps, NEW y \in Steps
  PROVE  Added(a, t, <<x, y>>, l) = StepWorth(a, x) + StepWorth(a, y)
<1>1. /\ Added(a, t, <<x, y>>, l) = StepWorth(a, x) + StepWorth(a, y)
      /\ Added(a, t, <<x, y, x>>, l) = StepWorth(a, x) + StepWorth(a, y) + StepWorth(a, x)
  BY AddedSteps
<1> QED
  BY <1>1

LEMMA AddedThree ==
  ASSUME NEW t \in Users, NEW l \in Seq(Steps), NEW a,
         NEW x \in Steps, NEW y \in Steps, NEW z \in Steps
  PROVE  Added(a, t, <<x, y, z>>, l) = StepWorth(a, x) + StepWorth(a, y) + StepWorth(a, z)
<1>1. /\ Added(a, t, <<x, y>>, l) = StepWorth(a, x) + StepWorth(a, y)
      /\ Added(a, t, <<x, y, z>>, l) = StepWorth(a, x) + StepWorth(a, y) + StepWorth(a, z)
  BY AddedSteps
<1> QED
  BY <1>1

-----------------------------------------------------------------------------
(* An errand: the thread's own plates stay. *)

LEMMA ErrandMoves ==
  ASSUME ThreadTypes, ThreadsKnown, NEW t \in Users, todo[t] # <<>>,
         Head(todo[t]).do \in ErrandNames, NEW e \in Seq(Errands),
         todo' = [todo EXCEPT ![t] = e \o Tail(@)], UNCHANGED <<node, secondary, cursor>>,
         UNCHANGED <<home, disabled, plate>>
  PROVE  /\ Head(todo[t]) \in Errands /\ Tail(todo[t]) \in Seq(Steps)
         /\ ThreadTypes' /\ ThreadsKnown'
         /\ \A a : /\ Loose(a)' = (Loose(a) - StepWorth(a, Head(todo[t])))
                                     + Added(a, t, e, Tail(todo[t]))
                   /\ Loose(a) \in Nat /\ StepWorth(a, Head(todo[t])) \in Nat
<1> DEFINE x == Head(todo[t])
           r == Tail(todo[t])
<1>1. Known(node[t], secondary[t], cursor[t], home[t], disabled[t], plate[t], todo[t])
  BY DEF ThreadsKnown
<1>2. /\ x \in Errands /\ r \in Seq(Steps) /\ todo[t] = <<x>> \o r
      /\ Known(node[t], secondary[t], cursor[t], home[t], disabled[t], plate[t], e \o r)
  BY <1>1, ErrandFirst
<1>3. Becomes(t, node[t], secondary[t], cursor[t], home[t], disabled[t], plate[t], e \o r)
  BY Stay DEF Becomes
<1> HIDE DEF x, r
<1>4. /\ ThreadTypes' /\ ThreadsKnown'
      /\ \A a : /\ Loose(a)' = (Loose(a) - Mine(a, t, node[t], secondary[t], plate[t], todo[t]))
                                  + Mine(a, t, node[t], secondary[t], plate[t], e \o r)
                /\ Loose(a) \in Nat
  BY <1>2, <1>3, Moves
<1>5. e \o r \in Seq(Steps) /\ x \in Steps
  BY <1>2, ErrandsAreSteps
<1>6. ASSUME NEW a
      PROVE  /\ Loose(a)' = (Loose(a) - StepWorth(a, x)) + Added(a, t, e, r)
             /\ Loose(a) \in Nat /\ StepWorth(a, x) \in Nat
  <2>1. /\ ListWorth(a, t, todo[t]) = StepWorth(a, x) + ListWorth(a, t, r)
        /\ ListWorth(a, t, r) \in Nat /\ StepWorth(a, x) \in Nat
    BY <1>2, <1>5, ListOfMore
  <2>2. ListWorth(a, t, e \o r) \in Nat
    BY <1>5, ListWorthType
  <2>3. HandWorth(a, node[t]) \in Nat /\ HandWorth(a, secondary[t]) \in Nat /\ HandWorth(a, plate[t]) \in Nat
    BY HandWorthType DEF ThreadTypes
  <2>4. /\ Loose(a)' = (Loose(a) - Mine(a, t, node[t], secondary[t], plate[t], todo[t]))
                                  + Mine(a, t, node[t], secondary[t], plate[t], e \o r)
        /\ Loose(a) \in Nat
    BY <1>4
  <2> DEFINE H == HandWorth(a, node[t]) + HandWorth(a, secondary[t]) + HandWorth(a, plate[t])
             I == ListWorth(a, t, todo[t])
             J == ListWorth(a, t, e \o r)
             K == ListWorth(a, t, r)
  <2>5. /\ Mine(a, t, node[t], secondary[t], plate[t], todo[t]) = H + I
        /\ Mine(a, t, node[t], secondary[t], plate[t], e \o r) = H + J
        /\ Added(a, t, e, r) = J - K
    BY DEF Mine, Added
  <2>6. H \in Int /\ I = StepWorth(a, x) + K /\ J \in Int /\ K \in Int /\ StepWorth(a, x) \in Int
    BY <2>1, <2>2, <2>3
  <2> HIDE DEF H, I, J, K
  <2>7. Loose(a)' = (Loose(a) - (H + (StepWorth(a, x) + K))) + (H + J) /\ Loose(a) \in Int
    BY ONLY <2>4, <2>5, <2>6
  <2>8. (Loose(a) - (H + (StepWorth(a, x) + K))) + (H + J) = (Loose(a) - StepWorth(a, x)) + (J - K)
    <3>1. Loose(a) \in Int /\ H \in Int /\ J \in Int /\ K \in Int /\ StepWorth(a, x) \in Int
      BY ONLY <2>6, <2>7
    <3> QED
      BY ONLY <3>1
  <2> QED
    BY ONLY <2>1, <2>4, <2>5, <2>7, <2>8
<1> QED
  BY <1>2, <1>4, <1>6 DEF x, r

-----------------------------------------------------------------------------
(* The books after a step. *)

LEMMA OwnedType ==
  ASSUME Shape, NEW a
  PROVE  Owned(a) \in Nat /\ Loose(a) \in Nat /\ StoreSum(a, stored) \in Nat
<1>1. StoreSum(a, stored) \in Nat
  <2>1. "full" \in Slab!Stores /\ 0 \in AllHomes
    BY SlabConstants DEF Slab!Stores
  <2>2. PICK b : b \in Bundles
    BY <2>1 DEF Shape, StoreKnown
  <2>3. stored \in [Slab!Stores -> [AllHomes -> Bundles]]
    BY DEF Shape, StoreKnown
  <2> QED
    BY <2>1, <2>2, <2>3, QueueChange
<1>2. HandSum(a, "active", node) \in Nat /\ HandSum(a, "secondary", secondary) \in Nat
      /\ HandSum(a, "plate", plate) \in Nat
  <2>1. ASSUME NEW f \in [Users -> Carried], NEW w \in HandPlaces
        PROVE  HandSum(a, w, f) \in Nat
    <3>1. CASE Users = {}
      <4>1. Slab!InHands(w, f) = {}
        BY <3>1 DEF Slab!InHands
      <4> QED
        BY <4>1, SumOfNone DEF HandSum
    <3>2. CASE Users # {}
      <4>1. PICK t \in Users : f[t] \in Carried
        BY <3>2
      <4> QED
        BY <4>1, HandsChange
    <3> QED
      BY <3>1, <3>2
  <2> QED
    BY <2>1 DEF Shape, ThreadTypes, HandPlaces
<1>3. StepSum(a, todo) \in Nat
  BY AllStepsFinite DEF Shape, ThreadTypes
<1>4. Loose(a) \in Nat
  BY <1>2, <1>3 DEF Loose
<1> QED
  BY <1>1, <1>4 DEF Owned

LEMMA OwnedTypeNext ==
  Shape' => (\A a : Owned(a) \in Nat)'
<1>1. Shape => \A a : Owned(a) \in Nat
  BY OwnedType
<1> QED
  BY <1>1, PTL

LEMMA IssuedType ==
  ASSUME SharedTypes
  PROVE  SumOf(issued, AllHomes) \in Nat
<1>1. IsFiniteSet(AllHomes)
  BY SlabConstants, FS_Interval
<1> QED
  BY <1>1, LaidFinite DEF SharedTypes

LEMMA IssuedTypeNext ==
  SharedTypes' => (SumOf(issued, AllHomes) \in Nat)'
<1>1. SharedTypes => SumOf(issued, AllHomes) \in Nat
  BY IssuedType
<1> QED
  BY <1>1, PTL

LEMMA BooksMove ==
  ASSUME SlabKnown, Shape',
         \A m \in Mappings :
            (remaining'[m] - empty'[m]) - (remaining[m] - empty[m])
               = Owned(PlatesOf(m))' - Owned(PlatesOf(m)),
         (free' - free) + (SumOf(issued', AllHomes) - SumOf(issued, AllHomes))
            + (Owned(Entries)' - Owned(Entries)) + (Owned(Returning)' - Owned(Returning)) = 0,
         \A h \in AllHomes : /\ credit'[h] - credit[h] = Owned(CreditOf(h))' - Owned(CreditOf(h))
                             /\ credit'[h] <= Budget
  PROVE  SlabKnown'
<1>1. Shape /\ SharedTypes /\ SharedTypes'
  BY DEF SlabKnown, Shape
<1>2. \A a : Owned(a) \in Nat
  BY <1>1, OwnedType
<1>3. \A a : Owned(a)' \in Nat
  BY OwnedTypeNext
<1>4. SumOf(issued, AllHomes) \in Nat /\ SumOf(issued', AllHomes) \in Nat
  BY <1>1, IssuedType, IssuedTypeNext
<1>5. ASSUME NEW m \in Mappings
      PROVE  remaining'[m] = empty'[m] + Owned(PlatesOf(m))'
  <2>1. remaining[m] = empty[m] + Owned(PlatesOf(m))
    BY DEF SlabKnown, Books
  <2>2. remaining[m] \in Int /\ empty[m] \in Int /\ remaining'[m] \in Int /\ empty'[m] \in Int
    BY DEF SlabKnown, Shape, SharedTypes
  <2>3. Owned(PlatesOf(m)) \in Int /\ Owned(PlatesOf(m))' \in Int
    BY <1>2, <1>3
  <2> QED
    BY <2>1, <2>2, <2>3
<1>6. free' + SumOf(issued', AllHomes) + Owned(Entries)' + Owned(Returning)' = Blocks
  <2>1. free + SumOf(issued, AllHomes) + Owned(Entries) + Owned(Returning) = Blocks
    BY DEF SlabKnown, Books
  <2>2. free \in Int /\ free' \in Int /\ Blocks \in Int
    BY SlabConstants DEF SlabKnown, Shape, SharedTypes
  <2>3. Owned(Entries) \in Int /\ Owned(Entries)' \in Int /\ Owned(Returning) \in Int /\ Owned(Returning)' \in Int
    BY <1>2, <1>3
  <2> QED
    BY <1>4, <2>1, <2>2, <2>3
<1>7. ASSUME NEW h \in AllHomes
      PROVE  credit'[h] = Owned(CreditOf(h))' /\ credit'[h] <= Budget
  <2>1. credit[h] = Owned(CreditOf(h))
    BY DEF SlabKnown, Books
  <2>2. credit[h] \in Int /\ credit'[h] \in Int
    BY DEF SlabKnown, Shape, SharedTypes
  <2>3. Owned(CreditOf(h)) \in Int /\ Owned(CreditOf(h))' \in Int
    BY <1>2, <1>3
  <2> QED
    BY <2>1, <2>2, <2>3
<1>8. Books'
  BY <1>5, <1>6, <1>7 DEF Books
<1> QED
  BY <1>8 DEF SlabKnown

\* Nothing but steps, plates in hand and in stores changed.
LEMMA BooksStill ==
  ASSUME SlabKnown, Shape', UNCHANGED <<free, issued, empty, remaining, credit>>,
         \A m \in Mappings : Owned(PlatesOf(m))' - Owned(PlatesOf(m)) = 0,
         (Owned(Entries)' - Owned(Entries)) + (Owned(Returning)' - Owned(Returning)) = 0,
         \A h \in AllHomes : Owned(CreditOf(h))' - Owned(CreditOf(h)) = 0
  PROVE  SlabKnown'
<1>1. \A m \in Mappings : (remaining'[m] - empty'[m]) - (remaining[m] - empty[m]) = 0
  BY DEF SlabKnown, Shape, SharedTypes
<1>2. (free' - free) + (SumOf(issued', AllHomes) - SumOf(issued, AllHomes)) = 0
  BY IssuedType DEF SlabKnown, Shape, SharedTypes
<1>3. \A h \in AllHomes : credit'[h] - credit[h] = 0 /\ credit'[h] <= Budget
  BY DEF SlabKnown, Shape, SharedTypes, Books
<1>4. Owned(Entries) \in Nat /\ Owned(Returning) \in Nat
  BY OwnedType DEF SlabKnown
<1>5. Owned(Entries)' \in Nat /\ Owned(Returning)' \in Nat
  BY OwnedTypeNext
<1>6. (free' - free) + (SumOf(issued', AllHomes) - SumOf(issued, AllHomes))
          + (Owned(Entries)' - Owned(Entries)) + (Owned(Returning)' - Owned(Returning)) = 0
  BY <1>2, <1>4, <1>5
<1> QED
  BY <1>1, <1>3, <1>6, BooksMove

LEMMA StoresStay ==
  ASSUME Shape, stored' = stored
  PROVE  StoreKnown' /\ \A a : StoreSum(a, stored') = StoreSum(a, stored) /\ StoreSum(a, stored) \in Nat
<1>1. StoreKnown'
  BY DEF Shape, StoreKnown
<1> QED
  BY <1>1, OwnedType

LEMMA StoresGain ==
  ASSUME Shape, NEW k \in Slab!Stores, NEW h \in AllHomes, NEW p \in Whole,
         p.used > 0, p.entries[1] = h, k = "full" <=> p.used = Capacity,
         stored' = [stored EXCEPT ![k][h] = Slab!Adding(stored[k][h], p)]
  PROVE  /\ StoreKnown'
         /\ \A a : /\ StoreSum(a, stored') = StoreSum(a, stored) + StoreWorth(a, p)
                   /\ StoreSum(a, stored) \in Nat /\ StoreWorth(a, p) \in Nat
<1>0. p \in Plates
  BY DEF Whole
<1>1. stored \in [Slab!Stores -> [AllHomes -> Bundles]]
  BY DEF Shape, StoreKnown
<1>2. PICK b \in Bundles : b = stored[k][h]
  BY <1>1
<1>3. PICK c : c = Slab!Adding(b, p)
  OBVIOUS
<1>4. c \in Bundles /\ \A e \in DOMAIN c : e \in DOMAIN b \/ e = p
  BY <1>3, QueueAdded
<1>5. stored' = [stored EXCEPT ![k][h] = c]
  BY <1>2, <1>3
<1>6. stored' \in [Slab!Stores -> [AllHomes -> Bundles]]
  BY <1>1, <1>4, <1>5
<1>7. ASSUME NEW j \in Slab!Stores, NEW g \in AllHomes, NEW r \in DOMAIN stored'[j][g]
      PROVE  r.used > 0 /\ r.entries[1] = g /\ (j = "full" <=> r.used = Capacity)
  <2>1. stored'[j][g] = IF j = k /\ g = h THEN c ELSE stored[j][g]
    BY <1>1, <1>5
  <2>2. CASE j = k /\ g = h
    BY <2>1, <2>2, <1>2, <1>4 DEF Shape, StoreKnown
  <2>3. CASE ~(j = k /\ g = h)
    BY <2>1, <2>3 DEF Shape, StoreKnown
  <2> QED
    BY <2>2, <2>3
<1>8. ASSUME NEW a
      PROVE  /\ StoreSum(a, stored') = StoreSum(a, stored) + StoreWorth(a, p)
             /\ StoreSum(a, stored) \in Nat /\ StoreWorth(a, p) \in Nat
  <2>0. /\ c \in Bundles /\ k \in Slab!Stores /\ h \in AllHomes
        /\ stored \in [Slab!Stores -> [AllHomes -> Bundles]]
    BY <1>1, <1>4
  <2>1. /\ StoreSum(a, Put(stored, k, h, c))
              = (StoreSum(a, stored) - QueueWorth(a, k, h, stored[k][h])) + QueueWorth(a, k, h, c)
        /\ StoreSum(a, stored) \in Nat
    BY ONLY <2>0, QueueChange, Zenon
  <2>2. QueueWorth(a, k, h, Slab!Adding(b, p)) = QueueWorth(a, k, h, b) + StoreWorth(a, p)
    BY QueueAdded
  <2>5. QueueWorth(a, k, h, b) \in Nat
    BY QueueFinite, LaidFinite DEF QueueWorth
  <2>6. StoreWorth(a, p) \in Nat
    BY <1>0, StoreWorthType
  <2>3. QueueWorth(a, k, h, c) = QueueWorth(a, k, h, b) + StoreWorth(a, p)
    BY <1>3, <2>2
  <2>4. StoreSum(a, stored')
              = (StoreSum(a, stored) - QueueWorth(a, k, h, b)) + QueueWorth(a, k, h, c)
    BY <1>2, <1>5, <2>1 DEF Put
  <2> QED
    BY <2>1, <2>3, <2>4, <2>5, <2>6
<1> QED
  BY <1>6, <1>7, <1>8 DEF StoreKnown

LEMMA StoresLose ==
  ASSUME Shape, NEW k \in Slab!Stores, NEW h \in AllHomes, NEW p \in DOMAIN stored[k][h],
         stored' = [stored EXCEPT ![k][h] = Slab!Removing(@, p)]
  PROVE  /\ StoreKnown'
         /\ p \in Whole /\ p.used > 0 /\ p.entries[1] = h /\ (k = "full" <=> p.used = Capacity)
         /\ \A a : /\ StoreSum(a, stored') = StoreSum(a, stored) - StoreWorth(a, p)
                   /\ StoreSum(a, stored) \in Nat /\ StoreWorth(a, p) \in Nat
<1>1. stored \in [Slab!Stores -> [AllHomes -> Bundles]]
  BY DEF Shape, StoreKnown
<1>2. PICK b \in Bundles : b = stored[k][h]
  BY <1>1
<1>3. PICK c : c = Slab!Removing(b, p)
  OBVIOUS
<1>4. p \in DOMAIN b /\ p \in Whole
  BY <1>2, BundleFacts
<1>5. c \in Bundles /\ DOMAIN c \subseteq DOMAIN b
  BY <1>3, <1>4, QueueRemoved
<1>6. stored' = [stored EXCEPT ![k][h] = c]
  BY <1>2, <1>3
<1>7. stored' \in [Slab!Stores -> [AllHomes -> Bundles]]
  BY <1>1, <1>5, <1>6
<1>8. ASSUME NEW j \in Slab!Stores, NEW g \in AllHomes, NEW r \in DOMAIN stored'[j][g]
      PROVE  r.used > 0 /\ r.entries[1] = g /\ (j = "full" <=> r.used = Capacity)
  <2>1. stored'[j][g] = IF j = k /\ g = h THEN c ELSE stored[j][g]
    BY <1>1, <1>6
  <2>2. r \in DOMAIN stored[j][g]
    BY <2>1, <1>2, <1>5
  <2> QED
    BY <2>2 DEF Shape, StoreKnown
<1>9. ASSUME NEW a
      PROVE  /\ StoreSum(a, stored') = StoreSum(a, stored) - StoreWorth(a, p)
             /\ StoreSum(a, stored) \in Nat /\ StoreWorth(a, p) \in Nat
  <2>0. /\ c \in Bundles /\ k \in Slab!Stores /\ h \in AllHomes
        /\ stored \in [Slab!Stores -> [AllHomes -> Bundles]]
    BY <1>1, <1>5
  <2>1. /\ StoreSum(a, Put(stored, k, h, c))
              = (StoreSum(a, stored) - QueueWorth(a, k, h, stored[k][h])) + QueueWorth(a, k, h, c)
        /\ StoreSum(a, stored) \in Nat
    BY ONLY <2>0, QueueChange, Zenon
  <2>3. StoreSum(a, stored')
              = (StoreSum(a, stored) - QueueWorth(a, k, h, b)) + QueueWorth(a, k, h, c)
    BY <1>2, <1>6, <2>1 DEF Put
  <2>2. /\ QueueWorth(a, k, h, b) = QueueWorth(a, k, h, c) + StoreWorth(a, p)
        /\ QueueWorth(a, k, h, c) \in Nat /\ StoreWorth(a, p) \in Nat
    BY <1>3, <1>4, QueueRemoved
  <2> QED
    BY <2>1, <2>2, <2>3
<1>10. p.used > 0 /\ p.entries[1] = h /\ (k = "full" <=> p.used = Capacity)
  BY DEF Shape, StoreKnown
<1> QED
  BY <1>4, <1>7, <1>8, <1>9, <1>10 DEF StoreKnown

-----------------------------------------------------------------------------
(* What plates and steps are worth in any account. *)

AsPlate(a, m) == IF a[1] = "plates" /\ m = a[2] THEN 1 ELSE 0
AsEntries(a, k) == IF a[1] = "entries" THEN k ELSE 0
AsBlock(a, b) == IF a[1] = "returning" /\ b # None THEN 1 ELSE 0
AsCredit(a, h, k) == IF a[1] = "credit" /\ h = a[2] THEN k ELSE 0

LEMMA Accounts ==
  /\ \A m, i : AsPlate(PlatesOf(m), i) = IF i = m THEN 1 ELSE 0
  /\ \A i : AsPlate(Entries, i) = 0 /\ AsPlate(Returning, i) = 0
  /\ \A i, h : AsPlate(CreditOf(h), i) = 0
  /\ \A k : AsEntries(Entries, k) = k /\ AsEntries(Returning, k) = 0
  /\ \A k, m : AsEntries(PlatesOf(m), k) = 0 /\ AsEntries(CreditOf(m), k) = 0
  /\ \A b : AsBlock(Returning, b) = IF b # None THEN 1 ELSE 0
  /\ \A b : AsBlock(Entries, b) = 0
  /\ \A b, m : AsBlock(PlatesOf(m), b) = 0 /\ AsBlock(CreditOf(m), b) = 0
  /\ \A h, g, k : AsCredit(CreditOf(h), g, k) = IF g = h THEN k ELSE 0
  /\ \A g, k : AsCredit(Entries, g, k) = 0 /\ AsCredit(Returning, g, k) = 0
  /\ \A m, g, k : AsCredit(PlatesOf(m), g, k) = 0
BY DEF AsPlate, AsEntries, AsBlock, AsCredit, PlatesOf, Entries, Returning, CreditOf

LEMMA WorthInHand ==
  ASSUME NEW p \in Plates, NEW a
  PROVE  HandWorth(a, p) = AsPlate(a, p.of) + AsEntries(a, Len(p.entries))
<1>1. p # None /\ Len(p.entries) \in Nat
  BY PlateFacts
<1>2. CASE a[1] = "plates"
  BY <1>1, <1>2 DEF HandWorth, AsPlate, AsEntries
<1>3. CASE a[1] = "entries"
  BY <1>1, <1>3 DEF HandWorth, AsPlate, AsEntries
<1>4. CASE a[1] # "plates" /\ a[1] # "entries"
  BY <1>1, <1>4 DEF HandWorth, AsPlate, AsEntries
<1> QED
  BY <1>2, <1>3, <1>4

LEMMA WorthInStore ==
  ASSUME NEW p \in Plates, NEW a
  PROVE  StoreWorth(a, p) = HandWorth(a, p) + AsCredit(a, p.entries[1], Len(p.entries))
<1>1. p # None /\ Len(p.entries) \in Nat
  BY PlateFacts
<1>2. HandWorth(a, p) \in Nat
  BY <1>1, HandWorthType DEF Carried
<1>3. CASE a[1] = "credit"
  <2>1. HandWorth(a, p) = 0
    BY <1>3 DEF HandWorth
  <2> QED
    BY <1>1, <1>3, <2>1 DEF StoreWorth, AsCredit
<1>4. CASE a[1] # "credit"
  BY <1>2, <1>4 DEF StoreWorth, AsCredit
<1> QED
  BY <1>3, <1>4

LEMMA WorthOfSeeker ==
  ASSUME NEW x \in Seekers, NEW a
  PROVE  StepWorth(a, x) = 0
BY SeekerIsNothing

LEMMA WorthOfBearer ==
  ASSUME NEW x \in Bearers, NEW a
  PROVE  StepWorth(a, x) = AsBlock(a, x.block)
BY DEF StepWorth, Bearers, Carriers, AsBlock

LEMMA WorthOfHolder ==
  ASSUME NEW x \in HolderSteps, NEW a
  PROVE  StepWorth(a, x) = HandWorth(a, x.on) + AsBlock(a, x.block)
<1>1. x.do = "gotSecondary" /\ x.on \in Bare
  BY DEF HolderSteps
<1>2. x.on \in Plates /\ HandWorth(a, x.on) \in Nat /\ x.on # None
  BY <1>1, HandWorthType, PlateFacts DEF Bare, Whole, Carried
<1>3. CASE a[1] \in {"returning", "credit"}
  <2>1. HandWorth(a, x.on) = 0
    BY <1>3 DEF HandWorth
  <2> QED
    BY <1>1, <1>3, <2>1 DEF StepWorth, AsBlock
<1>4. CASE a[1] \notin {"returning", "credit"}
  BY <1>1, <1>2, <1>4 DEF StepWorth, AsBlock, Carriers
<1> QED
  BY <1>3, <1>4

LEMMA WorthOfErrand ==
  ASSUME NEW x \in Errands, NEW a
  PROVE  /\ x.do \in {"pushEmpty", "drain", "release", "reserve"} => StepWorth(a, x) = HandWorth(a, x.on)
         /\ x.do = "push" => StepWorth(a, x) = StoreWorth(a, x.on)
         /\ x.do = "repay" => StepWorth(a, x) = AsCredit(a, x.home, x.bytes)
<1>1. x \notin Bearers \cup HolderSteps
  BY NamesOfSteps DEF ErrandNames
<1>2. CASE x.do = "repay"
  BY <1>1, <1>2 DEF StepWorth, AsCredit, Carriers
<1>3. CASE x.do # "repay"
  <2>1. x.on \in Whole
    BY <1>3, ErrandIsPlate
  <2>2. x.on # None /\ x.on.used = Len(x.on.entries)
    BY <2>1, PlateFacts DEF Whole
  <2> QED
    BY <1>1, <1>3, <2>2 DEF StepWorth, StoreWorth, HandWorth, Carriers
<1> QED
  BY <1>2, <1>3

LEMMA RepayIsErrand ==
  ASSUME NEW h \in AllHomes, NEW p \in Whole
  PROVE  /\ Slab!Repay(h, p) \in Errands /\ Slab!Repay(h, p).do = "repay"
         /\ \A a : StepWorth(a, Slab!Repay(h, p)) = AsCredit(a, h, Len(p.entries))
<1>1. /\ Slab!Repay(h, p).do = "repay" /\ Slab!Repay(h, p).home = h
      /\ Slab!Repay(h, p).bytes = Len(p.entries) /\ Slab!Repay(h, p) \in Errands
  BY DEF Slab!Repay, Errands, Whole, Plates
<1> QED
  BY <1>1, WorthOfErrand

LEMMA StoreIsErrand ==
  ASSUME NEW p \in Whole, p.used > 0
  PROVE  Slab!Store(p) \in Errands /\ \A a : StepWorth(a, Slab!Store(p)) = HandWorth(a, p)
<1>1. Slab!Store(p) \in Errands /\ Slab!Store(p).do = "reserve" /\ Slab!Store(p).on = p
  BY DEF Slab!Store, Slab!Stores, Errands
<1> QED
  BY <1>1, WorthOfErrand

LEMMA PlateErrand ==
  ASSUME NEW p \in Whole, NEW w \in {"drain", "release"}
  PROVE  Slab!DoOn(w, p) \in Errands /\ \A a : StepWorth(a, Slab!DoOn(w, p)) = HandWorth(a, p)
<1>1. Slab!DoOn(w, p) \in Errands /\ Slab!DoOn(w, p).do = w /\ Slab!DoOn(w, p).on = p
  BY DEF Slab!DoOn, Errands
<1> QED
  BY <1>1, WorthOfErrand

LEMMA EmptyErrand ==
  ASSUME NEW p \in Bare
  PROVE  /\ Slab!DoOn("pushEmpty", p) \in Errands
         /\ \A a : StepWorth(a, Slab!DoOn("pushEmpty", p)) = HandWorth(a, p)
<1>1. /\ Slab!DoOn("pushEmpty", p) \in Errands /\ Slab!DoOn("pushEmpty", p).do = "pushEmpty"
      /\ Slab!DoOn("pushEmpty", p).on = p
  BY DEF Slab!DoOn, Errands
<1> QED
  BY <1>1, WorthOfErrand

LEMMA LeftoverIsErrand ==
  ASSUME NEW p \in Whole
  PROVE  Slab!Leftover(p) \in Errands /\ \A a : StepWorth(a, Slab!Leftover(p)) = HandWorth(a, p)
<1>1. CASE p.used = 0
  BY <1>1, EmptyErrand DEF Slab!Leftover, Bare
<1>2. CASE p.used # 0
  <2>1. p.used > 0
    BY <1>2 DEF Whole, Plates
  <2> QED
    BY <1>2, <2>1, StoreIsErrand DEF Slab!Leftover
<1> QED
  BY <1>1, <1>2

LEMMA EmptyPlateIsBare ==
  ASSUME NEW m \in Mappings
  PROVE  /\ Slab!EmptyPlate(m) \in Bare
         /\ \A a : HandWorth(a, Slab!EmptyPlate(m)) = AsPlate(a, m)
<1> DEFINE p == Slab!EmptyPlate(m)
<1>1. p \in Bare /\ p.of = m /\ Len(p.entries) = 0
  BY SlabConstants DEF Slab!EmptyPlate, Bare, Whole, Plates
<1> HIDE DEF p
<1>2. p \in Plates
  BY <1>1 DEF Bare, Whole
<1>3. ASSUME NEW a
      PROVE  HandWorth(a, p) = AsPlate(a, m)
  <2>1. HandWorth(a, p) = AsPlate(a, m) + AsEntries(a, 0)
    BY <1>1, <1>2, WorthInHand
  <2>2. AsPlate(a, m) \in Nat /\ AsEntries(a, 0) = 0
    BY DEF AsPlate, AsEntries
  <2> QED
    BY <2>1, <2>2
<1> QED
  BY <1>1, <1>3 DEF p
-----------------------------------------------------------------------------
(* Entries move from plate to plate. *)

LEMMA MoveEntries ==
  ASSUME NEW p \in Whole, NEW q \in Whole, NEW n \in Nat, n <= p.used, q.used + n <= Capacity
  PROVE  /\ Slab!Less(p, n) \in Whole /\ Slab!Less(p, n).used = p.used - n
         /\ Slab!More(q, p, n) \in Whole /\ Slab!More(q, p, n).used = q.used + n
         /\ \A a : HandWorth(a, Slab!Less(p, n)) + HandWorth(a, Slab!More(q, p, n))
                      = HandWorth(a, p) + HandWorth(a, q)
<1> DEFINE l == SubSeq(p.entries, 1, p.used - n)
           m == SubSeq(p.entries, p.used - n + 1, p.used)
           k == q.entries \o m
<1>1. /\ p \in Plates /\ q \in Plates /\ p.used = Len(p.entries) /\ q.used = Len(q.entries)
      /\ p.entries \in Seq(AllHomes) /\ q.entries \in Seq(AllHomes)
      /\ p.used \in Nat /\ q.used \in Nat
      /\ p.of \in Mappings /\ q.of \in Mappings
      /\ p.used <= Capacity
  BY PlateFacts DEF Whole
<1>2. l \in Seq(AllHomes) /\ Len(l) = p.used - n
  <2>1. p.used - n \in Nat /\ p.used - n <= Len(p.entries)
    BY <1>1
  <2> HIDE DEF l
  <2>2. \A i \in 1..(p.used - n) : p.entries[i] \in AllHomes
    BY <1>1, <2>1
  <2> QED
    BY <1>1, <2>1, <2>2, SubSeqProperties DEF l
<1>3. m \in Seq(AllHomes) /\ Len(m) = n
  <2> DEFINE i == p.used - n + 1
  <2>1. i \in Int /\ p.used \in Int /\ i >= 1 /\ p.used - i + 1 = n /\ i <= p.used + 1
    BY <1>1
  <2> HIDE DEF i
  <2>2. \A j \in i..p.used : p.entries[j] \in AllHomes
    BY <1>1, <2>1
  <2>3. /\ SubSeq(p.entries, i, p.used) \in Seq(AllHomes)
        /\ Len(SubSeq(p.entries, i, p.used)) = IF i <= p.used THEN p.used - i + 1 ELSE 0
    BY <2>1, <2>2, SubSeqProperties
  <2> QED
    BY <1>1, <2>1, <2>3 DEF i
<1>4. k \in Seq(AllHomes) /\ Len(k) = q.used + n
  <2> DEFINE j == q.entries
  <2>1. j \in Seq(AllHomes) /\ m \in Seq(AllHomes) /\ Len(j) = q.used /\ Len(m) = n
    BY <1>1, <1>3
  <2> HIDE DEF m, j
  <2>2. j \o m \in Seq(AllHomes) /\ Len(j \o m) = q.used + n
    BY ONLY <2>1
  <2> QED
    BY <2>2 DEF j
<1>5. /\ Slab!Less(p, n) = [of |-> p.of, entries |-> l, used |-> p.used - n]
      /\ Slab!More(q, p, n) = [of |-> q.of, entries |-> k, used |-> q.used + n]
  <2>1. /\ p = [of |-> p.of, entries |-> p.entries, used |-> p.used]
        /\ q = [of |-> q.of, entries |-> q.entries, used |-> q.used]
    BY <1>1, PlateFacts
  <2>2. /\ Slab!Less(p, n) = [p EXCEPT !.entries = l, !.used = p.used - n]
        /\ Slab!More(q, p, n) = [q EXCEPT !.entries = k, !.used = q.used + n]
    BY <2>1 DEF Slab!Less, Slab!More
  <2> HIDE DEF l, k, m
  <2> QED
    BY <2>1, <2>2
<1> HIDE DEF l, k, m
<1>6. /\ Slab!Less(p, n) \in Whole /\ Slab!Less(p, n).used = p.used - n
      /\ Slab!Less(p, n).of = p.of /\ Len(Slab!Less(p, n).entries) = p.used - n
  BY <1>1, <1>2, <1>5, SlabConstants DEF Whole, Plates
<1>7. /\ Slab!More(q, p, n) \in Whole /\ Slab!More(q, p, n).used = q.used + n
      /\ Slab!More(q, p, n).of = q.of /\ Len(Slab!More(q, p, n).entries) = q.used + n
  BY <1>1, <1>4, <1>5, SlabConstants DEF Whole, Plates
<1>8. ASSUME NEW a
      PROVE  HandWorth(a, Slab!Less(p, n)) + HandWorth(a, Slab!More(q, p, n))
                = HandWorth(a, p) + HandWorth(a, q)
  <2>1. /\ HandWorth(a, p) = AsPlate(a, p.of) + AsEntries(a, p.used)
        /\ HandWorth(a, q) = AsPlate(a, q.of) + AsEntries(a, q.used)
    BY <1>1, WorthInHand
  <2>2. Slab!Less(p, n) \in Plates /\ Slab!More(q, p, n) \in Plates
    BY <1>6, <1>7 DEF Whole
  <2>3. /\ HandWorth(a, Slab!Less(p, n)) = AsPlate(a, p.of) + AsEntries(a, p.used - n)
        /\ HandWorth(a, Slab!More(q, p, n)) = AsPlate(a, q.of) + AsEntries(a, q.used + n)
    BY <1>6, <1>7, <2>2, WorthInHand
  <2>4. /\ AsEntries(a, p.used - n) = AsEntries(a, p.used) - AsEntries(a, n)
        /\ AsEntries(a, q.used + n) = AsEntries(a, q.used) + AsEntries(a, n)
        /\ AsEntries(a, n) \in Int /\ AsEntries(a, p.used) \in Int /\ AsEntries(a, q.used) \in Int
    BY <1>1 DEF AsEntries
  <2>5. AsPlate(a, p.of) \in Int /\ AsPlate(a, q.of) \in Int
    BY DEF AsPlate
  <2> QED
    BY <2>1, <2>3, <2>4, <2>5
<1> QED
  BY <1>6, <1>7, <1>8

LEMMA LeastOfTwo ==
  ASSUME NEW i \in Nat, NEW j \in Nat
  PROVE  Slab!Min({i, j}) = IF i <= j THEN i ELSE j
<1> DEFINE m == IF i <= j THEN i ELSE j
<1>1. m \in {i, j} /\ \A y \in {i, j} : m <= y
  OBVIOUS
<1>2. \A x \in {i, j} : (\A y \in {i, j} : x <= y) => x = m
  BY <1>1
<1> QED
  BY <1>1, <1>2 DEF Slab!Min

LEMMA FittingBounds ==
  ASSUME NEW p \in Whole, NEW q \in Whole
  PROVE  /\ Slab!Fitting(p, q) \in Nat /\ Slab!Fitting(p, q) <= p.used
         /\ q.used + Slab!Fitting(p, q) <= Capacity
         /\ p.used > 0 /\ q.used < Capacity => Slab!Fitting(p, q) > 0
<1>1. p.used \in Nat /\ q.used \in Nat /\ q.used <= Capacity /\ Capacity - q.used \in Nat /\ Capacity \in Nat
  BY PlateFacts, SlabConstants DEF Whole
<1>2. Slab!Fitting(p, q) = IF p.used <= Capacity - q.used THEN p.used ELSE Capacity - q.used
  BY <1>1, LeastOfTwo DEF Slab!Fitting
<1> QED
  BY <1>1, <1>2

\* The books of an account are about the plates threads and stores have, wherever.
LEMMA BooksSame ==
  ASSUME SlabKnown, Shape', UNCHANGED <<free, issued, empty, remaining, credit>>,
         \A a : Owned(a)' - Owned(a) = 0
  PROVE  SlabKnown'
BY BooksStill

LEMMA BooksCharged ==
  ASSUME SlabKnown, Shape', UNCHANGED <<free, issued, empty, remaining>>,
         NEW h \in AllHomes, NEW k \in Int, credit' = [credit EXCEPT ![h] = credit[h] + k],
         credit[h] + k <= Budget,
         \A a : Owned(a)' - Owned(a) = AsCredit(a, h, k)
  PROVE  SlabKnown'
<1>1. ASSUME NEW m \in Mappings
      PROVE  (remaining'[m] - empty'[m]) - (remaining[m] - empty[m])
               = Owned(PlatesOf(m))' - Owned(PlatesOf(m))
  <2>1. Owned(PlatesOf(m))' - Owned(PlatesOf(m)) = 0
    BY Accounts
  <2> QED
    BY <2>1 DEF SlabKnown, Shape, SharedTypes
<1>2. (free' - free) + (SumOf(issued', AllHomes) - SumOf(issued, AllHomes)) = 0
  BY IssuedType DEF SlabKnown, Shape, SharedTypes
<1>3. Owned(Entries)' - Owned(Entries) = 0 /\ Owned(Returning)' - Owned(Returning) = 0
  BY Accounts
<1>4. (free' - free) + (SumOf(issued', AllHomes) - SumOf(issued, AllHomes))
          + (Owned(Entries)' - Owned(Entries)) + (Owned(Returning)' - Owned(Returning)) = 0
  BY <1>2, <1>3
<1>5. ASSUME NEW g \in AllHomes
      PROVE  /\ credit'[g] - credit[g] = Owned(CreditOf(g))' - Owned(CreditOf(g))
             /\ credit'[g] <= Budget
  <2>1. Owned(CreditOf(g))' - Owned(CreditOf(g)) = IF g = h THEN k ELSE 0
    BY Accounts
  <2>2. credit \in [AllHomes -> Int] /\ credit[g] <= Budget
    BY DEF SlabKnown, Shape, SharedTypes, Books
  <2> QED
    BY <2>1, <2>2
<1> QED
  BY <1>1, <1>4, <1>5, BooksMove
-----------------------------------------------------------------------------
(* Errands. *)

\* An errand is done when what it was worth is in a store, or in other errands.
LEMMA ErrandDone ==
  ASSUME SlabKnown, NEW t \in Users, todo[t] # <<>>,
         Head(todo[t]).do \in ErrandNames, NEW e \in Seq(Errands),
         todo' = [todo EXCEPT ![t] = e \o Tail(@)], UNCHANGED <<node, secondary, cursor>>,
         UNCHANGED <<home, disabled, plate>>,
         \A a : StoreSum(a, stored') \in Int
  PROVE  /\ Head(todo[t]) \in Errands /\ Tail(todo[t]) \in Seq(Steps)
         /\ ThreadTypes' /\ ThreadsKnown'
         /\ \A a : /\ Owned(a)' - Owned(a) = (Added(a, t, e, Tail(todo[t])) - StepWorth(a, Head(todo[t])))
                                                + (StoreSum(a, stored') - StoreSum(a, stored))
                   /\ Owned(a) \in Nat /\ StepWorth(a, Head(todo[t])) \in Nat
<1>1. Shape /\ ThreadTypes /\ ThreadsKnown
  BY DEF SlabKnown, Shape
<1>2. /\ Head(todo[t]) \in Errands /\ Tail(todo[t]) \in Seq(Steps)
      /\ ThreadTypes' /\ ThreadsKnown'
      /\ \A a : /\ Loose(a)' = (Loose(a) - StepWorth(a, Head(todo[t])))
                                     + Added(a, t, e, Tail(todo[t]))
                /\ Loose(a) \in Nat /\ StepWorth(a, Head(todo[t])) \in Nat
  BY <1>1, ErrandMoves
<1>3. ASSUME NEW a
      PROVE  /\ Owned(a)' - Owned(a) = (Added(a, t, e, Tail(todo[t])) - StepWorth(a, Head(todo[t])))
                                                + (StoreSum(a, stored') - StoreSum(a, stored))
             /\ Owned(a) \in Nat
  <2>1. StoreSum(a, stored) \in Nat /\ Owned(a) \in Nat
    BY <1>1, OwnedType
  <2>2. e \o Tail(todo[t]) \in Seq(Steps)
    BY <1>2, ErrandsAreSteps
  <2>3. Added(a, t, e, Tail(todo[t])) \in Int
    <3>1. ListWorth(a, t, e \o Tail(todo[t])) \in Nat
      BY <2>2, ListWorthType
    <3>2. ListWorth(a, t, Tail(todo[t])) \in Nat
      BY <1>2, ListWorthType
    <3> QED
      BY <3>1, <3>2 DEF Added
  <2>4. Owned(a)' = Loose(a)' + StoreSum(a, stored')
    BY DEF Owned
  <2>5. Owned(a) = Loose(a) + StoreSum(a, stored)
    BY DEF Owned
  <2> QED
    BY <1>2, <2>1, <2>3, <2>4, <2>5
<1> QED
  BY <1>2, <1>3

LEMMA ReserveKeeps ==
  ASSUME SlabKnown, NEW t \in Users, Slab!Reserve(t)
  PROVE  SlabKnown'
<1> DEFINE x == Head(todo[t])
           p == x.on
           h == p.entries[1]
           r == Tail(todo[t])
<1>1. /\ todo[t] # <<>> /\ x.do = "reserve"
      /\ \/ /\ credit[h] + p.used <= Budget
            /\ credit' = [credit EXCEPT ![h] = credit[h] + p.used]
            /\ todo' = [todo EXCEPT ![t] = <<[x EXCEPT !.do = "push"]>> \o Tail(@)]
         \/ /\ credit' = credit
            /\ todo' = [todo EXCEPT ![t] = <<Slab!DoOn("drain", p)>> \o Tail(@)]
      /\ UNCHANGED <<free, issued, stored, empty, remaining, node, secondary, cursor, home, disabled, plate>>
  BY DEF Slab!Reserve, Slab!At, Slab!First, Slab!Then, Slab!Set, Slab!layer1, Slab!OwnerHome
<1> HIDE DEF x
<1>2. /\ x \in Errands /\ p \in Whole /\ p.used > 0 /\ h \in AllHomes
      /\ x.do \in ErrandNames
      /\ [x EXCEPT !.do = "push"] \in Errands
      /\ [x EXCEPT !.do = "push"].do = "push" /\ [x EXCEPT !.do = "push"].on = p
  <2>1. x \in Errands
    BY <1>1, ErrandFirst DEF SlabKnown, Shape, ThreadsKnown, ErrandNames, x
  <2>2. /\ x \in [do : {"reserve", "push"}, on : Whole, store : Slab!Stores]
        /\ x.on.used > 0 /\ (x.store = "full" <=> x.on.used = Capacity)
    BY <1>1, <2>1 DEF Errands
  <2>3. [x EXCEPT !.do = "push"] = [do |-> "push", on |-> x.on, store |-> x.store]
    BY <2>2
  <2>4. [x EXCEPT !.do = "push"] \in Errands
    BY <2>2, <2>3 DEF Errands
  <2>5. p \in Whole /\ p.used > 0 /\ h \in AllHomes
    BY <2>2, PlateFacts DEF Whole
  <2> QED
    BY <1>1, <2>1, <2>3, <2>4, <2>5, Zenon DEF ErrandNames
<1> HIDE DEF p, r
<1>3. /\ StoreKnown'
      /\ \A a : StoreSum(a, stored') = StoreSum(a, stored) /\ StoreSum(a, stored) \in Nat
  BY <1>1, StoresStay DEF SlabKnown
<1>4. ASSUME NEW e \in Seq(Errands), todo' = [todo EXCEPT ![t] = e \o Tail(@)]
      PROVE  /\ ThreadTypes' /\ ThreadsKnown' /\ r \in Seq(Steps)
             /\ \A a : Owned(a)' - Owned(a) = Added(a, t, e, r) - HandWorth(a, p)
             /\ \A a : Owned(a) \in Nat /\ HandWorth(a, p) \in Nat
  <2>1. \A a : StoreSum(a, stored') \in Int
    BY <1>3
  <2>2. /\ r \in Seq(Steps) /\ ThreadTypes' /\ ThreadsKnown'
        /\ \A a : /\ Owned(a)' - Owned(a) = (Added(a, t, e, r) - StepWorth(a, x))
                                                + (StoreSum(a, stored') - StoreSum(a, stored))
                  /\ Owned(a) \in Nat /\ StepWorth(a, x) \in Nat
    BY <1>1, <1>2, <1>4, <2>1, ErrandDone DEF r, x
  <2>3. ASSUME NEW a
        PROVE  /\ Owned(a)' - Owned(a) = Added(a, t, e, r) - HandWorth(a, p)
               /\ Owned(a) \in Nat /\ HandWorth(a, p) \in Nat
    <3>1. StepWorth(a, x) = HandWorth(a, p)
      BY <1>1, <1>2, WorthOfErrand DEF p
    <3>2. ListWorth(a, t, e \o r) \in Nat /\ ListWorth(a, t, r) \in Nat
      <4>1. e \o r \in Seq(Steps)
        BY <2>2, ErrandsAreSteps
      <4> QED
        BY <2>2, <4>1, ListWorthType
    <3> QED
      BY <1>3, <2>2, <3>1, <3>2 DEF Added
  <2> QED
    BY <2>2, <2>3
<1>5. CASE credit' = credit /\ todo' = [todo EXCEPT ![t] = <<Slab!DoOn("drain", p)>> \o Tail(@)]
  <2> DEFINE y == Slab!DoOn("drain", p)
  <2>1. y \in Errands /\ y \in Steps /\ \A a : StepWorth(a, y) = HandWorth(a, p)
    BY <1>2, PlateErrand, ErrandsAreSteps
  <2> HIDE DEF y
  <2>2. <<y>> \in Seq(Errands) /\ todo' = [todo EXCEPT ![t] = <<y>> \o Tail(@)]
    BY <2>1, <1>5 DEF y
  <2>3. /\ ThreadTypes' /\ ThreadsKnown'
        /\ \A a : Owned(a)' - Owned(a) = 0
    <3>1. /\ ThreadTypes' /\ ThreadsKnown' /\ r \in Seq(Steps)
          /\ \A a : Owned(a)' - Owned(a) = Added(a, t, <<y>>, r) - HandWorth(a, p)
          /\ \A a : HandWorth(a, p) \in Nat
      BY <1>4, <2>2
    <3>2. ASSUME NEW a
          PROVE  Added(a, t, <<y>>, r) = HandWorth(a, p)
      <4>1. Added(a, t, <<y>>, r) = StepWorth(a, y)
        BY <2>1, <3>1, AddedOne
      <4> QED
        BY <2>1, <4>1
    <3> QED
      BY <3>1, <3>2
  <2>4. Shape'
    BY <1>1, <1>3, <1>5, <2>3 DEF SlabKnown, Shape, SharedTypes
  <2> QED
    BY <1>1, <1>5, <2>3, <2>4, BooksSame
<1>6. CASE /\ credit[h] + p.used <= Budget
           /\ credit' = [credit EXCEPT ![h] = credit[h] + p.used]
           /\ todo' = [todo EXCEPT ![t] = <<[x EXCEPT !.do = "push"]>> \o Tail(@)]
  <2> DEFINE y == [x EXCEPT !.do = "push"]
  <2>1. y \in Errands /\ y \in Steps /\ \A a : StepWorth(a, y) = StoreWorth(a, p)
    BY <1>2, WorthOfErrand, ErrandsAreSteps
  <2> HIDE DEF y
  <2>2. <<y>> \in Seq(Errands) /\ todo' = [todo EXCEPT ![t] = <<y>> \o Tail(@)]
    BY <2>1, <1>6 DEF y
  <2>3. /\ ThreadTypes' /\ ThreadsKnown'
        /\ \A a : Owned(a)' - Owned(a) = AsCredit(a, h, p.used)
    <3>1. /\ ThreadTypes' /\ ThreadsKnown' /\ r \in Seq(Steps)
          /\ \A a : Owned(a)' - Owned(a) = Added(a, t, <<y>>, r) - HandWorth(a, p)
          /\ \A a : HandWorth(a, p) \in Nat
      BY <1>4, <2>2
    <3>2. ASSUME NEW a
          PROVE  Added(a, t, <<y>>, r) = StoreWorth(a, p)
      <4>1. Added(a, t, <<y>>, r) = StepWorth(a, y)
        BY <2>1, <3>1, AddedOne
      <4> QED
        BY <2>1, <4>1
    <3>3. \A a : StoreWorth(a, p) = HandWorth(a, p) + AsCredit(a, h, p.used) /\ AsCredit(a, h, p.used) \in Int
      BY <1>2, WorthInStore, PlateFacts DEF Whole, AsCredit
    <3> QED
      BY <3>1, <3>2, <3>3
  <2>4. Shape'
    <3>1. p.used \in Int
      BY <1>2 DEF Whole, Plates
    <3>2. SharedTypes'
      BY <1>1, <1>2, <1>6, <3>1 DEF SlabKnown, Shape, SharedTypes
    <3> QED
      BY <1>3, <2>3, <3>2 DEF Shape
  <2>5. p.used \in Int
    BY <1>2 DEF Whole, Plates
  <2> QED
    BY <1>1, <1>2, <1>6, <2>3, <2>4, <2>5, BooksCharged
<1> QED
  BY <1>1, <1>5, <1>6
LEMMA ErrandHead ==
  ASSUME SlabKnown, NEW t \in Users, todo[t] # <<>>, Head(todo[t]).do \in ErrandNames
  PROVE  Head(todo[t]) \in Errands /\ Head(todo[t]) \in Steps /\ Tail(todo[t]) \in Seq(Steps)
<1>1. Known(node[t], secondary[t], cursor[t], home[t], disabled[t], plate[t], todo[t])
  BY DEF SlabKnown, Shape, ThreadsKnown
<1>2. todo[t] # <<>> /\ Head(todo[t]).do \in ErrandNames
  OBVIOUS
<1>3. Head(todo[t]) \in Errands /\ Tail(todo[t]) \in Seq(Steps)
  BY ONLY <1>1, <1>2, ErrandFirst, Zenon
<1> QED
  BY <1>3, ErrandsAreSteps

LEMMA PushKeeps ==
  ASSUME SlabKnown, NEW t \in Users, Slab!Push(t)
  PROVE  SlabKnown'
<1> DEFINE x == Head(todo[t])
           p == x.on
           k == x.store
           h == p.entries[1]
           r == Tail(todo[t])
<1>1. /\ todo[t] # <<>> /\ x.do = "push"
      /\ \/ /\ stored' = [stored EXCEPT ![k][h] = Slab!Adding(stored[k][h], p)]
            /\ todo' = [todo EXCEPT ![t] = <<>> \o Tail(@)]
         \/ /\ stored' = stored
            /\ todo' = [todo EXCEPT ![t] = <<Slab!Repay(h, p), Slab!DoOn("drain", p)>> \o Tail(@)]
      /\ UNCHANGED <<free, issued, empty, remaining, credit, node, secondary, cursor, home, disabled, plate>>
  BY Zenon DEF Slab!Push, Slab!At, Slab!First, Slab!Then, Slab!Set, Slab!layer1, Slab!OwnerHome
<1>2. x.do \in ErrandNames
  BY <1>1, Zenon DEF ErrandNames
<1>3. x \in Errands /\ x \in Steps /\ r \in Seq(Steps)
  <2>1. SlabKnown /\ t \in Users /\ todo[t] # <<>> /\ Head(todo[t]).do \in ErrandNames
    BY <1>1, <1>2, Zenon
  <2> QED
    BY ONLY <2>1, ErrandHead, Zenon
<1>4. /\ k \in Slab!Stores /\ p \in Whole /\ p.used > 0 /\ (k = "full" <=> p.used = Capacity)
  BY <1>1, <1>3, Zenon DEF Errands
<1>5. p.used = Len(p.entries) /\ p \in Plates
  BY <1>4 DEF Whole
<1>6. h \in AllHomes
  BY ONLY <1>4, <1>5, PlateFacts
<1>7. ASSUME NEW a
      PROVE  /\ StepWorth(a, x) = StoreWorth(a, p) /\ StoreWorth(a, p) \in Nat
             /\ StoreWorth(a, p) = HandWorth(a, p) + AsCredit(a, h, Len(p.entries))
  <2>1. x \in Errands /\ x.do = "push" /\ p \in Plates /\ p = x.on /\ h = p.entries[1]
    BY <1>1, <1>3, <1>5, Zenon
  <2> HIDE DEF x, p, h
  <2>2. StepWorth(a, x) = StoreWorth(a, x.on)
    BY ONLY <2>1, WorthOfErrand, Zenon
  <2>3. StoreWorth(a, p) \in Nat
    BY ONLY <2>1, StoreWorthType, Zenon
  <2>4. StoreWorth(a, p) = HandWorth(a, p) + AsCredit(a, p.entries[1], Len(p.entries))
    BY ONLY <2>1, WorthInStore
  <2> QED
    BY ONLY <2>1, <2>2, <2>3, <2>4, Zenon
<1> HIDE DEF x, p, k, h, r
<1>8. SharedTypes'
  BY <1>1 DEF SlabKnown, Shape, SharedTypes
<1>9. CASE /\ stored' = [stored EXCEPT ![k][h] = Slab!Adding(stored[k][h], p)]
           /\ todo' = [todo EXCEPT ![t] = <<>> \o Tail(@)]
  <2>1. /\ StoreKnown'
        /\ \A a : /\ StoreSum(a, stored') = StoreSum(a, stored) + StoreWorth(a, p)
                  /\ StoreSum(a, stored) \in Nat /\ StoreWorth(a, p) \in Nat
    BY <1>4, <1>6, <1>9, StoresGain DEF SlabKnown, h
  <2>2. <<>> \in Seq(Errands) /\ \A a : StoreSum(a, stored') \in Int
    BY <2>1
  <2>3. /\ ThreadTypes' /\ ThreadsKnown'
        /\ \A a : Owned(a)' - Owned(a) = (Added(a, t, <<>>, r) - StepWorth(a, x))
                                                + (StoreSum(a, stored') - StoreSum(a, stored))
    BY <1>1, <1>2, <1>9, <2>2, ErrandDone, Zenon DEF x, r
  <2>4. ASSUME NEW a
        PROVE  Owned(a)' - Owned(a) = 0
    <3>1. Added(a, t, <<>>, r) = 0
      BY <1>3, AddedNone
    <3> QED
      BY <1>7, <2>1, <2>3, <3>1
  <2>5. Shape'
    BY <1>8, <2>1, <2>3 DEF Shape
  <2> QED
    BY <1>1, <2>4, <2>5, BooksSame
<1>10. CASE /\ stored' = stored
            /\ todo' = [todo EXCEPT ![t] = <<Slab!Repay(h, p), Slab!DoOn("drain", p)>> \o Tail(@)]
  <2> DEFINE y == Slab!Repay(h, p)
             z == Slab!DoOn("drain", p)
  <2>1. /\ y \in Errands /\ y \in Steps /\ \A a : StepWorth(a, y) = AsCredit(a, h, Len(p.entries))
    BY <1>4, <1>6, RepayIsErrand, ErrandsAreSteps
  <2>2. z \in Errands /\ z \in Steps /\ \A a : StepWorth(a, z) = HandWorth(a, p)
    BY <1>4, PlateErrand, ErrandsAreSteps
  <2>3. todo' = [todo EXCEPT ![t] = <<y, z>> \o Tail(@)]
    BY <1>10
  <2> HIDE DEF y, z
  <2>4. /\ StoreKnown'
        /\ \A a : StoreSum(a, stored') = StoreSum(a, stored) /\ StoreSum(a, stored) \in Nat
    BY <1>10, StoresStay DEF SlabKnown
  <2>5. <<y, z>> \in Seq(Errands) /\ \A a : StoreSum(a, stored') \in Int
    BY <2>1, <2>2, <2>4
  <2>6. /\ ThreadTypes' /\ ThreadsKnown'
        /\ \A a : Owned(a)' - Owned(a) = (Added(a, t, <<y, z>>, r) - StepWorth(a, x))
                                                + (StoreSum(a, stored') - StoreSum(a, stored))
    BY <1>1, <1>2, <2>3, <2>5, ErrandDone DEF x, r
  <2>7. ASSUME NEW a
        PROVE  Owned(a)' - Owned(a) = 0
    <3>1. Added(a, t, <<y, z>>, r) = StepWorth(a, y) + StepWorth(a, z)
      BY <1>3, <2>1, <2>2, AddedTwo
    <3>2. HandWorth(a, p) \in Nat /\ AsCredit(a, h, Len(p.entries)) \in Int
      BY <1>5, PlateFacts, HandWorthType DEF AsCredit, Carried
    <3> QED
      BY <1>7, <2>1, <2>2, <2>4, <2>6, <3>1, <3>2
  <2>8. Shape'
    BY <1>8, <2>4, <2>6 DEF Shape
  <2> QED
    BY <1>1, <2>7, <2>8, BooksSame
<1> QED
  BY <1>1, <1>9, <1>10, Zenon DEF x, p, k, h

LEMMA RepayCreditKeeps ==
  ASSUME SlabKnown, NEW t \in Users, Slab!RepayCredit(t)
  PROVE  SlabKnown'
<1> DEFINE x == Head(todo[t])
           h == x.home
           r == Tail(todo[t])
<1>1. /\ todo[t] # <<>> /\ x.do = "repay"
      /\ credit' = [credit EXCEPT ![h] = credit[h] - x.bytes]
      /\ todo' = [todo EXCEPT ![t] = <<>> \o Tail(@)]
      /\ UNCHANGED <<free, issued, empty, remaining, stored, node, secondary, cursor, home, disabled, plate>>
  BY DEF Slab!RepayCredit, Slab!At, Slab!First, Slab!Then, Slab!Set, Slab!layer1
<1>2. x.do \in ErrandNames
  BY <1>1 DEF ErrandNames
<1>3. x \in Errands /\ x \in Steps /\ r \in Seq(Steps)
  BY <1>1, <1>2, ErrandHead
<1>4. h \in AllHomes /\ x.bytes \in Nat
  BY <1>1, <1>3, RepaymentIsCredit
<1>5. \A a : StepWorth(a, x) = AsCredit(a, h, x.bytes) /\ AsCredit(a, h, x.bytes) \in Int
             /\ AsCredit(a, h, - x.bytes) = - AsCredit(a, h, x.bytes)
  BY <1>1, <1>3, <1>4, WorthOfErrand DEF AsCredit
<1> HIDE DEF x, h, r
<1>6. credit' = [credit EXCEPT ![h] = credit[h] + (- x.bytes)] /\ - x.bytes \in Int
  <2>1. credit[h] \in Int
    BY <1>4 DEF SlabKnown, Shape, SharedTypes
  <2>2. credit[h] - x.bytes = credit[h] + (- x.bytes) /\ - x.bytes \in Int
    BY <1>4, <2>1
  <2> QED
    BY <1>1, <2>2
<1>7. SharedTypes'
  BY <1>1, <1>4, <1>6 DEF SlabKnown, Shape, SharedTypes
<1>8. /\ StoreKnown'
      /\ \A a : StoreSum(a, stored') = StoreSum(a, stored) /\ StoreSum(a, stored) \in Nat
  BY <1>1, StoresStay DEF SlabKnown
<1>9. <<>> \in Seq(Errands) /\ \A a : StoreSum(a, stored') \in Int
  BY <1>8
<1>10. /\ ThreadTypes' /\ ThreadsKnown'
       /\ \A a : Owned(a)' - Owned(a) = (Added(a, t, <<>>, r) - StepWorth(a, x))
                                                + (StoreSum(a, stored') - StoreSum(a, stored))
  BY <1>1, <1>2, <1>9, ErrandDone DEF x, r
<1>11. ASSUME NEW a
       PROVE  Owned(a)' - Owned(a) = AsCredit(a, h, - x.bytes)
  <2>1. Added(a, t, <<>>, r) = 0
    BY <1>3, AddedNone
  <2> QED
    BY <1>5, <1>8, <1>10, <2>1
<1>12. Shape'
  BY <1>7, <1>8, <1>10 DEF Shape
<1>13. credit[h] + (- x.bytes) <= Budget
  <2>1. credit[h] \in Int /\ credit[h] <= Budget
    BY <1>4 DEF SlabKnown, Shape, SharedTypes, Books
  <2>2. Budget \in Nat /\ x.bytes \in Nat
    BY <1>4, SlabConstants
  <2> QED
    BY ONLY <2>1, <2>2
<1> QED
  BY <1>1, <1>4, <1>6, <1>11, <1>12, <1>13, BooksCharged

\* Blocks return to layer 3, or come from there.
LEMMA BooksFilled ==
  ASSUME SlabKnown, Shape', UNCHANGED <<issued, empty, remaining, credit>>,
         NEW k \in Int, free' = free - k,
         \A a : Owned(a)' - Owned(a) = AsEntries(a, k)
  PROVE  SlabKnown'
<1>1. ASSUME NEW m \in Mappings
      PROVE  (remaining'[m] - empty'[m]) - (remaining[m] - empty[m])
               = Owned(PlatesOf(m))' - Owned(PlatesOf(m))
  <2>1. Owned(PlatesOf(m))' - Owned(PlatesOf(m)) = 0
    BY Accounts
  <2> QED
    BY <2>1 DEF SlabKnown, Shape, SharedTypes
<1>2. SumOf(issued', AllHomes) - SumOf(issued, AllHomes) = 0
  BY IssuedType DEF SlabKnown, Shape, SharedTypes
<1>3. Owned(Entries)' - Owned(Entries) = k /\ Owned(Returning)' - Owned(Returning) = 0
  BY Accounts
<1>4. free' - free = - k
  BY DEF SlabKnown, Shape, SharedTypes
<1>5. (free' - free) + (SumOf(issued', AllHomes) - SumOf(issued, AllHomes))
          + (Owned(Entries)' - Owned(Entries)) + (Owned(Returning)' - Owned(Returning)) = 0
  BY <1>2, <1>3, <1>4
<1>6. \A h \in AllHomes : /\ credit'[h] - credit[h] = Owned(CreditOf(h))' - Owned(CreditOf(h))
                          /\ credit'[h] <= Budget
  BY Accounts DEF SlabKnown, Shape, SharedTypes, Books
<1> QED
  BY <1>1, <1>5, <1>6, BooksMove

LEMMA DrainKeeps ==
  ASSUME SlabKnown, NEW t \in Users, Slab!Drain(t)
  PROVE  SlabKnown'
<1> DEFINE x == Head(todo[t])
           p == x.on
           q == Slab!EmptyPlate(p.of)
           y == Slab!DoOn("pushEmpty", q)
           r == Tail(todo[t])
           k == Len(p.entries)
<1>1. /\ todo[t] # <<>> /\ x.do = "drain"
      /\ free' = free + k
      /\ todo' = [todo EXCEPT ![t] = <<y>> \o Tail(@)]
      /\ UNCHANGED <<issued, empty, remaining, stored, credit, node, secondary, cursor, home, disabled, plate>>
  BY DEF Slab!Drain, Slab!At, Slab!First, Slab!Then, Slab!Set, Slab!layer1, Slab!layer2
<1>2. x.do \in ErrandNames
  BY <1>1 DEF ErrandNames
<1>3. x \in Errands /\ x \in Steps /\ r \in Seq(Steps)
  BY <1>1, <1>2, ErrandHead
<1>4. p \in Plates /\ p.of \in Mappings /\ k \in Nat
  BY <1>1, <1>3, PlateFacts DEF Errands, Whole
<1>5. q \in Bare /\ \A a : HandWorth(a, q) = AsPlate(a, p.of)
  BY <1>4, EmptyPlateIsBare
<1>6. y \in Errands /\ y \in Steps /\ \A a : StepWorth(a, y) = AsPlate(a, p.of)
  BY <1>5, EmptyErrand, ErrandsAreSteps
<1>7. ASSUME NEW a
      PROVE  /\ StepWorth(a, x) = AsPlate(a, p.of) + AsEntries(a, k)
             /\ AsPlate(a, p.of) \in Int /\ AsEntries(a, k) \in Int
             /\ AsEntries(a, - k) = - AsEntries(a, k)
  <2>1. StepWorth(a, x) = AsPlate(a, p.of) + AsEntries(a, k)
    BY <1>1, <1>3, <1>4, WorthOfErrand, WorthInHand
  <2>2. AsPlate(a, p.of) \in Int
    BY DEF AsPlate
  <2>3. AsEntries(a, k) \in Int /\ AsEntries(a, - k) = - AsEntries(a, k)
    BY <1>4 DEF AsEntries
  <2> QED
    BY <2>1, <2>2, <2>3
<1> HIDE DEF x, p, q, y, r, k
<1>8. free' = free - (- k) /\ - k \in Int
  BY <1>1, <1>4 DEF SlabKnown, Shape, SharedTypes
<1>9. SharedTypes'
  BY <1>1, <1>4 DEF SlabKnown, Shape, SharedTypes
<1>10. /\ StoreKnown'
      /\ \A a : StoreSum(a, stored') = StoreSum(a, stored) /\ StoreSum(a, stored) \in Nat
  BY <1>1, StoresStay DEF SlabKnown
<1>11. <<y>> \in Seq(Errands) /\ \A a : StoreSum(a, stored') \in Int
  BY <1>6, <1>10
<1>12. /\ ThreadTypes' /\ ThreadsKnown'
       /\ \A a : Owned(a)' - Owned(a) = (Added(a, t, <<y>>, r) - StepWorth(a, x))
                                                + (StoreSum(a, stored') - StoreSum(a, stored))
  BY <1>1, <1>2, <1>11, ErrandDone DEF x, r
<1>13. ASSUME NEW a
       PROVE  Owned(a)' - Owned(a) = AsEntries(a, - k)
  <2>1. Added(a, t, <<y>>, r) = StepWorth(a, y)
    BY <1>3, <1>6, AddedOne
  <2> QED
    BY <1>6, <1>7, <1>10, <1>12, <2>1
<1>14. Shape'
  BY <1>9, <1>10, <1>12 DEF Shape
<1> QED
  BY <1>1, <1>8, <1>13, <1>14, BooksFilled

LEMMA ReleaseKeeps ==
  ASSUME SlabKnown, NEW t \in Users, Slab!Release(t)
  PROVE  SlabKnown'
<1> DEFINE x == Head(todo[t])
           q == x.on
           r == Tail(todo[t])
<1>1. /\ todo[t] # <<>> /\ x.do = "release"
      /\ UNCHANGED <<free, issued, empty, remaining, credit, node, secondary, cursor, home, disabled, plate>>
      /\ \/ /\ q.used = 0 \/ q.used = Capacity
            /\ todo' = [todo EXCEPT ![t] = <<Slab!Leftover(q)>> \o Tail(@)] /\ stored' = stored
         \/ /\ q.used # 0 /\ q.used # Capacity
            /\ todo' = [todo EXCEPT ![t] = <<Slab!Store(q)>> \o Tail(@)] /\ stored' = stored
         \/ /\ q.used # 0 /\ q.used # Capacity
            /\ \E h \in AllHomes : \E p \in DOMAIN stored["partial"][h] :
                  /\ stored' = [stored EXCEPT !["partial"][h] = Slab!Removing(@, p)]
                  /\ todo' = [todo EXCEPT ![t] =
                        <<Slab!Repay(h, p), Slab!Leftover(Slab!Less(p, Slab!Fitting(p, q))),
                          Slab!Store(Slab!More(q, p, Slab!Fitting(p, q)))>> \o Tail(@)]
  BY Zenon DEF Slab!Release, Slab!At, Slab!First, Slab!Then, Slab!Set, Slab!layer1, Slab!Popped, AllHomes
<1>2. x.do \in ErrandNames
  BY <1>1, Zenon DEF ErrandNames
<1>3. x \in Errands /\ x \in Steps /\ r \in Seq(Steps)
  <2>1. SlabKnown /\ t \in Users /\ todo[t] # <<>> /\ Head(todo[t]).do \in ErrandNames
    BY <1>1, <1>2, Zenon
  <2> QED
    BY ONLY <2>1, ErrandHead, Zenon
<1>4. q \in Whole /\ q \in Plates /\ q.used \in Nat /\ q.used <= Capacity
  BY <1>1, <1>3, PlateFacts, Zenon DEF Errands, Whole
<1>5. \A a : StepWorth(a, x) = HandWorth(a, q) /\ HandWorth(a, q) \in Nat
  BY <1>1, <1>3, <1>4, WorthOfErrand, HandWorthType, Zenon DEF Carried
<1>11. /\ todo[t] # <<>> /\ x.do \in ErrandNames
       /\ UNCHANGED <<free, issued, empty, remaining, credit, node, secondary, cursor, home, disabled, plate>>
  BY <1>1, <1>2
<1> HIDE DEF x, q, r
<1>6. SharedTypes'
  BY <1>1 DEF SlabKnown, Shape, SharedTypes
<1>7. ASSUME stored' = stored, NEW y \in Errands, \A a : StepWorth(a, y) = HandWorth(a, q),
             todo' = [todo EXCEPT ![t] = <<y>> \o Tail(@)]
      PROVE  SlabKnown'
  <2>1. /\ StoreKnown'
        /\ \A a : StoreSum(a, stored') = StoreSum(a, stored) /\ StoreSum(a, stored) \in Nat
    BY <1>7, StoresStay DEF SlabKnown
  <2>2. <<y>> \in Seq(Errands) /\ (\A a : StoreSum(a, stored') \in Int) /\ y \in Steps
    BY <2>1, ErrandsAreSteps
  <2>3. /\ ThreadTypes' /\ ThreadsKnown'
        /\ \A a : Owned(a)' - Owned(a) = (Added(a, t, <<y>>, r) - StepWorth(a, x))
                                                + (StoreSum(a, stored') - StoreSum(a, stored))
    BY <1>11, <1>7, <2>2, ErrandDone DEF x, r
  <2>4. ASSUME NEW a
        PROVE  Owned(a)' - Owned(a) = 0
    <3>1. Added(a, t, <<y>>, r) = StepWorth(a, y)
      BY <1>3, <2>2, AddedOne
    <3> QED
      BY <1>5, <1>7, <2>1, <2>3, <3>1
  <2>5. Shape'
    BY <1>6, <2>1, <2>3 DEF Shape
  <2> QED
    BY <1>1, <2>4, <2>5, BooksSame
<1>8. CASE /\ q.used = 0 \/ q.used = Capacity
           /\ todo' = [todo EXCEPT ![t] = <<Slab!Leftover(q)>> \o Tail(@)] /\ stored' = stored
  BY <1>4, <1>7, <1>8, LeftoverIsErrand
<1>9. CASE /\ q.used # 0 /\ q.used # Capacity
           /\ todo' = [todo EXCEPT ![t] = <<Slab!Store(q)>> \o Tail(@)] /\ stored' = stored
  <2>1. q.used > 0
    BY <1>4, <1>9
  <2> QED
    BY <1>4, <1>7, <1>9, <2>1, StoreIsErrand
<1>10. ASSUME q.used # 0, q.used # Capacity,
              NEW h \in AllHomes, NEW p \in DOMAIN stored["partial"][h],
              stored' = [stored EXCEPT !["partial"][h] = Slab!Removing(@, p)],
              todo' = [todo EXCEPT ![t] =
                        <<Slab!Repay(h, p), Slab!Leftover(Slab!Less(p, Slab!Fitting(p, q))),
                          Slab!Store(Slab!More(q, p, Slab!Fitting(p, q)))>> \o Tail(@)]
       PROVE  SlabKnown'
  <2> DEFINE n == Slab!Fitting(p, q)
             u == Slab!Less(p, n)
             v == Slab!More(q, p, n)
             y1 == Slab!Repay(h, p)
             y2 == Slab!Leftover(u)
             y3 == Slab!Store(v)
  <2>1. /\ StoreKnown'
        /\ p \in Whole /\ p.used > 0 /\ p.entries[1] = h
        /\ \A a : /\ StoreSum(a, stored') = StoreSum(a, stored) - StoreWorth(a, p)
                  /\ StoreSum(a, stored) \in Nat /\ StoreWorth(a, p) \in Nat
  <3>1. "partial" \in Slab!Stores /\ Shape
      BY DEF SlabKnown, Slab!Stores
    <3>2. ASSUME NEW k \in Slab!Stores, k = "partial"
          PROVE  /\ StoreKnown'
                 /\ p \in Whole /\ p.used > 0 /\ p.entries[1] = h
                 /\ \A a : /\ StoreSum(a, stored') = StoreSum(a, stored) - StoreWorth(a, p)
                           /\ StoreSum(a, stored) \in Nat /\ StoreWorth(a, p) \in Nat
      <4>1. /\ h \in AllHomes /\ p \in DOMAIN stored[k][h] /\ k \in Slab!Stores /\ Shape
            /\ stored' = [stored EXCEPT ![k][h] = Slab!Removing(@, p)]
        BY <1>10, <3>1, <3>2
      <4> QED
        BY ONLY <4>1, StoresLose, Zenon
    <3> QED
      BY <3>1, <3>2
  <2>2. n \in Nat /\ n <= p.used /\ q.used + n <= Capacity
    BY <1>4, <2>1, FittingBounds
  <2> HIDE DEF n
  <2>3. /\ u \in Whole /\ v \in Whole /\ v.used = q.used + n
        /\ \A a : HandWorth(a, u) + HandWorth(a, v) = HandWorth(a, p) + HandWorth(a, q)
    BY <1>4, <2>1, <2>2, MoveEntries
  <2>4. v.used > 0
    BY <1>4, <1>10, <2>2, <2>3
  <2>5. /\ y1 \in Errands /\ y1 \in Steps /\ \A a : StepWorth(a, y1) = AsCredit(a, h, Len(p.entries))
    BY <2>1, RepayIsErrand, ErrandsAreSteps
  <2> HIDE DEF u, v
  <2>6. y2 \in Errands /\ y2 \in Steps /\ \A a : StepWorth(a, y2) = HandWorth(a, u)
    BY <2>3, LeftoverIsErrand, ErrandsAreSteps
  <2>7. y3 \in Errands /\ y3 \in Steps /\ \A a : StepWorth(a, y3) = HandWorth(a, v)
    BY <2>3, <2>4, StoreIsErrand, ErrandsAreSteps
  <2>8. todo' = [todo EXCEPT ![t] = <<y1, y2, y3>> \o Tail(@)]
    BY <1>10 DEF n, u, v
  <2> HIDE DEF y1, y2, y3
  <2>9. <<y1, y2, y3>> \in Seq(Errands) /\ \A a : StoreSum(a, stored') \in Int
    BY <2>1, <2>5, <2>6, <2>7
  <2>10. /\ ThreadTypes' /\ ThreadsKnown'
         /\ \A a : Owned(a)' - Owned(a) = (Added(a, t, <<y1, y2, y3>>, r) - StepWorth(a, x))
                                                + (StoreSum(a, stored') - StoreSum(a, stored))
    BY <1>11, <2>8, <2>9, ErrandDone DEF x, r
  <2>11. ASSUME NEW a
         PROVE  Owned(a)' - Owned(a) = 0
    <3>1. Added(a, t, <<y1, y2, y3>>, r) = StepWorth(a, y1) + StepWorth(a, y2) + StepWorth(a, y3)
      BY <1>3, <2>5, <2>6, <2>7, AddedThree
    <3>2. p \in Plates
      BY <2>1 DEF Whole
    <3>3. /\ HandWorth(a, p) \in Nat /\ HandWorth(a, u) \in Nat /\ HandWorth(a, v) \in Nat
          /\ AsCredit(a, h, Len(p.entries)) \in Int
      BY <2>3, <3>2, PlateFacts, HandWorthType DEF AsCredit, Carried, Whole
    <3>4. StoreWorth(a, p) = HandWorth(a, p) + AsCredit(a, h, Len(p.entries))
      BY <2>1, <3>2, WorthInStore
    <3>5. Added(a, t, <<y1, y2, y3>>, r)
             = AsCredit(a, h, Len(p.entries)) + HandWorth(a, u) + HandWorth(a, v)
      BY <2>5, <2>6, <2>7, <3>1
    <3>6. StoreSum(a, stored') - StoreSum(a, stored)
             = - (HandWorth(a, p) + AsCredit(a, h, Len(p.entries)))
      BY <2>1, <3>3, <3>4
    <3>7. HandWorth(a, u) + HandWorth(a, v) = HandWorth(a, p) + HandWorth(a, q)
      BY <2>3
    <3>8. StepWorth(a, x) = HandWorth(a, q) /\ HandWorth(a, q) \in Nat
      BY <1>5
    <3>9. Owned(a)' - Owned(a) = (Added(a, t, <<y1, y2, y3>>, r) - StepWorth(a, x))
                                    + (StoreSum(a, stored') - StoreSum(a, stored))
      BY <2>10
    <3> DEFINE C == AsCredit(a, h, Len(p.entries))
               U == HandWorth(a, u)
               V == HandWorth(a, v)
               P == HandWorth(a, p)
               Q == HandWorth(a, q)
    <3>10. C \in Int /\ U \in Int /\ V \in Int /\ P \in Int /\ Q \in Int /\ U + V = P + Q
      BY <3>3, <3>7, <3>8
    <3>11. Owned(a)' - Owned(a) = ((C + U + V) - Q) + (- (P + C))
      BY <3>5, <3>6, <3>8, <3>9
    <3> HIDE DEF C, U, V, P, Q
    <3> QED
      BY <3>10, <3>11
  <2>12. Shape'
    BY <1>6, <2>1, <2>10 DEF Shape
  <2> QED
    BY <1>1, <2>11, <2>12, BooksSame
<1> QED
  BY <1>1, <1>8, <1>9, <1>10

\* So many plates of a mapping.
AsPlates(a, m, k) == IF a[1] = "plates" /\ m = a[2] THEN k ELSE 0

LEMMA BooksTraded ==
  ASSUME SlabKnown, Shape', UNCHANGED <<free, issued, credit>>, NEW m, NEW k \in Int,
         \A i \in Mappings :
            (remaining'[i] - empty'[i]) - (remaining[i] - empty[i]) = IF i = m THEN k ELSE 0,
         \A a : Owned(a)' - Owned(a) = AsPlates(a, m, k)
  PROVE  SlabKnown'
<1>1. ASSUME NEW i \in Mappings
      PROVE  (remaining'[i] - empty'[i]) - (remaining[i] - empty[i])
               = Owned(PlatesOf(i))' - Owned(PlatesOf(i))
  <2>1. AsPlates(PlatesOf(i), m, k) = IF i = m THEN k ELSE 0
    BY DEF AsPlates, PlatesOf
  <2> QED
    BY <2>1
<1>2. (free' - free) + (SumOf(issued', AllHomes) - SumOf(issued, AllHomes)) = 0
  BY IssuedType DEF SlabKnown, Shape, SharedTypes
<1>3. Owned(Entries)' - Owned(Entries) = 0 /\ Owned(Returning)' - Owned(Returning) = 0
  BY DEF AsPlates, Entries, Returning
<1>4. (free' - free) + (SumOf(issued', AllHomes) - SumOf(issued, AllHomes))
          + (Owned(Entries)' - Owned(Entries)) + (Owned(Returning)' - Owned(Returning)) = 0
  BY <1>2, <1>3
<1>5. ASSUME NEW h \in AllHomes
      PROVE  /\ credit'[h] - credit[h] = Owned(CreditOf(h))' - Owned(CreditOf(h))
             /\ credit'[h] <= Budget
  <2>1. AsPlates(CreditOf(h), m, k) = 0
    BY DEF AsPlates, CreditOf
  <2>2. Owned(CreditOf(h))' - Owned(CreditOf(h)) = 0
    BY <2>1
  <2> QED
    BY <2>2 DEF SlabKnown, Shape, SharedTypes, Books
<1> QED
  BY <1>1, <1>4, <1>5, BooksMove

LEMMA PushEmptyKeeps ==
  ASSUME SlabKnown, NEW t \in Users, Slab!PushEmpty(t)
  PROVE  SlabKnown'
<1> DEFINE x == Head(todo[t])
           m == x.on.of
           r == Tail(todo[t])
<1>1. /\ todo[t] # <<>> /\ x.do = "pushEmpty" /\ todo' = [todo EXCEPT ![t] = <<>> \o Tail(@)]
      /\ \/ empty' = [empty EXCEPT ![m] = empty[m] + 1] /\ remaining' = remaining
         \/ remaining' = [remaining EXCEPT ![m] = remaining[m] - 1] /\ empty' = empty
      /\ UNCHANGED <<free, issued, stored, credit, node, secondary, cursor, home, disabled, plate>>
  BY DEF Slab!PushEmpty, Slab!At, Slab!First, Slab!Then, Slab!Set, Slab!layer1
<1>2. x.do \in ErrandNames
  BY <1>1 DEF ErrandNames
<1>3. x \in Errands /\ x \in Steps /\ r \in Seq(Steps)
  BY <1>1, <1>2, ErrandHead
<1>4. x.on \in Plates /\ m \in Mappings /\ Len(x.on.entries) = 0
  BY <1>1, <1>3, PlateFacts DEF Errands, Bare, Whole
<1>5. ASSUME NEW a
      PROVE  StepWorth(a, x) = AsPlates(a, m, 1) /\ AsPlates(a, m, 1) \in Int
             /\ AsPlates(a, m, - 1) = - AsPlates(a, m, 1)
  <2>1. StepWorth(a, x) = AsPlate(a, m) + AsEntries(a, 0)
    BY <1>1, <1>3, <1>4, WorthOfErrand, WorthInHand
  <2>2. AsEntries(a, 0) = 0 /\ AsPlate(a, m) = AsPlates(a, m, 1)
    BY DEF AsEntries, AsPlate, AsPlates
  <2>3. AsPlates(a, m, 1) \in Int /\ AsPlates(a, m, - 1) = - AsPlates(a, m, 1)
    BY DEF AsPlates
  <2> QED
    BY <2>1, <2>2, <2>3
<1> HIDE DEF x, m, r
<1>6. SharedTypes'
  <2>1. /\ free' \in Nat /\ issued' \in [AllHomes -> Nat] /\ credit' \in [AllHomes -> Int]
        /\ remaining \in [Mappings -> Int] /\ empty \in [Mappings -> Nat]
    BY <1>1 DEF SlabKnown, Shape, SharedTypes
  <2>2. empty[m] + 1 \in Nat /\ remaining[m] - 1 \in Int
    BY <1>4, <2>1
  <2>3. empty' \in [Mappings -> Nat] /\ remaining' \in [Mappings -> Int]
    BY <1>1, <2>1, <2>2
  <2> QED
    BY <2>1, <2>3 DEF SharedTypes
<1>7. /\ StoreKnown'
      /\ \A a : StoreSum(a, stored') = StoreSum(a, stored) /\ StoreSum(a, stored) \in Nat
  BY <1>1, StoresStay DEF SlabKnown
<1>8. <<>> \in Seq(Errands) /\ \A a : StoreSum(a, stored') \in Int
  BY <1>7
<1>9. /\ ThreadTypes' /\ ThreadsKnown'
      /\ \A a : Owned(a)' - Owned(a) = (Added(a, t, <<>>, r) - StepWorth(a, x))
                                          + (StoreSum(a, stored') - StoreSum(a, stored))
  BY <1>1, <1>2, <1>8, ErrandDone DEF x, r
<1>10. ASSUME NEW a
       PROVE  Owned(a)' - Owned(a) = AsPlates(a, m, - 1)
  <2>1. Added(a, t, <<>>, r) = 0
    BY <1>3, AddedNone
  <2> QED
    BY <1>5, <1>7, <1>9, <2>1
<1>11. Shape'
  BY <1>6, <1>7, <1>9 DEF Shape
<1>12. ASSUME NEW i \in Mappings
       PROVE  (remaining'[i] - empty'[i]) - (remaining[i] - empty[i]) = IF i = m THEN - 1 ELSE 0
  <2>1. remaining \in [Mappings -> Int] /\ empty \in [Mappings -> Nat]
    BY DEF SlabKnown, Shape, SharedTypes
  <2> QED
    BY <1>1, <1>4, <2>1
<1> QED
  BY <1>1, <1>10, <1>11, <1>12, BooksTraded
-----------------------------------------------------------------------------
(* A call goes on. *)

LEMMA CallHead ==
  ASSUME SlabKnown, NEW t \in Users, todo[t] # <<>>, Head(todo[t]).do \notin ErrandNames
  PROVE  /\ Keeps(node[t], secondary[t], cursor[t], home[t], disabled[t], plate[t])
         /\ AfterErrands(todo[t], node[t], secondary[t], home[t], disabled[t], plate[t])
         /\ todo[t] \in Seq(Steps) /\ Head(todo[t]) \in Steps /\ Tail(todo[t]) \in Seq(Steps)
         /\ \A a : ListWorth(a, t, todo[t]) = StepWorth(a, Head(todo[t])) + ListWorth(a, t, Tail(todo[t]))
<1>1. Known(node[t], secondary[t], cursor[t], home[t], disabled[t], plate[t], todo[t])
  BY DEF SlabKnown, Shape, ThreadsKnown
<1>2. /\ Keeps(node[t], secondary[t], cursor[t], home[t], disabled[t], plate[t])
      /\ AfterErrands(todo[t], node[t], secondary[t], home[t], disabled[t], plate[t])
      /\ todo[t] \in Seq(Steps)
  BY <1>1, CallFirst
<1>3. Head(todo[t]) \in Steps /\ Tail(todo[t]) \in Seq(Steps) /\ todo[t] = <<Head(todo[t])>> \o Tail(todo[t])
  BY <1>2
<1>4. ASSUME NEW a
      PROVE  ListWorth(a, t, todo[t]) = StepWorth(a, Head(todo[t])) + ListWorth(a, t, Tail(todo[t]))
  <2> DEFINE l == todo[t]
             x == Head(todo[t])
             r == Tail(todo[t])
  <2>1. x \in Steps /\ r \in Seq(Steps) /\ l = <<x>> \o r
    BY <1>3
  <2> HIDE DEF l, x, r
  <2>2. ListWorth(a, t, <<x>> \o r) = StepWorth(a, x) + ListWorth(a, t, r)
    BY <2>1, ListOfMore
  <2> QED
    BY <2>1, <2>2 DEF l, x, r
<1> QED
  BY <1>2, <1>3, <1>4

LEMMA CallMoves ==
  ASSUME SlabKnown, NEW t \in Users,
         NEW n, NEW s, NEW c, NEW h, NEW d, NEW q, NEW l,
         Known(n, s, c, h, d, q, l), Becomes(t, n, s, c, h, d, q, l),
         \A a : StoreSum(a, stored') \in Int
  PROVE  /\ ThreadTypes' /\ ThreadsKnown'
         /\ \A a : Owned(a)' - Owned(a)
                      = (Mine(a, t, n, s, q, l)
                            - Mine(a, t, node[t], secondary[t], plate[t], todo[t]))
                         + (StoreSum(a, stored') - StoreSum(a, stored))
<1>2. ThreadTypes /\ ThreadsKnown /\ Shape
  BY DEF SlabKnown, Shape
<1>4. /\ ThreadTypes' /\ ThreadsKnown'
      /\ \A a : /\ Loose(a)' = (Loose(a) - Mine(a, t, node[t], secondary[t], plate[t], todo[t]))
                                   + Mine(a, t, n, s, q, l)
                /\ Loose(a) \in Nat
  BY <1>2, Moves
<1>5. n \in Carried /\ s \in Carried /\ q \in Carried /\ l \in Seq(Steps)
  BY KnownTypes
<1>6. ASSUME NEW a
      PROVE  Owned(a)' - Owned(a)
                = (Mine(a, t, n, s, q, l)
                            - Mine(a, t, node[t], secondary[t], plate[t], todo[t]))
                         + (StoreSum(a, stored') - StoreSum(a, stored))
  <2>1. Owned(a) = Loose(a) + StoreSum(a, stored) /\ StoreSum(a, stored) \in Int
    BY <1>2, OwnedType DEF Owned
  <2>2. Owned(a)' = Loose(a)' + StoreSum(a, stored') /\ StoreSum(a, stored') \in Int
    BY DEF Owned
  <2>3. Mine(a, t, n, s, q, l) \in Int
    BY <1>5, HandWorthType, ListWorthType DEF Mine
  <2>4. Mine(a, t, node[t], secondary[t], plate[t], todo[t]) \in Int
    <3>1. /\ node[t] \in Carried /\ secondary[t] \in Carried /\ plate[t] \in Carried
          /\ todo[t] \in Seq(Steps)
      BY <1>2 DEF ThreadTypes
    <3> QED
      BY <3>1, HandWorthType, ListWorthType DEF Mine
  <2>5. /\ Loose(a)' = (Loose(a) - Mine(a, t, node[t], secondary[t], plate[t], todo[t]))
                                   + Mine(a, t, n, s, q, l)
        /\ Loose(a) \in Nat
    BY <1>4
  <2> QED
    BY <2>1, <2>2, <2>3, <2>4, <2>5
<1> QED
  BY <1>4, <1>6

LEMMA ListOfOne ==
  ASSUME NEW t \in Users, NEW a, NEW x \in Steps
  PROVE  ListWorth(a, t, <<x>>) = StepWorth(a, x)
<1>1. <<x>> = <<x>> \o <<>>
  OBVIOUS
<1>2. ListWorth(a, t, <<x>> \o <<>>) = StepWorth(a, x) + ListWorth(a, t, <<>>) /\ StepWorth(a, x) \in Nat
  <2>1. <<>> \in Seq(Steps)
    OBVIOUS
  <2> QED
    BY <2>1, ListOfMore
<1> QED
  BY <1>1, <1>2, ListOfNone

LEMMA ListOfTwo ==
  ASSUME NEW t \in Users, NEW a, NEW x \in Steps, NEW y \in Steps
  PROVE  ListWorth(a, t, <<x, y>>) = StepWorth(a, x) + StepWorth(a, y)
<1>1. <<x, y>> = <<x>> \o <<y>> /\ <<y>> \in Seq(Steps)
  BY Pairs
<1>2. ListWorth(a, t, <<x>> \o <<y>>) = StepWorth(a, x) + ListWorth(a, t, <<y>>)
  BY <1>1, ListOfMore
<1> QED
  BY <1>1, <1>2, ListOfOne

LEMMA ListOfThree ==
  ASSUME NEW t \in Users, NEW a, NEW x \in Steps, NEW y \in Steps, NEW z \in Steps
  PROVE  ListWorth(a, t, <<x, y, z>>) = StepWorth(a, x) + (StepWorth(a, y) + StepWorth(a, z))
<1>1. <<x, y, z>> = <<x>> \o <<y, z>> /\ <<y, z>> \in Seq(Steps)
  BY Triples
<1>2. ListWorth(a, t, <<x>> \o <<y, z>>) = StepWorth(a, x) + ListWorth(a, t, <<y, z>>)
  BY <1>1, ListOfMore
<1> QED
  BY <1>1, <1>2, ListOfTwo
-----------------------------------------------------------------------------
(* A call gets an empty plate. *)

LEMMA FullUsers ==
  ASSUME NEW x, NEW n, NEW s, WantsFull(x, n, s)
  PROVE  x \in Seekers /\ x.do \in {"install", "direct"}
BY DEF WantsFull, Slab!Do, Seekers

LEMMA DoIsSeeker ==
  /\ \A w \in {"popEmpty", "mapPlates", "seekFull", "seekPartial", "fill", "refill", "install", "direct"} :
        Slab!Do(w) \in Seekers /\ Slab!Do(w) \in Steps /\ Slab!Do(w).do = w
  /\ Seekers \subseteq Steps /\ Bearers \subseteq Steps /\ HolderSteps \subseteq Steps
BY DEF Slab!Do, Seekers, Steps

LEMMA GetsEmpty ==
  ASSUME NEW r, NEW n, NEW s, NEW h, NEW d, NEW q, AfterErrands(r, n, s, h, d, q),
         r # <<>>, Head(r).do \in {"popEmpty", "mapPlates"}
  PROVE  /\ q = None /\ Head(r) \in Seekers
         /\ \A p \in Bare \cup {None} : AfterErrands(Tail(r), n, s, h, d, p)
         /\ AfterErrands(<<Slab!Do("mapPlates")>> \o Tail(r), n, s, h, d, None)
<1>1. CASE \E x \in Seekers : /\ WantsFull(x, n, s)
                  /\ \/ r = <<x>> /\ (q # None => q.used = Capacity)
                     \/ r = <<Slab!Do("refill"), x>> /\ h # None /\ q # None /\ q.used < Capacity
                     \/ r = <<Slab!Do("fill"), x>> /\ h # None
                     \/ r = <<Slab!Do("seekFull"), x>> /\ q = None
                     \/ r = <<Slab!Do("seekPartial"), x>> /\ q = None /\ h # None
                     \/ \E w \in {"popEmpty", "mapPlates"} :
                           r = <<Slab!Do(w), Slab!Do("fill"), x>> /\ q = None /\ h # None
  <2>1. PICK x \in Seekers : /\ WantsFull(x, n, s)
                  /\ \/ r = <<x>> /\ (q # None => q.used = Capacity)
                     \/ r = <<Slab!Do("refill"), x>> /\ h # None /\ q # None /\ q.used < Capacity
                     \/ r = <<Slab!Do("fill"), x>> /\ h # None
                     \/ r = <<Slab!Do("seekFull"), x>> /\ q = None
                     \/ r = <<Slab!Do("seekPartial"), x>> /\ q = None /\ h # None
                     \/ \E w \in {"popEmpty", "mapPlates"} :
                           r = <<Slab!Do(w), Slab!Do("fill"), x>> /\ q = None /\ h # None
    BY <1>1
  <2>2. x.do \in {"install", "direct"}
    BY <2>1, FullUsers
  <2>3. PICK w \in {"popEmpty", "mapPlates"} :
                           r = <<Slab!Do(w), Slab!Do("fill"), x>> /\ q = None /\ h # None
    BY <2>1, <2>2 DEF Slab!Do
  <2>4. Head(r) = Slab!Do(w) /\ Tail(r) = <<Slab!Do("fill"), x>>
    BY <2>3
  <2>5. <<Slab!Do("mapPlates")>> \o Tail(r) = <<Slab!Do("mapPlates"), Slab!Do("fill"), x>>
    <3>1. Slab!Do("mapPlates") \in Steps /\ Slab!Do("fill") \in Steps /\ x \in Steps
      BY DoIsSeeker
    <3> DEFINE y == Slab!Do("mapPlates")
               z == Slab!Do("fill")
    <3>2. y \in Steps /\ z \in Steps /\ x \in Steps /\ Tail(r) = <<z, x>>
      BY <2>4, <3>1
    <3> HIDE DEF y, z
    <3>3. <<y>> \o <<z, x>> = <<y, z, x>>
      BY <3>2, Triples, Zenon
    <3> QED
      BY <3>2, <3>3 DEF y, z
  <2>6. Head(r) \in Seekers
    BY <2>4, DoIsSeeker
  <2>7. \A p \in Bare \cup {None} : AfterErrands(Tail(r), n, s, h, d, p)
    BY <2>1, <2>3, <2>4 DEF AfterErrands
  <2>8. AfterErrands(<<Slab!Do("mapPlates")>> \o Tail(r), n, s, h, d, None)
    BY <2>1, <2>3, <2>5 DEF AfterErrands
  <2> QED
    BY <2>3, <2>6, <2>7, <2>8
<1>2. CASE \E x \in Bearers \cup HolderSteps :
          /\ WantsEmpty(x, n, s, d)
          /\ \/ r = <<x>> /\ (q # None => q \in Bare)
             \/ \E w \in {"popEmpty", "mapPlates"} : r = <<Slab!Do(w), x>> /\ q = None
  <2>1. PICK x \in Bearers \cup HolderSteps :
          /\ WantsEmpty(x, n, s, d)
          /\ \/ r = <<x>> /\ (q # None => q \in Bare)
             \/ \E w \in {"popEmpty", "mapPlates"} : r = <<Slab!Do(w), x>> /\ q = None
    BY <1>2
  <2>2. x.do \notin {"popEmpty", "mapPlates"}
    BY NamesOfSteps
  <2>3. PICK w \in {"popEmpty", "mapPlates"} : r = <<Slab!Do(w), x>> /\ q = None
    BY <2>1, <2>2
  <2>4. Head(r) = Slab!Do(w) /\ Tail(r) = <<x>>
    BY <2>3
  <2>5. <<Slab!Do("mapPlates")>> \o Tail(r) = <<Slab!Do("mapPlates"), x>>
    <3> DEFINE y == Slab!Do("mapPlates")
    <3>1. y \in Steps /\ x \in Steps
      BY DoIsSeeker
    <3> HIDE DEF y
    <3>2. <<y>> \o <<x>> = <<y, x>>
      BY <3>1, Pairs
    <3> QED
      BY <2>4, <3>2 DEF y
  <2>6. Head(r) \in Seekers
    BY <2>4, DoIsSeeker
  <2>7. \A p \in Bare \cup {None} : AfterErrands(Tail(r), n, s, h, d, p)
    BY <2>1, <2>4 DEF AfterErrands
  <2>8. AfterErrands(<<Slab!Do("mapPlates")>> \o Tail(r), n, s, h, d, None)
    BY <2>1, <2>5 DEF AfterErrands
  <2> QED
    BY <2>3, <2>6, <2>7, <2>8
<1>3. CASE \E x \in Bearers : Finishes(x, n, s) /\ r = <<x>> /\ q = None
  BY <1>3, NamesOfSteps
<1> QED
  BY <1>1, <1>2, <1>3 DEF AfterErrands

LEMMA KeepsPlate ==
  ASSUME NEW n, NEW s, NEW c, NEW h, NEW d, NEW q, Keeps(n, s, c, h, d, q), NEW p \in Whole \cup {None}
  PROVE  Keeps(n, s, c, h, d, p)
BY DEF Keeps

LEMMA PopEmptyKeeps ==
  ASSUME SlabKnown, NEW t \in Users, Slab!PopEmpty(t)
  PROVE  SlabKnown'
<1> DEFINE r == Tail(todo[t])
           y == Slab!Do("mapPlates")
<1>1. /\ todo[t] # <<>> /\ Head(todo[t]).do = "popEmpty"
      /\ UNCHANGED <<free, issued, stored, credit, remaining, node, secondary, cursor, home, disabled>>
  BY DEF Slab!PopEmpty, Slab!At, Slab!First, Slab!layer1
<1>2. \/ \E m \in Mappings : /\ empty[m] > 0
                             /\ empty' = [empty EXCEPT ![m] = empty[m] - 1]
                             /\ plate' = [plate EXCEPT ![t] = Slab!EmptyPlate(m)]
                             /\ todo' = [todo EXCEPT ![t] = <<>> \o Tail(@)]
      \/ UNCHANGED <<empty, plate>> /\ todo' = [todo EXCEPT ![t] = <<y>> \o Tail(@)]
  BY DEF Slab!PopEmpty, Slab!Set, Slab!Then
<1>3. Head(todo[t]).do \notin ErrandNames
  BY <1>1 DEF ErrandNames
<1>4. /\ Keeps(node[t], secondary[t], cursor[t], home[t], disabled[t], plate[t])
      /\ AfterErrands(todo[t], node[t], secondary[t], home[t], disabled[t], plate[t])
      /\ todo[t] \in Seq(Steps) /\ r \in Seq(Steps)
      /\ \A a : ListWorth(a, t, todo[t]) = StepWorth(a, Head(todo[t])) + ListWorth(a, t, r)
  BY <1>1, <1>3, CallHead
<1>5. /\ plate[t] = None /\ Head(todo[t]) \in Seekers
      /\ \A p \in Bare \cup {None} : AfterErrands(r, node[t], secondary[t], home[t], disabled[t], p)
      /\ AfterErrands(<<y>> \o r, node[t], secondary[t], home[t], disabled[t], None)
  BY <1>1, <1>4, GetsEmpty
<1>6. ASSUME NEW a
      PROVE  ListWorth(a, t, todo[t]) = ListWorth(a, t, r) /\ ListWorth(a, t, r) \in Nat
  <2>1. StepWorth(a, Head(todo[t])) = 0
    BY <1>5, WorthOfSeeker
  <2>2. ListWorth(a, t, r) \in Nat
    BY <1>4, ListWorthType
  <2> QED
    BY <1>4, <2>1, <2>2
<1> HIDE DEF r
<1>7. /\ StoreKnown'
      /\ \A a : StoreSum(a, stored') = StoreSum(a, stored) /\ StoreSum(a, stored) \in Nat
  BY <1>1, StoresStay DEF SlabKnown
<1>8. ThreadTypes /\ \A a : StoreSum(a, stored') \in Int
  BY <1>7 DEF SlabKnown, Shape
<1>9. ASSUME NEW m \in Mappings, empty[m] > 0,
             empty' = [empty EXCEPT ![m] = empty[m] - 1],
             plate' = [plate EXCEPT ![t] = Slab!EmptyPlate(m)],
             todo' = [todo EXCEPT ![t] = <<>> \o Tail(@)]
      PROVE  SlabKnown'
  <2> DEFINE p == Slab!EmptyPlate(m)
  <2>1. p \in Bare /\ p \in Whole /\ \A a : HandWorth(a, p) = AsPlate(a, m)
    BY EmptyPlateIsBare DEF Bare
  <2> HIDE DEF p
  <2>2. Becomes(t, node[t], secondary[t], cursor[t], home[t], disabled[t], p, r)
    BY <1>1, <1>4, <1>8, <1>9, Stay DEF Becomes, p, r
  <2>3. Keeps(node[t], secondary[t], cursor[t], home[t], disabled[t], p)
    BY <1>4, <2>1, KeepsPlate
  <2>4. AfterErrands(r, node[t], secondary[t], home[t], disabled[t], p)
    BY <1>5, <2>1
  <2>5. Known(node[t], secondary[t], cursor[t], home[t], disabled[t], p, r)
    BY <1>4, <2>3, <2>4, IsKnownAtOnce
  <2>6. /\ ThreadTypes' /\ ThreadsKnown'
        /\ \A a : Owned(a)' - Owned(a)
                      = (Mine(a, t, node[t], secondary[t], p, r)
                            - Mine(a, t, node[t], secondary[t], plate[t], todo[t]))
                         + (StoreSum(a, stored') - StoreSum(a, stored))
    BY <1>8, <2>2, <2>5, CallMoves
  <2>7. ASSUME NEW a
        PROVE  Owned(a)' - Owned(a) = AsPlates(a, m, 1)
    <3>1. HandWorth(a, node[t]) \in Nat /\ HandWorth(a, secondary[t]) \in Nat
      BY <1>8, HandWorthType DEF ThreadTypes
    <3>2. HandWorth(a, plate[t]) = 0
      BY <1>5, NothingInHand
    <3>3. HandWorth(a, p) = AsPlates(a, m, 1) /\ AsPlates(a, m, 1) \in Int
      BY <2>1 DEF AsPlate, AsPlates
    <3> QED
      BY <1>6, <1>7, <2>6, <3>1, <3>2, <3>3 DEF Mine
  <2>8. SharedTypes'
    <3>1. empty \in [Mappings -> Nat]
      BY DEF SlabKnown, Shape, SharedTypes
    <3>2. empty[m] - 1 \in Nat
      BY <1>9, <3>1
    <3> QED
      BY <1>1, <1>9, <3>2 DEF SlabKnown, Shape, SharedTypes
  <2>9. Shape'
    BY <1>7, <2>6, <2>8 DEF Shape
  <2>10. \A i \in Mappings :
            (remaining'[i] - empty'[i]) - (remaining[i] - empty[i]) = IF i = m THEN 1 ELSE 0
    BY <1>1, <1>9 DEF SlabKnown, Shape, SharedTypes
  <2> QED
    <3>1. UNCHANGED <<free, issued, credit>> /\ 1 \in Int
      BY <1>1
    <3> QED
      BY <2>7, <2>9, <2>10, <3>1, BooksTraded
<1>10. CASE UNCHANGED <<empty, plate>> /\ todo' = [todo EXCEPT ![t] = <<y>> \o Tail(@)]
  <2> DEFINE f == <<y>> \o r
  <2>1. y \in Steps /\ y \in Seekers
    BY DoIsSeeker
  <2>2. f \in Seq(Steps)
    BY <1>4, <2>1
  <2>3. ASSUME NEW a
        PROVE  ListWorth(a, t, f) = ListWorth(a, t, todo[t]) /\ ListWorth(a, t, todo[t]) \in Nat
    <3> HIDE DEF y
    <3>1. ListWorth(a, t, <<y>> \o r) = StepWorth(a, y) + ListWorth(a, t, r)
      BY <1>4, <2>1, ListOfMore
    <3> QED
      BY <1>6, <2>1, <3>1, WorthOfSeeker
  <2>4. AfterErrands(f, node[t], secondary[t], home[t], disabled[t], plate[t])
    BY <1>5
  <2>5. Known(node[t], secondary[t], cursor[t], home[t], disabled[t], plate[t], f)
    BY <1>4, <2>2, <2>4, IsKnownAtOnce
  <2>6. Becomes(t, node[t], secondary[t], cursor[t], home[t], disabled[t], plate[t], f)
    BY <1>1, <1>8, <1>10, Stay DEF Becomes, r
  <2> HIDE DEF f
  <2>7. /\ ThreadTypes' /\ ThreadsKnown'
        /\ \A a : Owned(a)' - Owned(a)
                      = (Mine(a, t, node[t], secondary[t], plate[t], f)
                            - Mine(a, t, node[t], secondary[t], plate[t], todo[t]))
                         + (StoreSum(a, stored') - StoreSum(a, stored))
    BY <1>8, <2>5, <2>6, CallMoves
  <2>8. ASSUME NEW a
        PROVE  Owned(a)' - Owned(a) = 0
    <3>1. HandWorth(a, node[t]) \in Nat /\ HandWorth(a, secondary[t]) \in Nat
      BY <1>8, HandWorthType DEF ThreadTypes
    <3>2. HandWorth(a, plate[t]) = 0
      BY <1>5, NothingInHand
    <3> QED
      BY <1>7, <2>3, <2>7, <3>1, <3>2 DEF Mine
  <2>9. Shape'
    BY <1>1, <1>7, <1>10, <2>7 DEF SlabKnown, Shape, SharedTypes
  <2> QED
    BY <1>1, <1>10, <2>8, <2>9, BooksSame
<1> QED
  BY <1>2, <1>9, <1>10

\* The same step several times, worth one or nothing.
LEMMA ListOfSame ==
  ASSUME NEW t \in Users, NEW l \in Seq(Steps), NEW k \in Nat, NEW x \in Steps, NEW a,
         StepWorth(a, x) \in {0, 1}, NEW e \in [1..k -> {x}]
  PROVE  /\ e \o l \in Seq(Steps)
         /\ ListWorth(a, t, e \o l)
               = (IF StepWorth(a, x) = 1 THEN k ELSE 0) + ListWorth(a, t, l)
<1> DEFINE m == e \o l
           R == {<<t, Len(l) + j, x>> : j \in 0..(k - 1)}
<1>1. e \in Seq(Steps) /\ Len(e) = k
  BY LenProperties, SeqDef
<1>2. \A i \in 1..k : e[i] = x
  OBVIOUS
<1>3. Len(l) \in Nat
  OBVIOUS
<1>4. m \in Seq(Steps) /\ Len(m) = k + Len(l)
      /\ (\A i \in 1..k : m[i] = x) /\ \A i \in 1..Len(l) : m[i + k] = l[i]
  <2>1. m \in Seq(Steps) /\ Len(m) = k + Len(l)
    BY <1>1
  <2>2. ASSUME NEW i \in 1..k
        PROVE  m[i] = x
    <3>1. m[i] = e[i]
      BY <1>1, <1>3
    <3> QED
      BY <3>1, <1>2
  <2>3. ASSUME NEW i \in 1..Len(l)
        PROVE  m[i + k] = l[i]
    <3>1. i + k \in 1..(Len(e) + Len(l)) /\ i + k > Len(e) /\ (i + k) - Len(e) = i
      BY <1>1, <1>3
    <3> QED
      BY <1>1, <1>3, <3>1
  <2> QED
    BY <2>1, <2>2, <2>3
<1> HIDE DEF m
<1>5. StepsOf(t, m) = StepsOf(t, l) \cup R
  <2>1. ASSUME NEW i \in 0..(Len(l) - 1)
        PROVE  m[Len(m) - i] = l[Len(l) - i] /\ i \in 0..(Len(m) - 1)
    <3>1. Len(l) - i \in 1..Len(l) /\ Len(m) - i = (Len(l) - i) + k
      BY <1>3, <1>4
    <3> QED
      BY <1>3, <1>4, <3>1
  <2>2. ASSUME NEW j \in 0..(k - 1)
        PROVE  m[Len(m) - (Len(l) + j)] = x /\ Len(l) + j \in 0..(Len(m) - 1)
    <3>1. Len(m) - (Len(l) + j) \in 1..k
      BY <1>3, <1>4
    <3> QED
      BY <1>3, <1>4, <3>1
  <2>3. ASSUME NEW i \in 0..(Len(m) - 1)
        PROVE  i \in 0..(Len(l) - 1) \/ \E j \in 0..(k - 1) : i = Len(l) + j
    <3>1. CASE i < Len(l)
      BY <1>3, <3>1
    <3>2. CASE i >= Len(l)
      <4>1. i - Len(l) \in 0..(k - 1) /\ i = Len(l) + (i - Len(l))
        BY <1>3, <1>4, <3>2
      <4> QED
        BY <4>1
    <3> QED
      BY <1>3, <3>1, <3>2
  <2>4. ASSUME NEW z \in StepsOf(t, m)
        PROVE  z \in StepsOf(t, l) \cup R
    <3>1. PICK i \in 0..(Len(m) - 1) : z = <<t, i, m[Len(m) - i]>>
      BY DEF StepsOf
    <3>2. CASE i \in 0..(Len(l) - 1)
      BY <2>1, <3>1, <3>2 DEF StepsOf
    <3>3. ASSUME NEW j \in 0..(k - 1), i = Len(l) + j
          PROVE  z \in R
      BY <2>2, <3>1, <3>3
    <3> QED
      BY <2>3, <3>2, <3>3
  <2>5. StepsOf(t, l) \subseteq StepsOf(t, m)
    BY <2>1 DEF StepsOf
  <2>6. ASSUME NEW j \in 0..(k - 1)
        PROVE  <<t, Len(l) + j, x>> \in StepsOf(t, m)
    <3> DEFINE i == Len(l) + j
    <3>1. i \in 0..(Len(m) - 1) /\ m[Len(m) - i] = x
      BY <2>2
    <3> HIDE DEF i
    <3>2. <<t, i, x>> \in StepsOf(t, m)
      BY <3>1 DEF StepsOf
    <3> QED
      BY <3>2 DEF i
  <2> QED
    BY <2>4, <2>5, <2>6
<1>6. StepsOf(t, l) \cap R = {}
  BY <1>3 DEF StepsOf
<1>7. IsFiniteSet(R) /\ Cardinality(R) = k
  <2>1. [j \in 0..(k - 1) |-> <<t, Len(l) + j, x>>] \in Bijection(0..(k - 1), R)
    <3> DEFINE f == [j \in 0..(k - 1) |-> <<t, Len(l) + j, x>>]
    <3>1. f \in [0..(k - 1) -> R]
      OBVIOUS
    <3>2. ASSUME NEW i \in 0..(k - 1), NEW j \in 0..(k - 1), f[i] = f[j]
          PROVE  i = j
      <4>1. Len(l) + i = Len(l) + j
        BY <3>2
      <4> QED
        BY <4>1, <1>3
    <3>3. \A z \in R : \E j \in 0..(k - 1) : f[j] = z
      OBVIOUS
    <3> HIDE DEF f, R
    <3>4. f \in Injection(0..(k - 1), R)
      BY <3>1, <3>2 DEF Injection, IsInjective
    <3>5. f \in Surjection(0..(k - 1), R)
      BY <3>1, <3>3 DEF Surjection
    <3>6. f \in Bijection(0..(k - 1), R)
      BY <3>4, <3>5 DEF Bijection
    <3> QED
      BY <3>6 DEF f
  <2>2. IsFiniteSet(0..(k - 1)) /\ Cardinality(0..(k - 1)) = k
    <3>1. 0 \in Int /\ k - 1 \in Int
      OBVIOUS
    <3>2. IsFiniteSet(0..(k - 1)) /\ Cardinality(0..(k - 1)) = IF 0 > k - 1 THEN 0 ELSE (k - 1) - 0 + 1
      BY <3>1, FS_Interval
    <3> QED
      BY <3>2
  <2> HIDE DEF R
  <2> QED
    BY <2>1, <2>2, FS_Bijection DEF ExistsBijection
<1>8. \A z \in R : StepW(a)[z] = StepWorth(a, x)
  BY <1>3 DEF StepW
<1> HIDE DEF R
<1>9. IsFiniteSet(StepsOf(t, l)) /\ \A z \in StepsOf(t, l) : StepW(a)[z] \in Nat
  BY StepsOfFinite
<1>10. SumOf(StepW(a), R) = IF StepWorth(a, x) = 1 THEN k ELSE 0
  <2> DEFINE v == StepWorth(a, x)
  <2>1. Laid(StepW(a), R) = R \X (1..v)
    BY <1>8 DEF Laid
  <2>2. IsFiniteSet(1..v) /\ Cardinality(1..v) = v
    BY FS_Interval
  <2>3. Cardinality(R \X (1..v)) = k * v
    BY <1>7, <2>2, FS_Product, Zenon
  <2>4. k * 1 = k /\ k * 0 = 0
    OBVIOUS
  <2> QED
    BY <2>1, <2>3, <2>4 DEF SumOf
<1>11. /\ SumOf(StepW(a), StepsOf(t, l) \cup R) = SumOf(StepW(a), StepsOf(t, l)) + SumOf(StepW(a), R)
       /\ SumOf(StepW(a), StepsOf(t, l)) \in Nat
  <2>1. \A z \in StepsOf(t, l) \cup R : StepW(a)[z] \in Nat
    BY <1>8, <1>9
  <2> QED
    BY <1>6, <1>7, <1>9, <2>1, SumOfBoth
<1>12. ListWorth(a, t, m) = (IF StepWorth(a, x) = 1 THEN k ELSE 0) + ListWorth(a, t, l)
  BY <1>5, <1>10, <1>11 DEF ListWorth
<1> QED
  BY <1>4, <1>12 DEF m

LEMMA MapPlatesKeeps ==
  ASSUME SlabKnown, NEW t \in Users, Slab!MapPlates(t)
  PROVE  SlabKnown'
<1> DEFINE r == Tail(todo[t])
           k == PlatesEach - 1
<1>1. /\ todo[t] # <<>> /\ Head(todo[t]).do = "mapPlates"
      /\ UNCHANGED <<free, issued, stored, credit, empty, node, secondary, cursor, home, disabled>>
  BY DEF Slab!MapPlates, Slab!At, Slab!First, Slab!layer1
<1>2. \/ \E m \in Mappings :
            /\ remaining[m] = 0
            /\ remaining' = [remaining EXCEPT ![m] = PlatesEach]
            /\ plate' = [plate EXCEPT ![t] = Slab!EmptyPlate(m)]
            /\ todo' = [todo EXCEPT ![t] =
                          [i \in 1..k |-> Slab!DoOn("pushEmpty", Slab!EmptyPlate(m))] \o Tail(@)]
      \/ /\ remaining' = remaining
         /\ plate' = [plate EXCEPT ![t] = None]
         /\ todo' = [todo EXCEPT ![t] = <<>> \o Tail(@)]
  <2> DEFINE U == {i \in Mappings : remaining[i] = 0}
             m == CHOOSE i \in U : TRUE
             Mapped(i) ==
               /\ remaining' = [remaining EXCEPT ![i] = PlatesEach]
               /\ plate' = [plate EXCEPT ![t] = Slab!EmptyPlate(i)]
               /\ todo' = [todo EXCEPT ![t] =
                          [j \in 1..k |-> Slab!DoOn("pushEmpty", Slab!EmptyPlate(i))] \o Tail(@)]
  <2>1. \/ U # {} /\ Mapped(m)
        \/ /\ remaining' = remaining
           /\ plate' = [plate EXCEPT ![t] = None]
           /\ todo' = [todo EXCEPT ![t] = <<>> \o Tail(@)]
    BY DEF Slab!MapPlates, Slab!Set, Slab!Then
  <2>2. U # {} => m \in U
    OBVIOUS
  <2> HIDE DEF m
  <2>3. ASSUME m \in U, Mapped(m)
        PROVE  \E i \in Mappings : remaining[i] = 0 /\ Mapped(i)
    BY <2>3
  <2> QED
    BY <2>1, <2>2, <2>3
<1>3. Head(todo[t]).do \notin ErrandNames
  BY <1>1 DEF ErrandNames
<1>4. /\ Keeps(node[t], secondary[t], cursor[t], home[t], disabled[t], plate[t])
      /\ AfterErrands(todo[t], node[t], secondary[t], home[t], disabled[t], plate[t])
      /\ todo[t] \in Seq(Steps) /\ r \in Seq(Steps)
      /\ \A a : ListWorth(a, t, todo[t]) = StepWorth(a, Head(todo[t])) + ListWorth(a, t, r)
  BY <1>1, <1>3, CallHead
<1>5. /\ plate[t] = None /\ Head(todo[t]) \in Seekers
      /\ \A p \in Bare \cup {None} : AfterErrands(r, node[t], secondary[t], home[t], disabled[t], p)
  BY <1>1, <1>4, GetsEmpty
<1>6. ASSUME NEW a
      PROVE  ListWorth(a, t, todo[t]) = ListWorth(a, t, r) /\ ListWorth(a, t, r) \in Nat
  <2>1. StepWorth(a, Head(todo[t])) = 0
    BY <1>5, WorthOfSeeker
  <2>2. ListWorth(a, t, r) \in Nat
    BY <1>4, ListWorthType
  <2> QED
    BY <1>4, <2>1, <2>2
<1>7. k \in Nat /\ PlatesEach \in Nat /\ k + 1 = PlatesEach
  BY SlabConstants
<1> HIDE DEF r, k
<1>8. /\ StoreKnown'
      /\ \A a : StoreSum(a, stored') = StoreSum(a, stored) /\ StoreSum(a, stored) \in Nat
  BY <1>1, StoresStay DEF SlabKnown
<1>9. ThreadTypes /\ \A a : StoreSum(a, stored') \in Int
  BY <1>8 DEF SlabKnown, Shape
<1>10. ASSUME NEW m \in Mappings, remaining[m] = 0,
             remaining' = [remaining EXCEPT ![m] = PlatesEach],
             plate' = [plate EXCEPT ![t] = Slab!EmptyPlate(m)],
             todo' = [todo EXCEPT ![t] =
                          [i \in 1..k |-> Slab!DoOn("pushEmpty", Slab!EmptyPlate(m))] \o Tail(@)]
       PROVE  SlabKnown'
  <2> DEFINE p == Slab!EmptyPlate(m)
             y == Slab!DoOn("pushEmpty", p)
             e == [i \in 1..k |-> y]
             l == e \o r
  <2>1. p \in Bare /\ p \in Whole /\ \A a : HandWorth(a, p) = AsPlate(a, m)
    BY EmptyPlateIsBare DEF Bare
  <2>2. y \in Errands /\ y \in Steps /\ \A a : StepWorth(a, y) = AsPlate(a, m)
    BY <2>1, EmptyErrand, ErrandsAreSteps
  <2> HIDE DEF p, y
  <2>3. e \in Seq(Errands)
    BY <1>7, <2>2, SeqDef
  <2>4. Becomes(t, node[t], secondary[t], cursor[t], home[t], disabled[t], p, l)
    BY <1>1, <1>4, <1>9, <1>10, Stay DEF Becomes, p, y, r
  <2>5. Keeps(node[t], secondary[t], cursor[t], home[t], disabled[t], p)
    BY <1>4, <2>1, KeepsPlate
  <2>6. AfterErrands(r, node[t], secondary[t], home[t], disabled[t], p)
    BY <1>5, <2>1
  <2>7. Known(node[t], secondary[t], cursor[t], home[t], disabled[t], p, l)
    <3> HIDE DEF e
    <3> QED
      BY <1>4, <2>3, <2>5, <2>6, IsKnown
  <2>8. ASSUME NEW a
        PROVE  ListWorth(a, t, l) = AsPlates(a, m, k) + ListWorth(a, t, todo[t])
    <3>1. StepWorth(a, y) \in {0, 1} /\ (StepWorth(a, y) = 1 <=> a[1] = "plates" /\ m = a[2])
      BY <2>2 DEF AsPlate
    <3>2. r \in Seq(Steps) /\ k \in Nat /\ y \in Steps /\ StepWorth(a, y) \in {0, 1}
      BY <1>4, <1>7, <2>2, <3>1
    <3>5. e \in [1..k -> {y}]
      OBVIOUS
    <3> HIDE DEF e
    <3>3. /\ e \o r \in Seq(Steps)
          /\ ListWorth(a, t, e \o r)
                = (IF StepWorth(a, y) = 1 THEN k ELSE 0) + ListWorth(a, t, r)
      BY <3>2, <3>5, ListOfSame
    <3>4. ListWorth(a, t, l) = (IF StepWorth(a, y) = 1 THEN k ELSE 0) + ListWorth(a, t, todo[t])
      BY <1>6, <3>3
    <3> QED
      BY <3>1, <3>4 DEF AsPlates
  <2> HIDE DEF l, e
  <2>9. /\ ThreadTypes' /\ ThreadsKnown'
        /\ \A a : Owned(a)' - Owned(a)
                      = (Mine(a, t, node[t], secondary[t], p, l)
                            - Mine(a, t, node[t], secondary[t], plate[t], todo[t]))
                         + (StoreSum(a, stored') - StoreSum(a, stored))
    BY <1>9, <2>4, <2>7, CallMoves
  <2>10. ASSUME NEW a
         PROVE  Owned(a)' - Owned(a) = AsPlates(a, m, PlatesEach)
    <3>1. HandWorth(a, node[t]) \in Nat /\ HandWorth(a, secondary[t]) \in Nat
      BY <1>9, HandWorthType DEF ThreadTypes
    <3>2. HandWorth(a, plate[t]) = 0
      BY <1>5, NothingInHand
    <3>3. HandWorth(a, p) = AsPlates(a, m, 1) /\ AsPlates(a, m, 1) \in Int
      BY <2>1 DEF AsPlate, AsPlates
    <3>4. AsPlates(a, m, k) + AsPlates(a, m, 1) = AsPlates(a, m, PlatesEach) /\ AsPlates(a, m, k) \in Int
      BY <1>7 DEF AsPlates
    <3>5. ListWorth(a, t, todo[t]) \in Nat
      BY <1>6
    <3>6. /\ Mine(a, t, node[t], secondary[t], p, l)
                = HandWorth(a, node[t]) + HandWorth(a, secondary[t]) + AsPlates(a, m, 1)
                     + (AsPlates(a, m, k) + ListWorth(a, t, todo[t]))
          /\ Mine(a, t, node[t], secondary[t], plate[t], todo[t])
                = HandWorth(a, node[t]) + HandWorth(a, secondary[t]) + 0 + ListWorth(a, t, todo[t])
      BY <2>8, <3>2, <3>3 DEF Mine
    <3> QED
      BY <1>8, <2>9, <3>1, <3>3, <3>4, <3>5, <3>6
  <2>11. SharedTypes'
    <3>1. remaining \in [Mappings -> Int] /\ PlatesEach \in Int
      BY <1>7 DEF SlabKnown, Shape, SharedTypes
    <3> QED
      BY <1>1, <1>10, <3>1 DEF SlabKnown, Shape, SharedTypes
  <2>12. Shape'
    BY <1>8, <2>9, <2>11 DEF Shape
  <2>13. \A i \in Mappings :
            (remaining'[i] - empty'[i]) - (remaining[i] - empty[i]) = IF i = m THEN PlatesEach ELSE 0
    BY <1>1, <1>7, <1>10 DEF SlabKnown, Shape, SharedTypes
  <2>14. UNCHANGED <<free, issued, credit>> /\ PlatesEach \in Int
    BY <1>1, <1>7
  <2> QED
    BY <2>10, <2>12, <2>13, <2>14, BooksTraded
<1>11. CASE /\ remaining' = remaining
            /\ plate' = [plate EXCEPT ![t] = None]
            /\ todo' = [todo EXCEPT ![t] = <<>> \o Tail(@)]
  <2>1. AfterErrands(r, node[t], secondary[t], home[t], disabled[t], None)
    BY <1>5
  <2>2. Keeps(node[t], secondary[t], cursor[t], home[t], disabled[t], None)
    BY <1>4, KeepsPlate
  <2>3. Known(node[t], secondary[t], cursor[t], home[t], disabled[t], None, r)
    BY <1>4, <2>1, <2>2, IsKnownAtOnce
  <2>4. Becomes(t, node[t], secondary[t], cursor[t], home[t], disabled[t], None, r)
    BY <1>1, <1>4, <1>9, <1>11, Stay DEF Becomes, r
  <2>5. /\ ThreadTypes' /\ ThreadsKnown'
        /\ \A a : Owned(a)' - Owned(a)
                      = (Mine(a, t, node[t], secondary[t], None, r)
                            - Mine(a, t, node[t], secondary[t], plate[t], todo[t]))
                         + (StoreSum(a, stored') - StoreSum(a, stored))
    BY <1>9, <2>3, <2>4, CallMoves
  <2>6. ASSUME NEW a
        PROVE  Owned(a)' - Owned(a) = 0
    <3>1. HandWorth(a, node[t]) \in Nat /\ HandWorth(a, secondary[t]) \in Nat
      BY <1>9, HandWorthType DEF ThreadTypes
    <3>2. HandWorth(a, plate[t]) = HandWorth(a, None) /\ HandWorth(a, None) = 0
      BY <1>5, NothingInHand
    <3> QED
      BY <1>6, <1>8, <2>5, <3>1, <3>2 DEF Mine
  <2>7. Shape'
    BY <1>1, <1>8, <1>11, <2>5 DEF SlabKnown, Shape, SharedTypes
  <2> QED
    BY <1>1, <1>11, <2>6, <2>7, BooksSame
<1> QED
  BY <1>2, <1>10, <1>11

LEMMA CallStep ==
  ASSUME SlabKnown, NEW t \in Users,
         NEW n, NEW s, NEW c, NEW h, NEW d, NEW q, NEW l,
         Known(n, s, c, h, d, q, l), Becomes(t, n, s, c, h, d, q, l),
         SharedTypes', StoreKnown', \A a : StoreSum(a, stored') \in Int
  PROVE  /\ Shape'
         /\ \A a : /\ Owned(a)' - Owned(a)
                      = ((HandWorth(a, n) + HandWorth(a, s) + HandWorth(a, q) + ListWorth(a, t, l))
                            - (HandWorth(a, node[t]) + HandWorth(a, secondary[t])
                                  + HandWorth(a, plate[t]) + ListWorth(a, t, todo[t])))
                         + (StoreSum(a, stored') - StoreSum(a, stored))
                   /\ HandWorth(a, n) \in Nat /\ HandWorth(a, s) \in Nat
                   /\ HandWorth(a, q) \in Nat /\ ListWorth(a, t, l) \in Nat
                   /\ HandWorth(a, node[t]) \in Nat /\ HandWorth(a, secondary[t]) \in Nat
                   /\ HandWorth(a, plate[t]) \in Nat /\ ListWorth(a, t, todo[t]) \in Nat
                   /\ StoreSum(a, stored) \in Nat
<1>1. /\ ThreadTypes' /\ ThreadsKnown'
      /\ \A a : Owned(a)' - Owned(a)
                      = (Mine(a, t, n, s, q, l)
                            - Mine(a, t, node[t], secondary[t], plate[t], todo[t]))
                         + (StoreSum(a, stored') - StoreSum(a, stored))
  BY CallMoves
<1>2. Shape'
  BY <1>1 DEF Shape
<1>3. /\ n \in Carried /\ s \in Carried /\ q \in Carried /\ l \in Seq(Steps)
      /\ node[t] \in Carried /\ secondary[t] \in Carried /\ plate[t] \in Carried
      /\ todo[t] \in Seq(Steps)
  <2>1. n \in Carried /\ s \in Carried /\ q \in Carried /\ l \in Seq(Steps)
    BY KnownTypes
  <2> QED
    BY <2>1 DEF SlabKnown, Shape, ThreadTypes
<1>4. ASSUME NEW a
      PROVE  /\ HandWorth(a, n) \in Nat /\ HandWorth(a, s) \in Nat
             /\ HandWorth(a, q) \in Nat /\ ListWorth(a, t, l) \in Nat
             /\ HandWorth(a, node[t]) \in Nat /\ HandWorth(a, secondary[t]) \in Nat
             /\ HandWorth(a, plate[t]) \in Nat /\ ListWorth(a, t, todo[t]) \in Nat
             /\ StoreSum(a, stored) \in Nat
  BY <1>3, HandWorthType, ListWorthType, OwnedType DEF SlabKnown
<1> QED
  BY <1>1, <1>2, <1>4 DEF Mine

\* A plate is popped from a store.
LEMMA StorePops ==
  ASSUME SlabKnown, NEW w \in {"full", "partial"}, NEW h \in AllHomes, NEW p \in DOMAIN stored[w][h],
         stored' = [stored EXCEPT ![w][h] = Slab!Removing(@, p)]
  PROVE  /\ StoreKnown' /\ p \in Whole /\ p \in Plates /\ p.used > 0 /\ p.used = Len(p.entries)
         /\ (w = "full" <=> p.used = Capacity)
         /\ \A a : /\ StoreSum(a, stored') = StoreSum(a, stored) - (HandWorth(a, p) + AsCredit(a, h, p.used))
                   /\ StoreSum(a, stored) \in Nat /\ StoreSum(a, stored') \in Int
                   /\ HandWorth(a, p) \in Nat /\ AsCredit(a, h, p.used) \in Int
<1>1. w \in Slab!Stores /\ Shape
  BY DEF SlabKnown, Slab!Stores
<1>2. /\ StoreKnown' /\ p \in Whole /\ p.used > 0 /\ p.entries[1] = h
      /\ (w = "full" <=> p.used = Capacity)
      /\ \A a : /\ StoreSum(a, stored') = StoreSum(a, stored) - StoreWorth(a, p)
                /\ StoreSum(a, stored) \in Nat /\ StoreWorth(a, p) \in Nat
  BY <1>1, StoresLose, Zenon
<1>3. p \in Plates /\ p.used = Len(p.entries) /\ p.used \in Nat
  BY <1>2 DEF Whole, Plates
<1>4. ASSUME NEW a
      PROVE  /\ StoreSum(a, stored') = StoreSum(a, stored) - (HandWorth(a, p) + AsCredit(a, h, p.used))
             /\ StoreSum(a, stored) \in Nat /\ StoreSum(a, stored') \in Int
             /\ HandWorth(a, p) \in Nat /\ AsCredit(a, h, p.used) \in Int
  <2>1. HandWorth(a, p) \in Nat /\ AsCredit(a, h, p.used) \in Int
    BY <1>3, HandWorthType DEF AsCredit, Carried
  <2>2. StoreWorth(a, p) = HandWorth(a, p) + AsCredit(a, h, p.used)
    BY <1>2, <1>3, WorthInStore
  <2>3. /\ StoreSum(a, stored') = StoreSum(a, stored) - StoreWorth(a, p)
        /\ StoreSum(a, stored) \in Nat
    BY <1>2
  <2> QED
    BY <2>1, <2>2, <2>3
<1> QED
  BY <1>2, <1>3, <1>4

\* What comes before the use of a full plate, and what must hold then.
LEMMA FullFollows ==
  ASSUME NEW r, NEW n, NEW s, NEW h, NEW d, NEW q, AfterErrands(r, n, s, h, d, q), r # <<>>,
         Head(r).do \in {"seekFull", "seekPartial", "fill", "refill"}
  PROVE  \E x \in Seekers :
            /\ WantsFull(x, n, s) /\ r = <<Slab!Do(Head(r).do), x>>
            /\ Head(r).do = "seekFull" => q = None
            /\ Head(r).do = "seekPartial" => q = None /\ h # None
            /\ Head(r).do = "fill" => h # None
            /\ Head(r).do = "refill" => h # None /\ q # None /\ q.used < Capacity
<1>1. CASE \E x \in Seekers : /\ WantsFull(x, n, s)
                  /\ \/ r = <<x>> /\ (q # None => q.used = Capacity)
                     \/ r = <<Slab!Do("refill"), x>> /\ h # None /\ q # None /\ q.used < Capacity
                     \/ r = <<Slab!Do("fill"), x>> /\ h # None
                     \/ r = <<Slab!Do("seekFull"), x>> /\ q = None
                     \/ r = <<Slab!Do("seekPartial"), x>> /\ q = None /\ h # None
                     \/ \E w \in {"popEmpty", "mapPlates"} :
                           r = <<Slab!Do(w), Slab!Do("fill"), x>> /\ q = None /\ h # None
  <2>1. PICK x \in Seekers : /\ WantsFull(x, n, s)
                  /\ \/ r = <<x>> /\ (q # None => q.used = Capacity)
                     \/ r = <<Slab!Do("refill"), x>> /\ h # None /\ q # None /\ q.used < Capacity
                     \/ r = <<Slab!Do("fill"), x>> /\ h # None
                     \/ r = <<Slab!Do("seekFull"), x>> /\ q = None
                     \/ r = <<Slab!Do("seekPartial"), x>> /\ q = None /\ h # None
                     \/ \E w \in {"popEmpty", "mapPlates"} :
                           r = <<Slab!Do(w), Slab!Do("fill"), x>> /\ q = None /\ h # None
    BY <1>1
  <2>2. x.do \in {"install", "direct"}
    BY <2>1, FullUsers
  <2>3. r # <<x>>
    BY <2>2
  <2>4. ~ \E w \in {"popEmpty", "mapPlates"} : r = <<Slab!Do(w), Slab!Do("fill"), x>>
    BY DEF Slab!Do
  <2>5. \/ r = <<Slab!Do("refill"), x>> /\ Head(r).do = "refill" /\ h # None /\ q # None /\ q.used < Capacity
        \/ r = <<Slab!Do("fill"), x>> /\ Head(r).do = "fill" /\ h # None
        \/ r = <<Slab!Do("seekFull"), x>> /\ Head(r).do = "seekFull" /\ q = None
        \/ r = <<Slab!Do("seekPartial"), x>> /\ Head(r).do = "seekPartial" /\ q = None /\ h # None
    BY <2>1, <2>3, <2>4 DEF Slab!Do
  <2> QED
    BY <2>1, <2>5
<1>2. CASE \E x \in Bearers \cup HolderSteps :
          /\ WantsEmpty(x, n, s, d)
          /\ \/ r = <<x>> /\ (q # None => q \in Bare)
             \/ \E w \in {"popEmpty", "mapPlates"} : r = <<Slab!Do(w), x>> /\ q = None
  BY <1>2, NamesOfSteps DEF Slab!Do
<1>3. CASE \E x \in Bearers : Finishes(x, n, s) /\ r = <<x>> /\ q = None
  BY <1>3, NamesOfSteps
<1> QED
  BY <1>1, <1>2, <1>3 DEF AfterErrands

LEMMA MayFollow ==
  ASSUME NEW x \in Seekers, NEW n, NEW s, NEW h, NEW d, NEW q, WantsFull(x, n, s)
  PROVE  /\ (q # None => q.used = Capacity) => AfterErrands(<<x>>, n, s, h, d, q)
         /\ h # None /\ q # None /\ q.used < Capacity
               => AfterErrands(<<Slab!Do("refill"), x>>, n, s, h, d, q)
         /\ h # None => AfterErrands(<<Slab!Do("fill"), x>>, n, s, h, d, q)
         /\ q = None => AfterErrands(<<Slab!Do("seekFull"), x>>, n, s, h, d, q)
         /\ q = None /\ h # None => AfterErrands(<<Slab!Do("seekPartial"), x>>, n, s, h, d, q)
         /\ q = None /\ h # None
               => AfterErrands(<<Slab!Do("popEmpty"), Slab!Do("fill"), x>>, n, s, h, d, q)
BY DEF AfterErrands

Shifted(a, t, n, s, q, l) ==
    Owned(a)' - Owned(a) = (Mine(a, t, n, s, q, l)
                               - Mine(a, t, node[t], secondary[t], plate[t], todo[t]))
                            + (StoreSum(a, stored') - StoreSum(a, stored))

LEMMA CallShifts ==
  ASSUME SlabKnown, NEW t \in Users,
         NEW n, NEW s, NEW c, NEW h, NEW d, NEW q, NEW l,
         Known(n, s, c, h, d, q, l), Becomes(t, n, s, c, h, d, q, l),
         \A a : StoreSum(a, stored') \in Int
  PROVE  ThreadTypes' /\ ThreadsKnown' /\ \A a : Shifted(a, t, n, s, q, l)
BY CallMoves DEF Shifted
-----------------------------------------------------------------------------
(* layer2_acquire_full_cache *)

LEMMA TheNextHome ==
  Slab!NextHome \in AllHomes
<1> DEFINE U == {u \in Users : home[u] # None}
<1>1. IsFiniteSet(U)
  BY SlabConstants, FS_Subset
<1> HIDE DEF U
<1>2. Cardinality(U) \in Nat
  BY <1>1, FS_CardinalityType
<1>3. Slab!Cardinality(U) \in Nat
  BY <1>2, SlabCardinality
<1>4. Slab!NextHome = Slab!Cardinality(U) % Homes
  BY DEF Slab!NextHome, U
<1>5. \A i \in Nat : i % Homes \in 0..(Homes - 1)
  BY SlabConstants
<1> QED
  BY <1>3, <1>4, <1>5, SlabConstants

LEMMA SeekFullKeeps ==
  ASSUME SlabKnown, NEW t \in Users, Slab!SeekFull(t)
  PROVE  SlabKnown'
<1> DEFINE h == IF home[t] = None THEN Slab!NextHome ELSE home[t]
           l == todo[t]
           r == Tail(l)
<1>1. /\ l # <<>> /\ Head(l).do = "seekFull" /\ home' = [home EXCEPT ![t] = h]
      /\ UNCHANGED <<free, issued, empty, credit, remaining, node, secondary, cursor, disabled>>
      /\ \/ \E p \in DOMAIN stored["full"][h] :
               /\ stored' = [stored EXCEPT !["full"][h] = Slab!Removing(@, p)]
               /\ plate' = [plate EXCEPT ![t] = p]
               /\ todo' = [todo EXCEPT ![t] = <<Slab!Repay(h, p)>> \o r]
         \/ /\ todo' = [todo EXCEPT ![t] = <<Slab!Do("seekPartial")>> \o r]
            /\ stored' = stored /\ plate' = plate
  BY DEF Slab!SeekFull, Slab!At, Slab!First, Slab!Then, Slab!Set, Slab!Popped
<1>2. /\ Keeps(node[t], secondary[t], cursor[t], home[t], disabled[t], plate[t])
      /\ AfterErrands(l, node[t], secondary[t], home[t], disabled[t], plate[t])
      /\ l \in Seq(Steps) /\ r \in Seq(Steps)
      /\ \A a : ListWorth(a, t, l) = StepWorth(a, Head(l)) + ListWorth(a, t, r)
  BY <1>1, CallHead DEF ErrandNames
<1>3. PICK x \in Seekers : /\ WantsFull(x, node[t], secondary[t]) /\ l = <<Slab!Do("seekFull"), x>>
                           /\ plate[t] = None
  BY <1>1, <1>2, FullFollows
<1>4. h \in AllHomes /\ h # None
  BY <1>2, TheNextHome, SlabConstants DEF Keeps
<1>5. SharedTypes' /\ ThreadTypes
  BY <1>1 DEF SlabKnown, Shape, SharedTypes
<1> HIDE DEF h
<1>6. r = <<x>> /\ Slab!Do("seekPartial") \in Steps /\ Slab!Do("seekPartial") \in Seekers /\ x \in Steps
      /\ Slab!Do("seekFull") \in Seekers /\ Slab!Do("seekFull") \in Steps
  BY <1>3, DoIsSeeker
<1>7. \A a : ListWorth(a, t, l) = 0
  <2> DEFINE y == Slab!Do("seekFull")
  <2>1. y \in Seekers /\ y \in Steps /\ x \in Steps
    BY <1>6
  <2> HIDE DEF y
  <2>2. \A a : ListWorth(a, t, <<y, x>>) = StepWorth(a, y) + StepWorth(a, x)
    BY <2>1, ListOfTwo
  <2>3. \A a : StepWorth(a, y) = 0 /\ StepWorth(a, x) = 0
    BY <2>1, WorthOfSeeker
  <2>4. \A a : ListWorth(a, t, <<y, x>>) = 0
    BY <2>2, <2>3
  <2> QED
    BY <1>3, <2>4 DEF y
<1>8. ASSUME NEW p \in DOMAIN stored["full"][h],
             stored' = [stored EXCEPT !["full"][h] = Slab!Removing(@, p)],
             plate' = [plate EXCEPT ![t] = p],
             todo' = [todo EXCEPT ![t] = <<Slab!Repay(h, p)>> \o r]
      PROVE  SlabKnown'
  <2> DEFINE y == Slab!Repay(h, p)
             k == <<y>> \o r
  <2>1. /\ StoreKnown' /\ p \in Whole /\ p \in Plates /\ p.used = Capacity /\ p.used = Len(p.entries)
        /\ \A a : /\ StoreSum(a, stored') = StoreSum(a, stored) - (HandWorth(a, p) + AsCredit(a, h, p.used))
                  /\ StoreSum(a, stored) \in Nat /\ StoreSum(a, stored') \in Int
                  /\ HandWorth(a, p) \in Nat /\ AsCredit(a, h, p.used) \in Int
    <3>1. ASSUME NEW w \in {"full", "partial"}, w = "full"
          PROVE  /\ StoreKnown' /\ p \in Whole /\ p \in Plates /\ p.used = Capacity /\ p.used = Len(p.entries)
                 /\ \A a : /\ StoreSum(a, stored') = StoreSum(a, stored) - (HandWorth(a, p) + AsCredit(a, h, p.used))
                           /\ StoreSum(a, stored) \in Nat /\ StoreSum(a, stored') \in Int
                           /\ HandWorth(a, p) \in Nat /\ AsCredit(a, h, p.used) \in Int
      BY <1>4, <1>8, <3>1, StorePops
    <3> QED
      BY <3>1
  <2>2. y \in Errands /\ y \in Steps /\ \A a : StepWorth(a, y) = AsCredit(a, h, p.used)
    BY <1>4, <2>1, RepayIsErrand, ErrandsAreSteps
  <2> HIDE DEF y
  <2>3. AfterErrands(r, node[t], secondary[t], h, disabled[t], p)
    BY <1>3, <1>6, <2>1, MayFollow
  <2>4. Keeps(node[t], secondary[t], cursor[t], h, disabled[t], p)
    BY <1>2, <1>4, <2>1 DEF Keeps
  <2>5. <<y>> \in Seq(Errands)
    BY <2>2
  <2>6. Known(node[t], secondary[t], cursor[t], h, disabled[t], p, k)
    BY <1>2, <2>3, <2>4, <2>5, IsKnown
  <2>7. \A a : ListWorth(a, t, k) = AsCredit(a, h, p.used)
    <3>1. \A a : ListWorth(a, t, <<y, x>>) = StepWorth(a, y) + StepWorth(a, x)
      BY <1>6, <2>2, ListOfTwo
    <3>2. \A a : StepWorth(a, x) = 0
      BY WorthOfSeeker
    <3>3. k = <<y, x>>
      BY <1>6, <2>2, Pairs
    <3> HIDE DEF k
    <3> QED
      BY <2>1, <2>2, <3>1, <3>2, <3>3
  <2>8. Becomes(t, node[t], secondary[t], cursor[t], h, disabled[t], p, k)
    BY <1>1, <1>5, <1>8, Stay DEF Becomes, y
  <2> HIDE DEF k
  <2>9. /\ Shape'
        /\ \A a : /\ Owned(a)' - Owned(a)
                      = ((HandWorth(a, node[t]) + HandWorth(a, secondary[t]) + HandWorth(a, p) + ListWorth(a, t, k))
                            - (HandWorth(a, node[t]) + HandWorth(a, secondary[t])
                                  + HandWorth(a, plate[t]) + ListWorth(a, t, l)))
                         + (StoreSum(a, stored') - StoreSum(a, stored))
                  /\ HandWorth(a, node[t]) \in Nat /\ HandWorth(a, secondary[t]) \in Nat
    BY <1>5, <2>1, <2>6, <2>8, CallStep
  <2>10. ASSUME NEW a
         PROVE  Owned(a)' - Owned(a) = 0
    <3>1. HandWorth(a, plate[t]) = 0
      BY <1>3, NothingInHand
    <3>2. /\ Owned(a)' - Owned(a)
                      = ((HandWorth(a, node[t]) + HandWorth(a, secondary[t]) + HandWorth(a, p) + AsCredit(a, h, p.used))
                            - (HandWorth(a, node[t]) + HandWorth(a, secondary[t]) + 0 + 0))
                         + (StoreSum(a, stored') - StoreSum(a, stored))
          /\ HandWorth(a, node[t]) \in Nat /\ HandWorth(a, secondary[t]) \in Nat
      BY <1>7, <2>7, <2>9, <3>1
    <3>3. /\ StoreSum(a, stored') = StoreSum(a, stored) - (HandWorth(a, p) + AsCredit(a, h, p.used))
          /\ StoreSum(a, stored) \in Nat
          /\ HandWorth(a, p) \in Nat /\ AsCredit(a, h, p.used) \in Int
      BY <2>1
    <3> QED
      BY <3>2, <3>3
  <2> QED
    BY <1>1, <2>9, <2>10, BooksSame
<1>9. CASE /\ todo' = [todo EXCEPT ![t] = <<Slab!Do("seekPartial")>> \o r]
           /\ stored' = stored /\ plate' = plate
  <2> DEFINE y == Slab!Do("seekPartial")
             k == <<y>> \o r
  <2>1. /\ StoreKnown'
        /\ \A a : StoreSum(a, stored') = StoreSum(a, stored) /\ StoreSum(a, stored') \in Int
    BY <1>9, StoresStay DEF SlabKnown
  <2>2. k = <<y, x>>
    <3>1. y \in Steps /\ x \in Steps
      BY <1>6
    <3> HIDE DEF y
    <3> QED
      BY <1>6, <3>1, Pairs
  <2>3. AfterErrands(k, node[t], secondary[t], h, disabled[t], plate[t])
    BY <1>3, <1>4, <2>2, MayFollow
  <2>4. Keeps(node[t], secondary[t], cursor[t], h, disabled[t], plate[t])
    BY <1>2, <1>4 DEF Keeps
  <2>5. k \in Seq(Steps)
    <3>1. y \in Steps /\ x \in Steps /\ k = <<y, x>>
      BY <1>6, <2>2
    <3> HIDE DEF y, k
    <3> QED
      BY <3>1, Pairs
  <2>6. Known(node[t], secondary[t], cursor[t], h, disabled[t], plate[t], k)
    BY <2>3, <2>4, <2>5, IsKnownAtOnce
  <2>7. \A a : ListWorth(a, t, k) = 0
    <3>0. y \in Steps /\ y \in Seekers
      BY <1>6
    <3> HIDE DEF y, k
    <3>1. \A a : ListWorth(a, t, <<y, x>>) = StepWorth(a, y) + StepWorth(a, x)
      BY <1>6, <3>0, ListOfTwo
    <3>2. \A a : StepWorth(a, x) = 0 /\ StepWorth(a, y) = 0
      BY <3>0, WorthOfSeeker
    <3> QED
      BY <2>2, <3>1, <3>2
  <2>8. Becomes(t, node[t], secondary[t], cursor[t], h, disabled[t], plate[t], k)
    BY <1>1, <1>5, <1>9, Stay DEF Becomes
  <2> HIDE DEF k
  <2>9. /\ Shape'
        /\ \A a : /\ Owned(a)' - Owned(a)
                      = ((HandWorth(a, node[t]) + HandWorth(a, secondary[t]) + HandWorth(a, plate[t]) + ListWorth(a, t, k))
                            - (HandWorth(a, node[t]) + HandWorth(a, secondary[t])
                                  + HandWorth(a, plate[t]) + ListWorth(a, t, l)))
                         + (StoreSum(a, stored') - StoreSum(a, stored))
                  /\ HandWorth(a, node[t]) \in Nat /\ HandWorth(a, secondary[t]) \in Nat
                  /\ HandWorth(a, plate[t]) \in Nat
    BY <1>5, <2>1, <2>6, <2>8, CallStep
  <2>10. ASSUME NEW a
         PROVE  Owned(a)' - Owned(a) = 0
    BY <1>7, <2>1, <2>7, <2>9
  <2> QED
    BY <1>1, <1>9, <2>9, <2>10, BooksSame
<1> QED
  BY <1>1, <1>8, <1>9

\* Steps that are worth nothing.
LEMMA SeekersLine ==
  ASSUME NEW t \in Users, NEW x \in Seekers, NEW y \in Seekers, NEW z \in Seekers
  PROVE  /\ <<x>> \in Seq(Steps) /\ <<y, x>> \in Seq(Steps) /\ <<z, y, x>> \in Seq(Steps)
         /\ <<y>> \o <<x>> = <<y, x>> /\ <<z, y>> \o <<x>> = <<z, y, x>>
         /\ \A a : /\ ListWorth(a, t, <<x>>) = 0 /\ ListWorth(a, t, <<y, x>>) = 0
                   /\ ListWorth(a, t, <<z, y, x>>) = 0
<1>1. x \in Steps /\ y \in Steps /\ z \in Steps
  BY DoIsSeeker
<1>2. \A a : StepWorth(a, x) = 0 /\ StepWorth(a, y) = 0 /\ StepWorth(a, z) = 0
  BY WorthOfSeeker
<1>3. ASSUME NEW a
      PROVE  /\ ListWorth(a, t, <<x>>) = 0 /\ ListWorth(a, t, <<y, x>>) = 0
             /\ ListWorth(a, t, <<z, y, x>>) = 0
  <2>1. ListWorth(a, t, <<x>>) = StepWorth(a, x)
    BY <1>1, ListOfOne
  <2>2. ListWorth(a, t, <<y, x>>) = StepWorth(a, y) + StepWorth(a, x)
    BY <1>1, ListOfTwo
  <2>3. ListWorth(a, t, <<z, y, x>>) = StepWorth(a, z) + (StepWorth(a, y) + StepWorth(a, x))
    BY <1>1, ListOfThree
  <2> QED
    BY <1>2, <2>1, <2>2, <2>3
<1>4. /\ <<x>> \in Seq(Steps) /\ <<y, x>> \in Seq(Steps) /\ <<y>> \o <<x>> = <<y, x>>
  BY <1>1, Pairs
<1>5. <<z, y, x>> \in Seq(Steps) /\ <<z, y>> \o <<x>> = <<z, y, x>>
  BY <1>1, Triples, Zenon
<1> QED
  BY <1>3, <1>4, <1>5

LEMMA SeekerAlone ==
  ASSUME NEW t \in Users, NEW x \in Seekers
  PROVE  <<x>> \in Seq(Steps) /\ \A a : ListWorth(a, t, <<x>>) = 0
BY ONLY SeekersLine, t \in Users, x \in Seekers, Zenon

LEMMA SeekerPair ==
  ASSUME NEW t \in Users, NEW x \in Seekers, NEW y \in Seekers
  PROVE  /\ <<y, x>> \in Seq(Steps) /\ <<y>> \o <<x>> = <<y, x>>
         /\ \A a : ListWorth(a, t, <<y, x>>) = 0
BY ONLY SeekersLine, t \in Users, x \in Seekers, y \in Seekers, Zenon

\* Nothing but the thread's steps changes, and they are worth nothing.
LEMMA SeekerGoesOn ==
  ASSUME SlabKnown, NEW t \in Users, NEW k \in Seq(Steps),
         Keeps(node[t], secondary[t], cursor[t], home[t], disabled[t], plate[t]),
         AfterErrands(k, node[t], secondary[t], home[t], disabled[t], plate[t]),
         \A a : ListWorth(a, t, k) = 0 /\ ListWorth(a, t, todo[t]) = 0,
         todo' = [todo EXCEPT ![t] = k],
         UNCHANGED <<free, issued, empty, credit, remaining, stored>>,
         UNCHANGED <<node, secondary, cursor, home, disabled, plate>>
  PROVE  SlabKnown'
<1>1. SharedTypes' /\ ThreadTypes
  BY DEF SlabKnown, Shape, SharedTypes
<1>2. /\ StoreKnown'
      /\ \A a : StoreSum(a, stored') = StoreSum(a, stored) /\ StoreSum(a, stored') \in Int
  BY StoresStay DEF SlabKnown
<1>3. Known(node[t], secondary[t], cursor[t], home[t], disabled[t], plate[t], k)
  BY IsKnownAtOnce
<1>4. Becomes(t, node[t], secondary[t], cursor[t], home[t], disabled[t], plate[t], k)
  BY <1>1, Stay DEF Becomes
<1>5. /\ Shape'
      /\ \A a : Owned(a)' - Owned(a)
                   = (Mine(a, t, node[t], secondary[t], plate[t], k)
                         - Mine(a, t, node[t], secondary[t], plate[t], todo[t]))
                      + (StoreSum(a, stored') - StoreSum(a, stored))
  <2>1. /\ ThreadTypes' /\ ThreadsKnown'
        /\ \A a : Owned(a)' - Owned(a)
                   = (Mine(a, t, node[t], secondary[t], plate[t], k)
                         - Mine(a, t, node[t], secondary[t], plate[t], todo[t]))
                      + (StoreSum(a, stored') - StoreSum(a, stored))
    BY <1>1, <1>2, <1>3, <1>4, CallMoves
  <2> QED
    BY <1>1, <1>2, <2>1 DEF Shape
<1>6. ASSUME NEW a
      PROVE  Owned(a)' - Owned(a) = 0
  <2>1. HandWorth(a, node[t]) \in Nat /\ HandWorth(a, secondary[t]) \in Nat /\ HandWorth(a, plate[t]) \in Nat
    BY <1>1, HandWorthType DEF ThreadTypes
  <2>2. ListWorth(a, t, k) = 0 /\ ListWorth(a, t, todo[t]) = 0
    OBVIOUS
  <2>3. StoreSum(a, stored') - StoreSum(a, stored) = 0
    BY <1>2
  <2> QED
    BY <1>5, <2>1, <2>2, <2>3 DEF Mine
<1> QED
  BY <1>5, <1>6, BooksSame

\* A plate is popped, and the one in hand and errands have what it had.
LEMMA SeekerPops ==
  ASSUME SlabKnown, NEW t \in Users, NEW w \in {"full", "partial"},
         NEW p \in DOMAIN stored[w][home[t]], home[t] \in AllHomes,
         stored' = [stored EXCEPT ![w][home[t]] = Slab!Removing(@, p)],
         NEW q \in Whole, NEW e \in Seq(Errands), NEW k \in Seq(Steps),
         Keeps(node[t], secondary[t], cursor[t], home[t], disabled[t], plate[t]),
         AfterErrands(k, node[t], secondary[t], home[t], disabled[t], q),
         \A a : /\ ListWorth(a, t, todo[t]) = 0
                /\ HandWorth(a, q) + ListWorth(a, t, e \o k)
                      = HandWorth(a, plate[t]) + (HandWorth(a, p) + AsCredit(a, home[t], p.used)),
         todo' = [todo EXCEPT ![t] = e \o k], plate' = [plate EXCEPT ![t] = q],
         UNCHANGED <<free, issued, empty, credit, remaining>>,
         UNCHANGED <<node, secondary, cursor, home, disabled>>
  PROVE  SlabKnown'
<1> DEFINE l == e \o k
           h == home[t]
<1>1. SharedTypes' /\ ThreadTypes
  BY DEF SlabKnown, Shape, SharedTypes
<1>2. /\ StoreKnown'
      /\ \A a : /\ StoreSum(a, stored') = StoreSum(a, stored) - (HandWorth(a, p) + AsCredit(a, h, p.used))
                /\ StoreSum(a, stored) \in Nat /\ StoreSum(a, stored') \in Int
                /\ HandWorth(a, p) \in Nat /\ AsCredit(a, h, p.used) \in Int
  <2> HIDE DEF h
  <2>1. h \in AllHomes /\ p \in DOMAIN stored[w][h] /\ stored' = [stored EXCEPT ![w][h] = Slab!Removing(@, p)]
    BY DEF h
  <2> QED
    BY <2>1, StorePops
<1>3. Keeps(node[t], secondary[t], cursor[t], home[t], disabled[t], q)
  BY KeepsPlate
<1>4. Known(node[t], secondary[t], cursor[t], home[t], disabled[t], q, l)
  BY <1>3, IsKnown
<1>5. Becomes(t, node[t], secondary[t], cursor[t], home[t], disabled[t], q, l)
  BY <1>1, Stay DEF Becomes
<1>6. \A a : /\ ListWorth(a, t, todo[t]) = 0
             /\ HandWorth(a, q) + ListWorth(a, t, l)
                      = HandWorth(a, plate[t]) + (HandWorth(a, p) + AsCredit(a, h, p.used))
  OBVIOUS
<1> HIDE DEF l, h
<1>7. /\ Shape'
      /\ \A a : Owned(a)' - Owned(a)
                   = (Mine(a, t, node[t], secondary[t], q, l)
                         - Mine(a, t, node[t], secondary[t], plate[t], todo[t]))
                      + (StoreSum(a, stored') - StoreSum(a, stored))
  <2>1. /\ ThreadTypes' /\ ThreadsKnown'
        /\ \A a : Owned(a)' - Owned(a)
                   = (Mine(a, t, node[t], secondary[t], q, l)
                         - Mine(a, t, node[t], secondary[t], plate[t], todo[t]))
                      + (StoreSum(a, stored') - StoreSum(a, stored))
    <3>1. \A a : StoreSum(a, stored') \in Int
      BY <1>2
    <3>2. ThreadTypes' /\ ThreadsKnown' /\ \A a : Shifted(a, t, node[t], secondary[t], q, l)
      BY <1>4, <1>5, <3>1, CallShifts
    <3> QED
      BY <3>2 DEF Shifted
  <2> QED
    BY <1>1, <1>2, <2>1 DEF Shape
<1>8. ASSUME NEW a
      PROVE  Owned(a)' - Owned(a) = 0
  <2> DEFINE N == HandWorth(a, node[t])
             S == HandWorth(a, secondary[t])
             Q == HandWorth(a, q)
             L == ListWorth(a, t, l)
             O == HandWorth(a, plate[t])
             P == HandWorth(a, p) + AsCredit(a, h, p.used)
  <2>1. N \in Int /\ S \in Int /\ Q \in Int /\ O \in Int
    BY <1>1, HandWorthType DEF ThreadTypes, Whole, Carried
  <2>2. L \in Int
    <3>1. l \in Seq(Steps)
      BY <1>4, KnownTypes
    <3> QED
      BY <3>1, ListWorthType
  <2>3. P \in Int /\ StoreSum(a, stored') = StoreSum(a, stored) - P /\ StoreSum(a, stored) \in Nat
    <3>1. /\ StoreSum(a, stored') = StoreSum(a, stored) - (HandWorth(a, p) + AsCredit(a, h, p.used))
          /\ StoreSum(a, stored) \in Nat
          /\ HandWorth(a, p) \in Nat /\ AsCredit(a, h, p.used) \in Int
      BY <1>2
    <3>2. \A i \in Nat, j \in Int : i + j \in Int
      OBVIOUS
    <3> QED
      BY <3>1, <3>2
  <2>4. Q + L = O + P /\ ListWorth(a, t, todo[t]) = 0
    BY <1>6
  <2>5. Owned(a)' - Owned(a) = ((N + S + Q + L) - (N + S + O + 0)) + (StoreSum(a, stored') - StoreSum(a, stored))
    BY <1>7, <2>4 DEF Mine
  <2> HIDE DEF N, S, Q, L, O, P
  <2>6. (N + S + Q + L) - (N + S + O + 0) = P
    <3>1. P \in Int /\ Q + L = O + P
      BY ONLY <2>3, <2>4
    <3>2. N + S + Q + L = (N + S) + (Q + L) /\ N + S + O + 0 = (N + S) + O
      BY ONLY <2>1, <2>2
    <3> QED
      BY ONLY <2>1, <3>1, <3>2
  <2>7. StoreSum(a, stored') - StoreSum(a, stored) = - P
    BY ONLY <2>3
  <2>8. Owned(a)' - Owned(a) = P + (- P)
    BY ONLY <2>5, <2>6, <2>7
  <2> QED
    BY ONLY <2>3, <2>8
<1> QED
  BY <1>7, <1>8, BooksSame

LEMMA SeekPartialKeeps ==
  ASSUME SlabKnown, NEW t \in Users, Slab!SeekPartial(t)
  PROVE  SlabKnown'
<1> DEFINE h == home[t]
           l == todo[t]
           r == Tail(l)
           f == Slab!Do("fill")
           g == Slab!Do("popEmpty")
<1>1. /\ l # <<>> /\ Head(l).do = "seekPartial"
      /\ UNCHANGED <<free, issued, empty, credit, remaining>>
      /\ UNCHANGED <<node, secondary, cursor, home, disabled>>
  BY DEF Slab!SeekPartial, Slab!At, Slab!First, Slab!layer1
<1>11. \/ \E p \in DOMAIN stored["partial"][h] :
               /\ stored' = [stored EXCEPT !["partial"][h] = Slab!Removing(@, p)]
               /\ plate' = [plate EXCEPT ![t] = p]
               /\ todo' = [todo EXCEPT ![t] = <<Slab!Repay(h, p), f>> \o r]
       \/ /\ todo' = [todo EXCEPT ![t] = <<g, f>> \o r]
          /\ stored' = stored /\ plate' = plate
  BY DEF Slab!SeekPartial, Slab!Then, Slab!Set, Slab!Popped
<1>2. /\ Keeps(node[t], secondary[t], cursor[t], home[t], disabled[t], plate[t])
      /\ AfterErrands(l, node[t], secondary[t], home[t], disabled[t], plate[t])
      /\ l \in Seq(Steps) /\ r \in Seq(Steps)
  BY <1>1, CallHead DEF ErrandNames
<1>3. PICK x \in Seekers : /\ WantsFull(x, node[t], secondary[t]) /\ l = <<Slab!Do("seekPartial"), x>>
                           /\ plate[t] = None /\ h # None
  BY <1>1, <1>2, FullFollows
<1>4. h \in AllHomes
  BY <1>2, <1>3 DEF Keeps
<1>6. r = <<x>> /\ f \in Seekers /\ g \in Seekers /\ f \in Steps /\ Slab!Do("seekPartial") \in Seekers
  BY <1>3, DoIsSeeker
<1>7. \A a : ListWorth(a, t, l) = 0
  <2> DEFINE y == Slab!Do("seekPartial")
  <2>1. y \in Seekers /\ x \in Seekers /\ t \in Users /\ l = <<y, x>>
    BY <1>3, <1>6
  <2> HIDE DEF y, l
  <2>2. \A a : ListWorth(a, t, <<y, x>>) = 0
    BY ONLY <2>1, SeekerPair, Zenon
  <2> QED
    BY <2>1, <2>2
<1>8. /\ \A q : AfterErrands(<<f, x>>, node[t], secondary[t], home[t], disabled[t], q)
      /\ AfterErrands(<<g, f, x>>, node[t], secondary[t], home[t], disabled[t], plate[t])
  BY <1>3, MayFollow
<1> HIDE DEF f, g
<1>9. /\ <<f, x>> \in Seq(Steps) /\ <<g, f, x>> \in Seq(Steps) /\ <<g, f>> \o r = <<g, f, x>>
      /\ \A a : ListWorth(a, t, <<f, x>>) = 0 /\ ListWorth(a, t, <<g, f, x>>) = 0
  <2>1. /\ <<x>> \in Seq(Steps) /\ <<f, x>> \in Seq(Steps) /\ <<g, f, x>> \in Seq(Steps)
        /\ <<f>> \o <<x>> = <<f, x>> /\ <<g, f>> \o <<x>> = <<g, f, x>>
        /\ \A a : /\ ListWorth(a, t, <<x>>) = 0 /\ ListWorth(a, t, <<f, x>>) = 0
                  /\ ListWorth(a, t, <<g, f, x>>) = 0
    BY <1>6, SeekersLine, Zenon
  <2> QED
    BY <1>6, <2>1
<1>10. ASSUME NEW p \in DOMAIN stored["partial"][h],
              stored' = [stored EXCEPT !["partial"][h] = Slab!Removing(@, p)],
              plate' = [plate EXCEPT ![t] = p],
              todo' = [todo EXCEPT ![t] = <<Slab!Repay(h, p), f>> \o r]
       PROVE  SlabKnown'
  <2> DEFINE y == Slab!Repay(h, p)
             k == <<f, x>>
  <2>1. p \in Whole /\ p.used = Len(p.entries)
        /\ \A a : HandWorth(a, p) \in Nat /\ AsCredit(a, h, p.used) \in Int
    <3>1. ASSUME NEW w \in {"full", "partial"}, w = "partial"
          PROVE  p \in Whole /\ p.used = Len(p.entries)
                 /\ \A a : HandWorth(a, p) \in Nat /\ AsCredit(a, h, p.used) \in Int
      BY <1>4, <1>10, <3>1, StorePops
    <3> QED
      BY <3>1
  <2>2. y \in Errands /\ y \in Steps /\ \A a : StepWorth(a, y) = AsCredit(a, h, p.used)
    BY <1>4, <2>1, RepayIsErrand, ErrandsAreSteps
  <2>3. <<y>> \in Seq(Errands)
    BY <2>2
  <2> HIDE DEF y
  <2>4. <<y, f>> \o r = <<y>> \o k
    <3>1. <<y>> \o <<f, x>> = <<y, f, x>> /\ <<y, f>> \o <<x>> = <<y, f, x>>
      BY <1>6, <2>2, DoIsSeeker, Triples
    <3> QED
      BY <1>6, <3>1
  <2>5. todo' = [todo EXCEPT ![t] = <<y>> \o k]
    BY <1>10, <2>4 DEF y
  <2>6. k \in Seq(Steps) /\ \A a : ListWorth(a, t, k) = 0
    BY <1>9
  <2>7. AfterErrands(k, node[t], secondary[t], home[t], disabled[t], p)
    BY <1>8
  <2> HIDE DEF k
  <2>8. ASSUME NEW a
        PROVE  HandWorth(a, p) + ListWorth(a, t, <<y>> \o k)
                  = HandWorth(a, plate[t]) + (HandWorth(a, p) + AsCredit(a, h, p.used))
    <3>1. ListWorth(a, t, <<y>> \o k) = StepWorth(a, y) + ListWorth(a, t, k)
      BY <2>2, <2>6, ListOfMore
    <3>2. HandWorth(a, plate[t]) = 0
      BY <1>3, NothingInHand
    <3> QED
      BY <2>1, <2>2, <2>6, <3>1, <3>2
  <2>9. ASSUME NEW w \in {"full", "partial"}, w = "partial"
        PROVE  SlabKnown'
    <3>1. p \in DOMAIN stored[w][home[t]] /\ home[t] \in AllHomes
          /\ stored' = [stored EXCEPT ![w][home[t]] = Slab!Removing(@, p)]
      BY <1>4, <1>10, <2>9
    <3>2. plate' = [plate EXCEPT ![t] = p]
      BY <1>10
    <3> QED
      BY <1>1, <1>2, <1>7, <2>1, <2>3, <2>5, <2>6, <2>7, <2>8, <3>1, <3>2, SeekerPops
  <2> QED
    BY <2>9
<1>12. CASE todo' = [todo EXCEPT ![t] = <<g, f>> \o r] /\ stored' = stored /\ plate' = plate
  <2>1. todo' = [todo EXCEPT ![t] = <<g, f, x>>]
    BY <1>9, <1>12
  <2> QED
    BY <1>1, <1>2, <1>7, <1>8, <1>9, <1>12, <2>1, SeekerGoesOn
<1> QED
  BY <1>11, <1>10, <1>12


LEMMA FillKeeps ==
  ASSUME SlabKnown, NEW t \in Users, Slab!Fill(t)
  PROVE  SlabKnown'
<1> DEFINE h == home[t]
           l == todo[t]
           q == plate[t]
           r == Tail(l)
           f == Slab!Do("fill")
           g == Slab!Do("refill")
<1>1. /\ l # <<>> /\ Head(l).do = "fill"
      /\ UNCHANGED <<free, issued, empty, credit, remaining>>
      /\ UNCHANGED <<node, secondary, cursor, home, disabled>>
  BY DEF Slab!Fill, Slab!At, Slab!First, Slab!layer1
<1>2. \/ /\ q = None \/ q.used = Capacity
         /\ todo' = [todo EXCEPT ![t] = <<>> \o r] /\ stored' = stored /\ plate' = plate
      \/ /\ q # None /\ q.used # Capacity
         /\ \/ \E p \in DOMAIN stored["partial"][h] :
               /\ stored' = [stored EXCEPT !["partial"][h] = Slab!Removing(@, p)]
               /\ plate' = [plate EXCEPT ![t] = Slab!More(q, p, Slab!Fitting(p, q))]
               /\ todo' = [todo EXCEPT ![t] =
                     <<Slab!Repay(h, p), Slab!Leftover(Slab!Less(p, Slab!Fitting(p, q))), f>> \o r]
            \/ /\ todo' = [todo EXCEPT ![t] = <<g>> \o r]
               /\ stored' = stored /\ plate' = plate
  BY DEF Slab!Fill, Slab!Then, Slab!Set, Slab!Popped
<1>3. /\ Keeps(node[t], secondary[t], cursor[t], home[t], disabled[t], plate[t])
      /\ AfterErrands(l, node[t], secondary[t], home[t], disabled[t], plate[t])
      /\ l \in Seq(Steps) /\ r \in Seq(Steps)
  BY <1>1, CallHead DEF ErrandNames
<1>4. PICK x \in Seekers : /\ WantsFull(x, node[t], secondary[t]) /\ l = <<f, x>>
                           /\ h # None
  BY <1>1, <1>3, FullFollows
<1>5. h \in AllHomes
  BY <1>3, <1>4 DEF Keeps
<1>6. r = <<x>> /\ f \in Seekers /\ g \in Seekers /\ f \in Steps /\ x \in Steps
  BY <1>4, DoIsSeeker
<1>7. /\ \A p : AfterErrands(<<f, x>>, node[t], secondary[t], home[t], disabled[t], p)
      /\ (q # None => q.used = Capacity)
            => AfterErrands(<<x>>, node[t], secondary[t], home[t], disabled[t], q)
      /\ q # None /\ q.used < Capacity
            => AfterErrands(<<g, x>>, node[t], secondary[t], home[t], disabled[t], q)
  BY <1>4, MayFollow
<1>8. q # None => q \in Whole /\ q.used \in Nat /\ q.used <= Capacity
  BY <1>3, PlateFacts DEF Keeps, Whole
<1> HIDE DEF f, g
<1>9. /\ <<x>> \in Seq(Steps) /\ <<f, x>> \in Seq(Steps) /\ <<f>> \o r = <<f, x>>
      /\ \A a : ListWorth(a, t, <<x>>) = 0 /\ ListWorth(a, t, <<f, x>>) = 0
  <2>1. /\ <<x>> \in Seq(Steps) /\ <<f, x>> \in Seq(Steps) /\ <<f, f, x>> \in Seq(Steps)
        /\ <<f>> \o <<x>> = <<f, x>> /\ <<f, f>> \o <<x>> = <<f, f, x>>
        /\ \A a : /\ ListWorth(a, t, <<x>>) = 0 /\ ListWorth(a, t, <<f, x>>) = 0
                  /\ ListWorth(a, t, <<f, f, x>>) = 0
    BY <1>6, SeekersLine, Zenon
  <2> QED
    BY <1>6, <2>1
<1>10. /\ <<g, x>> \in Seq(Steps) /\ <<g>> \o r = <<g, x>>
       /\ \A a : ListWorth(a, t, <<g, x>>) = 0
  <2>1. /\ <<x>> \in Seq(Steps) /\ <<g, x>> \in Seq(Steps) /\ <<g, g, x>> \in Seq(Steps)
        /\ <<g>> \o <<x>> = <<g, x>> /\ <<g, g>> \o <<x>> = <<g, g, x>>
        /\ \A a : /\ ListWorth(a, t, <<x>>) = 0 /\ ListWorth(a, t, <<g, x>>) = 0
                  /\ ListWorth(a, t, <<g, g, x>>) = 0
    BY <1>6, SeekersLine, Zenon
  <2> QED
    BY <1>6, <2>1
<1>11. \A a : ListWorth(a, t, l) = 0
  BY <1>4, <1>9
<1>12. ASSUME NEW k \in Seq(Steps), \A a : ListWorth(a, t, k) = 0,
              AfterErrands(k, node[t], secondary[t], home[t], disabled[t], plate[t]),
              todo' = [todo EXCEPT ![t] = k], stored' = stored, plate' = plate
       PROVE  SlabKnown'
  BY <1>1, <1>3, <1>11, <1>12, SeekerGoesOn
<1>13. CASE /\ q = None \/ q.used = Capacity
            /\ todo' = [todo EXCEPT ![t] = <<>> \o r] /\ stored' = stored /\ plate' = plate
  <2>1. <<>> \o r = <<x>>
    BY <1>6
  <2>2. todo' = [todo EXCEPT ![t] = <<x>>]
    BY <1>13, <2>1
  <2>3. AfterErrands(<<x>>, node[t], secondary[t], home[t], disabled[t], q)
    BY <1>7, <1>13
  <2> QED
    BY <1>9, <1>12, <1>13, <2>2, <2>3
<1>14. CASE /\ q # None /\ q.used # Capacity
            /\ todo' = [todo EXCEPT ![t] = <<g>> \o r] /\ stored' = stored /\ plate' = plate
  <2>1. todo' = [todo EXCEPT ![t] = <<g, x>>]
    BY <1>10, <1>14
  <2>2. q.used < Capacity
    BY <1>8, <1>14, SlabConstants
  <2>3. AfterErrands(<<g, x>>, node[t], secondary[t], home[t], disabled[t], q)
    BY <1>7, <1>14, <2>2
  <2> QED
    BY <1>10, <1>12, <1>14, <2>1, <2>3
<1>15. ASSUME q # None, NEW p \in DOMAIN stored["partial"][h],
              stored' = [stored EXCEPT !["partial"][h] = Slab!Removing(@, p)],
              plate' = [plate EXCEPT ![t] = Slab!More(q, p, Slab!Fitting(p, q))],
              todo' = [todo EXCEPT ![t] =
                     <<Slab!Repay(h, p), Slab!Leftover(Slab!Less(p, Slab!Fitting(p, q))), f>> \o r]
       PROVE  SlabKnown'
  <2> DEFINE n == Slab!Fitting(p, q)
             u == Slab!Less(p, n)
             v == Slab!More(q, p, n)
             y == Slab!Repay(h, p)
             z == Slab!Leftover(u)
             k == <<f, x>>
  <2>1. p \in Whole /\ p.used = Len(p.entries)
        /\ \A a : HandWorth(a, p) \in Nat /\ AsCredit(a, h, p.used) \in Int
    <3>1. ASSUME NEW w \in {"full", "partial"}, w = "partial"
          PROVE  p \in Whole /\ p.used = Len(p.entries)
                 /\ \A a : HandWorth(a, p) \in Nat /\ AsCredit(a, h, p.used) \in Int
      BY <1>5, <1>15, <3>1, StorePops
    <3> QED
      BY <3>1
  <2>2. n \in Nat /\ n <= p.used /\ q.used + n <= Capacity
    BY <1>8, <1>15, <2>1, FittingBounds
  <2>3. y \in Errands /\ y \in Steps /\ \A a : StepWorth(a, y) = AsCredit(a, h, p.used)
    BY <1>5, <2>1, RepayIsErrand, ErrandsAreSteps
  <2> HIDE DEF n, y
  <2>4. /\ u \in Whole /\ v \in Whole
        /\ \A a : HandWorth(a, u) + HandWorth(a, v) = HandWorth(a, p) + HandWorth(a, q)
    BY <1>8, <1>15, <2>1, <2>2, MoveEntries
  <2> HIDE DEF u, v
  <2>5. z \in Errands /\ z \in Steps /\ \A a : StepWorth(a, z) = HandWorth(a, u)
    BY <2>4, LeftoverIsErrand, ErrandsAreSteps
  <2> HIDE DEF z
  <2>6. <<y, z>> \in Seq(Errands) /\ <<y, z>> \in Seq(Steps)
    BY <2>3, <2>5
  <2>7. <<y, z, f>> \o r = <<y, z>> \o k
    <3>1. /\ <<y>> \o <<z, f>> = <<y, z, f>> /\ <<y, z>> \o <<f>> = <<y, z, f>>
          /\ <<y, z, f>> \in Seq(Steps)
      <4>1. y \in Steps /\ z \in Steps /\ f \in Steps
        BY <1>6, <2>3, <2>5
      <4> QED
        BY <4>1, Triples
    <3>3. <<f>> \in Seq(Steps)
      BY <1>6
    <3>2. (<<y, z>> \o <<f>>) \o r = <<y, z>> \o (<<f>> \o r)
      BY <1>3, <2>6, <3>3, StepsAssociate
    <3> QED
      BY <1>9, <3>1, <3>2
  <2>8. todo' = [todo EXCEPT ![t] = <<y, z>> \o k] /\ plate' = [plate EXCEPT ![t] = v]
    BY <1>15, <2>7 DEF n, u, v, y, z
  <2>9. k \in Seq(Steps) /\ \A a : ListWorth(a, t, k) = 0
    BY <1>9
  <2>10. AfterErrands(k, node[t], secondary[t], home[t], disabled[t], v)
    BY <1>7
  <2> HIDE DEF k
  <2>11. ASSUME NEW a
         PROVE  HandWorth(a, v) + ListWorth(a, t, <<y, z>> \o k)
                  = HandWorth(a, q) + (HandWorth(a, p) + AsCredit(a, h, p.used))
    <3>1. /\ ListWorth(a, t, <<y>> \o k) = StepWorth(a, y) + ListWorth(a, t, k)
          /\ ListWorth(a, t, <<y, z>> \o k) = StepWorth(a, y) + (StepWorth(a, z) + ListWorth(a, t, k))
          /\ ListWorth(a, t, <<y, z, z>> \o k)
               = StepWorth(a, y) + (StepWorth(a, z) + (StepWorth(a, z) + ListWorth(a, t, k)))
      BY <2>3, <2>5, <2>9, ListsOfMore
    <3> DEFINE U == HandWorth(a, u)
               V == HandWorth(a, v)
               P == HandWorth(a, p)
               Q == HandWorth(a, q)
               C == AsCredit(a, h, p.used)
    <3>2. U \in Int /\ V \in Int /\ P \in Int /\ Q \in Int
      BY <1>8, <1>15, <2>1, <2>4, HandWorthType DEF Whole, Carried
    <3>3. C \in Int
      BY <2>1
    <3>4. U + V = P + Q
      BY <2>4
    <3>5. ListWorth(a, t, <<y, z>> \o k) = C + (U + 0)
      BY <2>3, <2>5, <2>9, <3>1
    <3> HIDE DEF U, V, P, Q, C
    <3>6. V + (C + (U + 0)) = Q + (P + C)
      BY <3>2, <3>3, <3>4
    <3> QED
      BY <3>5, <3>6 DEF V, P, Q, C
  <2>12. ASSUME NEW w \in {"full", "partial"}, w = "partial"
         PROVE  SlabKnown'
    <3>1. p \in DOMAIN stored[w][home[t]] /\ home[t] \in AllHomes
          /\ stored' = [stored EXCEPT ![w][home[t]] = Slab!Removing(@, p)]
      BY <1>5, <1>15, <2>12
    <3> QED
      BY <1>1, <1>3, <1>11, <2>4, <2>6, <2>8, <2>9, <2>10, <2>11, <3>1, SeekerPops
  <2> QED
    BY <2>12
<1> QED
  BY <1>2, <1>13, <1>14, <1>15

\* Layer 3 gives a plate so many blocks.
Filled(q, e, n) == [q EXCEPT !.entries = @ \o e, !.used = @ + n]

LEMMA FillFromBelow ==
  ASSUME NEW q \in Whole, NEW n \in Nat, q.used + n <= Capacity, NEW e \in [1..n -> AllHomes]
  PROVE  /\ Filled(q, e, n) \in Whole /\ Filled(q, e, n).used = q.used + n
         /\ \A a : HandWorth(a, Filled(q, e, n)) = HandWorth(a, q) + AsEntries(a, n)
<1> DEFINE m == q.entries \o e
           g == Filled(q, e, n)
<1>1. /\ q \in Plates /\ q.used = Len(q.entries) /\ q.entries \in Seq(AllHomes)
      /\ q.used \in Nat /\ q.of \in Mappings
      /\ q = [of |-> q.of, entries |-> q.entries, used |-> q.used]
  BY PlateFacts DEF Whole
<1>2. e \in Seq(AllHomes) /\ Len(e) = n
  <2>1. e \in Seq(AllHomes)
    BY SeqDef
  <2> QED
    BY <2>1, LenProperties
<1>4. g = [q EXCEPT !.entries = m, !.used = q.used + n]
  BY DEF Filled
<1>3. m \in Seq(AllHomes) /\ Len(m) = q.used + n
  BY <1>1, <1>2
<1> HIDE DEF m, g
<1>5. g = [of |-> q.of, entries |-> m, used |-> q.used + n]
  BY <1>1, <1>4
<1>6. g \in Whole /\ g.used = q.used + n /\ g.of = q.of /\ Len(g.entries) = q.used + n
  <2>1. q.used + n \in Nat /\ m \in Seq(AllHomes) /\ Len(m) = q.used + n /\ q.of \in Mappings
    BY <1>1, <1>3
  <2>2. g.of = q.of /\ g.entries = m /\ g.used = q.used + n
    BY <1>5
  <2>3. g \in [of : Mappings, entries : Seq(AllHomes), used : Nat]
    BY <1>5, <2>1
  <2>4. Len(g.entries) <= Capacity
    BY <2>1, <2>2
  <2> QED
    BY <2>1, <2>2, <2>3, <2>4 DEF Whole, Plates
<1>7. ASSUME NEW a
      PROVE  HandWorth(a, g) = HandWorth(a, q) + AsEntries(a, n)
  <2>1. g \in Plates
    BY <1>6 DEF Whole
  <2>2. HandWorth(a, g) = AsPlate(a, q.of) + AsEntries(a, q.used + n)
    BY <1>6, <2>1, WorthInHand
  <2>3. HandWorth(a, q) = AsPlate(a, q.of) + AsEntries(a, q.used)
    BY <1>1, WorthInHand
  <2>4. AsEntries(a, q.used + n) = AsEntries(a, q.used) + AsEntries(a, n)
        /\ AsEntries(a, n) \in Int /\ AsEntries(a, q.used) \in Int
    BY <1>1 DEF AsEntries
  <2>5. AsPlate(a, q.of) \in Int
    BY DEF AsPlate
  <2> QED
    BY <2>2, <2>3, <2>4, <2>5
<1> QED
  BY <1>6, <1>7 DEF g

LEMMA RefillKeeps ==
  ASSUME SlabKnown, NEW t \in Users, Slab!Refill(t)
  PROVE  SlabKnown'
<1> DEFINE h == home[t]
           l == todo[t]
           q == plate[t]
           r == Tail(l)
           n == Slab!Min({Capacity - q.used, free})
           g == Filled(q, [i \in 1..n |-> h], n)
           y == Slab!DoOn("drain", g)
<1>1. /\ l # <<>> /\ Head(l).do = "refill"
      /\ UNCHANGED <<issued, empty, credit, remaining, stored>>
      /\ UNCHANGED <<node, secondary, cursor, home, disabled>>
      /\ free' = free - n
  BY DEF Slab!Refill, Slab!At, Slab!First, Slab!layer1
<1>2. \/ /\ g.used = Capacity
         /\ todo' = [todo EXCEPT ![t] = <<>> \o r] /\ plate' = [plate EXCEPT ![t] = g]
      \/ todo' = [todo EXCEPT ![t] = <<y>> \o r] /\ plate' = [plate EXCEPT ![t] = None]
  BY DEF Slab!Refill, Slab!Then, Slab!Set, Filled
<1>3. /\ Keeps(node[t], secondary[t], cursor[t], home[t], disabled[t], plate[t])
      /\ AfterErrands(l, node[t], secondary[t], home[t], disabled[t], plate[t])
      /\ l \in Seq(Steps) /\ r \in Seq(Steps)
  BY <1>1, CallHead DEF ErrandNames
<1>4. PICK x \in Seekers : /\ WantsFull(x, node[t], secondary[t]) /\ l = <<Slab!Do("refill"), x>>
                           /\ h # None /\ q # None /\ q.used < Capacity
  BY <1>1, <1>3, FullFollows
<1>5. h \in AllHomes /\ q \in Whole /\ q.used \in Nat
  BY <1>3, <1>4, PlateFacts DEF Keeps, Whole
<1>6. r = <<x>> /\ Slab!Do("refill") \in Seekers /\ x \in Steps
  BY <1>4, DoIsSeeker
<1>7. free \in Nat
  BY DEF SlabKnown, Shape, SharedTypes
<1>8. n \in Nat /\ n <= free /\ q.used + n <= Capacity
  <2>1. Capacity - q.used \in Nat
    BY <1>4, <1>5, SlabConstants
  <2>2. n = IF Capacity - q.used <= free THEN Capacity - q.used ELSE free
    BY <1>7, <2>1, LeastOfTwo
  <2> QED
    BY <1>5, <1>7, <2>1, <2>2, SlabConstants
<1>9. \A a : ListWorth(a, t, l) = 0 /\ ListWorth(a, t, r) = 0
  <2> DEFINE f == Slab!Do("refill")
  <2>1. f \in Seekers /\ x \in Seekers /\ t \in Users /\ l = <<f, x>>
    BY <1>4, <1>6
  <2> HIDE DEF f, l
  <2>2. \A a : ListWorth(a, t, <<f, x>>) = 0 /\ ListWorth(a, t, <<x>>) = 0
    BY ONLY <2>1, SeekerAlone, SeekerPair, Zenon
  <2> QED
    BY <1>6, <2>1, <2>2
<1> HIDE DEF n
<1>10. g \in Whole /\ \A a : HandWorth(a, g) = HandWorth(a, q) + AsEntries(a, n)
  <2> DEFINE e == [i \in 1..n |-> h]
  <2>1. e \in [1..n -> AllHomes]
    BY <1>5
  <2> HIDE DEF e
  <2>3. /\ Filled(q, e, n) \in Whole /\ Filled(q, e, n).used = q.used + n
        /\ \A a : HandWorth(a, Filled(q, e, n)) = HandWorth(a, q) + AsEntries(a, n)
    <3>1. q \in Whole /\ n \in Nat /\ q.used + n <= Capacity
      BY <1>5, <1>8
    <3> QED
      BY <2>1, <3>1, FillFromBelow
  <2> QED
    BY <2>3 DEF e
<1> HIDE DEF g
<1>11. y \in Errands /\ y \in Steps /\ \A a : StepWorth(a, y) = HandWorth(a, g)
  BY <1>10, PlateErrand, ErrandsAreSteps
<1> HIDE DEF y
<1>12. SharedTypes' /\ ThreadTypes
  BY <1>1, <1>7, <1>8 DEF SlabKnown, Shape, SharedTypes
<1>13. /\ StoreKnown'
       /\ \A a : StoreSum(a, stored') = StoreSum(a, stored) /\ StoreSum(a, stored) \in Int
  BY <1>1, StoresStay DEF SlabKnown
<1>14. \A a : StoreSum(a, stored') \in Int
  BY <1>13
<1>15. ASSUME NEW p, NEW k, Known(node[t], secondary[t], cursor[t], home[t], disabled[t], p, k),
              todo' = [todo EXCEPT ![t] = k], plate' = [plate EXCEPT ![t] = p],
              \A a : HandWorth(a, p) + ListWorth(a, t, k) = HandWorth(a, g)
       PROVE  SlabKnown'
  <2>1. Becomes(t, node[t], secondary[t], cursor[t], home[t], disabled[t], p, k)
    BY <1>1, <1>12, <1>15, Stay DEF Becomes
  <2>2. ThreadTypes' /\ ThreadsKnown' /\ \A a : Shifted(a, t, node[t], secondary[t], p, k)
    BY <1>14, <1>15, <2>1, CallShifts
  <2>3. Shape'
    BY <1>12, <1>13, <2>2 DEF Shape
  <2>4. ASSUME NEW a
        PROVE  Owned(a)' - Owned(a) = AsEntries(a, n)
    <3> DEFINE N == HandWorth(a, node[t])
               S == HandWorth(a, secondary[t])
               P == HandWorth(a, p)
               Q == HandWorth(a, q)
               L == ListWorth(a, t, k)
               E == AsEntries(a, n)
    <3>1. N \in Int /\ S \in Int /\ Q \in Int
      BY <1>12, HandWorthType DEF ThreadTypes
    <3>2. P \in Int /\ L \in Int
      BY <1>15, KnownTypes, HandWorthType, ListWorthType
    <3>3. E \in Int
      BY <1>8 DEF AsEntries
    <3>4. P + L = Q + E
      BY <1>10, <1>15
    <3>5. Owned(a)' - Owned(a) = (Mine(a, t, node[t], secondary[t], p, k)
                               - Mine(a, t, node[t], secondary[t], plate[t], todo[t]))
                            + (StoreSum(a, stored') - StoreSum(a, stored))
      BY <2>2 DEF Shifted
    <3>6. Mine(a, t, node[t], secondary[t], p, k) = N + S + P + L
          /\ Mine(a, t, node[t], secondary[t], plate[t], todo[t]) = N + S + Q + 0
      BY <1>9 DEF Mine
    <3>7. StoreSum(a, stored') - StoreSum(a, stored) = 0
      BY <1>13
    <3> HIDE DEF N, S, P, Q, L, E
    <3>8. Owned(a)' - Owned(a) = ((N + S + P + L) - (N + S + Q + 0)) + 0
      BY <3>5, <3>6, <3>7
    <3>9. Owned(a)' - Owned(a) = E
      BY <3>1, <3>2, <3>3, <3>4, <3>8
    <3> QED
      BY <3>9 DEF E
  <2>5. UNCHANGED <<issued, empty, remaining, credit>> /\ free' = free - n /\ n \in Int
    BY <1>1, <1>8
  <2> QED
    BY <2>3, <2>4, <2>5, BooksFilled
<1>16. CASE /\ g.used = Capacity
            /\ todo' = [todo EXCEPT ![t] = <<>> \o r] /\ plate' = [plate EXCEPT ![t] = g]
  <2>1. Keeps(node[t], secondary[t], cursor[t], home[t], disabled[t], g)
    BY <1>3, <1>10, KeepsPlate
  <2>2. AfterErrands(r, node[t], secondary[t], home[t], disabled[t], g)
    BY <1>4, <1>6, <1>16, MayFollow
  <2>3. Known(node[t], secondary[t], cursor[t], home[t], disabled[t], g, r)
    BY <1>3, <2>1, <2>2, IsKnownAtOnce
  <2>4. todo' = [todo EXCEPT ![t] = r]
    BY <1>3, <1>16
  <2>5. \A a : HandWorth(a, g) + ListWorth(a, t, r) = HandWorth(a, g)
    BY <1>9, <1>10, HandWorthType DEF Whole, Carried
  <2> QED
    BY <1>15, <1>16, <2>3, <2>4, <2>5
<1>17. CASE todo' = [todo EXCEPT ![t] = <<y>> \o r] /\ plate' = [plate EXCEPT ![t] = None]
  <2>1. Keeps(node[t], secondary[t], cursor[t], home[t], disabled[t], None)
    BY <1>3, KeepsPlate
  <2>2. AfterErrands(r, node[t], secondary[t], home[t], disabled[t], None)
    BY <1>4, <1>6, MayFollow
  <2>3. <<y>> \in Seq(Errands)
    BY <1>11
  <2>4. Known(node[t], secondary[t], cursor[t], home[t], disabled[t], None, <<y>> \o r)
    BY <1>3, <2>1, <2>2, <2>3, IsKnown
  <2>5. ASSUME NEW a
        PROVE  HandWorth(a, None) + ListWorth(a, t, <<y>> \o r) = HandWorth(a, g)
    <3>1. ListWorth(a, t, <<y>> \o r) = StepWorth(a, y) + ListWorth(a, t, r) /\ StepWorth(a, y) \in Nat
      BY <1>3, <1>11, ListOfMore
    <3> QED
      BY <1>9, <1>11, <3>1, NothingInHand
  <2> QED
    BY <1>15, <1>17, <2>4, <2>5
<1> QED
  BY <1>2, <1>16, <1>17

-----------------------------------------------------------------------------
(* Blocks change hands between the program, a thread's plates and its call. *)

AsReturned(a, j) == IF a[1] = "returning" THEN j ELSE 0

LEMMA BooksPassed ==
  ASSUME SlabKnown, Shape', UNCHANGED <<empty, remaining, credit>>,
         NEW f \in Int, NEW k \in Int, NEW i \in Int, NEW j \in Int, f + k + i + j = 0,
         free' = free + f, SumOf(issued', AllHomes) = SumOf(issued, AllHomes) + k,
         \A a : Owned(a)' - Owned(a) = AsEntries(a, i) + AsReturned(a, j)
  PROVE  SlabKnown'
<1>1. ASSUME NEW m \in Mappings
      PROVE  (remaining'[m] - empty'[m]) - (remaining[m] - empty[m])
               = Owned(PlatesOf(m))' - Owned(PlatesOf(m))
  <2>1. Owned(PlatesOf(m))' - Owned(PlatesOf(m)) = 0
    BY Accounts DEF AsReturned, PlatesOf
  <2> QED
    BY <2>1 DEF SlabKnown, Shape, SharedTypes
<1>2. SumOf(issued', AllHomes) - SumOf(issued, AllHomes) = k
  BY IssuedType DEF SlabKnown, Shape
<1>3. Owned(Entries)' - Owned(Entries) = i /\ Owned(Returning)' - Owned(Returning) = j
  <2>1. AsEntries(Entries, i) + AsReturned(Entries, j) = i
        /\ AsEntries(Returning, i) + AsReturned(Returning, j) = j
    BY Accounts DEF AsReturned, Entries, Returning
  <2> QED
    BY <2>1
<1>4. free' - free = f
  BY DEF SlabKnown, Shape, SharedTypes
<1>5. (free' - free) + (SumOf(issued', AllHomes) - SumOf(issued, AllHomes))
          + (Owned(Entries)' - Owned(Entries)) + (Owned(Returning)' - Owned(Returning)) = 0
  BY <1>2, <1>3, <1>4
<1>6. ASSUME NEW h \in AllHomes
      PROVE  /\ credit'[h] - credit[h] = Owned(CreditOf(h))' - Owned(CreditOf(h))
             /\ credit'[h] <= Budget
  <2>1. Owned(CreditOf(h))' - Owned(CreditOf(h)) = 0
    BY Accounts DEF AsReturned, CreditOf
  <2> QED
    BY <2>1 DEF SlabKnown, Shape, SharedTypes, Books
<1> QED
  BY <1>1, <1>5, <1>6, BooksMove

\* What a thread has of an account becomes this much more.
Gains(a, t, n, s, q, l, i, j) ==
    Mine(a, t, n, s, q, l) - Mine(a, t, node[t], secondary[t], plate[t], todo[t])
       = AsEntries(a, i) + AsReturned(a, j)

LEMMA CallPasses ==
  ASSUME SlabKnown, NEW t \in Users,
         NEW n, NEW s, NEW c, NEW h, NEW d, NEW q, NEW l,
         Known(n, s, c, h, d, q, l), Becomes(t, n, s, c, h, d, q, l),
         SharedTypes', UNCHANGED <<stored, empty, remaining, credit>>,
         NEW f \in Int, NEW k \in Int, NEW i \in Int, NEW j \in Int, f + k + i + j = 0,
         free' = free + f, SumOf(issued', AllHomes) = SumOf(issued, AllHomes) + k,
         \A a : Gains(a, t, n, s, q, l, i, j)
  PROVE  SlabKnown'
<1>1. /\ StoreKnown'
      /\ \A a : StoreSum(a, stored') = StoreSum(a, stored) /\ StoreSum(a, stored) \in Nat
  BY StoresStay DEF SlabKnown
<1>2. \A a : StoreSum(a, stored') \in Int
  BY <1>1
<1>3. ThreadTypes' /\ ThreadsKnown' /\ \A a : Shifted(a, t, n, s, q, l)
  BY <1>2, CallShifts
<1>4. Shape'
  BY <1>1, <1>3 DEF Shape
<1>5. ASSUME NEW a
      PROVE  Owned(a)' - Owned(a) = AsEntries(a, i) + AsReturned(a, j)
  <2>1. Shifted(a, t, n, s, q, l) /\ Gains(a, t, n, s, q, l, i, j)
    BY <1>3
  <2>2. StoreSum(a, stored') - StoreSum(a, stored) = 0
    BY <1>1
  <2>3. AsEntries(a, i) + AsReturned(a, j) \in Int
    BY DEF AsEntries, AsReturned
  <2> QED
    BY <2>1, <2>2, <2>3 DEF Shifted, Gains
<1> QED
  BY <1>4, <1>5, BooksPassed

\* A block goes to the program or comes from there.
LEMMA IssuedChange ==
  ASSUME SharedTypes, NEW h \in AllHomes, NEW k \in Int, issued[h] + k \in Nat,
         issued' = [issued EXCEPT ![h] = issued[h] + k]
  PROVE  /\ issued' \in [AllHomes -> Nat]
         /\ SumOf(issued', AllHomes) = SumOf(issued, AllHomes) + k
<1>1. issued \in [AllHomes -> Nat] /\ issued[h] \in Nat
  BY DEF SharedTypes
<1>2. IsFiniteSet(AllHomes)
  <2>1. AllHomes = 0..Homes - 1 /\ 0 \in Int /\ Homes - 1 \in Int
    BY SlabConstants
  <2> QED
    BY <2>1, FS_Interval
<1> DEFINE v == issued[h] + k
<1>3. v \in Nat
  OBVIOUS
<1> HIDE DEF v
<1>5. /\ issued' \in [AllHomes -> Nat] /\ issued'[h] = v
      /\ \A y \in AllHomes \ {h} : issued'[y] = issued[y]
  BY <1>1, <1>3 DEF v
<1>4. /\ SumOf(issued', AllHomes) = (SumOf(issued, AllHomes) - issued[h]) + issued'[h]
      /\ SumOf(issued, AllHomes) \in Nat
  <2>1. ASSUME NEW W \in [AllHomes -> Nat], NEW V \in [AllHomes -> Nat],
               \A y \in AllHomes \ {h} : V[y] = W[y]
        PROVE  SumOf(V, AllHomes) = (SumOf(W, AllHomes) - W[h]) + V[h] /\ SumOf(W, AllHomes) \in Nat
    BY <1>2, <2>1, SumChange
  <2> QED
    BY <1>1, <1>5, <2>1
<1>6. (SumOf(issued, AllHomes) - issued[h]) + v = SumOf(issued, AllHomes) + k
  BY <1>1, <1>4 DEF v
<1> QED
  BY <1>4, <1>5, <1>6

\* A plate with its last block taken, with one more, and counted.
Taken(p) == [p EXCEPT !.entries = SubSeq(@, 1, Len(@) - 1), !.used = 0]
Given(p, b) == [p EXCEPT !.entries = Append(@, b), !.used = 0]
Recounted(p, n) == [p EXCEPT !.used = n]

LEMMA SamePlate ==
  ASSUME NEW p \in Plates, NEW e \in Seq(AllHomes), NEW k \in Int, Len(e) = Len(p.entries) + k,
         Len(e) <= Capacity, NEW u \in Nat
  PROVE  /\ [of |-> p.of, entries |-> e, used |-> u] \in Plates
         /\ \A a : HandWorth(a, [of |-> p.of, entries |-> e, used |-> u])
                      = HandWorth(a, p) + AsEntries(a, k)
<1> DEFINE g == [of |-> p.of, entries |-> e, used |-> u]
<1>1. p.of \in Mappings /\ Len(p.entries) \in Nat
  BY PlateFacts
<1>2. g \in Plates /\ g.of = p.of /\ g.entries = e
  BY <1>1 DEF Plates
<1> HIDE DEF g
<1>3. ASSUME NEW a
      PROVE  HandWorth(a, g) = HandWorth(a, p) + AsEntries(a, k)
  <2>1. HandWorth(a, g) = AsPlate(a, p.of) + AsEntries(a, Len(p.entries) + k)
    BY <1>2, WorthInHand
  <2>2. HandWorth(a, p) = AsPlate(a, p.of) + AsEntries(a, Len(p.entries))
    BY WorthInHand
  <2>3. AsEntries(a, Len(p.entries) + k) = AsEntries(a, Len(p.entries)) + AsEntries(a, k)
        /\ AsEntries(a, Len(p.entries)) \in Int /\ AsEntries(a, k) \in Int
    BY <1>1 DEF AsEntries
  <2>4. AsPlate(a, p.of) \in Int
    BY DEF AsPlate
  <2> QED
    BY <2>1, <2>2, <2>3, <2>4
<1> QED
  BY <1>2, <1>3 DEF g

LEMMA TakenFacts ==
  ASSUME NEW p \in Plates, Len(p.entries) > 0
  PROVE  /\ Taken(p) \in Plates /\ Len(Taken(p).entries) = Len(p.entries) - 1
         /\ Slab!Top(p) \in AllHomes
         /\ \A a : HandWorth(a, Taken(p)) = HandWorth(a, p) + AsEntries(a, -1)
<1> DEFINE e == SubSeq(p.entries, 1, Len(p.entries) - 1)
<1>1. /\ p.entries \in Seq(AllHomes) /\ Len(p.entries) \in Nat /\ Len(p.entries) <= Capacity
      /\ p = [of |-> p.of, entries |-> p.entries, used |-> p.used]
  BY PlateFacts
<1>2. e \in Seq(AllHomes) /\ Len(e) = Len(p.entries) - 1
  <2> DEFINE n == Len(p.entries) - 1
  <2>1. n \in Nat /\ n <= Len(p.entries)
    BY <1>1
  <2>2. \A i \in 1..n : p.entries[i] \in AllHomes
    BY <1>1
  <2> HIDE DEF n, e
  <2>3. SubSeq(p.entries, 1, n) \in Seq(AllHomes) /\ Len(SubSeq(p.entries, 1, n)) = n
    BY <1>1, <2>1, <2>2, SubSeqProperties
  <2> QED
    BY <2>3 DEF n, e
<1>3. Taken(p) = [p EXCEPT !.entries = e, !.used = 0]
  BY DEF Taken
<1>4. Slab!Top(p) \in AllHomes
  BY <1>1 DEF Slab!Top
<1> HIDE DEF e
<1>5. Taken(p) = [of |-> p.of, entries |-> e, used |-> 0]
  BY <1>1, <1>3
<1>6. Len(e) = Len(p.entries) + -1 /\ Len(e) <= Capacity
  BY <1>1, <1>2, SlabConstants
<1>7. ASSUME NEW k \in Int, k = -1, NEW u \in Nat, u = 0
      PROVE  /\ [of |-> p.of, entries |-> e, used |-> u] \in Plates
             /\ \A a : HandWorth(a, [of |-> p.of, entries |-> e, used |-> u])
                      = HandWorth(a, p) + AsEntries(a, k)
  BY <1>2, <1>6, <1>7, SamePlate
<1>8. Taken(p).entries = e
  BY <1>5
<1> QED
  BY <1>2, <1>4, <1>5, <1>7, <1>8

LEMMA GivenFacts ==
  ASSUME NEW p \in Plates, Len(p.entries) < Capacity, NEW b \in AllHomes
  PROVE  /\ Given(p, b) \in Plates /\ Len(Given(p, b).entries) = Len(p.entries) + 1
         /\ \A a : HandWorth(a, Given(p, b)) = HandWorth(a, p) + AsEntries(a, 1)
<1> DEFINE e == Append(p.entries, b)
<1>1. /\ p.entries \in Seq(AllHomes) /\ Len(p.entries) \in Nat /\ Len(p.entries) <= Capacity
      /\ p = [of |-> p.of, entries |-> p.entries, used |-> p.used]
  BY PlateFacts
<1>2. e \in Seq(AllHomes) /\ Len(e) = Len(p.entries) + 1
  BY <1>1
<1>3. Given(p, b) = [p EXCEPT !.entries = e, !.used = 0]
  BY DEF Given
<1> HIDE DEF e
<1>5. Given(p, b) = [of |-> p.of, entries |-> e, used |-> 0]
  BY <1>1, <1>3
<1>6. Len(e) <= Capacity
  BY <1>1, <1>2, SlabConstants
<1>7. ASSUME NEW k \in Int, k = 1, NEW u \in Nat, u = 0
      PROVE  /\ [of |-> p.of, entries |-> e, used |-> u] \in Plates
             /\ \A a : HandWorth(a, [of |-> p.of, entries |-> e, used |-> u])
                      = HandWorth(a, p) + AsEntries(a, k)
  BY <1>2, <1>6, <1>7, SamePlate
<1>8. Given(p, b).entries = e
  BY <1>5
<1> QED
  BY <1>2, <1>5, <1>7, <1>8

LEMMA CountedFacts ==
  ASSUME NEW p \in Plates
  PROVE  /\ Recounted(p, Len(p.entries)) \in Whole /\ Recounted(p, Len(p.entries)).used = Len(p.entries)
         /\ \A a : HandWorth(a, Recounted(p, Len(p.entries))) = HandWorth(a, p)
<1> DEFINE n == Len(p.entries)
           g == Recounted(p, n)
<1>1. /\ p.entries \in Seq(AllHomes) /\ n \in Nat /\ n <= Capacity
      /\ p = [of |-> p.of, entries |-> p.entries, used |-> p.used]
  BY PlateFacts
<1> HIDE DEF n
<1>2. Recounted(p, n) = [of |-> p.of, entries |-> p.entries, used |-> n]
  BY <1>1 DEF Recounted
<1>3. ASSUME NEW k \in Int, k = 0
      PROVE  /\ [of |-> p.of, entries |-> p.entries, used |-> n] \in Plates
             /\ \A a : HandWorth(a, [of |-> p.of, entries |-> p.entries, used |-> n])
                      = HandWorth(a, p) + AsEntries(a, k)
  <2>1. Len(p.entries) = Len(p.entries) + k /\ Len(p.entries) <= Capacity
    BY <1>1, <1>3 DEF n
  <2> QED
    BY <1>1, <2>1, SamePlate
<1>4. g.entries = p.entries /\ g.used = n
  BY <1>2
<1>5. \A a : HandWorth(a, g) = HandWorth(a, p)
  <2>1. ASSUME NEW a, NEW k \in Int, k = 0
        PROVE  HandWorth(a, g) = HandWorth(a, p)
    <3>1. HandWorth(a, g) = HandWorth(a, p) + AsEntries(a, k)
      BY <1>2, <1>3, <2>1
    <3>2. AsEntries(a, k) = 0 /\ HandWorth(a, p) \in Nat
      BY <2>1, HandWorthType DEF AsEntries, Carried
    <3> QED
      BY <3>1, <3>2
  <2> QED
    BY <2>1
<1>6. g \in Plates
  BY <1>2, <1>3
<1> QED
  BY <1>4, <1>5, <1>6 DEF Whole, n

-----------------------------------------------------------------------------
(* The program takes blocks from a thread's own plates or puts them there. *)

LEMMA IdleFacts ==
  ASSUME SlabKnown, NEW t \in Users, Slab!Idle(t)
  PROVE  /\ Keeps(node[t], secondary[t], cursor[t], home[t], disabled[t], plate[t])
         /\ plate[t] = None /\ todo[t] = <<>>
<1>1. Known(node[t], secondary[t], cursor[t], home[t], disabled[t], plate[t], todo[t])
  BY DEF SlabKnown, Shape, ThreadsKnown
<1>2. todo[t] = <<>>
  BY DEF Slab!Idle
<1>3. /\ Keeps(node[t], secondary[t], cursor[t], home[t], disabled[t], plate[t])
      /\ AfterErrands(<<>>, node[t], secondary[t], home[t], disabled[t], plate[t])
  BY <1>1, <1>2, CallFirst
<1>4. plate[t] = None
  BY <1>3 DEF AfterErrands
<1> QED
  BY <1>2, <1>3, <1>4

LEMMA OwnPlates ==
  ASSUME SlabKnown, NEW t \in Users, Slab!Idle(t), node[t] # None,
         NEW n \in Plates, NEW s \in Whole, s.used \in {0, Half, Capacity},
         NEW b \in AllHomes, NEW k \in Int, issued[b] + k \in Nat,
         issued' = [issued EXCEPT ![b] = issued[b] + k],
         node' = [node EXCEPT ![t] = n], secondary' = [secondary EXCEPT ![t] = s],
         cursor' = [cursor EXCEPT ![t] = Len(n.entries)],
         UNCHANGED <<free, stored, empty, credit, remaining>>,
         UNCHANGED <<home, disabled, todo, plate>>,
         \A a : HandWorth(a, n) + HandWorth(a, s)
                   = HandWorth(a, node[t]) + HandWorth(a, secondary[t]) + AsEntries(a, -k)
  PROVE  SlabKnown'
<1>1. /\ Keeps(node[t], secondary[t], cursor[t], home[t], disabled[t], plate[t])
      /\ plate[t] = None /\ todo[t] = <<>>
  BY IdleFacts
<1>2. Keeps(n, s, Len(n.entries), home[t], disabled[t], None)
  <2>1. n # None /\ s # None
    BY PlateFacts DEF Whole
  <2> QED
    BY <1>1, <2>1 DEF Keeps
<1>3. AfterErrands(<<>>, n, s, home[t], disabled[t], None) /\ <<>> \in Seq(Steps)
  BY DEF AfterErrands
<1>4. Known(n, s, Len(n.entries), home[t], disabled[t], None, <<>>)
  BY <1>2, <1>3, IsKnownAtOnce
<1>5. SharedTypes /\ ThreadTypes
  BY DEF SlabKnown, Shape
<1>6. issued' \in [AllHomes -> Nat] /\ SumOf(issued', AllHomes) = SumOf(issued, AllHomes) + k
  BY <1>5, IssuedChange
<1>7. SharedTypes'
  BY <1>5, <1>6 DEF SharedTypes
<1>8. Becomes(t, n, s, Len(n.entries), home[t], disabled[t], None, <<>>)
  BY <1>1, <1>5, Stay DEF Becomes
<1>9. ASSUME NEW a
      PROVE  Gains(a, t, n, s, None, <<>>, -k, 0)
  <2> DEFINE N == HandWorth(a, n)
             S == HandWorth(a, s)
             M == HandWorth(a, node[t])
             R == HandWorth(a, secondary[t])
             E == AsEntries(a, -k)
  <2>1. N \in Int /\ S \in Int
    BY HandWorthType DEF Whole, Carried
  <2>2. M \in Int /\ R \in Int
    BY <1>5, HandWorthType DEF ThreadTypes
  <2>3. E \in Int /\ N + S = M + R + E
    BY DEF AsEntries
  <2>4. Mine(a, t, n, s, None, <<>>) = N + S + 0 + 0
        /\ Mine(a, t, node[t], secondary[t], plate[t], todo[t]) = M + R + 0 + 0
    BY <1>1, NothingInHand, ListOfNone DEF Mine
  <2>5. AsReturned(a, 0) = 0
    BY DEF AsReturned
  <2> HIDE DEF N, S, M, R, E
  <2>6. (N + S + 0 + 0) - (M + R + 0 + 0) = E + 0
    BY <2>1, <2>2, <2>3
  <2> QED
    BY <2>4, <2>5, <2>6 DEF Gains, E
<1>10. /\ 0 \in Int /\ -k \in Int /\ 0 + k + (-k) + 0 = 0 /\ free' = free + 0
       /\ UNCHANGED <<stored, empty, remaining, credit>>
  BY <1>5 DEF SharedTypes
<1>11. ASSUME NEW z \in Int, z = 0, NEW i \in Int, i = -k
       PROVE  SlabKnown'
  <2>1. z + k + i + z = 0 /\ free' = free + z
    BY <1>10, <1>11
  <2>2. \A a : Gains(a, t, n, s, None, <<>>, i, z)
    BY <1>9, <1>11
  <2>3. SharedTypes' /\ UNCHANGED <<stored, empty, remaining, credit>>
    BY <1>7, <1>10
  <2> QED
    BY <1>4, <1>6, <1>8, <2>1, <2>2, <2>3, CallPasses
<1> QED
  BY <1>10, <1>11

\* The program takes the last block of plate p, the active one from now on.
LEMMA ProgramTakes ==
  ASSUME SlabKnown, NEW t \in Users, Slab!Idle(t), node[t] # None,
         NEW p \in Plates, Len(p.entries) > 0, NEW s \in Whole, s.used \in {0, Half, Capacity},
         node' = [node EXCEPT ![t] = Taken(p)], secondary' = [secondary EXCEPT ![t] = s],
         cursor' = [cursor EXCEPT ![t] = Len(p.entries) - 1],
         issued' = [issued EXCEPT ![Slab!Top(p)] = @ + 1],
         UNCHANGED <<free, stored, empty, credit, remaining>>,
         UNCHANGED <<home, disabled, todo, plate>>,
         \A a : HandWorth(a, p) + HandWorth(a, s)
                   = HandWorth(a, node[t]) + HandWorth(a, secondary[t])
  PROVE  SlabKnown'
<1> DEFINE b == Slab!Top(p)
           n == Taken(p)
<1>4. /\ n \in Plates /\ Len(n.entries) = Len(p.entries) - 1 /\ b \in AllHomes
      /\ \A a : HandWorth(a, n) = HandWorth(a, p) + AsEntries(a, -1)
  BY TakenFacts
<1>5. issued[b] + 1 \in Nat /\ issued' = [issued EXCEPT ![b] = issued[b] + 1]
  BY <1>4 DEF SlabKnown, Shape, SharedTypes
<1> HIDE DEF n, b
<1>6. ASSUME NEW k \in Int, k = 1
      PROVE  SlabKnown'
  <2>1. issued[b] + k \in Nat /\ issued' = [issued EXCEPT ![b] = issued[b] + k]
    BY <1>5, <1>6
  <2>2. ASSUME NEW a
        PROVE  HandWorth(a, n) + HandWorth(a, s)
                 = HandWorth(a, node[t]) + HandWorth(a, secondary[t]) + AsEntries(a, -k)
    <3>1. HandWorth(a, p) \in Int /\ HandWorth(a, s) \in Int /\ AsEntries(a, -1) \in Int
      BY HandWorthType DEF Whole, Carried, AsEntries
    <3>2. AsEntries(a, -k) = AsEntries(a, -1)
      BY <1>6
    <3>3. HandWorth(a, p) + HandWorth(a, s) = HandWorth(a, node[t]) + HandWorth(a, secondary[t])
      OBVIOUS
    <3>4. HandWorth(a, n) = HandWorth(a, p) + AsEntries(a, -1)
      BY <1>4
    <3> QED
      BY ONLY <3>1, <3>2, <3>3, <3>4
  <2>3. /\ cursor' = [cursor EXCEPT ![t] = Len(n.entries)]
        /\ node' = [node EXCEPT ![t] = n]
        /\ secondary' = [secondary EXCEPT ![t] = s]
    BY <1>4 DEF n
  <2>4. UNCHANGED <<free, stored, empty, credit, remaining>>
        /\ UNCHANGED <<home, disabled, todo, plate>>
    OBVIOUS
  <2>5. /\ Slab!Idle(t) /\ node[t] # None /\ n \in Plates /\ b \in AllHomes
        /\ s \in Whole /\ s.used \in {0, Half, Capacity}
    BY <1>4
  <2> QED
    BY ONLY SlabKnown, t \in Users, k \in Int, <2>1, <2>2, <2>3, <2>4, <2>5, OwnPlates
<1> QED
  BY <1>6

\* The program puts a block into plate p, the active one from now on.
LEMMA ProgramGives ==
  ASSUME SlabKnown, NEW t \in Users, Slab!Idle(t), node[t] # None, NEW b \in Slab!Returnable,
         NEW p \in Plates, Len(p.entries) < Capacity, NEW s \in Whole, s.used \in {0, Half, Capacity},
         node' = [node EXCEPT ![t] = Given(p, b)], secondary' = [secondary EXCEPT ![t] = s],
         cursor' = [cursor EXCEPT ![t] = Len(p.entries) + 1],
         issued' = [issued EXCEPT ![b] = @ - 1],
         UNCHANGED <<free, stored, empty, credit, remaining>>,
         UNCHANGED <<home, disabled, todo, plate>>,
         \A a : HandWorth(a, p) + HandWorth(a, s)
                   = HandWorth(a, node[t]) + HandWorth(a, secondary[t])
  PROVE  SlabKnown'
<1> DEFINE n == Given(p, b)
<1>1. b \in AllHomes /\ issued[b] > 0
  BY DEF Slab!Returnable, AllHomes
<1>4. /\ n \in Plates /\ Len(n.entries) = Len(p.entries) + 1 /\ b \in AllHomes
      /\ \A a : HandWorth(a, n) = HandWorth(a, p) + AsEntries(a, 1)
  BY <1>1, GivenFacts
<1>5. issued[b] + (-1) \in Nat /\ issued' = [issued EXCEPT ![b] = issued[b] + (-1)]
  <2>1. issued \in [AllHomes -> Nat] /\ issued[b] \in Nat
    BY <1>1 DEF SlabKnown, Shape, SharedTypes
  <2>2. issued[b] - 1 = issued[b] + (-1) /\ issued[b] - 1 \in Nat
    BY <1>1, <2>1
  <2> QED
    BY <2>2
<1> HIDE DEF n
<1>6. ASSUME NEW k \in Int, k = -1
      PROVE  SlabKnown'
  <2>1. issued[b] + k \in Nat /\ issued' = [issued EXCEPT ![b] = issued[b] + k]
    BY <1>5, <1>6
  <2>2. ASSUME NEW a
        PROVE  HandWorth(a, n) + HandWorth(a, s)
                 = HandWorth(a, node[t]) + HandWorth(a, secondary[t]) + AsEntries(a, -k)
    <3>1. HandWorth(a, p) \in Int /\ HandWorth(a, s) \in Int /\ AsEntries(a, 1) \in Int
      BY HandWorthType DEF Whole, Carried, AsEntries
    <3>2. AsEntries(a, -k) = AsEntries(a, 1)
      BY <1>6
    <3>3. HandWorth(a, p) + HandWorth(a, s) = HandWorth(a, node[t]) + HandWorth(a, secondary[t])
      OBVIOUS
    <3>4. HandWorth(a, n) = HandWorth(a, p) + AsEntries(a, 1)
      BY <1>4
    <3> QED
      BY ONLY <3>1, <3>2, <3>3, <3>4
  <2>3. /\ cursor' = [cursor EXCEPT ![t] = Len(n.entries)]
        /\ node' = [node EXCEPT ![t] = n]
        /\ secondary' = [secondary EXCEPT ![t] = s]
    BY <1>4 DEF n
  <2>4. UNCHANGED <<free, stored, empty, credit, remaining>>
        /\ UNCHANGED <<home, disabled, todo, plate>>
    OBVIOUS
  <2>5. /\ Slab!Idle(t) /\ node[t] # None /\ n \in Plates /\ b \in AllHomes
        /\ s \in Whole /\ s.used \in {0, Half, Capacity}
    BY <1>4
  <2> QED
    BY ONLY SlabKnown, t \in Users, k \in Int, <2>1, <2>2, <2>3, <2>4, <2>5, OwnPlates
<1> QED
  BY <1>6

\* An idle thread with plates: what it knows of them.
LEMMA IdlePlates ==
  ASSUME SlabKnown, NEW t \in Users, Slab!Idle(t), node[t] # None
  PROVE  /\ node[t] \in Plates /\ cursor[t] = Len(node[t].entries) /\ cursor[t] \in Nat
         /\ secondary[t] \in Whole /\ secondary[t] \in Plates /\ secondary[t].used \in {0, Half, Capacity}
         /\ secondary[t].used = Len(secondary[t].entries)
         /\ secondary = [secondary EXCEPT ![t] = secondary[t]]
         /\ Recounted(node[t], cursor[t]) \in Whole /\ Recounted(node[t], cursor[t]).used = cursor[t]
         /\ \A a : HandWorth(a, Recounted(node[t], cursor[t])) = HandWorth(a, node[t])
<1>1. Keeps(node[t], secondary[t], cursor[t], home[t], disabled[t], plate[t])
  BY IdleFacts
<1>2. /\ node[t] \in Plates /\ cursor[t] = Len(node[t].entries)
      /\ secondary[t] \in Whole /\ secondary[t].used \in {0, Half, Capacity}
  BY <1>1 DEF Keeps
<1>3. secondary[t] \in Plates /\ secondary[t].used = Len(secondary[t].entries)
  BY <1>2 DEF Whole
<1>4. secondary = [secondary EXCEPT ![t] = secondary[t]]
  BY Stay DEF SlabKnown, Shape
<1>5. cursor[t] \in Nat
  BY <1>2, PlateFacts
<1>6. /\ Recounted(node[t], cursor[t]) \in Whole /\ Recounted(node[t], cursor[t]).used = cursor[t]
      /\ \A a : HandWorth(a, Recounted(node[t], cursor[t])) = HandWorth(a, node[t])
  BY <1>2, CountedFacts
<1> QED
  BY <1>2, <1>3, <1>4, <1>5, <1>6

LEMMA AllocateCachedKeeps ==
  ASSUME SlabKnown, NEW t \in Users, Slab!AllocateCached(t)
  PROVE  SlabKnown'
<1> DEFINE p == node[t]
           s == secondary[t]
<1>1. /\ cursor[t] > 0 /\ Slab!Idle(t)
      /\ node' = [node EXCEPT ![t] = Taken(p)] /\ cursor' = [cursor EXCEPT ![t] = cursor[t] - 1]
      /\ issued' = [issued EXCEPT ![Slab!Top(p)] = @ + 1]
      /\ secondary' = secondary
      /\ UNCHANGED <<free, stored, empty, credit, remaining>>
      /\ UNCHANGED <<home, disabled, todo, plate>>
  BY DEF Slab!AllocateCached, Slab!TakeFrom, Slab!Set, Slab!Quiet, Slab!layer2, Taken
<1>2. node[t] # None
  <2>1. Keeps(node[t], secondary[t], cursor[t], home[t], disabled[t], plate[t])
    BY <1>1, IdleFacts
  <2> QED
    BY <1>1, <2>1 DEF Keeps
<1>3. /\ p \in Plates /\ cursor[t] = Len(p.entries)
      /\ s \in Whole /\ s.used \in {0, Half, Capacity}
      /\ secondary = [secondary EXCEPT ![t] = s]
  BY <1>1, <1>2, IdlePlates
<1>4. Len(p.entries) > 0 /\ cursor' = [cursor EXCEPT ![t] = Len(p.entries) - 1]
      /\ secondary' = [secondary EXCEPT ![t] = s]
  BY <1>1, <1>3
<1>5. \A a : HandWorth(a, p) + HandWorth(a, s) = HandWorth(a, node[t]) + HandWorth(a, secondary[t])
  OBVIOUS
<1> HIDE DEF p, s
<1> QED
  BY <1>1, <1>2, <1>3, <1>4, <1>5, ProgramTakes

LEMMA AllocateSwappingKeeps ==
  ASSUME SlabKnown, NEW t \in Users, Slab!AllocateSwapping(t)
  PROVE  SlabKnown'
<1> DEFINE a == Recounted(node[t], 0)
           s == secondary[t]
<1>1. /\ Slab!Idle(t) /\ node[t] # None /\ cursor[t] = 0 /\ s.used # 0
      /\ UNCHANGED <<free, stored, empty, credit, remaining>>
      /\ UNCHANGED <<home, disabled, todo, plate>>
  BY DEF Slab!AllocateSwapping, Slab!Quiet, Slab!layer2
<1>2. \/ /\ s.used = Capacity
         /\ node' = [node EXCEPT ![t] = Taken(Slab!More(a, s, Half))]
         /\ cursor' = [cursor EXCEPT ![t] = Half - 1]
         /\ issued' = [issued EXCEPT ![Slab!Top(Slab!More(a, s, Half))] = @ + 1]
         /\ secondary' = [secondary EXCEPT ![t] = Slab!Less(s, Half)]
      \/ /\ s.used # Capacity
         /\ node' = [node EXCEPT ![t] = Taken(s)]
         /\ cursor' = [cursor EXCEPT ![t] = s.used - 1]
         /\ issued' = [issued EXCEPT ![Slab!Top(s)] = @ + 1]
         /\ secondary' = [secondary EXCEPT ![t] = a]
  BY DEF Slab!AllocateSwapping, Slab!TakeFrom, Slab!Set, Taken, Recounted, Half
<1>3. /\ s \in Whole /\ s \in Plates /\ s.used \in {0, Half, Capacity} /\ s.used = Len(s.entries)
      /\ a \in Whole /\ a.used = 0
      /\ \A x : HandWorth(x, a) = HandWorth(x, node[t])
  BY <1>1, IdlePlates
<1>4. node[t] \in Plates
  BY <1>1, IdlePlates
<1> HIDE DEF a
<1>5. CASE /\ s.used = Capacity
           /\ node' = [node EXCEPT ![t] = Taken(Slab!More(a, s, Half))]
           /\ cursor' = [cursor EXCEPT ![t] = Half - 1]
           /\ issued' = [issued EXCEPT ![Slab!Top(Slab!More(a, s, Half))] = @ + 1]
           /\ secondary' = [secondary EXCEPT ![t] = Slab!Less(s, Half)]
  <2> DEFINE u == Slab!Less(s, Half)
             v == Slab!More(a, s, Half)
  <2>1. Half \in Nat /\ Half <= s.used /\ a.used + Half <= Capacity
    BY <1>3, <1>5, SlabConstants
  <2>2. /\ u \in Whole /\ u.used = s.used - Half /\ v \in Whole /\ v.used = a.used + Half
        /\ \A x : HandWorth(x, u) + HandWorth(x, v) = HandWorth(x, s) + HandWorth(x, a)
    BY <1>3, <2>1, MoveEntries, Zenon
  <2> HIDE DEF u, v
  <2>3. v \in Plates /\ Len(v.entries) = Half /\ Half > 0
    BY <1>3, <2>2, SlabConstants DEF Whole
  <2>4. u.used = Half
    BY <1>5, <2>2, SlabConstants
  <2>5. ASSUME NEW x
        PROVE  HandWorth(x, v) + HandWorth(x, u) = HandWorth(x, node[t]) + HandWorth(x, secondary[t])
    <3>1. HandWorth(x, u) \in Int /\ HandWorth(x, v) \in Int /\ HandWorth(x, s) \in Int /\ HandWorth(x, a) \in Int
      BY <1>3, <2>2, HandWorthType DEF Whole, Carried
    <3> QED
      BY <1>3, <2>2, <3>1
  <2>6. /\ node' = [node EXCEPT ![t] = Taken(v)]
        /\ cursor' = [cursor EXCEPT ![t] = Len(v.entries) - 1]
        /\ issued' = [issued EXCEPT ![Slab!Top(v)] = @ + 1]
        /\ secondary' = [secondary EXCEPT ![t] = u]
    BY <1>5, <2>3 DEF u, v
  <2>7. Len(v.entries) > 0 /\ u.used \in {0, Half, Capacity}
    BY <2>3, <2>4
  <2> QED
    BY <1>1, <2>2, <2>3, <2>5, <2>6, <2>7, ProgramTakes
<1>6. CASE /\ s.used # Capacity
           /\ node' = [node EXCEPT ![t] = Taken(s)]
           /\ cursor' = [cursor EXCEPT ![t] = s.used - 1]
           /\ issued' = [issued EXCEPT ![Slab!Top(s)] = @ + 1]
           /\ secondary' = [secondary EXCEPT ![t] = a]
  <2>1. Len(s.entries) > 0 /\ a.used \in {0, Half, Capacity}
        /\ cursor' = [cursor EXCEPT ![t] = Len(s.entries) - 1]
    BY <1>1, <1>3, <1>6, SlabConstants
  <2>2. ASSUME NEW x
        PROVE  HandWorth(x, s) + HandWorth(x, a) = HandWorth(x, node[t]) + HandWorth(x, secondary[t])
    <3>1. HandWorth(x, s) \in Int /\ HandWorth(x, a) \in Int
      BY <1>3, HandWorthType DEF Whole, Carried
    <3> QED
      BY <1>3, <3>1
  <2>3. s \in Plates /\ a \in Whole
    BY <1>3
  <2> HIDE DEF s
  <2> QED
    BY <1>1, <1>6, <2>1, <2>2, <2>3, ProgramTakes
<1> QED
  BY <1>2, <1>5, <1>6

LEMMA DeallocateCachedKeeps ==
  ASSUME SlabKnown, NEW t \in Users, NEW b \in Slab!Returnable, Slab!DeallocateCached(t, b)
  PROVE  SlabKnown'
<1> DEFINE p == node[t]
           s == secondary[t]
<1>1. /\ cursor[t] < Capacity /\ Slab!Idle(t) /\ node[t] # None
      /\ node' = [node EXCEPT ![t] = Given(p, b)] /\ cursor' = [cursor EXCEPT ![t] = cursor[t] + 1]
      /\ issued' = [issued EXCEPT ![b] = @ - 1]
      /\ secondary' = secondary
      /\ UNCHANGED <<free, stored, empty, credit, remaining>>
      /\ UNCHANGED <<home, disabled, todo, plate>>
  BY DEF Slab!DeallocateCached, Slab!PutInto, Slab!Set, Slab!Quiet, Slab!layer2, Given
<1>3. /\ p \in Plates /\ cursor[t] = Len(p.entries)
      /\ s \in Whole /\ s.used \in {0, Half, Capacity}
      /\ secondary = [secondary EXCEPT ![t] = s]
  BY <1>1, IdlePlates
<1>4. Len(p.entries) < Capacity /\ cursor' = [cursor EXCEPT ![t] = Len(p.entries) + 1]
      /\ secondary' = [secondary EXCEPT ![t] = s]
  BY <1>1, <1>3
<1>5. \A a : HandWorth(a, p) + HandWorth(a, s) = HandWorth(a, node[t]) + HandWorth(a, secondary[t])
  OBVIOUS
<1> HIDE DEF p, s
<1> QED
  BY <1>1, <1>3, <1>4, <1>5, ProgramGives

LEMMA DeallocateSwappingKeeps ==
  ASSUME SlabKnown, NEW t \in Users, NEW b \in Slab!Returnable, Slab!DeallocateSwapping(t, b)
  PROVE  SlabKnown'
<1> DEFINE a == Recounted(node[t], Capacity)
           s == secondary[t]
<1>1. /\ Slab!Idle(t) /\ node[t] # None /\ cursor[t] = Capacity /\ s.used # Capacity
      /\ issued' = [issued EXCEPT ![b] = @ - 1]
      /\ UNCHANGED <<free, stored, empty, credit, remaining>>
      /\ UNCHANGED <<home, disabled, todo, plate>>
  BY DEF Slab!DeallocateSwapping, Slab!Quiet, Slab!layer2
<1>2. \/ /\ s.used = 0
         /\ node' = [node EXCEPT ![t] = Given(Slab!Less(a, Half), b)]
         /\ cursor' = [cursor EXCEPT ![t] = Half + 1]
         /\ secondary' = [secondary EXCEPT ![t] = Slab!More(s, a, Half)]
      \/ /\ s.used # 0
         /\ node' = [node EXCEPT ![t] = Given(s, b)]
         /\ cursor' = [cursor EXCEPT ![t] = s.used + 1]
         /\ secondary' = [secondary EXCEPT ![t] = a]
  BY DEF Slab!DeallocateSwapping, Slab!PutInto, Slab!Set, Given, Recounted, Half
<1>3. /\ s \in Whole /\ s \in Plates /\ s.used \in {0, Half, Capacity} /\ s.used = Len(s.entries)
      /\ a \in Whole /\ a.used = Capacity
      /\ \A x : HandWorth(x, a) = HandWorth(x, node[t])
  BY <1>1, IdlePlates
<1> HIDE DEF a
<1>5. CASE /\ s.used = 0
           /\ node' = [node EXCEPT ![t] = Given(Slab!Less(a, Half), b)]
           /\ cursor' = [cursor EXCEPT ![t] = Half + 1]
           /\ secondary' = [secondary EXCEPT ![t] = Slab!More(s, a, Half)]
  <2> DEFINE u == Slab!Less(a, Half)
             v == Slab!More(s, a, Half)
  <2>1. Half \in Nat /\ Half <= a.used /\ s.used + Half <= Capacity
    BY <1>3, <1>5, SlabConstants
  <2>2. /\ u \in Whole /\ u.used = a.used - Half /\ v \in Whole /\ v.used = s.used + Half
        /\ \A x : HandWorth(x, u) + HandWorth(x, v) = HandWorth(x, a) + HandWorth(x, s)
    BY <1>3, <2>1, MoveEntries
  <2> HIDE DEF u, v
  <2>3. u \in Plates /\ Len(u.entries) = Half /\ Half < Capacity
    <3>1. Capacity - Half = Half /\ Half < Capacity
      BY SlabConstants
    <3>2. u.used = Half
      BY <1>3, <2>2, <3>1
    <3> QED
      BY <2>2, <3>1, <3>2 DEF Whole
  <2>4. v.used = Half
    BY <1>5, <2>2, SlabConstants
  <2>5. ASSUME NEW x
        PROVE  HandWorth(x, u) + HandWorth(x, v) = HandWorth(x, node[t]) + HandWorth(x, secondary[t])
    <3>1. HandWorth(x, u) \in Int /\ HandWorth(x, v) \in Int /\ HandWorth(x, s) \in Int /\ HandWorth(x, a) \in Int
      BY <1>3, <2>2, HandWorthType DEF Whole, Carried
    <3> QED
      BY <1>3, <2>2, <3>1
  <2>6. /\ node' = [node EXCEPT ![t] = Given(u, b)]
        /\ cursor' = [cursor EXCEPT ![t] = Len(u.entries) + 1]
        /\ secondary' = [secondary EXCEPT ![t] = v]
    BY <1>5, <2>3 DEF u, v
  <2>7. Len(u.entries) < Capacity /\ v.used \in {0, Half, Capacity}
    BY <2>3, <2>4
  <2> QED
    BY <1>1, <2>2, <2>3, <2>5, <2>6, <2>7, ProgramGives
<1>6. CASE /\ s.used # 0
           /\ node' = [node EXCEPT ![t] = Given(s, b)]
           /\ cursor' = [cursor EXCEPT ![t] = s.used + 1]
           /\ secondary' = [secondary EXCEPT ![t] = a]
  <2>1. Len(s.entries) < Capacity /\ a.used \in {0, Half, Capacity}
        /\ cursor' = [cursor EXCEPT ![t] = Len(s.entries) + 1]
    BY <1>1, <1>3, <1>6, SlabConstants
  <2>2. ASSUME NEW x
        PROVE  HandWorth(x, s) + HandWorth(x, a) = HandWorth(x, node[t]) + HandWorth(x, secondary[t])
    <3>1. HandWorth(x, s) \in Int /\ HandWorth(x, a) \in Int
      BY <1>3, HandWorthType DEF Whole, Carried
    <3> QED
      BY <1>3, <3>1
  <2>3. s \in Plates /\ a \in Whole
    BY <1>3
  <2> HIDE DEF s
  <2> QED
    BY <1>1, <1>6, <2>1, <2>2, <2>3, ProgramGives
<1> QED
  BY <1>2, <1>5, <1>6

-----------------------------------------------------------------------------
(* Calls begin, and use the plates they got.                               *)

\* What a thread has of an account when its state is this, and that each account grows
\* by i blocks in plates and j on their way; where these come from.
Worths(a, t, n, s, q, l) ==
    HandWorth(a, n) + HandWorth(a, s) + HandWorth(a, q) + ListWorth(a, t, l)

Grows(t, n, s, q, l, i, j) ==
    \A a : Worths(a, t, n, s, q, l)
             = Worths(a, t, node[t], secondary[t], plate[t], todo[t])
                  + (AsEntries(a, i) + AsReturned(a, j))

Comes(f, k, i, j) ==
    /\ f \in Int /\ k \in Int /\ i \in Int /\ j \in Int /\ f + k + i + j = 0
    /\ free' = free + f /\ SumOf(issued', AllHomes) = SumOf(issued, AllHomes) + k

LEMMA CallGoesOn ==
  ASSUME SlabKnown, NEW t \in Users,
         NEW n, NEW s, NEW c, NEW d, NEW q, NEW l,
         Known(n, s, c, home[t], d, q, l), Becomes(t, n, s, c, home[t], d, q, l),
         SharedTypes', UNCHANGED <<stored, empty, remaining, credit>>,
         NEW f, NEW k, NEW i, NEW j, Comes(f, k, i, j), Grows(t, n, s, q, l, i, j)
  PROVE  SlabKnown'
<1>1. ASSUME NEW a
      PROVE  Gains(a, t, n, s, q, l, i, j)
  <2>1. n \in Carried /\ s \in Carried /\ q \in Carried /\ l \in Seq(Steps)
    BY KnownTypes
  <2>2. /\ node[t] \in Carried /\ secondary[t] \in Carried /\ plate[t] \in Carried
        /\ todo[t] \in Seq(Steps)
    BY DEF SlabKnown, Shape, ThreadTypes
  <2>3. Worths(a, t, n, s, q, l) \in Int
    BY <2>1, HandWorthType, ListWorthType DEF Worths
  <2>4. Worths(a, t, node[t], secondary[t], plate[t], todo[t]) \in Int
    BY <2>2, HandWorthType, ListWorthType DEF Worths
  <2>5. AsEntries(a, i) + AsReturned(a, j) \in Int
    BY DEF AsEntries, AsReturned, Comes
  <2>6. Worths(a, t, n, s, q, l) - Worths(a, t, node[t], secondary[t], plate[t], todo[t])
          = AsEntries(a, i) + AsReturned(a, j)
    BY <2>3, <2>4, <2>5 DEF Grows
  <2> QED
    BY <2>6 DEF Gains, Worths, Mine
<1>2. /\ f \in Int /\ k \in Int /\ i \in Int /\ j \in Int /\ f + k + i + j = 0
      /\ free' = free + f /\ SumOf(issued', AllHomes) = SumOf(issued, AllHomes) + k
  BY DEF Comes
<1> QED
  BY <1>1, <1>2, CallPasses

\* What a call that is to use a plate is left with.
LEMMA FullIsUsed ==
  ASSUME NEW r, NEW n, NEW s, NEW h, NEW d, NEW q, AfterErrands(r, n, s, h, d, q), r # <<>>,
         Head(r).do \in {"install", "direct"}
  PROVE  /\ r = <<Slab!Do(Head(r).do)>> /\ (q # None => q.used = Capacity)
         /\ Head(r).do = "install" => n \in Bare /\ s \in Bare
<1>1. PICK x \in Seekers : /\ WantsFull(x, n, s)
                           /\ r = <<x>> /\ (q # None => q.used = Capacity)
  BY DEF AfterErrands, Slab!Do, Bearers, HolderSteps
<1>2. x = Slab!Do(x.do) /\ (x.do = "install" => n \in Bare /\ s \in Bare)
  BY <1>1 DEF WantsFull, Slab!Do
<1> QED
  BY <1>1, <1>2

LEMMA EmptyIsUsed ==
  ASSUME NEW r, NEW n, NEW s, NEW h, NEW d, NEW q, AfterErrands(r, n, s, h, d, q), r # <<>>,
         Head(r).do \in {"gotActive", "gotSecondary", "gotEmpty"}
  PROVE  /\ r = <<Head(r)>> /\ (q # None => q \in Bare) /\ Head(r) \in Bearers \cup HolderSteps
         /\ WantsEmpty(Head(r), n, s, d)
<1>1. ~(\E x \in Seekers : WantsFull(x, n, s) /\ (\/ r = <<x>> \/ r = <<Slab!Do("refill"), x>>
            \/ r = <<Slab!Do("fill"), x>> \/ r = <<Slab!Do("seekFull"), x>>
            \/ r = <<Slab!Do("seekPartial"), x>>
            \/ \E w \in {"popEmpty", "mapPlates"} : r = <<Slab!Do(w), Slab!Do("fill"), x>>))
  BY DEF Seekers, Slab!Do
<1>2. ~(\E x \in Bearers : Finishes(x, n, s) /\ r = <<x>>)
  BY DEF Finishes
<1>3. PICK x \in Bearers \cup HolderSteps :
          /\ WantsEmpty(x, n, s, d)
          /\ \/ r = <<x>> /\ (q # None => q \in Bare)
             \/ \E w \in {"popEmpty", "mapPlates"} : r = <<Slab!Do(w), x>> /\ q = None
  BY <1>1, <1>2 DEF AfterErrands
<1>4. r = <<x>> /\ (q # None => q \in Bare)
  BY <1>3 DEF Slab!Do
<1> QED
  BY <1>3, <1>4

LEMMA BlockIsPut ==
  ASSUME NEW r, NEW n, NEW s, NEW h, NEW d, NEW q, AfterErrands(r, n, s, h, d, q), r # <<>>,
         Head(r).do \in {"failed", "makeRoom", "place"}
  PROVE  r = <<Head(r)>> /\ q = None /\ Head(r) \in Bearers /\ Finishes(Head(r), n, s)
<1>1. ~(\E x \in Seekers : WantsFull(x, n, s) /\ (\/ r = <<x>> \/ r = <<Slab!Do("refill"), x>>
            \/ r = <<Slab!Do("fill"), x>> \/ r = <<Slab!Do("seekFull"), x>>
            \/ r = <<Slab!Do("seekPartial"), x>>
            \/ \E w \in {"popEmpty", "mapPlates"} : r = <<Slab!Do(w), Slab!Do("fill"), x>>))
  BY DEF Seekers, Slab!Do
<1>2. ~(\E x \in Bearers \cup HolderSteps :
          /\ WantsEmpty(x, n, s, d)
          /\ \/ r = <<x>> \/ \E w \in {"popEmpty", "mapPlates"} : r = <<Slab!Do(w), x>>)
  BY DEF WantsEmpty, Slab!Do, HolderSteps
<1>3. PICK x \in Bearers : Finishes(x, n, s) /\ r = <<x>> /\ q = None
  BY <1>1, <1>2 DEF AfterErrands
<1> QED
  BY <1>3

LEMMA BlockErrand ==
  ASSUME NEW t \in Users, NEW w \in {"gotActive", "gotEmpty", "failed", "makeRoom", "place"},
         NEW b \in AllHomes \cup {None}
  PROVE  /\ Slab!DoFor(w, b) \in Bearers /\ Slab!DoFor(w, b) \in Steps
         /\ Slab!DoFor(w, b).do = w /\ Slab!DoFor(w, b).block = b
         /\ <<Slab!DoFor(w, b)>> \in Seq(Steps)
         /\ <<Slab!Do("popEmpty"), Slab!DoFor(w, b)>> \in Seq(Steps)
         /\ \A a : /\ StepWorth(a, Slab!DoFor(w, b)) = AsBlock(a, b)
                   /\ ListWorth(a, t, <<Slab!DoFor(w, b)>>) = AsBlock(a, b)
                   /\ ListWorth(a, t, <<Slab!Do("popEmpty"), Slab!DoFor(w, b)>>) = AsBlock(a, b)
<1> DEFINE x == Slab!DoFor(w, b)
           y == Slab!Do("popEmpty")
<1>1. x \in Bearers /\ x.do = w /\ x.block = b
  BY DEF Slab!DoFor, Bearers
<1>2. y \in Seekers /\ y \in Steps /\ x \in Steps
  BY <1>1, DoIsSeeker
<1> HIDE DEF x, y
<1>3. <<x>> \in Seq(Steps) /\ <<y, x>> \in Seq(Steps)
  BY <1>2
<1>4. ASSUME NEW a
      PROVE  /\ StepWorth(a, x) = AsBlock(a, b)
             /\ ListWorth(a, t, <<x>>) = AsBlock(a, b)
             /\ ListWorth(a, t, <<y, x>>) = AsBlock(a, b)
  <2>1. StepWorth(a, x) = AsBlock(a, b) /\ StepWorth(a, y) = 0 /\ AsBlock(a, b) \in Int
    BY <1>1, <1>2, WorthOfBearer, WorthOfSeeker DEF AsBlock
  <2>2. ListWorth(a, t, <<x>>) = StepWorth(a, x)
    BY <1>2, ListOfOne
  <2>3. ListWorth(a, t, <<y, x>>) = StepWorth(a, y) + StepWorth(a, x)
    BY <1>2, ListOfTwo
  <2> QED
    BY <2>1, <2>2, <2>3
<1> QED
  BY <1>1, <1>2, <1>3, <1>4 DEF x, y

LEMMA CallBegins ==
  ASSUME SlabKnown, NEW t \in Users, Slab!Idle(t), NEW n, NEW l \in Seq(Steps),
         Keeps(n, secondary[t], cursor[t], home[t], disabled[t], None),
         AfterErrands(l, n, secondary[t], home[t], disabled[t], None),
         node' = [node EXCEPT ![t] = n], todo' = [todo EXCEPT ![t] = l],
         UNCHANGED <<stored, empty, remaining, credit>>, free' = free,
         UNCHANGED <<secondary, cursor, home, disabled, plate>>,
         SharedTypes', NEW k \in Int, SumOf(issued', AllHomes) = SumOf(issued, AllHomes) + k,
         \A a : HandWorth(a, n) = HandWorth(a, node[t]),
         \A a : ListWorth(a, t, l) = AsReturned(a, -k)
  PROVE  SlabKnown'
<1>1. plate[t] = None /\ todo[t] = <<>>
  BY IdleFacts
<1>2. Known(n, secondary[t], cursor[t], home[t], disabled[t], None, l)
  BY IsKnownAtOnce
<1>3. SharedTypes /\ ThreadTypes
  BY DEF SlabKnown, Shape
<1>4. Becomes(t, n, secondary[t], cursor[t], home[t], disabled[t], None, l)
  BY <1>1, <1>3, Stay DEF Becomes
<1>5. ASSUME NEW i \in Int, i = 0, NEW j \in Int, j = -k
      PROVE  Grows(t, n, secondary[t], None, l, i, j)
  <2>1. ASSUME NEW a
        PROVE  Worths(a, t, n, secondary[t], None, l)
                = Worths(a, t, node[t], secondary[t], plate[t], todo[t])
                     + (AsEntries(a, i) + AsReturned(a, j))
    <3> DEFINE N == HandWorth(a, node[t])
               S == HandWorth(a, secondary[t])
               R == AsReturned(a, j)
    <3>1. N \in Int /\ S \in Int
      BY <1>3, HandWorthType DEF ThreadTypes
    <3>2. R \in Int /\ AsEntries(a, i) = 0
      BY <1>5 DEF AsReturned, AsEntries
    <3>3. Worths(a, t, n, secondary[t], None, l) = N + S + 0 + R
      BY <1>5, NothingInHand DEF Worths
    <3>4. Worths(a, t, node[t], secondary[t], plate[t], todo[t]) = N + S + 0 + 0
      BY <1>1, NothingInHand, ListOfNone DEF Worths
    <3> HIDE DEF N, S, R
    <3>5. N + S + 0 + R = (N + S + 0 + 0) + (0 + R)
      BY <3>1, <3>2
    <3> QED
      BY <3>2, <3>3, <3>4, <3>5 DEF R
  <2> QED
    BY <2>1 DEF Grows
<1>6. ASSUME NEW f \in Int, f = 0, NEW i \in Int, i = 0, NEW j \in Int, j = -k
      PROVE  SlabKnown'
  <2>1. Comes(f, k, i, j)
    BY <1>3, <1>6 DEF SharedTypes, Comes
  <2>2. Grows(t, n, secondary[t], None, l, i, j)
    BY <1>5, <1>6
  <2> QED
    BY <1>2, <1>4, <2>1, <2>2, CallGoesOn
<1>7. -k \in Int /\ 0 \in Int
  OBVIOUS
<1> QED
  BY <1>6, <1>7

\* Nothing is issued, or a block of home b comes back.
LEMMA NothingIssued ==
  ASSUME SlabKnown, UNCHANGED <<free, issued, empty, remaining, credit>>
  PROVE  SharedTypes' /\ SumOf(issued', AllHomes) = SumOf(issued, AllHomes) + 0
<1>1. SumOf(issued, AllHomes) \in Nat
  BY IssuedType DEF SlabKnown, Shape
<1> QED
  BY <1>1 DEF SlabKnown, Shape, SharedTypes

LEMMA BlockReturns ==
  ASSUME SlabKnown, NEW b \in Slab!Returnable, issued' = [issued EXCEPT ![b] = @ - 1],
         UNCHANGED <<free, empty, remaining, credit>>
  PROVE  /\ SharedTypes' /\ SumOf(issued', AllHomes) = SumOf(issued, AllHomes) + (-1)
         /\ b \in AllHomes
<1>1. b \in AllHomes /\ issued[b] > 0
  BY DEF Slab!Returnable, AllHomes
<1>2. SharedTypes /\ issued \in [AllHomes -> Nat] /\ issued[b] \in Nat
  BY <1>1 DEF SlabKnown, Shape, SharedTypes
<1>3. ASSUME NEW k \in Int, k = -1
      PROVE  /\ issued' \in [AllHomes -> Nat]
             /\ SumOf(issued', AllHomes) = SumOf(issued, AllHomes) + k
  <2>1. issued[b] + k \in Nat /\ issued[b] + k = issued[b] - 1
    BY <1>1, <1>2, <1>3
  <2>2. issued' = [issued EXCEPT ![b] = issued[b] + k]
    BY <2>1
  <2> QED
    BY <1>1, <1>2, <2>1, <2>2, IssuedChange
<1>4. -1 \in Int
  OBVIOUS
<1> QED
  BY <1>1, <1>2, <1>3, <1>4 DEF SharedTypes

\* Thread t asks for a full plate: a line of two seekers.
LEMMA FullLine ==
  ASSUME NEW t \in Users, NEW w \in {"install", "direct"}
  PROVE  /\ <<Slab!Do("seekFull"), Slab!Do(w)>> \in Seq(Steps)
         /\ \A a : ListWorth(a, t, <<Slab!Do("seekFull"), Slab!Do(w)>>) = 0
<1> DEFINE x == Slab!Do(w)
           y == Slab!Do("seekFull")
<1>1. x \in Seekers /\ y \in Seekers
  BY DoIsSeeker
<1> HIDE DEF x, y
<1>2. /\ <<x>> \in Seq(Steps) /\ <<y, x>> \in Seq(Steps) /\ <<y, y, x>> \in Seq(Steps)
      /\ <<y>> \o <<x>> = <<y, x>> /\ <<y, y>> \o <<x>> = <<y, y, x>>
      /\ \A a : /\ ListWorth(a, t, <<x>>) = 0 /\ ListWorth(a, t, <<y, x>>) = 0
                /\ ListWorth(a, t, <<y, y, x>>) = 0
  BY <1>1, SeekersLine, Zenon
<1> QED
  BY <1>2 DEF x, y

LEMMA AllocateRefillingKeeps ==
  ASSUME SlabKnown, NEW t \in Users, Slab!AllocateRefilling(t)
  PROVE  SlabKnown'
<1> DEFINE n == Recounted(node[t], 0)
           l == <<Slab!Do("seekFull"), Slab!Do("install")>>
<1>1. /\ Slab!Idle(t) /\ node[t] # None /\ cursor[t] = 0 /\ secondary[t].used = 0
      /\ node' = [node EXCEPT ![t] = n] /\ todo' = [todo EXCEPT ![t] = l]
      /\ free' = free /\ issued' = issued /\ UNCHANGED <<stored, empty, remaining, credit>>
      /\ UNCHANGED <<secondary, cursor, home, disabled, plate>>
  BY DEF Slab!AllocateRefilling, Slab!Set, Slab!layer2, Recounted
<1>2. /\ Keeps(node[t], secondary[t], cursor[t], home[t], disabled[t], plate[t]) /\ plate[t] = None
  BY <1>1, IdleFacts
<1>3. /\ n \in Whole /\ n.used = 0 /\ secondary[t] \in Whole
      /\ \A a : HandWorth(a, n) = HandWorth(a, node[t])
  BY <1>1, IdlePlates
<1>4. n \in Bare /\ secondary[t] \in Bare
  BY <1>1, <1>3 DEF Bare
<1>5. l \in Seq(Steps) /\ \A a : ListWorth(a, t, l) = 0
  <2>1. ASSUME NEW w \in {"install", "direct"}, w = "install"
        PROVE  /\ <<Slab!Do("seekFull"), Slab!Do(w)>> \in Seq(Steps)
               /\ \A a : ListWorth(a, t, <<Slab!Do("seekFull"), Slab!Do(w)>>) = 0
    BY FullLine
  <2> QED
    BY <2>1
<1> HIDE DEF n
<1>6. Keeps(n, secondary[t], cursor[t], home[t], disabled[t], None)
  <2>1. n \in Plates /\ n # None /\ Len(n.entries) = 0
    BY <1>3, PlateFacts DEF Whole
  <2> QED
    BY <1>1, <1>2, <2>1 DEF Keeps
<1>7. AfterErrands(l, n, secondary[t], home[t], disabled[t], None)
  <2>1. WantsFull(Slab!Do("install"), n, secondary[t]) /\ Slab!Do("install") \in Seekers
    BY <1>4, DoIsSeeker DEF WantsFull
  <2> QED
    BY <2>1, MayFollow
<1> HIDE DEF l
<1>8. ASSUME NEW k \in Int, k = 0
      PROVE  SlabKnown'
  <2>1. SharedTypes' /\ SumOf(issued', AllHomes) = SumOf(issued, AllHomes) + k
    BY <1>1, <1>8, NothingIssued
  <2>2. \A a : ListWorth(a, t, l) = AsReturned(a, -k)
    BY <1>5, <1>8 DEF AsReturned
  <2>3. \A a : HandWorth(a, n) = HandWorth(a, node[t])
    BY <1>3
  <2> QED
    BY <1>1, <1>5, <1>6, <1>7, <2>1, <2>2, <2>3, CallBegins
<1> QED
  BY <1>8

\* A call that leaves the active plate as it is.
LEMMA PlainBegins ==
  ASSUME SlabKnown, NEW t \in Users, Slab!Idle(t), NEW l \in Seq(Steps),
         AfterErrands(l, node[t], secondary[t], home[t], disabled[t], None),
         todo' = [todo EXCEPT ![t] = l],
         UNCHANGED <<stored, empty, remaining, credit>>, free' = free,
         UNCHANGED <<node, secondary, cursor, home, disabled, plate>>,
         SharedTypes', NEW k \in Int, SumOf(issued', AllHomes) = SumOf(issued, AllHomes) + k,
         \A a : ListWorth(a, t, l) = AsReturned(a, -k)
  PROVE  SlabKnown'
<1>1. Keeps(node[t], secondary[t], cursor[t], home[t], disabled[t], plate[t]) /\ plate[t] = None
  BY IdleFacts
<1>2. node' = [node EXCEPT ![t] = node[t]]
  BY Stay DEF SlabKnown, Shape
<1>3. \A a : HandWorth(a, node[t]) = HandWorth(a, node[t])
  OBVIOUS
<1>4. Keeps(node[t], secondary[t], cursor[t], home[t], disabled[t], None)
  BY <1>1
<1>5. UNCHANGED <<secondary, cursor, home, disabled, plate>>
  OBVIOUS
<1> QED
  BY <1>2, <1>3, <1>4, <1>5, CallBegins

LEMMA AllocateInitializingKeeps ==
  ASSUME SlabKnown, NEW t \in Users, Slab!AllocateInitializing(t)
  PROVE  SlabKnown'
<1> DEFINE x == Slab!DoFor("gotActive", None)
           l == <<Slab!Do("popEmpty"), x>>
<1>1. /\ Slab!Idle(t) /\ node[t] = None /\ ~disabled[t] /\ todo' = [todo EXCEPT ![t] = l]
      /\ free' = free /\ issued' = issued /\ UNCHANGED <<stored, empty, remaining, credit>>
      /\ UNCHANGED <<node, secondary, cursor, home, disabled, plate>>
  BY DEF Slab!AllocateInitializing, Slab!Set, Slab!layer2, Slab!layer1
<1>2. /\ x \in Bearers /\ l \in Seq(Steps) /\ x.do = "gotActive" /\ x.block = None
      /\ \A a : ListWorth(a, t, l) = AsBlock(a, None)
  <2>1. ASSUME NEW w \in {"gotActive", "gotEmpty", "failed", "makeRoom", "place"}, w = "gotActive",
               NEW b \in AllHomes \cup {None}, b = None
        PROVE  /\ Slab!DoFor(w, b) \in Bearers /\ Slab!DoFor(w, b) \in Steps
               /\ Slab!DoFor(w, b).do = w /\ Slab!DoFor(w, b).block = b
               /\ <<Slab!DoFor(w, b)>> \in Seq(Steps)
               /\ <<Slab!Do("popEmpty"), Slab!DoFor(w, b)>> \in Seq(Steps)
               /\ \A a : /\ StepWorth(a, Slab!DoFor(w, b)) = AsBlock(a, b)
                         /\ ListWorth(a, t, <<Slab!DoFor(w, b)>>) = AsBlock(a, b)
                         /\ ListWorth(a, t, <<Slab!Do("popEmpty"), Slab!DoFor(w, b)>>) = AsBlock(a, b)
    BY BlockErrand
  <2> QED
    BY <2>1
<1>3. AfterErrands(l, node[t], secondary[t], home[t], disabled[t], None)
  <2>1. WantsEmpty(x, node[t], secondary[t], disabled[t])
    BY <1>1, <1>2 DEF WantsEmpty, Bearers, Slab!DoFor
  <2> HIDE DEF x
  <2> QED
    BY <1>2, <2>1 DEF AfterErrands
<1> HIDE DEF l
<1>8. ASSUME NEW k \in Int, k = 0
      PROVE  SlabKnown'
  <2>1. SharedTypes' /\ SumOf(issued', AllHomes) = SumOf(issued, AllHomes) + k
    BY <1>1, <1>8, NothingIssued
  <2>2. \A a : ListWorth(a, t, l) = AsReturned(a, -k)
    BY <1>2, <1>8 DEF AsReturned, AsBlock
  <2>3. l \in Seq(Steps)
    BY <1>2
  <2> QED
    BY <1>1, <1>3, <2>1, <2>2, <2>3, PlainBegins
<1> QED
  BY <1>8

LEMMA AllocateDirectlyKeeps ==
  ASSUME SlabKnown, NEW t \in Users, Slab!AllocateDirectly(t)
  PROVE  SlabKnown'
<1> DEFINE l == <<Slab!Do("seekFull"), Slab!Do("direct")>>
<1>1. /\ Slab!Idle(t) /\ disabled[t] /\ todo' = [todo EXCEPT ![t] = l]
      /\ free' = free /\ issued' = issued /\ UNCHANGED <<stored, empty, remaining, credit>>
      /\ UNCHANGED <<node, secondary, cursor, home, disabled, plate>>
  BY DEF Slab!AllocateDirectly, Slab!Set, Slab!layer2, Slab!layer1
<1>2. l \in Seq(Steps) /\ \A a : ListWorth(a, t, l) = 0
  <2>1. ASSUME NEW w \in {"install", "direct"}, w = "direct"
        PROVE  /\ <<Slab!Do("seekFull"), Slab!Do(w)>> \in Seq(Steps)
               /\ \A a : ListWorth(a, t, <<Slab!Do("seekFull"), Slab!Do(w)>>) = 0
    BY FullLine
  <2> QED
    BY <2>1
<1>3. AfterErrands(l, node[t], secondary[t], home[t], disabled[t], None)
  <2>1. WantsFull(Slab!Do("direct"), node[t], secondary[t]) /\ Slab!Do("direct") \in Seekers
    BY DoIsSeeker DEF WantsFull
  <2> QED
    BY <2>1, MayFollow
<1> HIDE DEF l
<1>8. ASSUME NEW k \in Int, k = 0
      PROVE  SlabKnown'
  <2>1. SharedTypes' /\ SumOf(issued', AllHomes) = SumOf(issued, AllHomes) + k
    BY <1>1, <1>8, NothingIssued
  <2>2. \A a : ListWorth(a, t, l) = AsReturned(a, -k)
    BY <1>2, <1>8 DEF AsReturned
  <2>3. l \in Seq(Steps)
    BY <1>2
  <2> QED
    BY <1>1, <1>3, <2>1, <2>2, <2>3, PlainBegins
<1> QED
  BY <1>8

LEMMA DeallocateInitializingKeeps ==
  ASSUME SlabKnown, NEW t \in Users, NEW b \in Slab!Returnable, Slab!DeallocateInitializing(t, b)
  PROVE  SlabKnown'
<1> DEFINE x == Slab!DoFor("gotActive", b)
           l == <<Slab!Do("popEmpty"), x>>
<1>1. /\ Slab!Idle(t) /\ node[t] = None /\ ~disabled[t] /\ todo' = [todo EXCEPT ![t] = l]
      /\ issued' = [issued EXCEPT ![b] = @ - 1]
      /\ free' = free /\ UNCHANGED <<stored, empty, remaining, credit>>
      /\ UNCHANGED <<node, secondary, cursor, home, disabled, plate>>
  BY DEF Slab!DeallocateInitializing, Slab!Set, Slab!layer2, Slab!layer1
<1>2. /\ SharedTypes' /\ SumOf(issued', AllHomes) = SumOf(issued, AllHomes) + (-1)
      /\ b \in AllHomes
  BY <1>1, BlockReturns
<1>3. /\ x \in Bearers /\ l \in Seq(Steps) /\ x.do = "gotActive" /\ x.block = b
      /\ \A a : ListWorth(a, t, l) = AsBlock(a, b)
  <2>1. ASSUME NEW w \in {"gotActive", "gotEmpty", "failed", "makeRoom", "place"}, w = "gotActive",
               NEW c \in AllHomes \cup {None}, c = b
        PROVE  /\ Slab!DoFor(w, c) \in Bearers /\ Slab!DoFor(w, c) \in Steps
               /\ Slab!DoFor(w, c).do = w /\ Slab!DoFor(w, c).block = c
               /\ <<Slab!DoFor(w, c)>> \in Seq(Steps)
               /\ <<Slab!Do("popEmpty"), Slab!DoFor(w, c)>> \in Seq(Steps)
               /\ \A a : /\ StepWorth(a, Slab!DoFor(w, c)) = AsBlock(a, c)
                         /\ ListWorth(a, t, <<Slab!DoFor(w, c)>>) = AsBlock(a, c)
                         /\ ListWorth(a, t, <<Slab!Do("popEmpty"), Slab!DoFor(w, c)>>) = AsBlock(a, c)
    BY BlockErrand
  <2> QED
    BY <1>2, <2>1
<1>4. AfterErrands(l, node[t], secondary[t], home[t], disabled[t], None)
  <2>1. WantsEmpty(x, node[t], secondary[t], disabled[t])
    BY <1>1, <1>2 DEF WantsEmpty, Slab!DoFor
  <2> HIDE DEF x
  <2> QED
    BY <1>3, <2>1 DEF AfterErrands
<1> HIDE DEF l
<1>8. ASSUME NEW k \in Int, k = -1
      PROVE  SlabKnown'
  <2>1. SharedTypes' /\ SumOf(issued', AllHomes) = SumOf(issued, AllHomes) + k
    BY <1>2, <1>8
  <2>2. \A a : ListWorth(a, t, l) = AsReturned(a, -k)
    BY <1>2, <1>3, <1>8, SlabConstants DEF AsReturned, AsBlock
  <2>3. l \in Seq(Steps)
    BY <1>3
  <2> QED
    BY <1>1, <1>4, <2>1, <2>2, <2>3, PlainBegins
<1>9. -1 \in Int
  OBVIOUS
<1> QED
  BY <1>8, <1>9

LEMMA DeallocateDirectlyKeeps ==
  ASSUME SlabKnown, NEW t \in Users, NEW b \in Slab!Returnable, Slab!DeallocateDirectly(t, b)
  PROVE  SlabKnown'
<1> DEFINE x == Slab!DoFor("failed", b)
           l == <<x>>
<1>1. /\ Slab!Idle(t) /\ todo' = [todo EXCEPT ![t] = l]
      /\ issued' = [issued EXCEPT ![b] = @ - 1]
      /\ free' = free /\ UNCHANGED <<stored, empty, remaining, credit>>
      /\ UNCHANGED <<node, secondary, cursor, home, disabled, plate>>
  BY DEF Slab!DeallocateDirectly, Slab!Set, Slab!layer2, Slab!layer1
<1>2. /\ SharedTypes' /\ SumOf(issued', AllHomes) = SumOf(issued, AllHomes) + (-1)
      /\ b \in AllHomes
  BY <1>1, BlockReturns
<1>3. /\ x \in Bearers /\ l \in Seq(Steps) /\ x.do = "failed" /\ x.block = b
      /\ \A a : ListWorth(a, t, l) = AsBlock(a, b)
  <2>1. ASSUME NEW w \in {"gotActive", "gotEmpty", "failed", "makeRoom", "place"}, w = "failed",
               NEW c \in AllHomes \cup {None}, c = b
        PROVE  /\ Slab!DoFor(w, c) \in Bearers /\ Slab!DoFor(w, c) \in Steps
               /\ Slab!DoFor(w, c).do = w /\ Slab!DoFor(w, c).block = c
               /\ <<Slab!DoFor(w, c)>> \in Seq(Steps)
               /\ <<Slab!Do("popEmpty"), Slab!DoFor(w, c)>> \in Seq(Steps)
               /\ \A a : /\ StepWorth(a, Slab!DoFor(w, c)) = AsBlock(a, c)
                         /\ ListWorth(a, t, <<Slab!DoFor(w, c)>>) = AsBlock(a, c)
                         /\ ListWorth(a, t, <<Slab!Do("popEmpty"), Slab!DoFor(w, c)>>) = AsBlock(a, c)
    BY BlockErrand
  <2> QED
    BY <1>2, <2>1, Zenon
<1>4. AfterErrands(l, node[t], secondary[t], home[t], disabled[t], None)
  <2>1. Finishes(x, node[t], secondary[t])
    BY <1>2 DEF Finishes, Slab!DoFor
  <2> HIDE DEF x
  <2> QED
    BY <1>3, <2>1 DEF AfterErrands
<1> HIDE DEF l
<1>8. ASSUME NEW k \in Int, k = -1
      PROVE  SlabKnown'
  <2>1. SharedTypes' /\ SumOf(issued', AllHomes) = SumOf(issued, AllHomes) + k
    BY <1>2, <1>8
  <2>2. \A a : ListWorth(a, t, l) = AsReturned(a, -k)
    BY <1>2, <1>3, <1>8, SlabConstants DEF AsReturned, AsBlock
  <2>3. l \in Seq(Steps)
    BY <1>3
  <2> QED
    BY <1>1, <1>4, <2>1, <2>2, <2>3, PlainBegins
<1>9. -1 \in Int
  OBVIOUS
<1> QED
  BY <1>8, <1>9

LEMMA DeallocateReleasingKeeps ==
  ASSUME SlabKnown, NEW t \in Users, NEW b \in Slab!Returnable, Slab!DeallocateReleasing(t, b)
  PROVE  SlabKnown'
<1> DEFINE n == Recounted(node[t], Capacity)
           x == Slab!DoFor("gotEmpty", b)
           l == <<Slab!Do("popEmpty"), x>>
<1>1. /\ Slab!Idle(t) /\ node[t] # None /\ cursor[t] = Capacity /\ secondary[t].used = Capacity
      /\ node' = [node EXCEPT ![t] = n] /\ todo' = [todo EXCEPT ![t] = l]
      /\ issued' = [issued EXCEPT ![b] = @ - 1]
      /\ free' = free /\ UNCHANGED <<stored, empty, remaining, credit>>
      /\ UNCHANGED <<secondary, cursor, home, disabled, plate>>
  BY DEF Slab!DeallocateReleasing, Slab!Set, Slab!layer2, Recounted
<1>2. /\ SharedTypes' /\ SumOf(issued', AllHomes) = SumOf(issued, AllHomes) + (-1)
      /\ b \in AllHomes
  BY <1>1, BlockReturns
<1>3. /\ x \in Bearers /\ l \in Seq(Steps) /\ x.do = "gotEmpty" /\ x.block = b
      /\ \A a : ListWorth(a, t, l) = AsBlock(a, b)
  <2>1. ASSUME NEW w \in {"gotActive", "gotEmpty", "failed", "makeRoom", "place"}, w = "gotEmpty",
               NEW c \in AllHomes \cup {None}, c = b
        PROVE  /\ Slab!DoFor(w, c) \in Bearers /\ Slab!DoFor(w, c) \in Steps
               /\ Slab!DoFor(w, c).do = w /\ Slab!DoFor(w, c).block = c
               /\ <<Slab!DoFor(w, c)>> \in Seq(Steps)
               /\ <<Slab!Do("popEmpty"), Slab!DoFor(w, c)>> \in Seq(Steps)
               /\ \A a : /\ StepWorth(a, Slab!DoFor(w, c)) = AsBlock(a, c)
                         /\ ListWorth(a, t, <<Slab!DoFor(w, c)>>) = AsBlock(a, c)
                         /\ ListWorth(a, t, <<Slab!Do("popEmpty"), Slab!DoFor(w, c)>>) = AsBlock(a, c)
    BY BlockErrand
  <2> QED
    BY <1>2, <2>1, Zenon
<1>4. Keeps(node[t], secondary[t], cursor[t], home[t], disabled[t], plate[t])
  BY <1>1, IdleFacts
<1>5. /\ n \in Whole /\ n.used = Capacity /\ secondary[t] \in Whole
      /\ \A a : HandWorth(a, n) = HandWorth(a, node[t])
  BY <1>1, IdlePlates
<1> HIDE DEF n
<1>6. Keeps(n, secondary[t], cursor[t], home[t], disabled[t], None)
  <2>1. n \in Plates /\ n # None /\ Len(n.entries) = Capacity
    BY <1>5, PlateFacts DEF Whole
  <2> QED
    BY <1>1, <1>4, <2>1 DEF Keeps
<1>7. AfterErrands(l, n, secondary[t], home[t], disabled[t], None)
  <2>1. WantsEmpty(x, n, secondary[t], disabled[t])
    BY <1>1, <1>2, <1>5 DEF WantsEmpty, Slab!DoFor
  <2> HIDE DEF x
  <2> QED
    BY <1>3, <2>1 DEF AfterErrands
<1> HIDE DEF l
<1>8. ASSUME NEW k \in Int, k = -1
      PROVE  SlabKnown'
  <2>1. SharedTypes' /\ SumOf(issued', AllHomes) = SumOf(issued, AllHomes) + k
    BY <1>2, <1>8
  <2>2. \A a : ListWorth(a, t, l) = AsReturned(a, -k)
    BY <1>2, <1>3, <1>8, SlabConstants DEF AsReturned, AsBlock
  <2>3. l \in Seq(Steps) /\ \A a : HandWorth(a, n) = HandWorth(a, node[t])
    BY <1>3, <1>5
  <2> QED
    BY <1>1, <1>6, <1>7, <2>1, <2>2, <2>3, CallBegins
<1>9. -1 \in Int
  OBVIOUS
<1> QED
  BY <1>8, <1>9

LEMMA ShutdownKeeps ==
  ASSUME SlabKnown, NEW t \in Users, Slab!Shutdown(t)
  PROVE  SlabKnown'
<1> DEFINE p == Recounted(node[t], cursor[t])
           s == secondary[t]
           x == Slab!DoOn("release", p)
           y == Slab!DoOn("release", s)
           l == <<x, y>>
<1>1. /\ Slab!Idle(t) /\ disabled' = [disabled EXCEPT ![t] = TRUE]
      /\ free' = free /\ issued' = issued /\ UNCHANGED <<stored, empty, remaining, credit>>
      /\ UNCHANGED <<home, plate>>
  BY DEF Slab!Shutdown, Slab!Set, Slab!layer2
<1>2. \/ node[t] = None /\ UNCHANGED <<node, secondary, cursor, todo>>
      \/ /\ node[t] # None
         /\ todo' = [todo EXCEPT ![t] = l] /\ node' = [node EXCEPT ![t] = None]
         /\ secondary' = [secondary EXCEPT ![t] = None] /\ cursor' = [cursor EXCEPT ![t] = 0]
  BY DEF Slab!Shutdown, Slab!Set, Recounted
<1>3. /\ Keeps(node[t], secondary[t], cursor[t], home[t], disabled[t], plate[t])
      /\ plate[t] = None /\ todo[t] = <<>>
  BY <1>1, IdleFacts
<1>4. Keeps(None, None, 0, home[t], TRUE, None)
  BY <1>3 DEF Keeps
<1>5. SharedTypes /\ ThreadTypes
  BY DEF SlabKnown, Shape
<1>6. SharedTypes' /\ Comes(0, 0, 0, 0)
  <2>1. SharedTypes' /\ SumOf(issued', AllHomes) = SumOf(issued, AllHomes) + 0
    BY <1>1, NothingIssued
  <2>2. free' = free + 0
    BY <1>1, <1>5 DEF SharedTypes
  <2> QED
    BY <2>1, <2>2 DEF Comes
<1>7. ASSUME NEW k, Known(None, None, 0, home[t], TRUE, None, k),
             Becomes(t, None, None, 0, home[t], TRUE, None, k),
             \A a : ListWorth(a, t, k) = HandWorth(a, node[t]) + HandWorth(a, s)
      PROVE  SlabKnown'
  <2>1. ASSUME NEW a, NEW i, i = 0
        PROVE  Worths(a, t, None, None, None, k)
                = Worths(a, t, node[t], secondary[t], plate[t], todo[t])
                     + (AsEntries(a, i) + AsReturned(a, i))
    <3> DEFINE N == HandWorth(a, node[t])
               S == HandWorth(a, secondary[t])
    <3>1. N \in Int /\ S \in Int
      BY <1>5, HandWorthType DEF ThreadTypes
    <3>2. AsReturned(a, i) = 0 /\ AsEntries(a, i) = 0
      BY <2>1 DEF AsReturned, AsEntries
    <3>3. Worths(a, t, None, None, None, k) = 0 + 0 + 0 + (N + S)
      BY <1>7, NothingInHand DEF Worths
    <3>4. Worths(a, t, node[t], secondary[t], plate[t], todo[t]) = N + S + 0 + 0
      BY <1>3, NothingInHand, ListOfNone DEF Worths
    <3> HIDE DEF N, S
    <3>5. 0 + 0 + 0 + (N + S) = (N + S + 0 + 0) + (0 + 0)
      BY <3>1
    <3> QED
      BY <3>2, <3>3, <3>4, <3>5
  <2>2. Grows(t, None, None, None, k, 0, 0)
    BY <2>1 DEF Grows
  <2>3. UNCHANGED <<stored, empty, remaining, credit>>
    BY <1>1
  <2> QED
    BY <1>6, <1>7, <2>2, <2>3, CallGoesOn
<1>8. CASE node[t] = None /\ UNCHANGED <<node, secondary, cursor, todo>>
  <2>1. secondary[t] = None /\ cursor[t] = 0
    BY <1>3, <1>8 DEF Keeps
  <2>2. AfterErrands(<<>>, None, None, home[t], TRUE, None) /\ <<>> \in Seq(Steps)
    BY DEF AfterErrands
  <2>3. Known(None, None, 0, home[t], TRUE, None, <<>>)
    BY <1>4, <2>2, IsKnownAtOnce
  <2>4. Becomes(t, None, None, 0, home[t], TRUE, None, <<>>)
    BY <1>1, <1>3, <1>5, <1>8, <2>1, Stay DEF Becomes
  <2>5. ASSUME NEW a
        PROVE  ListWorth(a, t, <<>>) = HandWorth(a, node[t]) + HandWorth(a, s)
    <3>1. s = None
      BY <2>1
    <3>2. ListWorth(a, t, <<>>) = 0 /\ HandWorth(a, None) = 0
      BY ListOfNone, NothingInHand
    <3> QED
      BY <1>8, <3>1, <3>2
  <2> QED
    BY <1>7, <2>3, <2>4, <2>5
<1>9. CASE /\ node[t] # None
           /\ todo' = [todo EXCEPT ![t] = l] /\ node' = [node EXCEPT ![t] = None]
           /\ secondary' = [secondary EXCEPT ![t] = None] /\ cursor' = [cursor EXCEPT ![t] = 0]
  <2>1. p \in Whole /\ s \in Whole /\ \A a : HandWorth(a, p) = HandWorth(a, node[t])
    BY <1>1, <1>9, IdlePlates
  <2> HIDE DEF p, s
  <2>2. /\ x \in Errands /\ \A a : StepWorth(a, x) = HandWorth(a, p)
    BY <2>1, PlateErrand
  <2>3. /\ y \in Errands /\ \A a : StepWorth(a, y) = HandWorth(a, s)
    BY <2>1, PlateErrand
  <2> HIDE DEF x, y
  <2>4. /\ x \in Steps /\ y \in Steps /\ l \in Seq(Errands) /\ l \in Seq(Steps) /\ l = l \o <<>>
    BY <2>2, <2>3, ErrandsAreSteps
  <2>5. AfterErrands(<<>>, None, None, home[t], TRUE, None) /\ <<>> \in Seq(Steps)
    BY DEF AfterErrands
  <2>6. ASSUME NEW a
        PROVE  ListWorth(a, t, l) = HandWorth(a, node[t]) + HandWorth(a, s)
    <3>1. ListWorth(a, t, <<x, y>>) = StepWorth(a, x) + StepWorth(a, y)
      BY <2>4, ListOfTwo
    <3>2. StepWorth(a, x) = HandWorth(a, node[t]) /\ StepWorth(a, y) = HandWorth(a, s)
      BY <2>1, <2>2, <2>3
    <3> QED
      BY <3>1, <3>2
  <2>9. todo' = [todo EXCEPT ![t] = l]
    BY <1>9
  <2> HIDE DEF l
  <2>7. Known(None, None, 0, home[t], TRUE, None, l)
    <3>1. Known(None, None, 0, home[t], TRUE, None, l \o <<>>)
      BY <1>4, <2>4, <2>5, IsKnown
    <3> QED
      BY <2>4, <3>1
  <2>8. Becomes(t, None, None, 0, home[t], TRUE, None, l)
    BY <1>1, <1>3, <1>5, <1>9, <2>9, Stay DEF Becomes
  <2> QED
    BY <1>7, <2>6, <2>7, <2>8
<1> QED
  BY <1>2, <1>8, <1>9

\* A call goes on with the thread's own plates as they are.
Turns(t, q, l, i, j) ==
    \A a : HandWorth(a, q) + ListWorth(a, t, l)
             = HandWorth(a, plate[t]) + ListWorth(a, t, todo[t])
                  + (AsEntries(a, i) + AsReturned(a, j))

LEMMA CallStays ==
  ASSUME SlabKnown, NEW t \in Users, NEW q, NEW l,
         Known(node[t], secondary[t], cursor[t], home[t], disabled[t], q, l),
         todo' = [todo EXCEPT ![t] = l], plate' = [plate EXCEPT ![t] = q],
         UNCHANGED <<node, secondary, cursor, home, disabled>>,
         UNCHANGED <<stored, empty, remaining, credit>>, SharedTypes',
         NEW f, NEW k, NEW i, NEW j, Comes(f, k, i, j), Turns(t, q, l, i, j)
  PROVE  SlabKnown'
<1>1. ThreadTypes
  BY DEF SlabKnown, Shape
<1>2. Becomes(t, node[t], secondary[t], cursor[t], home[t], disabled[t], q, l)
  BY <1>1, Stay DEF Becomes
<1>3. ASSUME NEW a
      PROVE  Worths(a, t, node[t], secondary[t], q, l)
                = Worths(a, t, node[t], secondary[t], plate[t], todo[t])
                     + (AsEntries(a, i) + AsReturned(a, j))
  <2> DEFINE N == HandWorth(a, node[t])
             S == HandWorth(a, secondary[t])
             Q == HandWorth(a, q)
             P == HandWorth(a, plate[t])
             L == ListWorth(a, t, l)
             K == ListWorth(a, t, todo[t])
             E == AsEntries(a, i) + AsReturned(a, j)
  <2>1. N \in Int /\ S \in Int /\ P \in Int /\ K \in Int
    BY <1>1, HandWorthType, ListWorthType DEF ThreadTypes
  <2>2. Q \in Int /\ L \in Int
    BY KnownTypes, HandWorthType, ListWorthType
  <2>3. E \in Int
    BY DEF Comes, AsEntries, AsReturned
  <2>4. Q + L = P + K + E
    BY DEF Turns
  <2>5. Worths(a, t, node[t], secondary[t], q, l) = N + S + Q + L
        /\ Worths(a, t, node[t], secondary[t], plate[t], todo[t]) = N + S + P + K
    BY DEF Worths
  <2> HIDE DEF N, S, P, Q, L, K, E
  <2>6. N + S + Q + L = (N + S + P + K) + E
    BY <2>1, <2>2, <2>3, <2>4
  <2> QED
    BY <2>5, <2>6 DEF E
<1>4. Grows(t, node[t], secondary[t], q, l, i, j)
  BY <1>3 DEF Grows
<1>5. SharedTypes' /\ UNCHANGED <<stored, empty, remaining, credit>>
  OBVIOUS
<1> QED
  BY <1>2, <1>4, <1>5, CallGoesOn

LEMMA FailedKeeps ==
  ASSUME SlabKnown, NEW t \in Users, Slab!Failed(t)
  PROVE  SlabKnown'
<1> DEFINE x == Head(todo[t])
           b == x.block
           f == IF b = None THEN 0 ELSE 1
<1>1. /\ todo[t] # <<>> /\ x.do = "failed"
      /\ todo' = [todo EXCEPT ![t] = <<>> \o Tail(@)] /\ free' = free + f
      /\ plate' = plate /\ issued' = issued
      /\ UNCHANGED <<node, secondary, cursor, home, disabled>>
      /\ UNCHANGED <<stored, empty, remaining, credit>>
  BY DEF Slab!Failed, Slab!At, Slab!First, Slab!Then, Slab!layer1, Slab!layer2
<1>2. /\ Keeps(node[t], secondary[t], cursor[t], home[t], disabled[t], plate[t])
      /\ AfterErrands(todo[t], node[t], secondary[t], home[t], disabled[t], plate[t])
      /\ Tail(todo[t]) \in Seq(Steps) /\ Head(todo[t]) \in Steps
  BY <1>1, CallHead DEF ErrandNames
<1>3. todo[t] = <<x>> /\ plate[t] = None /\ x \in Bearers
  BY <1>1, <1>2, BlockIsPut
<1>4. Tail(todo[t]) = <<>>
  <2> HIDE DEF x
  <2> QED
    BY <1>3
<1>5. SharedTypes /\ ThreadTypes
  BY DEF SlabKnown, Shape
<1>6. \A a : ListWorth(a, t, todo[t]) = AsReturned(a, f)
  <2>1. ASSUME NEW a
        PROVE  ListWorth(a, t, todo[t]) = AsReturned(a, f)
    <3>1. StepWorth(a, x) = AsBlock(a, b)
      BY <1>3, WorthOfBearer
    <3>2. AsBlock(a, b) = AsReturned(a, f)
      BY DEF AsBlock, AsReturned
    <3> HIDE DEF x
    <3>3. ListWorth(a, t, <<x>>) = StepWorth(a, x)
      BY <1>3, ListOfOne, DoIsSeeker
    <3> QED
      BY <1>3, <3>1, <3>2, <3>3
  <2> QED
    BY <2>1
<1>7. f \in Int /\ SumOf(issued, AllHomes) \in Nat
  BY <1>5, IssuedType
<1>8. SharedTypes' /\ Comes(f, 0, 0, -f)
  BY <1>1, <1>5, <1>7 DEF SharedTypes, Comes
<1> HIDE DEF f
<1>9. Known(node[t], secondary[t], cursor[t], home[t], disabled[t], None, <<>>)
  <2>1. AfterErrands(<<>>, node[t], secondary[t], home[t], disabled[t], None) /\ <<>> \in Seq(Steps)
    BY DEF AfterErrands
  <2>2. Keeps(node[t], secondary[t], cursor[t], home[t], disabled[t], None)
    BY <1>2, <1>3
  <2> QED
    BY <2>1, <2>2, IsKnownAtOnce
<1>10. todo' = [todo EXCEPT ![t] = <<>>] /\ plate' = [plate EXCEPT ![t] = None]
  <2>1. plate = [plate EXCEPT ![t] = plate[t]]
    BY <1>5, Stay
  <2>2. <<>> \o Tail(todo[t]) = <<>>
    BY <1>4
  <2> QED
    BY <1>1, <1>3, <2>1, <2>2
<1>11. ASSUME NEW i, i = 0, NEW j, j = -f
       PROVE  SlabKnown'
  <2>1. ASSUME NEW a
        PROVE  HandWorth(a, None) + ListWorth(a, t, <<>>)
                = HandWorth(a, plate[t]) + ListWorth(a, t, todo[t])
                     + (AsEntries(a, i) + AsReturned(a, j))
    <3>1. HandWorth(a, None) = 0 /\ ListWorth(a, t, <<>>) = 0 /\ HandWorth(a, plate[t]) = 0
      BY <1>3, NothingInHand, ListOfNone
    <3>2. ListWorth(a, t, todo[t]) = AsReturned(a, f) /\ AsEntries(a, i) = 0
      BY <1>6, <1>11 DEF AsEntries
    <3>3. AsReturned(a, j) = -AsReturned(a, f) /\ AsReturned(a, f) \in Int
      BY <1>7, <1>11 DEF AsReturned
    <3> QED
      BY <3>1, <3>2, <3>3
  <2>2. UNCHANGED <<node, secondary, cursor, home, disabled>>
        /\ UNCHANGED <<stored, empty, remaining, credit>>
    BY <1>1
  <2>3. SharedTypes' /\ Comes(f, i, i, j)
    BY <1>8, <1>11
  <2>4. Turns(t, None, <<>>, i, j)
    BY <2>1 DEF Turns
  <2> QED
    BY <1>9, <1>10, <2>2, <2>3, <2>4, CallStays
<1> QED
  BY <1>11

LEMMA NothingComes ==
  ASSUME SlabKnown, UNCHANGED <<free, issued, empty, remaining, credit>>
  PROVE  SharedTypes' /\ Comes(0, 0, 0, 0)
<1>1. SharedTypes' /\ SumOf(issued', AllHomes) = SumOf(issued, AllHomes) + 0
  BY NothingIssued
<1>2. free' = free + 0
  BY DEF SlabKnown, Shape, SharedTypes
<1> QED
  BY <1>1, <1>2 DEF Comes

LEMMA TurnsEven ==
  ASSUME SlabKnown, NEW t \in Users, NEW q, NEW l,
         \A a : HandWorth(a, q) + ListWorth(a, t, l) = HandWorth(a, plate[t]) + ListWorth(a, t, todo[t])
  PROVE  Turns(t, q, l, 0, 0)
<1>1. ASSUME NEW a, NEW i, i = 0
      PROVE  HandWorth(a, q) + ListWorth(a, t, l)
                = HandWorth(a, plate[t]) + ListWorth(a, t, todo[t])
                     + (AsEntries(a, i) + AsReturned(a, i))
  <2>1. plate[t] \in Carried /\ todo[t] \in Seq(Steps)
    BY DEF SlabKnown, Shape, ThreadTypes
  <2>2. HandWorth(a, plate[t]) \in Int /\ ListWorth(a, t, todo[t]) \in Int
    BY <2>1, HandWorthType, ListWorthType
  <2>3. AsEntries(a, i) = 0 /\ AsReturned(a, i) = 0
    BY <1>1 DEF AsEntries, AsReturned
  <2> QED
    BY <2>2, <2>3
<1> QED
  BY <1>1 DEF Turns

LEMMA GotActiveKeeps ==
  ASSUME SlabKnown, NEW t \in Users, Slab!GotActive(t)
  PROVE  SlabKnown'
<1> DEFINE x == Head(todo[t])
           b == x.block
           q == plate[t]
           y == [do |-> "gotSecondary", on |-> q, block |-> b]
           p == Slab!Do("popEmpty")
           z == Slab!DoFor("failed", b)
<1>1. /\ todo[t] # <<>> /\ x.do = "gotActive"
      /\ plate' = [plate EXCEPT ![t] = None]
      /\ UNCHANGED <<free, issued, empty, remaining, credit>> /\ stored' = stored
      /\ UNCHANGED <<node, secondary, cursor, home, disabled>>
  BY DEF Slab!GotActive, Slab!At, Slab!First, Slab!Set, Slab!layer1, Slab!layer2
<1>2. \/ q = None /\ todo' = [todo EXCEPT ![t] = <<z>> \o Tail(@)]
      \/ q # None /\ todo' = [todo EXCEPT ![t] = <<p, y>> \o Tail(@)]
  BY DEF Slab!GotActive, Slab!First, Slab!Then
<1>3. /\ Keeps(node[t], secondary[t], cursor[t], home[t], disabled[t], plate[t])
      /\ AfterErrands(todo[t], node[t], secondary[t], home[t], disabled[t], plate[t])
      /\ Head(todo[t]) \in Steps
  BY <1>1, CallHead DEF ErrandNames
<1>4. /\ todo[t] = <<x>> /\ (q # None => q \in Bare) /\ x \in Bearers \cup HolderSteps
      /\ WantsEmpty(x, node[t], secondary[t], disabled[t])
  BY <1>1, <1>3, EmptyIsUsed
<1> HIDE DEF x
<1>5. Tail(todo[t]) = <<>> /\ x \in Steps
  <2>1. Tail(todo[t]) = <<>>
    BY <1>4
  <2>2. x \in Steps
    BY <1>3 DEF x
  <2> QED
    BY <2>1, <2>2
<1>6. x \in Bearers /\ b \in AllHomes \cup {None} /\ node[t] = None /\ ~disabled[t]
  BY <1>1, <1>4 DEF WantsEmpty, Bearers, HolderSteps
<1>7. \A a : ListWorth(a, t, todo[t]) = AsBlock(a, b)
  BY <1>4, <1>5, <1>6, ListOfOne, WorthOfBearer
<1> HIDE DEF b
<1>8. SharedTypes' /\ Comes(0, 0, 0, 0)
  BY <1>1, NothingComes
<1>9. Keeps(node[t], secondary[t], cursor[t], home[t], disabled[t], None)
  BY <1>3, KeepsPlate
<1>10. ASSUME NEW l \in Seq(Steps), todo' = [todo EXCEPT ![t] = l],
              AfterErrands(l, node[t], secondary[t], home[t], disabled[t], None),
              \A a : ListWorth(a, t, l) = HandWorth(a, q) + AsBlock(a, b)
       PROVE  SlabKnown'
  <2>1. ASSUME NEW a
        PROVE  HandWorth(a, None) + ListWorth(a, t, l)
                  = HandWorth(a, plate[t]) + ListWorth(a, t, todo[t])
    <3>1. HandWorth(a, q) \in Int /\ AsBlock(a, b) \in Int
      <4>1. q \in Carried
        BY DEF SlabKnown, Shape, ThreadTypes
      <4> QED
        BY <4>1, HandWorthType DEF AsBlock
    <3> QED
      BY <1>7, <1>10, <3>1, NothingInHand
  <2>2. Turns(t, None, l, 0, 0)
    BY <2>1, TurnsEven
  <2>3. Known(node[t], secondary[t], cursor[t], home[t], disabled[t], None, l)
    BY <1>9, <1>10, IsKnownAtOnce
  <2>4. UNCHANGED <<node, secondary, cursor, home, disabled>>
        /\ UNCHANGED <<stored, empty, remaining, credit>>
    BY <1>1
  <2> QED
    BY <1>1, <1>8, <1>10, <2>2, <2>3, <2>4, CallStays
<1>11. CASE q = None /\ todo' = [todo EXCEPT ![t] = <<z>> \o Tail(@)]
  <2>1. ASSUME NEW w \in {"gotActive", "gotEmpty", "failed", "makeRoom", "place"}, w = "failed"
        PROVE  /\ Slab!DoFor(w, b) \in Bearers /\ Slab!DoFor(w, b) \in Steps
               /\ Slab!DoFor(w, b).do = w /\ Slab!DoFor(w, b).block = b
               /\ <<Slab!DoFor(w, b)>> \in Seq(Steps)
               /\ <<Slab!Do("popEmpty"), Slab!DoFor(w, b)>> \in Seq(Steps)
               /\ \A a : /\ StepWorth(a, Slab!DoFor(w, b)) = AsBlock(a, b)
                         /\ ListWorth(a, t, <<Slab!DoFor(w, b)>>) = AsBlock(a, b)
                         /\ ListWorth(a, t, <<Slab!Do("popEmpty"), Slab!DoFor(w, b)>>) = AsBlock(a, b)
    BY <1>6, BlockErrand
  <2>2. z \in Bearers /\ <<z>> \in Seq(Steps) /\ \A a : ListWorth(a, t, <<z>>) = AsBlock(a, b)
    BY <2>1
  <2>3. Finishes(z, node[t], secondary[t])
    BY <1>6 DEF Finishes, Slab!DoFor
  <2> HIDE DEF z
  <2>4. AfterErrands(<<z>>, node[t], secondary[t], home[t], disabled[t], None)
    BY <2>2, <2>3 DEF AfterErrands
  <2>5. todo' = [todo EXCEPT ![t] = <<z>>]
    <3>1. <<z>> \o Tail(todo[t]) = <<z>>
      BY <1>5, <2>2, ConcatEmptySeq
    <3> QED
      BY <1>11, <3>1
  <2>6. \A a : ListWorth(a, t, <<z>>) = HandWorth(a, q) + AsBlock(a, b)
    <3>1. \A a : AsBlock(a, b) \in Int
      BY DEF AsBlock
    <3> QED
      BY <1>11, <2>2, <3>1, NothingInHand
  <2> QED
    BY <1>10, <2>2, <2>4, <2>5, <2>6
<1>12. CASE q # None /\ todo' = [todo EXCEPT ![t] = <<p, y>> \o Tail(@)]
  <2>1. y \in HolderSteps /\ y.on = q /\ y.block = b
    BY <1>4, <1>6, <1>12 DEF HolderSteps
  <2>2. p \in Seekers /\ p \in Steps /\ y \in Steps
    BY <2>1, DoIsSeeker
  <2>3. AfterErrands(<<p, y>>, node[t], secondary[t], home[t], disabled[t], None)
    <3>1. WantsEmpty(y, node[t], secondary[t], disabled[t])
      BY <1>6, <2>1 DEF WantsEmpty
    <3> HIDE DEF y
    <3> QED
      BY <2>1, <3>1 DEF AfterErrands
  <2> HIDE DEF y, p, q
  <2>4. <<p, y>> \in Seq(Steps)
    BY <2>2
  <2>5. todo' = [todo EXCEPT ![t] = <<p, y>>]
    <3>1. <<p, y>> \o Tail(todo[t]) = <<p, y>>
      BY <1>5, <2>4, ConcatEmptySeq
    <3> QED
      BY <1>12, <3>1
  <2>6. ASSUME NEW a
        PROVE  ListWorth(a, t, <<p, y>>) = HandWorth(a, q) + AsBlock(a, b)
    <3>1. ListWorth(a, t, <<p, y>>) = StepWorth(a, p) + StepWorth(a, y)
      BY <2>2, ListOfTwo
    <3>2. StepWorth(a, p) = 0 /\ StepWorth(a, y) = HandWorth(a, q) + AsBlock(a, b)
      BY <2>1, <2>2, WorthOfSeeker, WorthOfHolder
    <3>3. StepWorth(a, y) \in Nat
      BY <2>2, StepWorthType
    <3> QED
      BY <3>1, <3>2, <3>3
  <2> QED
    BY <1>10, <2>3, <2>4, <2>5, <2>6
<1> QED
  BY <1>2, <1>11, <1>12

LEMMA GrowsEven ==
  ASSUME SlabKnown, NEW t \in Users, NEW n, NEW s, NEW q, NEW l,
         \A a : Worths(a, t, n, s, q, l) = Worths(a, t, node[t], secondary[t], plate[t], todo[t])
  PROVE  Grows(t, n, s, q, l, 0, 0)
<1>1. ASSUME NEW a, NEW i, i = 0
      PROVE  Worths(a, t, n, s, q, l)
                = Worths(a, t, node[t], secondary[t], plate[t], todo[t])
                     + (AsEntries(a, i) + AsReturned(a, i))
  <2>1. /\ node[t] \in Carried /\ secondary[t] \in Carried /\ plate[t] \in Carried
        /\ todo[t] \in Seq(Steps)
    BY DEF SlabKnown, Shape, ThreadTypes
  <2>2. Worths(a, t, node[t], secondary[t], plate[t], todo[t]) \in Int
    BY <2>1, HandWorthType, ListWorthType DEF Worths
  <2>3. AsEntries(a, i) = 0 /\ AsReturned(a, i) = 0
    BY <1>1 DEF AsEntries, AsReturned
  <2> QED
    BY <2>2, <2>3
<1> QED
  BY <1>1 DEF Grows

\* No plate: the call fails.
LEMMA CallFails ==
  ASSUME SlabKnown, NEW t \in Users, NEW b \in AllHomes \cup {None}, plate[t] = None,
         Keeps(node[t], secondary[t], cursor[t], home[t], disabled[t], None),
         \A a : ListWorth(a, t, todo[t]) = AsBlock(a, b),
         todo' = [todo EXCEPT ![t] = <<Slab!DoFor("failed", b)>>],
         plate' = [plate EXCEPT ![t] = None],
         UNCHANGED <<node, secondary, cursor, home, disabled>>,
         UNCHANGED <<stored, empty, remaining, credit>>, free' = free, issued' = issued
  PROVE  SlabKnown'
<1> DEFINE z == Slab!DoFor("failed", b)
           l == <<z>>
<1>1. ASSUME NEW w \in {"gotActive", "gotEmpty", "failed", "makeRoom", "place"}, w = "failed"
      PROVE  /\ Slab!DoFor(w, b) \in Bearers /\ Slab!DoFor(w, b) \in Steps
             /\ Slab!DoFor(w, b).do = w /\ Slab!DoFor(w, b).block = b
             /\ <<Slab!DoFor(w, b)>> \in Seq(Steps)
             /\ <<Slab!Do("popEmpty"), Slab!DoFor(w, b)>> \in Seq(Steps)
             /\ \A a : /\ StepWorth(a, Slab!DoFor(w, b)) = AsBlock(a, b)
                       /\ ListWorth(a, t, <<Slab!DoFor(w, b)>>) = AsBlock(a, b)
                       /\ ListWorth(a, t, <<Slab!Do("popEmpty"), Slab!DoFor(w, b)>>) = AsBlock(a, b)
  BY BlockErrand
<1>2. z \in Bearers /\ l \in Seq(Steps) /\ \A a : ListWorth(a, t, l) = AsBlock(a, b)
  BY <1>1
<1>3. AfterErrands(l, node[t], secondary[t], home[t], disabled[t], None)
  <2>1. Finishes(z, node[t], secondary[t])
    BY DEF Finishes, Slab!DoFor
  <2> HIDE DEF z
  <2> QED
    BY <1>2, <2>1 DEF AfterErrands
<1>7. todo' = [todo EXCEPT ![t] = l] /\ plate' = [plate EXCEPT ![t] = None]
  OBVIOUS
<1> HIDE DEF l
<1>4. Known(node[t], secondary[t], cursor[t], home[t], disabled[t], None, l)
  BY <1>2, <1>3, IsKnownAtOnce
<1>5. Turns(t, None, l, 0, 0)
  <2>1. \A a : HandWorth(a, None) + ListWorth(a, t, l) = HandWorth(a, plate[t]) + ListWorth(a, t, todo[t])
    BY <1>2
  <2> QED
    BY <2>1, TurnsEven
<1>6. SharedTypes' /\ Comes(0, 0, 0, 0)
  BY NothingComes
<1>8. UNCHANGED <<node, secondary, cursor, home, disabled>>
      /\ UNCHANGED <<stored, empty, remaining, credit>>
  OBVIOUS
<1> QED
  BY ONLY SlabKnown, t \in Users, <1>4, <1>5, <1>6, <1>7, <1>8, CallStays

LEMMA GotEmptyKeeps ==
  ASSUME SlabKnown, NEW t \in Users, Slab!GotEmpty(t)
  PROVE  SlabKnown'
<1> DEFINE x == Head(todo[t])
           b == x.block
           q == plate[t]
           s == secondary[t]
           y == Slab!DoOn("release", s)
           z == Slab!DoFor("makeRoom", b)
<1>1. /\ todo[t] # <<>> /\ x.do = "gotEmpty"
      /\ plate' = [plate EXCEPT ![t] = None]
      /\ UNCHANGED <<free, issued, empty, remaining, credit>> /\ stored' = stored
      /\ UNCHANGED <<node, cursor, home, disabled>>
  BY DEF Slab!GotEmpty, Slab!At, Slab!First, Slab!Set, Slab!layer2
<1>2. \/ /\ q = None /\ secondary' = secondary
         /\ todo' = [todo EXCEPT ![t] = <<Slab!DoFor("failed", b)>> \o Tail(todo[t])]
      \/ /\ q # None /\ todo' = [todo EXCEPT ![t] = <<y, z>> \o Tail(todo[t])]
         /\ secondary' = [secondary EXCEPT ![t] = q]
  BY DEF Slab!GotEmpty, Slab!First, Slab!Then, Slab!Set
<1>3. /\ Keeps(node[t], secondary[t], cursor[t], home[t], disabled[t], plate[t])
      /\ AfterErrands(todo[t], node[t], secondary[t], home[t], disabled[t], plate[t])
      /\ Head(todo[t]) \in Steps
  BY <1>1, CallHead DEF ErrandNames
<1>4. /\ todo[t] = <<x>> /\ (q # None => q \in Bare) /\ x \in Bearers \cup HolderSteps
      /\ WantsEmpty(x, node[t], secondary[t], disabled[t])
  BY <1>1, <1>3, EmptyIsUsed
<1> HIDE DEF x
<1>5. Tail(todo[t]) = <<>> /\ x \in Steps
  <2>1. Tail(todo[t]) = <<>>
    BY <1>4
  <2>2. x \in Steps
    BY <1>3 DEF x
  <2> QED
    BY <2>1, <2>2
<1>6. /\ x \in Bearers /\ b \in AllHomes
      /\ node[t] \in Whole /\ node[t].used = Capacity /\ s \in Whole /\ s.used = Capacity
  BY <1>1, <1>4 DEF WantsEmpty, Bearers, HolderSteps
<1>7. \A a : ListWorth(a, t, todo[t]) = AsBlock(a, b)
  BY <1>4, <1>5, <1>6, ListOfOne, WorthOfBearer
<1> HIDE DEF b
<1>8. SharedTypes' /\ Comes(0, 0, 0, 0)
  BY <1>1, NothingComes
<1>9. Keeps(node[t], secondary[t], cursor[t], home[t], disabled[t], None)
  BY <1>3, KeepsPlate
<1>10. CASE /\ q = None /\ secondary' = secondary
            /\ todo' = [todo EXCEPT ![t] = <<Slab!DoFor("failed", b)>> \o Tail(todo[t])]
  <2>1. <<Slab!DoFor("failed", b)>> \o Tail(todo[t]) = <<Slab!DoFor("failed", b)>>
    <3> DEFINE w == Slab!DoFor("failed", b)
    <3> HIDE DEF w
    <3>1. <<w>> \in Seq({w})
      OBVIOUS
    <3>2. <<w>> \o Tail(todo[t]) = <<w>>
      BY <1>5, <3>1, ConcatEmptySeq
    <3> QED
      BY <3>2 DEF w
  <2>2. todo' = [todo EXCEPT ![t] = <<Slab!DoFor("failed", b)>>]
    BY <1>10, <2>1
  <2>3. UNCHANGED <<node, secondary, cursor, home, disabled>>
        /\ UNCHANGED <<stored, empty, remaining, credit>> /\ free' = free /\ issued' = issued
    BY <1>1, <1>10
  <2>4. b \in AllHomes \cup {None} /\ plate[t] = None /\ plate' = [plate EXCEPT ![t] = None]
    BY <1>1, <1>6, <1>10
  <2> QED
    BY <1>7, <1>9, <2>2, <2>3, <2>4, CallFails
<1>11. CASE /\ q # None /\ todo' = [todo EXCEPT ![t] = <<y, z>> \o Tail(todo[t])]
            /\ secondary' = [secondary EXCEPT ![t] = q]
  <2>1. y \in Errands /\ y \in Steps /\ \A a : StepWorth(a, y) = HandWorth(a, s)
    BY <1>6, PlateErrand, ErrandsAreSteps
  <2>2. /\ z \in Bearers /\ z \in Steps /\ <<z>> \in Seq(Steps)
        /\ \A a : StepWorth(a, z) = AsBlock(a, b)
    <3>1. ASSUME NEW w \in {"gotActive", "gotEmpty", "failed", "makeRoom", "place"}, w = "makeRoom",
                 NEW c \in AllHomes \cup {None}, c = b
          PROVE  /\ Slab!DoFor(w, c) \in Bearers /\ Slab!DoFor(w, c) \in Steps
                 /\ Slab!DoFor(w, c).do = w /\ Slab!DoFor(w, c).block = c
                 /\ <<Slab!DoFor(w, c)>> \in Seq(Steps)
                 /\ <<Slab!Do("popEmpty"), Slab!DoFor(w, c)>> \in Seq(Steps)
                 /\ \A a : /\ StepWorth(a, Slab!DoFor(w, c)) = AsBlock(a, c)
                           /\ ListWorth(a, t, <<Slab!DoFor(w, c)>>) = AsBlock(a, c)
                           /\ ListWorth(a, t, <<Slab!Do("popEmpty"), Slab!DoFor(w, c)>>) = AsBlock(a, c)
      BY BlockErrand
    <3> QED
      BY <1>6, <3>1, Zenon
  <2>3. AfterErrands(<<z>>, node[t], q, home[t], disabled[t], None)
    <3>1. Finishes(z, node[t], q)
      BY <1>4, <1>6, <1>11 DEF Finishes, Slab!DoFor
    <3> HIDE DEF z
    <3> QED
      BY <2>2, <3>1 DEF AfterErrands
  <2>4. Keeps(node[t], q, cursor[t], home[t], disabled[t], None)
    <3>1. q \in Whole /\ q.used = 0 /\ node[t] # None
      BY <1>4, <1>6, <1>11, PlateFacts DEF Bare, Whole
    <3> QED
      BY <1>3, <1>11, <3>1 DEF Keeps
  <2> HIDE DEF y, z, q, s
  <2>5. <<y>> \in Seq(Errands) /\ <<y, z>> \in Seq(Steps) /\ <<y>> \o <<z>> = <<y, z>>
    <3>1. <<y>> \o <<z>> = <<y, z>> /\ <<y>> \in Seq(Steps) /\ <<z>> \in Seq(Steps) /\ <<y, z>> \in Seq(Steps)
      BY <2>1, <2>2, Pairs
    <3> QED
      BY <2>1, <3>1
  <2>6. Known(node[t], q, cursor[t], home[t], disabled[t], None, <<y, z>>)
    <3>1. Known(node[t], q, cursor[t], home[t], disabled[t], None, <<y>> \o <<z>>)
      BY <2>2, <2>3, <2>4, <2>5, IsKnown
    <3> QED
      BY <2>5, <3>1
  <2>7. todo' = [todo EXCEPT ![t] = <<y, z>>]
    <3>1. <<y, z>> \o Tail(todo[t]) = <<y, z>>
      BY <1>5, <2>5, ConcatEmptySeq
    <3> QED
      BY <1>11, <3>1
  <2>8. Becomes(t, node[t], q, cursor[t], home[t], disabled[t], None, <<y, z>>)
    BY <1>1, <1>11, <2>7, Stay DEF Becomes, SlabKnown, Shape
  <2>9. ASSUME NEW a
        PROVE  Worths(a, t, node[t], q, None, <<y, z>>)
                 = Worths(a, t, node[t], secondary[t], plate[t], todo[t])
    <3> DEFINE N == HandWorth(a, node[t])
               S == HandWorth(a, s)
               Q == HandWorth(a, q)
               B == AsBlock(a, b)
    <3>1. N \in Int /\ S \in Int /\ Q \in Int /\ B \in Int
      BY HandWorthType DEF SlabKnown, Shape, ThreadTypes, AsBlock, s, q
    <3>2. ListWorth(a, t, <<y, z>>) = StepWorth(a, y) + StepWorth(a, z)
      BY <2>1, <2>2, ListOfTwo
    <3>3. ListWorth(a, t, <<y, z>>) = S + B
      BY <2>1, <2>2, <3>2
    <3>4. Worths(a, t, node[t], q, None, <<y, z>>) = N + Q + 0 + (S + B)
      BY <3>3, NothingInHand DEF Worths
    <3>5. Worths(a, t, node[t], secondary[t], plate[t], todo[t]) = N + S + Q + B
      BY <1>7 DEF Worths, s, q
    <3> HIDE DEF N, S, Q, B
    <3> QED
      BY <3>1, <3>4, <3>5
  <2>10. Grows(t, node[t], q, None, <<y, z>>, 0, 0)
    BY <2>9, GrowsEven
  <2>11. UNCHANGED <<stored, empty, remaining, credit>>
    BY <1>1
  <2> QED
    BY <1>8, <2>6, <2>8, <2>10, <2>11, CallGoesOn
<1> QED
  BY <1>2, <1>10, <1>11

\* The block comes to rest on plate p, the active one from then on.
LEMMA BlockIsPlaced ==
  ASSUME SlabKnown, NEW t \in Users, NEW b \in AllHomes, node[t] # None, plate[t] = None,
         Keeps(node[t], secondary[t], cursor[t], home[t], disabled[t], None),
         \A a : ListWorth(a, t, todo[t]) = AsBlock(a, b),
         NEW p \in Plates, Len(p.entries) < Capacity, NEW s \in Whole, s.used \in {0, Half, Capacity},
         node' = [node EXCEPT ![t] = Given(p, b)], secondary' = [secondary EXCEPT ![t] = s],
         cursor' = [cursor EXCEPT ![t] = Len(p.entries) + 1],
         todo' = [todo EXCEPT ![t] = <<>>],
         UNCHANGED <<free, issued, empty, remaining, credit>>, stored' = stored,
         UNCHANGED <<home, disabled, plate>>,
         \A a : HandWorth(a, p) + HandWorth(a, s)
                   = HandWorth(a, node[t]) + HandWorth(a, secondary[t])
  PROVE  SlabKnown'
<1> DEFINE n == Given(p, b)
<1>1. /\ n \in Plates /\ Len(n.entries) = Len(p.entries) + 1
      /\ \A a : HandWorth(a, n) = HandWorth(a, p) + AsEntries(a, 1)
  BY GivenFacts
<1>2. node' = [node EXCEPT ![t] = n] /\ cursor' = [cursor EXCEPT ![t] = Len(n.entries)]
  BY <1>1
<1> HIDE DEF n
<1>3. Keeps(n, s, Len(n.entries), home[t], disabled[t], None)
  <2>1. n # None /\ s # None
    BY <1>1, PlateFacts DEF Whole
  <2> QED
    BY <1>1, <2>1 DEF Keeps
<1>4. AfterErrands(<<>>, n, s, home[t], disabled[t], None) /\ <<>> \in Seq(Steps)
  BY DEF AfterErrands
<1>5. Known(n, s, Len(n.entries), home[t], disabled[t], None, <<>>)
  BY <1>3, <1>4, IsKnownAtOnce
<1>6. SharedTypes /\ ThreadTypes
  BY DEF SlabKnown, Shape
<1>7. Becomes(t, n, s, Len(n.entries), home[t], disabled[t], None, <<>>)
  BY <1>2, <1>6, Stay DEF Becomes
<1>8. SumOf(issued, AllHomes) \in Nat
  BY <1>6, IssuedType
<1>9. SharedTypes' /\ Comes(0, 0, 1, -1)
  <2>1. free \in Nat
    BY <1>6 DEF SharedTypes
  <2>2. SharedTypes'
    BY <1>6 DEF SharedTypes
  <2>3. free' = free + 0 /\ SumOf(issued', AllHomes) = SumOf(issued, AllHomes) + 0
    BY <1>8, <2>1
  <2> QED
    BY <2>2, <2>3 DEF Comes
<1>10. ASSUME NEW z, z = 0, NEW i, i = 1, NEW j, j = -1
       PROVE  SlabKnown'
  <2>1. ASSUME NEW a
        PROVE  Worths(a, t, n, s, None, <<>>)
                 = Worths(a, t, node[t], secondary[t], plate[t], todo[t])
                      + (AsEntries(a, i) + AsReturned(a, j))
    <3> DEFINE N == HandWorth(a, n)
               P == HandWorth(a, p)
               S == HandWorth(a, s)
               M == HandWorth(a, node[t])
               R == HandWorth(a, secondary[t])
               B == AsBlock(a, b)
               E == AsEntries(a, 1)
    <3>1. P \in Int /\ S \in Int
      BY HandWorthType DEF Whole, Carried
    <3>2. M \in Int /\ R \in Int
      BY <1>6, HandWorthType DEF ThreadTypes
    <3>3. B \in Int /\ E \in Int
      BY DEF AsBlock, AsEntries
    <3>4. N = P + E /\ P + S = M + R
      BY <1>1
    <3>5. Worths(a, t, n, s, None, <<>>) = N + S + 0 + 0
      BY NothingInHand, ListOfNone DEF Worths
    <3>6. Worths(a, t, node[t], secondary[t], plate[t], todo[t]) = M + R + 0 + B
      BY NothingInHand DEF Worths
    <3>7. AsEntries(a, i) = E /\ AsReturned(a, j) = -B
      BY <1>10, SlabConstants DEF AsReturned, AsBlock
    <3> HIDE DEF N, P, S, M, R, B, E
    <3>8. N + S + 0 + 0 = (M + R + 0 + B) + (E + (-B))
      BY <3>1, <3>2, <3>3, <3>4
    <3> QED
      BY <3>5, <3>6, <3>7, <3>8
  <2>2. Grows(t, n, s, None, <<>>, i, j)
    BY <2>1 DEF Grows
  <2>3. SharedTypes' /\ Comes(z, z, i, j)
    BY <1>9, <1>10
  <2>4. UNCHANGED <<stored, empty, remaining, credit>>
    OBVIOUS
  <2> QED
    BY ONLY SlabKnown, t \in Users, <1>5, <1>7, <2>2, <2>3, <2>4, CallGoesOn
<1> QED
  BY <1>10

LEMMA PlaceKeeps ==
  ASSUME SlabKnown, NEW t \in Users, Slab!Place(t)
  PROVE  SlabKnown'
<1> DEFINE x == Head(todo[t])
           b == x.block
           n == node[t]
<1>1. /\ todo[t] # <<>> /\ x.do = "place"
      /\ node' = [node EXCEPT ![t] = Given(n, b)] /\ cursor' = [cursor EXCEPT ![t] = n.used + 1]
      /\ todo' = [todo EXCEPT ![t] = <<>> \o Tail(todo[t])]
      /\ UNCHANGED <<free, issued, empty, remaining, credit>> /\ stored' = stored
      /\ secondary' = secondary /\ UNCHANGED <<home, disabled, plate>>
  BY DEF Slab!Place, Slab!At, Slab!First, Slab!Then, Slab!PutInto, Slab!Set, Slab!layer2, Given
<1>2. /\ Keeps(node[t], secondary[t], cursor[t], home[t], disabled[t], plate[t])
      /\ AfterErrands(todo[t], node[t], secondary[t], home[t], disabled[t], plate[t])
      /\ Head(todo[t]) \in Steps
  BY <1>1, CallHead DEF ErrandNames
<1>3. todo[t] = <<x>> /\ plate[t] = None /\ x \in Bearers /\ Finishes(x, n, secondary[t])
  BY <1>1, <1>2, BlockIsPut
<1> HIDE DEF x
<1>4. Tail(todo[t]) = <<>> /\ x \in Steps
  <2>1. Tail(todo[t]) = <<>>
    BY <1>3
  <2>2. x \in Steps
    BY <1>2 DEF x
  <2> QED
    BY <2>1, <2>2
<1>5. b \in AllHomes /\ n \in Bare /\ secondary[t] \in Bare
  BY <1>1, <1>3 DEF Finishes
<1>6. \A a : ListWorth(a, t, todo[t]) = AsBlock(a, b)
  BY <1>3, <1>4, ListOfOne, WorthOfBearer
<1>7. /\ n # None /\ n \in Plates /\ Len(n.entries) < Capacity /\ n.used = Len(n.entries)
      /\ secondary[t] \in Whole /\ secondary[t].used \in {0, Half, Capacity}
  BY <1>5, SlabConstants DEF Bare, Whole
<1> HIDE DEF b
<1>8. todo' = [todo EXCEPT ![t] = <<>>]
  <2>1. <<>> \o Tail(todo[t]) = <<>>
    BY <1>4
  <2> QED
    BY <1>1, <2>1
<1>9. secondary' = [secondary EXCEPT ![t] = secondary[t]]
  BY <1>1, Stay DEF SlabKnown, Shape
<1>10. cursor' = [cursor EXCEPT ![t] = Len(n.entries) + 1]
  BY <1>1, <1>7
<1>11. Keeps(node[t], secondary[t], cursor[t], home[t], disabled[t], None)
  BY <1>2, <1>3
<1>12. UNCHANGED <<free, issued, empty, remaining, credit>> /\ stored' = stored
        /\ UNCHANGED <<home, disabled, plate>>
  BY <1>1
<1>13. \A a : HandWorth(a, n) + HandWorth(a, secondary[t]) = HandWorth(a, node[t]) + HandWorth(a, secondary[t])
  OBVIOUS
<1> QED
  BY <1>1, <1>3, <1>5, <1>6, <1>7, <1>8, <1>9, <1>10, <1>11, <1>12, <1>13, BlockIsPlaced

LEMMA MakeRoomKeeps ==
  ASSUME SlabKnown, NEW t \in Users, Slab!MakeRoom(t)
  PROVE  SlabKnown'
<1> DEFINE x == Head(todo[t])
           b == x.block
           n == node[t]
           u == Slab!Less(n, Half)
           s == secondary[t]
           v == Slab!More(s, n, Half)
<1>1. /\ todo[t] # <<>> /\ x.do = "makeRoom"
      /\ node' = [node EXCEPT ![t] = Given(u, b)]
      /\ cursor' = [cursor EXCEPT ![t] = (n.used - Half) + 1]
      /\ secondary' = [secondary EXCEPT ![t] = v]
      /\ todo' = [todo EXCEPT ![t] = <<>> \o Tail(todo[t])]
      /\ UNCHANGED <<free, issued, empty, remaining, credit>> /\ stored' = stored
      /\ UNCHANGED <<home, disabled, plate>>
  BY DEF Slab!MakeRoom, Slab!At, Slab!First, Slab!Then, Slab!PutInto, Slab!Set, Slab!layer2, Given, Half
<1>2. /\ Keeps(node[t], secondary[t], cursor[t], home[t], disabled[t], plate[t])
      /\ AfterErrands(todo[t], node[t], secondary[t], home[t], disabled[t], plate[t])
      /\ Head(todo[t]) \in Steps
  BY <1>1, CallHead DEF ErrandNames
<1>3. todo[t] = <<x>> /\ plate[t] = None /\ x \in Bearers /\ Finishes(x, n, s)
  BY <1>1, <1>2, BlockIsPut
<1> HIDE DEF x
<1>4. Tail(todo[t]) = <<>> /\ x \in Steps
  <2>1. Tail(todo[t]) = <<>>
    BY <1>3
  <2>2. x \in Steps
    BY <1>2 DEF x
  <2> QED
    BY <2>1, <2>2
<1>5. b \in AllHomes /\ n \in Whole /\ n.used = Capacity /\ s \in Bare
  BY <1>1, <1>3 DEF Finishes
<1>6. \A a : ListWorth(a, t, todo[t]) = AsBlock(a, b)
  BY <1>3, <1>4, ListOfOne, WorthOfBearer
<1>7. n # None /\ n \in Plates /\ s \in Whole /\ s.used = 0
  BY <1>5, SlabConstants DEF Bare, Whole
<1> HIDE DEF b
<1>8. todo' = [todo EXCEPT ![t] = <<>>]
  <2>1. <<>> \o Tail(todo[t]) = <<>>
    BY <1>4
  <2> QED
    BY <1>1, <2>1
<1>9. /\ u \in Whole /\ u.used = n.used - Half /\ v \in Whole /\ v.used = s.used + Half
      /\ \A a : HandWorth(a, u) + HandWorth(a, v) = HandWorth(a, n) + HandWorth(a, s)
  <2>1. Half \in Nat /\ Half <= n.used /\ s.used + Half <= Capacity
    BY <1>5, <1>7, SlabConstants
  <2> QED
    BY <1>5, <1>7, <2>1, MoveEntries
<1> HIDE DEF u, v
<1>10. u \in Plates /\ Len(u.entries) = Half /\ Half < Capacity /\ v.used = Half
  <2>1. Capacity - Half = Half /\ Half < Capacity /\ 0 + Half = Half
    BY SlabConstants
  <2>2. u.used = Half /\ v.used = Half
    BY <1>5, <1>7, <1>9, <2>1
  <2> QED
    BY <1>9, <2>1, <2>2 DEF Whole
<1>11. cursor' = [cursor EXCEPT ![t] = Len(u.entries) + 1]
  <2>1. n.used - Half = Len(u.entries)
    BY <1>9, <1>10 DEF Whole
  <2> QED
    BY <1>1, <2>1
<1>12. Keeps(node[t], secondary[t], cursor[t], home[t], disabled[t], None)
  BY <1>2, <1>3
<1>13. UNCHANGED <<free, issued, empty, remaining, credit>> /\ stored' = stored
        /\ UNCHANGED <<home, disabled, plate>>
  BY <1>1
<1>14. Len(u.entries) < Capacity /\ v.used \in {0, Half, Capacity}
  BY <1>10
<1>15. \A a : HandWorth(a, u) + HandWorth(a, v) = HandWorth(a, node[t]) + HandWorth(a, secondary[t])
  BY <1>9
<1> QED
  BY <1>1, <1>3, <1>5, <1>6, <1>7, <1>8, <1>9, <1>10, <1>11, <1>12, <1>13, <1>14, <1>15, BlockIsPlaced

\* A block goes from a plate to the program.
LEMMA BlockGoesOut ==
  ASSUME SlabKnown, NEW h \in AllHomes, issued' = [issued EXCEPT ![h] = @ + 1],
         UNCHANGED <<free, empty, remaining, credit>>
  PROVE  SharedTypes' /\ Comes(0, 1, -1, 0)
<1>1. SharedTypes /\ issued[h] \in Nat
  BY DEF SlabKnown, Shape, SharedTypes
<1>2. ASSUME NEW k \in Int, k = 1
      PROVE  /\ issued' \in [AllHomes -> Nat]
             /\ SumOf(issued', AllHomes) = SumOf(issued, AllHomes) + k
  <2>1. issued[h] + k \in Nat /\ issued' = [issued EXCEPT ![h] = issued[h] + k]
    BY <1>1, <1>2
  <2> QED
    BY <1>1, <2>1, IssuedChange
<1> DEFINE k == 1
<1>0. k \in Int /\ k = 1
  OBVIOUS
<1> HIDE DEF k
<1>3. issued' \in [AllHomes -> Nat] /\ SumOf(issued', AllHomes) = SumOf(issued, AllHomes) + 1
  <2>1. issued' \in [AllHomes -> Nat] /\ SumOf(issued', AllHomes) = SumOf(issued, AllHomes) + k
    BY <1>0, <1>2
  <2> QED
    BY <1>0, <2>1
<1>4. SharedTypes'
  BY <1>1, <1>3 DEF SharedTypes
<1>5. free' = free + 0
  BY <1>1 DEF SharedTypes
<1> QED
  BY <1>3, <1>4, <1>5 DEF Comes

LEMMA OneLess ==
  ASSUME NEW p \in Whole, p.used > 0
  PROVE  /\ Slab!Less(p, 1) \in Whole /\ Slab!Top(p) \in AllHomes
         /\ \A a : HandWorth(a, Slab!Less(p, 1)) = HandWorth(a, p) + AsEntries(a, -1)
<1> DEFINE n == Len(p.entries) - 1
           e == SubSeq(p.entries, 1, n)
<1>1. /\ p \in Plates /\ p.used = Len(p.entries) /\ p.entries \in Seq(AllHomes)
      /\ Len(p.entries) \in Nat /\ Len(p.entries) <= Capacity
      /\ p = [of |-> p.of, entries |-> p.entries, used |-> p.used]
  BY PlateFacts DEF Whole
<1>2. n \in Nat /\ n <= Len(p.entries) /\ \A i \in 1..n : p.entries[i] \in AllHomes
  BY <1>1
<1>3. Slab!Less(p, 1) = [p EXCEPT !.entries = e, !.used = n]
  BY <1>1 DEF Slab!Less
<1>4. Slab!Top(p) \in AllHomes
  BY <1>1 DEF Slab!Top
<1>5. Len(p.entries) + -1 = n
  BY <1>1
<1> HIDE DEF n
<1>6. e \in Seq(AllHomes) /\ Len(e) = n
  BY <1>1, <1>2, SubSeqProperties
<1> HIDE DEF e
<1>7. Slab!Less(p, 1) = [of |-> p.of, entries |-> e, used |-> n]
  BY <1>1, <1>3
<1>8. n <= Capacity
  BY <1>1, <1>2, SlabConstants
<1>9. ASSUME NEW k \in Int, k = -1
      PROVE  /\ [of |-> p.of, entries |-> e, used |-> n] \in Plates
             /\ \A a : HandWorth(a, [of |-> p.of, entries |-> e, used |-> n])
                      = HandWorth(a, p) + AsEntries(a, k)
  <2>1. Len(e) = Len(p.entries) + k /\ Len(e) <= Capacity
    BY <1>5, <1>6, <1>8, <1>9
  <2> QED
    BY <1>1, <1>2, <1>6, <2>1, SamePlate
<1>10. Slab!Less(p, 1) \in Whole
  BY <1>6, <1>7, <1>9 DEF Whole
<1> QED
  BY <1>4, <1>7, <1>9, <1>10

\* No plate: the call is over.
LEMMA NothingToUse ==
  ASSUME SlabKnown, NEW t \in Users, NEW x \in Seekers, todo[t] = <<x>>, plate[t] = None,
         Keeps(node[t], secondary[t], cursor[t], home[t], disabled[t], plate[t]),
         todo' = [todo EXCEPT ![t] = <<>>], plate' = [plate EXCEPT ![t] = None],
         UNCHANGED <<node, secondary, cursor, home, disabled>>,
         UNCHANGED <<stored, empty, remaining, credit>>, free' = free, issued' = issued
  PROVE  SlabKnown'
<1>1. AfterErrands(<<>>, node[t], secondary[t], home[t], disabled[t], None) /\ <<>> \in Seq(Steps)
  BY DEF AfterErrands
<1>2. Keeps(node[t], secondary[t], cursor[t], home[t], disabled[t], None)
  OBVIOUS
<1>3. Known(node[t], secondary[t], cursor[t], home[t], disabled[t], None, <<>>)
  BY <1>1, <1>2, IsKnownAtOnce
<1>4. \A a : HandWorth(a, None) + ListWorth(a, t, <<>>) = HandWorth(a, plate[t]) + ListWorth(a, t, todo[t])
  BY ListOfNone, SeekersLine, Zenon
<1>5. Turns(t, None, <<>>, 0, 0)
  BY <1>4, TurnsEven
<1>6. SharedTypes' /\ Comes(0, 0, 0, 0)
  BY NothingComes
<1>7. UNCHANGED <<node, secondary, cursor, home, disabled>> /\ UNCHANGED <<stored, empty, remaining, credit>>
  OBVIOUS
<1>8. todo' = [todo EXCEPT ![t] = <<>>] /\ plate' = [plate EXCEPT ![t] = None]
  OBVIOUS
<1> QED
  BY ONLY SlabKnown, t \in Users, <1>3, <1>5, <1>6, <1>7, <1>8, CallStays

LEMMA DirectKeeps ==
  ASSUME SlabKnown, NEW t \in Users, Slab!Direct(t)
  PROVE  SlabKnown'
<1> DEFINE q == plate[t]
           x == Slab!Do("direct")
           u == Slab!Less(q, 1)
           z == Slab!DoOn("release", u)
<1>1. /\ todo[t] # <<>> /\ Head(todo[t]).do = "direct"
      /\ plate' = [plate EXCEPT ![t] = None]
      /\ UNCHANGED <<free, empty, remaining, credit>> /\ stored' = stored
      /\ UNCHANGED <<node, secondary, cursor, home, disabled>>
  BY DEF Slab!Direct, Slab!At, Slab!First, Slab!Set, Slab!layer1, Slab!layer2
<1>2. \/ q = None /\ issued' = issued /\ todo' = [todo EXCEPT ![t] = <<>> \o Tail(todo[t])]
      \/ /\ q # None /\ issued' = [issued EXCEPT ![Slab!Top(q)] = @ + 1]
         /\ todo' = [todo EXCEPT ![t] = <<z>> \o Tail(todo[t])]
  BY DEF Slab!Direct, Slab!First, Slab!Then
<1>3. /\ Keeps(node[t], secondary[t], cursor[t], home[t], disabled[t], plate[t])
      /\ AfterErrands(todo[t], node[t], secondary[t], home[t], disabled[t], plate[t])
  BY <1>1, CallHead DEF ErrandNames
<1>4. todo[t] = <<x>> /\ (q # None => q.used = Capacity)
  BY <1>1, <1>3, FullIsUsed
<1>5. x \in Seekers /\ x \in Steps
  BY DoIsSeeker
<1> HIDE DEF x
<1>6. Tail(todo[t]) = <<>>
  BY <1>4
<1>7. \A a : ListWorth(a, t, todo[t]) = 0
  <2>1. t \in Users /\ x \in Seekers
    BY <1>5
  <2>2. \A a : ListWorth(a, t, <<x>>) = 0
    BY ONLY <2>1, SeekerAlone, Zenon
  <2> QED
    BY <1>4, <2>2
<1>8. CASE q = None /\ issued' = issued /\ todo' = [todo EXCEPT ![t] = <<>> \o Tail(todo[t])]
  <2>1. <<>> \o Tail(todo[t]) = <<>>
    BY <1>6
  <2>2. todo' = [todo EXCEPT ![t] = <<>>]
    BY <1>8, <2>1
  <2>3. UNCHANGED <<stored, empty, remaining, credit>> /\ free' = free /\ issued' = issued
    BY <1>1, <1>8
  <2> QED
    BY <1>1, <1>3, <1>4, <1>5, <1>8, <2>2, <2>3, NothingToUse
<1>9. CASE /\ q # None /\ issued' = [issued EXCEPT ![Slab!Top(q)] = @ + 1]
           /\ todo' = [todo EXCEPT ![t] = <<z>> \o Tail(todo[t])]
  <2>1. q \in Whole /\ q.used > 0
    BY <1>3, <1>4, <1>9, SlabConstants DEF Keeps
  <2>2. /\ u \in Whole /\ Slab!Top(q) \in AllHomes
        /\ \A a : HandWorth(a, u) = HandWorth(a, q) + AsEntries(a, -1)
    BY <2>1, OneLess
  <2> HIDE DEF u
  <2>3. z \in Errands /\ z \in Steps /\ \A a : StepWorth(a, z) = HandWorth(a, u)
    BY <2>2, PlateErrand, ErrandsAreSteps
  <2>4. SharedTypes' /\ Comes(0, 1, -1, 0)
    BY <1>1, <1>9, <2>2, BlockGoesOut
  <2> HIDE DEF z
  <2>5. <<z>> \in Seq(Errands) /\ <<z>> \in Seq(Steps) /\ <<z>> \o <<>> = <<z>>
    BY <2>3, Pairs, ConcatEmptySeq
  <2>6. Known(node[t], secondary[t], cursor[t], home[t], disabled[t], None, <<z>>)
    <3>1. AfterErrands(<<>>, node[t], secondary[t], home[t], disabled[t], None) /\ <<>> \in Seq(Steps)
      BY DEF AfterErrands
    <3>2. Keeps(node[t], secondary[t], cursor[t], home[t], disabled[t], None)
      BY <1>3, KeepsPlate
    <3>3. Known(node[t], secondary[t], cursor[t], home[t], disabled[t], None, <<z>> \o <<>>)
      BY <2>5, <3>1, <3>2, IsKnown
    <3> QED
      BY <2>5, <3>3
  <2>7. todo' = [todo EXCEPT ![t] = <<z>>]
    <3>1. <<z>> \o Tail(todo[t]) = <<z>>
      BY <1>6, <2>5
    <3> QED
      BY <1>9, <3>1
  <2>8. ASSUME NEW c, c = 0, NEW k, k = 1, NEW i, i = -1
        PROVE  SlabKnown'
    <3>1. ASSUME NEW a
          PROVE  HandWorth(a, None) + ListWorth(a, t, <<z>>)
                  = HandWorth(a, plate[t]) + ListWorth(a, t, todo[t])
                      + (AsEntries(a, i) + AsReturned(a, c))
      <4>1. HandWorth(a, q) \in Int /\ AsEntries(a, i) \in Int
        BY <2>1, <2>8, HandWorthType DEF Whole, Carried, AsEntries
      <4>2. AsReturned(a, c) = 0 /\ AsEntries(a, -1) = AsEntries(a, i)
        BY <2>8 DEF AsReturned
      <4>3. ListWorth(a, t, <<z>>) = HandWorth(a, q) + AsEntries(a, i)
        BY <2>2, <2>3, <4>2, ListOfOne
      <4> QED
        BY <1>7, <4>1, <4>2, <4>3, NothingInHand
    <3>2. Turns(t, None, <<z>>, i, c)
      BY <3>1 DEF Turns
    <3>3. SharedTypes' /\ Comes(c, k, i, c)
      BY <2>4, <2>8
    <3>4. UNCHANGED <<node, secondary, cursor, home, disabled>>
          /\ UNCHANGED <<stored, empty, remaining, credit>>
      BY <1>1
    <3>5. plate' = [plate EXCEPT ![t] = None]
      BY <1>1
    <3> QED
      BY ONLY SlabKnown, t \in Users, <2>6, <2>7, <3>2, <3>3, <3>4, <3>5, CallStays
  <2> QED
    BY <2>8
<1> QED
  BY <1>2, <1>8, <1>9

LEMMA InstallKeeps ==
  ASSUME SlabKnown, NEW t \in Users, Slab!Install(t)
  PROVE  SlabKnown'
<1> DEFINE q == plate[t]
           n == node[t]
           s == secondary[t]
           x == Slab!Do("install")
           u == Slab!Less(q, Half)
           m == Slab!More(n, q, Half)
           z == Slab!DoOn("pushEmpty", s)
<1>1. /\ todo[t] # <<>> /\ Head(todo[t]).do = "install"
      /\ plate' = [plate EXCEPT ![t] = None]
      /\ UNCHANGED <<free, empty, remaining, credit>> /\ stored' = stored
      /\ UNCHANGED <<home, disabled>>
  BY DEF Slab!Install, Slab!At, Slab!First, Slab!Set, Slab!layer2
<1>2. \/ /\ q = None /\ issued' = issued /\ UNCHANGED <<node, secondary, cursor>>
         /\ todo' = [todo EXCEPT ![t] = <<>> \o Tail(todo[t])]
      \/ /\ q # None /\ issued' = [issued EXCEPT ![Slab!Top(m)] = @ + 1]
         /\ node' = [node EXCEPT ![t] = Taken(m)] /\ secondary' = [secondary EXCEPT ![t] = u]
         /\ cursor' = [cursor EXCEPT ![t] = (n.used + Half) - 1]
         /\ todo' = [todo EXCEPT ![t] = <<z>> \o Tail(todo[t])]
  BY DEF Slab!Install, Slab!First, Slab!Then, Slab!TakeFrom, Slab!Set, Taken, Half
<1>3. /\ Keeps(node[t], secondary[t], cursor[t], home[t], disabled[t], plate[t])
      /\ AfterErrands(todo[t], node[t], secondary[t], home[t], disabled[t], plate[t])
  BY <1>1, CallHead DEF ErrandNames
<1>4. todo[t] = <<x>> /\ (q # None => q.used = Capacity) /\ n \in Bare /\ s \in Bare
  BY <1>1, <1>3, FullIsUsed
<1>5. x \in Seekers /\ x \in Steps
  BY DoIsSeeker
<1> HIDE DEF x
<1>6. Tail(todo[t]) = <<>>
  BY <1>4
<1>7. \A a : ListWorth(a, t, todo[t]) = 0
  <2>1. t \in Users /\ x \in Seekers
    BY <1>5
  <2>2. \A a : ListWorth(a, t, <<x>>) = 0
    BY ONLY <2>1, SeekerAlone, Zenon
  <2> QED
    BY <1>4, <2>2
<1>8. CASE /\ q = None /\ issued' = issued /\ UNCHANGED <<node, secondary, cursor>>
           /\ todo' = [todo EXCEPT ![t] = <<>> \o Tail(todo[t])]
  <2>1. <<>> \o Tail(todo[t]) = <<>>
    BY <1>6
  <2>2. todo' = [todo EXCEPT ![t] = <<>>]
    BY <1>8, <2>1
  <2>3. UNCHANGED <<stored, empty, remaining, credit>> /\ free' = free /\ issued' = issued
        /\ UNCHANGED <<node, secondary, cursor, home, disabled>>
    BY <1>1, <1>8
  <2> QED
    BY <1>1, <1>3, <1>4, <1>5, <1>8, <2>2, <2>3, NothingToUse
<1>9. CASE /\ q # None /\ issued' = [issued EXCEPT ![Slab!Top(m)] = @ + 1]
           /\ node' = [node EXCEPT ![t] = Taken(m)] /\ secondary' = [secondary EXCEPT ![t] = u]
           /\ cursor' = [cursor EXCEPT ![t] = (n.used + Half) - 1]
           /\ todo' = [todo EXCEPT ![t] = <<z>> \o Tail(todo[t])]
  <2>1. q \in Whole /\ q.used = Capacity /\ n \in Whole /\ n.used = 0 /\ s \in Bare
    BY <1>3, <1>4, <1>9 DEF Keeps, Bare
  <2>2. Half \in Nat /\ Half <= q.used /\ n.used + Half <= Capacity
    BY <2>1, SlabConstants
  <2>3. /\ u \in Whole /\ u.used = q.used - Half /\ m \in Whole /\ m.used = n.used + Half
        /\ \A a : HandWorth(a, u) + HandWorth(a, m) = HandWorth(a, q) + HandWorth(a, n)
    BY <2>1, <2>2, MoveEntries
  <2> HIDE DEF u, m
  <2>4. m \in Plates /\ Len(m.entries) = Half /\ Half > 0 /\ u.used = Half /\ n.used + Half = Half
    <3>1. Capacity - Half = Half /\ 0 + Half = Half /\ Half > 0
      BY SlabConstants
    <3>2. u.used = Half /\ m.used = Half
      BY <2>1, <2>3, <3>1
    <3> QED
      BY <2>1, <2>3, <3>1, <3>2 DEF Whole
  <2> DEFINE w == Taken(m)
  <2>5. /\ w \in Plates /\ Len(w.entries) = Len(m.entries) - 1
        /\ Slab!Top(m) \in AllHomes
        /\ \A a : HandWorth(a, w) = HandWorth(a, m) + AsEntries(a, -1)
    BY <2>4, TakenFacts
  <2>6. z \in Errands /\ z \in Steps /\ \A a : StepWorth(a, z) = HandWorth(a, s)
    BY <2>1, EmptyErrand, ErrandsAreSteps
  <2>7. SharedTypes' /\ Comes(0, 1, -1, 0)
    BY <1>1, <1>9, <2>5, BlockGoesOut
  <2>8. node' = [node EXCEPT ![t] = w] /\ cursor' = [cursor EXCEPT ![t] = Len(w.entries)]
    BY <1>9, <2>4, <2>5
  <2> HIDE DEF z, w
  <2>9. <<z>> \in Seq(Errands) /\ <<z>> \in Seq(Steps) /\ <<z>> \o <<>> = <<z>>
    BY <2>6, Pairs, ConcatEmptySeq
  <2>10. todo' = [todo EXCEPT ![t] = <<z>>]
    <3>1. <<z>> \o Tail(todo[t]) = <<z>>
      BY <1>6, <2>9
    <3> QED
      BY <1>9, <3>1
  <2>11. Known(w, u, Len(w.entries), home[t], disabled[t], None, <<z>>)
    <3>1. AfterErrands(<<>>, w, u, home[t], disabled[t], None) /\ <<>> \in Seq(Steps)
      BY DEF AfterErrands
    <3>2. Keeps(w, u, Len(w.entries), home[t], disabled[t], None)
      <4>1. w # None /\ u # None /\ n # None
        BY <2>1, <2>3, <2>5, PlateFacts DEF Whole
      <4> QED
        BY <1>3, <2>3, <2>4, <2>5, <4>1 DEF Keeps
    <3>3. Known(w, u, Len(w.entries), home[t], disabled[t], None, <<z>> \o <<>>)
      BY <2>9, <3>1, <3>2, IsKnown
    <3> QED
      BY <2>9, <3>3
  <2>12. Becomes(t, w, u, Len(w.entries), home[t], disabled[t], None, <<z>>)
    BY <1>1, <1>9, <2>8, <2>10, Stay DEF Becomes, SlabKnown, Shape
  <2>13. ASSUME NEW c, c = 0, NEW k, k = 1, NEW i, i = -1
        PROVE  SlabKnown'
    <3>1. ASSUME NEW a
          PROVE  Worths(a, t, w, u, None, <<z>>)
                  = Worths(a, t, node[t], secondary[t], plate[t], todo[t])
                      + (AsEntries(a, i) + AsReturned(a, c))
      <4> DEFINE W == HandWorth(a, w)
                 U == HandWorth(a, u)
                 M == HandWorth(a, m)
                 N == HandWorth(a, n)
                 S == HandWorth(a, s)
                 Q == HandWorth(a, q)
                 E == AsEntries(a, -1)
      <4>1. U \in Int /\ M \in Int /\ Q \in Int
        BY <2>1, <2>3, HandWorthType DEF Whole, Carried
      <4>2. N \in Int /\ S \in Int /\ E \in Int
        BY HandWorthType DEF SlabKnown, Shape, ThreadTypes, AsEntries
      <4>3. W = M + E /\ U + M = Q + N
        BY <2>3, <2>5
      <4>4. AsReturned(a, c) = 0 /\ AsEntries(a, i) = E
        BY <2>13 DEF AsReturned
      <4>5. ListWorth(a, t, <<z>>) = S
        BY <2>6, ListOfOne
      <4>6. Worths(a, t, w, u, None, <<z>>) = W + U + 0 + S
        BY <4>5, NothingInHand DEF Worths
      <4>7. Worths(a, t, node[t], secondary[t], plate[t], todo[t]) = N + S + Q + 0
        BY <1>7 DEF Worths
      <4> HIDE DEF W, U, M, N, S, Q, E
      <4>8. W + U + 0 + S = (N + S + Q + 0) + (E + 0)
        BY <4>1, <4>2, <4>3
      <4> QED
        BY <4>4, <4>6, <4>7, <4>8
    <3>2. Grows(t, w, u, None, <<z>>, i, c)
      BY <3>1 DEF Grows
    <3>3. SharedTypes' /\ Comes(c, k, i, c)
      BY <2>7, <2>13
    <3>4. UNCHANGED <<stored, empty, remaining, credit>>
      BY <1>1
    <3> QED
      BY ONLY SlabKnown, t \in Users, <2>11, <2>12, <3>2, <3>3, <3>4, CallGoesOn
  <2> QED
    BY <2>13
<1> QED
  BY <1>2, <1>8, <1>9

LEMMA GotSecondaryKeeps ==
  ASSUME SlabKnown, NEW t \in Users, Slab!GotSecondary(t)
  PROVE  SlabKnown'
<1> DEFINE x == Head(todo[t])
           b == x.block
           n == x.on
           q == plate[t]
           y == Slab!DoOn("pushEmpty", n)
           z == Slab!DoFor("failed", b)
           p == Slab!DoFor("place", b)
           l == <<Slab!Do("seekFull"), Slab!Do("install")>>
<1>1. /\ todo[t] # <<>> /\ x.do = "gotSecondary"
      /\ plate' = [plate EXCEPT ![t] = None]
      /\ UNCHANGED <<free, issued, empty, remaining, credit>> /\ stored' = stored
      /\ UNCHANGED <<cursor, home, disabled>>
  BY DEF Slab!GotSecondary, Slab!At, Slab!First, Slab!Set, Slab!layer2
<1>2. \/ /\ q = None /\ UNCHANGED <<node, secondary>>
         /\ todo' = [todo EXCEPT ![t] = <<y, z>> \o Tail(todo[t])]
      \/ /\ q # None /\ node' = [node EXCEPT ![t] = n] /\ secondary' = [secondary EXCEPT ![t] = q]
         /\ \/ b = None /\ todo' = [todo EXCEPT ![t] = l \o Tail(todo[t])]
            \/ b # None /\ todo' = [todo EXCEPT ![t] = <<p>> \o Tail(todo[t])]
  BY DEF Slab!GotSecondary, Slab!First, Slab!Then, Slab!Set
<1>3. /\ Keeps(node[t], secondary[t], cursor[t], home[t], disabled[t], plate[t])
      /\ AfterErrands(todo[t], node[t], secondary[t], home[t], disabled[t], plate[t])
      /\ Head(todo[t]) \in Steps
  BY <1>1, CallHead DEF ErrandNames
<1>4. /\ todo[t] = <<x>> /\ (q # None => q \in Bare) /\ x \in Bearers \cup HolderSteps
      /\ WantsEmpty(x, node[t], secondary[t], disabled[t])
  BY <1>1, <1>3, EmptyIsUsed
<1> HIDE DEF x
<1>5. Tail(todo[t]) = <<>> /\ x \in Steps
  <2>1. Tail(todo[t]) = <<>>
    BY <1>4
  <2>2. x \in Steps
    BY <1>3 DEF x
  <2> QED
    BY <2>1, <2>2
<1>6. /\ x \in HolderSteps /\ n \in Bare /\ b \in AllHomes \cup {None}
      /\ node[t] = None /\ ~disabled[t]
  BY <1>1, <1>4 DEF WantsEmpty, Bearers, HolderSteps
<1>7. /\ n \in Whole /\ n \in Plates /\ n.used = 0 /\ Len(n.entries) = 0 /\ n # None
      /\ secondary[t] = None /\ cursor[t] = 0
  <2>1. n \in Whole /\ n \in Plates /\ n.used = 0 /\ Len(n.entries) = 0
    BY <1>6 DEF Bare, Whole
  <2>2. n # None
    BY <2>1, PlateFacts
  <2> QED
    BY <1>3, <1>6, <2>1, <2>2 DEF Keeps
<1>8. \A a : ListWorth(a, t, todo[t]) = HandWorth(a, n) + AsBlock(a, b)
  BY <1>4, <1>5, <1>6, ListOfOne, WorthOfHolder
<1> HIDE DEF b, n
<1>9. SharedTypes' /\ Comes(0, 0, 0, 0)
  BY <1>1, NothingComes
<1>10. UNCHANGED <<stored, empty, remaining, credit>>
  BY <1>1
<1>11. CASE /\ q = None /\ UNCHANGED <<node, secondary>>
            /\ todo' = [todo EXCEPT ![t] = <<y, z>> \o Tail(todo[t])]
  <2>1. y \in Errands /\ y \in Steps /\ \A a : StepWorth(a, y) = HandWorth(a, n)
    BY <1>6, EmptyErrand, ErrandsAreSteps
  <2>2. /\ z \in Bearers /\ z \in Steps /\ <<z>> \in Seq(Steps)
        /\ \A a : StepWorth(a, z) = AsBlock(a, b)
    <3>1. ASSUME NEW w \in {"gotActive", "gotEmpty", "failed", "makeRoom", "place"}, w = "failed"
          PROVE  /\ Slab!DoFor(w, b) \in Bearers /\ Slab!DoFor(w, b) \in Steps
                 /\ Slab!DoFor(w, b).do = w /\ Slab!DoFor(w, b).block = b
                 /\ <<Slab!DoFor(w, b)>> \in Seq(Steps)
                 /\ <<Slab!Do("popEmpty"), Slab!DoFor(w, b)>> \in Seq(Steps)
                 /\ \A a : /\ StepWorth(a, Slab!DoFor(w, b)) = AsBlock(a, b)
                           /\ ListWorth(a, t, <<Slab!DoFor(w, b)>>) = AsBlock(a, b)
                           /\ ListWorth(a, t, <<Slab!Do("popEmpty"), Slab!DoFor(w, b)>>) = AsBlock(a, b)
      BY <1>6, BlockErrand
    <3> QED
      BY <3>1
  <2>3. AfterErrands(<<z>>, node[t], secondary[t], home[t], disabled[t], None)
    <3>1. Finishes(z, node[t], secondary[t])
      BY <1>6 DEF Finishes, Slab!DoFor
    <3> HIDE DEF z
    <3> QED
      BY <2>2, <3>1 DEF AfterErrands
  <2>4. Keeps(node[t], secondary[t], cursor[t], home[t], disabled[t], None)
    BY <1>3, KeepsPlate
  <2> HIDE DEF y, z
  <2>5. <<y>> \in Seq(Errands) /\ <<y, z>> \in Seq(Steps) /\ <<y>> \o <<z>> = <<y, z>>
    <3>1. <<y>> \o <<z>> = <<y, z>> /\ <<y>> \in Seq(Steps) /\ <<z>> \in Seq(Steps) /\ <<y, z>> \in Seq(Steps)
      BY <2>1, <2>2, Pairs
    <3> QED
      BY <2>1, <3>1
  <2>6. Known(node[t], secondary[t], cursor[t], home[t], disabled[t], None, <<y, z>>)
    <3>1. Known(node[t], secondary[t], cursor[t], home[t], disabled[t], None, <<y>> \o <<z>>)
      BY <2>2, <2>3, <2>4, <2>5, IsKnown
    <3> QED
      BY <2>5, <3>1
  <2>7. todo' = [todo EXCEPT ![t] = <<y, z>>] /\ plate' = [plate EXCEPT ![t] = None]
    <3>1. <<y, z>> \o Tail(todo[t]) = <<y, z>>
      BY <1>5, <2>5, ConcatEmptySeq
    <3> QED
      BY <1>1, <1>11, <3>1
  <2>8. ASSUME NEW a
        PROVE  HandWorth(a, None) + ListWorth(a, t, <<y, z>>)
                 = HandWorth(a, plate[t]) + ListWorth(a, t, todo[t])
    <3>1. HandWorth(a, n) \in Int /\ AsBlock(a, b) \in Int
      BY <1>7, HandWorthType DEF Carried, AsBlock
    <3>2. ListWorth(a, t, <<y, z>>) = HandWorth(a, n) + AsBlock(a, b)
      BY <2>1, <2>2, ListOfTwo
    <3> QED
      BY <1>8, <1>11, <3>1, <3>2, NothingInHand
  <2>9. Turns(t, None, <<y, z>>, 0, 0)
    BY <2>8, TurnsEven
  <2>10. UNCHANGED <<node, secondary, cursor, home, disabled>>
    BY <1>1, <1>11
  <2> QED
    BY ONLY SlabKnown, t \in Users, <1>9, <1>10, <2>6, <2>7, <2>9, <2>10, CallStays
<1>12. ASSUME NEW k \in Seq(Steps), q # None, AfterErrands(k, n, q, home[t], disabled[t], None),
              \A a : ListWorth(a, t, k) = AsBlock(a, b),
              node' = [node EXCEPT ![t] = n], secondary' = [secondary EXCEPT ![t] = q],
              todo' = [todo EXCEPT ![t] = k]
       PROVE  SlabKnown'
  <2>1. Keeps(n, q, cursor[t], home[t], disabled[t], None)
    <3>1. q \in Whole /\ q.used = 0
      BY <1>4, <1>12 DEF Bare
    <3> QED
      BY <1>3, <1>6, <1>7, <1>12, <3>1 DEF Keeps
  <2>2. Known(n, q, cursor[t], home[t], disabled[t], None, k)
    BY <1>12, <2>1, IsKnownAtOnce
  <2>3. Becomes(t, n, q, cursor[t], home[t], disabled[t], None, k)
    BY <1>1, <1>12, Stay DEF Becomes, SlabKnown, Shape
  <2>4. ASSUME NEW a
        PROVE  Worths(a, t, n, q, None, k)
                 = Worths(a, t, node[t], secondary[t], plate[t], todo[t])
    <3> DEFINE N == HandWorth(a, n)
               Q == HandWorth(a, q)
               B == AsBlock(a, b)
    <3>1. N \in Int /\ Q \in Int /\ B \in Int
      BY <1>7, HandWorthType DEF SlabKnown, Shape, ThreadTypes, AsBlock, Carried
    <3>2. Worths(a, t, n, q, None, k) = N + Q + 0 + B
      BY <1>12, NothingInHand DEF Worths
    <3>3. Worths(a, t, node[t], secondary[t], plate[t], todo[t]) = 0 + 0 + Q + (N + B)
      BY <1>6, <1>7, <1>8, NothingInHand DEF Worths
    <3> HIDE DEF N, Q, B
    <3> QED
      BY <3>1, <3>2, <3>3
  <2>5. Grows(t, n, q, None, k, 0, 0)
    BY <2>4, GrowsEven
  <2> QED
    BY ONLY SlabKnown, t \in Users, <1>9, <1>10, <2>2, <2>3, <2>5, CallGoesOn
<1>13. CASE /\ q # None /\ node' = [node EXCEPT ![t] = n] /\ secondary' = [secondary EXCEPT ![t] = q]
            /\ b = None /\ todo' = [todo EXCEPT ![t] = l \o Tail(todo[t])]
  <2>1. l \in Seq(Steps) /\ \A a : ListWorth(a, t, l) = 0
    <3>1. ASSUME NEW w \in {"install", "direct"}, w = "install"
          PROVE  /\ <<Slab!Do("seekFull"), Slab!Do(w)>> \in Seq(Steps)
                 /\ \A a : ListWorth(a, t, <<Slab!Do("seekFull"), Slab!Do(w)>>) = 0
      BY FullLine
    <3> QED
      BY <3>1
  <2>2. AfterErrands(l, n, q, home[t], disabled[t], None)
    <3> DEFINE w == Slab!Do("install")
    <3>1. w \in Seekers /\ WantsFull(w, n, q)
      BY <1>4, <1>6, <1>13, DoIsSeeker DEF WantsFull
    <3> HIDE DEF w
    <3>2. AfterErrands(<<Slab!Do("seekFull"), w>>, n, q, home[t], disabled[t], None)
      BY <3>1, MayFollow
    <3> QED
      BY <3>2 DEF w
  <2> HIDE DEF l
  <2>3. \A a : ListWorth(a, t, l) = AsBlock(a, b)
    BY <1>13, <2>1 DEF AsBlock
  <2>4. todo' = [todo EXCEPT ![t] = l]
    <3>1. l \o Tail(todo[t]) = l
      BY <1>5, <2>1, ConcatEmptySeq
    <3> QED
      BY <1>13, <3>1
  <2> QED
    BY <1>12, <1>13, <2>1, <2>2, <2>3, <2>4
<1>14. CASE /\ q # None /\ node' = [node EXCEPT ![t] = n] /\ secondary' = [secondary EXCEPT ![t] = q]
            /\ b # None /\ todo' = [todo EXCEPT ![t] = <<p>> \o Tail(todo[t])]
  <2>1. /\ p \in Bearers /\ p \in Steps /\ <<p>> \in Seq(Steps)
        /\ \A a : ListWorth(a, t, <<p>>) = AsBlock(a, b)
    <3>1. ASSUME NEW w \in {"gotActive", "gotEmpty", "failed", "makeRoom", "place"}, w = "place"
          PROVE  /\ Slab!DoFor(w, b) \in Bearers /\ Slab!DoFor(w, b) \in Steps
                 /\ Slab!DoFor(w, b).do = w /\ Slab!DoFor(w, b).block = b
                 /\ <<Slab!DoFor(w, b)>> \in Seq(Steps)
                 /\ <<Slab!Do("popEmpty"), Slab!DoFor(w, b)>> \in Seq(Steps)
                 /\ \A a : /\ StepWorth(a, Slab!DoFor(w, b)) = AsBlock(a, b)
                           /\ ListWorth(a, t, <<Slab!DoFor(w, b)>>) = AsBlock(a, b)
                           /\ ListWorth(a, t, <<Slab!Do("popEmpty"), Slab!DoFor(w, b)>>) = AsBlock(a, b)
      BY <1>6, BlockErrand
    <3> QED
      BY <3>1
  <2>2. AfterErrands(<<p>>, n, q, home[t], disabled[t], None)
    <3>1. Finishes(p, n, q)
      BY <1>4, <1>6, <1>14 DEF Finishes, Slab!DoFor
    <3> HIDE DEF p
    <3> QED
      BY <2>1, <3>1 DEF AfterErrands
  <2> HIDE DEF p
  <2>3. todo' = [todo EXCEPT ![t] = <<p>>]
    <3>1. <<p>> \o Tail(todo[t]) = <<p>>
      BY <1>5, <2>1, ConcatEmptySeq
    <3> QED
      BY <1>14, <3>1
  <2> QED
    BY <1>12, <1>14, <2>1, <2>2, <2>3
<1> QED
  BY <1>2, <1>11, <1>13, <1>14

-----------------------------------------------------------------------------
(* From the books to the sets that SlabInv counts. *)

LEMMA SumOfZeros ==
  ASSUME NEW S, NEW W, \A x \in S : W[x] = 0
  PROVE  SumOf(W, S) = 0
<1>1. Laid(W, S) = {}
  BY DEF Laid
<1> QED
  BY <1>1, FS_EmptySet DEF SumOf

LEMMA SumMoved ==
  ASSUME NEW S, IsFiniteSet(S), NEW T, NEW f \in Bijection(S, T), NEW V, NEW W,
         \A x \in S : W[x] \in Nat /\ V[f[x]] = W[x]
  PROVE  SumOf(V, T) = SumOf(W, S)
<1> DEFINE A == Laid(W, S)
           B == Laid(V, T)
           g == [z \in A |-> <<f[z[1]], z[2]>>]
<1>1. f \in [S -> T] /\ (\A x, y \in S : f[x] = f[y] => x = y) /\ \A y \in T : \E x \in S : f[x] = y
  BY DEF Bijection, Injection, Surjection, IsInjective
<1>2. \A z : z \in A <=> \E x \in S : \E i \in 1..W[x] : z = <<x, i>>
  BY DEF Laid
<1>3. \A z : z \in B <=> \E y \in T : \E i \in 1..V[y] : z = <<y, i>>
  BY DEF Laid
<1>4. IsFiniteSet(A)
  BY LaidFinite
<1> HIDE DEF A, B
<1>5. ASSUME NEW z \in A
      PROVE  g[z] \in B
  <2>1. PICK x \in S : \E i \in 1..W[x] : z = <<x, i>>
    BY <1>2
  <2>2. PICK i \in 1..W[x] : z = <<x, i>>
    BY <2>1
  <2>3. g[z] = <<f[x], i>> /\ f[x] \in T /\ i \in 1..V[f[x]]
    BY <1>1, <2>2
  <2> HIDE DEF g
  <2> QED
    BY <1>3, <2>3
<1>6. ASSUME NEW y \in A, NEW z \in A, g[y] = g[z]
      PROVE  y = z
  <2>1. PICK x \in S : \E i \in 1..W[x] : z = <<x, i>>
    BY <1>2
  <2>2. PICK i \in 1..W[x] : z = <<x, i>>
    BY <2>1
  <2>3. PICK u \in S : \E j \in 1..W[u] : y = <<u, j>>
    BY <1>2
  <2>4. PICK j \in 1..W[u] : y = <<u, j>>
    BY <2>3
  <2>5. g[z] = <<f[x], i>> /\ g[y] = <<f[u], j>>
    BY <2>2, <2>4
  <2> QED
    BY <1>1, <1>6, <2>2, <2>4, <2>5
<1>7. ASSUME NEW z \in B
      PROVE  \E y \in A : g[y] = z
  <2>1. PICK y \in T : \E i \in 1..V[y] : z = <<y, i>>
    BY <1>3
  <2>2. PICK i \in 1..V[y] : z = <<y, i>>
    BY <2>1
  <2>3. PICK x \in S : f[x] = y
    BY <1>1
  <2>4. i \in 1..W[x]
    BY <2>2, <2>3
  <2>5. <<x, i>> \in A
    BY <1>2, <2>4
  <2>6. g[<<x, i>>] = z
    BY <2>2, <2>3, <2>5
  <2> QED
    BY <2>5, <2>6
<1>8. g \in Bijection(A, B)
  <2>1. g \in [A -> B]
    BY <1>5
  <2> HIDE DEF g
  <2> QED
    BY <1>6, <1>7, <2>1 DEF Bijection, Injection, Surjection, IsInjective
<1> HIDE DEF g
<1>9. Cardinality(B) = Cardinality(A)
  BY <1>4, <1>8, FS_Bijection DEF ExistsBijection
<1> QED
  BY <1>9 DEF SumOf, A, B

LEMMA CountAsSum ==
  ASSUME NEW S, IsFiniteSet(S), NEW W, \A x \in S : W[x] \in {0, 1}
  PROVE  SumOf(W, S) = Cardinality({x \in S : W[x] = 1})
<1> DEFINE T == {x \in S : W[x] = 1}
           B == Laid(W, S)
           g == [x \in T |-> <<x, 1>>]
<1>1. IsFiniteSet(T)
  BY FS_Subset
<1>2. \A z : z \in B <=> \E x \in S : \E i \in 1..W[x] : z = <<x, i>>
  BY DEF Laid
<1> HIDE DEF B
<1>3. ASSUME NEW x \in T
      PROVE  <<x, 1>> \in B
  <2>1. x \in S /\ 1 \in 1..W[x]
    OBVIOUS
  <2> QED
    BY <1>2, <2>1
<1>4. ASSUME NEW z \in B
      PROVE  \E x \in T : <<x, 1>> = z
  <2>1. PICK x \in S : \E i \in 1..W[x] : z = <<x, i>>
    BY <1>2
  <2>2. PICK i \in 1..W[x] : z = <<x, i>>
    BY <2>1
  <2>3. W[x] = 1 /\ i = 1
    <3>1. CASE W[x] = 0
      BY <3>1
    <3>2. CASE W[x] = 1
      BY <3>2
    <3> QED
      BY <3>1, <3>2
  <2> QED
    BY <2>2, <2>3
<1> HIDE DEF T
<1>5. g \in Bijection(T, B)
  <2>1. g \in [T -> B]
    BY <1>3
  <2>2. \A x, y \in T : g[x] = g[y] => x = y
    OBVIOUS
  <2>3. \A z \in B : \E x \in T : g[x] = z
    BY <1>4
  <2> HIDE DEF g
  <2> QED
    BY <2>1, <2>2, <2>3 DEF Bijection, Injection, Surjection, IsInjective
<1> HIDE DEF g
<1>6. Cardinality(B) = Cardinality(T)
  BY <1>1, <1>5, FS_Bijection DEF ExistsBijection
<1> QED
  BY <1>6 DEF SumOf, B, T

PlacedW(a, S) == [x \in S |-> HandWorth(a, x[3])]
OnSteps == {x \in AllSteps(todo) : "on" \in DOMAIN x[3]}

\* The steps about a plate are those that carry one.
LEMMA OnMeansCarries ==
  ASSUME NEW x \in Steps
  PROVE  "on" \in DOMAIN x <=> x.do \in Carriers
<1>1. CASE x \in Errands
  BY <1>1 DEF Errands, Carriers
<1>2. CASE x \in Seekers \cup Bearers \cup HolderSteps
  BY <1>2 DEF Seekers, Bearers, HolderSteps, Carriers
<1> QED
  BY <1>1, <1>2 DEF Steps

LEMMA AllStepsAre ==
  ASSUME Shape, NEW x \in AllSteps(todo)
  PROVE  /\ x \in Users \X Nat \X Steps /\ x = <<x[1], x[2], x[3]>>
         /\ x[1] \in Users /\ x[2] \in Nat /\ x[3] \in Steps
         /\ x[2] \in 0..(Len(todo[x[1]]) - 1) /\ x[3] = todo[x[1]][Len(todo[x[1]]) - x[2]]
         /\ \A a : StepW(a)[x] = StepWorth(a, x[3]) /\ StepW(a)[x] \in Nat
<1>1. PICK t \in Users : x \in StepsOf(t, todo[t])
  BY DEF AllSteps
<1>2. todo[t] \in Seq(Steps)
  BY DEF Shape, ThreadTypes
<1>3. x \in Users \X Nat \X Steps
  BY <1>1, <1>2, StepsOfFinite
<1>4. \A a : StepW(a)[x] = StepWorth(a, x[3]) /\ StepW(a)[x] \in Nat
  BY <1>1, <1>2, StepsOfFinite
<1>5. PICK i \in 0..(Len(todo[t]) - 1) : x = <<t, i, todo[t][Len(todo[t]) - i]>>
  BY <1>1 DEF StepsOf
<1> QED
  BY <1>3, <1>4, <1>5

LEMMA StepsToDoAre == Slab!StepsToDo = AllSteps(todo)
BY DEF Slab!StepsToDo, AllSteps, StepsOf

LEMMA InStoresAre == Slab!InStores = AllQueues(stored)
<1>1. \A x : x \in Slab!InStores <=> \E k \in Slab!Stores, h \in AllHomes : x \in QueueOf(k, h, stored[k][h])
  <2> DEFINE F(k, h) == QueueOf(k, h, stored[k][h])
  <2>1. Slab!InStores = UNION {F(k, h) : k \in Slab!Stores, h \in AllHomes}
    BY DEF Slab!InStores, QueueOf, AllHomes
  <2> HIDE DEF F
  <2>2. \A x : x \in Slab!InStores <=> \E k \in Slab!Stores, h \in AllHomes : x \in F(k, h)
    BY <2>1
  <2> QED
    BY <2>2 DEF F
<1>2. \A x : x \in AllQueues(stored) <=> \E k \in Slab!Stores, h \in AllHomes : x \in QueueOf(k, h, stored[k][h])
  <2>1. ASSUME NEW x, x \in AllQueues(stored)
        PROVE  \E k \in Slab!Stores, h \in AllHomes : x \in QueueOf(k, h, stored[k][h])
    <3>1. PICK y \in Slab!Stores \X AllHomes : x \in QueueOf(y[1], y[2], stored[y[1]][y[2]])
      BY <2>1 DEF AllQueues
    <3> QED
      BY <3>1
  <2>2. ASSUME NEW x, NEW k \in Slab!Stores, NEW h \in AllHomes, x \in QueueOf(k, h, stored[k][h])
        PROVE  x \in AllQueues(stored)
    <3>1. <<k, h>> \in Slab!Stores \X AllHomes
      OBVIOUS
    <3> QED
      BY <2>2, <3>1 DEF AllQueues
  <2> QED
    BY <2>1, <2>2
<1> QED
  BY <1>1, <1>2

\* The plates that steps carry, counted by place as by step.
LEMMA InStepsAre ==
  ASSUME Shape
  PROVE  [x \in OnSteps |-> <<"todo", <<x[1], x[2]>>, x[3].on>>] \in Bijection(OnSteps, Slab!InSteps)
<1> DEFINE f == [x \in OnSteps |-> <<"todo", <<x[1], x[2]>>, x[3].on>>]
<1>1. Slab!InSteps = {<<"todo", <<x[1], x[2]>>, x[3].on>> : x \in OnSteps}
  BY StepsToDoAre DEF Slab!InSteps, OnSteps
<1>2. f \in [OnSteps -> Slab!InSteps] /\ \A z \in Slab!InSteps : \E x \in OnSteps : f[x] = z
  BY <1>1
<1>3. ASSUME NEW x \in OnSteps, NEW y \in OnSteps, f[x] = f[y]
      PROVE  x = y
  <2>1. x[1] = y[1] /\ x[2] = y[2]
    BY <1>3
  <2>2. x[3] = y[3] /\ x = <<x[1], x[2], x[3]>> /\ y = <<y[1], y[2], y[3]>>
    BY <2>1, AllStepsAre DEF OnSteps
  <2> QED
    BY <2>1, <2>2
<1> HIDE DEF f
<1>4. f \in Bijection(OnSteps, Slab!InSteps)
  BY <1>2, <1>3 DEF Bijection, Injection, Surjection, IsInjective
<1> QED
  BY <1>4 DEF f

\* The accounts of plates and of the blocks on them.
Material(a) == a[1] \in {"plates", "entries"}

LEMMA StepsAsPlaced ==
  ASSUME Shape, NEW a, Material(a)
  PROVE  SumOf(PlacedW(a, Slab!InSteps), Slab!InSteps) = StepSum(a, todo)
<1> DEFINE f == [x \in OnSteps |-> <<"todo", <<x[1], x[2]>>, x[3].on>>]
           V == PlacedW(a, Slab!InSteps)
           W == StepW(a)
           R == AllSteps(todo) \ OnSteps
<1>1. IsFiniteSet(AllSteps(todo))
  BY AllStepsFinite DEF Shape, ThreadTypes
<1>2. IsFiniteSet(OnSteps) /\ IsFiniteSet(R) /\ AllSteps(todo) = OnSteps \cup R /\ OnSteps \cap R = {}
  <2>1. OnSteps \subseteq AllSteps(todo) /\ R \subseteq AllSteps(todo)
    BY DEF OnSteps
  <2> QED
    BY <1>1, <2>1, FS_Subset
<1>3. \A x \in AllSteps(todo) : W[x] = StepWorth(a, x[3]) /\ W[x] \in Nat
  BY AllStepsAre
<1>4. \A x \in R : W[x] = 0
  <2>1. ASSUME NEW x \in R
        PROVE  W[x] = 0
    <3>1. x \in AllSteps(todo) /\ x[3] \in Steps /\ "on" \notin DOMAIN x[3]
      BY AllStepsAre DEF OnSteps
    <3>2. x[3].do \notin Carriers
      BY <3>1, OnMeansCarries
    <3> QED
      BY <1>3, <3>1, <3>2 DEF StepWorth, Material
  <2> QED
    BY <2>1
<1>5. ASSUME NEW x \in OnSteps
      PROVE  W[x] \in Nat /\ V[f[x]] = W[x]
  <2>1. x \in AllSteps(todo) /\ x[3] \in Steps /\ "on" \in DOMAIN x[3]
    BY AllStepsAre DEF OnSteps
  <2>2. x[3].do \in Carriers
    BY <2>1, OnMeansCarries
  <2>3. W[x] = HandWorth(a, x[3].on) /\ W[x] \in Nat
    BY <1>3, <2>1, <2>2 DEF StepWorth, Material
  <2>4. f[x] \in Slab!InSteps
    BY InStepsAre DEF Bijection, Injection
  <2>5. V[f[x]] = HandWorth(a, f[x][3])
    <3> HIDE DEF f
    <3> QED
      BY <2>4 DEF PlacedW
  <2> QED
    BY <2>3, <2>5
<1>6. f \in Bijection(OnSteps, Slab!InSteps)
  BY InStepsAre
<1> HIDE DEF f, V, W, R
<1>7. SumOf(V, Slab!InSteps) = SumOf(W, OnSteps)
  BY <1>2, <1>5, <1>6, SumMoved
<1>8. SumOf(W, R) = 0
  BY <1>4, SumOfZeros
<1>9. SumOf(W, OnSteps \cup R) = SumOf(W, OnSteps) + SumOf(W, R) /\ SumOf(W, OnSteps) \in Nat
  <2>1. \A x \in OnSteps \cup R : W[x] \in Nat
    BY <1>2, <1>3
  <2> QED
    BY <1>2, <2>1, SumOfBoth
<1> QED
  BY <1>2, <1>7, <1>8, <1>9 DEF StepSum, V, W

LEMMA HandsArePlaces ==
  ASSUME NEW w \in HandPlaces, NEW f \in [Users -> Carried]
  PROVE  /\ IsFiniteSet(Slab!InHands(w, f))
         /\ \A x \in Slab!InHands(w, f) : x \in HandPlaces \X Users \X Plates /\ x[1] = w /\ x[3] = f[x[2]]
<1> DEFINE D == {u \in Users : f[u] # None}
           H == Slab!InHands(w, f)
<1>1. H = {<<w, t, f[t]>> : t \in D}
  BY DEF Slab!InHands
<1>2. \A t \in D : f[t] \in Plates
  BY DEF Carried
<1>3. IsFiniteSet(D)
  BY SlabConstants, FS_Subset
<1> HIDE DEF D, H
<1>4. [t \in D |-> <<w, t, f[t]>>] \in Surjection(D, H)
  BY <1>1 DEF Surjection
<1>5. IsFiniteSet(H)
  BY <1>3, <1>4, FS_Surjection
<1>6. \A x \in H : x \in HandPlaces \X Users \X Plates /\ x[1] = w /\ x[3] = f[x[2]]
  BY <1>1, <1>2 DEF D
<1> QED
  BY <1>5, <1>6 DEF H

LEMMA HandsAsPlaced ==
  ASSUME NEW w \in HandPlaces, NEW f \in [Users -> Carried], NEW a
  PROVE  SumOf(PlacedW(a, Slab!InHands(w, f)), Slab!InHands(w, f)) = HandSum(a, w, f)
<1> DEFINE H == Slab!InHands(w, f)
<1>1. \A x \in H : HandW(a)[x] = HandWorth(a, x[3])
  BY HandsArePlaces DEF HandW
<1> HIDE DEF H
<1>2. \A x \in H : PlacedW(a, H)[x] = HandW(a)[x]
  BY <1>1 DEF PlacedW
<1>3. SumOf(PlacedW(a, H), H) = SumOf(HandW(a), H)
  BY <1>2, SumSame
<1> QED
  BY <1>3 DEF HandSum, H

LEMMA QueuesArePlaces ==
  ASSUME Shape
  PROVE  /\ IsFiniteSet(AllQueues(stored))
         /\ \A x \in AllQueues(stored) :
               /\ x \in Slab!Stores \X (AllHomes \X Nat) \X Plates
               /\ x[3] \in Whole /\ x[3].used > 0 /\ x[3].entries[1] = x[2][1]
               /\ (x[1] = "full" <=> x[3].used = Capacity)
               /\ \A a : StoreW(a)[x] = StoreWorth(a, x[3]) /\ StoreW(a)[x] \in Nat
<1> DEFINE K == Slab!Stores \X AllHomes
           Q(y) == QueueOf(y[1], y[2], stored[y[1]][y[2]])
           T == {Q(y) : y \in K}
<1>1. ASSUME NEW k \in Slab!Stores, NEW h \in AllHomes
      PROVE  stored[k][h] \in Bundles
  BY DEF Shape, StoreKnown
<1>2. ASSUME NEW k \in Slab!Stores, NEW h \in AllHomes, NEW a
      PROVE  /\ IsFiniteSet(QueueOf(k, h, stored[k][h]))
             /\ \A x \in QueueOf(k, h, stored[k][h]) :
                  /\ x \in Slab!Stores \X (AllHomes \X Nat) \X Plates
                  /\ StoreW(a)[x] = StoreWorth(a, x[3]) /\ StoreW(a)[x] \in Nat
  BY <1>1, QueueFinite
<1>3. IsFiniteSet(K)
  <2>1. IsFiniteSet(Slab!Stores)
    <3>1. Slab!Stores = {"full"} \cup {"partial"}
      BY DEF Slab!Stores
    <3> QED
      BY <3>1, FS_Singleton, FS_Union
  <2>2. IsFiniteSet(AllHomes)
    BY SlabConstants, FS_Interval
  <2> QED
    BY <2>1, <2>2, FS_Product
<1>4. \A y \in K : y[1] \in Slab!Stores /\ y[2] \in AllHomes
  OBVIOUS
<1>5. \A S \in T : IsFiniteSet(S)
  BY <1>2, <1>4
<1>6. AllQueues(stored) = UNION T
  BY DEF AllQueues
<1> HIDE DEF Q
<1>7. [y \in K |-> Q(y)] \in Surjection(K, T)
  BY DEF Surjection
<1> HIDE DEF K, T
<1>8. IsFiniteSet(UNION T)
  <2>1. IsFiniteSet(T)
    BY <1>3, <1>7, FS_Surjection
  <2> QED
    BY <1>5, <2>1, FS_UNION
<1>9. ASSUME NEW x \in AllQueues(stored)
      PROVE  /\ x \in Slab!Stores \X (AllHomes \X Nat) \X Plates
             /\ x[3] \in Whole /\ x[3].used > 0 /\ x[3].entries[1] = x[2][1]
             /\ (x[1] = "full" <=> x[3].used = Capacity)
             /\ \A a : StoreW(a)[x] = StoreWorth(a, x[3]) /\ StoreW(a)[x] \in Nat
  <2>1. PICK y \in K : x \in QueueOf(y[1], y[2], stored[y[1]][y[2]])
    BY DEF AllQueues, K
  <2>2. y[1] \in Slab!Stores /\ y[2] \in AllHomes
    BY <1>4
  <2>3. ASSUME NEW k, k = y[1], NEW h, h = y[2]
        PROVE  /\ x \in Slab!Stores \X (AllHomes \X Nat) \X Plates
               /\ x[3] \in DOMAIN stored[k][h] /\ x[1] = k /\ x[2][1] = h
               /\ \A a : StoreW(a)[x] = StoreWorth(a, x[3]) /\ StoreW(a)[x] \in Nat
    <3>1. x \in QueueOf(k, h, stored[k][h]) /\ k \in Slab!Stores /\ h \in AllHomes
      BY <2>1, <2>2, <2>3
    <3>2. x[3] \in DOMAIN stored[k][h] /\ x[1] = k /\ x[2][1] = h
      BY <3>1 DEF QueueOf
    <3> QED
      BY <1>2, <3>1, <3>2
  <2>4. DOMAIN stored[y[1]][y[2]] \subseteq Whole
    BY <1>1, <2>2, BundleFacts
  <2>5. \A p \in DOMAIN stored[y[1]][y[2]] :
           p.used > 0 /\ p.entries[1] = y[2] /\ (y[1] = "full" <=> p.used = Capacity)
    BY <2>2 DEF Shape, StoreKnown
  <2> QED
    BY <2>3, <2>4, <2>5
<1> QED
  BY <1>6, <1>8, <1>9

LEMMA StoresAsPlaced ==
  ASSUME Shape, NEW a, Material(a)
  PROVE  SumOf(PlacedW(a, Slab!InStores), Slab!InStores) = StoreSum(a, stored)
<1> DEFINE S == AllQueues(stored)
<1>1. \A x \in S : StoreW(a)[x] = HandWorth(a, x[3])
  BY QueuesArePlaces DEF StoreWorth, Material
<1> HIDE DEF S
<1>2. \A x \in S : PlacedW(a, S)[x] = StoreW(a)[x]
  BY <1>1 DEF PlacedW
<1>3. SumOf(PlacedW(a, S), S) = SumOf(StoreW(a), S)
  BY <1>2, SumSame
<1> QED
  BY <1>3, InStoresAre DEF StoreSum, S

PlacedSum(a, S) == SumOf(PlacedW(a, S), S)

LEMMA PlacesJoin ==
  ASSUME NEW a, NEW S, IsFiniteSet(S), NEW T, IsFiniteSet(T), S \cap T = {},
         \A x \in S \cup T : x[3] \in Plates
  PROVE  /\ PlacedSum(a, S \cup T) = PlacedSum(a, S) + PlacedSum(a, T) /\ IsFiniteSet(S \cup T)
         /\ PlacedSum(a, S) \in Nat /\ PlacedSum(a, T) \in Nat
<1> DEFINE W == PlacedW(a, S \cup T)
<1>1. \A x \in S \cup T : W[x] = HandWorth(a, x[3]) /\ HandWorth(a, x[3]) \in Nat
  BY HandWorthType DEF PlacedW, Carried
<1>2. (\A x \in S : PlacedW(a, S)[x] = W[x]) /\ (\A x \in T : PlacedW(a, T)[x] = W[x])
  BY <1>1 DEF PlacedW
<1> HIDE DEF W
<1>3. /\ SumOf(W, S \cup T) = SumOf(W, S) + SumOf(W, T)
      /\ SumOf(W, S) \in Nat /\ SumOf(W, T) \in Nat
  <2>1. \A x \in S \cup T : W[x] \in Nat
    BY <1>1
  <2> QED
    BY <2>1, SumOfBoth
<1>4. SumOf(PlacedW(a, S), S) = SumOf(W, S)
  BY <1>2, SumSame
<1>5. SumOf(PlacedW(a, T), T) = SumOf(W, T)
  BY <1>2, SumSame
<1>6. IsFiniteSet(S \cup T)
  BY FS_Union
<1> QED
  BY <1>3, <1>4, <1>5, <1>6 DEF PlacedSum, W

LEMMA StepsArePlaces ==
  ASSUME Shape
  PROVE  /\ IsFiniteSet(Slab!InSteps)
         /\ \A x \in Slab!InSteps : x[1] = "todo" /\ x[3] \in Whole
<1> DEFINE f == [x \in OnSteps |-> <<"todo", <<x[1], x[2]>>, x[3].on>>]
<1>1. IsFiniteSet(OnSteps)
  <2>1. IsFiniteSet(AllSteps(todo)) /\ OnSteps \subseteq AllSteps(todo)
    BY AllStepsFinite DEF Shape, ThreadTypes, OnSteps
  <2> QED
    BY <2>1, FS_Subset
<1>2. f \in Bijection(OnSteps, Slab!InSteps)
  BY InStepsAre
<1>3. \A x \in OnSteps : x[3].on \in Whole
  BY AllStepsAre, OnMeansCarries, CarriedPlate DEF OnSteps
<1>4. \A z \in Slab!InSteps : \E x \in OnSteps : f[x] = z
  <2> HIDE DEF f
  <2> QED
    BY <1>2 DEF Bijection, Surjection
<1>5. f \in Surjection(OnSteps, Slab!InSteps)
  <2> HIDE DEF f
  <2> QED
    BY <1>2 DEF Bijection
<1>6. \A z \in Slab!InSteps : z[1] = "todo" /\ z[3] \in Whole
  BY <1>3, <1>4
<1> HIDE DEF f
<1>7. IsFiniteSet(Slab!InSteps)
  BY <1>1, <1>5, FS_Surjection
<1> QED
  BY <1>6, <1>7

\* Where a plate is: nowhere twice.
LEMMA PlacesAre ==
  ASSUME Shape
  PROVE  /\ IsFiniteSet(Slab!InStores) /\ IsFiniteSet(Slab!InSteps)
         /\ IsFiniteSet(Slab!InHands("active", node))
         /\ IsFiniteSet(Slab!InHands("secondary", secondary))
         /\ IsFiniteSet(Slab!InHands("plate", plate))
         /\ \A x \in Slab!InStores : x[1] \in {"full", "partial"} /\ x[3] \in Plates
         /\ \A x \in Slab!InHands("active", node) : x[1] = "active" /\ x[3] \in Plates
         /\ \A x \in Slab!InHands("secondary", secondary) : x[1] = "secondary" /\ x[3] \in Plates
         /\ \A x \in Slab!InHands("plate", plate) : x[1] = "plate" /\ x[3] \in Plates
         /\ \A x \in Slab!InSteps : x[1] = "todo" /\ x[3] \in Plates
<1>1. /\ node \in [Users -> Carried] /\ secondary \in [Users -> Carried]
      /\ plate \in [Users -> Carried]
  BY DEF Shape, ThreadTypes
<1>2. ASSUME NEW w \in HandPlaces, NEW f \in [Users -> Carried]
      PROVE  /\ IsFiniteSet(Slab!InHands(w, f))
             /\ \A x \in Slab!InHands(w, f) : x[1] = w /\ x[3] \in Plates
  BY HandsArePlaces
<1>3. "active" \in HandPlaces /\ "secondary" \in HandPlaces /\ "plate" \in HandPlaces
  BY DEF HandPlaces
<1>4. IsFiniteSet(Slab!InStores) /\ \A x \in Slab!InStores : x[1] \in {"full", "partial"} /\ x[3] \in Plates
  BY QueuesArePlaces, InStoresAre DEF Slab!Stores
<1>5. IsFiniteSet(Slab!InSteps) /\ \A x \in Slab!InSteps : x[1] = "todo" /\ x[3] \in Plates
  BY StepsArePlaces DEF Whole
<1>6. /\ IsFiniteSet(Slab!InHands("active", node))
      /\ \A x \in Slab!InHands("active", node) : x[1] = "active" /\ x[3] \in Plates
  BY <1>1, <1>2, <1>3
<1>7. /\ IsFiniteSet(Slab!InHands("secondary", secondary))
      /\ \A x \in Slab!InHands("secondary", secondary) : x[1] = "secondary" /\ x[3] \in Plates
  BY <1>1, <1>2, <1>3
<1>8. /\ IsFiniteSet(Slab!InHands("plate", plate))
      /\ \A x \in Slab!InHands("plate", plate) : x[1] = "plate" /\ x[3] \in Plates
  BY <1>1, <1>2, <1>3
<1> QED
  BY ONLY <1>4, <1>5, <1>6, <1>7, <1>8

LEMMA PlacedOwned ==
  ASSUME Shape, NEW a, Material(a)
  PROVE  PlacedSum(a, Slab!Placed) = Owned(a)
<1> DEFINE A == Slab!InStores
           B == Slab!InHands("active", node)
           C == Slab!InHands("secondary", secondary)
           D == Slab!InHands("plate", plate)
           E == Slab!InSteps
<1>1. Slab!Placed = (((A \cup B) \cup C) \cup D) \cup E
  BY DEF Slab!Placed
<1>2. /\ IsFiniteSet(A) /\ IsFiniteSet(B) /\ IsFiniteSet(C) /\ IsFiniteSet(D) /\ IsFiniteSet(E)
      /\ A \cap B = {} /\ (A \cup B) \cap C = {} /\ ((A \cup B) \cup C) \cap D = {}
      /\ (((A \cup B) \cup C) \cup D) \cap E = {}
      /\ \A x \in (((A \cup B) \cup C) \cup D) \cup E : x[3] \in Plates
  <2> HIDE DEF A, B, C, D, E
  <2>1. /\ IsFiniteSet(A) /\ IsFiniteSet(B) /\ IsFiniteSet(C) /\ IsFiniteSet(D) /\ IsFiniteSet(E)
        /\ \A x \in A : x[1] \in {"full", "partial"} /\ x[3] \in Plates
        /\ \A x \in B : x[1] = "active" /\ x[3] \in Plates
        /\ \A x \in C : x[1] = "secondary" /\ x[3] \in Plates
        /\ \A x \in D : x[1] = "plate" /\ x[3] \in Plates
        /\ \A x \in E : x[1] = "todo" /\ x[3] \in Plates
    BY PlacesAre DEF A, B, C, D, E
  <2> QED
    BY ONLY <2>1
<1>3. /\ node \in [Users -> Carried] /\ secondary \in [Users -> Carried]
      /\ plate \in [Users -> Carried] /\ todo \in [Users -> Seq(Steps)]
      /\ "active" \in HandPlaces /\ "secondary" \in HandPlaces /\ "plate" \in HandPlaces
  BY DEF Shape, ThreadTypes, HandPlaces
<1>4. PlacedSum(a, A) = StoreSum(a, stored)
  BY StoresAsPlaced DEF PlacedSum
<1>5. PlacedSum(a, B) = HandSum(a, "active", node)
  BY <1>3, HandsAsPlaced DEF PlacedSum
<1>6. PlacedSum(a, C) = HandSum(a, "secondary", secondary)
  BY <1>3, HandsAsPlaced DEF PlacedSum
<1>7. PlacedSum(a, D) = HandSum(a, "plate", plate)
  BY <1>3, HandsAsPlaced DEF PlacedSum
<1>8. PlacedSum(a, E) = StepSum(a, todo)
  BY StepsAsPlaced DEF PlacedSum
<1> HIDE DEF A, B, C, D, E
<1>9. PlacedSum(a, A \cup B) = PlacedSum(a, A) + PlacedSum(a, B) /\ IsFiniteSet(A \cup B)
      /\ PlacedSum(a, A) \in Nat /\ PlacedSum(a, B) \in Nat
  BY <1>2, PlacesJoin
<1>10. PlacedSum(a, (A \cup B) \cup C) = PlacedSum(a, A \cup B) + PlacedSum(a, C)
       /\ IsFiniteSet((A \cup B) \cup C) /\ PlacedSum(a, C) \in Nat
  BY <1>2, <1>9, PlacesJoin
<1>11. PlacedSum(a, ((A \cup B) \cup C) \cup D) = PlacedSum(a, (A \cup B) \cup C) + PlacedSum(a, D)
       /\ IsFiniteSet(((A \cup B) \cup C) \cup D) /\ PlacedSum(a, D) \in Nat
  BY <1>2, <1>10, PlacesJoin
<1>12. PlacedSum(a, (((A \cup B) \cup C) \cup D) \cup E)
          = PlacedSum(a, ((A \cup B) \cup C) \cup D) + PlacedSum(a, E)
       /\ PlacedSum(a, E) \in Nat
  BY <1>2, <1>11, PlacesJoin, Zenon
<1>13. PlacedSum(a, Slab!Placed)
         = PlacedSum(a, B) + PlacedSum(a, C) + PlacedSum(a, D) + PlacedSum(a, E) + PlacedSum(a, A)
  BY <1>1, <1>9, <1>10, <1>11, <1>12
<1> QED
  BY <1>4, <1>5, <1>6, <1>7, <1>8, <1>13 DEF Owned, Loose

LEMMA PlacedAre ==
  ASSUME Shape
  PROVE  IsFiniteSet(Slab!Placed) /\ \A x \in Slab!Placed : x[3] \in Plates
<1> DEFINE A == Slab!InStores
           B == Slab!InHands("active", node)
           C == Slab!InHands("secondary", secondary)
           D == Slab!InHands("plate", plate)
           E == Slab!InSteps
<1>1. Slab!Placed = (((A \cup B) \cup C) \cup D) \cup E
  BY DEF Slab!Placed
<1>2. /\ IsFiniteSet(A) /\ IsFiniteSet(B) /\ IsFiniteSet(C) /\ IsFiniteSet(D) /\ IsFiniteSet(E)
      /\ \A x \in (((A \cup B) \cup C) \cup D) \cup E : x[3] \in Plates
  BY PlacesAre
<1> HIDE DEF A, B, C, D, E
<1>3. IsFiniteSet((A \cup B) \cup C)
  BY <1>2, FS_Union
<1>4. IsFiniteSet((((A \cup B) \cup C) \cup D) \cup E)
  BY <1>2, <1>3, FS_Union
<1> QED
  BY <1>1, <1>2, <1>4

LEMMA PlatesCounted ==
  ASSUME Shape, NEW m
  PROVE  Slab!Cardinality({x \in Slab!Placed : x[3].of = m}) = Owned(PlatesOf(m))
<1> DEFINE P == Slab!Placed
           W == PlacedW(PlatesOf(m), P)
<1>1. IsFiniteSet(P) /\ \A x \in P : x[3] \in Plates
  BY PlacedAre
<1>2. \A x \in P : W[x] = (IF x[3].of = m THEN 1 ELSE 0)
  <2> HIDE DEF P
  <2> QED
    BY <1>1, InHand DEF PlacedW
<1>3. PlacedSum(PlatesOf(m), P) = Owned(PlatesOf(m))
  BY PlacedOwned DEF Material, PlatesOf
<1> HIDE DEF P, W
<1>4. SumOf(W, P) = Cardinality({x \in P : W[x] = 1})
  BY <1>1, <1>2, CountAsSum
<1>5. {x \in P : W[x] = 1} = {x \in P : x[3].of = m}
  BY <1>2
<1>6. Cardinality({x \in P : x[3].of = m}) = Owned(PlatesOf(m))
  BY <1>3, <1>4, <1>5 DEF PlacedSum, W
<1>7. Slab!Cardinality({x \in P : x[3].of = m}) = Cardinality({x \in P : x[3].of = m})
  BY SlabCardinality
<1> QED
  BY <1>6, <1>7 DEF P

LEMMA BlocksAsSum ==
  ASSUME NEW S, NEW W, \A x \in S : x[3] \in Plates /\ W[x] = Len(x[3].entries)
  PROVE  Slab!BlocksIn(S) = SumOf(W, S)
<1>1. \A x \in S : DOMAIN x[3].entries = 1..W[x]
  <2>1. \A x \in S : x[3].entries \in Seq(AllHomes)
    BY PlateFacts
  <2> QED
    BY <2>1
<1>2. \A x \in S : {<<x, i>> : i \in DOMAIN x[3].entries} = {<<x, i>> : i \in 1..W[x]}
  BY <1>1
<1>3. UNION {{<<x, i>> : i \in DOMAIN x[3].entries} : x \in S} = Laid(W, S)
  BY <1>2 DEF Laid
<1> QED
  BY <1>3, SlabCardinality DEF Slab!BlocksIn, SumOf

LEMMA BlocksCounted ==
  ASSUME Shape
  PROVE  Slab!BlocksIn(Slab!Placed) = Owned(Entries)
<1> DEFINE P == Slab!Placed
           W == PlacedW(Entries, P)
<1>1. \A x \in P : x[3] \in Plates
  BY PlacedAre
<1>2. \A x \in P : W[x] = Len(x[3].entries)
  <2> HIDE DEF P
  <2> QED
    BY <1>1, InHand DEF PlacedW
<1>3. PlacedSum(Entries, P) = Owned(Entries)
  BY PlacedOwned DEF Material, Entries
<1> HIDE DEF P, W
<1>4. Slab!BlocksIn(P) = SumOf(W, P)
  BY <1>1, <1>2, BlocksAsSum, Zenon
<1> QED
  BY <1>3, <1>4 DEF PlacedSum, P, W

LEMMA BlockMeansReturns ==
  ASSUME NEW x \in Steps
  PROVE  "block" \in DOMAIN x /\ x.block # None <=> x \in Bearers \cup HolderSteps /\ x.block # None
<1>1. CASE x \in Errands \cup Seekers
  <2>1. "block" \notin DOMAIN x
    BY <1>1 DEF Errands, Seekers
  <2>2. x \notin Bearers \cup HolderSteps
    BY <2>1 DEF Bearers, HolderSteps
  <2> QED
    BY <2>1, <2>2
<1>2. CASE x \in Bearers \cup HolderSteps
  BY <1>2 DEF Bearers, HolderSteps
<1> QED
  BY <1>1, <1>2 DEF Steps

\* Nothing but steps counts in the account of blocks on their way back, and no plate
\* in hand in that of a credit.
LEMMA HandsCountNothing ==
  ASSUME Shape, NEW a, \A p \in Plates : HandWorth(a, p) = 0
  PROVE  /\ HandSum(a, "active", node) = 0 /\ HandSum(a, "secondary", secondary) = 0
         /\ HandSum(a, "plate", plate) = 0
<1>1. ASSUME NEW w \in HandPlaces, NEW f \in [Users -> Carried]
      PROVE  HandSum(a, w, f) = 0
  <2>1. \A x \in Slab!InHands(w, f) : HandW(a)[x] = 0
    BY HandsArePlaces DEF HandW
  <2> QED
    BY <2>1, SumOfZeros DEF HandSum
<1>2. /\ node \in [Users -> Carried] /\ secondary \in [Users -> Carried]
      /\ plate \in [Users -> Carried]
      /\ "active" \in HandPlaces /\ "secondary" \in HandPlaces /\ "plate" \in HandPlaces
  BY DEF Shape, ThreadTypes, HandPlaces
<1> QED
  BY <1>1, <1>2

LEMMA ReturningCounted ==
  ASSUME Shape
  PROVE  Slab!Cardinality({x \in Slab!StepsToDo : "block" \in DOMAIN x[3] /\ x[3].block # None})
            = Owned(Returning)
<1> DEFINE S == AllSteps(todo)
           W == StepW(Returning)
<1>1. IsFiniteSet(S)
  BY AllStepsFinite DEF Shape, ThreadTypes
<1>2. \A x \in S : W[x] = StepWorth(Returning, x[3]) /\ x[3] \in Steps
  BY AllStepsAre
<1>3. \A x \in S : W[x] = (IF "block" \in DOMAIN x[3] /\ x[3].block # None THEN 1 ELSE 0)
  <2> HIDE DEF S, W
  <2> QED
    BY <1>2, BlockMeansReturns DEF StepWorth, Returning
<1>4. StoreSum(Returning, stored) = 0
  <2>1. \A x \in AllQueues(stored) : StoreW(Returning)[x] = 0
    BY QueuesArePlaces, InQueue DEF Whole
  <2> QED
    BY <2>1, SumOfZeros DEF StoreSum
<1>5. /\ HandSum(Returning, "active", node) = 0 /\ HandSum(Returning, "secondary", secondary) = 0
      /\ HandSum(Returning, "plate", plate) = 0
  BY InHand, HandsCountNothing
<1>6. StepSum(Returning, todo) \in Nat
  BY AllStepsFinite DEF Shape, ThreadTypes
<1>7. Owned(Returning) = StepSum(Returning, todo)
  BY <1>4, <1>5, <1>6 DEF Owned, Loose
<1> HIDE DEF S, W
<1>8. SumOf(W, S) = Cardinality({x \in S : W[x] = 1})
  BY <1>1, <1>3, CountAsSum
<1>9. {x \in S : W[x] = 1} = {x \in S : "block" \in DOMAIN x[3] /\ x[3].block # None}
  BY <1>3
<1>10. Owned(Returning) = Cardinality({x \in S : "block" \in DOMAIN x[3] /\ x[3].block # None})
  BY <1>7, <1>8, <1>9 DEF StepSum, S, W
<1> QED
  BY <1>10, SlabCardinality, StepsToDoAre DEF S

\* A sum is that of the elements that count.
LEMMA SumOfPart ==
  ASSUME NEW S, IsFiniteSet(S), NEW W, \A x \in S : W[x] \in Nat,
         NEW T, T \subseteq S, \A x \in S \ T : W[x] = 0
  PROVE  SumOf(W, S) = SumOf(W, T) /\ SumOf(W, T) \in Nat
<1> DEFINE R == S \ T
<1>1. IsFiniteSet(T) /\ IsFiniteSet(R) /\ S = T \cup R /\ T \cap R = {}
  BY FS_Subset
<1>2. \A x \in R : W[x] = 0
  OBVIOUS
<1> HIDE DEF R
<1>3. SumOf(W, T \cup R) = SumOf(W, T) + SumOf(W, R) /\ SumOf(W, T) \in Nat
  <2>1. \A x \in T \cup R : W[x] \in Nat
    BY <1>1
  <2> QED
    BY <1>1, <2>1, SumOfBoth
<1>4. SumOf(W, R) = 0
  BY <1>2, SumOfZeros
<1> QED
  BY <1>1, <1>3, <1>4

KeptAt(h) == {x \in Slab!Placed : x[1] \in Slab!Stores /\ x[2][1] = h}
StoringAt(h) == {x \in Slab!StepsToDo : x[3].do = "push" /\ Slab!OwnerHome(x[3].on) = h}
OwingAt(h) == {x \in Slab!StepsToDo : x[3].do = "repay" /\ x[3].home = h}

LEMMA KeptCounted ==
  ASSUME Shape, NEW h
  PROVE  StoreSum(CreditOf(h), stored) = Slab!BlocksIn(KeptAt(h)) /\ Slab!BlocksIn(KeptAt(h)) \in Nat
<1> DEFINE S == AllQueues(stored)
           W == StoreW(CreditOf(h))
           T == {x \in S : x[2][1] = h}
<1>1. IsFiniteSet(S)
  BY QueuesArePlaces
<1>2. ASSUME NEW x \in S
      PROVE  /\ W[x] \in Nat /\ x[3] \in Plates /\ x[1] \in Slab!Stores
             /\ W[x] = (IF x[2][1] = h THEN Len(x[3].entries) ELSE 0)
  <2>1. /\ x \in Slab!Stores \X (AllHomes \X Nat) \X Plates /\ x[3].entries[1] = x[2][1]
        /\ W[x] = StoreWorth(CreditOf(h), x[3]) /\ W[x] \in Nat
    BY QueuesArePlaces
  <2>2. x[3] \in Plates /\ x[1] \in Slab!Stores
    BY <2>1
  <2>3. StoreWorth(CreditOf(h), x[3]) = (IF x[3].entries[1] = h THEN Len(x[3].entries) ELSE 0)
    BY <2>2, InQueue
  <2> QED
    BY <2>1, <2>2, <2>3
<1>3. KeptAt(h) = T
  <2> DEFINE A == Slab!InStores
             B == Slab!InHands("active", node)
             C == Slab!InHands("secondary", secondary)
             D == Slab!InHands("plate", plate)
             E == Slab!InSteps
  <2>1. Slab!Placed = (((A \cup B) \cup C) \cup D) \cup E /\ A = S
    BY InStoresAre DEF Slab!Placed
  <2>2. /\ \A x \in B : x[1] \notin Slab!Stores
        /\ \A x \in C : x[1] \notin Slab!Stores
        /\ \A x \in D : x[1] \notin Slab!Stores
        /\ \A x \in E : x[1] \notin Slab!Stores
    <3> HIDE DEF A, B, C, D, E
    <3>1. /\ \A x \in B : x[1] = "active" /\ x[3] \in Plates
          /\ \A x \in C : x[1] = "secondary" /\ x[3] \in Plates
          /\ \A x \in D : x[1] = "plate" /\ x[3] \in Plates
          /\ \A x \in E : x[1] = "todo" /\ x[3] \in Plates
      BY PlacesAre DEF B, C, D, E
    <3> QED
      BY <3>1 DEF Slab!Stores
  <2> HIDE DEF A, B, C, D, E, S
  <2>3. \A x \in S : x[1] \in Slab!Stores
    BY <1>2
  <2> QED
    BY <2>1, <2>2, <2>3 DEF KeptAt
<1> HIDE DEF S, W
<1>4. SumOf(W, S) = SumOf(W, T) /\ SumOf(W, T) \in Nat
  <2>1. T \subseteq S /\ (\A x \in S \ T : W[x] = 0) /\ \A x \in S : W[x] \in Nat
    BY <1>2
  <2> HIDE DEF T
  <2> QED
    BY <1>1, <2>1, SumOfPart
<1>5. Slab!BlocksIn(T) = SumOf(W, T)
  <2>1. \A x \in T : x[3] \in Plates /\ W[x] = Len(x[3].entries)
    BY <1>2
  <2> HIDE DEF T
  <2> QED
    BY <2>1, BlocksAsSum
<1> QED
  BY <1>3, <1>4, <1>5 DEF StoreSum, S, W

LEMMA DueCounted ==
  ASSUME Shape, NEW h
  PROVE  StepSum(CreditOf(h), todo)
            = Slab!Cardinality(UNION {{<<x, i>> : i \in 1..x[3].on.used} : x \in StoringAt(h)})
              + Slab!Cardinality(UNION {{<<x, i>> : i \in 1..x[3].bytes} : x \in OwingAt(h)})
         /\ Slab!Cardinality(UNION {{<<x, i>> : i \in 1..x[3].on.used} : x \in StoringAt(h)}) \in Nat
         /\ Slab!Cardinality(UNION {{<<x, i>> : i \in 1..x[3].bytes} : x \in OwingAt(h)}) \in Nat
<1> DEFINE S == AllSteps(todo)
           W == StepW(CreditOf(h))
           A == StoringAt(h)
           B == OwingAt(h)
<1>1. IsFiniteSet(S)
  BY AllStepsFinite DEF Shape, ThreadTypes
<1>2. \A x \in S : W[x] = StepWorth(CreditOf(h), x[3]) /\ W[x] \in Nat
  BY AllStepsAre
<1>3. A = {x \in S : x[3].do = "push" /\ x[3].on.entries[1] = h}
      /\ B = {x \in S : x[3].do = "repay" /\ x[3].home = h}
  BY StepsToDoAre DEF StoringAt, OwingAt, Slab!OwnerHome
<1> HIDE DEF S, W, A, B
<1>4. /\ \A x \in A : W[x] = x[3].on.used
      /\ \A x \in B : W[x] = x[3].bytes
      /\ \A x \in S \ (A \cup B) : W[x] = 0
  BY <1>2, <1>3 DEF StepWorth, CreditOf
<1>5. A \cap B = {} /\ A \subseteq S /\ B \subseteq S
  BY <1>3
<1>6. SumOf(W, S) = SumOf(W, A \cup B)
  BY <1>1, <1>2, <1>4, <1>5, SumOfPart
<1>7. SumOf(W, A \cup B) = SumOf(W, A) + SumOf(W, B) /\ SumOf(W, A) \in Nat /\ SumOf(W, B) \in Nat
  <2>1. IsFiniteSet(A) /\ IsFiniteSet(B)
    BY <1>1, <1>5, FS_Subset
  <2>2. \A x \in A \cup B : W[x] \in Nat
    BY <1>2, <1>5
  <2> QED
    BY <1>5, <2>1, <2>2, SumOfBoth
<1>8. UNION {{<<x, i>> : i \in 1..x[3].on.used} : x \in A} = Laid(W, A)
  <2>1. \A x \in A : {<<x, i>> : i \in 1..x[3].on.used} = {<<x, i>> : i \in 1..W[x]}
    BY <1>4
  <2> QED
    BY <2>1 DEF Laid
<1>9. UNION {{<<x, i>> : i \in 1..x[3].bytes} : x \in B} = Laid(W, B)
  <2>1. \A x \in B : {<<x, i>> : i \in 1..x[3].bytes} = {<<x, i>> : i \in 1..W[x]}
    BY <1>4
  <2> QED
    BY <2>1 DEF Laid
<1>10. /\ Slab!Cardinality(UNION {{<<x, i>> : i \in 1..x[3].on.used} : x \in A}) = SumOf(W, A)
       /\ Slab!Cardinality(UNION {{<<x, i>> : i \in 1..x[3].bytes} : x \in B}) = SumOf(W, B)
  BY <1>8, <1>9, SlabCardinality DEF SumOf
<1>11. StepSum(CreditOf(h), todo) = SumOf(W, A) + SumOf(W, B)
  BY <1>6, <1>7 DEF StepSum, S, W
<1> QED
  BY <1>7, <1>10, <1>11 DEF A, B

LEMMA CreditCounted ==
  ASSUME Shape, NEW h
  PROVE  Owned(CreditOf(h))
           = Slab!BlocksIn(KeptAt(h))
              + Slab!Cardinality(UNION {{<<x, i>> : i \in 1..x[3].on.used} : x \in StoringAt(h)})
              + Slab!Cardinality(UNION {{<<x, i>> : i \in 1..x[3].bytes} : x \in OwingAt(h)})
<1> DEFINE A == Slab!Cardinality(UNION {{<<x, i>> : i \in 1..x[3].on.used} : x \in StoringAt(h)})
           B == Slab!Cardinality(UNION {{<<x, i>> : i \in 1..x[3].bytes} : x \in OwingAt(h)})
<1>1. /\ HandSum(CreditOf(h), "active", node) = 0 /\ HandSum(CreditOf(h), "secondary", secondary) = 0
      /\ HandSum(CreditOf(h), "plate", plate) = 0
  BY InHand, HandsCountNothing
<1>2. StepSum(CreditOf(h), todo) \in Nat
  BY AllStepsFinite DEF Shape, ThreadTypes
<1>3. StepSum(CreditOf(h), todo) = A + B
  BY DueCounted
<1>4. StoreSum(CreditOf(h), stored) = Slab!BlocksIn(KeptAt(h)) /\ Slab!BlocksIn(KeptAt(h)) \in Nat
  BY KeptCounted
<1>5. A \in Nat /\ B \in Nat
  BY DueCounted
<1> DEFINE K == Slab!BlocksIn(KeptAt(h))
<1>6. Owned(CreditOf(h)) = (0 + 0 + 0 + StepSum(CreditOf(h), todo)) + StoreSum(CreditOf(h), stored)
  BY <1>1 DEF Owned, Loose
<1>7. Owned(CreditOf(h)) = (0 + 0 + 0 + (A + B)) + K /\ K \in Nat
  BY <1>3, <1>4, <1>6
<1> HIDE DEF A, B, K
<1>8. (0 + 0 + 0 + (A + B)) + K = K + A + B
  BY ONLY <1>5, <1>7
<1> QED
  BY <1>7, <1>8 DEF A, B, K

LEMMA PlatesTellTruth ==
  ASSUME Shape
  PROVE  Slab!CountsTellTruth(Slab!Placed) /\ Slab!NoCacheAfterShutdown
<1> DEFINE A == Slab!InStores
           B == Slab!InHands("active", node)
           C == Slab!InHands("secondary", secondary)
           D == Slab!InHands("plate", plate)
           E == Slab!InSteps
           Truth(x) == /\ x[1] # "active" => x[3].used = Len(x[3].entries)
                       /\ x[1] = "full" => x[3].used = Capacity
                       /\ x[1] = "partial" => x[3].used \in 1..(Capacity - 1)
                       /\ x[1] \in Slab!Stores => Slab!OwnerHome(x[3]) = x[2][1]
<1>1. Slab!Placed = (((A \cup B) \cup C) \cup D) \cup E
  BY DEF Slab!Placed
<1>2. ASSUME NEW t \in Users
      PROVE  Keeps(node[t], secondary[t], cursor[t], home[t], disabled[t], plate[t])
  BY DEF Shape, ThreadsKnown, Known
<1>3. /\ node \in [Users -> Carried] /\ secondary \in [Users -> Carried]
      /\ plate \in [Users -> Carried] /\ todo \in [Users -> Seq(Steps)]
      /\ "active" \in HandPlaces /\ "secondary" \in HandPlaces /\ "plate" \in HandPlaces
  BY DEF Shape, ThreadTypes, HandPlaces
<1>4. ASSUME NEW x \in A
      PROVE  Truth(x)
  <2>1. /\ x \in Slab!Stores \X (AllHomes \X Nat) \X Plates
        /\ x[3] \in Whole /\ x[3].used > 0 /\ x[3].entries[1] = x[2][1]
        /\ (x[1] = "full" <=> x[3].used = Capacity)
    BY QueuesArePlaces, InStoresAre
  <2>2. x[3].used = Len(x[3].entries) /\ x[3].used \in Nat /\ x[3].used <= Capacity
    <3>1. x[3] \in Plates /\ x[3].used = Len(x[3].entries)
      BY <2>1 DEF Whole
    <3> QED
      BY <3>1, PlateFacts
  <2>3. x[1] = "partial" => x[3].used \in 1..(Capacity - 1)
    BY <2>1, <2>2, SlabConstants
  <2>4. Slab!OwnerHome(x[3]) = x[2][1]
    BY <2>1 DEF Slab!OwnerHome
  <2>5. x[1] = "full" => x[3].used = Capacity
    BY <2>1
  <2> HIDE DEF A
  <2> QED
    BY <2>2, <2>3, <2>4, <2>5
<1>5. ASSUME NEW x \in B
      PROVE  Truth(x)
  <2>1. x[1] = "active"
    BY <1>3, HandsArePlaces
  <2> HIDE DEF B
  <2> QED
    BY <2>1 DEF Slab!Stores
<1>6. ASSUME NEW x \in C \cup D \cup E
      PROVE  Truth(x)
  <2>1. ASSUME x \in C
        PROVE  x[1] = "secondary" /\ x[3].used = Len(x[3].entries)
    <3>1. x \in HandPlaces \X Users \X Plates /\ x[1] = "secondary" /\ x[3] = secondary[x[2]]
      BY <1>3, <2>1, HandsArePlaces
    <3>2. x[2] \in Users /\ secondary[x[2]] \in Plates
      BY <3>1
    <3>3. secondary[x[2]] # None
      BY <3>2, PlateFacts
    <3>4. secondary[x[2]] \in Whole
      BY <1>2, <3>2, <3>3 DEF Keeps
    <3> QED
      BY <3>1, <3>4 DEF Whole
  <2>2. ASSUME x \in D
        PROVE  x[1] = "plate" /\ x[3].used = Len(x[3].entries)
    <3>1. x \in HandPlaces \X Users \X Plates /\ x[1] = "plate" /\ x[3] = plate[x[2]]
      BY <1>3, <2>2, HandsArePlaces
    <3>2. x[2] \in Users /\ plate[x[2]] \in Plates
      BY <3>1
    <3>3. plate[x[2]] # None
      BY <3>2, PlateFacts
    <3>4. plate[x[2]] \in Whole
      BY <1>2, <3>2, <3>3 DEF Keeps
    <3> QED
      BY <3>1, <3>4 DEF Whole
  <2>3. ASSUME x \in E
        PROVE  x[1] = "todo" /\ x[3].used = Len(x[3].entries)
    BY <2>3, StepsArePlaces DEF Whole
  <2> HIDE DEF C, D, E
  <2>4. x[1] \in {"secondary", "plate", "todo"} /\ x[3].used = Len(x[3].entries)
    BY <2>1, <2>2, <2>3
  <2> QED
    BY <2>4 DEF Slab!Stores
<1> HIDE DEF A, B, C, D, E
<1>7. \A x \in Slab!Placed : Truth(x)
  BY <1>1, <1>4, <1>5, <1>6
<1>8. ASSUME NEW t \in Users
      PROVE  /\ cursor[t] = IF node[t] = None THEN 0 ELSE Len(node[t].entries)
             /\ node[t] # None /\ Slab!Idle(t) => secondary[t].used \in {0, Slab!Half, Capacity}
             /\ disabled[t] => node[t] = None /\ secondary[t] = None
  BY <1>2 DEF Keeps, Half
<1>9. Slab!NoCacheAfterShutdown
  BY <1>8 DEF Slab!NoCacheAfterShutdown
<1>10. Slab!CountsTellTruth(Slab!Placed)
  BY <1>7, <1>8 DEF Slab!CountsTellTruth
<1> QED
  BY <1>9, <1>10

LEMMA KnownIsExact ==
  ASSUME SlabKnown
  PROVE  Slab!SlabInv
<1>1. Shape
  BY DEF SlabKnown
<1>2. /\ \A m \in Mappings : remaining[m] = empty[m] + Owned(PlatesOf(m))
      /\ free + SumOf(issued, AllHomes) + Owned(Entries) + Owned(Returning) = Blocks
      /\ \A h \in AllHomes : credit[h] = Owned(CreditOf(h)) /\ credit[h] <= Budget
  BY DEF SlabKnown, Books
<1>3. Slab!PlatesAccounted(Slab!Placed)
  <2> HIDE DEF Slab!Placed
  <2> QED
    BY <1>1, <1>2, PlatesCounted DEF Slab!PlatesAccounted
<1>4. Slab!BlocksConserved(Slab!Placed)
  <2>1. Slab!Cardinality(UNION {{<<h, i>> : i \in 1..issued[h]} : h \in AllHomes}) = SumOf(issued, AllHomes)
    BY SlabCardinality DEF SumOf, Laid
  <2>2. Slab!Cardinality({x \in Slab!StepsToDo : "block" \in DOMAIN x[3] /\ x[3].block # None}) = Owned(Returning)
    BY <1>1, ReturningCounted
  <2>3. Slab!BlocksIn(Slab!Placed) = Owned(Entries)
    BY <1>1, BlocksCounted
  <2>4. free \in Nat /\ SumOf(issued, AllHomes) \in Nat /\ Owned(Returning) \in Nat /\ Owned(Entries) \in Nat
    BY <1>1, OwnedType, IssuedType DEF Shape, SharedTypes
  <2>5. free + SumOf(issued, AllHomes) + Owned(Returning) + Owned(Entries) = Blocks
    <3> DEFINE F == free
               I == SumOf(issued, AllHomes)
               R == Owned(Returning)
               E == Owned(Entries)
    <3>1. F \in Nat /\ I \in Nat /\ R \in Nat /\ E \in Nat /\ F + I + E + R = Blocks
      BY <1>2, <2>4
    <3> HIDE DEF F, I, R, E
    <3>2. F + I + R + E = Blocks
      BY ONLY <3>1
    <3> QED
      BY <3>2 DEF F, I, R, E
  <2> QED
    BY <2>1, <2>2, <2>3, <2>5 DEF Slab!BlocksConserved, AllHomes
<1>5. Slab!CreditsExact(Slab!Placed)
  <2>1. ASSUME NEW h \in AllHomes
        PROVE  /\ credit[h] = Slab!BlocksIn(KeptAt(h))
                 + Slab!Cardinality(UNION {{<<x, i>> : i \in 1..x[3].on.used} : x \in StoringAt(h)})
                 + Slab!Cardinality(UNION {{<<x, i>> : i \in 1..x[3].bytes} : x \in OwingAt(h)})
               /\ credit[h] <= Budget
    BY <1>1, <1>2, CreditCounted
  <2> QED
    BY <2>1 DEF Slab!CreditsExact, AllHomes, KeptAt, StoringAt, OwingAt
<1>6. Slab!CountsTellTruth(Slab!Placed) /\ Slab!NoCacheAfterShutdown
  BY <1>1, PlatesTellTruth
<1> QED
  BY <1>3, <1>4, <1>5, <1>6 DEF Slab!SlabInv

-----------------------------------------------------------------------------
(* The allocator as a whole. *)

LEMMA SlabStarts == Slab!Init => SlabKnown
<1> SUFFICES ASSUME Slab!Init
             PROVE  SlabKnown
  OBVIOUS
<1>1. /\ free = Blocks /\ issued = [h \in AllHomes |-> 0]
      /\ stored = [s \in Slab!Stores |-> [h \in AllHomes |-> Slab!NoPlates]]
      /\ empty = [m \in Mappings |-> 0] /\ remaining = [m \in Mappings |-> 0]
      /\ credit = [h \in AllHomes |-> 0]
      /\ node = [t \in Users |-> None] /\ secondary = [t \in Users |-> None]
      /\ cursor = [t \in Users |-> 0] /\ home = [t \in Users |-> None]
      /\ disabled = [t \in Users |-> FALSE]
      /\ todo = [t \in Users |-> <<>>] /\ plate = [t \in Users |-> None]
  BY DEF Slab!Init, AllHomes
<1>2. SharedTypes
  BY <1>1, SlabConstants DEF SharedTypes
<1>3. ThreadTypes
  BY <1>1 DEF ThreadTypes, Carried
<1>4. Slab!NoPlates \in Bundles /\ DOMAIN Slab!NoPlates = {}
  <2> DEFINE b == Slab!NoPlates
  <2>1. b \in [{} -> Nat \ {0}] /\ DOMAIN b = {}
    BY DEF Slab!NoPlates
  <2> HIDE DEF b
  <2>2. {} \in SUBSET Whole /\ IsFiniteSet({})
    BY FS_EmptySet
  <2>3. b \in Bundles
    BY <2>1, <2>2, IsBundle
  <2> QED
    BY <2>1, <2>3 DEF b
<1>5. StoreKnown
  <2> DEFINE b == Slab!NoPlates
  <2>1. stored = [s \in Slab!Stores |-> [h \in AllHomes |-> b]] /\ b \in Bundles /\ DOMAIN b = {}
    BY <1>1, <1>4
  <2> HIDE DEF b
  <2> QED
    BY <2>1 DEF StoreKnown
<1>6. ThreadsKnown
  <2>1. ASSUME NEW t \in Users
        PROVE  Known(node[t], secondary[t], cursor[t], home[t], disabled[t], plate[t], todo[t])
    <3>1. Keeps(None, None, 0, None, FALSE, None)
      BY DEF Keeps
    <3>2. <<>> \in Seq(Steps) /\ AfterErrands(<<>>, None, None, None, FALSE, None)
      BY DEF AfterErrands
    <3>3. Known(None, None, 0, None, FALSE, None, <<>>)
      BY <3>1, <3>2, IsKnownAtOnce
    <3> QED
      BY <1>1, <3>3
  <2> QED
    BY <2>1 DEF ThreadsKnown
<1>7. ASSUME NEW a
      PROVE  Owned(a) = 0
  <2>1. /\ Slab!InHands("active", node) = {} /\ Slab!InHands("secondary", secondary) = {}
        /\ Slab!InHands("plate", plate) = {}
    BY <1>1 DEF Slab!InHands
  <2>2. AllSteps(todo) = {}
    BY <1>1 DEF AllSteps, StepsOf
  <2>3. AllQueues(stored) = {}
    <3>1. \A k \in Slab!Stores, h \in AllHomes : DOMAIN stored[k][h] = {}
      BY <1>1, <1>4
    <3>2. \A x \in Slab!Stores \X AllHomes : QueueOf(x[1], x[2], stored[x[1]][x[2]]) = {}
      BY <3>1 DEF QueueOf
    <3> QED
      BY <3>2 DEF AllQueues
  <2>4. /\ HandSum(a, "active", node) = 0 /\ HandSum(a, "secondary", secondary) = 0
        /\ HandSum(a, "plate", plate) = 0 /\ StepSum(a, todo) = 0 /\ StoreSum(a, stored) = 0
    BY <2>1, <2>2, <2>3, SumOfNone DEF HandSum, StepSum, StoreSum
  <2> QED
    BY <2>4 DEF Owned, Loose
<1>8. SumOf(issued, AllHomes) = 0
  BY <1>1, SumOfZeros
<1>9. Books
  BY <1>1, <1>7, <1>8, SlabConstants DEF Books
<1> QED
  BY <1>2, <1>3, <1>5, <1>6, <1>9 DEF SlabKnown, Shape

LEMMA SlabKept == SlabKnown /\ [Slab!Next]_Slab!vars => SlabKnown'
<1> SUFFICES ASSUME SlabKnown, [Slab!Next]_Slab!vars
             PROVE  SlabKnown'
  OBVIOUS
<1>1. CASE UNCHANGED Slab!vars
  <2>1. /\ UNCHANGED <<free, issued, stored, empty, credit, remaining>>
        /\ UNCHANGED <<node, secondary, cursor, home, disabled, todo, plate>>
    BY <1>1 DEF Slab!vars, Slab!layer1, Slab!layer2
  <2>2. Shape'
    BY <2>1 DEF SlabKnown, Shape, SharedTypes, ThreadTypes, StoreKnown, ThreadsKnown
  <2>3. \A a : Owned(a)' = Owned(a)
    BY <2>1 DEF Owned, Loose
  <2>4. Books'
    BY <2>1, <2>3 DEF SlabKnown, Books
  <2> QED
    BY <2>2, <2>4 DEF SlabKnown
<1>2. ASSUME NEW t \in Users,
             \/ Slab!PopEmpty(t) \/ Slab!MapPlates(t) \/ Slab!PushEmpty(t)
             \/ Slab!Reserve(t) \/ Slab!Push(t) \/ Slab!RepayCredit(t) \/ Slab!Drain(t)
             \/ Slab!SeekFull(t) \/ Slab!SeekPartial(t) \/ Slab!Fill(t) \/ Slab!Refill(t)
             \/ Slab!Release(t)
      PROVE  SlabKnown'
  BY <1>2, PopEmptyKeeps, MapPlatesKeeps, PushEmptyKeeps, ReserveKeeps, PushKeeps,
     RepayCreditKeeps, DrainKeeps, SeekFullKeeps, SeekPartialKeeps, FillKeeps, RefillKeeps,
     ReleaseKeeps
<1>3. ASSUME NEW t \in Users,
             \/ Slab!GotActive(t) \/ Slab!GotSecondary(t) \/ Slab!Failed(t)
             \/ Slab!Install(t) \/ Slab!Direct(t) \/ Slab!GotEmpty(t) \/ Slab!MakeRoom(t)
             \/ Slab!Place(t)
      PROVE  SlabKnown'
  BY <1>3, GotActiveKeeps, GotSecondaryKeeps, FailedKeeps, InstallKeeps, DirectKeeps,
     GotEmptyKeeps, MakeRoomKeeps, PlaceKeeps
<1>4. ASSUME NEW t \in Users,
             \/ Slab!AllocateCached(t) \/ Slab!AllocateSwapping(t) \/ Slab!AllocateRefilling(t)
             \/ Slab!AllocateInitializing(t) \/ Slab!AllocateDirectly(t) \/ Slab!Shutdown(t)
      PROVE  SlabKnown'
  BY <1>4, AllocateCachedKeeps, AllocateSwappingKeeps, AllocateRefillingKeeps,
     AllocateInitializingKeeps, AllocateDirectlyKeeps, ShutdownKeeps
<1>5. ASSUME NEW t \in Users, NEW b \in Slab!Returnable,
             \/ Slab!DeallocateCached(t, b) \/ Slab!DeallocateSwapping(t, b)
             \/ Slab!DeallocateReleasing(t, b) \/ Slab!DeallocateInitializing(t, b)
             \/ Slab!DeallocateDirectly(t, b)
      PROVE  SlabKnown'
  BY <1>5, DeallocateCachedKeeps, DeallocateSwappingKeeps, DeallocateReleasingKeeps,
     DeallocateInitializingKeeps, DeallocateDirectlyKeeps
<1>6. CASE Slab!Next
  BY <1>2, <1>3, <1>4, <1>5, <1>6 DEF Slab!Next, Slab!Step, Slab!Begin
<1> QED
  BY <1>1, <1>6

\* The plates of a mapping, the blocks and the credit of a home are where the allocator's
\* counters say they are, whatever its threads are in the middle of, for any numbers of
\* them all; no plate is left to a thread that has handed its caches back.
THEOREM SlabStaysExact == Slab!Spec => []Slab!SlabInv
<1>1. SlabKnown => Slab!SlabInv
  BY KnownIsExact
<1> QED
  BY <1>1, SlabStarts, SlabKept, PTL DEF Slab!Spec
=============================================================================
