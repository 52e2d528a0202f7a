------------------------- MODULE RegionClassProofs -------------------------
(***************************************************************************)
(* Proofs about RegionClass, for any finite set of threads, any controls   *)
(* and regions, and any sizes of regions and plates.                       *)
(***************************************************************************)
EXTENDS RegionClass, FiniteSetTheorems, SequenceTheorems, TLAPS

\* Where a thread reads the control's region, where it has claimed the control, and
\* where the readers have left besides.
SharedPlaces == {"look", "load", "claim", "scanned", "unshare",
                 "clear", "raise", "scanEmpty", "leave", "leaveEmpty"}
AlonePlaces == {"testFull", "attach", "publish", "unclaim", "testRetire", "giveBack"}
ClaimedPlaces == AlonePlaces \cup {"drainFull", "drainAttach", "drainRetire"}

\* Where it works on a region that must stay attached meanwhile.
RegionPlaces == {"load", "claim", "scanned", "clear", "raise", "scanEmpty"}

Readers(c) == {t \in Threads : at[t] \in SharedPlaces /\ control[t] = c}

\* The semaphores say who has access.
AccessKnown ==
    /\ \A c \in Controls : readers[c] = Cardinality(Readers(c))
    /\ \A t \in Threads : at[t] \in ClaimedPlaces => exclusive[control[t]]
    /\ \A t, u \in Threads :
          at[t] \in ClaimedPlaces /\ at[u] \in ClaimedPlaces /\ control[t] = control[u] => t = u
    /\ \A t, u \in Threads :
          at[t] \in AlonePlaces /\ at[u] \in SharedPlaces => control[t] # control[u]

\* What a thread knows of its control, region and plate at each place.
CallKnown(t) ==
    /\ at[t] \notin {"out", "select", "controls"} => control[t] \in Controls
    /\ at[t] = "out" => cache[t] = {}
    /\ at[t] \in RefillPlaces \cup {"unclaim"}
          => IsFiniteSet(cache[t]) /\ Cardinality(cache[t]) <= PlateSize
    /\ at[t] = "claim" => Cardinality(cache[t]) < PlateSize /\ word[t] <= SlotCount
    /\ at[t] \in {"access", "clear"} => cache[t] # {} /\ \A s \in cache[t] : s[1] = region[t]
    /\ at[t] = "access" => region[t] \in Regions /\ controlOf[region[t]] = control[t]
    /\ at[t] \in RegionPlaces => region[t] \in Regions /\ regionOf[control[t]] = region[t]
    /\ at[t] = "publish" => /\ region[t] \in Regions /\ controlOf[region[t]] = control[t]
                            /\ regionOf[control[t]] = None

CallsKnown == \A t \in Threads : CallKnown(t)

Hand(t) == at[t] \in {"publish", "giveBack"} /\ region[t] # None

\* A region is attached to one control, in one thread's hand, or in layer 4.
RegionsApart ==
    /\ \A c \in Controls : regionOf[c] # None =>
          /\ regionOf[c] \notin free /\ controlOf[regionOf[c]] = c
          /\ \A t \in Threads : Hand(t) => region[t] # regionOf[c]
    /\ \A t \in Threads : Hand(t) => region[t] \notin free
    /\ \A t, u \in Threads : Hand(t) /\ Hand(u) /\ region[t] = region[u] => t = u
    /\ \A r \in Regions : \/ r \in free \/ \E c \in Controls : regionOf[c] = r
                          \/ \E t \in Threads : Hand(t) /\ region[t] = r

NoneTwice(s) == \A i, j \in DOMAIN s : s[i] = s[j] => i = j

\* The lists, each holding a control once.
ListsKnown ==
    /\ NoneTwice(available) /\ NoneTwice(detached)
    /\ \A c \in Controls :
          /\ c \in ToSet(available) <=> regionOf[c] # None /\ flag[regionOf[c]]
          /\ c \in issued <=> regionOf[c] # None /\ ~flag[regionOf[c]]
          /\ c \in ToSet(detached) => regionOf[c] = None

IInv == /\ TypeOK /\ CallsKnown /\ AccessKnown /\ SlotsAccounted /\ OwnedSlotsAttached
        /\ RegionsApart /\ ListsKnown /\ FreeSlotsAreFound

\* A step is some thread's.
StepOf(t) ==
    \/ Refill(t) \/ RefillStep(t) \/ ReturnStep(t) \/ Unclaim(t)
    \/ \E r \in Regions : ReturnBatch(t, r)

-----------------------------------------------------------------------------
(* Lists. *)

LEMMA UnlinkedIs ==
  ASSUME NEW V, NEW s \in Seq(V), NoneTwice(s), NEW c
  PROVE  /\ Unlinked(s, c) \in Seq(V) /\ NoneTwice(Unlinked(s, c))
         /\ ToSet(Unlinked(s, c)) = ToSet(s) \ {c}
<1>1. CASE \A i \in DOMAIN s : s[i] # c
  BY <1>1 DEF Unlinked, ToSet
<1>2. CASE \E i \in DOMAIN s : s[i] = c
  <2> DEFINE k == CHOOSE i \in DOMAIN s : s[i] = c
             u == RemoveAt(s, k)
  <2>1. k \in DOMAIN s /\ s[k] = c
    BY <1>2
  <2>2. Unlinked(s, c) = u
    BY <1>2 DEF Unlinked
  <2> HIDE DEF k
  <2>3. Len(s) \in Nat /\ k \in 1..Len(s) /\ DOMAIN s = 1..Len(s)
    BY <2>1
  <2> DEFINE l == SubSeq(s, 1, k - 1)
             r == SubSeq(s, k + 1, Len(s))
  <2>4. l \in Seq(V) /\ Len(l) = k - 1 /\ \A i \in 1..k - 1 : l[i] = s[i]
    <3>1. \A i \in 1..k - 1 : s[i] \in V
      BY <2>3
    <3> QED
      BY <2>3, <3>1, SubSeqProperties
  <2>5. r \in Seq(V) /\ Len(r) = Len(s) - k /\ \A i \in 1..Len(s) - k : r[i] = s[k + i]
    <3>1. \A i \in k + 1..Len(s) : s[i] \in V
      BY <2>3
    <3>0. Len(r) = IF k + 1 <= Len(s) THEN Len(s) - (k + 1) + 1 ELSE 0
      BY <2>3, <3>1, SubSeqProperties
    <3>2. /\ r \in Seq(V)
          /\ \A i \in 1..Len(s) - (k + 1) + 1 : r[i] = s[k + 1 + i - 1]
      BY <2>3, <3>1, SubSeqProperties
    <3> HIDE DEF r
    <3>3. Len(r) = Len(s) - k
      <4>0. k \in Int /\ Len(s) \in Int /\ k <= Len(s)
        BY <2>3
      <4>1. CASE ~(k + 1 <= Len(s))
        BY <3>0, <4>0, <4>1
      <4>2. CASE k + 1 <= Len(s)
        <5>1. Len(r) = Len(s) - (k + 1) + 1
          BY <3>0, <4>2
        <5> QED
          BY <2>3, <5>1
      <4> QED
        BY <4>1, <4>2
    <3>4. ASSUME NEW i \in 1..Len(s) - k PROVE r[i] = s[k + i]
      <4>1. i \in 1..Len(s) - (k + 1) + 1 /\ k + 1 + i - 1 = k + i
        BY <2>3
      <4> QED
        BY <3>2, <4>1
    <3> QED
      BY <3>2, <3>3, <3>4
  <2>6. /\ u \in Seq(V) /\ Len(u) = Len(s) - 1
        /\ \A i \in 1..Len(s) - 1 : u[i] = IF i < k THEN s[i] ELSE s[i + 1]
    <3>1. u = l \o r
      BY DEF RemoveAt
    <3> HIDE DEF l, r, u
    <3>2. /\ u \in Seq(V) /\ Len(u) = Len(s) - 1
          /\ \A i \in 1..Len(s) - 1 : u[i] = IF i <= k - 1 THEN l[i] ELSE r[i - (k - 1)]
      <4>1. /\ u \in Seq(V) /\ Len(u) = Len(l) + Len(r)
            /\ \A i \in 1..Len(l) + Len(r) : u[i] = IF i <= Len(l) THEN l[i] ELSE r[i - Len(l)]
        BY <2>4, <2>5, <3>1, ConcatProperties
      <4>2. Len(l) + Len(r) = Len(s) - 1
        BY <2>3, <2>4, <2>5
      <4> QED
        BY <2>4, <4>1, <4>2
    <3>3. ASSUME NEW i \in 1..Len(s) - 1 PROVE u[i] = IF i < k THEN s[i] ELSE s[i + 1]
      <4>1. CASE i < k
        BY <2>3, <2>4, <3>2, <4>1
      <4>2. CASE ~(i < k)
        <5>1. i - (k - 1) \in 1..Len(s) - k /\ k + (i - (k - 1)) = i + 1 /\ ~(i <= k - 1)
          BY <2>3, <4>2
        <5> QED
          BY <2>5, <3>2, <4>2, <5>1
      <4> QED
        BY <4>1, <4>2
    <3> QED
      BY <3>2, <3>3
  <2> HIDE DEF u
  <2>7. /\ \A i \in 1..Len(s) - 1 : DOMAIN u = 1..Len(s) - 1
        /\ \A i \in 1..Len(s) - 1 : (i < k /\ u[i] = s[i]) \/ (i + 1 > k /\ u[i] = s[i + 1])
        /\ \A i \in 1..Len(s) - 1 : i \in 1..Len(s) /\ i + 1 \in 1..Len(s)
    BY <2>3, <2>6
  <2>8. ASSUME NEW i \in 1..Len(s), s[i] # c PROVE \E j \in 1..Len(s) - 1 : u[j] = s[i]
    <3>1. CASE i < k
      <4>1. i \in 1..Len(s) - 1 /\ u[i] = s[i]
        BY <2>3, <2>6, <3>1
      <4> QED
        BY <4>1
    <3>2. CASE i > k
      <4>1. i - 1 \in 1..Len(s) - 1 /\ ~(i - 1 < k) /\ (i - 1) + 1 = i
        BY <2>3, <3>2
      <4>2. u[i - 1] = s[i]
        BY <2>6, <4>1
      <4> QED
        BY <4>1, <4>2
    <3> QED
      BY <2>1, <2>3, <2>8, <3>1, <3>2
  <2>9. ASSUME NEW j \in 1..Len(s) - 1
        PROVE  u[j] # c /\ \E i \in 1..Len(s) : u[j] = s[i]
    <3>1. CASE j < k /\ u[j] = s[j]
      BY <2>1, <2>3, <2>7, <3>1 DEF NoneTwice
    <3>2. CASE j + 1 > k /\ u[j] = s[j + 1]
      <4>1. j + 1 \in 1..Len(s) /\ j + 1 # k
        BY <2>3, <2>7, <3>2
      <4>2. s[j + 1] # s[k]
        BY <2>3, <4>1 DEF NoneTwice
      <4> QED
        BY <2>1, <3>2, <4>1, <4>2
    <3> QED
      BY <2>7, <3>1, <3>2
  <2>10. NoneTwice(u)
    <3> SUFFICES ASSUME NEW i \in 1..Len(s) - 1, NEW j \in 1..Len(s) - 1, u[i] = u[j]
                 PROVE  i = j
      BY <2>7, <2>6 DEF NoneTwice
    <3> DEFINE old(x) == IF x < k THEN x ELSE x + 1
    <3>1. /\ old(i) \in 1..Len(s) /\ old(j) \in 1..Len(s)
          /\ u[i] = s[old(i)] /\ u[j] = s[old(j)]
      BY <2>3, <2>6
    <3> HIDE DEF old
    <3>2. old(i) = old(j)
      BY <2>3, <3>1 DEF NoneTwice
    <3> QED
      BY <2>3, <3>2 DEF old
  <2>11. DOMAIN u = 1..Len(s) - 1
    BY <2>3, <2>6
  <2>12. ToSet(u) = ToSet(s) \ {c}
    <3>1. ToSet(u) = {u[j] : j \in 1..Len(s) - 1} /\ ToSet(s) = {s[i] : i \in 1..Len(s)}
      BY <2>3, <2>11 DEF ToSet
    <3> QED
      BY <2>8, <2>9, <3>1
  <2> QED
    BY <2>2, <2>6, <2>10, <2>12
<1> QED
  BY <1>1, <1>2

LEMMA Added ==
  ASSUME NEW V, NEW s \in Seq(V), NoneTwice(s), NEW c \in V, c \notin ToSet(s)
  PROVE  /\ <<c>> \o s \in Seq(V) /\ NoneTwice(<<c>> \o s) /\ ToSet(<<c>> \o s) = ToSet(s) \cup {c}
         /\ s \o <<c>> \in Seq(V) /\ NoneTwice(s \o <<c>>) /\ ToSet(s \o <<c>>) = ToSet(s) \cup {c}
         /\ Append(s, c) = s \o <<c>>
<1>1. Len(s) \in Nat /\ DOMAIN s = 1..Len(s) /\ \A i \in 1..Len(s) : s[i] \in V /\ s[i] # c
  BY DEF ToSet
<1> DEFINE f == <<c>> \o s
           b == s \o <<c>>
<1>2. /\ f \in Seq(V) /\ Len(f) = Len(s) + 1 /\ f[1] = c
      /\ \A i \in 1..Len(s) : f[i + 1] = s[i]
      /\ \A i \in 2..Len(s) + 1 : f[i] = s[i - 1]
  BY <1>1
<1>3. /\ b \in Seq(V) /\ Len(b) = Len(s) + 1 /\ b[Len(s) + 1] = c
      /\ \A i \in 1..Len(s) : b[i] = s[i]
  BY <1>1
<1>4. Append(s, c) = b
  BY <1>1
<1> HIDE DEF f, b
<1>5. NoneTwice(f) /\ NoneTwice(b)
  <2>1. NoneTwice(f)
    <3> SUFFICES ASSUME NEW i \in 1..Len(s) + 1, NEW j \in 1..Len(s) + 1, f[i] = f[j]
                 PROVE  i = j
      BY <1>1, <1>2 DEF NoneTwice
    <3>1. CASE i = 1 \/ j = 1
      BY <1>1, <1>2, <3>1
    <3>2. CASE i # 1 /\ j # 1
      <4>1. i - 1 \in 1..Len(s) /\ j - 1 \in 1..Len(s) /\ s[i - 1] = s[j - 1]
        BY <1>1, <1>2, <3>2
      <4>2. i - 1 = j - 1
        BY <1>1, <4>1 DEF NoneTwice
      <4> QED
        BY <1>1, <4>2
    <3> QED
      BY <3>1, <3>2
  <2>2. NoneTwice(b)
    BY <1>1, <1>3 DEF NoneTwice
  <2> QED
    BY <2>1, <2>2
<1>6. ToSet(f) = ToSet(s) \cup {c}
  <2>1. \A i \in 1..Len(s) + 1 : f[i] = c \/ \E j \in 1..Len(s) : f[i] = s[j]
    <3> SUFFICES ASSUME NEW i \in 1..Len(s) + 1, i # 1 PROVE \E j \in 1..Len(s) : f[i] = s[j]
      BY <1>2
    <3>1. i - 1 \in 1..Len(s) /\ f[i] = s[i - 1]
      BY <1>1, <1>2
    <3> QED
      BY <3>1
  <2>2. \A j \in 1..Len(s) : j + 1 \in 1..Len(s) + 1 /\ f[j + 1] = s[j]
    BY <1>1, <1>2
  <2>3. 1 \in 1..Len(s) + 1 /\ f[1] = c /\ DOMAIN f = 1..Len(s) + 1
    BY <1>1, <1>2
  <2>4. ToSet(f) = {f[i] : i \in 1..Len(s) + 1} /\ ToSet(s) = {s[i] : i \in 1..Len(s)}
    BY <1>1, <2>3 DEF ToSet
  <2> QED
    BY <2>1, <2>2, <2>3, <2>4
<1>7. ToSet(b) = ToSet(s) \cup {c}
  <2>1. DOMAIN b = 1..Len(s) + 1 /\ Len(s) + 1 \in 1..Len(s) + 1 /\ \A i \in 1..Len(s) : i \in 1..Len(s) + 1
    BY <1>1, <1>3
  <2>2. \A i \in 1..Len(s) + 1 : i = Len(s) + 1 \/ i \in 1..Len(s)
    BY <1>1
  <2> QED
    BY <1>1, <1>3, <2>1, <2>2 DEF ToSet
<1> QED
  BY <1>2, <1>3, <1>4, <1>5, <1>6, <1>7 DEF f, b

\* What a control's move does to the lists.
ListsTyped(a, d, i) == a \in Seq(Controls) /\ d \in Seq(Controls) /\ i \subseteq Controls
                       /\ NoneTwice(a) /\ NoneTwice(d)

LEMMA Moves ==
  ASSUME ListsTyped(available, detached, issued), NEW c \in Controls
  PROVE  /\ ToFront(c) \/ ToBack(c) =>
               /\ ListsTyped(available', detached', issued')
               /\ ToSet(available') = ToSet(available) \cup {c}
               /\ ToSet(detached') = ToSet(detached) \ {c} /\ issued' = issued \ {c}
         /\ ToIssued(c) =>
               /\ ListsTyped(available', detached', issued')
               /\ ToSet(available') = ToSet(available) \ {c}
               /\ ToSet(detached') = ToSet(detached) \ {c} /\ issued' = issued \cup {c}
         /\ ToDetached(c) =>
               /\ ListsTyped(available', detached', issued')
               /\ ToSet(available') = ToSet(available) \ {c}
               /\ ToSet(detached') = ToSet(detached) \cup {c} /\ issued' = issued \ {c}
<1> DEFINE a == Unlinked(available, c)
           d == Unlinked(detached, c)
<1>1. /\ a \in Seq(Controls) /\ NoneTwice(a) /\ ToSet(a) = ToSet(available) \ {c}
      /\ d \in Seq(Controls) /\ NoneTwice(d) /\ ToSet(d) = ToSet(detached) \ {c}
  BY UnlinkedIs DEF ListsTyped
<1>2. /\ ToFront(c) => available' = <<c>> \o a /\ detached' = d
      /\ ToBack(c) => available' = a \o <<c>> /\ detached' = d
      /\ ToIssued(c) => available' = a /\ detached' = d
      /\ ToDetached(c) => available' = a /\ detached' = d \o <<c>>
  BY DEF ToFront, ToBack, ToIssued, ToDetached
<1>3. /\ ToFront(c) \/ ToBack(c) => issued' = issued \ {c}
      /\ ToIssued(c) => issued' = issued \cup {c}
      /\ ToDetached(c) => issued' = issued \ {c}
      /\ issued \subseteq Controls
  BY DEF ToFront, ToBack, ToIssued, ToDetached, ListsTyped
<1> HIDE DEF a, d
<1>4. /\ <<c>> \o a \in Seq(Controls) /\ NoneTwice(<<c>> \o a)
      /\ ToSet(<<c>> \o a) = ToSet(available) \cup {c}
      /\ a \o <<c>> \in Seq(Controls) /\ NoneTwice(a \o <<c>>)
      /\ ToSet(a \o <<c>>) = ToSet(available) \cup {c}
  BY <1>1, Added
<1>5. /\ d \o <<c>> \in Seq(Controls) /\ NoneTwice(d \o <<c>>)
      /\ ToSet(d \o <<c>>) = ToSet(detached) \cup {c}
  BY <1>1, Added
<1> QED
  BY <1>1, <1>2, <1>3, <1>4, <1>5 DEF ListsTyped

-----------------------------------------------------------------------------
(* Types and locals. *)

Typed ==
    /\ regionOf \in [Controls -> Regions \cup {None}]
    /\ controlOf \in [Regions -> Controls \cup {None}]
    /\ flag \in [Regions -> BOOLEAN] /\ exclusive \in [Controls -> BOOLEAN]
    /\ readers \in [Controls -> Int]
    /\ bits \subseteq Slots /\ out \subseteq Slots /\ free \subseteq Regions
    /\ at \in [Threads -> {"out", "unclaim"} \cup RefillPlaces \cup ReturnPlaces]
    /\ control \in [Threads -> Controls \cup {None}]
    /\ region \in [Threads -> Regions \cup {None}]
    /\ cache \in [Threads -> SUBSET Slots]
    /\ word \in [Threads -> 1..SlotCount + 1]
    /\ initial \in [Threads -> 0..PlateSize]

LEMMA TypesAre == TypeOK => Typed /\ available \in Seq(Controls) /\ detached \in Seq(Controls)
                            /\ issued \subseteq Controls
<1> SUFFICES ASSUME TypeOK
             PROVE  Typed /\ available \in Seq(Controls) /\ detached \in Seq(Controls)
                    /\ issued \subseteq Controls
  OBVIOUS
<1>1. Cardinality(Threads) \in Nat
  BY ConstantTypes, FS_CardinalityType
<1>2. readers \in [Controls -> Int]
  BY <1>1 DEF TypeOK
<1> QED
  BY <1>2 DEF TypeOK, Typed

LEMMA TypedKept ==
  ASSUME IInv, NEW t \in Threads, StepOf(t)
  PROVE  Typed'
<1>1. Typed
  BY TypesAre DEF IInv
<1>2. CallKnown(t)
  BY DEF IInv, CallsKnown
<1> USE <1>1 DEF Typed, Set, Goto, RefillPlaces, ReturnPlaces, lists, attachment, semaphore, locals
<1>3. CASE Refill(t)
  BY <1>3, ConstantTypes DEF Refill
<1>4. CASE RefillDone(t)
  BY <1>4, ConstantTypes DEF RefillDone, End
<1>5. CASE Select(t)
  <2>1. /\ \A i \in DOMAIN available : available[i] \in Controls
        /\ detached # <<>> => Head(detached) \in Controls
    BY TypesAre DEF IInv
  <2> QED
    BY <1>5, <2>1 DEF Select
<1>6. CASE ControlsFail(t)
  BY <1>6, ConstantTypes DEF ControlsFail, End
<1>7. CASE TryShared(t, "share", "look", "select")
  BY <1>2, <1>7, ConstantTypes DEF TryShared, CallKnown
<1>8. CASE Access(t)
  BY <1>2, <1>8, ConstantTypes DEF Access, TryShared, CallKnown
<1>9. CASE Look(t)
  <2>1. control[t] \in Controls /\ Cardinality(cache[t]) \in 0..PlateSize
    BY <1>2, <1>9, ConstantTypes, FS_CardinalityType DEF Look, CallKnown
  <2> QED
    BY <1>9, <2>1, ConstantTypes DEF Look
<1>10. CASE LoadWord(t)
  BY <1>10, ConstantTypes DEF LoadWord
<1>11. CASE Claim(t)
  BY <1>2, <1>11, ConstantTypes DEF Claim, CallKnown, Slot, Slots, RegionPlaces
<1>12. CASE Scanned(t)
  BY <1>12, ConstantTypes DEF Scanned
<1>13. CASE (\E to \in {"tryFull", "select", "tryRetire"} : \E from \in {"unshare", "leaveEmpty"} : ReleaseShared(t, from, to))
  BY <1>2, <1>13, ConstantTypes DEF ReleaseShared, CallKnown
<1>14. CASE (\E from \in {"tryFull", "tryAttach", "tryRetire"} : \E to \in {"drainFull", "drainAttach", "drainRetire"} : \E other \in {"select", "tryRetire"} : ClaimExclusive(t, from, to, other))
  <2>1. at[t] \in {"tryFull", "tryAttach", "tryRetire"} /\ control[t] \in Controls
    BY <1>2, <1>14 DEF ClaimExclusive, CallKnown
  <2>2. at' \in [Threads -> {"out", "unclaim"} \cup RefillPlaces \cup ReturnPlaces]
    BY <1>14 DEF ClaimExclusive
  <2>3. exclusive' \in [Controls -> BOOLEAN]
    BY <1>14, <2>1 DEF ClaimExclusive
  <2> QED
    BY <1>14, <2>2, <2>3 DEF ClaimExclusive
<1>15. CASE (\E from \in {"drainFull", "drainAttach", "drainRetire"} : \E to \in {"testFull", "attach", "testRetire"} : Drain(t, from, to))
  BY <1>15, ConstantTypes DEF Drain
<1>16. CASE Issue(t)
  BY <1>2, <1>16, ConstantTypes DEF Issue, CallKnown
<1>17. CASE Attach(t)
  BY <1>2, <1>17, ConstantTypes DEF Attach, CallKnown
<1>18. CASE AttachedAlready(t)
  BY <1>18, ConstantTypes DEF AttachedAlready
<1>19. CASE AttachFails(t)
  BY <1>2, <1>19, ConstantTypes DEF AttachFails, End, CallKnown
<1>20. CASE Publish(t)
  BY <1>2, <1>20, ConstantTypes DEF Publish, CallKnown
<1>21. CASE \E c \in Controls : CreateControls(t, c)
  BY <1>21, ConstantTypes DEF CreateControls
<1>22. CASE ClearWord(t)
  BY <1>22, ConstantTypes DEF ClearWord
<1>23. CASE Raise(t)
  <2>1. region[t] \in Regions /\ at[t] = "raise"
    BY <1>2, <1>23 DEF Raise, CallKnown, RegionPlaces
  <2>2. flag' \in [Regions -> BOOLEAN]
    BY <1>23, <2>1 DEF Raise
  <2> QED
    BY <1>23, <2>2, ConstantTypes DEF Raise
<1>24. CASE ScanEmpty(t)
  BY <1>24, ConstantTypes DEF ScanEmpty
<1>25. CASE Leave(t)
  BY <1>2, <1>25, ConstantTypes DEF Leave, End, CallKnown
<1>26. CASE GiveUpRetire(t)
  BY <1>26, ConstantTypes DEF GiveUpRetire, End
<1>27. CASE Retire(t)
  BY <1>2, <1>27, ConstantTypes DEF Retire, CallKnown
<1>28. CASE GiveBack(t)
  BY <1>28, ConstantTypes DEF GiveBack
<1>29. CASE Unclaim(t)
  BY <1>2, <1>29, ConstantTypes DEF Unclaim, End, CallKnown
<1>30. CASE \E r \in Regions : ReturnBatch(t, r)
  BY <1>30, ConstantTypes DEF ReturnBatch, Slots
<1> QED
  BY <1>3, <1>4, <1>5, <1>6, <1>7, <1>8, <1>9, <1>10, <1>11, <1>12, <1>13, <1>14, <1>15, <1>16, <1>17, <1>18, <1>19, <1>20, <1>21, <1>22, <1>23, <1>24, <1>25, <1>26, <1>27, <1>28, <1>29, <1>30 DEF StepOf, RefillStep, ReturnStep, ClaimRetire

\* A thread's locals are its own.
SameLocals(u) == /\ at'[u] = at[u] /\ control'[u] = control[u] /\ region'[u] = region[u]
                 /\ cache'[u] = cache[u] /\ word'[u] = word[u]

LEMMA OthersKeep ==
  ASSUME IInv, NEW t \in Threads, StepOf(t), NEW u \in Threads \ {t}
  PROVE  SameLocals(u)
<1>1. Typed
  BY TypesAre DEF IInv
<1> USE <1>1 DEF Typed, Set, Goto, locals, SameLocals
<1>2. CASE Refill(t) \/ Unclaim(t) \/ \E r \in Regions : ReturnBatch(t, r)
  BY <1>2 DEF Refill, Unclaim, End, ReturnBatch
<1>3. CASE RefillStep(t)
  BY <1>3 DEF RefillStep, RefillDone, Select, ControlsFail, End, TryShared, Look, LoadWord, Claim,
     Scanned, ReleaseShared, ClaimExclusive, Drain, Issue, Attach, AttachedAlready, AttachFails,
     Publish, CreateControls
<1>4. CASE ReturnStep(t)
  BY <1>4 DEF ReturnStep, Access, TryShared, ClearWord, Raise, ScanEmpty, Leave, End, ReleaseShared,
     GiveUpRetire, ClaimRetire, ClaimExclusive, Drain, Retire, GiveBack
<1> QED
  BY <1>2, <1>3, <1>4 DEF StepOf

-----------------------------------------------------------------------------
(* Access. *)

\* How a thread gets and gives up access.
LEMMA AccessMoves ==
  ASSUME IInv, NEW t \in Threads, StepOf(t)
  PROVE  \/ /\ at[t] \notin SharedPlaces /\ at'[t] \in SharedPlaces \ ClaimedPlaces
            /\ control' = control /\ control[t] \in Controls
            /\ ~exclusive[control[t]] /\ exclusive' = exclusive
            /\ readers' = [readers EXCEPT ![control[t]] = @ + 1]
         \/ /\ at[t] \in SharedPlaces /\ at'[t] \notin SharedPlaces \cup ClaimedPlaces
            /\ control[t] \in Controls /\ exclusive' = exclusive
            /\ readers' = [readers EXCEPT ![control[t]] = @ - 1]
         \/ /\ at[t] \notin ClaimedPlaces \cup SharedPlaces
            /\ at'[t] \in ClaimedPlaces \ (AlonePlaces \cup SharedPlaces)
            /\ control' = control /\ control[t] \in Controls
            /\ ~exclusive[control[t]] /\ exclusive' = [exclusive EXCEPT ![control[t]] = TRUE]
            /\ readers' = readers
         \/ /\ at[t] \in ClaimedPlaces \ SharedPlaces /\ at'[t] \notin ClaimedPlaces \cup SharedPlaces
            /\ control[t] \in Controls /\ exclusive' = [exclusive EXCEPT ![control[t]] = FALSE]
            /\ readers' = readers
         \/ /\ at[t] \in ClaimedPlaces \ SharedPlaces /\ at'[t] \in AlonePlaces \ SharedPlaces
            /\ control' = control /\ control[t] \in Controls
            /\ at[t] \in AlonePlaces \/ readers[control[t]] = 0
            /\ UNCHANGED semaphore
         \/ /\ at[t] \in SharedPlaces /\ at'[t] \in SharedPlaces \ ClaimedPlaces
            /\ control' = control /\ control[t] \in Controls /\ UNCHANGED semaphore
         \/ /\ at[t] \notin SharedPlaces \cup ClaimedPlaces
            /\ at'[t] \notin SharedPlaces \cup ClaimedPlaces
            /\ UNCHANGED semaphore
<1>1. Typed
  BY TypesAre DEF IInv
<1>2. CallKnown(t)
  BY DEF IInv, CallsKnown
<1>3. at[t] \notin {"out", "select", "controls"} => control[t] \in Controls
  BY <1>2 DEF CallKnown
<1> USE <1>1, <1>3 DEF Typed, Set, Goto, locals, semaphore, SharedPlaces, AlonePlaces, ClaimedPlaces
<1>4. CASE Refill(t) \/ RefillDone(t) \/ Select(t) \/ ControlsFail(t) \/ \E c \in Controls : CreateControls(t, c)
  BY <1>4 DEF Refill, RefillDone, Select, ControlsFail, CreateControls, End
<1>5. CASE TryShared(t, "share", "look", "select") \/ Access(t)
  BY <1>5 DEF TryShared, Access
<1>6. CASE Look(t)
  BY <1>6 DEF Look
<1>7. CASE LoadWord(t) \/ Claim(t) \/ Scanned(t)
  BY <1>7 DEF LoadWord, Claim, Scanned
<1>8. CASE ReleaseShared(t, "unshare", IF Cardinality(cache[t]) < PlateSize THEN "tryFull" ELSE "select")
  BY <1>8 DEF ReleaseShared
<1>9. CASE ReleaseShared(t, "leaveEmpty", "tryRetire") \/ Leave(t)
  BY <1>9 DEF ReleaseShared, Leave, End
<1>10. CASE \/ ClaimExclusive(t, "tryFull", "drainFull", "select")
            \/ ClaimExclusive(t, "tryAttach", "drainAttach", "select") \/ ClaimRetire(t)
  BY <1>10 DEF ClaimExclusive, ClaimRetire
<1>11. CASE \/ Drain(t, "drainFull", "testFull") \/ Drain(t, "drainAttach", "attach")
            \/ Drain(t, "drainRetire", "testRetire")
  BY <1>11 DEF Drain
<1>12. CASE Issue(t) \/ Attach(t) \/ AttachedAlready(t) \/ Publish(t) \/ Retire(t) \/ GiveBack(t)
  BY <1>12 DEF Issue, Attach, AttachedAlready, Publish, Retire, GiveBack
<1>13. CASE AttachFails(t) \/ Unclaim(t)
  BY <1>13 DEF AttachFails, Unclaim, End
<1>14. CASE ClearWord(t) \/ Raise(t) \/ ScanEmpty(t)
  BY <1>14 DEF ClearWord, Raise, ScanEmpty
<1>15. CASE GiveUpRetire(t) \/ \E r \in Regions : ReturnBatch(t, r)
  BY <1>15 DEF GiveUpRetire, ReturnBatch, End
<1> QED
  BY <1>4, <1>5, <1>6, <1>7, <1>8, <1>9, <1>10, <1>11, <1>12, <1>13, <1>14, <1>15
     DEF StepOf, RefillStep, ReturnStep

LEMMA ReadersAre ==
  ASSUME NEW A \in SUBSET Threads
  PROVE  /\ Cardinality(A) \in Nat
         /\ \A t \in Threads : t \notin A => Cardinality(A \cup {t}) = Cardinality(A) + 1
         /\ Cardinality(A) = 0 <=> A = {}
         /\ Cardinality(A) <= Cardinality(Threads) /\ Cardinality(Threads) \in Nat
BY ConstantTypes, FS_Subset, FS_CardinalityType, FS_AddElement, FS_EmptySet

LEMMA ReadersKept ==
  ASSUME IInv, NEW t \in Threads, StepOf(t), NEW c \in Controls
  PROVE  readers'[c] = Cardinality(Readers(c)')
<1> DEFINE old == Readers(c)
           new == Readers(c)'
<1>1. old \in SUBSET Threads /\ new \in SUBSET Threads
  BY DEF Readers
<1>2. readers[c] = Cardinality(old) /\ readers[c] \in Int
  BY TypesAre DEF IInv, AccessKnown, Typed
<1>3. \A u \in Threads \ {t} : u \in new <=> u \in old
  BY OthersKeep DEF SameLocals, Readers
<1>4. \/ t \notin old /\ t \in new /\ readers'[c] = readers[c] + 1
      \/ t \in old /\ t \notin new /\ readers'[c] = readers[c] - 1
      \/ (t \in old <=> t \in new) /\ readers'[c] = readers[c]
  BY AccessMoves, TypesAre DEF IInv, Typed, Readers, semaphore
<1> HIDE DEF old, new
<1>5. CASE t \notin old /\ t \in new /\ readers'[c] = readers[c] + 1
  <2>1. new = old \cup {t}
    BY <1>1, <1>3, <1>5
  <2> QED
    BY <1>1, <1>2, <1>5, <2>1, ReadersAre DEF new
<1>6. CASE t \in old /\ t \notin new /\ readers'[c] = readers[c] - 1
  <2>1. old = new \cup {t}
    BY <1>1, <1>3, <1>6
  <2>2. Cardinality(old) = Cardinality(new) + 1 /\ Cardinality(new) \in Nat
    BY <1>1, <1>6, <2>1, ReadersAre
  <2> QED
    BY <1>2, <1>6, <2>2 DEF new
<1>7. CASE (t \in old <=> t \in new) /\ readers'[c] = readers[c]
  <2>1. new = old
    BY <1>1, <1>3, <1>7
  <2> QED
    BY <1>2, <1>7, <2>1 DEF new
<1> QED
  BY <1>4, <1>5, <1>6, <1>7

LEMMA AccessKept ==
  ASSUME IInv, NEW t \in Threads, StepOf(t)
  PROVE  AccessKnown'
<1>1. /\ \A u \in Threads : at[u] \in ClaimedPlaces => exclusive[control[u]]
      /\ \A u, v \in Threads :
            at[u] \in ClaimedPlaces /\ at[v] \in ClaimedPlaces /\ control[u] = control[v] => u = v
      /\ \A u, v \in Threads :
            at[u] \in AlonePlaces /\ at[v] \in SharedPlaces => control[u] # control[v]
      /\ exclusive \in [Controls -> BOOLEAN]
      /\ \A u \in Threads : at[u] \in ClaimedPlaces => control[u] \in Controls
  BY TypesAre DEF IInv, AccessKnown, Typed, CallsKnown, CallKnown, ClaimedPlaces, AlonePlaces
<1>2. \A u \in Threads \ {t} : at'[u] = at[u] /\ control'[u] = control[u]
  BY OthersKeep DEF SameLocals
<1>3. AlonePlaces \subseteq ClaimedPlaces
  BY DEF ClaimedPlaces
<1>4. \A u \in Threads : at'[u] \in ClaimedPlaces => exclusive'[control'[u]]
  BY <1>1, <1>2, AccessMoves DEF semaphore
<1>5. ASSUME NEW u \in Threads, NEW v \in Threads, at'[u] \in ClaimedPlaces,
             at'[v] \in ClaimedPlaces, control'[u] = control'[v]
      PROVE  u = v
  BY <1>1, <1>2, <1>5, AccessMoves
<1>6. ASSUME NEW u \in Threads, NEW v \in Threads, at'[u] \in AlonePlaces, at'[v] \in SharedPlaces
      PROVE  control'[u] # control'[v]
  <2>1. CASE u # t /\ v # t
    BY <1>1, <1>2, <1>6, <2>1
  <2>2. CASE u # t /\ v = t
    BY <1>1, <1>2, <1>3, <1>6, <2>2, AccessMoves
  <2>3. CASE u = t /\ v # t
    <3>1. control[t] \in Controls /\ control' = control
          /\ (at[t] \in AlonePlaces \/ readers[control[t]] = 0)
      BY <1>3, <1>6, <2>3, AccessMoves
    <3>2. CASE readers[control[t]] = 0
      <4>1. Readers(control[t]) = {}
        <5>1. readers[control[t]] = Cardinality(Readers(control[t]))
          BY <3>1 DEF IInv, AccessKnown
        <5>2. Readers(control[t]) \in SUBSET Threads
          BY DEF Readers
        <5> QED
          BY <3>2, <5>1, <5>2, ReadersAre
      <4>2. at[v] \in SharedPlaces /\ control'[v] = control[v] /\ control'[t] = control[t]
        BY <1>2, <1>6, <2>3, <3>1
      <4>3. v \notin Readers(control[t])
        BY <4>1
      <4> QED
        BY <2>3, <4>2, <4>3 DEF Readers
    <3> QED
      BY <1>1, <1>2, <1>6, <2>3, <3>1, <3>2
  <2>4. CASE u = t /\ v = t
    BY <1>3, <1>6, <2>4, AccessMoves
  <2> QED
    BY <2>1, <2>2, <2>3, <2>4
<1> QED
  BY <1>4, <1>5, <1>6, ReadersKept DEF AccessKnown

-----------------------------------------------------------------------------
(* Regions. *)

SlotsOf(r) == {r} \X (1..SlotCount)

\* How regions change hands.
LEMMA RegionMoves ==
  ASSUME IInv, NEW t \in Threads, StepOf(t)
  PROVE  \/ /\ at[t] = "attach" /\ at'[t] = "publish" /\ control' = control
            /\ regionOf[control[t]] = None /\ regionOf' = regionOf
            /\ \E r \in free : /\ free' = free \ {r} /\ region'[t] = r
                               /\ controlOf' = [controlOf EXCEPT ![r] = control[t]]
         \/ /\ at[t] = "publish" /\ at'[t] = "unclaim" /\ control' = control
            /\ regionOf' = [regionOf EXCEPT ![control[t]] = region[t]]
            /\ UNCHANGED <<free, controlOf>>
         \/ /\ at[t] = "testRetire" /\ at'[t] = "giveBack" /\ control' = control
            /\ regionOf[control[t]] # None /\ bits \cap SlotsOf(regionOf[control[t]]) = {}
            /\ regionOf' = [regionOf EXCEPT ![control[t]] = None]
            /\ region'[t] = regionOf[control[t]]
            /\ UNCHANGED <<free, controlOf, bits>>
         \/ /\ at[t] = "giveBack" /\ at'[t] = "giveBack" /\ control' = control
            /\ region[t] # None /\ region'[t] = None /\ free' = free \cup {region[t]}
            /\ UNCHANGED <<controlOf, regionOf>>
         \/ ~Hand(t) /\ ~Hand(t)' /\ UNCHANGED <<free, controlOf, regionOf>>
<1>1. Typed
  BY TypesAre DEF IInv
<1> USE <1>1 DEF Typed, Set, Goto, locals, attachment, Hand
<1>2. CASE \/ Refill(t) \/ RefillDone(t) \/ Select(t) \/ ControlsFail(t) \/ Look(t) \/ LoadWord(t)
           \/ Claim(t) \/ Scanned(t) \/ Issue(t) \/ AttachedAlready(t) \/ AttachFails(t)
           \/ \E c \in Controls : CreateControls(t, c)
  BY <1>2 DEF Refill, RefillDone, Select, ControlsFail, Look, LoadWord, Claim, Scanned, Issue,
     AttachedAlready, AttachFails, CreateControls, End
<1>3. CASE \/ TryShared(t, "share", "look", "select") \/ Access(t)
           \/ ReleaseShared(t, "unshare",
                            IF Cardinality(cache[t]) < PlateSize THEN "tryFull" ELSE "select")
           \/ ReleaseShared(t, "leaveEmpty", "tryRetire") \/ Leave(t)
           \/ ClaimExclusive(t, "tryFull", "drainFull", "select")
           \/ ClaimExclusive(t, "tryAttach", "drainAttach", "select") \/ ClaimRetire(t)
           \/ Drain(t, "drainFull", "testFull") \/ Drain(t, "drainAttach", "attach")
           \/ Drain(t, "drainRetire", "testRetire")
  BY <1>3 DEF TryShared, Access, ReleaseShared, Leave, ClaimExclusive, ClaimRetire, Drain, End
<1>4. CASE \/ ClearWord(t) \/ Raise(t) \/ ScanEmpty(t) \/ GiveUpRetire(t) \/ Unclaim(t)
           \/ \E r \in Regions : ReturnBatch(t, r)
  BY <1>4 DEF ClearWord, Raise, ScanEmpty, GiveUpRetire, Unclaim, ReturnBatch, End
<1>5. CASE Attach(t)
  BY <1>5 DEF Attach
<1>6. CASE Publish(t)
  BY <1>6 DEF Publish
<1>7. CASE Retire(t)
  BY <1>7 DEF Retire, SlotsOf
<1>8. CASE GiveBack(t)
  BY <1>8 DEF GiveBack
<1> QED
  BY <1>2, <1>3, <1>4, <1>5, <1>6, <1>7, <1>8 DEF StepOf, RefillStep, ReturnStep

LEMMA RegionsKept ==
  ASSUME IInv, NEW t \in Threads, StepOf(t)
  PROVE  RegionsApart'
<1>1. Typed /\ RegionsApart /\ CallKnown(t)
  BY TypesAre DEF IInv, CallsKnown
<1>2. ASSUME NEW u \in Threads \ {t} PROVE (Hand(u)' <=> Hand(u)) /\ region'[u] = region[u]
  BY OthersKeep DEF SameLocals, Hand
<1>3. at[t] \in {"attach", "publish", "testRetire", "giveBack"} => control[t] \in Controls
  BY <1>1 DEF CallKnown
<1> USE ConstantTypes, <1>1, <1>2, <1>3 DEF Typed, RegionsApart
<1>4. ASSUME at[t] = "attach", at'[t] = "publish", regionOf[control[t]] = None, regionOf' = regionOf,
             NEW r \in free, free' = free \ {r}, region'[t] = r,
             controlOf' = [controlOf EXCEPT ![r] = control[t]]
      PROVE  RegionsApart'
  BY <1>4 DEF Hand
<1>5. ASSUME at[t] = "publish", at'[t] = "unclaim",
             regionOf' = [regionOf EXCEPT ![control[t]] = region[t]], UNCHANGED <<free, controlOf>>
      PROVE  RegionsApart'
  BY <1>5 DEF Hand, CallKnown
<1>6. ASSUME at[t] = "testRetire", at'[t] = "giveBack", regionOf[control[t]] # None,
             regionOf' = [regionOf EXCEPT ![control[t]] = None],
             region'[t] = regionOf[control[t]], UNCHANGED <<free, controlOf>>
      PROVE  RegionsApart'
  BY <1>6 DEF Hand
<1>7. ASSUME at[t] = "giveBack", at'[t] = "giveBack", region[t] # None, region'[t] = None,
             free' = free \cup {region[t]}, UNCHANGED <<controlOf, regionOf>>
      PROVE  RegionsApart'
  BY <1>7 DEF Hand
<1>8. ASSUME ~Hand(t), ~Hand(t)', UNCHANGED <<free, controlOf, regionOf>>
      PROVE  RegionsApart'
  BY <1>8
<1> QED
  BY <1>4, <1>5, <1>6, <1>7, <1>8, RegionMoves

-----------------------------------------------------------------------------
(* Calls. *)

\* A step of one thread does not surprise another about its control and region:
\* the region it works on or owns slots of stays attached.
LEMMA OthersKnow ==
  ASSUME IInv, NEW t \in Threads, StepOf(t), NEW u \in Threads \ {t}
  PROVE  CallKnown(u)'
<1>1. Typed /\ CallKnown(u)
  BY TypesAre DEF IInv, CallsKnown
<1>2. SameLocals(u)
  BY OthersKeep
<1>3. at[u] = "access" => region[u] \notin free
  <2> SUFFICES ASSUME at[u] = "access" PROVE region[u] \notin free
    OBVIOUS
  <2>1. PICK s \in cache[u] : s[1] = region[u]
    BY <1>1 DEF CallKnown
  <2>2. s \in bits /\ s[1] \in Regions
    BY <1>1, <2>1 DEF IInv, SlotsAccounted, Typed, Slots
  <2>3. controlOf[s[1]] \in Controls /\ regionOf[controlOf[s[1]]] = s[1]
    BY <1>1, <2>2 DEF IInv, OwnedSlotsAttached, Typed
  <2> QED
    BY <2>1, <2>2, <2>3, ConstantTypes DEF IInv, RegionsApart
<1>4. at[u] = "publish" => region[u] \notin free
  BY <1>1, ConstantTypes DEF IInv, RegionsApart, Hand, CallKnown
<1>5. at[t] \in {"publish", "testRetire"} /\ at[u] \in RegionPlaces \cup {"publish"}
        => control[t] # control[u]
  BY DEF IInv, AccessKnown, AlonePlaces, ClaimedPlaces, RegionPlaces, SharedPlaces
<1>6. /\ at[u] \in {"access", "publish"} => controlOf'[region[u]] = controlOf[region[u]]
      /\ at[u] \in RegionPlaces \cup {"publish"} => regionOf'[control[u]] = regionOf[control[u]]
  <2>1. ASSUME at[u] \in {"access", "publish"}
        PROVE  controlOf'[region[u]] = controlOf[region[u]]
    <3>1. \/ controlOf' = controlOf
          \/ \E r \in free : controlOf' = [controlOf EXCEPT ![r] = control[t]]
      BY RegionMoves
    <3>2. region[u] \notin free /\ region[u] \in Regions
      BY <1>1, <1>3, <1>4, <2>1 DEF CallKnown
    <3> QED
      BY <1>1, <3>1, <3>2 DEF Typed
  <2>2. ASSUME at[u] \in RegionPlaces \cup {"publish"}
        PROVE  regionOf'[control[u]] = regionOf[control[u]]
    <3>1. CASE at[t] \in {"publish", "testRetire"}
      <4>1. control[t] # control[u]
        BY <1>5, <2>2, <3>1
      <4>2. control[u] \in Controls
        BY <1>1, <2>2 DEF CallKnown, RegionPlaces
      <4>3. \/ regionOf' = regionOf \/ regionOf' = [regionOf EXCEPT ![control[t]] = region[t]]
            \/ regionOf' = [regionOf EXCEPT ![control[t]] = None]
        BY RegionMoves
      <4> QED
        BY <1>1, <4>1, <4>2, <4>3 DEF Typed
    <3>2. CASE at[t] \notin {"publish", "testRetire"}
      BY <3>2, RegionMoves
    <3> QED
      BY <3>1, <3>2
  <2> QED
    BY <2>1, <2>2
<1> QED
  BY <1>1, <1>2, <1>6 DEF CallKnown, SameLocals

LEMMA OwnKnown ==
  ASSUME IInv, NEW t \in Threads, StepOf(t)
  PROVE  CallKnown(t)'
<1>1. Typed /\ CallKnown(t)
  BY TypesAre DEF IInv, CallsKnown
<1>2. at[t] \in RefillPlaces \cup {"unclaim"} => Cardinality(cache[t]) \in Nat
  BY <1>1, FS_CardinalityType DEF CallKnown
<1>3. IsFiniteSet({}) /\ Cardinality({}) = 0 /\ 0 <= PlateSize
  BY ConstantTypes, FS_EmptySet
<1> USE <1>1, <1>2, <1>3, ConstantTypes
    DEF CallKnown, Typed, Set, Goto, RefillPlaces, ReturnPlaces, RegionPlaces, lists, attachment,
        semaphore, locals
<1>4. CASE Refill(t) \/ \E r \in Regions : ReturnBatch(t, r)
  <2>1. CASE Refill(t)
    BY <2>1 DEF Refill
  <2>2. ASSUME NEW r \in Regions, ReturnBatch(t, r) PROVE CallKnown(t)'
    <3>1. at'[t] = "access" /\ region'[t] = r /\ control'[t] = controlOf[r] /\ controlOf' = controlOf
      BY <2>2 DEF ReturnBatch
    <3>2. PICK batch \in SUBSET (out \cap ({r} \X (1..SlotCount))) : batch # {} /\ cache'[t] = batch
      BY <2>2 DEF ReturnBatch
    <3>3. \A s \in cache'[t] : s[1] = r /\ s \in bits
      BY <3>2 DEF IInv, SlotsAccounted
    <3>4. control'[t] \in Controls
      BY <3>1, <3>2, <3>3 DEF IInv, OwnedSlotsAttached
    <3> QED
      BY <3>1, <3>2, <3>3, <3>4
  <2> QED
    BY <1>4, <2>1, <2>2
<1>5. CASE RefillDone(t) \/ ControlsFail(t) \/ AttachFails(t) \/ Leave(t) \/ GiveUpRetire(t) \/ Unclaim(t)
  BY <1>5 DEF RefillDone, ControlsFail, AttachFails, Leave, GiveUpRetire, Unclaim, End
<1>6. CASE Select(t)
  <2>1. /\ \A i \in DOMAIN available : available[i] \in Controls
        /\ detached # <<>> => Head(detached) \in Controls
    BY TypesAre DEF IInv
  <2> QED
    BY <1>6, <2>1 DEF Select
<1>7. CASE TryShared(t, "share", "look", "select") \/ Access(t)
  <2>1. CASE TryShared(t, "share", "look", "select")
    BY <2>1 DEF TryShared
  <2>2. CASE Access(t)
    <3>1. /\ at[t] = "access" /\ at'[t] = "clear"
          /\ UNCHANGED <<control, region, cache, word, controlOf, regionOf>>
      BY <2>2 DEF Access, TryShared
    <3>2. PICK s \in cache[t] : s[1] = region[t]
      BY <3>1
    <3>3. s \in bits
      BY <3>2 DEF IInv, SlotsAccounted
    <3>4. regionOf[control[t]] = region[t]
      BY <3>1, <3>2, <3>3 DEF IInv, OwnedSlotsAttached
    <3> QED
      BY <3>1, <3>4
  <2> QED
    BY <1>7, <2>1, <2>2
<1>8. CASE Look(t)
  BY <1>8 DEF Look
<1>9. CASE LoadWord(t)
  BY <1>9 DEF LoadWord, Slot
<1>10. CASE Claim(t)
  <2>1. Slot(t) \notin bits => Slot(t) \notin cache[t]
    BY DEF IInv, SlotsAccounted
  <2>2. /\ IsFiniteSet(cache[t]) /\ Cardinality(cache[t]) < PlateSize
        /\ Cardinality(cache[t]) \in Nat
    BY <1>10 DEF Claim
  <2>3. /\ Slot(t) \notin bits => IsFiniteSet(cache[t] \cup {Slot(t)})
                                  /\ Cardinality(cache[t] \cup {Slot(t)}) = Cardinality(cache[t]) + 1
    BY <2>1, <2>2, FS_AddElement
  <2>4. IsFiniteSet(cache'[t]) /\ Cardinality(cache'[t]) <= PlateSize
    <3>1. CASE Slot(t) \in bits
      BY <1>10, <2>2, <3>1 DEF Claim
    <3>2. CASE Slot(t) \notin bits
      <4>1. cache'[t] = cache[t] \cup {Slot(t)}
        BY <1>10, <3>2 DEF Claim
      <4> QED
        BY <2>2, <2>3, <3>2, <4>1
    <3> QED
      BY <3>1, <3>2
  <2> QED
    BY <1>10, <2>4 DEF Claim
<1>11. CASE Scanned(t)
  BY <1>11 DEF Scanned
<1>12. CASE ReleaseShared(t, "unshare", IF Cardinality(cache[t]) < PlateSize THEN "tryFull" ELSE "select")
  BY <1>12 DEF ReleaseShared
<1>13. CASE \/ ReleaseShared(t, "leaveEmpty", "tryRetire") \/ ClaimRetire(t)
            \/ ClaimExclusive(t, "tryFull", "drainFull", "select")
            \/ ClaimExclusive(t, "tryAttach", "drainAttach", "select")
            \/ Drain(t, "drainFull", "testFull") \/ Drain(t, "drainAttach", "attach")
            \/ Drain(t, "drainRetire", "testRetire")
  BY <1>13 DEF ReleaseShared, ClaimRetire, ClaimExclusive, Drain
<1>14. CASE Issue(t) \/ AttachedAlready(t) \/ Publish(t) \/ Retire(t) \/ GiveBack(t)
  BY <1>14 DEF Issue, AttachedAlready, Publish, Retire, GiveBack
<1>15. CASE Attach(t)
  BY <1>15 DEF Attach
<1>16. CASE ClearWord(t) \/ Raise(t) \/ ScanEmpty(t)
  BY <1>16 DEF ClearWord, Raise, ScanEmpty
<1>17. CASE \E c \in Controls : CreateControls(t, c)
  BY <1>17 DEF CreateControls
<1> QED
  BY <1>4, <1>5, <1>6, <1>7, <1>8, <1>9, <1>10, <1>11, <1>12, <1>13, <1>14, <1>15, <1>16, <1>17
     DEF StepOf, RefillStep, ReturnStep

LEMMA CallsKept ==
  ASSUME IInv, NEW t \in Threads, StepOf(t)
  PROVE  CallsKnown'
BY OthersKnow, OwnKnown DEF CallsKnown

-----------------------------------------------------------------------------
(* Slots. *)

\* No slot of a free region is set.
LEMMA FreeRegionsClear ==
  ASSUME IInv, NEW s \in bits
  PROVE  s[1] \in Regions /\ s[1] \notin free
<1>1. s[1] \in Regions
  BY TypesAre DEF IInv, Typed, Slots
<1>2. controlOf[s[1]] \in Controls /\ regionOf[controlOf[s[1]]] = s[1]
  BY <1>1, TypesAre DEF IInv, Typed, OwnedSlotsAttached
<1> QED
  BY <1>1, <1>2, ConstantTypes DEF IInv, RegionsApart

\* How slots change owners: claimed, cleared, taken for return, handed out.
LEMMA SlotMoves ==
  ASSUME IInv, NEW t \in Threads, StepOf(t)
  PROVE  \/ /\ at[t] = "claim" /\ Slot(t) \notin bits /\ bits' = bits \cup {Slot(t)}
            /\ cache' = [cache EXCEPT ![t] = @ \cup {Slot(t)}] /\ out' = out
            /\ UNCHANGED <<attachment, lists, control>>
         \/ /\ at[t] = "clear" /\ at'[t] \in {"clear", "raise"}
            /\ \E s \in cache[t] : /\ bits' = bits \ {s} /\ out' = out
                                   /\ cache' = [cache EXCEPT ![t] = @ \ {s}]
            /\ UNCHANGED <<attachment, lists, control>>
         \/ /\ cache[t] = {} /\ bits' = bits
            /\ \E own \in SUBSET out : /\ out' = out \ own
                                       /\ cache' = [cache EXCEPT ![t] = own]
         \/ /\ bits' = bits /\ out' = out \cup cache[t]
            /\ cache' = [cache EXCEPT ![t] = {}]
         \/ bits' = bits /\ out' = out /\ cache' = cache
<1>1. Typed /\ CallKnown(t)
  BY TypesAre DEF IInv, CallsKnown
<1> USE <1>1 DEF Typed, Set, Goto, locals, attachment, lists
<1>2. CASE Refill(t) \/ RefillDone(t) \/ Select(t) \/ ControlsFail(t) \/ \E c \in Controls : CreateControls(t, c)
  BY <1>2 DEF Refill, RefillDone, Select, ControlsFail, CreateControls, End
<1>3. CASE \/ TryShared(t, "share", "look", "select") \/ Access(t)
           \/ ReleaseShared(t, "unshare",
                            IF Cardinality(cache[t]) < PlateSize THEN "tryFull" ELSE "select")
           \/ ReleaseShared(t, "leaveEmpty", "tryRetire")
           \/ ClaimExclusive(t, "tryFull", "drainFull", "select")
           \/ ClaimExclusive(t, "tryAttach", "drainAttach", "select") \/ ClaimRetire(t)
           \/ Drain(t, "drainFull", "testFull") \/ Drain(t, "drainAttach", "attach")
           \/ Drain(t, "drainRetire", "testRetire")
  BY <1>3 DEF TryShared, Access, ReleaseShared, ClaimExclusive, ClaimRetire, Drain
<1>4. CASE \/ Look(t) \/ LoadWord(t) \/ Scanned(t) \/ Issue(t) \/ AttachedAlready(t) \/ AttachFails(t)
           \/ Publish(t)
  BY <1>4 DEF Look, LoadWord, Scanned, Issue, AttachedAlready, AttachFails, Publish, End
<1>5. CASE \/ Raise(t) \/ ScanEmpty(t) \/ Leave(t) \/ GiveUpRetire(t) \/ Retire(t) \/ GiveBack(t)
           \/ Unclaim(t)
  BY <1>5 DEF Raise, ScanEmpty, Leave, GiveUpRetire, Retire, GiveBack, Unclaim, End
<1>6. CASE Attach(t)
  <2>1. PICK r \in free : bits' = bits \ ({r} \X (1..SlotCount))
    BY <1>6 DEF Attach
  <2>2. bits' = bits
    BY <2>1, FreeRegionsClear
  <2> QED
    BY <1>6, <2>2 DEF Attach
<1>7. CASE Claim(t)
  BY <1>7 DEF Claim
<1>8. CASE ClearWord(t)
  BY <1>8 DEF ClearWord
<1>9. CASE \E r \in Regions : ReturnBatch(t, r)
  <2>1. at[t] = "out" /\ bits' = bits
    BY <1>9 DEF ReturnBatch
  <2>2. \E own \in SUBSET out : out' = out \ own /\ cache' = [cache EXCEPT ![t] = own]
    BY <1>9 DEF ReturnBatch
  <2> QED
    BY <2>1, <2>2 DEF CallKnown
<1> QED
  BY <1>2, <1>3, <1>4, <1>5, <1>6, <1>7, <1>8, <1>9 DEF StepOf, RefillStep, ReturnStep

LEMMA SlotsKept ==
  ASSUME IInv, NEW t \in Threads, StepOf(t)
  PROVE  SlotsAccounted'
<1>1. /\ \A s : s \in bits <=> s \in out \/ \E u \in Threads : s \in cache[u]
      /\ \A u \in Threads : cache[u] \cap out = {}
      /\ \A u, v \in Threads : u # v => cache[u] \cap cache[v] = {}
  BY DEF IInv, SlotsAccounted
<1>2. cache \in [Threads -> SUBSET Slots]
  BY TypesAre DEF IInv, Typed
<1> DEFINE Owned == /\ \A s : s \in bits' <=> s \in out' \/ \E u \in Threads : s \in cache'[u]
                    /\ \A u \in Threads : cache'[u] \cap out' = {}
                    /\ \A u, v \in Threads : u # v => cache'[u] \cap cache'[v] = {}
<1>3. Owned
  <2>1. ASSUME Slot(t) \notin bits, bits' = bits \cup {Slot(t)}, out' = out,
               cache' = [cache EXCEPT ![t] = @ \cup {Slot(t)}]
        PROVE  Owned
    <3> DEFINE n == Slot(t)
    <3>1. n \notin bits /\ bits' = bits \cup {n} /\ cache' = [cache EXCEPT ![t] = @ \cup {n}]
      BY <2>1
    <3> HIDE DEF n
    <3> QED
      BY <1>1, <1>2, <2>1, <3>1
  <2>2. ASSUME NEW s \in cache[t], bits' = bits \ {s}, out' = out,
               cache' = [cache EXCEPT ![t] = @ \ {s}]
        PROVE  Owned
    BY <1>1, <1>2, <2>2
  <2>3. ASSUME cache[t] = {}, bits' = bits, NEW own \in SUBSET out, out' = out \ own,
               cache' = [cache EXCEPT ![t] = own]
        PROVE  Owned
    BY <1>1, <1>2, <2>3
  <2>4. ASSUME bits' = bits, out' = out \cup cache[t], cache' = [cache EXCEPT ![t] = {}]
        PROVE  Owned
    BY <1>1, <1>2, <2>4
  <2>5. ASSUME bits' = bits, out' = out, cache' = cache PROVE Owned
    BY <1>1, <2>5
  <2> QED
    BY <2>1, <2>2, <2>3, <2>4, <2>5, SlotMoves
<1>4. bits' = out' \cup UNION {cache'[u] : u \in Threads}
  BY <1>3
<1> QED
  BY <1>3, <1>4 DEF SlotsAccounted

\* A region that gives or has given slots keeps its control.
LEMMA OwnedKept ==
  ASSUME IInv, NEW t \in Threads, StepOf(t)
  PROVE  OwnedSlotsAttached'
<1>1. Typed /\ CallKnown(t)
  BY TypesAre DEF IInv, CallsKnown
<1> SUFFICES ASSUME NEW s \in bits' PROVE controlOf'[s[1]] # None /\ regionOf'[controlOf'[s[1]]] = s[1]
  BY DEF OwnedSlotsAttached
<1>2. CASE s \in bits
  <2>1. /\ s[1] \in Regions /\ s[1] \notin free
        /\ controlOf[s[1]] \in Controls /\ regionOf[controlOf[s[1]]] = s[1]
    BY <1>1, <1>2, FreeRegionsClear DEF IInv, OwnedSlotsAttached, Typed
  <2>2. controlOf'[s[1]] = controlOf[s[1]]
    <3>1. \/ controlOf' = controlOf
          \/ \E r \in free : controlOf' = [controlOf EXCEPT ![r] = control[t]]
      BY RegionMoves
    <3> QED
      BY <1>1, <2>1, <3>1 DEF Typed
  <2> DEFINE c == controlOf[s[1]]
  <2>3. regionOf'[c] = regionOf[c]
    <3>0. regionOf[c] # None /\ regionOf \in [Controls -> Regions \cup {None}] /\ c \in Controls
      BY <1>1, <2>1, ConstantTypes DEF Typed
    <3>1. CASE at[t] = "publish" /\ regionOf' = [regionOf EXCEPT ![control[t]] = region[t]]
      <4>1. regionOf[control[t]] = None
        BY <1>1, <3>1 DEF CallKnown
      <4> QED
        BY <3>0, <3>1, <4>1
    <3>2. CASE /\ at[t] = "testRetire" /\ bits \cap SlotsOf(regionOf[control[t]]) = {}
               /\ regionOf' = [regionOf EXCEPT ![control[t]] = None]
      <4>1. s \in SlotsOf(s[1])
        BY <1>1, <1>2 DEF Typed, Slots, SlotsOf
      <4>2. control[t] # c
        BY <1>2, <2>1, <3>2, <4>1
      <4> QED
        BY <3>0, <3>2, <4>2
    <3> QED
      BY <3>1, <3>2, RegionMoves
  <2> QED
    BY <2>1, <2>2, <2>3, ConstantTypes
<1>3. CASE s \notin bits
  <2>1. /\ at[t] = "claim" /\ s = Slot(t) /\ UNCHANGED <<regionOf, controlOf>>
    BY <1>3, SlotMoves DEF attachment
  <2>2. s[1] = region[t] /\ region[t] \in Regions /\ regionOf[control[t]] = region[t] /\ control[t] \in Controls
    BY <1>1, <2>1 DEF Slot, CallKnown, RegionPlaces
  <2>3. controlOf[region[t]] = control[t]
    BY <2>2, ConstantTypes DEF IInv, RegionsApart
  <2> QED
    BY <2>1, <2>2, <2>3, ConstantTypes
<1> QED
  BY <1>2, <1>3

-----------------------------------------------------------------------------
(* The class's lists. *)

\* How controls move between the lists.
LEMMA ListMoves ==
  ASSUME IInv, NEW t \in Threads, StepOf(t)
  PROVE  \/ UNCHANGED <<lists, attachment>>
         \/ /\ \E r \in free : flag' = [flag EXCEPT ![r] = FALSE]
            /\ UNCHANGED <<lists, regionOf>>
         \/ /\ at[t] = "publish" /\ ToFront(control[t])
            /\ regionOf' = [regionOf EXCEPT ![control[t]] = region[t]]
            /\ flag' = [flag EXCEPT ![region[t]] = TRUE]
         \/ /\ at[t] = "scanned" /\ ToBack(control[t]) /\ flag[region[t]] /\ UNCHANGED attachment
         \/ /\ at[t] = "testFull" /\ ToIssued(control[t])
            /\ regionOf[control[t]] # None /\ SlotsOf(regionOf[control[t]]) \subseteq bits
            /\ regionOf' = regionOf /\ flag' = [flag EXCEPT ![regionOf[control[t]]] = FALSE]
         \/ /\ at[t] = "raise" /\ ToFront(control[t]) /\ regionOf' = regionOf
            /\ flag' = [flag EXCEPT ![region[t]] = TRUE]
         \/ /\ at[t] = "testRetire" /\ ToDetached(control[t]) /\ regionOf[control[t]] # None
            /\ regionOf' = [regionOf EXCEPT ![control[t]] = None]
            /\ flag' = [flag EXCEPT ![regionOf[control[t]]] = FALSE]
         \/ /\ \E c \in Controls : /\ c \notin issued \cup ToSet(available) \cup ToSet(detached)
                                   /\ detached' = Append(detached, c)
            /\ UNCHANGED <<available, issued, attachment>>
<1> USE DEF Set, Goto, locals, attachment, lists
<1>1. CASE Refill(t) \/ RefillDone(t) \/ Select(t) \/ ControlsFail(t) \/ \E c \in Controls : CreateControls(t, c)
  BY <1>1 DEF Refill, RefillDone, Select, ControlsFail, CreateControls, End
<1>2. CASE \/ TryShared(t, "share", "look", "select") \/ Access(t)
           \/ ReleaseShared(t, "unshare",
                            IF Cardinality(cache[t]) < PlateSize THEN "tryFull" ELSE "select")
           \/ ReleaseShared(t, "leaveEmpty", "tryRetire")
           \/ ClaimExclusive(t, "tryFull", "drainFull", "select")
           \/ ClaimExclusive(t, "tryAttach", "drainAttach", "select") \/ ClaimRetire(t)
           \/ Drain(t, "drainFull", "testFull") \/ Drain(t, "drainAttach", "attach")
           \/ Drain(t, "drainRetire", "testRetire")
  BY <1>2 DEF TryShared, Access, ReleaseShared, ClaimExclusive, ClaimRetire, Drain
<1>3. CASE Look(t) \/ LoadWord(t) \/ Claim(t) \/ AttachedAlready(t) \/ AttachFails(t)
  BY <1>3 DEF Look, LoadWord, Claim, AttachedAlready, AttachFails, End
<1>4. CASE Scanned(t)
  BY <1>4 DEF Scanned
<1>5. CASE Issue(t)
  BY <1>5 DEF Issue, SlotsOf
<1>6. CASE Attach(t)
  BY <1>6 DEF Attach
<1>7. CASE Publish(t)
  BY <1>7 DEF Publish
<1>8. CASE \/ ClearWord(t) \/ ScanEmpty(t) \/ Leave(t) \/ GiveUpRetire(t) \/ GiveBack(t) \/ Unclaim(t)
           \/ \E r \in Regions : ReturnBatch(t, r)
  BY <1>8 DEF ClearWord, ScanEmpty, Leave, GiveUpRetire, GiveBack, Unclaim, ReturnBatch, End
<1>9. CASE Raise(t)
  BY <1>9 DEF Raise
<1>10. CASE Retire(t)
  BY <1>10 DEF Retire
<1> QED
  BY <1>1, <1>2, <1>3, <1>4, <1>5, <1>6, <1>7, <1>8, <1>9, <1>10 DEF StepOf, RefillStep, ReturnStep

LEMMA ListsKept ==
  ASSUME IInv, NEW t \in Threads, StepOf(t)
  PROVE  ListsTyped(available', detached', issued') /\ ListsKnown'
<1>1. /\ regionOf \in [Controls -> Regions \cup {None}] /\ flag \in [Regions -> BOOLEAN]
      /\ free \subseteq Regions
      /\ ListsTyped(available, detached, issued) /\ ListsKnown
  BY TypesAre DEF IInv, Typed, ListsTyped, ListsKnown
<1>2. \A c, d \in Controls : regionOf[c] = regionOf[d] /\ regionOf[c] # None => c = d
  BY DEF IInv, RegionsApart
<1>3. /\ at[t] \in {"publish", "scanned", "testFull", "raise", "testRetire"} => control[t] \in Controls
      /\ at[t] = "publish" => /\ region[t] \in Regions /\ regionOf[control[t]] = None
                              /\ \A c \in Controls : region[t] # regionOf[c]
      /\ at[t] \in {"scanned", "raise"} => region[t] \in Regions /\ regionOf[control[t]] = region[t]
  <2>1. CallKnown(t)
    BY DEF IInv, CallsKnown
  <2>2. at[t] = "publish" => \A c \in Controls : region[t] # regionOf[c]
    BY <2>1, ConstantTypes DEF IInv, RegionsApart, Hand, CallKnown
  <2> QED
    BY <2>1, <2>2 DEF CallKnown, RegionPlaces
<1> DEFINE Goal == ListsTyped(available', detached', issued') /\ ListsKnown'
<1>4. ASSUME UNCHANGED <<lists, attachment>> PROVE Goal
  BY <1>1, <1>4 DEF lists, attachment, ListsKnown
<1>5. ASSUME NEW r \in free, flag' = [flag EXCEPT ![r] = FALSE], UNCHANGED <<lists, regionOf>>
      PROVE  Goal
  <2>1. \A c \in Controls : regionOf[c] # None => regionOf[c] # r
    BY DEF IInv, RegionsApart
  <2> QED
    BY <1>1, <1>5, <2>1 DEF lists, ListsKnown
<1>6. ASSUME at[t] = "publish", ToFront(control[t]),
             regionOf' = [regionOf EXCEPT ![control[t]] = region[t]],
             flag' = [flag EXCEPT ![region[t]] = TRUE]
      PROVE  Goal
  <2>1. /\ ListsTyped(available', detached', issued')
        /\ ToSet(available') = ToSet(available) \cup {control[t]}
        /\ ToSet(detached') = ToSet(detached) \ {control[t]} /\ issued' = issued \ {control[t]}
    BY <1>1, <1>3, <1>6, Moves
  <2> QED
    BY <1>1, <1>3, <1>6, <2>1, ConstantTypes DEF ListsKnown, ListsTyped
<1>7. ASSUME at[t] = "scanned", ToBack(control[t]), flag[region[t]], UNCHANGED attachment
      PROVE  Goal
  <2>1. /\ ListsTyped(available', detached', issued')
        /\ ToSet(available') = ToSet(available) \cup {control[t]}
        /\ ToSet(detached') = ToSet(detached) \ {control[t]} /\ issued' = issued \ {control[t]}
    BY <1>1, <1>3, <1>7, Moves
  <2> QED
    BY <1>1, <1>3, <1>7, <2>1, ConstantTypes DEF ListsKnown, ListsTyped, attachment
<1>8. ASSUME at[t] = "testFull", ToIssued(control[t]), regionOf[control[t]] # None,
             regionOf' = regionOf, flag' = [flag EXCEPT ![regionOf[control[t]]] = FALSE]
      PROVE  Goal
  <2>1. /\ ListsTyped(available', detached', issued')
        /\ ToSet(available') = ToSet(available) \ {control[t]}
        /\ ToSet(detached') = ToSet(detached) \ {control[t]} /\ issued' = issued \cup {control[t]}
    BY <1>1, <1>3, <1>8, Moves
  <2> QED
    BY <1>1, <1>2, <1>3, <1>8, <2>1, ConstantTypes DEF ListsKnown, ListsTyped
<1>9. ASSUME at[t] = "raise", ToFront(control[t]), regionOf' = regionOf,
             flag' = [flag EXCEPT ![region[t]] = TRUE]
      PROVE  Goal
  <2>1. /\ ListsTyped(available', detached', issued')
        /\ ToSet(available') = ToSet(available) \cup {control[t]}
        /\ ToSet(detached') = ToSet(detached) \ {control[t]} /\ issued' = issued \ {control[t]}
    BY <1>1, <1>3, <1>9, Moves
  <2> QED
    BY <1>1, <1>2, <1>3, <1>9, <2>1, ConstantTypes DEF ListsKnown, ListsTyped
<1>10. ASSUME at[t] = "testRetire", ToDetached(control[t]), regionOf[control[t]] # None,
              regionOf' = [regionOf EXCEPT ![control[t]] = None],
              flag' = [flag EXCEPT ![regionOf[control[t]]] = FALSE]
       PROVE  Goal
  <2>1. /\ ListsTyped(available', detached', issued')
        /\ ToSet(available') = ToSet(available) \ {control[t]}
        /\ ToSet(detached') = ToSet(detached) \cup {control[t]} /\ issued' = issued \ {control[t]}
    BY <1>1, <1>3, <1>10, Moves
  <2> QED
    BY <1>1, <1>2, <1>3, <1>10, <2>1, ConstantTypes DEF ListsKnown, ListsTyped
<1>11. ASSUME NEW c \in Controls, c \notin issued \cup ToSet(available) \cup ToSet(detached),
              detached' = Append(detached, c), UNCHANGED <<available, issued, attachment>>
       PROVE  Goal
  <2>1. /\ detached' \in Seq(Controls) /\ NoneTwice(detached')
        /\ ToSet(detached') = ToSet(detached) \cup {c}
    <3>1. detached \in Seq(Controls) /\ NoneTwice(detached) /\ c \notin ToSet(detached)
      BY <1>1, <1>11 DEF ListsTyped
    <3>2. /\ detached \o <<c>> \in Seq(Controls) /\ NoneTwice(detached \o <<c>>)
          /\ ToSet(detached \o <<c>>) = ToSet(detached) \cup {c}
          /\ Append(detached, c) = detached \o <<c>>
      BY <3>1, Added
    <3> QED
      BY <1>11, <3>2
  <2>2. regionOf[c] = None
    BY <1>1, <1>11 DEF ListsKnown
  <2> QED
    BY <1>1, <1>11, <2>1, <2>2 DEF ListsKnown, ListsTyped, attachment
<1> QED
  BY <1>4, <1>5, <1>6, <1>7, <1>8, <1>9, <1>10, <1>11, ListMoves

\* A returner past its access clears and then raises the flag.
LEMMA ClearsAndRaises ==
  ASSUME NEW t \in Threads, StepOf(t)
  PROVE  /\ at[t] = "clear" => ClearWord(t)
         /\ at[t] = "raise" => Raise(t)
<1>1. CASE Refill(t) \/ Unclaim(t) \/ \E r \in Regions : ReturnBatch(t, r)
  BY <1>1 DEF Refill, Unclaim, ReturnBatch
<1>2. CASE RefillStep(t)
  BY <1>2 DEF RefillStep, RefillDone, Select, ControlsFail, TryShared, Look, LoadWord, Claim,
     Scanned, ReleaseShared, ClaimExclusive, Drain, Issue, Attach, AttachedAlready, AttachFails,
     Publish, CreateControls
<1>3. CASE ReturnStep(t)
  BY <1>3 DEF ReturnStep, Access, TryShared, ScanEmpty, Leave, ReleaseShared, ClearWord, Raise,
     GiveUpRetire, ClaimRetire, ClaimExclusive, Drain, Retire, GiveBack
<1> QED
  BY <1>1, <1>2, <1>3 DEF StepOf

\* A region leaves the list when it is full, and is back on it when the returner
\* of a slot is past the flag.
LEMMA FoundKept ==
  ASSUME IInv, NEW t \in Threads, StepOf(t)
  PROVE  FreeSlotsAreFound'
<1> SUFFICES ASSUME NEW c \in issued'
             PROVE  \/ SlotsOf(regionOf'[c]) \subseteq bits'
                    \/ \E u \in Threads : control'[u] = c /\ at'[u] \in {"clear", "raise"}
  BY DEF FreeSlotsAreFound, SlotsOf
<1>1. Typed /\ CallKnown(t) /\ ListsTyped(available, detached, issued)
  BY TypesAre DEF IInv, CallsKnown, ListsTyped, ListsKnown
<1>2. \A u \in Threads \ {t} : at'[u] = at[u] /\ control'[u] = control[u]
  BY OthersKeep DEF SameLocals
<1>3. CASE c \notin issued
  <2>1. /\ at[t] = "testFull" /\ ToIssued(control[t]) /\ regionOf' = regionOf
        /\ SlotsOf(regionOf[control[t]]) \subseteq bits
    BY <1>3, ListMoves DEF lists, ToFront, ToBack, ToIssued, ToDetached
  <2>2. c = control[t]
    BY <1>3, <2>1 DEF ToIssued
  <2>3. bits \subseteq bits'
    BY <2>1, SlotMoves
  <2> QED
    BY <2>1, <2>2, <2>3
<1>4. CASE c \in issued /\ SlotsOf(regionOf[c]) \subseteq bits
  <2>1. c \in Controls /\ regionOf[c] \in Regions
    BY <1>1, <1>4 DEF IInv, ListsKnown, ListsTyped, Typed
  <2>2. regionOf'[c] = regionOf[c]
    <3>1. \/ regionOf' = regionOf
          \/ /\ ToFront(control[t]) \/ ToDetached(control[t])
             /\ \/ regionOf' = [regionOf EXCEPT ![control[t]] = region[t]]
                \/ regionOf' = [regionOf EXCEPT ![control[t]] = None]
      BY ListMoves DEF attachment
    <3>2. ToFront(control[t]) \/ ToDetached(control[t]) => control[t] # c
      BY DEF ToFront, ToDetached
    <3> QED
      BY <1>1, <2>1, <3>1, <3>2 DEF Typed
  <2>3. CASE bits \subseteq bits'
    BY <1>4, <2>2, <2>3
  <2>4. CASE ~(bits \subseteq bits')
    <3>1. at[t] = "clear" /\ at'[t] \in {"clear", "raise"} /\ UNCHANGED control
      BY <2>4, SlotMoves
    <3>2. PICK s \in cache[t] : bits' = bits \ {s}
      BY <2>4, SlotMoves
    <3>3. s[1] = regionOf[control[t]] /\ control[t] \in Controls
      BY <1>1, <3>1 DEF CallKnown, RegionPlaces
    <3>4. CASE control[t] = c
      BY <3>1, <3>4
    <3>5. CASE control[t] # c
      <4>1. regionOf[control[t]] # regionOf[c]
        BY <2>1, <3>3, <3>5, ConstantTypes DEF IInv, RegionsApart
      <4>2. s \notin SlotsOf(regionOf[c])
        BY <3>3, <4>1 DEF SlotsOf
      <4> QED
        BY <1>4, <2>2, <3>2, <4>2
    <3> QED
      BY <3>4, <3>5
  <2> QED
    BY <2>3, <2>4
<1>5. CASE \E u \in Threads : control[u] = c /\ at[u] \in {"clear", "raise"}
  <2>1. PICK u \in Threads : control[u] = c /\ at[u] \in {"clear", "raise"}
    BY <1>5
  <2>2. CASE u # t
    BY <1>2, <2>1, <2>2
  <2>3. CASE u = t /\ at[t] = "clear"
    <3>1. at'[t] \in {"clear", "raise"} /\ control' = control
      BY <1>1, <2>3, ClearsAndRaises DEF ClearWord, Set, Goto, Typed
    <3> QED
      BY <2>1, <2>3, <3>1
  <2>4. CASE u = t /\ at[t] = "raise"
    <3>1. Raise(t)
      BY <2>4, ClearsAndRaises
    <3>2. CASE flag[region[t]]
      <4>1. c \notin issued /\ issued' = issued
        BY <1>1, <2>1, <2>4, <3>1, <3>2, ConstantTypes DEF Raise, CallKnown, RegionPlaces, IInv, ListsKnown, lists
      <4> QED
        BY <4>1
    <3>3. CASE ~flag[region[t]]
      BY <2>1, <2>4, <3>1, <3>3 DEF Raise, ToFront
    <3> QED
      BY <3>2, <3>3
  <2> QED
    BY <2>1, <2>2, <2>3, <2>4
<1>6. c \in issued => \/ SlotsOf(regionOf[c]) \subseteq bits
                      \/ \E u \in Threads : control[u] = c /\ at[u] \in {"clear", "raise"}
  BY DEF IInv, FreeSlotsAreFound, SlotsOf
<1> QED
  BY <1>3, <1>4, <1>5, <1>6

-----------------------------------------------------------------------------
(* The invariant, and what follows from it. *)

LEMMA NoneTwiceCounts ==
  ASSUME NEW V, NEW s \in Seq(V), NoneTwice(s)
  PROVE  Len(s) = Cardinality(ToSet(s))
<1>1. Len(s) \in Nat /\ DOMAIN s = 1..Len(s)
  OBVIOUS
<1>2. IsFiniteSet(1..Len(s)) /\ Cardinality(1..Len(s)) = Len(s)
  <2>1. Cardinality(1..Len(s)) = IF 1 > Len(s) THEN 0 ELSE Len(s) - 1 + 1
    BY <1>1, FS_Interval
  <2> QED
    BY <1>1, <2>1, FS_Interval
<1>3. s \in Bijection(1..Len(s), ToSet(s))
  <2>1. s \in [1..Len(s) -> ToSet(s)]
    BY <1>1 DEF ToSet
  <2>2. s \in Injection(1..Len(s), ToSet(s))
    BY <1>1, <2>1 DEF NoneTwice, Injection, IsInjective
  <2>3. s \in Surjection(1..Len(s), ToSet(s))
    BY <1>1, <2>1 DEF ToSet, Surjection
  <2> QED
    BY <2>2, <2>3 DEF Bijection
<1> QED
  BY <1>2, <1>3, FS_Bijection DEF ExistsBijection

LEMMA Starts == Init => IInv
<1> SUFFICES ASSUME Init PROVE IInv
  OBVIOUS
<1> USE ConstantTypes DEF Init
<1>1. Cardinality(Threads) \in Nat
  BY FS_CardinalityType
<1>2. TypeOK
  BY <1>1 DEF TypeOK
<1>3. CallsKnown
  BY DEF CallsKnown, CallKnown, RefillPlaces, RegionPlaces
<1>4. AccessKnown
  <2>1. \A c \in Controls : Readers(c) = {}
    BY DEF Readers, SharedPlaces
  <2>2. \A t \in Threads : at[t] \notin ClaimedPlaces
    BY DEF ClaimedPlaces, AlonePlaces
  <2>3. AlonePlaces \subseteq ClaimedPlaces
    BY DEF ClaimedPlaces
  <2> QED
    BY <2>1, <2>2, <2>3, FS_EmptySet DEF AccessKnown
<1>5. SlotsAccounted /\ OwnedSlotsAttached /\ FreeSlotsAreFound
  BY DEF SlotsAccounted, OwnedSlotsAttached, FreeSlotsAreFound
<1>6. RegionsApart
  BY DEF RegionsApart, Hand
<1>7. ListsKnown
  BY DEF ListsKnown, NoneTwice, ToSet
<1> QED
  BY <1>2, <1>3, <1>4, <1>5, <1>6, <1>7 DEF IInv

LEMMA Steps == IInv /\ [Next]_vars => IInv'
<1>1. ASSUME IInv, NEW t \in Threads, StepOf(t) PROVE IInv'
  <2>1. Typed' /\ ListsTyped(available', detached', issued') /\ ListsKnown' /\ AccessKnown'
    BY <1>1, TypedKept, ListsKept, AccessKept
  <2>2. TypeOK'
    <3>1. \A c \in Controls : readers'[c] \in 0..Cardinality(Threads)
      <4> SUFFICES ASSUME NEW c \in Controls PROVE readers'[c] \in 0..Cardinality(Threads)
        OBVIOUS
      <4>1. Readers(c)' \in SUBSET Threads
        BY DEF Readers
      <4>2. readers'[c] = Cardinality(Readers(c)')
        BY <1>1, ReadersKept
      <4> QED
        BY <4>1, <4>2, ReadersAre
    <3>2. readers' \in [Controls -> 0..Cardinality(Threads)]
      BY <2>1, <3>1 DEF Typed
    <3> QED
      BY <2>1, <3>2 DEF TypeOK, Typed, ListsTyped
  <2> QED
    BY <1>1, <2>1, <2>2, CallsKept, SlotsKept, OwnedKept, RegionsKept, FoundKept DEF IInv
<1>2. ASSUME IInv, UNCHANGED vars PROVE IInv'
  <2> USE <1>2 DEF vars, lists, attachment, semaphore, locals
  <2>1. TypeOK' /\ CallsKnown' /\ AccessKnown'
    BY DEF IInv, TypeOK, CallsKnown, CallKnown, AccessKnown, Readers
  <2>2. SlotsAccounted' /\ OwnedSlotsAttached' /\ RegionsApart' /\ ListsKnown' /\ FreeSlotsAreFound'
    BY DEF IInv, SlotsAccounted, OwnedSlotsAttached, RegionsApart, Hand, ListsKnown, FreeSlotsAreFound
  <2> QED
    BY <2>1, <2>2 DEF IInv
<1> QED
  BY <1>1, <1>2 DEF Next, StepOf

LEMMA Counted == IInv => RegionsAccounted
<1> SUFFICES ASSUME IInv PROVE RegionsAccounted
  OBVIOUS
<1>1. Typed /\ RegionsApart
  BY TypesAre DEF IInv
<1>2. ASSUME NEW r \in Regions
      PROVE  Cardinality({c \in Controls : regionOf[c] = r})
             + (IF r \in free THEN 1 ELSE 0) + (IF r \in InHand THEN 1 ELSE 0) = 1
  <2> DEFINE holders == {c \in Controls : regionOf[c] = r}
  <2>1. r \in InHand <=> \E t \in Threads : Hand(t) /\ region[t] = r
    BY ConstantTypes DEF InHand, Hand
  <2>2. Cardinality({}) = 0 /\ \A c : Cardinality({c}) = 1
    BY FS_EmptySet, FS_Singleton
  <2>3. CASE \E c \in Controls : regionOf[c] = r
    <3>1. PICK c \in Controls : regionOf[c] = r
      BY <2>3
    <3>2. r \notin free /\ r \notin InHand /\ holders = {c}
      BY <1>1, <2>1, <3>1, ConstantTypes DEF RegionsApart
    <3>3. Cardinality(holders) = 1
      BY <2>2, <3>2
    <3> HIDE DEF holders
    <3>4. Cardinality(holders) + (IF r \in free THEN 1 ELSE 0) + (IF r \in InHand THEN 1 ELSE 0) = 1
      BY <3>2, <3>3
    <3> QED
      BY <3>4 DEF holders
  <2>4. CASE ~\E c \in Controls : regionOf[c] = r
    <3>1. holders = {}
      BY <2>4
    <3>2. (r \in free /\ r \notin InHand) \/ (r \notin free /\ r \in InHand)
      BY <1>1, <2>1, <2>4 DEF RegionsApart
    <3>3. Cardinality(holders) = 0
      BY <2>2, <3>1
    <3> HIDE DEF holders
    <3>4. Cardinality(holders) + (IF r \in free THEN 1 ELSE 0) + (IF r \in InHand THEN 1 ELSE 0) = 1
      BY <3>2, <3>3
    <3> QED
      BY <3>4 DEF holders
  <2> QED
    BY <2>3, <2>4
<1>3. ASSUME NEW t \in Threads,
             at[t] \in {"load", "claim", "scanned", "access", "clear", "raise", "scanEmpty"}
      PROVE  region[t] \notin free
  <2>1. CallKnown(t)
    BY DEF IInv, CallsKnown
  <2>2. CASE at[t] = "access"
    <3>1. PICK s \in cache[t] : s[1] = region[t]
      BY <2>1, <2>2 DEF CallKnown
    <3>2. s \in bits
      BY <3>1 DEF IInv, SlotsAccounted
    <3> QED
      BY <3>1, <3>2, FreeRegionsClear
  <2>3. CASE at[t] # "access"
    <3>1. region[t] \in Regions /\ regionOf[control[t]] = region[t] /\ control[t] \in Controls
      BY <1>3, <2>1, <2>3 DEF CallKnown, RegionPlaces
    <3> QED
      BY <1>1, <3>1, ConstantTypes DEF RegionsApart
  <2> QED
    BY <2>2, <2>3
<1> QED
  BY <1>2, <1>3 DEF RegionsAccounted

\* Whatever interrupts refills, returns and retirements of the threads: every
\* slot set in a bitmap has one owner, and every owned slot is set; the region of
\* an owned slot is attached to the control its header names; a region is in
\* layer 4, attached to one control, or in one thread's hand between the two, and
\* nobody touches it while it is in layer 4; a control is on the list its region
\* and the region's flag say, once.
THEOREM SlotsAndRegionsAccounted == Spec => []ClassInv
<1>1. IInv => ClassInv
  <2> SUFFICES ASSUME IInv PROVE ClassInv
    OBVIOUS
  <2>1. Len(available) = Cardinality(ToSet(available)) /\ Len(detached) = Cardinality(ToSet(detached))
    BY TypesAre, NoneTwiceCounts DEF IInv, ListsKnown
  <2>2. ListsTellTruth
    BY <2>1 DEF IInv, ListsKnown, ListsTellTruth
  <2> QED
    BY <2>2, Counted DEF IInv, ClassInv
<1> QED
  BY Starts, Steps, <1>1, PTL DEF Spec

\* A region is off the list of those that may have slots only while it is full,
\* or while the thread that has just cleared a slot of it is on its way to put it
\* back: no refill attaches another region because a free slot is forgotten.
THEOREM FreeSlotsStayFound == Spec => []FreeSlotsAreFound
<1>1. IInv => FreeSlotsAreFound
  BY DEF IInv
<1> QED
  BY Starts, Steps, <1>1, PTL DEF Spec
=============================================================================
