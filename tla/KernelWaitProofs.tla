-------------------------- MODULE KernelWaitProofs --------------------------
(***************************************************************************)
(* Proofs about ThreadLifecycle, for any set of threads on both kinds of   *)
(* platform, and about RegionControl, for any finite set of threads and    *)
(* any limit on the number of readers, alone and in the program of         *)
(* MCKernelWaits that runs either.                                         *)
(***************************************************************************)
EXTENDS MCKernelWaits, FiniteSetTheorems, TLAPS

-----------------------------------------------------------------------------
(* Threads, their handles and joins. *)

Constructing(u) == call[u] \in {"publish", "create"}
Joining(u) == call[u] \in {"load", "wait", "asleep", "release", "delete"}

TypesKnown ==
    /\ static \in BOOLEAN /\ panicked \in BOOLEAN
    /\ control \in [Threads -> {"none", "allocated", "freed"}]
    /\ entry \in [Threads -> {"none", "live", "destroyed"}]
    /\ mapping \in [Threads -> {"none", "mapped", "released"}]
    /\ published \in [Threads -> BOOLEAN]
    /\ tid \in [Threads -> BOOLEAN]
    /\ identity \in [Threads -> BOOLEAN]
    /\ phase \in [Threads -> Phases]
    /\ holder \in [Threads -> Threads \cup {None}]
    /\ call \in [Threads -> Calls]
    /\ about \in [Threads -> Threads \cup {None}]

\* Only a running thread is in a call, and a call is about one thread.
CallsKnown ==
    \A u \in Threads :
       /\ call[u] = "none" => about[u] = None
       /\ call[u] # "none" => about[u] \in Threads /\ phase[u] \in {"program", "drain"}

\* What is under construction is unborn, and one thread constructs it.
ConstructionKnown ==
    /\ \A u \in Threads : Constructing(u) =>
          /\ ~panicked => /\ control[about[u]] = "allocated" /\ entry[about[u]] = "live"
                           /\ mapping[about[u]] # "released"
          /\ phase[about[u]] = "unborn" /\ about[u] # Main
          /\ holder[about[u]] = None
          /\ call[u] = "create" => published[about[u]]
    /\ \A u, v \in Threads : Constructing(u) /\ Constructing(v) /\ about[u] = about[v] => u = v

\* A join is about a thread whose handle the joiner holds; past its wait that
\* thread has left its memory, and past the release nothing is mapped.
JoinKnown ==
    \A u \in Threads : Joining(u) =>
       /\ holder[about[u]] = u
       /\ call[u] = "release" => phase[about[u]] \in {"cleared", "gone"}
       /\ call[u] = "delete" => /\ phase[about[u]] \in {"cleared", "gone"}
                                /\ mapping[about[u]] # "mapped"
       /\ call[u] \in {"load", "asleep", "release"} => static

\* What is known of a thread from how far it has come.
KnownOf(t) ==
    /\ control[t] = "none" => phase[t] = "unborn" /\ mapping[t] = "none"
    /\ control[t] = "freed" => holder[t] = None /\ entry[t] = "destroyed"
                               /\ mapping[t] # "mapped"
    /\ phase[t] = "born" => published[t] /\ entry[t] = "live"
    /\ phase[t] \in {"drain", "exit", "cleared", "gone"} => entry[t] = "destroyed"
    /\ static /\ phase[t] \in {"born", "program", "drain", "exit"} => tid[t]
    /\ mapping[t] # "none" => static
    /\ mapping[t] = "released" /\ phase[t] # "unborn" =>
          phase[t] \in {"cleared", "gone"}
    /\ control[t] = "freed" => phase[t] \in {"unborn", "cleared", "gone"}
    /\ phase[t] # "unborn" /\ control[t] = "allocated" => holder[t] # None
    /\ holder[t] # None => /\ phase[t] # "unborn" /\ control[t] = "allocated"
                           /\ phase[holder[t]] \in {"program", "drain"}

ThreadKnown == \A t \in Threads \ {Main} : KnownOf(t)

MainKnown ==
    /\ control[Main] = "none" /\ mapping[Main] = "none" /\ holder[Main] = None
    /\ phase[Main] \notin {"unborn", "born"}

IInv == /\ TypesKnown /\ CallsKnown /\ ConstructionKnown /\ JoinKnown /\ ThreadKnown
        /\ MainKnown

-----------------------------------------------------------------------------
\* A step is some thread's.
StepOf(u) ==
    \/ Publish(u)
    \/ Create(u)
    \/ CreateFails(u)
    \/ LoadTid(u)
    \/ SleepOnTid(u)
    \/ SystemJoin(u)
    \/ Release(u)
    \/ Delete(u)
    \/ WakeSpuriously(u)
    \/ Start(u)
    \/ DestroyEntry(u)
    \/ Finish(u)
    \/ KernelClears(u)
    \/ KernelWakes(u)
    \/ \E t \in Threads : Construct(u, t) \/ Join(u, t)
                          \/ \E v \in Threads : Give(u, v, t)

\* Every step keeps the variables in their types.
LEMMA TypesKept == IInv /\ Next => TypesKnown'
<1>. SUFFICES ASSUME IInv, Next PROVE TypesKnown'
  OBVIOUS
<1>1. PICK u \in Threads : StepOf(u)
  BY DEF Next, JoinStep, LifeStep, StepOf
<1>. Running BY DEF Next
<1>2. CASE Publish(u)
  BY <1>2 DEF Publish, memory, Set, Continue, IInv, TypesKnown, Calls
<1>3. CASE Create(u)
  BY <1>3 DEF Create, memory, Set, Return, IInv, TypesKnown, Phases, Calls
<1>4. CASE CreateFails(u)
  BY <1>4 DEF CreateFails, words, Set, IInv, TypesKnown
<1>5. CASE LoadTid(u)
  BY <1>5 DEF LoadTid, memory, words, Set, Continue, IInv, TypesKnown, Calls
<1>6. CASE SleepOnTid(u)
  BY <1>6 DEF SleepOnTid, memory, words, Set, Continue, IInv, TypesKnown, Calls
<1>7. CASE SystemJoin(u)
  BY <1>7 DEF SystemJoin, memory, words, Set, Continue, IInv, TypesKnown, Calls
<1>8. CASE Release(u)
  BY <1>8 DEF Release, words, Set, Continue, IInv, TypesKnown, Calls
<1>9. CASE Delete(u)
  BY <1>9 DEF Delete, words, Set, Return, IInv, TypesKnown, Calls
<1>10. CASE WakeSpuriously(u)
  BY <1>10 DEF WakeSpuriously, memory, words, Set, Continue, IInv, TypesKnown, Calls
<1>11. CASE Start(u)
  BY <1>11 DEF Start, memory, Set, IInv, TypesKnown, Phases
<1>12. CASE DestroyEntry(u)
  BY <1>12 DEF DestroyEntry, words, Set, IInv, TypesKnown, Phases
<1>13. CASE Finish(u)
  BY <1>13 DEF Finish, memory, Set, IInv, TypesKnown, Phases
<1>14. CASE KernelClears(u)
  BY <1>14 DEF KernelClears, memory, Set, IInv, TypesKnown, Phases
<1>15. CASE KernelWakes(u)
  BY <1>15 DEF KernelWakes, memory, words, Set, IInv, TypesKnown, Phases, Calls
<1>16. ASSUME NEW t \in Threads, Construct(u, t) PROVE TypesKnown'
  BY <1>16 DEF Construct, words, Set, IInv, TypesKnown, Calls
<1>17. ASSUME NEW t \in Threads, Join(u, t) PROVE TypesKnown'
  <2>1. CASE t = u /\ identity[u]
    BY <1>17, <2>1 DEF Join, Panic, Running, memory, words, Set, Continue, Return,
       InProgram, IInv, TypesKnown
  <2>2. CASE ~(t = u /\ identity[u])
    BY <1>17, <2>2 DEF Join, Running, memory, words, Set, Continue, Return, InProgram,
       IInv, TypesKnown, Calls
  <2>. QED
    BY <2>1, <2>2
<1>18. ASSUME NEW t \in Threads, NEW v \in Threads, Give(u, v, t) PROVE TypesKnown'
  BY <1>18 DEF Give, memory, words, Set, IInv, TypesKnown
<1>. QED
  BY <1>1, <1>2, <1>3, <1>4, <1>5, <1>6, <1>7, <1>8, <1>9, <1>10, <1>11, <1>12, <1>13,
     <1>14, <1>15, <1>16, <1>17, <1>18 DEF StepOf

\* Every step leaves calls to running threads and names the thread they are about.
LEMMA CallsKept == IInv /\ Next => CallsKnown'
<1>. SUFFICES ASSUME IInv, Next PROVE CallsKnown'
  OBVIOUS
<1>1. PICK u \in Threads : StepOf(u)
  BY DEF Next, JoinStep, LifeStep, StepOf
<1>. Running BY DEF Next
<1>. TypesKnown'
  BY TypesKept
<1>2. CASE Publish(u)
  BY <1>2 DEF Publish, Set, Continue, IInv, CallsKnown
<1>3. CASE Create(u)
  BY <1>3 DEF Create, Set, Return, IInv, TypesKnown, CallsKnown, ConstructionKnown,
     Constructing
<1>4. CASE CreateFails(u)
  BY <1>4 DEF CreateFails, IInv, CallsKnown
<1>5. CASE LoadTid(u)
  BY <1>5 DEF LoadTid, Set, Continue, IInv, CallsKnown
<1>6. CASE SleepOnTid(u)
  BY <1>6 DEF SleepOnTid, Set, Continue, IInv, CallsKnown
<1>7. CASE SystemJoin(u)
  BY <1>7 DEF SystemJoin, Set, Continue, IInv, CallsKnown
<1>8. CASE Release(u)
  BY <1>8 DEF Release, Set, Continue, IInv, CallsKnown
<1>9. CASE Delete(u)
  BY <1>9 DEF Delete, Set, Return, IInv, TypesKnown, CallsKnown
<1>10. CASE WakeSpuriously(u)
  BY <1>10 DEF WakeSpuriously, Set, Continue, IInv, CallsKnown
<1>11. CASE Start(u)
  BY <1>11 DEF Start, Set, IInv, CallsKnown
<1>12. CASE DestroyEntry(u)
  BY <1>12 DEF DestroyEntry, Set, IInv, CallsKnown
<1>13. CASE Finish(u)
  BY <1>13 DEF Finish, Set, IInv, CallsKnown
<1>14. CASE KernelClears(u)
  BY <1>14 DEF KernelClears, Set, IInv, CallsKnown
<1>15. CASE KernelWakes(u)
  BY <1>15 DEF KernelWakes, Set, IInv, CallsKnown
<1>16. ASSUME NEW t \in Threads, Construct(u, t) PROVE CallsKnown'
  BY <1>16 DEF Construct, Running, memory, words, Set, Continue, Return, InProgram,
     IInv, TypesKnown, CallsKnown
<1>17. ASSUME NEW t \in Threads, Join(u, t) PROVE CallsKnown'
  BY <1>17, ThreadTypes DEF Join, Panic, Set, IInv, TypesKnown, CallsKnown, ThreadKnown,
     KnownOf, MainKnown
<1>18. ASSUME NEW t \in Threads, NEW v \in Threads, Give(u, v, t) PROVE CallsKnown'
  BY <1>18 DEF Give, IInv, CallsKnown
<1>. QED
  BY <1>1, <1>2, <1>3, <1>4, <1>5, <1>6, <1>7, <1>8, <1>9, <1>10, <1>11, <1>12, <1>13,
     <1>14, <1>15, <1>16, <1>17, <1>18 DEF StepOf

\* Every step leaves what is under construction unborn and with its one constructor.
LEMMA ConstructionKept == IInv /\ Next => ConstructionKnown'
<1>. SUFFICES ASSUME IInv, Next PROVE ConstructionKnown'
  OBVIOUS
<1>1. PICK u \in Threads : StepOf(u)
  BY DEF Next, JoinStep, LifeStep, StepOf
<1>. Running BY DEF Next
<1>. TypesKnown'
  BY TypesKept
<1>2. CASE Publish(u)
  BY <1>2 DEF Publish, memory, Set, Continue, IInv, TypesKnown, ConstructionKnown,
     Constructing
<1>3. CASE Create(u)
  BY <1>3 DEF Create, memory, Set, Return, IInv, TypesKnown, ConstructionKnown,
     Constructing
<1>4. CASE CreateFails(u)
  BY <1>4 DEF CreateFails, words, IInv, ConstructionKnown, Constructing
<1>5. CASE LoadTid(u)
  BY <1>5 DEF LoadTid, memory, words, Set, Continue, IInv, ConstructionKnown,
     Constructing
<1>6. CASE SleepOnTid(u)
  BY <1>6 DEF SleepOnTid, memory, words, Set, Continue, IInv, ConstructionKnown,
     Constructing
<1>7. CASE SystemJoin(u)
  BY <1>7 DEF SystemJoin, memory, words, Set, Continue, IInv, ConstructionKnown,
     Constructing
<1>8. CASE Release(u)
  BY <1>8 DEF Release, words, Set, Continue, IInv, JoinKnown, Joining,
     ConstructionKnown, Constructing
<1>9. CASE Delete(u)
  BY <1>9 DEF Delete, words, Set, Return, IInv, JoinKnown, Joining, ConstructionKnown,
     Constructing
<1>10. CASE WakeSpuriously(u)
  BY <1>10 DEF WakeSpuriously, memory, words, Set, Continue, IInv, ConstructionKnown,
     Constructing
<1>11. CASE Start(u)
  BY <1>11 DEF Start, memory, Set, IInv, ConstructionKnown, Constructing
<1>12. CASE DestroyEntry(u)
  BY <1>12 DEF DestroyEntry, words, Set, IInv, TypesKnown, CallsKnown,
     ConstructionKnown, Constructing
<1>13. CASE Finish(u)
  BY <1>13 DEF Finish, memory, Set, IInv, ConstructionKnown, Constructing
<1>14. CASE KernelClears(u)
  BY <1>14 DEF KernelClears, memory, Set, IInv, ConstructionKnown, Constructing
<1>15. CASE KernelWakes(u)
  BY <1>15 DEF KernelWakes, memory, words, Set, IInv, ConstructionKnown, Constructing
<1>16. ASSUME NEW t \in Threads, Construct(u, t) PROVE ConstructionKnown'
  BY <1>16 DEF Construct, Running, words, Set, IInv, TypesKnown, CallsKnown,
     ConstructionKnown, Constructing, ThreadKnown, KnownOf
<1>17. ASSUME NEW t \in Threads, Join(u, t) PROVE ConstructionKnown'
  BY <1>17 DEF Join, Panic, memory, words, Set, IInv, TypesKnown, ConstructionKnown,
     Constructing
<1>18. ASSUME NEW t \in Threads, NEW v \in Threads, Give(u, v, t) PROVE ConstructionKnown'
  BY <1>18, ThreadTypes DEF Give, memory, words, Set, IInv, ConstructionKnown,
     Constructing
<1>. QED
  BY <1>1, <1>2, <1>3, <1>4, <1>5, <1>6, <1>7, <1>8, <1>9, <1>10, <1>11, <1>12, <1>13,
     <1>14, <1>15, <1>16, <1>17, <1>18 DEF StepOf

\* Every step leaves the joiner the handle, and the joined thread past its end.
LEMMA JoinKept == IInv /\ Next => JoinKnown'
<1>. SUFFICES ASSUME IInv, Next PROVE JoinKnown'
  OBVIOUS
<1>1. PICK u \in Threads : StepOf(u)
  BY DEF Next, JoinStep, LifeStep, StepOf
<1>. Running BY DEF Next
<1>. TypesKnown'
  BY TypesKept
<1>2. CASE Publish(u)
  BY <1>2 DEF Publish, memory, Set, Continue, IInv, JoinKnown, Joining
<1>3. CASE Create(u)
  BY <1>3, ThreadTypes DEF Create, memory, Set, Return, IInv, JoinKnown, Joining,
     ConstructionKnown, Constructing
<1>4. CASE CreateFails(u)
  BY <1>4 DEF CreateFails, Set, IInv, TypesKnown, CallsKnown, JoinKnown, Joining
<1>5. CASE LoadTid(u)
  BY <1>5, ThreadTypes DEF LoadTid, memory, Set, Continue, IInv, TypesKnown, Phases,
     CallsKnown, JoinKnown, Joining, ThreadKnown, KnownOf, MainKnown
<1>6. CASE SleepOnTid(u)
  BY <1>6 DEF SleepOnTid, memory, Set, Continue, IInv, JoinKnown, Joining
<1>7. CASE SystemJoin(u)
  BY <1>7 DEF SystemJoin, memory, Set, Continue, IInv, CallsKnown, JoinKnown, Joining,
     ThreadKnown, KnownOf, MainKnown
<1>8. CASE Release(u)
  BY <1>8 DEF Release, Set, Continue, IInv, TypesKnown, JoinKnown, Joining
<1>9. CASE Delete(u)
  BY <1>9 DEF Delete, Set, Return, IInv, TypesKnown, JoinKnown, Joining
<1>10. CASE WakeSpuriously(u)
  BY <1>10 DEF WakeSpuriously, memory, Set, Continue, IInv, JoinKnown, Joining
<1>11. CASE Start(u)
  BY <1>11 DEF Start, memory, Set, IInv, JoinKnown, Joining
<1>12. CASE DestroyEntry(u)
  BY <1>12 DEF DestroyEntry, Set, IInv, JoinKnown, Joining
<1>13. CASE Finish(u)
  BY <1>13 DEF Finish, memory, Set, IInv, JoinKnown, Joining
<1>14. CASE KernelClears(u)
  BY <1>14 DEF KernelClears, memory, Set, IInv, JoinKnown, Joining
<1>15. CASE KernelWakes(u)
  BY <1>15 DEF KernelWakes, memory, Set, IInv, JoinKnown, Joining
<1>16. ASSUME NEW t \in Threads, Construct(u, t) PROVE JoinKnown'
  BY <1>16 DEF Construct, Set, IInv, TypesKnown, CallsKnown, JoinKnown, Joining,
     ThreadKnown, KnownOf
<1>17. ASSUME NEW t \in Threads, Join(u, t) PROVE JoinKnown'
  BY <1>17 DEF Join, Panic, memory, Set, IInv, TypesKnown, JoinKnown, Joining
<1>18. ASSUME NEW t \in Threads, NEW v \in Threads, Give(u, v, t) PROVE JoinKnown'
  BY <1>18 DEF Give, Running, memory, words, Set, Continue, Return, InProgram, IInv,
     JoinKnown, Joining
<1>. QED
  BY <1>1, <1>2, <1>3, <1>4, <1>5, <1>6, <1>7, <1>8, <1>9, <1>10, <1>11, <1>12, <1>13,
     <1>14, <1>15, <1>16, <1>17, <1>18 DEF StepOf

\* Every step leaves each thread but the main one what its phase tells.
LEMMA ThreadKept == IInv /\ Next => ThreadKnown'
<1>. SUFFICES ASSUME IInv, Next PROVE ThreadKnown'
  OBVIOUS
<1>1. PICK u \in Threads : StepOf(u)
  BY DEF Next, JoinStep, LifeStep, StepOf
<1>. Running BY DEF Next
<1>. TypesKnown'
  BY TypesKept
<1>2. CASE Publish(u)
  BY <1>2 DEF Publish, memory, Set, IInv, ThreadKnown, KnownOf
<1>3. CASE Create(u)
  <2>1. PICK c \in Threads :
        /\ about[u] = c /\ c # Main /\ phase[c] = "unborn"
        /\ control[c] = "allocated" /\ entry[c] = "live" /\ published[c]
        /\ mapping[c] # "released"
        /\ phase[u] \in {"program", "drain"} /\ u # c
    BY <1>3 DEF Create, Running, IInv, CallsKnown, ConstructionKnown, Constructing
  <2>2. /\ phase' = [phase EXCEPT ![c] = "born"] /\ holder' = [holder EXCEPT ![c] = u]
        /\ tid' = IF static THEN [tid EXCEPT ![c] = TRUE] ELSE tid
        /\ UNCHANGED <<static, control, entry, mapping, published>>
    BY <1>3, <2>1 DEF Create, Set, Return, memory
  <2>3. ASSUME NEW t \in Threads \ {Main}, t # c PROVE KnownOf(t)'
    <3>1. phase'[t] = phase[t] /\ holder'[t] = holder[t] /\ tid'[t] = tid[t]
      BY <2>2, <2>3 DEF IInv, TypesKnown
    <3>2. KnownOf(t)
      BY DEF IInv, KnownOf, ThreadKnown
    <3>3. holder[t] # None => holder[t] # c /\ phase'[holder[t]] = phase[holder[t]]
      BY <2>1, <2>2, <3>2 DEF IInv, TypesKnown, KnownOf
    <3>. QED
      BY <2>2, <3>1, <3>2, <3>3 DEF KnownOf
  <2>4. KnownOf(c)'
    <3>1. /\ phase'[c] = "born" /\ holder'[c] = u /\ phase'[u] = phase[u]
          /\ static => tid'[c]
      BY <2>1, <2>2 DEF IInv, TypesKnown
    <3>2. KnownOf(c) /\ u # None
      BY <2>1, ThreadTypes DEF IInv, ThreadKnown
    <3>. QED
      BY <2>1, <2>2, <3>1, <3>2 DEF KnownOf
  <2>. QED
    BY <2>3, <2>4 DEF ThreadKnown
<1>4. CASE CreateFails(u)
  BY <1>4 DEF CreateFails, words, Set, IInv, TypesKnown, ConstructionKnown,
     Constructing, ThreadKnown, KnownOf
<1>5. CASE LoadTid(u)
  BY <1>5 DEF LoadTid, memory, words, IInv, ThreadKnown, KnownOf
<1>6. CASE SleepOnTid(u)
  BY <1>6 DEF SleepOnTid, memory, words, IInv, ThreadKnown, KnownOf
<1>7. CASE SystemJoin(u)
  BY <1>7 DEF SystemJoin, memory, words, IInv, ThreadKnown, KnownOf
<1>8. CASE Release(u)
  BY <1>8 DEF Release, words, Set, IInv, JoinKnown, Joining, ThreadKnown, KnownOf
<1>9. CASE Delete(u)
  BY <1>9 DEF Delete, words, Set, IInv, TypesKnown, JoinKnown, Joining, ThreadKnown,
     KnownOf
<1>10. CASE WakeSpuriously(u)
  BY <1>10 DEF WakeSpuriously, memory, words, IInv, ThreadKnown, KnownOf
<1>11. CASE Start(u)
  BY <1>11 DEF Start, memory, Set, IInv, ThreadKnown, KnownOf
<1>12. CASE DestroyEntry(u)
  BY <1>12 DEF DestroyEntry, words, Set, IInv, TypesKnown, ThreadKnown, KnownOf
<1>13. CASE Finish(u)
  BY <1>13 DEF Finish, memory, Set, IInv, ThreadKnown, KnownOf
<1>14. CASE KernelClears(u)
  BY <1>14 DEF KernelClears, memory, Set, IInv, TypesKnown, ThreadKnown, KnownOf
<1>15. CASE KernelWakes(u)
  BY <1>15 DEF KernelWakes, memory, words, Set, IInv, ThreadKnown, KnownOf
<1>16. ASSUME NEW t \in Threads, Construct(u, t) PROVE ThreadKnown'
  BY <1>16 DEF Construct, words, Set, IInv, TypesKnown, ThreadKnown, KnownOf
<1>17. ASSUME NEW t \in Threads, Join(u, t) PROVE ThreadKnown'
  BY <1>17 DEF Join, Panic, memory, words, IInv, ThreadKnown, KnownOf
<1>18. ASSUME NEW t \in Threads, NEW v \in Threads, Give(u, v, t) PROVE ThreadKnown'
  BY <1>18, ThreadTypes DEF Give, memory, words, Set, IInv, ThreadKnown, KnownOf
<1>. QED
  BY <1>1, <1>2, <1>3, <1>4, <1>5, <1>6, <1>7, <1>8, <1>9, <1>10, <1>11, <1>12, <1>13,
     <1>14, <1>15, <1>16, <1>17, <1>18 DEF StepOf

\* The main thread has no memory of the library's and nobody holds it.
LEMMA MainKept == IInv /\ Next => MainKnown'
<1>. SUFFICES ASSUME IInv, Next PROVE MainKnown'
  OBVIOUS
<1>1. PICK u \in Threads : StepOf(u)
  BY DEF Next, JoinStep, LifeStep, StepOf
<1>. Running BY DEF Next
<1>. TypesKnown'
  BY TypesKept
<1>2. CASE Publish(u)
  BY <1>2 DEF Publish, memory, IInv, MainKnown
<1>3. CASE Create(u)
  BY <1>3 DEF Create, memory, Set, IInv, ConstructionKnown, Constructing, MainKnown
<1>4. CASE CreateFails(u)
  BY <1>4, ThreadTypes DEF CreateFails, Set, IInv, TypesKnown, ConstructionKnown,
     Constructing, MainKnown
<1>5. CASE LoadTid(u)
  BY <1>5 DEF LoadTid, memory, IInv, MainKnown
<1>6. CASE SleepOnTid(u)
  BY <1>6 DEF SleepOnTid, memory, IInv, MainKnown
<1>7. CASE SystemJoin(u)
  BY <1>7 DEF SystemJoin, memory, IInv, MainKnown
<1>8. CASE Release(u)
  BY <1>8, ThreadTypes DEF Release, Set, IInv, JoinKnown, Joining, MainKnown
<1>9. CASE Delete(u)
  BY <1>9, ThreadTypes DEF Delete, Set, IInv, JoinKnown, Joining, MainKnown
<1>10. CASE WakeSpuriously(u)
  BY <1>10 DEF WakeSpuriously, memory, IInv, MainKnown
<1>11. CASE Start(u)
  BY <1>11 DEF Start, memory, Set, IInv, MainKnown
<1>12. CASE DestroyEntry(u)
  BY <1>12 DEF DestroyEntry, Set, IInv, MainKnown
<1>13. CASE Finish(u)
  BY <1>13 DEF Finish, memory, Set, IInv, MainKnown
<1>14. CASE KernelClears(u)
  BY <1>14 DEF KernelClears, memory, Set, IInv, MainKnown
<1>15. CASE KernelWakes(u)
  BY <1>15 DEF KernelWakes, memory, Set, IInv, MainKnown
<1>16. ASSUME NEW t \in Threads, Construct(u, t) PROVE MainKnown'
  BY <1>16, ThreadTypes DEF Construct, Set, IInv, TypesKnown, MainKnown
<1>17. ASSUME NEW t \in Threads, Join(u, t) PROVE MainKnown'
  BY <1>17 DEF Join, Panic, memory, IInv, MainKnown
<1>18. ASSUME NEW t \in Threads, NEW v \in Threads, Give(u, v, t) PROVE MainKnown'
  BY <1>18, ThreadTypes DEF Give, memory, Set, IInv, MainKnown
<1>. QED
  BY <1>1, <1>2, <1>3, <1>4, <1>5, <1>6, <1>7, <1>8, <1>9, <1>10, <1>11, <1>12, <1>13,
     <1>14, <1>15, <1>16, <1>17, <1>18 DEF StepOf

\* The invariant holds at the start.
LEMMA Starts == Init => IInv
<1>. SUFFICES ASSUME Init PROVE IInv
  OBVIOUS
<1>1. TypesKnown
  BY ThreadTypes DEF Init, All, TypesKnown, Phases, Calls
<1>2. CallsKnown /\ ConstructionKnown /\ JoinKnown
  BY DEF Init, All, CallsKnown, ConstructionKnown, JoinKnown, Constructing, Joining
<1>3. ThreadKnown
  BY DEF Init, All, ThreadKnown, KnownOf
<1>4. MainKnown
  BY ThreadTypes DEF Init, All, MainKnown
<1>. QED
  BY <1>1, <1>2, <1>3, <1>4 DEF IInv

\* The invariant survives stuttering.
LEMMA Stutters == IInv /\ UNCHANGED vars => IInv'
<1>. SUFFICES ASSUME IInv, UNCHANGED vars PROVE IInv'
  OBVIOUS
<1>1. TypesKnown' /\ CallsKnown'
  BY DEF vars, memory, words, IInv, TypesKnown, CallsKnown
<1>2. ConstructionKnown'
  BY DEF vars, memory, words, IInv, Constructing, ConstructionKnown
<1>3. JoinKnown'
  BY DEF vars, memory, words, IInv, Joining, JoinKnown
<1>4. ThreadKnown' /\ MainKnown'
  BY DEF vars, memory, words, IInv, ThreadKnown, KnownOf, MainKnown
<1>. QED
  BY <1>1, <1>2, <1>3, <1>4 DEF IInv

\* The invariant implies the property that is checked.
LEMMA Told == IInv => HandleInv
<1>. SUFFICES ASSUME IInv PROVE HandleInv
  OBVIOUS
<1>1. TypeOK
  BY ThreadTypes DEF IInv, TypesKnown, ThreadKnown, KnownOf, MainKnown, TypeOK
<1>2. StartsPublished
  BY DEF IInv, ThreadKnown, KnownOf, MainKnown, StartsPublished
<1>3. HeldByLiving
  BY DEF IInv, TypesKnown, ThreadKnown, KnownOf, HeldByLiving
<1>4. NothingLeftBehind
  BY ThreadTypes DEF IInv, ThreadKnown, KnownOf, MainKnown, CallsKnown,
     ConstructionKnown, Constructing,
                     JoinKnown, Joining, TypesKnown, Calls, NothingLeftBehind
<1>5. MemoryOutlivesThread
  BY DEF IInv, TypesKnown, Phases, ThreadKnown, KnownOf, MainKnown,
     MemoryOutlivesThread, OffItsStack
<1>. QED
  BY <1>1, <1>2, <1>3, <1>4, <1>5 DEF HandleInv

\* A thread's control, stack and TLS block outlive its last use, failures leave nothing
\* behind, and every handle is in the hands of a thread that will still join it:
\* std::thread for any number of threads, static or not.
THEOREM HandleTold == Spec => []HandleInv
<1>1. IInv /\ [Next]_vars => IInv'
  BY TypesKept, CallsKept, ConstructionKept, JoinKept, ThreadKept, MainKept, Stutters
     DEF IInv
<1>. QED
  BY <1>1, Starts, Told, PTL DEF Spec

-----------------------------------------------------------------------------
(* Main ends last. *)

NoCircle == ~WaitInCircle(holder)

\* How handles change hands: to the creator of an unborn thread, to whom they are
\* given, and to nobody.
LEMMA HandleMoves ==
  ASSUME IInv, [Next]_vars
  PROVE  \/ holder' = holder
         \/ \E u, t \in Threads : /\ holder' = [holder EXCEPT ![t] = u]
                                  /\ \A x \in Threads : holder[x] # t
         \/ \E h : holder' = h /\ ~WaitInCircle(h)
         \/ \E t \in Threads : holder' = [holder EXCEPT ![t] = None]
<1>1. CASE UNCHANGED vars
  BY <1>1 DEF vars
<1>2. ASSUME NEW u \in Threads, StepOf(u)
      PROVE  \/ holder' = holder
             \/ Create(u) \/ Delete(u)
             \/ \E h : holder' = h /\ ~WaitInCircle(h)
  BY <1>2 DEF StepOf, Publish, CreateFails, LoadTid, SleepOnTid, SystemJoin, Release,
     WakeSpuriously, Start, DestroyEntry, Finish, KernelClears, KernelWakes, Construct, Join, Give,
     Panic, Set
<1>3. ASSUME NEW u \in Threads, Create(u)
      PROVE  \E t \in Threads : /\ holder' = [holder EXCEPT ![t] = u]
                                /\ \A x \in Threads : holder[x] # t
  <2>1. call[u] = "create" /\ holder' = [holder EXCEPT ![about[u]] = u]
    BY <1>3 DEF Create, Set
  <2>2. about[u] \in Threads /\ phase[about[u]] = "unborn"
    BY <2>1 DEF IInv, CallsKnown, ConstructionKnown, Constructing
  <2>3. \A x \in Threads : holder[x] # about[u]
    BY <2>2, ThreadTypes DEF IInv, ThreadKnown, KnownOf, MainKnown, TypesKnown
  <2> QED
    BY <2>1, <2>2, <2>3
<1>4. ASSUME NEW u \in Threads, Delete(u)
      PROVE  \E t \in Threads : holder' = [holder EXCEPT ![t] = None]
  BY <1>4 DEF Delete, Set, IInv, CallsKnown
<1>5. CASE Next
  <2>1. PICK u \in Threads : StepOf(u)
    BY <1>5 DEF Next, JoinStep, LifeStep, StepOf
  <2> QED
    BY <1>2, <1>3, <1>4, <2>1
<1> QED
  BY <1>1, <1>5

\* No step closes a circle of threads that hold each other's handles.
LEMMA NoCircleKept == IInv /\ NoCircle /\ [Next]_vars => NoCircle'
<1> SUFFICES ASSUME IInv, NoCircle, [Next]_vars, NEW S \in SUBSET Threads, S # {},
                    \A x \in S : holder'[x] \in S /\ holder'[x] # x
             PROVE  FALSE
  BY DEF NoCircle, WaitInCircle
<1>1. holder \in [Threads -> Threads \cup {None}]
  BY DEF IInv, TypesKnown
<1>2. \A Z \in SUBSET Threads : Z # {} => \E x \in Z : ~(holder[x] \in Z /\ holder[x] # x)
  BY DEF NoCircle, WaitInCircle
<1>3. CASE holder' = holder
  BY <1>2, <1>3
<1>4. CASE \E u, t \in Threads : /\ holder' = [holder EXCEPT ![t] = u]
                                 /\ \A x \in Threads : holder[x] # t
  <2>1. PICK u \in Threads, t \in Threads : /\ holder' = [holder EXCEPT ![t] = u]
                                            /\ \A x \in Threads : holder[x] # t
    BY <1>4
  <2> DEFINE Z == S \ {t}
  <2>2. Z \in SUBSET Threads /\ \A x \in Z : holder[x] \in Z /\ holder[x] # x
    BY <1>1, <2>1
  <2>3. Z # {}
    BY <1>1, <2>1
  <2> HIDE DEF Z
  <2> QED
    BY <1>2, <2>2, <2>3
<1>5. CASE \E h : holder' = h /\ ~WaitInCircle(h)
  BY <1>5 DEF WaitInCircle
<1>6. CASE \E t \in Threads : holder' = [holder EXCEPT ![t] = None]
  <2>1. \A x \in S : holder'[x] # None
    BY ThreadTypes
  <2>2. \A x \in S : holder'[x] = holder[x]
    BY <1>1, <1>6, <2>1
  <2> QED
    BY <1>2, <2>2
<1> QED
  BY <1>3, <1>4, <1>5, <1>6, HandleMoves

\* main returns after every thread that was ever created has left its stack, but
\* for a thread that holds its own handle: what a thread holds is joined before it
\* ends, so the threads that are left would hold each other's handles in a circle.
THEOREM MainOutlivesThreads == Spec => []MainEndsLast
<1>1. Init => NoCircle
  BY ThreadTypes DEF Init, All, NoCircle, WaitInCircle
<1>2. IInv /\ NoCircle => MainEndsLast
  <2> SUFFICES ASSUME IInv, NoCircle, phase[Main] = "exit", \A t \in Threads : holder[t] # t,
                      NEW x \in Threads \ {Main}
               PROVE  OffItsStack(x)
    BY DEF MainEndsLast
  <2> DEFINE held == {t \in Threads : holder[t] # None}
  <2>1. \A t \in held : t # Main /\ holder[t] \in Threads /\ phase[holder[t]] \in {"program", "drain"}
    BY ThreadTypes DEF IInv, ThreadKnown, KnownOf, MainKnown, TypesKnown
  <2>2. \A t \in Threads \ {Main} : phase[t] \in {"program", "drain"} => t \in held
    BY DEF IInv, ThreadKnown, KnownOf, TypesKnown
  <2>3. \A t \in held : holder[t] \in held /\ holder[t] # t
    BY <2>1, <2>2
  <2>4. held = {}
    BY <2>3 DEF NoCircle, WaitInCircle
  <2> QED
    BY <2>4 DEF IInv, ThreadKnown, KnownOf, TypesKnown, OffItsStack
<1>3. IInv /\ [Next]_vars => IInv'
  BY TypesKept, CallsKept, ConstructionKept, JoinKept, ThreadKept, MainKept, Stutters
     DEF IInv
<1> QED
  BY <1>1, <1>2, <1>3, Starts, NoCircleKept, PTL DEF Spec

-----------------------------------------------------------------------------
(* The semaphore of an allocation region. *)

LEMMA SemaphoreConstants == ReaderLimit \in Nat \ {0} /\ IsFiniteSet(Callers)
BY LimitIsPositive, CallersAreFinite
   DEF Sema!ReaderLimitIsPositive, Sema!ThreadsIsFinite, Sema!IsFiniteSet,
       IsFiniteSet

LEMMA SemaphoreCounts == \A S : Sema!Cardinality(S) = Cardinality(S)
BY DEF Sema!Cardinality, Cardinality, Sema!IsFiniteSet, IsFiniteSet

\* What a call knows of the word it observed: only the loop conditions that it
\* passed since.
SeenTells ==
    \A t \in Callers :
       /\ stage[t] = "sCas" => ~observed[t].x /\ observed[t].n # ReaderLimit
       /\ stage[t] = "wMark" => observed[t].x
       /\ stage[t] = "wSleep" => observed[t].x /\ observed[t].r
       /\ stage[t] = "xCas" => ~observed[t].x

ControlIInv == Sema!ControlInv /\ SeenTells

-----------------------------------------------------------------------------
(* Counting the readers. *)

LEMMA ReadersFinite ==
  /\ IsFiniteSet(Sema!Readers)
  /\ Cardinality(Sema!Readers) \in Nat
<1>1. IsFiniteSet(Sema!Readers)
  BY SemaphoreConstants, FS_Subset DEF Sema!Readers
<1> QED
  BY <1>1, FS_CardinalityType

LEMMA ReaderEnters ==
  ASSUME Sema!TypeOK, NEW t \in Callers, stage[t] # "shared", Sema!Goto(t, "shared")
  PROVE  Cardinality(Sema!Readers') = Cardinality(Sema!Readers) + 1
<1>1. Sema!Readers' = Sema!Readers \cup {t}
  BY DEF Sema!TypeOK, Sema!Readers, Sema!Goto
<1>2. t \notin Sema!Readers
  BY DEF Sema!Readers
<1> QED
  BY <1>1, <1>2, ReadersFinite, FS_AddElement

LEMMA ReaderLeaves ==
  ASSUME Sema!TypeOK, NEW t \in Callers, stage[t] = "shared", Sema!Goto(t, "out")
  PROVE  /\ Cardinality(Sema!Readers') = Cardinality(Sema!Readers) - 1
         /\ Cardinality(Sema!Readers) > 0
<1>1. Sema!Readers' = Sema!Readers \ {t}
  BY DEF Sema!TypeOK, Sema!Readers, Sema!Goto
<1>2. t \in Sema!Readers
  BY DEF Sema!Readers
<1>3. Cardinality(Sema!Readers) > 0
  BY <1>2, ReadersFinite, FS_EmptySet
<1> QED
  BY <1>1, <1>2, <1>3, ReadersFinite, FS_RemoveElement

LEMMA NoReaderMoves ==
  ASSUME Sema!TypeOK, NEW t \in Callers, NEW place, place # "shared",
         stage[t] # "shared", Sema!Goto(t, place)
  PROVE  Sema!Readers' = Sema!Readers
BY DEF Sema!TypeOK, Sema!Readers, Sema!Goto

\* A thread that has set or cleared the exclusive bit, and the others.
LEMMA ClaimsMove ==
  ASSUME Sema!TypeOK, NEW t \in Callers, NEW place, Sema!Goto(t, place)
  PROVE  \A u \in Callers :
           /\ u # t => (Sema!Claims(u)' <=> Sema!Claims(u))
           /\ Sema!Claims(t)' <=> place \in {"drain", "exclusive", "xUnlock"}
BY DEF Sema!TypeOK, Sema!Claims, Sema!Goto

-----------------------------------------------------------------------------
(* Types, and what the calls know: neither depends on who has access, except *)
(* that a count is not decremented below zero.                               *)

LEMMA WordChanges ==
  /\ Sema!Zero \in Sema!Words
  /\ \A w \in Sema!Words :
       /\ [w EXCEPT !.x = TRUE] \in Sema!Words
       /\ [w EXCEPT !.r = TRUE] \in Sema!Words
       /\ w.n # ReaderLimit => [w EXCEPT !.n = @ + 1] \in Sema!Words
       /\ w.n > 0 => [w EXCEPT !.n = @ - 1] \in Sema!Words
<1>1. Sema!Zero \in Sema!Words
  BY SemaphoreConstants DEF Sema!Zero, Sema!Words
<1>2. ASSUME NEW w \in Sema!Words
      PROVE  [w EXCEPT !.x = TRUE] \in Sema!Words /\ [w EXCEPT !.r = TRUE] \in Sema!Words
  BY <1>2 DEF Sema!Words
<1>3. ASSUME NEW w \in Sema!Words, w.n # ReaderLimit
      PROVE  [w EXCEPT !.n = @ + 1] \in Sema!Words
  <2>1. w.n + 1 \in 0..ReaderLimit
    BY <1>3, SemaphoreConstants DEF Sema!Words
  <2> QED
    BY <1>3, <2>1 DEF Sema!Words
<1>4. ASSUME NEW w \in Sema!Words, w.n > 0
      PROVE  [w EXCEPT !.n = @ - 1] \in Sema!Words
  <2>1. w.n - 1 \in 0..ReaderLimit
    BY <1>4, SemaphoreConstants DEF Sema!Words
  <2> QED
    BY <1>4, <2>1 DEF Sema!Words
<1> QED
  BY <1>1, <1>2, <1>3, <1>4

LEMMA ControlTypeStep ==
  ASSUME Sema!TypeOK, SeenTells, Sema!WordTellsTruth, [Sema!Next]_(Sema!vars)
  PROVE  Sema!TypeOK'
<1> USE WordChanges DEF Sema!TypeOK, Sema!Goto, Sema!Observe
<1>1. ASSUME NEW t \in Callers, Sema!CallShared(t) PROVE Sema!TypeOK'
  BY <1>1 DEF Sema!CallShared, Sema!Places
<1>2. ASSUME NEW t \in Callers, Sema!SharedLoad(t) PROVE Sema!TypeOK'
  BY <1>2 DEF Sema!SharedLoad, Sema!AfterSharedSees, Sema!Places
<1>3. ASSUME NEW t \in Callers, Sema!SharedCas(t) PROVE Sema!TypeOK'
  <2>1. semaphore' \in Sema!Words
    BY <1>3 DEF Sema!SharedCas, Sema!Cas, SeenTells
  <2> QED
    BY <1>3, <2>1 DEF Sema!SharedCas, Sema!Cas, Sema!AfterSharedSees, Sema!Places
<1>4. ASSUME NEW t \in Callers, Sema!WaiterLoad(t) PROVE Sema!TypeOK'
  BY <1>4 DEF Sema!WaiterLoad, Sema!AfterWaiterSees, Sema!Places
<1>5. ASSUME NEW t \in Callers, Sema!WaiterMark(t) PROVE Sema!TypeOK'
  <2>1. semaphore' \in {semaphore,
        [observed[t] EXCEPT !.r = TRUE]} /\ observed[t] \in Sema!Words
    BY <1>5 DEF Sema!WaiterMark, Sema!Cas
  <2>2. semaphore' \in Sema!Words /\ [observed[t] EXCEPT !.r = TRUE] \in Sema!Words
    BY <2>1
  <2>3. PICK place \in Sema!Places, w \in Sema!Words : Sema!Observe(t, w, place)
    BY <1>5, <2>1, <2>2 DEF Sema!WaiterMark, Sema!Cas, Sema!AfterWaiterSees,
       Sema!Places
  <2> QED
    BY <1>5, <2>2, <2>3 DEF Sema!WaiterMark
<1>6. ASSUME NEW t \in Callers, Sema!WaiterSleep(t) PROVE Sema!TypeOK'
  BY <1>6 DEF Sema!WaiterSleep, Sema!Places
<1>7. ASSUME NEW t \in Callers, Sema!WakeSpuriously(t) PROVE Sema!TypeOK'
  BY <1>7 DEF Sema!WakeSpuriously, Sema!Places
<1>8. ASSUME NEW t \in Callers, Sema!ReleaseShared(t) PROVE Sema!TypeOK'
  <2>1. semaphore.n > 0
    BY <1>8, ReaderLeaves, SemaphoreCounts DEF Sema!ReleaseShared, Sema!WordTellsTruth
  <2>2. semaphore' \in Sema!Words
    BY <1>8, <2>1 DEF Sema!ReleaseShared
  <2> QED
    BY <1>8, <2>2 DEF Sema!ReleaseShared, Sema!Places
<1>9. ASSUME NEW t \in Callers, Sema!CallExclusive(t) PROVE Sema!TypeOK'
  BY <1>9 DEF Sema!CallExclusive, Sema!Places
<1>10. ASSUME NEW t \in Callers, Sema!ExclusiveLoad(t) PROVE Sema!TypeOK'
  BY <1>10 DEF Sema!ExclusiveLoad, Sema!AfterExclusiveSees, Sema!Places
<1>11. ASSUME NEW t \in Callers, Sema!ExclusiveCas(t) PROVE Sema!TypeOK'
  <2>1. semaphore' \in {semaphore,
        [observed[t] EXCEPT !.x = TRUE]} /\ observed[t] \in Sema!Words
    BY <1>11 DEF Sema!ExclusiveCas, Sema!Cas
  <2>2. semaphore' \in Sema!Words /\ [observed[t] EXCEPT !.x = TRUE] \in Sema!Words
    BY <2>1
  <2>3. PICK place \in Sema!Places, w \in Sema!Words : Sema!Observe(t, w, place)
    BY <1>11, <2>1, <2>2 DEF Sema!ExclusiveCas, Sema!Cas, Sema!AfterExclusiveSees,
       Sema!Places
  <2> QED
    BY <1>11, <2>2, <2>3 DEF Sema!ExclusiveCas
<1>12. ASSUME NEW t \in Callers, Sema!Drain(t) PROVE Sema!TypeOK'
  BY <1>12 DEF Sema!Drain, Sema!Places
<1>13. ASSUME NEW t \in Callers, Sema!ReleaseLoad(t) PROVE Sema!TypeOK'
  BY <1>13 DEF Sema!ReleaseLoad, Sema!Places
<1>14. ASSUME NEW t \in Callers, Sema!ReleaseCas(t) PROVE Sema!TypeOK'
  BY <1>14 DEF Sema!ReleaseCas, Sema!Cas, Sema!Places
<1>15. ASSUME NEW t \in Callers, Sema!Notify(t) PROVE Sema!TypeOK'
  BY <1>15 DEF Sema!Notify, Sema!Places
<1>16. CASE UNCHANGED Sema!vars
  BY <1>16 DEF Sema!vars
<1> QED
  BY <1>1, <1>2, <1>3, <1>4, <1>5, <1>6, <1>7, <1>8, <1>9, <1>10, <1>11, <1>12, <1>13,
     <1>14, <1>15, <1>16 DEF Sema!Next, Sema!SharedStep, Sema!ExclusiveStep

LEMMA ControlSeenStep ==
  ASSUME Sema!TypeOK, SeenTells, [Sema!Next]_(Sema!vars)
  PROVE  SeenTells'
<1> USE DEF Sema!TypeOK, SeenTells, Sema!Goto, Sema!Observe, Sema!Watching
<1>1. ASSUME NEW t \in Callers, Sema!CallShared(t) PROVE SeenTells'
  BY <1>1 DEF Sema!CallShared
<1>2. ASSUME NEW t \in Callers, Sema!SharedLoad(t) PROVE SeenTells'
  BY <1>2 DEF Sema!SharedLoad, Sema!AfterSharedSees
<1>3. ASSUME NEW t \in Callers, Sema!SharedCas(t) PROVE SeenTells'
  BY <1>3 DEF Sema!SharedCas, Sema!Cas, Sema!AfterSharedSees
<1>4. ASSUME NEW t \in Callers, Sema!WaiterLoad(t) PROVE SeenTells'
  BY <1>4 DEF Sema!WaiterLoad, Sema!AfterWaiterSees
<1>5. ASSUME NEW t \in Callers, Sema!WaiterMark(t) PROVE SeenTells'
  <2>1. [observed[t] EXCEPT !.r = TRUE].x = observed[t].x /\ [observed[t] EXCEPT !.r = TRUE].r
    BY DEF Sema!Words
  <2> QED
    BY <1>5, <2>1 DEF Sema!WaiterMark, Sema!Cas, Sema!AfterWaiterSees
<1>6. ASSUME NEW t \in Callers, Sema!WaiterSleep(t) PROVE SeenTells'
  BY <1>6 DEF Sema!WaiterSleep
<1>7. ASSUME NEW t \in Callers, Sema!WakeSpuriously(t) PROVE SeenTells'
  BY <1>7 DEF Sema!WakeSpuriously
<1>8. ASSUME NEW t \in Callers, Sema!ReleaseShared(t) PROVE SeenTells'
  BY <1>8 DEF Sema!ReleaseShared
<1>9. ASSUME NEW t \in Callers, Sema!CallExclusive(t) PROVE SeenTells'
  BY <1>9 DEF Sema!CallExclusive
<1>10. ASSUME NEW t \in Callers, Sema!ExclusiveLoad(t) PROVE SeenTells'
  BY <1>10 DEF Sema!ExclusiveLoad, Sema!AfterExclusiveSees
<1>11. ASSUME NEW t \in Callers, Sema!ExclusiveCas(t) PROVE SeenTells'
  BY <1>11 DEF Sema!ExclusiveCas, Sema!Cas, Sema!AfterExclusiveSees
<1>12. ASSUME NEW t \in Callers, Sema!Drain(t) PROVE SeenTells'
  BY <1>12 DEF Sema!Drain
<1>13. ASSUME NEW t \in Callers, Sema!ReleaseLoad(t) PROVE SeenTells'
  BY <1>13 DEF Sema!ReleaseLoad
<1>14. ASSUME NEW t \in Callers, Sema!ReleaseCas(t) PROVE SeenTells'
  BY <1>14 DEF Sema!ReleaseCas, Sema!Cas
<1>15. ASSUME NEW t \in Callers, Sema!Notify(t) PROVE SeenTells'
  BY <1>15 DEF Sema!Notify
<1>16. CASE UNCHANGED Sema!vars
  BY <1>16 DEF Sema!vars
<1> QED
  BY <1>1, <1>2, <1>3, <1>4, <1>5, <1>6, <1>7, <1>8, <1>9, <1>10, <1>11, <1>12, <1>13,
     <1>14, <1>15, <1>16 DEF Sema!Next, Sema!SharedStep, Sema!ExclusiveStep

-----------------------------------------------------------------------------
(* Who has access. *)

\* Steps after which the word and who has access are what they were.
LEMMA Bystander ==
  ASSUME Sema!TypeOK, [Sema!Next]_(Sema!vars),
         NEW t \in Callers, NEW place, Sema!Goto(t, place), UNCHANGED semaphore,
         stage[t] \notin {"shared", "drain", "exclusive", "xUnlock"},
         place \notin {"shared", "drain", "exclusive", "xUnlock"},
         Sema!WordTellsTruth, Sema!ExclusiveExcludes
  PROVE  Sema!WordTellsTruth' /\ Sema!ExclusiveExcludes'
<1>1. Sema!Readers' = Sema!Readers
  BY NoReaderMoves
<1>2. \A u \in Callers : Sema!Claims(u)' <=> Sema!Claims(u)
  BY ClaimsMove DEF Sema!Claims
<1>3. \A u \in Callers : stage'[u] \in {"exclusive",
      "xUnlock"} => stage[u] \in {"exclusive", "xUnlock"}
  BY DEF Sema!TypeOK, Sema!Goto
<1> QED
  BY <1>1, <1>2, <1>3 DEF Sema!WordTellsTruth, Sema!ExclusiveExcludes

LEMMA AccessStep ==
  ASSUME ControlIInv, [Sema!Next]_(Sema!vars)
  PROVE  Sema!WordTellsTruth' /\ Sema!ExclusiveExcludes'
<1> USE DEF ControlIInv, Sema!ControlInv
<1> DEFINE Goal == Sema!WordTellsTruth' /\ Sema!ExclusiveExcludes'
<1>1. ASSUME NEW t \in Callers, Sema!CallShared(t) PROVE Goal
  BY <1>1, Bystander DEF Sema!CallShared
<1>2. ASSUME NEW t \in Callers, Sema!SharedLoad(t) PROVE Goal
  BY <1>2, Bystander DEF Sema!SharedLoad, Sema!Observe, Sema!AfterSharedSees
<1>3. ASSUME NEW t \in Callers, Sema!SharedCas(t) PROVE Goal
  <2>1. CASE semaphore # observed[t]
    BY <1>3, <2>1, Bystander DEF Sema!SharedCas, Sema!Cas, Sema!Observe,
       Sema!AfterSharedSees
  <2>2. CASE semaphore = observed[t]
    <3>1. Cardinality(Sema!Readers') = Cardinality(Sema!Readers) + 1
      BY <1>3, <2>2, ReaderEnters DEF Sema!SharedCas, Sema!Cas, Sema!Observe
    <3>2. ~semaphore.x /\ semaphore'.x = semaphore.x /\ semaphore'.r = semaphore.r
          /\ semaphore'.n = semaphore.n + 1
      BY <1>3, <2>2 DEF Sema!SharedCas, Sema!Cas, SeenTells, Sema!TypeOK, Sema!Words
    <3>3. \A u \in Callers : ~Sema!Claims(u) /\ ~Sema!Claims(u)'
      BY <1>3, <2>2, <3>2, ClaimsMove DEF Sema!SharedCas, Sema!Cas, Sema!Observe,
         Sema!WordTellsTruth
    <3> QED
      BY <3>1, <3>2, <3>3, SemaphoreCounts DEF Sema!WordTellsTruth,
         Sema!ExclusiveExcludes, Sema!Claims
  <2> QED
    BY <2>1, <2>2
<1>4. ASSUME NEW t \in Callers, Sema!WaiterLoad(t) PROVE Goal
  BY <1>4, Bystander DEF Sema!WaiterLoad, Sema!Observe, Sema!AfterWaiterSees
<1>5. ASSUME NEW t \in Callers, Sema!WaiterMark(t) PROVE Goal
  <2>1. CASE observed[t].r \/ semaphore # observed[t]
    BY <1>5, <2>1, Bystander DEF Sema!WaiterMark, Sema!Cas, Sema!Observe,
       Sema!AfterWaiterSees
  <2>2. CASE ~observed[t].r /\ semaphore = observed[t]
    <3>1. semaphore.x /\ semaphore'.x = semaphore.x /\ semaphore'.n = semaphore.n
      BY <1>5, <2>2 DEF Sema!WaiterMark, Sema!Cas, SeenTells, Sema!TypeOK,
         Sema!Words
    <3>2. Sema!Readers' = Sema!Readers
      BY <1>5, <2>2, NoReaderMoves DEF Sema!WaiterMark, Sema!Cas, Sema!Observe
    <3>3. \A u \in Callers : Sema!Claims(u)' <=> Sema!Claims(u)
      BY <1>5, <2>2, ClaimsMove DEF Sema!WaiterMark, Sema!Cas, Sema!Observe,
         Sema!Claims
    <3>4. \A u \in Callers : stage'[u] \in {"exclusive", "xUnlock"}
                                => stage[u] \in {"exclusive", "xUnlock"}
      BY <1>5, <2>2 DEF Sema!WaiterMark, Sema!Cas, Sema!Observe, Sema!TypeOK,
         Sema!Goto
    <3> QED
      BY <3>1, <3>2, <3>3, <3>4 DEF Sema!WordTellsTruth, Sema!ExclusiveExcludes
  <2> QED
    BY <2>1, <2>2
<1>6. ASSUME NEW t \in Callers, Sema!WaiterSleep(t) PROVE Goal
  BY <1>6, Bystander DEF Sema!WaiterSleep, Sema!Observe
<1>7. ASSUME NEW t \in Callers, Sema!WakeSpuriously(t) PROVE Goal
  BY <1>7, Bystander DEF Sema!WakeSpuriously
<1>8. ASSUME NEW t \in Callers, Sema!ReleaseShared(t) PROVE Goal
  <2>1. Cardinality(Sema!Readers') = Cardinality(Sema!Readers) - 1
    BY <1>8, ReaderLeaves, SemaphoreCounts DEF Sema!ReleaseShared
  <2>2. semaphore'.n = semaphore.n - 1 /\ semaphore'.x = semaphore.x
        /\ semaphore'.r = semaphore.r
    BY <1>8 DEF Sema!ReleaseShared, Sema!TypeOK, Sema!Words
  <2>3. \A u \in Callers : Sema!Claims(u)' <=> Sema!Claims(u)
    BY <1>8, ClaimsMove DEF Sema!ReleaseShared, Sema!Claims
  <2>4. t \in Sema!Readers
    BY <1>8 DEF Sema!ReleaseShared, Sema!Readers
  <2>5. \A u \in Callers : stage'[u] \in {"exclusive", "xUnlock"}
                              => stage[u] \in {"exclusive", "xUnlock"}
    BY <1>8 DEF Sema!ReleaseShared, Sema!TypeOK, Sema!Goto
  <2> QED
    BY <2>1, <2>2, <2>3, <2>4, <2>5, SemaphoreCounts DEF Sema!WordTellsTruth,
       Sema!ExclusiveExcludes
<1>9. ASSUME NEW t \in Callers, Sema!CallExclusive(t) PROVE Goal
  BY <1>9, Bystander DEF Sema!CallExclusive
<1>10. ASSUME NEW t \in Callers, Sema!ExclusiveLoad(t) PROVE Goal
  BY <1>10, Bystander DEF Sema!ExclusiveLoad, Sema!Observe, Sema!AfterExclusiveSees
<1>11. ASSUME NEW t \in Callers, Sema!ExclusiveCas(t) PROVE Goal
  <2>1. CASE semaphore # observed[t]
    BY <1>11, <2>1, Bystander DEF Sema!ExclusiveCas, Sema!Cas, Sema!Observe,
       Sema!AfterExclusiveSees
  <2>2. CASE semaphore = observed[t]
    <3>1. ~semaphore.x /\ semaphore'.x /\ semaphore'.n = semaphore.n
      BY <1>11, <2>2 DEF Sema!ExclusiveCas, Sema!Cas, SeenTells, Sema!TypeOK,
         Sema!Words
    <3>2. Sema!Readers' = Sema!Readers
      BY <1>11, <2>2, NoReaderMoves DEF Sema!ExclusiveCas, Sema!Cas, Sema!Observe
    <3>3. \A u \in Callers : ~Sema!Claims(u) /\ (Sema!Claims(u)' <=> u = t)
      BY <1>11, <2>2, <3>1, ClaimsMove DEF Sema!ExclusiveCas, Sema!Cas,
         Sema!Observe, Sema!WordTellsTruth
    <3>4. \A u \in Callers : stage'[u] \notin {"exclusive", "xUnlock"}
      BY <1>11, <2>2, <3>3 DEF Sema!ExclusiveCas, Sema!Cas, Sema!Observe,
         Sema!TypeOK, Sema!Goto, Sema!Claims
    <3> QED
      BY <3>1, <3>2, <3>3, <3>4 DEF Sema!WordTellsTruth, Sema!ExclusiveExcludes
  <2> QED
    BY <2>1, <2>2
<1>12. ASSUME NEW t \in Callers, Sema!Drain(t) PROVE Goal
  <2>1. Sema!Readers' = Sema!Readers
    BY <1>12, NoReaderMoves DEF Sema!Drain
  <2>2. Sema!Readers = {}
    BY <1>12, ReadersFinite, FS_EmptySet, SemaphoreCounts DEF Sema!Drain,
       Sema!WordTellsTruth
  <2>3. \A u \in Callers : Sema!Claims(u)' <=> Sema!Claims(u)
    BY <1>12, ClaimsMove DEF Sema!Drain, Sema!Claims
  <2> QED
    BY <1>12, <2>1, <2>2, <2>3 DEF Sema!Drain, Sema!WordTellsTruth,
       Sema!ExclusiveExcludes
<1>13. ASSUME NEW t \in Callers, Sema!ReleaseLoad(t) PROVE Goal
  <2>1. Sema!Readers' = Sema!Readers
    BY <1>13, NoReaderMoves DEF Sema!ReleaseLoad, Sema!Observe
  <2>2. Sema!Readers = {}
    BY <1>13 DEF Sema!ReleaseLoad, Sema!ExclusiveExcludes
  <2>3. \A u \in Callers : Sema!Claims(u)' <=> Sema!Claims(u)
    BY <1>13, ClaimsMove DEF Sema!ReleaseLoad, Sema!Observe, Sema!Claims
  <2> QED
    BY <1>13, <2>1, <2>2, <2>3 DEF Sema!ReleaseLoad, Sema!WordTellsTruth,
       Sema!ExclusiveExcludes
<1>14. ASSUME NEW t \in Callers, Sema!ReleaseCas(t) PROVE Goal
  <2>1. Sema!Readers = {}
    BY <1>14 DEF Sema!ReleaseCas, Sema!ExclusiveExcludes
  <2>2. Sema!Readers' = Sema!Readers
    BY <1>14, NoReaderMoves DEF Sema!ReleaseCas, Sema!Cas, Sema!Observe
  <2>3. \A u \in Callers : u # t => ~Sema!Claims(u) /\ ~Sema!Claims(u)'
    BY <1>14, ClaimsMove DEF Sema!ReleaseCas, Sema!Cas, Sema!Observe,
       Sema!ExclusiveExcludes, Sema!Claims
  <2>4. CASE semaphore # observed[t]
    <3>1. Sema!Claims(t) /\ Sema!Claims(t)' /\ UNCHANGED semaphore
      BY <1>14, <2>4 DEF Sema!ReleaseCas, Sema!Cas, Sema!Observe, Sema!Goto,
         Sema!TypeOK, Sema!Claims
    <3> QED
      BY <2>1, <2>2, <2>3, <3>1 DEF Sema!WordTellsTruth, Sema!ExclusiveExcludes
  <2>5. CASE semaphore = observed[t]
    <3>1. ~Sema!Claims(t)' /\ semaphore' = Sema!Zero
      BY <1>14, <2>5 DEF Sema!ReleaseCas, Sema!Cas, Sema!Observe, Sema!Goto,
         Sema!TypeOK, Sema!Claims
    <3>2. Cardinality(Sema!Readers') = 0
      BY <2>1, <2>2, FS_EmptySet
    <3> QED
      BY <2>1, <2>2, <2>3, <3>1, <3>2, SemaphoreCounts DEF Sema!WordTellsTruth,
         Sema!ExclusiveExcludes, Sema!Zero
  <2> QED
    BY <2>4, <2>5
<1>15. ASSUME NEW t \in Callers, Sema!Notify(t) PROVE Goal
  <2>1. Sema!Readers' = Sema!Readers
    BY <1>15 DEF Sema!Notify, Sema!Readers, Sema!TypeOK
  <2>2. \A u \in Callers : Sema!Claims(u)' <=> Sema!Claims(u)
    BY <1>15 DEF Sema!Notify, Sema!Claims, Sema!TypeOK
  <2>3. \A u \in Callers : stage'[u] \in {"exclusive", "xUnlock"}
                              => stage[u] \in {"exclusive", "xUnlock"}
    BY <1>15 DEF Sema!Notify, Sema!TypeOK
  <2> QED
    BY <1>15, <2>1, <2>2, <2>3 DEF Sema!Notify, Sema!WordTellsTruth,
       Sema!ExclusiveExcludes
<1>16. CASE UNCHANGED Sema!vars
  BY <1>16 DEF Sema!vars, Sema!WordTellsTruth, Sema!ExclusiveExcludes,
     Sema!Readers, Sema!Claims
<1> QED
  BY <1>1, <1>2, <1>3, <1>4, <1>5, <1>6, <1>7, <1>8, <1>9, <1>10, <1>11, <1>12, <1>13,
     <1>14, <1>15, <1>16 DEF Sema!Next, Sema!SharedStep, Sema!ExclusiveStep

-----------------------------------------------------------------------------
(* Who sleeps: only the notification and the release of a claim could leave  *)
(* a sleeper behind, and the release sees every request.                     *)

\* The word is changed by calls that observed what it still is: a request in
\* it is not lost before the claimant has seen it.
LEMMA RequestSeen ==
  ASSUME Sema!TypeOK, SeenTells, Sema!SleeperIsOwedNotice, NEW t \in Callers,
         stage[t] = "xUnlock", semaphore = observed[t], semaphore' = Sema!Zero,
         Sema!Goto(t, IF observed[t].r THEN "notify" ELSE "out")
  PROVE  Sema!SleeperIsOwedNotice'
BY DEF Sema!TypeOK, Sema!SleeperIsOwedNotice, Sema!Goto, Sema!Words, Sema!Zero

LEMMA SleeperStep ==
  ASSUME ControlIInv, [Sema!Next]_(Sema!vars)
  PROVE  Sema!SleeperIsOwedNotice'
<1> USE DEF ControlIInv, Sema!ControlInv, Sema!TypeOK, Sema!SleeperIsOwedNotice,
    Sema!Goto, Sema!Observe
<1>1. ASSUME NEW t \in Callers, Sema!CallShared(t) PROVE Sema!SleeperIsOwedNotice'
  BY <1>1 DEF Sema!CallShared
<1>2. ASSUME NEW t \in Callers, Sema!SharedLoad(t) PROVE Sema!SleeperIsOwedNotice'
  BY <1>2 DEF Sema!SharedLoad, Sema!AfterSharedSees
<1>3. ASSUME NEW t \in Callers, Sema!SharedCas(t) PROVE Sema!SleeperIsOwedNotice'
  <2>1. semaphore'.x = semaphore.x /\ semaphore'.r = semaphore.r
    BY <1>3 DEF Sema!SharedCas, Sema!Cas, Sema!Words
  <2> QED
    BY <1>3, <2>1 DEF Sema!SharedCas, Sema!Cas, Sema!AfterSharedSees
<1>4. ASSUME NEW t \in Callers, Sema!WaiterLoad(t) PROVE Sema!SleeperIsOwedNotice'
  BY <1>4 DEF Sema!WaiterLoad, Sema!AfterWaiterSees
<1>5. ASSUME NEW t \in Callers, Sema!WaiterMark(t) PROVE Sema!SleeperIsOwedNotice'
  <2>1. semaphore'.x = semaphore.x /\ (semaphore.r => semaphore'.r)
    BY <1>5 DEF Sema!WaiterMark, Sema!Cas, Sema!Words
  <2> QED
    BY <1>5, <2>1 DEF Sema!WaiterMark, Sema!Cas, Sema!AfterWaiterSees
<1>6. ASSUME NEW t \in Callers, Sema!WaiterSleep(t) PROVE Sema!SleeperIsOwedNotice'
  BY <1>6 DEF Sema!WaiterSleep, Sema!FutexSleeps, SeenTells
<1>7. ASSUME NEW t \in Callers, Sema!WakeSpuriously(t) PROVE Sema!SleeperIsOwedNotice'
  BY <1>7 DEF Sema!WakeSpuriously
<1>8. ASSUME NEW t \in Callers, Sema!ReleaseShared(t) PROVE Sema!SleeperIsOwedNotice'
  <2>1. semaphore'.x = semaphore.x /\ semaphore'.r = semaphore.r
    BY <1>8 DEF Sema!ReleaseShared, Sema!Words
  <2> QED
    BY <1>8, <2>1 DEF Sema!ReleaseShared
<1>9. ASSUME NEW t \in Callers, Sema!CallExclusive(t) PROVE Sema!SleeperIsOwedNotice'
  BY <1>9 DEF Sema!CallExclusive
<1>10. ASSUME NEW t \in Callers, Sema!ExclusiveLoad(t) PROVE Sema!SleeperIsOwedNotice'
  BY <1>10 DEF Sema!ExclusiveLoad, Sema!AfterExclusiveSees
<1>11. ASSUME NEW t \in Callers, Sema!ExclusiveCas(t) PROVE Sema!SleeperIsOwedNotice'
  <2>1. (semaphore.x => semaphore'.x) /\ semaphore'.r = semaphore.r
    BY <1>11 DEF Sema!ExclusiveCas, Sema!Cas, Sema!Words
  <2> QED
    BY <1>11, <2>1 DEF Sema!ExclusiveCas, Sema!Cas, Sema!AfterExclusiveSees
<1>12. ASSUME NEW t \in Callers, Sema!Drain(t) PROVE Sema!SleeperIsOwedNotice'
  BY <1>12 DEF Sema!Drain
<1>13. ASSUME NEW t \in Callers, Sema!ReleaseLoad(t) PROVE Sema!SleeperIsOwedNotice'
  BY <1>13 DEF Sema!ReleaseLoad
<1>14. ASSUME NEW t \in Callers, Sema!ReleaseCas(t) PROVE Sema!SleeperIsOwedNotice'
  <2>1. CASE semaphore # observed[t]
    BY <1>14, <2>1 DEF Sema!ReleaseCas, Sema!Cas
  <2>2. CASE semaphore = observed[t]
    BY <1>14, <2>2, RequestSeen DEF Sema!ReleaseCas, Sema!Cas
  <2> QED
    BY <2>1, <2>2
<1>15. ASSUME NEW t \in Callers, Sema!Notify(t) PROVE Sema!SleeperIsOwedNotice'
  BY <1>15 DEF Sema!Notify
<1>16. CASE UNCHANGED Sema!vars
  BY <1>16 DEF Sema!vars
<1> QED
  BY <1>1, <1>2, <1>3, <1>4, <1>5, <1>6, <1>7, <1>8, <1>9, <1>10, <1>11, <1>12, <1>13,
     <1>14, <1>15, <1>16 DEF Sema!Next, Sema!SharedStep, Sema!ExclusiveStep

-----------------------------------------------------------------------------

LEMMA ControlIInvInit == Sema!Init => ControlIInv
<1> SUFFICES ASSUME Sema!Init PROVE ControlIInv
  OBVIOUS
<1>1. Sema!Readers = {} /\ Cardinality(Sema!Readers) = 0
  BY FS_EmptySet DEF Sema!Init, Sema!Readers
<1>2. Sema!TypeOK
  BY SemaphoreConstants DEF Sema!Init, Sema!TypeOK, Sema!Words, Sema!Zero,
     Sema!Places
<1> QED
  BY <1>1, <1>2, SemaphoreCounts DEF Sema!Init, ControlIInv, Sema!ControlInv,
     Sema!Zero, Sema!WordTellsTruth, Sema!Claims, Sema!ExclusiveExcludes,
     Sema!SleeperIsOwedNotice, SeenTells

LEMMA ControlIInvStep == ControlIInv /\ [Sema!Next]_(Sema!vars) => ControlIInv'
BY ControlTypeStep, ControlSeenStep, AccessStep, SleeperStep DEF ControlIInv, Sema!ControlInv

LEMMA ControlIInvAlways == Sema!Spec => []ControlIInv
BY ControlIInvInit, ControlIInvStep, PTL DEF Sema!Spec

\* The count in the word is the number of threads with shared access, the bit
\* is one claimant's, exclusive access excludes, and a sleeping reader is owed a
\* notification: for any number of threads and any limit of the count.
THEOREM ControlTold == Sema!Spec => []ControlInv
<1>1. ControlIInv => ControlInv
  BY DEF ControlIInv, ControlInv
<1> QED
  BY <1>1, ControlIInvAlways, PTL

\* From the claim to its release nobody obtains shared access, so that the drain ends and
\* no return comes in between while a region is scanned, refilled or retired.
NobodyEnters ==
    (\E t \in Callers : Sema!Claims(t)) => Sema!Readers' \subseteq Sema!Readers

THEOREM ClaimShutsReadersOut == Sema!Spec => [][NobodyEnters]_(Sema!vars)
<1>1. ASSUME ControlIInv, [Sema!Next]_(Sema!vars) PROVE [NobodyEnters]_(Sema!vars)
  <2>1. CASE UNCHANGED Sema!vars
    BY <2>1 DEF Sema!vars
  <2>2. ASSUME NEW t \in Callers, Sema!SharedCas(t), NEW u \in Callers, Sema!Claims(u)
        PROVE  Sema!Readers' = Sema!Readers
    <3>1. semaphore # observed[t]
      BY <1>1, <2>2 DEF ControlIInv, Sema!ControlInv, Sema!WordTellsTruth, SeenTells,
         Sema!SharedCas
    <3> QED
      BY <1>1, <2>2, <3>1, NoReaderMoves
         DEF ControlIInv, Sema!ControlInv, Sema!SharedCas, Sema!Cas,
            Sema!Observe, Sema!AfterSharedSees
  <2>3. ASSUME NEW t \in Callers, ~Sema!SharedCas(t),
               Sema!SharedStep(t) \/ Sema!ExclusiveStep(t)
               \/ Sema!CallShared(t) \/ Sema!CallExclusive(t)
                 \/ Sema!WakeSpuriously(t)
        PROVE  Sema!Readers' \subseteq Sema!Readers
    BY <1>1, <2>3 DEF ControlIInv, Sema!ControlInv, Sema!TypeOK, Sema!Readers,
       Sema!SharedStep, Sema!SharedLoad, Sema!SharedCas,
       Sema!ReleaseShared, Sema!WaiterLoad, Sema!WaiterMark, Sema!WaiterSleep,
       Sema!ExclusiveStep, Sema!ExclusiveLoad,
       Sema!ExclusiveCas, Sema!Drain, Sema!ReleaseLoad, Sema!ReleaseCas,
       Sema!Notify, Sema!CallShared, Sema!CallExclusive,
       Sema!WakeSpuriously, Sema!Goto, Sema!Observe, Sema!Cas,
       Sema!AfterSharedSees, Sema!AfterWaiterSees, Sema!AfterExclusiveSees
  <2> QED
    BY <1>1, <2>1, <2>2, <2>3 DEF Sema!Next, NobodyEnters
<1> QED
  BY <1>1, ControlIInvAlways, PTL DEF Sema!Spec

-----------------------------------------------------------------------------
\* A behaviour of either part is a behaviour of threads and of the semaphore, the one
\* that does not run standing still: all of the above holds of MCSpec.
THEOREM PartsAreAlone == MCSpec => Init /\ [][Next]_vars /\ Sema!Spec
<1> DEFINE Steps == [Next]_vars /\ [Sema!Next]_(Sema!vars)
<1>1. MCInit => Init /\ Sema!Init
  BY DEF MCInit
<1>2. [MCNext]_allVars => Steps
  <2> USE DEF vars, Sema!vars, semaphoreVars
  <2>1. ASSUME InThreads(Next) PROVE Steps
    BY <2>1 DEF InThreads
  <2>2. ASSUME InSemaphore(Sema!Next) PROVE Steps
    BY <2>2 DEF InSemaphore
  <2>3. ASSUME UNCHANGED allVars PROVE Steps
    BY <2>3 DEF allVars
  <2> QED
    BY <2>1, <2>2, <2>3 DEF MCNext
<1> QED
  BY <1>1, <1>2, PTL DEF MCSpec, Sema!Spec
=============================================================================
