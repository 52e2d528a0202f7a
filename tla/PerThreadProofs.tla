-------------------------- MODULE PerThreadProofs --------------------------
(***************************************************************************)
(* Proofs about the two parts of the runtime's memory management that      *)
(* MCThreadMemory puts side by side: the objects and caches of one thread  *)
(* (PerThread), for any objects, any kinds of exit hook and any number of  *)
(* exceptions, and the allocator's transfer queue (TransferQueue), for any *)
(* threads, nodes and generations, any width of its words and any bound on *)
(* the pushes that keeps positions within half of it.                      *)
(***************************************************************************)
EXTENDS MCThreadMemory, FiniteSetTheorems, SequenceTheorems, TLAPS

(* The objects and caches of one thread. *)

Exiting == lifecycle \in {"draining", "finished"}

Flags == /\ armed \in BOOLEAN /\ hooked \in BOOLEAN /\ disabled \in BOOLEAN
         /\ cached \in BOOLEAN /\ alive \in BOOLEAN /\ panicked \in BOOLEAN

Stack == [of : Objects, doing : {"init", "deinit"}]

Types == /\ guard \in [Objects -> 0..3]
         /\ lifecycle \in {"unused", "running", "draining", "finished"}
         /\ registry \in Seq(Droppable)
         /\ work \in Seq(Stack)
         /\ obtained \subseteq Objects \X Objects
         /\ throws \in 0..MaxThrows

\* What is in progress: initializers of objects whose guard is held, each once, or the one
\* destructor that the exit has reached.
WorkKnown ==
    /\ \A i \in DOMAIN work :
          \/ /\ work[i].doing = "init" /\ guard[work[i].of] = 1
             /\ lifecycle = "running"
          \/ /\ work[i].doing = "deinit" /\ guard[work[i].of] = 2 /\ work[i].of \in Droppable
             /\ lifecycle = "draining" /\ Len(work) = 1
    /\ \A i, j \in DOMAIN work : work[i].of = work[j].of => i = j
    /\ \A o \in Objects : guard[o] = 1 => \E i \in DOMAIN work : work[i].of = o

\* How far the thread has come.
LifeKnown ==
    /\ lifecycle = "unused" => registry = <<>> /\ \A o \in Objects : guard[o] = 0
    /\ lifecycle = "running" /\ registry # <<>> /\ platform # "none" => hooked
    /\ lifecycle = "finished" => registry = <<>>
    /\ Exiting => disabled /\ ~cached
    /\ \A o \in Objects : guard[o] = 3 => Exiting /\ o \in Droppable
    /\ ~alive => work = <<>> /\ registry = <<>> /\ lifecycle # "draining"

\* An object in the registry comes before what its initializer has obtained, and will be
\* destroyed before.
BeforeItsSources ==
    \A p \in obtained :
       /\ guard[p[2]] \in {2, 3}
       /\ \A i \in DOMAIN registry : registry[i] = p[1] /\ p[2] \in Droppable =>
             \E j \in DOMAIN registry : i < j /\ registry[j] = p[2]

IInv == /\ Types /\ Flags /\ WorkKnown /\ LifeKnown /\ RegistryIsExact /\ BeforeItsSources
        /\ UsedOutlivesUser

LEMMA FrontOf ==
  ASSUME NEW V, NEW s \in Seq(V), s # <<>>
  PROVE  /\ Len(s) \in Nat \ {0} /\ Last(s) = s[Len(s)] /\ Last(s) \in V
         /\ Front(s) \in Seq(V) /\ Len(Front(s)) = Len(s) - 1
         /\ DOMAIN s = 1..Len(s) /\ DOMAIN Front(s) = 1..Len(s) - 1
         /\ \A i \in 1..Len(s) - 1 : Front(s)[i] = s[i]
<1>1. Len(s) \in Nat \ {0} /\ Last(s) = s[Len(s)] /\ Last(s) \in V /\ DOMAIN s = 1..Len(s)
  BY DEF Last
<1>2. \A i \in 1..Len(s) - 1 : s[i] \in V
  BY <1>1
<1>3. /\ Front(s) \in Seq(V)
      /\ Len(Front(s)) = IF 1 <= Len(s) - 1 THEN Len(s) - 1 - 1 + 1 ELSE 0
      /\ \A i \in 1..Len(s) - 1 - 1 + 1 : Front(s)[i] = s[1 + i - 1]
  BY <1>1, <1>2, SubSeqProperties DEF Front
<1> DEFINE f == Front(s)
<1> HIDE DEF f
<1>4. f \in Seq(V) /\ \A i \in 1..Len(s) - 1 - 1 + 1 : f[i] = s[1 + i - 1]
  BY <1>3 DEF f
<1>5. Len(f) = Len(s) - 1
  <2>1. CASE 1 <= Len(s) - 1
    BY <1>1, <1>3, <2>1 DEF f
  <2>2. CASE ~(1 <= Len(s) - 1)
    BY <1>1, <1>3, <2>2 DEF f
  <2> QED
    BY <2>1, <2>2
<1>6. DOMAIN f = 1..Len(s) - 1 /\ \A i \in 1..Len(s) - 1 : f[i] = s[i]
  BY <1>1, <1>4, <1>5
<1> QED
  BY <1>1, <1>4, <1>5, <1>6 DEF f

LEMMA PushedOn ==
  ASSUME NEW V, NEW s \in Seq(V), NEW x \in V
  PROVE  /\ <<x>> \o s \in Seq(V) /\ Len(<<x>> \o s) = Len(s) + 1 /\ Len(s) \in Nat
         /\ (<<x>> \o s)[1] = x
         /\ \A i \in 1..Len(s) : (<<x>> \o s)[i + 1] = s[i]
         /\ Range(<<x>> \o s) = Range(s) \cup {x}
<1>1. /\ <<x>> \o s \in Seq(V) /\ Len(<<x>> \o s) = Len(s) + 1 /\ Len(s) \in Nat
      /\ (<<x>> \o s)[1] = x
      /\ \A i \in 1..Len(s) : (<<x>> \o s)[i + 1] = s[i]
  OBVIOUS
<1>2. DOMAIN (<<x>> \o s) = 1..Len(s) + 1 /\ DOMAIN s = 1..Len(s)
  BY <1>1
<1>3. \A i \in 1..Len(s) + 1 : i = 1 \/ (i - 1 \in 1..Len(s) /\ i = (i - 1) + 1)
  BY <1>1
<1> DEFINE r == <<x>> \o s
<1> HIDE DEF r
<1>4. {r[i] : i \in DOMAIN r} = {s[i] : i \in DOMAIN s} \cup {x}
  <2>1. ASSUME NEW i \in DOMAIN r PROVE r[i] \in {s[j] : j \in DOMAIN s} \cup {x}
    BY <1>1, <1>2, <1>3 DEF r
  <2>2. ASSUME NEW i \in DOMAIN s PROVE s[i] \in {r[j] : j \in DOMAIN r}
    <3>1. i + 1 \in DOMAIN r /\ r[i + 1] = s[i]
      BY <1>1, <1>2 DEF r
    <3> QED
      BY <3>1
  <2>3. x \in {r[j] : j \in DOMAIN r}
    <3>1. 1 \in DOMAIN r /\ r[1] = x
      BY <1>1, <1>2 DEF r
    <3> QED
      BY <3>1
  <2> QED
    BY <2>1, <2>2, <2>3
<1> QED
  BY <1>1, <1>4 DEF Range, r

LEMMA TailOf ==
  ASSUME NEW V, NEW s \in Seq(V), s # <<>>
  PROVE  /\ Tail(s) \in Seq(V) /\ Len(s) \in Nat \ {0} /\ Len(Tail(s)) = Len(s) - 1
         /\ \A i \in 1..Len(s) - 1 : Tail(s)[i] = s[i + 1]
         /\ Head(s) = s[1] /\ Head(s) \in V
  BY HeadTailProperties

-----------------------------------------------------------------------------
(* What is in progress, by the lifecycle. *)

LEMMA InProgress ==
  ASSUME IInv
  PROVE  /\ lifecycle \in {"unused", "finished"} => work = <<>>
         /\ work # <<>> => Len(work) \in DOMAIN work
         /\ Doing("init") => /\ lifecycle = "running" /\ guard[Last(work).of] = 1
                             /\ Last(work).of \in Objects
         /\ Doing("deinit") => /\ lifecycle = "draining" /\ Len(work) = 1
                               /\ guard[Last(work).of] = 2 /\ Last(work).of \in Droppable
         /\ work # <<>> => Doing("init") \/ Doing("deinit")
         /\ Dying # <<>> => lifecycle = "draining"
         /\ work = <<>> => ~Doing("init") /\ ~Doing("deinit")
<1>1. ASSUME work # <<>> PROVE Len(work) \in DOMAIN work /\ Last(work) = work[Len(work)]
  <2>1. work \in Seq(Stack)
    BY DEF IInv, Types
  <2>2. Len(work) \in Nat \ {0} /\ DOMAIN work = 1..Len(work)
    BY <1>1, <2>1
  <2> QED
    BY <2>2 DEF Last
<1>2. \A i \in DOMAIN work : work[i] \in Stack
  BY DEF IInv, Types
<1> QED
  BY <1>1, <1>2 DEF IInv, WorkKnown, Doing, Dying, Stack

\* Steps that leave objects, registry and work alone.
LEMMA QuietKeeps ==
  ASSUME IInv, UNCHANGED <<guard, registry, work, obtained, throws>>, Flags',
         lifecycle' \in {"unused", "running", "draining", "finished"},
         work # <<>> => lifecycle' = lifecycle, LifeKnown'
  PROVE  IInv'
<1>1. Types' /\ WorkKnown'
  BY InProgress DEF IInv, Types, WorkKnown
<1>2. RegistryIsExact' /\ BeforeItsSources' /\ UsedOutlivesUser'
  BY DEF IInv, RegistryIsExact, BeforeItsSources, UsedOutlivesUser, Dying, Doing
<1> QED
  BY <1>1, <1>2 DEF IInv

LEMMA FlagsKept ==
  ASSUME IInv, [Next]_vars
  PROVE  Flags'
<1> USE DEF IInv, Flags, exitVars
<1>1. CASE UNCHANGED vars
  BY <1>1 DEF vars
<1>2. CASE Start \/ Allocate \/ DrainOne \/ DeinitReturns \/ DrainEnds \/ ThreadEnds
  BY <1>2 DEF Start, Allocate, DrainOne, DeinitReturns, DrainEnds, ThreadEnds
<1>3. ASSUME NEW h \in BOOLEAN, FinishState(h) PROVE Flags'
  BY <1>3 DEF FinishState
<1>4. ASSUME NEW o \in Objects, Obtain(o) \/ Acquire(o) \/ AccessPanics(o) \/ Throw(o) \/ Complete(o)
      PROVE Flags'
  BY <1>4 DEF Obtain, Acquire, BeginInit, AccessPanics, Panic, Throw, Complete, CompleteWith
<1> QED
  BY <1>1, <1>2, <1>3, <1>4 DEF Next, Finish, ExitHook

LEMMA QuietSteps ==
  ASSUME IInv, \/ Start \/ Allocate \/ Finish \/ ExitHook \/ DrainEnds \/ ThreadEnds
               \/ (\E o \in Objects : AccessPanics(o)) \/ UNCHANGED vars
  PROVE  IInv'
<1>1. Flags'
  BY FlagsKept DEF Next, vars
<1> USE DEF Exiting
<1>2. CASE UNCHANGED vars
  BY <1>1, <1>2, QuietKeeps DEF vars, exitVars, IInv, LifeKnown, Types
<1>3. CASE Start
  BY <1>1, <1>3, QuietKeeps, InProgress DEF Start, IInv, LifeKnown, Types, InProgram
<1>4. CASE Allocate
  BY <1>1, <1>4, QuietKeeps DEF Allocate, exitVars, IInv, LifeKnown, Types
<1>5. CASE Finish
  BY <1>1, <1>5, QuietKeeps, InProgress DEF Finish, FinishState, IInv, LifeKnown, Types, InProgram
<1>6. CASE ExitHook
  BY <1>1, <1>6, QuietKeeps, InProgress DEF ExitHook, FinishState, IInv, LifeKnown, Types, InProgram, Draining
<1>7. CASE DrainEnds
  BY <1>1, <1>7, QuietKeeps DEF DrainEnds, Draining, IInv, LifeKnown, Types
<1>8. CASE ThreadEnds
  BY <1>1, <1>8, QuietKeeps DEF ThreadEnds, InProgram, Draining, IInv, LifeKnown, Types
<1>9. CASE \E o \in Objects : AccessPanics(o)
  BY <1>1, <1>9, QuietKeeps DEF AccessPanics, Panic, exitVars, IInv, LifeKnown, Types
<1> QED
  BY <1>2, <1>3, <1>4, <1>5, <1>6, <1>7, <1>8, <1>9

LEMMA ObtainKeeps ==
  ASSUME IInv, NEW o \in Objects, Obtain(o)
  PROVE  IInv'
<1>1. Flags'
  BY FlagsKept DEF Next
<1>2. /\ UNCHANGED <<guard, registry, work, throws, lifecycle>>
      /\ guard[o] = 2 /\ LifeKnown'
  BY DEF Obtain, exitVars, IInv, LifeKnown, Exiting
<1>3. ASSUME NEW p \in obtained', p \notin obtained
      PROVE  p = <<Last(work).of, o>> /\ Doing("init")
  BY <1>3 DEF Obtain
<1>4. \A p \in obtained' : p \in obtained \/ (/\ p \in Objects \X Objects /\ p[2] = o
                                             /\ guard[p[1]] = 1)
  BY <1>3, InProgress
<1>5. Types' /\ WorkKnown' /\ RegistryIsExact'
  BY <1>2, <1>4 DEF IInv, Types, WorkKnown, RegistryIsExact, Dying, Doing
<1>6. BeforeItsSources' /\ UsedOutlivesUser'
  <2> SUFFICES ASSUME NEW p \in obtained'
               PROVE  /\ guard[p[2]] \in {2, 3}
                      /\ \A i \in DOMAIN registry : registry[i] = p[1] /\ p[2] \in Droppable =>
                            \E j \in DOMAIN registry : i < j /\ registry[j] = p[2]
                      /\ guard[p[1]] = 2 /\ p[1] \in Droppable => guard[p[2]] # 3
    BY <1>2 DEF BeforeItsSources, UsedOutlivesUser
  <2>1. CASE p \in obtained
    BY <2>1 DEF IInv, BeforeItsSources, UsedOutlivesUser
  <2>2. CASE p[2] = o /\ guard[p[1]] = 1
    <3>1. \A i \in DOMAIN registry : guard[registry[i]] = 2
      BY DEF IInv, RegistryIsExact, Range
    <3> QED
      BY <1>2, <2>2, <3>1
  <2> QED
    BY <1>4, <2>1, <2>2
<1> QED
  BY <1>1, <1>2, <1>5, <1>6 DEF IInv

\* The guards of the living and the destroyed stay as they are, so that what the
\* registry and the history say stays true.
LEMMA SameObjectsKeep ==
  ASSUME IInv, UNCHANGED <<registry, obtained>>, Dying' = Dying, guard' \in [Objects -> 0..3],
         \A x \in Objects : \/ guard'[x] = guard[x]
                            \/ guard[x] \in {0, 1} /\ guard'[x] \in {0, 1}
  PROVE  RegistryIsExact' /\ BeforeItsSources' /\ UsedOutlivesUser'
<1>1. \A x \in Objects : (guard'[x] = 2 <=> guard[x] = 2) /\ (guard'[x] = 3 <=> guard[x] = 3)
  OBVIOUS
<1>2. \A p \in obtained : p[1] \in Objects /\ p[2] \in Objects
  BY DEF IInv, Types
<1>3. {x \in Droppable : guard'[x] = 2} = {x \in Droppable : guard[x] = 2}
  BY <1>1, ConstantTypes
<1>4. RegistryIsExact'
  BY <1>3 DEF IInv, RegistryIsExact
<1> QED
  BY <1>1, <1>2, <1>4 DEF IInv, BeforeItsSources, UsedOutlivesUser

LEMMA AcquireKeeps ==
  ASSUME IInv, NEW o \in Objects, Acquire(o)
  PROVE  IInv'
<1>1. Flags'
  BY FlagsKept DEF Next
<1>2. /\ UNCHANGED <<registry, disabled, cached, platform, armed, hooked, alive, panicked,
                     obtained, throws>>
      /\ guard[o] = 0 /\ guard' = [guard EXCEPT ![o] = 1]
      /\ work' = Append(work, Frame(o, "init")) /\ alive
      /\ lifecycle' = "running" /\ lifecycle \in {"unused", "running"}
  BY DEF Acquire, BeginInit, InProgram
<1>3. Frame(o, "init") \in Stack
  BY DEF Frame, Stack
<1>4. /\ work' \in Seq(Stack) /\ Len(work') = Len(work) + 1 /\ Len(work) \in Nat
      /\ DOMAIN work' = 1..Len(work) + 1 /\ DOMAIN work = 1..Len(work)
      /\ work'[Len(work) + 1].of = o /\ work'[Len(work) + 1].doing = "init"
      /\ \A i \in 1..Len(work) : work'[i] = work[i]
  <2>1. work \in Seq(Stack)
    BY DEF IInv, Types
  <2> QED
    BY <1>2, <1>3, <2>1, AppendProperties DEF Frame
<1>5. Types'
  BY <1>2, <1>4 DEF IInv, Types
<1>6. Dying = <<>> /\ Dying' = <<>>
  <2>1. Doing("init")'
    BY <1>4 DEF Doing, Last
  <2>2. ~Doing("deinit")'
    BY <2>1 DEF Doing
  <2> QED
    BY <1>2, <2>2, InProgress DEF Dying
<1>7. RegistryIsExact' /\ BeforeItsSources' /\ UsedOutlivesUser'
  <2>1. /\ guard' \in [Objects -> 0..3]
        /\ \A x \in Objects : \/ guard'[x] = guard[x]
                              \/ guard[x] \in {0, 1} /\ guard'[x] \in {0, 1}
    BY <1>2 DEF IInv, Types
  <2> QED
    BY <1>2, <1>6, <2>1, SameObjectsKeep
<1>8. LifeKnown'
  BY <1>2, InProgress DEF IInv, Types, LifeKnown, Exiting
<1>9. WorkKnown'
  <2>1. ASSUME NEW i \in 1..Len(work)
        PROVE  /\ work[i].of \in Objects \ {o} /\ work[i].doing = "init"
               /\ guard'[work[i].of] = 1 /\ guard[work[i].of] = 1
    <3>1. i \in DOMAIN work /\ work[i] \in Stack
      BY <1>4 DEF IInv, Types
    <3>2. work[i].doing = "init" /\ guard[work[i].of] = 1
      BY <1>2, <3>1 DEF IInv, WorkKnown
    <3>3. work[i].of \in Objects \ {o}
      BY <1>2, <3>1, <3>2 DEF Stack
    <3> QED
      BY <1>2, <3>2, <3>3 DEF IInv, Types
  <2>2. \A i \in DOMAIN work' : work'[i].doing = "init" /\ guard'[work'[i].of] = 1
    BY <1>2, <1>4, <2>1 DEF IInv, Types
  <2>3. \A i, j \in DOMAIN work' : work'[i].of = work'[j].of => i = j
    BY <1>4, <2>1 DEF IInv, WorkKnown
  <2>4. ASSUME NEW x \in Objects, guard'[x] = 1 PROVE \E i \in DOMAIN work' : work'[i].of = x
    <3>1. CASE x = o
      BY <1>4, <3>1
    <3>2. CASE x # o
      <4>1. PICK i \in DOMAIN work : work[i].of = x
        BY <1>2, <2>4, <3>2 DEF IInv, Types, WorkKnown
      <4> QED
        BY <1>4, <4>1
    <3> QED
      BY <3>1, <3>2
  <2> QED
    BY <1>2, <2>2, <2>3, <2>4 DEF WorkKnown
<1> QED
  BY <1>1, <1>5, <1>7, <1>8, <1>9 DEF IInv

\* The innermost initializer or destructor ends.
LEMMA Popped ==
  ASSUME IInv, work # <<>>, work' = Front(work), NEW o \in Objects, o = Last(work).of,
         NEW v \in 0..3, v # 1, guard' = [guard EXCEPT ![o] = v], lifecycle' = lifecycle
  PROVE  /\ work' \in Seq(Stack) /\ guard' \in [Objects -> 0..3] /\ WorkKnown'
         /\ Doing("deinit") => work' = <<>>
         /\ ~Doing("deinit")' /\ Dying' = <<>>
<1>1. /\ work \in Seq(Stack) /\ Len(work) \in Nat \ {0} /\ o = work[Len(work)].of
      /\ work' \in Seq(Stack) /\ Len(work') = Len(work) - 1
      /\ DOMAIN work' = 1..Len(work) - 1 /\ DOMAIN work = 1..Len(work)
      /\ \A i \in 1..Len(work) - 1 : work'[i] = work[i]
  BY FrontOf DEF IInv, Types
<1>2. guard' \in [Objects -> 0..3]
  BY DEF IInv, Types
<1>3. ASSUME NEW i \in DOMAIN work'
      PROVE  /\ i \in DOMAIN work /\ i # Len(work) /\ work'[i] = work[i]
             /\ work[i].of \in Objects \ {o}
             /\ guard'[work[i].of] = guard[work[i].of] /\ Len(work) # 1
  <2>1. i \in DOMAIN work /\ i # Len(work) /\ work'[i] = work[i] /\ Len(work) # 1
    BY <1>1
  <2>2. Len(work) \in DOMAIN work /\ work[i] \in Stack
    BY <1>1, <2>1
  <2>3. work[i].of # o /\ work[i].of \in Objects
    BY <1>1, <2>1, <2>2 DEF IInv, WorkKnown, Stack
  <2> QED
    BY <1>2, <2>1, <2>3 DEF IInv, Types
<1>4. \A i \in DOMAIN work' : work'[i].doing = "init" /\ guard'[work'[i].of] = 1 /\ lifecycle = "running"
  BY <1>3 DEF IInv, WorkKnown
<1>5. \A x \in Objects : guard'[x] = 1 => \E i \in DOMAIN work' : work'[i].of = x
  <2> SUFFICES ASSUME NEW x \in Objects, guard'[x] = 1
               PROVE  \E i \in DOMAIN work' : work'[i].of = x
    OBVIOUS
  <2>1. x # o /\ guard[x] = 1
    BY DEF IInv, Types
  <2>2. PICK i \in DOMAIN work : work[i].of = x
    BY <2>1 DEF IInv, WorkKnown
  <2>3. i # Len(work)
    BY <1>1, <2>1, <2>2
  <2> QED
    BY <1>1, <2>2, <2>3
<1>6. WorkKnown'
  BY <1>3, <1>4, <1>5 DEF IInv, WorkKnown
<1>7. Doing("deinit") => work' = <<>>
  BY <1>1, InProgress
<1>8. ~Doing("deinit")'
  <2> SUFFICES ASSUME work' # <<>> PROVE Last(work').doing # "deinit"
    BY DEF Doing
  <2>1. Last(work') = work'[Len(work')] /\ Len(work') \in DOMAIN work'
    <3>1. work' \in Seq(Stack)
      BY <1>1
    <3>2. Len(work') \in Nat \ {0} /\ DOMAIN work' = 1..Len(work')
      BY <3>1
    <3> QED
      BY <3>2 DEF Last
  <2> QED
    BY <1>4, <2>1
<1> QED
  BY <1>1, <1>2, <1>6, <1>7, <1>8 DEF Dying

LEMMA ThrowKeeps ==
  ASSUME IInv, NEW o \in Objects, Throw(o)
  PROVE  IInv'
<1>1. Flags'
  BY FlagsKept DEF Next
<1>2. /\ UNCHANGED <<registry, disabled, cached, exitVars, panicked, obtained>>
      /\ guard' = [guard EXCEPT ![o] = 0] /\ work' = Front(work)
      /\ Doing("init") /\ work # <<>> /\ o = Last(work).of
      /\ throws < MaxThrows /\ throws' = throws + 1
  BY DEF Throw, Doing
<1>3. /\ work' \in Seq(Stack) /\ guard' \in [Objects -> 0..3] /\ WorkKnown'
      /\ Dying' = <<>>
  <2>1. work # <<>> /\ work' = Front(work) /\ o = Last(work).of /\ lifecycle' = lifecycle
    BY <1>2 DEF exitVars
  <2>2. guard' = [guard EXCEPT ![o] = 0] /\ 0 \in 0..3 /\ 0 # 1
    BY <1>2
  <2> QED
    BY <2>1, <2>2, Popped
<1>4. /\ Dying = <<>> /\ guard[o] = 1 /\ lifecycle = "running"
  BY <1>2, InProgress DEF Dying
<1>5. RegistryIsExact' /\ BeforeItsSources' /\ UsedOutlivesUser'
  <2>1. \A x \in Objects : \/ guard'[x] = guard[x]
                           \/ guard[x] \in {0, 1} /\ guard'[x] \in {0, 1}
    BY <1>2, <1>4 DEF IInv, Types
  <2> QED
    BY <1>2, <1>3, <1>4, <2>1, SameObjectsKeep
<1>6. LifeKnown'
  BY <1>2, <1>4 DEF IInv, Types, LifeKnown, Exiting, exitVars
<1>7. Types'
  BY <1>2, <1>3, ConstantTypes DEF IInv, Types, exitVars
<1> QED
  BY <1>1, <1>3, <1>5, <1>6, <1>7 DEF IInv

LEMMA CompleteKeeps ==
  ASSUME IInv, NEW o \in Objects, Complete(o)
  PROVE  IInv'
<1>1. Flags'
  BY FlagsKept DEF Next
<1>0. lifecycle = "running"
  BY InProgress DEF Complete, CompleteWith
<1>2. /\ UNCHANGED <<disabled, cached, platform, lifecycle, alive, panicked, throws>>
      /\ guard' = [guard EXCEPT ![o] = 2] /\ work' = Front(work)
      /\ registry' = (IF o \in Droppable THEN <<o>> \o registry ELSE registry)
      /\ hooked' = (hooked \/ (o \in Droppable /\ platform # "none"))
      /\ Doing("init") /\ work # <<>> /\ o = Last(work).of
  BY <1>0 DEF Complete, CompleteWith, Doing
<1>3. /\ work' \in Seq(Stack) /\ guard' \in [Objects -> 0..3] /\ WorkKnown'
      /\ Dying' = <<>>
  <2>1. guard' = [guard EXCEPT ![o] = 2] /\ 2 \in 0..3 /\ 2 # 1 /\ lifecycle' = lifecycle
    BY <1>2
  <2> QED
    BY <1>2, <2>1, Popped
<1>4. /\ Dying = <<>> /\ guard[o] = 1 /\ lifecycle = "running"
  BY <1>2, InProgress DEF Dying, Doing
<1>5. /\ registry \in Seq(Droppable) /\ Len(registry) \in Nat /\ DOMAIN registry = 1..Len(registry)
      /\ guard \in [Objects -> 0..3]
      /\ \A i \in DOMAIN registry : /\ registry[i] \in Droppable /\ guard[registry[i]] = 2
                                    /\ registry[i] # o
  <2>1. registry \in Seq(Droppable) /\ guard \in [Objects -> 0..3]
    BY DEF IInv, Types
  <2> QED
    BY <1>4, <2>1 DEF IInv, RegistryIsExact, Range
<1>6. \A x \in Objects : guard'[x] = (IF x = o THEN 2 ELSE guard[x]) /\ guard'[x] # 3
  BY <1>2, <1>4, <1>5 DEF IInv, LifeKnown, Exiting
<1>7. \A p \in obtained' : \/ p \in obtained
                           \/ p \in Objects \X Objects /\ p[2] = o /\ guard'[p[1]] = 1
  <2>1. CASE Len(work) > 1 /\ Last(work').doing = "init"
    <3>1. work \in Seq(Stack) /\ Len(work') = Len(work) - 1 /\ Len(work) \in Nat
      BY <1>2, FrontOf DEF IInv, Types
    <3>2. work' # <<>>
      BY <2>1, <3>1
    <3>3. Len(work') \in Nat \ {0} /\ DOMAIN work' = 1..Len(work')
      BY <1>3, <3>2
    <3>4. Last(work') = work'[Len(work')] /\ Len(work') \in DOMAIN work' /\ Last(work') \in Stack
      BY <1>3, <3>3 DEF Last
    <3>5. guard'[Last(work').of] = 1 /\ Last(work').of \in Objects
      BY <1>3, <2>1, <3>4 DEF WorkKnown, Stack
    <3>6. obtained' = obtained \cup {<<Last(work').of, o>>}
      BY <1>0, <2>1 DEF Complete, CompleteWith
    <3> QED
      BY <3>5, <3>6
  <2>2. CASE ~(Len(work) > 1 /\ Last(work').doing = "init")
    BY <1>0, <2>2 DEF Complete, CompleteWith
  <2> QED
    BY <2>1, <2>2
<1>8. \A p \in obtained : p \in Objects \X Objects /\ guard'[p[2]] = 2
  BY <1>5, <1>6 DEF IInv, Types, BeforeItsSources
\* The registry stays or has o before all others.
<1>9. /\ registry' \in Seq(Droppable) /\ Range(registry') = Range(registry) \cup ({o} \cap Droppable)
      /\ \A i \in DOMAIN registry : \E k \in DOMAIN registry' : registry'[k] = registry[i]
      /\ \A i, j \in DOMAIN registry' : registry'[i] = registry'[j] => i = j
  <2>1. CASE o \notin Droppable
    BY <1>2, <1>5, <2>1 DEF IInv, RegistryIsExact
  <2>2. CASE o \in Droppable
    <3>1. /\ registry' \in Seq(Droppable) /\ Len(registry') = Len(registry) + 1
          /\ registry'[1] = o
          /\ \A i \in 1..Len(registry) : registry'[i + 1] = registry[i]
          /\ Range(registry') = Range(registry) \cup {o}
      BY <1>2, <1>5, <2>2, PushedOn
    <3>2. DOMAIN registry' = 1..Len(registry) + 1
      BY <1>5, <3>1
    <3>3. \A i \in DOMAIN registry' : \/ i = 1 /\ registry'[i] = o
                                      \/ /\ i # 1 /\ i - 1 \in DOMAIN registry
                                         /\ registry'[i] = registry[i - 1]
      <4>1. ASSUME NEW i \in DOMAIN registry', i # 1
            PROVE  i - 1 \in 1..Len(registry) /\ i = (i - 1) + 1
        BY <1>5, <3>2, <4>1
      <4> QED
        BY <1>5, <3>1, <4>1
    <3>4. ASSUME NEW i \in DOMAIN registry', NEW j \in DOMAIN registry', registry'[i] = registry'[j]
          PROVE  i = j
      <4>1. (i = 1 /\ j = 1) \/ (/\ i # 1 /\ j # 1 /\ i - 1 \in DOMAIN registry /\ j - 1 \in DOMAIN registry
                                 /\ registry[i - 1] = registry[j - 1])
        BY <1>5, <3>3, <3>4
      <4>2. i \in Nat /\ j \in Nat
        BY <1>5, <3>2
      <4> QED
        BY <4>1, <4>2 DEF IInv, RegistryIsExact
    <3>5. ASSUME NEW i \in DOMAIN registry PROVE \E k \in DOMAIN registry' : registry'[k] = registry[i]
      <4>1. i + 1 \in DOMAIN registry' /\ registry'[i + 1] = registry[i]
        BY <1>5, <3>1, <3>2
      <4> QED
        BY <4>1
    <3> QED
      BY <2>2, <3>1, <3>4, <3>5
  <2> QED
    BY <2>1, <2>2
<1>10. RegistryIsExact'
  <2>1. {x \in Droppable : guard'[x] = 2} = {x \in Droppable : guard[x] = 2} \cup ({o} \cap Droppable)
    BY <1>6, ConstantTypes
  <2>2. {x \in Droppable : guard[x] = 2} = Range(registry)
    BY <1>4 DEF IInv, RegistryIsExact, Range
  <2>3. {x \in Droppable : guard'[x] = 2} = Range(registry')
    BY <1>9, <2>1, <2>2
  <2>4. Range(Dying') = {}
    BY <1>3 DEF Range
  <2> QED
    BY <1>9, <2>3, <2>4 DEF RegistryIsExact
<1>11. ASSUME NEW p \in obtained', NEW i \in DOMAIN registry', registry'[i] = p[1], p[2] \in Droppable
       PROVE  \E j \in DOMAIN registry' : i < j /\ registry'[j] = p[2]
  <2>0. guard'[p[1]] = 2 /\ p \in obtained
    <3>1. registry'[i] \in Range(registry')
      BY DEF Range
    <3>2. \A x \in Range(registry) : x \in Objects /\ guard[x] = 2 /\ x # o
      BY <1>5, ConstantTypes DEF Range
    <3>3. guard'[p[1]] = 2
      BY <1>6, <1>9, <1>11, <3>1, <3>2
    <3> QED
      BY <1>7, <3>3
  <2>1. CASE o \notin Droppable
    BY <1>2, <1>11, <2>0, <2>1 DEF IInv, BeforeItsSources
  <2>2. CASE o \in Droppable
    <3>1. /\ Len(registry') = Len(registry) + 1 /\ registry'[1] = o
          /\ \A k \in 1..Len(registry) : registry'[k + 1] = registry[k]
      BY <1>2, <1>5, <2>2, PushedOn
    <3>2. DOMAIN registry' = 1..Len(registry) + 1
      BY <1>5, <1>9, <3>1
    <3>3. CASE i = 1
      <4>1. p[2] \in Range(registry)
        <5>1. p[2] # o /\ guard[p[2]] = 2
          BY <1>4, <1>6, <1>8, <2>0 DEF IInv, BeforeItsSources
        <5> QED
          BY <1>4, <1>11, <5>1 DEF IInv, RegistryIsExact, Range
      <4>2. PICK k \in DOMAIN registry : registry[k] = p[2]
        BY <4>1 DEF Range
      <4>3. k + 1 \in DOMAIN registry' /\ registry'[k + 1] = p[2] /\ 1 < k + 1
        BY <1>5, <3>1, <3>2, <4>2
      <4> QED
        BY <3>3, <4>3
    <3>4. CASE i # 1
      <4>1. i \in Nat /\ i - 1 \in 1..Len(registry) /\ i = (i - 1) + 1
        BY <1>5, <3>2, <3>4
      <4>2. registry[i - 1] = p[1] /\ i - 1 \in DOMAIN registry
        BY <1>5, <1>11, <3>1, <4>1
      <4>3. PICK k \in DOMAIN registry : i - 1 < k /\ registry[k] = p[2]
        BY <1>11, <2>0, <4>2 DEF IInv, BeforeItsSources
      <4>4. k + 1 \in DOMAIN registry' /\ registry'[k + 1] = p[2] /\ i < k + 1
        BY <1>5, <3>1, <3>2, <4>1, <4>3
      <4> QED
        BY <4>4
    <3> QED
      BY <3>3, <3>4
  <2> QED
    BY <2>1, <2>2
<1>12. BeforeItsSources' /\ UsedOutlivesUser'
  <2>1. \A p \in obtained' : guard'[p[2]] = 2
    BY <1>6, <1>7, <1>8
  <2>2. BeforeItsSources'
    BY <1>11, <2>1 DEF BeforeItsSources
  <2>3. UsedOutlivesUser'
    BY <2>1 DEF UsedOutlivesUser
  <2> QED
    BY <2>2, <2>3
<1>13. Types'
  BY <1>2, <1>3, <1>7, <1>9 DEF IInv, Types
<1>14. LifeKnown'
  <2>1. registry' # <<>> /\ platform # "none" => hooked'
    <3>1. registry' # registry => o \in Droppable
      BY <1>2
    <3> QED
      BY <1>2, <1>4, <3>1 DEF IInv, LifeKnown
  <2>2. alive
    BY <1>2 DEF IInv, LifeKnown
  <2> QED
    BY <1>2, <1>4, <1>6, <2>1, <2>2 DEF LifeKnown, Exiting
<1> QED
  BY <1>1, <1>3, <1>10, <1>12, <1>13, <1>14 DEF IInv

LEMMA DrainOneKeeps ==
  ASSUME IInv, DrainOne
  PROVE  IInv' /\ registry # <<>> /\ Dying = <<>> /\ Dying' \o registry' = registry
<1>1. Flags'
  BY FlagsKept DEF Next
<1> DEFINE d == Head(registry)
<1>2. /\ UNCHANGED <<guard, disabled, cached, platform, lifecycle, armed, hooked, alive, panicked,
                     obtained, throws>>
      /\ lifecycle = "draining" /\ work = <<>> /\ registry # <<>>
      /\ registry' = Tail(registry) /\ work' = <<Frame(d, "deinit")>>
  BY DEF DrainOne, Draining, exitVars
<1>3. registry \in Seq(Droppable) /\ guard \in [Objects -> 0..3]
  BY DEF IInv, Types
<1>4. /\ registry' \in Seq(Droppable) /\ Len(registry) \in Nat \ {0}
      /\ Len(registry') = Len(registry) - 1
      /\ \A i \in 1..Len(registry) - 1 : registry'[i] = registry[i + 1]
      /\ d = registry[1] /\ d \in Droppable
      /\ DOMAIN registry = 1..Len(registry)
  BY <1>2, <1>3, TailOf
<1>5. DOMAIN registry' = 1..Len(registry) - 1
  BY <1>4
<1> HIDE DEF d
<1>6. /\ work' \in Seq(Stack) /\ Len(work') = 1 /\ DOMAIN work' = {1}
      /\ work'[1].of = d /\ work'[1].doing = "deinit" /\ Last(work') = work'[1] /\ work' # <<>>
  BY <1>2, <1>4, ConstantTypes DEF Stack, Frame, Last
<1>7. Dying = <<>> /\ Dying' = <<d>>
  BY <1>2, <1>6 DEF Dying, Doing
<1>8. guard[d] = 2 /\ d \in Objects /\ \A i \in DOMAIN registry : guard[registry[i]] = 2
  BY <1>4, <1>7, ConstantTypes DEF IInv, RegistryIsExact, Range
<1>9. \A o \in Objects : guard[o] # 1
  BY <1>2 DEF IInv, WorkKnown
<1>10. WorkKnown'
  BY <1>2, <1>4, <1>6, <1>8, <1>9 DEF WorkKnown
<1>11. Types'
  BY <1>2, <1>4, <1>6 DEF IInv, Types
<1>12. LifeKnown'
  BY <1>2, <1>9 DEF IInv, LifeKnown, Exiting
<1>13. UsedOutlivesUser'
  BY <1>2 DEF IInv, UsedOutlivesUser
<1>14. \A i \in DOMAIN registry' : i + 1 \in DOMAIN registry /\ i + 1 # 1 /\ registry'[i] = registry[i + 1]
  BY <1>4, <1>5
<1>15. \A i \in DOMAIN registry : i # 1 => i - 1 \in DOMAIN registry' /\ registry'[i - 1] = registry[i]
  <2> SUFFICES ASSUME NEW i \in DOMAIN registry, i # 1
               PROVE  i - 1 \in DOMAIN registry' /\ registry'[i - 1] = registry[i]
    OBVIOUS
  <2>1. i - 1 \in 1..Len(registry) - 1 /\ (i - 1) + 1 = i
    BY <1>4
  <2> QED
    BY <1>4, <1>5, <2>1
<1>16. RegistryIsExact'
  <2>1. \A i, j \in DOMAIN registry' : registry'[i] = registry'[j] => i = j
    <3> SUFFICES ASSUME NEW i \in DOMAIN registry', NEW j \in DOMAIN registry', registry'[i] = registry'[j]
                 PROVE  i = j
      OBVIOUS
    <3>1. i + 1 = j + 1
      BY <1>14 DEF IInv, RegistryIsExact
    <3>2. i \in Nat /\ j \in Nat
      BY <1>4, <1>5
    <3> QED
      BY <3>1, <3>2
  <2>2. Range(registry) = Range(registry') \cup {d} /\ d \notin Range(registry')
    <3>1. \A i \in DOMAIN registry' : registry'[i] # d
      BY <1>4, <1>14 DEF IInv, RegistryIsExact
    <3>2. \A x \in Range(registry) : x = d \/ x \in Range(registry')
      BY <1>4, <1>15 DEF Range
    <3>3. \A x \in Range(registry') : x \in Range(registry)
      BY <1>14 DEF Range
    <3>4. d \in Range(registry)
      BY <1>4 DEF Range
    <3> QED
      BY <3>1, <3>2, <3>3, <3>4 DEF Range
  <2>3. Range(Dying) = {} /\ Range(Dying') = {d}
    BY <1>7 DEF Range
  <2> QED
    BY <1>2, <2>1, <2>2, <2>3 DEF IInv, RegistryIsExact
<1>17. BeforeItsSources'
  <2> SUFFICES ASSUME NEW p \in obtained', NEW i \in DOMAIN registry', registry'[i] = p[1], p[2] \in Droppable
               PROVE  \E j \in DOMAIN registry' : i < j /\ registry'[j] = p[2]
    BY <1>2 DEF IInv, BeforeItsSources
  <2>1. i + 1 \in DOMAIN registry /\ registry[i + 1] = p[1]
    BY <1>14
  <2>2. PICK j \in DOMAIN registry : i + 1 < j /\ registry[j] = p[2]
    BY <1>2, <2>1 DEF IInv, BeforeItsSources
  <2>3. i \in Nat \ {0} /\ j \in Nat
    BY <1>4, <1>5
  <2>4. j # 1 /\ i < j - 1
    BY <2>2, <2>3
  <2> QED
    BY <1>15, <2>2, <2>4
<1>18. Dying' \o registry' = registry
  BY <1>2, <1>3, <1>4, <1>7
<1> QED
  BY <1>1, <1>2, <1>7, <1>10, <1>11, <1>12, <1>13, <1>16, <1>17, <1>18 DEF IInv

LEMMA DeinitKeeps ==
  ASSUME IInv, DeinitReturns
  PROVE  /\ IInv' /\ lifecycle = "draining" /\ lifecycle' = lifecycle /\ registry' = registry
         /\ Dying = <<Last(work).of>> /\ Dying' = <<>> /\ Last(work).of \in Droppable
         /\ guard' = [guard EXCEPT ![Last(work).of] = 3]
<1>1. Flags'
  BY FlagsKept DEF Next
<1> DEFINE d == Last(work).of
<1>2. /\ UNCHANGED <<registry, disabled, cached, platform, lifecycle, armed, hooked, alive, panicked,
                     obtained, throws>>
      /\ guard' = [guard EXCEPT ![d] = 3] /\ work' = Front(work) /\ Doing("deinit") /\ work # <<>>
  BY DEF DeinitReturns, exitVars, Doing
<1>3. lifecycle = "draining" /\ guard[d] = 2 /\ d \in Droppable /\ d \in Objects
  BY <1>2, InProgress, ConstantTypes
<1>4. Dying = <<d>>
  BY <1>2 DEF Dying
<1> HIDE DEF d
<1>5. /\ work' \in Seq(Stack) /\ guard' \in [Objects -> 0..3] /\ WorkKnown'
      /\ work' = <<>> /\ Dying' = <<>>
  <2>1. /\ d = Last(work).of /\ d \in Objects /\ guard' = [guard EXCEPT ![d] = 3]
        /\ 3 \in 0..3 /\ 3 # 1 /\ lifecycle' = lifecycle
    BY <1>2, <1>3 DEF d
  <2> QED
    BY <1>2, <2>1, Popped
<1>6. \A x \in Objects : guard'[x] = IF x = d THEN 3 ELSE guard[x]
  BY <1>2, <1>3 DEF IInv, Types
<1>7. Range(Dying) = {d} /\ Range(Dying') = {}
  BY <1>4, <1>5 DEF Range
<1>8. RegistryIsExact'
  <2>1. {x \in Droppable : guard'[x] = 2} = {x \in Droppable : guard[x] = 2} \ {d}
    BY <1>6, ConstantTypes
  <2> QED
    BY <1>2, <1>7, <2>1 DEF IInv, RegistryIsExact
<1>9. \A i \in DOMAIN registry : registry[i] # d
  BY <1>7 DEF IInv, RegistryIsExact, Range
<1>10. \A p \in obtained : p[1] \in Objects /\ p[2] \in Objects
  BY DEF IInv, Types
<1>11. BeforeItsSources'
  BY <1>2, <1>6, <1>10 DEF IInv, BeforeItsSources
<1>12. UsedOutlivesUser'
  <2> SUFFICES ASSUME NEW p \in obtained, guard'[p[1]] = 2, p[1] \in Droppable, guard'[p[2]] = 3
               PROVE  FALSE
    BY <1>2 DEF UsedOutlivesUser
  <2>1. p[1] # d /\ guard[p[1]] = 2
    BY <1>6, <1>10
  <2>2. p[2] = d
    BY <1>6, <1>10, <2>1 DEF IInv, UsedOutlivesUser
  <2>3. PICK i \in DOMAIN registry : registry[i] = p[1]
    BY <1>7, <2>1 DEF IInv, RegistryIsExact, Range
  <2> QED
    BY <1>3, <1>9, <2>2, <2>3 DEF IInv, BeforeItsSources
<1>13. Types'
  BY <1>2, <1>5 DEF IInv, Types
<1>14. LifeKnown'
  BY <1>2, <1>3, <1>5, <1>6 DEF IInv, LifeKnown, Exiting
<1> QED
  BY <1>1, <1>2, <1>3, <1>4, <1>5, <1>8, <1>11, <1>12, <1>13, <1>14 DEF IInv, d

-----------------------------------------------------------------------------
LEMMA Starts == Init => IInv
<1> SUFFICES ASSUME Init PROVE IInv
  OBVIOUS
<1> USE DEF Init
<1>1. Types /\ Flags
  <2>1. guard \in [Objects -> 0..3] /\ throws \in 0..MaxThrows
    BY ConstantTypes
  <2>2. registry \in Seq(Droppable) /\ work \in Seq(Stack) /\ obtained \subseteq Objects \X Objects
    OBVIOUS
  <2> QED
    BY <2>1, <2>2 DEF Types, Flags
<1>2. WorkKnown /\ LifeKnown /\ BeforeItsSources /\ UsedOutlivesUser
  BY ConstantTypes DEF WorkKnown, LifeKnown, Exiting, BeforeItsSources, UsedOutlivesUser
<1>3. RegistryIsExact
  <2>1. Dying = <<>>
    BY DEF Dying, Doing
  <2>2. {o \in Droppable : guard[o] = 2} = {}
    BY ConstantTypes
  <2> QED
    BY <2>1, <2>2 DEF RegistryIsExact, Range
<1> QED
  BY <1>1, <1>2, <1>3 DEF IInv

LEMMA Kept == IInv /\ [Next]_vars => IInv'
BY QuietSteps, ObtainKeeps, AcquireKeeps, ThrowKeeps, CompleteKeeps, DrainOneKeeps, DeinitKeeps
   DEF Next

LEMMA Told == IInv => ObjectsInv
<1> SUFFICES ASSUME IInv PROVE ObjectsInv
  OBVIOUS
<1>1. TypeOK
  <2>1. {armed, hooked, disabled, cached, alive, panicked} \subseteq BOOLEAN
    BY DEF IInv, Flags
  <2> QED
    BY <2>1 DEF TypeOK, IInv, Types, Stack
<1>2. NothingOutlivesThread
  <2> SUFFICES ASSUME ~alive, NEW o \in Droppable PROVE guard[o] \in {0, 3}
    BY DEF NothingOutlivesThread
  <2>1. work = <<>> /\ registry = <<>> /\ Dying = <<>>
    BY InProgress DEF IInv, LifeKnown, Dying
  <2>2. guard[o] # 2
    BY <2>1 DEF IInv, RegistryIsExact, Range
  <2>3. guard[o] # 1
    BY <2>1, ConstantTypes DEF IInv, WorkKnown
  <2> QED
    BY <2>2, <2>3, ConstantTypes DEF IInv, Types
<1>3. CachesStayReturned
  BY DEF IInv, LifeKnown, Exiting, CachesStayReturned
<1> QED
  BY <1>1, <1>2, <1>3 DEF IInv, ObjectsInv

\* At every moment the registry holds exactly the living objects with destructors, newest
\* first, without the one being destroyed; nothing is left when the thread has ended, no
\* cache is set up after the hand-back, and no object ends before one whose initializer
\* obtained it.  However initializers, exceptions, destructors and exits are nested.
THEOREM ObjectsAreKept == Spec => []ObjectsInv
BY Starts, Kept, Told, PTL DEF Spec

-----------------------------------------------------------------------------
(* The promise. *)

Living == Reverse(Dying \o registry)
Destroyed == {o \in Droppable : guard[o] = 3}

LEMMA ReverseOf ==
  ASSUME NEW V, NEW s \in Seq(V), NEW x \in V
  PROVE  /\ Reverse(s) \in Seq(V) /\ Len(Reverse(s)) = Len(s)
         /\ \A i \in 1..Len(s) : Reverse(s)[i] = s[Len(s) - i + 1]
         /\ Reverse(<<x>> \o s) = Append(Reverse(s), x)
<1>1. ASSUME NEW r \in Seq(V)
      PROVE  /\ Reverse(r) \in Seq(V) /\ Len(Reverse(r)) = Len(r) /\ Len(r) \in Nat
             /\ \A i \in 1..Len(r) : Reverse(r)[i] = r[Len(r) - i + 1]
  <2>1. Reverse(r) = [i \in 1..Len(r) |-> r[Len(r) - i + 1]] /\ Len(r) \in Nat
    BY DEF Reverse
  <2>2. \A i \in 1..Len(r) : r[Len(r) - i + 1] \in V
    BY <2>1
  <2> QED
    BY <2>1, <2>2
<1>2. <<x>> \o s \in Seq(V) /\ Len(<<x>> \o s) = Len(s) + 1 /\ Len(s) \in Nat
      /\ (<<x>> \o s)[1] = x
      /\ \A i \in 1..Len(s) : (<<x>> \o s)[i + 1] = s[i]
  BY PushedOn
<1> DEFINE w == <<x>> \o s
<1> HIDE DEF w
<1>3. /\ Reverse(w) \in Seq(V) /\ Len(Reverse(w)) = Len(s) + 1
      /\ \A i \in 1..Len(s) + 1 : Reverse(w)[i] = w[Len(s) + 1 - i + 1]
  <2>1. w \in Seq(V) /\ Len(w) = Len(s) + 1
    BY <1>2 DEF w
  <2>2. /\ Reverse(w) \in Seq(V) /\ Len(Reverse(w)) = Len(w)
        /\ \A i \in 1..Len(w) : Reverse(w)[i] = w[Len(w) - i + 1]
    BY <1>1, <2>1
  <2> QED
    BY <2>1, <2>2
<1>4. /\ Reverse(s) \in Seq(V) /\ Len(Reverse(s)) = Len(s)
      /\ \A i \in 1..Len(s) : Reverse(s)[i] = s[Len(s) - i + 1]
  BY <1>1
<1>5. ASSUME NEW i \in 1..Len(s) + 1
      PROVE  Reverse(w)[i] = Append(Reverse(s), x)[i]
  <2>1. CASE i = Len(s) + 1
    <3>1. Reverse(w)[i] = w[1]
      BY <1>2, <1>3, <2>1
    <3> QED
      BY <1>2, <1>4, <2>1, <3>1 DEF w
  <2>2. CASE i # Len(s) + 1
    <3>1. i \in 1..Len(s) /\ Len(s) - i + 1 \in 1..Len(s)
      BY <1>2, <2>2
    <3>2. Reverse(w)[i] = w[(Len(s) - i + 1) + 1]
      <4>1. Len(s) + 1 - i + 1 = (Len(s) - i + 1) + 1
        BY <1>2, <3>1
      <4> QED
        BY <1>3, <4>1
    <3>3. Reverse(w)[i] = s[Len(s) - i + 1]
      BY <1>2, <3>1, <3>2 DEF w
    <3> QED
      BY <1>4, <3>1, <3>3
  <2> QED
    BY <2>1, <2>2
<1>6. Append(Reverse(s), x) \in Seq(V) /\ Len(Append(Reverse(s), x)) = Len(s) + 1
  BY <1>4
<1>7. Reverse(w) = Append(Reverse(s), x)
  BY <1>2, <1>3, <1>5, <1>6
<1> QED
  BY <1>4, <1>7 DEF w

LEMMA StartsEmpty == Init => Promise!Init
<1> SUFFICES ASSUME Init PROVE Promise!Init
  OBVIOUS
<1>1. Dying \o registry = <<>>
  BY DEF Init, Dying, Doing
<1>2. Reverse(<<>>) = <<>>
  BY DEF Reverse
<1>3. {o \in Droppable : guard[o] = 3} = {} /\ ~(lifecycle \in {"draining", "finished"})
  BY ConstantTypes DEF Init
<1> QED
  BY <1>1, <1>2, <1>3 DEF Promise!Init

\* Most steps neither finish nor end an object; of these some begin the exit.
LEMMA QuietRefines ==
  ASSUME IInv, registry' = registry, Dying' = Dying,
         \A o \in Droppable : guard'[o] = 3 <=> guard[o] = 3,
         Exiting => Exiting'
  PROVE  [Promise!Next]_<<Living, Destroyed, Exiting>>
<1>1. Living' = Living /\ Destroyed' = Destroyed
  BY DEF Living, Destroyed
<1>2. CASE Exiting \/ ~Exiting'
  <2>1. Exiting' = Exiting
    BY <1>2 DEF Exiting
  <2> QED
    BY <1>1, <2>1
<1>3. CASE ~Exiting /\ Exiting'
  <2>1. Promise!Exit
    BY <1>1, <1>3 DEF Promise!Exit, Living, Destroyed, Exiting
  <2> QED
    BY <2>1 DEF Promise!Next
<1> QED
  BY <1>2, <1>3

LEMMA CompleteRefines ==
  ASSUME IInv, NEW o \in Objects, Complete(o)
  PROVE  [Promise!Next]_<<Living, Destroyed, Exiting>>
<1>1. /\ guard[o] = 1 /\ guard' = [guard EXCEPT ![o] = 2] /\ lifecycle = "running"
      /\ lifecycle' = lifecycle
      /\ registry' = (IF o \in Droppable THEN <<o>> \o registry ELSE registry)
  BY InProgress DEF Complete, CompleteWith
<1>2. Dying = <<>> /\ Dying' = <<>>
  <2>1. IInv'
    BY CompleteKeeps
  <2>2. Dying' # <<>> => lifecycle' = "draining"
    <3>1. Doing("deinit")' => lifecycle' = "draining"
      <4>1. work' # <<>> => Len(work') \in DOMAIN work' /\ work'[Len(work')] = Last(work')
        <5>1. work' \in Seq(Stack)
          BY <2>1 DEF IInv, Types
        <5> QED
          BY <5>1 DEF Last
      <4> QED
        BY <2>1, <4>1 DEF IInv, WorkKnown, Doing
    <3> QED
      BY <3>1 DEF Dying
  <2> QED
    BY <1>1, <2>2, InProgress
<1>3. registry \in Seq(Droppable) /\ guard \in [Objects -> 0..3]
  BY DEF IInv, Types
<1>4. CASE o \notin Droppable
  <2>1. \A x \in Droppable : guard'[x] = 3 <=> guard[x] = 3
    BY <1>1, <1>3, <1>4, ConstantTypes
  <2> QED
    BY <1>1, <1>2, <1>4, <2>1, QuietRefines DEF Exiting
<1>5. CASE o \in Droppable
  <2>1. registry' = <<o>> \o registry /\ Dying \o registry = registry /\ Dying' \o registry' = registry'
    <3>1. <<o>> \o registry \in Seq(Droppable)
      BY <1>3, <1>5
    <3> QED
      BY <1>1, <1>2, <1>3, <1>5, <3>1
  <2>2. Living' = Append(Living, o)
    BY <1>3, <1>5, <2>1, ReverseOf DEF Living
  <2>3. Destroyed' = Destroyed
    BY <1>1, <1>3, ConstantTypes DEF Destroyed
  <2>4. o \notin Destroyed
    BY <1>1 DEF Destroyed
  <2>5. \A i \in DOMAIN Living : Living[i] # o
    <3>1. \A i \in DOMAIN registry : registry[i] # o
      BY <1>1 DEF IInv, RegistryIsExact, Range
    <3>2. /\ Living \in Seq(Droppable) /\ Len(Living) = Len(registry) /\ Len(registry) \in Nat
          /\ \A i \in 1..Len(registry) : Living[i] = registry[Len(registry) - i + 1]
      <4>1. Living = Reverse(registry)
        BY <2>1 DEF Living
      <4>2. /\ Reverse(registry) \in Seq(Droppable) /\ Len(Reverse(registry)) = Len(registry)
            /\ \A i \in 1..Len(registry) : Reverse(registry)[i] = registry[Len(registry) - i + 1]
        BY <1>3, <1>5, ReverseOf
      <4> QED
        BY <1>3, <4>1, <4>2
    <3>3. \A i \in 1..Len(registry) : Len(registry) - i + 1 \in DOMAIN registry
      BY <1>3, <3>2
    <3>4. DOMAIN Living = 1..Len(registry)
      BY <3>2
    <3> QED
      BY <3>1, <3>2, <3>3, <3>4
  <2>6. Promise!Birth(o)
    BY <1>1, <2>2, <2>3, <2>4, <2>5 DEF Promise!Birth, Living, Destroyed, Exiting
  <2> QED
    BY <1>5, <2>6 DEF Promise!Next
<1> QED
  BY <1>4, <1>5

LEMMA DeathRefines ==
  ASSUME IInv, DeinitReturns
  PROVE  [Promise!Next]_<<Living, Destroyed, Exiting>>
<1> DEFINE d == Last(work).of
<1>1. /\ lifecycle = "draining" /\ lifecycle' = lifecycle /\ registry' = registry
      /\ Dying = <<d>> /\ Dying' = <<>> /\ d \in Droppable
      /\ guard' = [guard EXCEPT ![d] = 3]
  BY DeinitKeeps
<1>2. registry \in Seq(Droppable) /\ guard \in [Objects -> 0..3]
  BY DEF IInv, Types
<1> HIDE DEF d
<1> DEFINE r == Reverse(registry)
<1>3. Living = Append(r, d) /\ Living' = r /\ r \in Seq(Droppable)
  BY <1>1, <1>2, ReverseOf DEF Living
<1> HIDE DEF r
<1>4. /\ Living # <<>> /\ Living[Len(Living)] = d
      /\ SubSeq(Living, 1, Len(Living) - 1) = r
  <2>1. Len(Living) = Len(r) + 1 /\ Len(r) \in Nat
    BY <1>1, <1>3
  <2>2. Living # <<>> /\ Living[Len(Living)] = d
    BY <1>1, <1>3, <2>1
  <2>3. SubSeq(Append(r, d), 1, Len(r)) = r
    BY <1>1, <1>3, <2>1
  <2> QED
    BY <1>3, <2>1, <2>2, <2>3
<1>5. Destroyed' = Destroyed \cup {d}
  BY <1>1, <1>2, ConstantTypes DEF Destroyed
<1>6. Promise!Death
  BY <1>1, <1>3, <1>4, <1>5 DEF Promise!Death, Living, Destroyed, Exiting
<1> QED
  BY <1>6 DEF Promise!Next

LEMMA Refines == IInv /\ [Next]_vars => [Promise!Next]_<<Living, Destroyed, Exiting>>
<1> SUFFICES ASSUME IInv, [Next]_vars PROVE [Promise!Next]_<<Living, Destroyed, Exiting>>
  OBVIOUS
<1>0. \A o \in Droppable : o \in Objects /\ guard[o] \in 0..3
  BY ConstantTypes DEF IInv, Types
<1>1. CASE UNCHANGED vars \/ Start \/ Allocate \/ Finish \/ ExitHook \/ DrainEnds \/ ThreadEnds
           \/ \E o \in Objects : AccessPanics(o) \/ Obtain(o)
  <2>1. UNCHANGED <<guard, registry, work>> /\ (Exiting => Exiting')
    BY <1>1 DEF vars, Start, Allocate, Finish, ExitHook, FinishState, DrainEnds, ThreadEnds,
       AccessPanics, Panic, Obtain, exitVars, Exiting
  <2>2. Dying' = Dying
    BY <2>1 DEF Dying, Doing
  <2> QED
    BY <2>1, <2>2, QuietRefines
<1>2. ASSUME NEW o \in Objects, Acquire(o) \/ Throw(o)
      PROVE  [Promise!Next]_<<Living, Destroyed, Exiting>>
  <2>1. registry' = registry /\ lifecycle \in {"unused", "running"} /\ lifecycle' = "running"
        /\ \A x \in Droppable : guard'[x] = 3 <=> guard[x] = 3
    BY <1>0, <1>2, InProgress DEF Acquire, BeginInit, Throw, exitVars, IInv, Types
  <2>2. IInv'
    BY <1>2, AcquireKeeps, ThrowKeeps
  <2>3. Dying = <<>> /\ Dying' = <<>>
    <3>1. ~Doing("deinit")'
      <4>1. work' # <<>> => Len(work') \in DOMAIN work' /\ work'[Len(work')] = Last(work')
        <5>1. work' \in Seq(Stack)
          BY <2>2 DEF IInv, Types
        <5> QED
          BY <5>1 DEF Last
      <4> QED
        BY <2>1, <2>2, <4>1 DEF IInv, WorkKnown, Doing
    <3> QED
      BY <2>1, <3>1, InProgress DEF Dying
  <2> QED
    BY <2>1, <2>3, QuietRefines DEF Exiting
<1>3. CASE DrainOne
  <2>1. Dying' \o registry' = registry /\ Dying = <<>>
    BY <1>3, DrainOneKeeps
  <2>2. Dying \o registry = registry
    BY <2>1 DEF IInv, Types
  <2>3. Living' = Living
    BY <2>1, <2>2 DEF Living
  <2>4. guard' = guard /\ lifecycle' = lifecycle
    BY <1>3 DEF DrainOne, exitVars
  <2> QED
    BY <2>3, <2>4 DEF Destroyed, Exiting
<1> QED
  BY <1>1, <1>2, <1>3, CompleteRefines, DeathRefines DEF Next

\* However a thread exits, and whatever initializers and destructors do, the objects it
\* finished live from their completion to its exit and are destroyed once each, the last
\* completed first.
THEOREM ObjectsKeepPromise == Spec => KeepsPromise
<1>1. IInv /\ [Next]_vars => [Promise!Next]_<<Reverse(Dying \o registry),
                               {o \in Droppable : guard[o] = 3},
                               lifecycle \in {"draining", "finished"}>>
  BY Refines DEF Living, Destroyed, Exiting
<1> QED
  BY <1>1, StartsEmpty, Starts, Kept, PTL DEF Spec, KeepsPromise, Promise!Spec

-----------------------------------------------------------------------------
(* The transfer queue.  A position is looked at as its distance from the    *)
(* first one: the bound on pushes keeps distances below half of W, so that  *)
(* they are compared as the words are, by the sign of their difference.     *)

Words == 0..W - 1

From(p) == Queue!Minus(p, Start0)

Word(k) == Queue!Plus(Start0, k)

\* The cell of generation g that the position at distance k uses.
CellOf(g, k) == Queue!Index(g, Word(k))

\* The next position to push and to pop, the sequence of a cell and the position that a
\* thread works on, as distances.
PushAt(g) == From(enqueue[g])
PopAt(g) == From(dequeue[g])
Turn(g, k) == From(sequence[g][CellOf(g, k)])
Node(g, k) == cell[g][CellOf(g, k)]
My(t) == From(position[t])

Pushing(t) == at[t] \in {"storeNode", "publish"}
Popping(t) == at[t] \in {"takeNode", "vacate"}

QueueTypes ==
    /\ head \in {0} \cup Generations
    /\ enqueue \in [Generations -> Words] /\ dequeue \in [Generations -> Words]
    /\ DOMAIN sequence = Generations /\ DOMAIN cell = Generations
    /\ \A g \in Generations : /\ sequence[g] \in [Queue!Cells(g) -> Words]
                              /\ cell[g] \in [Queue!Cells(g) -> Nodes \cup {None}]
    /\ held \in [Threads -> SUBSET Nodes]
    /\ at \in [Threads -> Queue!Places]
    /\ item \in [Threads -> Nodes \cup {None}]
    /\ gen \in [Threads -> {0} \cup Generations]
    /\ base \in [Threads -> {0} \cup Generations]
    /\ position \in [Threads -> Words]
    /\ pushes \in 0..MaxPushes

\* The claims of a generation are those between its two positions; a cell's turn says how
\* far the push or the pop of the last position that used it has come.
RingKnown(g) ==
    /\ PopAt(g) <= PushAt(g) /\ PushAt(g) <= PopAt(g) + Queue!Cap(g) /\ PushAt(g) <= pushes
    /\ \A i \in Queue!Cells(g) : From(sequence[g][i]) < MaxPushes + Queue!Cap(g)
    /\ \A k \in 0..PopAt(g) - 1 : Turn(g, k) >= k + 1
    /\ \A k \in PopAt(g)..PushAt(g) - 1 :
          Turn(g, k) = k \/ (Turn(g, k) = k + 1 /\ Node(g, k) \in Nodes)
    /\ \A k \in PushAt(g)..PopAt(g) + Queue!Cap(g) - 1 :
          Turn(g, k) = k \/ Turn(g, k) + Queue!Cap(g) = k + 1

\* What a call knows of the generation it has looked at.
CallKnown(t) ==
    /\ item[t] \in Nodes <=> at[t] \in {"pushHead", "pushLoad", "pushCell", "pushCas",
                                        "storeNode", "publish", "create",
                                        "publishGeneration", "vacate"}
    /\ at[t] \in {"create", "publishGeneration"} => base[t] + 1 \in Generations
    /\ at[t] \notin {"out", "pushHead", "popHead", "create", "publishGeneration"} =>
          gen[t] \in Generations
    /\ at[t] \in {"pushCell", "pushCas"} => My(t) <= PushAt(gen[t])
    /\ at[t] = "pushCas" /\ My(t) = PushAt(gen[t]) => Turn(gen[t], My(t)) = My(t)
    /\ at[t] \in {"popCell", "popCas"} => My(t) <= PopAt(gen[t])
    /\ at[t] = "popCas" /\ My(t) = PopAt(gen[t]) =>
          My(t) < PushAt(gen[t]) /\ Turn(gen[t], My(t)) = My(t) + 1
    /\ Pushing(t) => /\ PopAt(gen[t]) <= My(t) /\ My(t) < PushAt(gen[t])
                     /\ Turn(gen[t], My(t)) = My(t)
    /\ at[t] = "publish" => Node(gen[t], My(t)) = item[t]
    /\ Popping(t) => /\ My(t) < PopAt(gen[t]) /\ PushAt(gen[t]) <= My(t) + Queue!Cap(gen[t])
                     /\ Turn(gen[t], My(t)) = My(t) + 1
    /\ at[t] = "takeNode" => Node(gen[t], My(t)) \in Nodes

Same(t, u) == gen[t] = gen[u] /\ position[t] = position[u]

Pusher(g, k) == \E t \in Threads : Pushing(t) /\ gen[t] = g /\ My(t) = k
Popper(g, k) == \E t \in Threads : Popping(t) /\ gen[t] = g /\ My(t) = k

\* A claimed position is worked on by one thread until its cell's turn comes.
ClaimsHeld ==
    /\ \A t, u \in Threads : Same(t, u) /\ Pushing(t) /\ Pushing(u) => t = u
    /\ \A t, u \in Threads : Same(t, u) /\ Popping(t) /\ Popping(u) => t = u
    /\ \A g \in Generations : \A k \in PopAt(g)..PushAt(g) - 1 :
          Turn(g, k) = k => Pusher(g, k)
    /\ \A g \in Generations : \A k \in PushAt(g)..PopAt(g) + Queue!Cap(g) - 1 :
          Turn(g, k) + Queue!Cap(g) = k + 1 => k >= Queue!Cap(g) /\ Popper(g, k - Queue!Cap(g))

\* Where a node can be: owned by a thread, in the hands of a call, at a position of a
\* generation.
Spots == [kind : {"own", "hand"}, who : Threads, where : {0}]
         \cup [kind : {"ring"}, who : Generations, where : Nat]

InHands(n, t) ==
    \/ item[t] = n /\ ~Pushing(t)
    \/ at[t] = "takeNode" /\ Node(gen[t], My(t)) = n

InRing(n, g, k) ==
    /\ PopAt(g) <= k /\ k < PushAt(g)
    /\ \/ Turn(g, k) = k + 1 /\ Node(g, k) = n
       \/ \E t \in Threads : Pushing(t) /\ gen[t] = g /\ My(t) = k /\ item[t] = n

IsAt(n, s) ==
    \/ s.kind = "own" /\ n \in held[s.who]
    \/ s.kind = "hand" /\ InHands(n, s.who)
    \/ s.kind = "ring" /\ InRing(n, s.who, s.where)

NodesKnown == \A n \in Nodes : \E x \in Spots : \A s \in Spots : IsAt(n, s) <=> s = x

QueueIInv ==
    /\ QueueTypes
    /\ \A g \in Generations : RingKnown(g)
    /\ \A t \in Threads : CallKnown(t)
    /\ ClaimsHeld
    /\ NodesKnown

-----------------------------------------------------------------------------
(* Words and distances. *)

\* The instance counts with a copy of FiniteSets of its own.
LEMMA SameCardinality ==
  /\ \A S : Queue!Cardinality(S) = Cardinality(S)
  /\ \A S : Queue!IsFiniteSet(S) <=> IsFiniteSet(S)
BY DEF Queue!Cardinality, Cardinality, Queue!IsFiniteSet, IsFiniteSet

LEMMA Sizes ==
  /\ W \in Nat /\ W > 0 /\ Start0 \in Words /\ MaxPushes \in Nat
  /\ \A g \in Generations : /\ Queue!Cap(g) \in Nat /\ Queue!Cap(g) >= 2 /\ W % Queue!Cap(g) = 0
                            /\ MaxPushes + Queue!Cap(g) <= W \div 2
BY QueueAssumption DEF Queue!QueueSizes, Words

LEMMA Halves == 2 * (W \div 2) <= W
BY Sizes

LEMMA Bounds ==
  ASSUME NEW g \in Generations
  PROVE  2 * (MaxPushes + Queue!Cap(g)) <= W /\ 2 * MaxPushes <= W
<1>1. W \div 2 \in Nat
  BY Sizes
<1> QED
  BY <1>1, Sizes, Halves

\* A sum of two words wraps at most once.
LEMMA Wraps ==
  ASSUME NEW x \in 0..(2 * W) - 1
  PROVE  x % W = (IF x < W THEN x ELSE x - W)
BY Sizes

LEMMA Distances ==
  ASSUME NEW p \in Words
  PROVE  /\ From(p) = (IF Start0 <= p THEN p - Start0 ELSE p + (W - Start0))
         /\ From(p) \in Words /\ Word(From(p)) = p
<1>1. /\ Start0 \in Nat /\ Start0 < W /\ p \in Nat /\ p < W
      /\ p + (W - Start0) \in 0..(2 * W) - 1
  BY Sizes DEF Words
<1>2. From(p) = (IF p + (W - Start0) < W THEN p + (W - Start0) ELSE (p + (W - Start0)) - W)
  <2> DEFINE x == p + (W - Start0)
  <2>1. From(p) = x % W
    BY DEF From, Queue!Minus
  <2> HIDE DEF x
  <2>2. x % W = (IF x < W THEN x ELSE x - W)
    BY <1>1, Wraps DEF x
  <2> QED
    BY <2>1, <2>2 DEF x
<1>3. From(p) = (IF Start0 <= p THEN p - Start0 ELSE p + (W - Start0))
  BY <1>1, <1>2, Sizes
<1>4. From(p) \in Nat /\ From(p) < W /\ Start0 + From(p) \in 0..(2 * W) - 1
  BY <1>1, <1>3, Sizes
<1>5. Word(From(p)) = (IF Start0 + From(p) < W THEN Start0 + From(p) ELSE (Start0 + From(p)) - W)
  BY <1>4, Wraps DEF Word, Queue!Plus
<1>6. Word(From(p)) = p
  BY <1>1, <1>3, <1>5, Sizes
<1> QED
  BY <1>3, <1>4, <1>6, Sizes DEF Words

LEMMA WordsAre ==
  ASSUME NEW k \in Words
  PROVE  /\ Word(k) \in Words /\ From(Word(k)) = k
         /\ Word(k) = (IF Start0 + k < W THEN Start0 + k ELSE (Start0 + k) - W)
<1>1. /\ Start0 \in Nat /\ Start0 < W /\ k \in Nat /\ k < W /\ Start0 + k \in 0..(2 * W) - 1
  BY Sizes DEF Words
<1>2. Word(k) = (IF Start0 + k < W THEN Start0 + k ELSE (Start0 + k) - W)
  BY <1>1, Wraps DEF Word, Queue!Plus
<1>3. Word(k) \in Words
  BY <1>1, <1>2, Sizes DEF Words
<1>4. From(Word(k)) = (IF Start0 <= Word(k) THEN Word(k) - Start0 ELSE Word(k) + (W - Start0))
  BY <1>3, Distances
<1> QED
  BY <1>1, <1>2, <1>3, <1>4, Sizes

LEMMA Apart ==
  ASSUME NEW p \in Words, NEW q \in Words
  PROVE  From(p) = From(q) <=> p = q
BY Distances

\* The word n further on, as long as distances do not wrap.
LEMMA Further ==
  ASSUME NEW p \in Words, NEW n \in Nat, From(p) + n < W
  PROVE  /\ Queue!Plus(p, n) \in Words /\ From(Queue!Plus(p, n)) = From(p) + n
         /\ Queue!Plus(p, n) = Word(From(p) + n)
<1>1. From(p) = (IF Start0 <= p THEN p - Start0 ELSE p + (W - Start0)) /\ From(p) \in Words
  BY Distances
<1>2. /\ Start0 \in Nat /\ Start0 < W /\ p \in Nat /\ p < W /\ From(p) \in Nat
      /\ p + n \in 0..(2 * W) - 1 /\ From(p) + n \in Words
  BY <1>1, Sizes DEF Words
<1>3. Queue!Plus(p, n) = (IF p + n < W THEN p + n ELSE (p + n) - W)
  BY <1>2, Wraps DEF Queue!Plus
<1>4. Word(From(p) + n) = (IF Start0 + (From(p) + n) < W THEN Start0 + (From(p) + n)
                           ELSE (Start0 + (From(p) + n)) - W)
  BY <1>2, WordsAre
<1>5. Queue!Plus(p, n) = Word(From(p) + n)
  BY <1>1, <1>2, <1>3, <1>4, Sizes
<1> QED
  BY <1>2, <1>5, WordsAre

LEMMA Differences ==
  ASSUME NEW p \in Words, NEW q \in Words
  PROVE  Queue!Minus(p, q) = (IF From(q) <= From(p) THEN From(p) - From(q)
                        ELSE (From(p) - From(q)) + W)
<1>1. /\ From(p) = (IF Start0 <= p THEN p - Start0 ELSE p + (W - Start0)) /\ From(p) \in Words
      /\ From(q) = (IF Start0 <= q THEN q - Start0 ELSE q + (W - Start0)) /\ From(q) \in Words
  BY Distances
<1>2. /\ Start0 \in Nat /\ Start0 < W /\ p \in Nat /\ p < W /\ q \in Nat /\ q < W
      /\ p + (W - q) \in 0..(2 * W) - 1
  BY Sizes DEF Words
<1>3. Queue!Minus(p, q) = (IF p + (W - q) < W THEN p + (W - q) ELSE (p + (W - q)) - W)
  <2> DEFINE x == p + (W - q)
  <2>1. Queue!Minus(p, q) = x % W
    BY DEF Queue!Minus
  <2> HIDE DEF x
  <2>2. x % W = (IF x < W THEN x ELSE x - W)
    BY <1>2, Wraps DEF x
  <2> QED
    BY <2>1, <2>2 DEF x
<1> QED
  BY <1>1, <1>2, <1>3, Sizes

\* The sign of a difference of words tells which of two distances is larger.
LEMMA Signs ==
  ASSUME NEW p \in Words, NEW q \in Words, 2 * From(p) < W + (2 * From(q)), 2 * From(q) <= W
  PROVE  /\ Queue!Minus(p, q) = 0 <=> From(p) = From(q)
         /\ Queue!Negative(Queue!Minus(p, q)) <=> From(p) < From(q)
<1>1. From(p) \in Nat /\ From(q) \in Nat /\ From(p) < W /\ From(q) < W
  BY Distances, Sizes DEF Words
<1>2. Queue!Minus(p, q) = (IF From(q) <= From(p) THEN From(p) - From(q) ELSE (From(p) - From(q)) + W)
  BY Differences
<1>3. Queue!Minus(p, q) \in Nat /\ (Queue!Minus(p, q) = 0 <=> From(p) = From(q))
  BY <1>1, <1>2, Sizes
<1>4. ASSUME NEW d \in Nat PROVE d > (W - 1) \div 2 <=> 2 * d > W - 1
  BY Sizes
<1>5. Queue!Negative(Queue!Minus(p, q)) <=> 2 * Queue!Minus(p, q) > W - 1
  BY <1>3, <1>4 DEF Queue!Negative
<1> QED
  BY <1>1, <1>2, <1>3, <1>5, Sizes

-----------------------------------------------------------------------------
(* Cells. *)

LEMMA Division ==
  ASSUME NEW x \in Nat, NEW c \in Nat, c > 0
  PROVE  x \div c \in Nat /\ x % c \in 0..c - 1 /\ x = (c * (x \div c)) + (x % c)
<1>1. x \div c \in Nat
  OBVIOUS
<1>2. x % c \in 0..c - 1
  OBVIOUS
<1>3. x = (c * (x \div c)) + (x % c)
  OBVIOUS
<1> QED
  BY <1>1, <1>2, <1>3

LEMMA Remainder ==
  ASSUME NEW c \in Nat, c > 0, NEW q \in Nat, NEW r \in 0..c - 1
  PROVE  ((c * q) + r) % c = r
OBVIOUS

LEMMA Rounds ==
  ASSUME NEW c \in Nat, c > 0, NEW x \in Nat, NEW q \in Nat
  PROVE  (x + (c * q)) % c = x % c
<1>1. x \div c \in Nat /\ x % c \in 0..c - 1 /\ x = (c * (x \div c)) + (x % c)
  BY Division
<1>2. x + (c * q) = (c * ((x \div c) + q)) + (x % c)
  BY <1>1
<1>3. (x \div c) + q \in Nat
  BY <1>1
<1>4. ((c * ((x \div c) + q)) + (x % c)) % c = x % c
  BY <1>1, <1>3, Remainder
<1> QED
  BY <1>2, <1>4

LEMMA CellIs ==
  ASSUME NEW g \in Generations, NEW k \in Words
  PROVE  CellOf(g, k) = (Start0 + k) % Queue!Cap(g) /\ CellOf(g, k) \in Queue!Cells(g)
<1>1. /\ Queue!Cap(g) \in Nat /\ Queue!Cap(g) > 0 /\ W \in Nat /\ Start0 \in Nat /\ k \in Nat
      /\ W % Queue!Cap(g) = 0
  BY Sizes DEF Words
<1>2. Word(k) = (IF Start0 + k < W THEN Start0 + k ELSE (Start0 + k) - W) /\ Word(k) \in Words
  BY WordsAre
<1>3. W \div Queue!Cap(g) \in Nat /\ W = Queue!Cap(g) * (W \div Queue!Cap(g))
  <2>1. W = (Queue!Cap(g) * (W \div Queue!Cap(g))) + (W % Queue!Cap(g)) /\ W \div Queue!Cap(g) \in Nat
    BY <1>1, Division
  <2>2. \A a, b \in Nat : a * b \in Nat
    OBVIOUS
  <2> QED
    BY <1>1, <2>1, <2>2
<1>4. Word(k) % Queue!Cap(g) = (Start0 + k) % Queue!Cap(g)
  <2>1. CASE Start0 + k < W
    BY <1>2, <2>1
  <2>2. CASE ~(Start0 + k < W)
    <3>1. Word(k) \in Nat /\ Start0 + k = Word(k) + W
      BY <1>1, <1>2, <2>2
    <3>2. (Word(k) + (Queue!Cap(g) * (W \div Queue!Cap(g)))) % Queue!Cap(g) = Word(k) % Queue!Cap(g)
      BY <1>1, <1>3, <3>1, Rounds
    <3> QED
      BY <1>3, <3>1, <3>2
  <2> QED
    BY <2>1, <2>2
<1>5. Word(k) % Queue!Cap(g) \in 0..Queue!Cap(g) - 1
  BY <1>1, <1>2, Division DEF Words
<1> QED
  BY <1>4, <1>5 DEF CellOf, Queue!Index, Queue!Cells

\* Fewer than Cap(g) positions apart use different cells.
LEMMA CellsDiffer ==
  ASSUME NEW g \in Generations, NEW j \in Words, NEW k \in Words, j < k, k - j < Queue!Cap(g)
  PROVE  CellOf(g, j) # CellOf(g, k)
<1> SUFFICES ASSUME CellOf(g, j) = CellOf(g, k) PROVE FALSE
  OBVIOUS
<1> DEFINE c == Queue!Cap(g)
<1> DEFINE x == Start0 + j
<1> DEFINE y == Start0 + k
<1>1. c \in Nat /\ c > 0 /\ x \in Nat /\ y \in Nat /\ x < y /\ y - x < c
  BY Sizes DEF Words
<1>2. x % c = y % c
  BY CellIs
<1> HIDE DEF c, x, y
<1>3. /\ x \div c \in Nat /\ x % c \in 0..c - 1 /\ x = (c * (x \div c)) + (x % c)
      /\ y \div c \in Nat /\ y % c \in 0..c - 1 /\ y = (c * (y \div c)) + (y % c)
  BY <1>1, Division
<1> DEFINE a == x \div c
<1> DEFINE b == y \div c
<1>4. a \in Nat /\ b \in Nat /\ y - x = (c * b) - (c * a)
  <2> DEFINE m == c * a
  <2> DEFINE n == c * b
  <2>1. m \in Nat /\ n \in Nat /\ x = m + (x % c) /\ y = n + (y % c) /\ x % c \in Nat
    BY <1>1, <1>3
  <2> HIDE DEF m, n
  <2>2. y - x = n - m
    BY <1>2, <2>1
  <2> QED
    BY <1>3, <2>2 DEF m, n
<1> HIDE DEF a, b
<1>5. CASE b <= a
  <2>1. c * b <= c * a /\ c * b \in Nat /\ c * a \in Nat
    BY <1>1, <1>4, <1>5
  <2> QED
    BY <1>1, <1>4, <2>1
<1>6. CASE b > a
  <2>1. c * b >= (c * a) + c /\ c * b \in Nat /\ c * a \in Nat
    BY <1>1, <1>4, <1>6
  <2> QED
    BY <1>1, <1>4, <2>1
<1> QED
  BY <1>4, <1>5, <1>6

LEMMA CellsRepeat ==
  ASSUME NEW g \in Generations, NEW k \in Words, k + Queue!Cap(g) \in Words
  PROVE  CellOf(g, k + Queue!Cap(g)) = CellOf(g, k)
<1>1. Queue!Cap(g) \in Nat /\ Queue!Cap(g) > 0 /\ Start0 + k \in Nat /\ Start0 \in Nat /\ k \in Nat
  BY Sizes DEF Words
<1>2. ((Start0 + k) + (Queue!Cap(g) * 1)) % Queue!Cap(g) = (Start0 + k) % Queue!Cap(g)
  BY <1>1, Rounds
<1>3. Start0 + (k + Queue!Cap(g)) = (Start0 + k) + (Queue!Cap(g) * 1)
  BY <1>1
<1> QED
  BY <1>2, <1>3, CellIs

\* The first Cap(g) positions use every cell.
LEMMA CellsCovered ==
  ASSUME NEW g \in Generations, NEW i \in Queue!Cells(g)
  PROVE  \E k \in Queue!Cells(g) : CellOf(g, k) = i
<1> DEFINE c == Queue!Cap(g)
<1> DEFINE q == Start0 \div c
<1> DEFINE r == Start0 % c
<1> DEFINE k == IF r <= i THEN i - r ELSE (i + c) - r
<1>1. c \in Nat /\ c > 0 /\ i \in 0..c - 1 /\ Start0 \in Nat /\ 2 * c <= W
  BY Sizes, Bounds DEF Queue!Cells, Words
<1>2. q \in Nat /\ r \in 0..c - 1 /\ Start0 = (c * q) + r
  BY <1>1, Division
<1> HIDE DEF c, q, r
<1>3. k \in 0..c - 1
  BY <1>1, <1>2
<1>4. k \in Words /\ k \in Queue!Cells(g)
  BY <1>1, <1>3, Sizes DEF Words, Queue!Cells, c
<1>5. (Start0 + k) % c = i
  <2>0. c * q \in Nat /\ c * (q + 1) = (c * q) + c /\ q + 1 \in Nat
    BY <1>1, <1>2
  <2>1. CASE r <= i
    <3>1. Start0 + k = (c * q) + i
      BY <1>1, <1>2, <2>0, <2>1
    <3> QED
      BY <1>1, <1>2, <3>1, Remainder
  <2>2. CASE ~(r <= i)
    <3>1. Start0 + k = (c * (q + 1)) + i
      BY <1>1, <1>2, <2>0, <2>2
    <3> QED
      BY <1>1, <1>2, <2>0, <3>1, Remainder
  <2> QED
    BY <2>1, <2>2
<1> QED
  BY <1>4, <1>5, CellIs DEF c

\* Different positions less than Cap(g) apart use different cells, in either order.
LEMMA Differ ==
  ASSUME NEW g \in Generations, NEW j \in Words, NEW k \in Words, j # k,
         j < k + Queue!Cap(g), k < j + Queue!Cap(g)
  PROVE  CellOf(g, j) # CellOf(g, k)
<1>1. j \in Nat /\ k \in Nat /\ Queue!Cap(g) \in Nat
  BY Sizes DEF Words
<1>2. CASE j < k
  BY <1>1, <1>2, CellsDiffer
<1>3. CASE k < j
  BY <1>1, <1>3, CellsDiffer
<1> QED
  BY <1>1, <1>2, <1>3

LEMMA TypesAre ==
  ASSUME QueueTypes
  PROVE  /\ \A g \in Generations : PushAt(g) \in Words /\ PopAt(g) \in Words
         /\ \A g \in Generations : \A k \in Words : CellOf(g, k) \in Queue!Cells(g) /\ Turn(g, k) \in Words
         /\ \A t \in Threads : My(t) \in Words
<1> USE DEF QueueTypes
<1>1. \A g \in Generations : PushAt(g) \in Words /\ PopAt(g) \in Words
  BY Distances DEF PushAt, PopAt
<1>2. ASSUME NEW g \in Generations, NEW k \in Words
      PROVE  CellOf(g, k) \in Queue!Cells(g) /\ Turn(g, k) \in Words
  <2>1. CellOf(g, k) \in Queue!Cells(g)
    BY CellIs
  <2> QED
    BY <2>1, Distances DEF Turn
<1>3. \A t \in Threads : My(t) \in Words
  BY Distances DEF My
<1> QED
  BY <1>1, <1>2, <1>3

\* The positions of the rings are far from the end of the words.
LEMMA RingBounds ==
  ASSUME QueueTypes, NEW g \in Generations, RingKnown(g)
  PROVE  /\ PopAt(g) \in Nat /\ PushAt(g) \in Nat /\ Queue!Cap(g) \in Nat /\ Queue!Cap(g) >= 2
         /\ PushAt(g) <= MaxPushes /\ MaxPushes \in Nat
         /\ \A k \in Nat : k <= PopAt(g) + Queue!Cap(g) => k \in Words
         /\ \A k \in Nat : k < MaxPushes + Queue!Cap(g) => k \in Words
         /\ \A k \in Words : k \in Nat /\ Turn(g, k) \in Nat /\ Turn(g, k) < MaxPushes + Queue!Cap(g)
<1>1. /\ PopAt(g) \in Nat /\ PushAt(g) \in Nat /\ Queue!Cap(g) \in Nat /\ Queue!Cap(g) >= 2
      /\ PushAt(g) <= MaxPushes /\ MaxPushes \in Nat
  BY TypesAre, Sizes DEF RingKnown, QueueTypes, Words
<1>2. W \in Nat /\ 2 * (MaxPushes + Queue!Cap(g)) <= W
  BY Bounds, Sizes
<1>3. PopAt(g) <= MaxPushes
  BY <1>1 DEF RingKnown
<1>4. \A k \in Nat : (k <= PopAt(g) + Queue!Cap(g) \/ k < MaxPushes + Queue!Cap(g)) => k \in Words
  BY <1>1, <1>2, <1>3 DEF Words
<1>5. \A k \in Words : k \in Nat /\ Turn(g, k) \in Nat
  BY TypesAre, Sizes DEF Words
<1>6. \A k \in Words : Turn(g, k) < MaxPushes + Queue!Cap(g)
  BY TypesAre DEF RingKnown, Turn
<1> QED
  BY <1>1, <1>4, <1>5, <1>6

\* What a thread loads from the cell it looks at.
LEMMA MyCell ==
  ASSUME QueueTypes, NEW t \in Threads, gen[t] \in Generations
  PROVE  /\ position[t] = Word(My(t)) /\ position[t] \in Words
         /\ Queue!Index(gen[t], position[t]) = CellOf(gen[t], My(t))
         /\ Queue!SeqAt(t) \in Words /\ From(Queue!SeqAt(t)) = Turn(gen[t], My(t))
<1>1. position[t] \in Words /\ position[t] = Word(My(t)) /\ My(t) \in Words
  BY Distances DEF QueueTypes, My
<1>2. Queue!Index(gen[t], position[t]) = CellOf(gen[t], My(t))
  BY <1>1 DEF CellOf
<1>3. CellOf(gen[t], My(t)) \in Queue!Cells(gen[t])
  BY <1>1, CellIs
<1>4. Queue!SeqAt(t) \in Words
  BY <1>2, <1>3 DEF QueueTypes, Queue!SeqAt
<1> QED
  BY <1>1, <1>2, <1>4 DEF Queue!SeqAt, Turn

LEMMA PushCompares ==
  ASSUME QueueTypes, NEW t \in Threads, gen[t] \in Generations, RingKnown(gen[t]),
         My(t) <= PushAt(gen[t])
  PROVE  /\ Queue!PushDifference(t) = 0 <=> Turn(gen[t], My(t)) = My(t)
         /\ Queue!Negative(Queue!PushDifference(t)) <=> Turn(gen[t], My(t)) < My(t)
<1> DEFINE g == gen[t]
<1>1. Queue!SeqAt(t) \in Words /\ position[t] \in Words /\ From(Queue!SeqAt(t)) = Turn(g, My(t))
  BY MyCell
<1>2. My(t) \in Words /\ Turn(g, My(t)) \in Nat /\ Turn(g, My(t)) < MaxPushes + Queue!Cap(g)
  BY TypesAre, RingBounds
<1>3. 2 * (MaxPushes + Queue!Cap(g)) <= W /\ 2 * MaxPushes <= W /\ W \in Nat /\ MaxPushes \in Nat
      /\ Queue!Cap(g) \in Nat /\ PushAt(g) <= MaxPushes /\ PushAt(g) \in Nat
  BY Bounds, Sizes, RingBounds
<1>4. My(t) \in Nat
  BY <1>2, Sizes DEF Words
<1>5. 2 * Turn(g, My(t)) < W + (2 * My(t)) /\ 2 * My(t) <= W
  BY <1>2, <1>3, <1>4
<1>6. From(position[t]) = My(t)
  BY DEF My
<1> QED
  BY <1>1, <1>5, <1>6, Signs DEF Queue!PushDifference

LEMMA PopCompares ==
  ASSUME QueueTypes, NEW t \in Threads, gen[t] \in Generations, RingKnown(gen[t]),
         My(t) <= PopAt(gen[t])
  PROVE  /\ Queue!PopDifference(t) = 0 <=> Turn(gen[t], My(t)) = My(t) + 1
         /\ Queue!Negative(Queue!PopDifference(t)) <=> Turn(gen[t], My(t)) < My(t) + 1
<1> DEFINE g == gen[t]
<1> DEFINE q == Queue!Plus(position[t], 1)
<1>1. Queue!SeqAt(t) \in Words /\ position[t] \in Words /\ From(Queue!SeqAt(t)) = Turn(g, My(t))
  BY MyCell
<1>2. My(t) \in Words /\ Turn(g, My(t)) \in Nat /\ Turn(g, My(t)) < MaxPushes + Queue!Cap(g)
  BY TypesAre, RingBounds
<1>3. 2 * (MaxPushes + Queue!Cap(g)) <= W /\ W \in Nat /\ MaxPushes \in Nat
      /\ Queue!Cap(g) \in Nat /\ Queue!Cap(g) >= 2 /\ PopAt(g) <= MaxPushes /\ PopAt(g) \in Nat
  BY Bounds, Sizes, RingBounds DEF RingKnown
<1>4. My(t) \in Nat /\ My(t) + 1 < W /\ From(position[t]) = My(t)
  BY <1>2, <1>3, Sizes DEF Words, My
<1>5. q \in Words /\ From(q) = My(t) + 1
  BY <1>1, <1>4, Further
<1>6. 2 * Turn(g, My(t)) < W + (2 * From(q)) /\ 2 * From(q) <= W
  BY <1>2, <1>3, <1>4, <1>5
<1> HIDE DEF q
<1>7. /\ Queue!Minus(Queue!SeqAt(t), q) = 0 <=> From(Queue!SeqAt(t)) = From(q)
      /\ Queue!Negative(Queue!Minus(Queue!SeqAt(t), q)) <=> From(Queue!SeqAt(t)) < From(q)
  BY <1>1, <1>5, <1>6, Signs
<1> QED
  BY <1>1, <1>5, <1>7 DEF Queue!PopDifference, q

-----------------------------------------------------------------------------
(* What the writes do. *)

OthersStay(t) ==
    \A u \in Threads \ {t} :
       /\ at'[u] = at[u] /\ item'[u] = item[u] /\ gen'[u] = gen[u] /\ base'[u] = base[u]
       /\ position'[u] = position[u] /\ held'[u] = held[u]

LEMMA OthersAre ==
  ASSUME NEW t \in Threads, OthersStay(t), NEW u \in Threads, u # t
  PROVE  /\ at'[u] = at[u] /\ item'[u] = item[u] /\ gen'[u] = gen[u] /\ base'[u] = base[u]
         /\ held'[u] = held[u] /\ My(u)' = My(u)
         /\ Pushing(u)' = Pushing(u) /\ Popping(u)' = Popping(u)
BY DEF OthersStay, My, Pushing, Popping

\* A store to the sequence word of the cell a thread works on.
LEMMA TurnMoves ==
  ASSUME QueueTypes, NEW t \in Threads, gen[t] \in Generations, NEW w \in Words,
         sequence' = [sequence EXCEPT ![gen[t]][Queue!Index(gen[t], position[t])] = w]
  PROVE  /\ DOMAIN sequence' = Generations
         /\ \A g \in Generations : sequence'[g] \in [Queue!Cells(g) -> Words]
         /\ \A g \in Generations : \A i \in Queue!Cells(g) :
               sequence'[g][i] = IF g = gen[t] /\ i = CellOf(g, My(t)) THEN w ELSE sequence[g][i]
         /\ \A g \in Generations : \A k \in Words :
               Turn(g, k)' = IF g = gen[t] /\ CellOf(g, k) = CellOf(g, My(t)) THEN From(w)
                             ELSE Turn(g, k)
<1> DEFINE c == CellOf(gen[t], My(t))
<1>1. Queue!Index(gen[t], position[t]) = c /\ c \in Queue!Cells(gen[t])
  BY MyCell, TypesAre
<1> HIDE DEF c
<1>2. sequence' = [sequence EXCEPT ![gen[t]] = [@ EXCEPT ![c] = w]]
  BY <1>1
<1>3. DOMAIN sequence' = Generations /\ DOMAIN sequence = Generations
  BY <1>2 DEF QueueTypes
<1>4. sequence'[gen[t]] = [sequence[gen[t]] EXCEPT ![c] = w]
  BY <1>2, <1>3
<1>5. \A g \in Generations : g # gen[t] => sequence'[g] = sequence[g]
  BY <1>2, <1>3
<1>6. \A g \in Generations : sequence'[g] \in [Queue!Cells(g) -> Words]
  BY <1>1, <1>4, <1>5 DEF QueueTypes
<1>7. \A g \in Generations : \A i \in Queue!Cells(g) :
         sequence'[g][i] = IF g = gen[t] /\ i = c THEN w ELSE sequence[g][i]
  BY <1>1, <1>4, <1>5 DEF QueueTypes
<1>8. ASSUME NEW g \in Generations, NEW k \in Words
      PROVE  Turn(g, k)' = IF g = gen[t] /\ CellOf(g, k) = c THEN From(w) ELSE Turn(g, k)
  <2>1. CellOf(g, k) \in Queue!Cells(g)
    BY CellIs
  <2> QED
    BY <1>7, <2>1 DEF Turn
<1> QED
  BY <1>3, <1>6, <1>7, <1>8 DEF c

LEMMA NodeMoves ==
  ASSUME QueueTypes, NEW t \in Threads, gen[t] \in Generations, NEW n \in Nodes,
         cell' = [cell EXCEPT ![gen[t]][Queue!Index(gen[t], position[t])] = n]
  PROVE  /\ DOMAIN cell' = Generations
         /\ \A g \in Generations : cell'[g] \in [Queue!Cells(g) -> Nodes \cup {None}]
         /\ \A g \in Generations : \A k \in Words :
               Node(g, k)' = IF g = gen[t] /\ CellOf(g, k) = CellOf(g, My(t)) THEN n
                             ELSE Node(g, k)
<1> DEFINE c == CellOf(gen[t], My(t))
<1>1. Queue!Index(gen[t], position[t]) = c /\ c \in Queue!Cells(gen[t])
  BY MyCell, TypesAre
<1> HIDE DEF c
<1>2. cell' = [cell EXCEPT ![gen[t]] = [@ EXCEPT ![c] = n]]
  BY <1>1
<1>3. DOMAIN cell' = Generations /\ DOMAIN cell = Generations
  BY <1>2 DEF QueueTypes
<1>4. cell'[gen[t]] = [cell[gen[t]] EXCEPT ![c] = n]
  BY <1>2, <1>3
<1>5. \A g \in Generations : g # gen[t] => cell'[g] = cell[g]
  BY <1>2, <1>3
<1>6. \A g \in Generations : cell'[g] \in [Queue!Cells(g) -> Nodes \cup {None}]
  BY <1>1, <1>4, <1>5 DEF QueueTypes
<1>7. \A g \in Generations : \A i \in Queue!Cells(g) :
         cell'[g][i] = IF g = gen[t] /\ i = c THEN n ELSE cell[g][i]
  BY <1>1, <1>4, <1>5 DEF QueueTypes
<1>8. ASSUME NEW g \in Generations, NEW k \in Words
      PROVE  Node(g, k)' = IF g = gen[t] /\ CellOf(g, k) = c THEN n ELSE Node(g, k)
  <2>1. CellOf(g, k) \in Queue!Cells(g)
    BY CellIs
  <2> QED
    BY <1>7, <2>1 DEF Node
<1> QED
  BY <1>3, <1>6, <1>8 DEF c

\* A compare-and-swap that succeeds moves one position by one.
LEMMA PushAtMoves ==
  ASSUME QueueTypes, NEW g \in Generations, PushAt(g) + 1 < W,
         enqueue' = [enqueue EXCEPT ![g] = Queue!Plus(@, 1)]
  PROVE  /\ enqueue' \in [Generations -> Words]
         /\ \A h \in Generations : PushAt(h)' = IF h = g THEN PushAt(g) + 1 ELSE PushAt(h)
<1>1. Queue!Plus(enqueue[g], 1) \in Words /\ From(Queue!Plus(enqueue[g], 1)) = PushAt(g) + 1
  BY Further DEF QueueTypes, PushAt
<1>2. enqueue' = [enqueue EXCEPT ![g] = Queue!Plus(enqueue[g], 1)]
  OBVIOUS
<1> QED
  BY <1>1, <1>2 DEF QueueTypes, PushAt

LEMMA PopAtMoves ==
  ASSUME QueueTypes, NEW g \in Generations, PopAt(g) + 1 < W,
         dequeue' = [dequeue EXCEPT ![g] = Queue!Plus(@, 1)]
  PROVE  /\ dequeue' \in [Generations -> Words]
         /\ \A h \in Generations : PopAt(h)' = IF h = g THEN PopAt(g) + 1 ELSE PopAt(h)
<1>1. Queue!Plus(dequeue[g], 1) \in Words /\ From(Queue!Plus(dequeue[g], 1)) = PopAt(g) + 1
  BY Further DEF QueueTypes, PopAt
<1>2. dequeue' = [dequeue EXCEPT ![g] = Queue!Plus(dequeue[g], 1)]
  OBVIOUS
<1> QED
  BY <1>1, <1>2 DEF QueueTypes, PopAt


LEMMA PlusWord ==
  ASSUME NEW p \in Words, NEW n \in Nat
  PROVE  Queue!Plus(p, n) \in Words
<1>1. p + n \in Nat /\ W \in Nat /\ W > 0
  BY Sizes DEF Words
<1> QED
  BY <1>1, Division DEF Queue!Plus, Words

-----------------------------------------------------------------------------
(* The locals of a step. *)

\* The acting thread is at place p afterwards.
LEMMA Goes ==
  ASSUME QueueTypes, NEW t \in Threads, NEW p \in Queue!Places, Queue!Goto(t, p)
  PROVE  /\ at' \in [Threads -> Queue!Places] /\ at'[t] = p
         /\ \A u \in Threads : u # t => at'[u] = at[u]
BY DEF QueueTypes, Queue!Goto

LEMMA Returns ==
  ASSUME QueueTypes, NEW t \in Threads, NEW S \in SUBSET Nodes, Queue!Return(t, S)
  PROVE  /\ at' \in [Threads -> Queue!Places] /\ at'[t] = "out" /\ item'[t] = None
         /\ held' \in [Threads -> SUBSET Nodes] /\ held'[t] = held[t] \cup S
         /\ item' \in [Threads -> Nodes \cup {None}]
         /\ gen' \in [Threads -> {0} \cup Generations]
         /\ base' \in [Threads -> {0} \cup Generations]
         /\ position' \in [Threads -> Words]
         /\ OthersStay(t)
<1>1. 0 \in Words
  BY Sizes DEF Words
<1>2. "out" \in Queue!Places
  BY DEF Queue!Places
<1>3. at' \in [Threads -> Queue!Places] /\ at'[t] = "out" /\ \A u \in Threads : u # t => at'[u] = at[u]
  BY <1>2, Goes DEF Queue!Return
<1>4. /\ held' \in [Threads -> SUBSET Nodes] /\ held'[t] = held[t] \cup S
      /\ \A u \in Threads : u # t => held'[u] = held[u]
  BY DEF Queue!Return, QueueTypes
<1>5. /\ item' \in [Threads -> Nodes \cup {None}] /\ item'[t] = None
      /\ \A u \in Threads : u # t => item'[u] = item[u]
  BY DEF Queue!Return, QueueTypes
<1>6. /\ gen' \in [Threads -> {0} \cup Generations]
      /\ \A u \in Threads : u # t => gen'[u] = gen[u]
  BY DEF Queue!Return, QueueTypes
<1>7. /\ base' \in [Threads -> {0} \cup Generations]
      /\ \A u \in Threads : u # t => base'[u] = base[u]
  BY DEF Queue!Return, QueueTypes
<1>8. /\ position' \in [Threads -> Words]
      /\ \A u \in Threads : u # t => position'[u] = position[u]
  BY <1>1 DEF Queue!Return, QueueTypes
<1> QED
  BY <1>3, <1>4, <1>5, <1>6, <1>7, <1>8 DEF OthersStay

\* Steps that leave the rings alone.
RingsStay == /\ enqueue' = enqueue /\ dequeue' = dequeue /\ sequence' = sequence
             /\ cell' = cell /\ pushes' = pushes

\* Where the locals of a step lead: all but the nodes that a thread owns.
LocalTypes ==
    /\ at \in [Threads -> Queue!Places] /\ item \in [Threads -> Nodes \cup {None}]
    /\ gen \in [Threads -> {0} \cup Generations]
    /\ base \in [Threads -> {0} \cup Generations]
    /\ position \in [Threads -> Words] /\ held \in [Threads -> SUBSET Nodes]

RingTypes ==
    /\ head \in {0} \cup Generations
    /\ enqueue \in [Generations -> Words] /\ dequeue \in [Generations -> Words]
    /\ DOMAIN sequence = Generations /\ DOMAIN cell = Generations
    /\ \A g \in Generations : /\ sequence[g] \in [Queue!Cells(g) -> Words]
                              /\ cell[g] \in [Queue!Cells(g) -> Nodes \cup {None}]
    /\ pushes \in 0..MaxPushes

LEMMA TypesSplit == QueueTypes <=> LocalTypes /\ RingTypes
BY DEF QueueTypes, LocalTypes, RingTypes

LEMMA RingTypesStay ==
  ASSUME RingTypes, RingsStay, head' \in {0} \cup Generations
  PROVE  RingTypes'
BY DEF RingTypes, RingsStay, Queue!Cells

\* A step that stays within the locals at, gen and position.
LEMMA Walks ==
  ASSUME QueueTypes, NEW t \in Threads, NEW p \in Queue!Places, Queue!Goto(t, p),
         NEW g \in {0} \cup Generations, gen' = [gen EXCEPT ![t] = g],
         NEW w \in Words, position' = [position EXCEPT ![t] = w],
         NEW b \in {0} \cup Generations, base' = [base EXCEPT ![t] = b],
         NEW n \in Nodes \cup {None}, item' = [item EXCEPT ![t] = n],
         NEW S \in SUBSET Nodes, held' = [held EXCEPT ![t] = S]
  PROVE  /\ LocalTypes' /\ OthersStay(t)
         /\ at'[t] = p /\ gen'[t] = g /\ position'[t] = w /\ base'[t] = b /\ item'[t] = n
         /\ held'[t] = S
<1>1. at' \in [Threads -> Queue!Places] /\ at'[t] = p /\ \A u \in Threads : u # t => at'[u] = at[u]
  BY Goes
<1>2. /\ held' \in [Threads -> SUBSET Nodes] /\ held'[t] = S
      /\ \A u \in Threads : u # t => held'[u] = held[u]
  BY DEF QueueTypes
<1>3. /\ item' \in [Threads -> Nodes \cup {None}] /\ item'[t] = n
      /\ \A u \in Threads : u # t => item'[u] = item[u]
  BY DEF QueueTypes
<1>4. /\ gen' \in [Threads -> {0} \cup Generations] /\ gen'[t] = g
      /\ \A u \in Threads : u # t => gen'[u] = gen[u]
  BY DEF QueueTypes
<1>5. /\ base' \in [Threads -> {0} \cup Generations] /\ base'[t] = b
      /\ \A u \in Threads : u # t => base'[u] = base[u]
  BY DEF QueueTypes
<1>6. /\ position' \in [Threads -> Words] /\ position'[t] = w
      /\ \A u \in Threads : u # t => position'[u] = position[u]
  BY DEF QueueTypes
<1> QED
  BY <1>1, <1>2, <1>3, <1>4, <1>5, <1>6 DEF OthersStay, LocalTypes

\* What a step leaves alone is what it stores again.
LEMMA Stores ==
  ASSUME QueueTypes, NEW t \in Threads
  PROVE  /\ gen = [gen EXCEPT ![t] = gen[t]] /\ gen[t] \in {0} \cup Generations
         /\ position = [position EXCEPT ![t] = position[t]] /\ position[t] \in Words
         /\ base = [base EXCEPT ![t] = base[t]] /\ base[t] \in {0} \cup Generations
         /\ item = [item EXCEPT ![t] = item[t]] /\ item[t] \in Nodes \cup {None}
         /\ held = [held EXCEPT ![t] = held[t]] /\ held[t] \in SUBSET Nodes
BY DEF QueueTypes

-----------------------------------------------------------------------------
(* Steps that leave the rings alone. *)

\* A thread keeps the position it has claimed.
KeepsClaim(t) ==
    /\ Pushing(t)' = Pushing(t) /\ Popping(t)' = Popping(t)
    /\ Pushing(t) \/ Popping(t) => /\ gen'[t] = gen[t] /\ position'[t] = position[t]

LEMMA ClaimsKept ==
  ASSUME NEW t \in Threads, OthersStay(t), KeepsClaim(t), NEW u \in Threads
  PROVE  /\ Pushing(u)' = Pushing(u) /\ Popping(u)' = Popping(u)
         /\ Pushing(u) \/ Popping(u) =>
               gen'[u] = gen[u] /\ position'[u] = position[u] /\ My(u)' = My(u)
<1>1. CASE u = t
  BY <1>1 DEF KeepsClaim, My
<1>2. CASE u # t
  BY <1>2, OthersAre DEF OthersStay
<1> QED
  BY <1>1, <1>2

LEMMA RingsSame ==
  ASSUME RingsStay, NEW g \in Generations
  PROVE  /\ PushAt(g)' = PushAt(g) /\ PopAt(g)' = PopAt(g)
         /\ \A k : Turn(g, k)' = Turn(g, k) /\ Node(g, k)' = Node(g, k)
BY DEF RingsStay, PushAt, PopAt, Turn, Node

LEMMA RingStaysKnown ==
  ASSUME RingsStay, NEW g \in Generations, RingKnown(g)
  PROVE  RingKnown(g)'
BY RingsSame DEF RingKnown, RingsStay

\* The claims of the threads hold if no turn and no position changes.
LEMMA ClaimsStay ==
  ASSUME NEW t \in Threads, OthersStay(t), KeepsClaim(t), ClaimsHeld,
         \A g \in Generations : /\ PushAt(g)' = PushAt(g) /\ PopAt(g)' = PopAt(g)
                                /\ \A k : Turn(g, k)' = Turn(g, k)
  PROVE  ClaimsHeld'
<1>1. ASSUME NEW v \in Threads, NEW u \in Threads, Same(v, u)', Pushing(v)', Pushing(u)'
      PROVE  v = u
  BY <1>1, ClaimsKept DEF ClaimsHeld, Same
<1>2. ASSUME NEW v \in Threads, NEW u \in Threads, Same(v, u)', Popping(v)', Popping(u)'
      PROVE  v = u
  BY <1>2, ClaimsKept DEF ClaimsHeld, Same
<1>3. \A g, k : Pusher(g, k) => Pusher(g, k)'
  BY ClaimsKept DEF Pusher
<1>4. \A g, k : Popper(g, k) => Popper(g, k)'
  BY ClaimsKept DEF Popper
<1>5. ASSUME NEW g \in Generations, NEW k \in PopAt(g)'..PushAt(g)' - 1, Turn(g, k)' = k
      PROVE  Pusher(g, k)'
  BY <1>3, <1>5 DEF ClaimsHeld
<1>6. ASSUME NEW g \in Generations, NEW k \in PushAt(g)'..PopAt(g)' + Queue!Cap(g) - 1,
             Turn(g, k)' + Queue!Cap(g) = k + 1
      PROVE  k >= Queue!Cap(g) /\ Popper(g, k - Queue!Cap(g))'
  BY <1>4, <1>6 DEF ClaimsHeld
<1> QED
  BY <1>1, <1>2, <1>5, <1>6 DEF ClaimsHeld

LEMMA OthersStayKnown ==
  ASSUME RingsStay, NEW t \in Threads, OthersStay(t), NEW u \in Threads, u # t, CallKnown(u)
  PROVE  CallKnown(u)'
<1>1. /\ at'[u] = at[u] /\ item'[u] = item[u] /\ gen'[u] = gen[u] /\ base'[u] = base[u]
      /\ My(u)' = My(u) /\ Pushing(u)' = Pushing(u) /\ Popping(u)' = Popping(u)
  BY OthersAre
<1> QED
  BY <1>1 DEF CallKnown, RingsStay, PushAt, PopAt, Turn, Node

-----------------------------------------------------------------------------
(* The places of the nodes. *)

Own(t) == [kind |-> "own", who |-> t, where |-> 0]
Hand(t) == [kind |-> "hand", who |-> t, where |-> 0]
Place(g, k) == [kind |-> "ring", who |-> g, where |-> k]

LEMMA SpotsAre ==
  /\ \A t \in Threads : Own(t) \in Spots /\ Hand(t) \in Spots
  /\ \A g \in Generations : \A k \in Nat : Place(g, k) \in Spots
  /\ \A s \in Spots : \/ \E t \in Threads : s = Own(t) \/ s = Hand(t)
                      \/ \E g \in Generations : \E k \in Nat : s = Place(g, k)
<1>1. \A t \in Threads : Own(t) \in Spots /\ Hand(t) \in Spots
  BY DEF Own, Hand, Spots
<1>2. \A g \in Generations : \A k \in Nat : Place(g, k) \in Spots
  BY DEF Place, Spots
<1>3. ASSUME NEW s \in Spots
      PROVE  \/ \E t \in Threads : s = Own(t) \/ s = Hand(t)
             \/ \E g \in Generations : \E k \in Nat : s = Place(g, k)
  <2>1. CASE s \in [kind : {"own", "hand"}, who : Threads, where : {0}]
    <3>1. s.who \in Threads /\ (s = Own(s.who) \/ s = Hand(s.who))
      BY <2>1 DEF Own, Hand
    <3> QED
      BY <3>1
  <2>2. CASE s \in [kind : {"ring"}, who : Generations, where : Nat]
    <3>1. s.who \in Generations /\ s.where \in Nat /\ s = Place(s.who, s.where)
      BY <2>2 DEF Place
    <3> QED
      BY <3>1
  <2> QED
    BY <2>1, <2>2 DEF Spots
<1> QED
  BY <1>1, <1>2, <1>3

LEMMA SpotsDiffer ==
  /\ \A t, u : (Own(t) = Own(u) <=> t = u) /\ (Hand(t) = Hand(u) <=> t = u)
  /\ \A t, u : Own(t) # Hand(u)
  /\ \A t, g, k : Own(t) # Place(g, k) /\ Hand(t) # Place(g, k)
  /\ \A g, h, j, k : Place(g, j) = Place(h, k) <=> g = h /\ j = k
BY DEF Own, Hand, Place

LEMMA SpotsHold ==
  ASSUME NEW n
  PROVE  /\ \A t : IsAt(n, Own(t)) <=> n \in held[t]
         /\ \A t : IsAt(n, Hand(t)) <=> InHands(n, t)
         /\ \A g, k : IsAt(n, Place(g, k)) <=> InRing(n, g, k)
BY DEF IsAt, Own, Hand, Place

LEMMA SpotsHoldNext ==
  ASSUME NEW n
  PROVE  /\ \A t : IsAt(n, Own(t))' <=> n \in held'[t]
         /\ \A t : IsAt(n, Hand(t))' <=> InHands(n, t)'
         /\ \A g, k : IsAt(n, Place(g, k))' <=> InRing(n, g, k)'
BY DEF IsAt, Own, Hand, Place

\* No node moves.
LEMMA NodesStay ==
  ASSUME NodesKnown,
         \A n \in Nodes : \A t \in Threads : /\ n \in held'[t] <=> n \in held[t]
                                             /\ InHands(n, t)' <=> InHands(n, t),
         \A n \in Nodes : \A g \in Generations : \A k \in Nat :
            InRing(n, g, k)' <=> InRing(n, g, k)
  PROVE  NodesKnown'
<1>1. ASSUME NEW n \in Nodes, NEW s \in Spots
      PROVE  IsAt(n, s)' <=> IsAt(n, s)
  <2>1. ASSUME NEW u \in Threads, s = Own(u)
        PROVE  (IsAt(n, s) <=> n \in held[u]) /\ (IsAt(n, s)' <=> n \in held'[u])
    BY <2>1, SpotsHold, SpotsHoldNext
  <2>2. ASSUME NEW u \in Threads, s = Hand(u)
        PROVE  (IsAt(n, s) <=> InHands(n, u)) /\ (IsAt(n, s)' <=> InHands(n, u)')
    BY <2>2, SpotsHold, SpotsHoldNext
  <2>3. ASSUME NEW g \in Generations, NEW k \in Nat, s = Place(g, k)
        PROVE  (IsAt(n, s) <=> InRing(n, g, k)) /\ (IsAt(n, s)' <=> InRing(n, g, k)')
    BY <2>3, SpotsHold, SpotsHoldNext
  <2>4. CASE \E u \in Threads : s = Own(u) \/ s = Hand(u)
    BY <2>1, <2>2, <2>4
  <2>5. CASE \E g \in Generations : \E k \in Nat : s = Place(g, k)
    BY <2>3, <2>5
  <2> QED
    BY <2>4, <2>5, SpotsAre
<1>2. Spots' = Spots
  BY DEF Spots
<1>3. ASSUME NEW n \in Nodes
      PROVE  \E x \in Spots : \A s \in Spots : IsAt(n, s)' <=> s = x
  BY <1>1 DEF NodesKnown
<1> QED
  BY <1>2, <1>3 DEF NodesKnown

\* Node m moves from spot x to spot y, and no other moves.
LEMMA NodeChangesSpot ==
  ASSUME NodesKnown, NEW m \in Nodes, NEW x \in Spots, NEW y \in Spots, x # y, IsAt(m, x),
         \A n \in Nodes : \A s \in Spots : IsAt(n, s)' <=>
            (n # m /\ IsAt(n, s)) \/ (n = m /\ s = y)
  PROVE  NodesKnown'
<1>1. Spots' = Spots
  BY DEF Spots
<1>2. ASSUME NEW n \in Nodes
      PROVE  \E z \in Spots : \A s \in Spots : IsAt(n, s)' <=> s = z
  BY DEF NodesKnown
<1> QED
  BY <1>1, <1>2 DEF NodesKnown

LEMMA NodeIsOnlyAt ==
  ASSUME NodesKnown, NEW m \in Nodes, NEW x \in Spots, IsAt(m, x), NEW s \in Spots, IsAt(m, s)
  PROVE  s = x
BY DEF NodesKnown

\* The last two cases in the forms in which the steps show them: a node taken up by a
\* call, put down by it, put into a ring and taken out of one.
LEMMA NodeTakenUp ==
  ASSUME NodesKnown, NEW m \in Nodes, NEW t \in Threads, m \in held[t],
         \A n \in Nodes : \A u \in Threads :
            /\ n \in held'[u] <=> n \in held[u] /\ ~(n = m /\ u = t)
            /\ InHands(n, u)' <=> InHands(n, u) \/ (n = m /\ u = t),
         \A n \in Nodes : \A g \in Generations : \A k \in Nat :
            InRing(n, g, k)' <=> InRing(n, g, k)
  PROVE  NodesKnown'
<1>1. Own(t) \in Spots /\ Hand(t) \in Spots /\ Own(t) # Hand(t) /\ IsAt(m, Own(t))
  BY SpotsAre, SpotsDiffer, SpotsHold
<1>2. ASSUME NEW n \in Nodes, NEW s \in Spots
      PROVE  IsAt(n, s)' <=> (n # m /\ IsAt(n, s)) \/ (n = m /\ s = Hand(t))
  <2>1. n = m /\ IsAt(n, s) => s = Own(t)
    BY <1>1, NodeIsOnlyAt
  <2>2. CASE \E u \in Threads : s = Own(u)
    <3>1. PICK u \in Threads : s = Own(u)
      BY <2>2
    <3>2. (IsAt(n, s) <=> n \in held[u]) /\ (IsAt(n, s)' <=> n \in held'[u])
      BY <3>1, SpotsHold, SpotsHoldNext
    <3>3. s # Hand(t) /\ (s = Own(t) <=> u = t)
      BY <3>1, SpotsDiffer
    <3> QED
      BY <2>1, <3>2, <3>3
  <2>3. CASE \E u \in Threads : s = Hand(u)
    <3>1. PICK u \in Threads : s = Hand(u)
      BY <2>3
    <3>2. (IsAt(n, s) <=> InHands(n, u)) /\ (IsAt(n, s)' <=> InHands(n, u)')
      BY <3>1, SpotsHold, SpotsHoldNext
    <3>3. s # Own(t) /\ (s = Hand(t) <=> u = t)
      BY <3>1, SpotsDiffer
    <3> QED
      BY <2>1, <3>2, <3>3
  <2>4. CASE \E g \in Generations : \E k \in Nat : s = Place(g, k)
    <3>1. PICK g \in Generations : \E k \in Nat : s = Place(g, k)
      BY <2>4
    <3>2. PICK k \in Nat : s = Place(g, k)
      BY <3>1
    <3>3. (IsAt(n, s) <=> InRing(n, g, k)) /\ (IsAt(n, s)' <=> InRing(n, g, k)')
      BY <3>2, SpotsHold, SpotsHoldNext
    <3>4. s # Own(t) /\ s # Hand(t)
      BY <3>2, SpotsDiffer
    <3> QED
      BY <2>1, <3>3, <3>4
  <2> QED
    BY <2>2, <2>3, <2>4, SpotsAre
<1> QED
  BY <1>1, <1>2, NodeChangesSpot

LEMMA NodePutDown ==
  ASSUME NodesKnown, NEW m \in Nodes, NEW t \in Threads, InHands(m, t),
         \A n \in Nodes : \A u \in Threads :
            /\ n \in held'[u] <=> n \in held[u] \/ (n = m /\ u = t)
            /\ InHands(n, u)' <=> InHands(n, u) /\ ~(n = m /\ u = t),
         \A n \in Nodes : \A g \in Generations : \A k \in Nat :
            InRing(n, g, k)' <=> InRing(n, g, k)
  PROVE  NodesKnown'
<1>1. Own(t) \in Spots /\ Hand(t) \in Spots /\ Hand(t) # Own(t) /\ IsAt(m, Hand(t))
  BY SpotsAre, SpotsDiffer, SpotsHold
<1>2. ASSUME NEW n \in Nodes, NEW s \in Spots
      PROVE  IsAt(n, s)' <=> (n # m /\ IsAt(n, s)) \/ (n = m /\ s = Own(t))
  <2>1. n = m /\ IsAt(n, s) => s = Hand(t)
    BY <1>1, NodeIsOnlyAt
  <2>2. CASE \E u \in Threads : s = Own(u)
    <3>1. PICK u \in Threads : s = Own(u)
      BY <2>2
    <3>2. (IsAt(n, s) <=> n \in held[u]) /\ (IsAt(n, s)' <=> n \in held'[u])
      BY <3>1, SpotsHold, SpotsHoldNext
    <3>3. s # Hand(t) /\ (s = Own(t) <=> u = t)
      BY <3>1, SpotsDiffer
    <3> QED
      BY <2>1, <3>2, <3>3
  <2>3. CASE \E u \in Threads : s = Hand(u)
    <3>1. PICK u \in Threads : s = Hand(u)
      BY <2>3
    <3>2. (IsAt(n, s) <=> InHands(n, u)) /\ (IsAt(n, s)' <=> InHands(n, u)')
      BY <3>1, SpotsHold, SpotsHoldNext
    <3>3. s # Own(t) /\ (s = Hand(t) <=> u = t)
      BY <3>1, SpotsDiffer
    <3> QED
      BY <2>1, <3>2, <3>3
  <2>4. CASE \E g \in Generations : \E k \in Nat : s = Place(g, k)
    <3>1. PICK g \in Generations : \E k \in Nat : s = Place(g, k)
      BY <2>4
    <3>2. PICK k \in Nat : s = Place(g, k)
      BY <3>1
    <3>3. (IsAt(n, s) <=> InRing(n, g, k)) /\ (IsAt(n, s)' <=> InRing(n, g, k)')
      BY <3>2, SpotsHold, SpotsHoldNext
    <3>4. s # Own(t) /\ s # Hand(t)
      BY <3>2, SpotsDiffer
    <3> QED
      BY <2>1, <3>3, <3>4
  <2> QED
    BY <2>2, <2>3, <2>4, SpotsAre
<1> QED
  BY <1>1, <1>2, NodeChangesSpot

LEMMA NodeGoesIn ==
  ASSUME NodesKnown, NEW m \in Nodes, NEW t \in Threads, InHands(m, t),
         NEW h \in Generations, NEW j \in Nat,
         \A n \in Nodes : \A u \in Threads :
            /\ n \in held'[u] <=> n \in held[u]
            /\ InHands(n, u)' <=> InHands(n, u) /\ ~(n = m /\ u = t),
         \A n \in Nodes : \A g \in Generations : \A k \in Nat :
            InRing(n, g, k)' <=> InRing(n, g, k) \/ (n = m /\ g = h /\ k = j)
  PROVE  NodesKnown'
<1>1. Place(h, j) \in Spots /\ Hand(t) \in Spots /\ Hand(t) # Place(h, j) /\ IsAt(m, Hand(t))
  BY SpotsAre, SpotsDiffer, SpotsHold
<1>2. ASSUME NEW n \in Nodes, NEW s \in Spots
      PROVE  IsAt(n, s)' <=> (n # m /\ IsAt(n, s)) \/ (n = m /\ s = Place(h, j))
  <2>1. n = m /\ IsAt(n, s) => s = Hand(t)
    BY <1>1, NodeIsOnlyAt
  <2>2. CASE \E u \in Threads : s = Own(u)
    <3>1. PICK u \in Threads : s = Own(u)
      BY <2>2
    <3>2. (IsAt(n, s) <=> n \in held[u]) /\ (IsAt(n, s)' <=> n \in held'[u])
      BY <3>1, SpotsHold, SpotsHoldNext
    <3>3. s # Hand(t) /\ s # Place(h, j) /\ (s = Own(t) <=> u = t)
      BY <3>1, SpotsDiffer
    <3> QED
      BY <2>1, <3>2, <3>3
  <2>3. CASE \E u \in Threads : s = Hand(u)
    <3>1. PICK u \in Threads : s = Hand(u)
      BY <2>3
    <3>2. (IsAt(n, s) <=> InHands(n, u)) /\ (IsAt(n, s)' <=> InHands(n, u)')
      BY <3>1, SpotsHold, SpotsHoldNext
    <3>3. s # Own(t) /\ s # Place(h, j) /\ (s = Hand(t) <=> u = t)
      BY <3>1, SpotsDiffer
    <3> QED
      BY <2>1, <3>2, <3>3
  <2>4. CASE \E g \in Generations : \E k \in Nat : s = Place(g, k)
    <3>1. PICK g \in Generations : \E k \in Nat : s = Place(g, k)
      BY <2>4
    <3>2. PICK k \in Nat : s = Place(g, k)
      BY <3>1
    <3>3. (IsAt(n, s) <=> InRing(n, g, k)) /\ (IsAt(n, s)' <=> InRing(n, g, k)')
      BY <3>2, SpotsHold, SpotsHoldNext
    <3>4. s # Own(t) /\ s # Hand(t) /\ (s = Place(h, j) <=> (g = h /\ k = j))
      BY <3>2, SpotsDiffer
    <3> QED
      BY <2>1, <3>3, <3>4
  <2> QED
    BY <2>2, <2>3, <2>4, SpotsAre
<1> QED
  BY <1>1, <1>2, NodeChangesSpot

LEMMA NodeComesOut ==
  ASSUME NodesKnown, NEW m \in Nodes, NEW t \in Threads,
         NEW h \in Generations, NEW j \in Nat, InRing(m, h, j),
         \A n \in Nodes : \A u \in Threads :
            /\ n \in held'[u] <=> n \in held[u]
            /\ InHands(n, u)' <=> InHands(n, u) \/ (n = m /\ u = t),
         \A n \in Nodes : \A g \in Generations : \A k \in Nat :
            InRing(n, g, k)' <=> InRing(n, g, k) /\ ~(n = m /\ g = h /\ k = j)
  PROVE  NodesKnown'
<1>1. Place(h, j) \in Spots /\ Hand(t) \in Spots /\ Place(h, j) # Hand(t)
  BY SpotsAre, SpotsDiffer
<1>3. IsAt(m, Place(h, j))
  BY SpotsHold
<1>2. ASSUME NEW n \in Nodes, NEW s \in Spots
      PROVE  IsAt(n, s)' <=> (n # m /\ IsAt(n, s)) \/ (n = m /\ s = Hand(t))
  <2>1. n = m /\ IsAt(n, s) => s = Place(h, j)
    BY <1>1, <1>3, NodeIsOnlyAt
  <2>2. CASE \E u \in Threads : s = Own(u)
    <3>1. PICK u \in Threads : s = Own(u)
      BY <2>2
    <3>2. (IsAt(n, s) <=> n \in held[u]) /\ (IsAt(n, s)' <=> n \in held'[u])
      BY <3>1, SpotsHold, SpotsHoldNext
    <3>3. s # Hand(t) /\ s # Place(h, j) /\ (s = Own(t) <=> u = t)
      BY <3>1, SpotsDiffer
    <3> QED
      BY <2>1, <3>2, <3>3
  <2>3. CASE \E u \in Threads : s = Hand(u)
    <3>1. PICK u \in Threads : s = Hand(u)
      BY <2>3
    <3>2. (IsAt(n, s) <=> InHands(n, u)) /\ (IsAt(n, s)' <=> InHands(n, u)')
      BY <3>1, SpotsHold, SpotsHoldNext
    <3>3. s # Own(t) /\ s # Place(h, j) /\ (s = Hand(t) <=> u = t)
      BY <3>1, SpotsDiffer
    <3> QED
      BY <2>1, <3>2, <3>3
  <2>4. CASE \E g \in Generations : \E k \in Nat : s = Place(g, k)
    <3>1. PICK g \in Generations : \E k \in Nat : s = Place(g, k)
      BY <2>4
    <3>2. PICK k \in Nat : s = Place(g, k)
      BY <3>1
    <3>3. (IsAt(n, s) <=> InRing(n, g, k)) /\ (IsAt(n, s)' <=> InRing(n, g, k)')
      BY <3>2, SpotsHold, SpotsHoldNext
    <3>4. s # Own(t) /\ s # Hand(t) /\ (s = Place(h, j) <=> (g = h /\ k = j))
      BY <3>2, SpotsDiffer
    <3> QED
      BY <2>1, <3>3, <3>4
  <2> QED
    BY <2>2, <2>3, <2>4, SpotsAre
<1> QED
  BY <1>1, <1>2, <1>3, NodeChangesSpot

-----------------------------------------------------------------------------
(* The steps that leave the rings alone keep the invariant. *)

\* What a step does to the nodes in the rings: nothing, or it puts node m at the next
\* position of generation h, or it takes the node at the oldest one out.
Keeps ==
    \A g \in Generations :
       /\ PushAt(g)' = PushAt(g) /\ PopAt(g)' = PopAt(g)
       /\ \A n \in Nodes : \A k \in Nat : InRing(n, g, k)' <=> InRing(n, g, k)

Puts(h, m) ==
    \A g \in Generations :
       /\ PushAt(g)' = (IF g = h THEN PushAt(g) + 1 ELSE PushAt(g)) /\ PopAt(g)' = PopAt(g)
       /\ \A n \in Nodes : \A k \in Nat :
             InRing(n, g, k)' <=> InRing(n, g, k) \/ (n = m /\ g = h /\ k = PushAt(g))

Takes(h) ==
    \A g \in Generations :
       /\ PushAt(g)' = PushAt(g) /\ PopAt(g)' = IF g = h THEN PopAt(g) + 1 ELSE PopAt(g)
       /\ \A n \in Nodes : \A k \in Nat :
             InRing(n, g, k)' <=> InRing(n, g, k) /\ ~(g = h /\ k = PopAt(g))

Moves ==
    \/ Keeps
    \/ \E h \in Generations : /\ PushAt(h) < PopAt(h) + Queue!Cap(h)
                             /\ \E m \in Nodes : Puts(h, m)
    \/ \E h \in Generations : PopAt(h) < PushAt(h) /\ Takes(h)

LEMMA RingSpotsStay ==
  ASSUME RingsStay, NEW t \in Threads, OthersStay(t), KeepsClaim(t),
         Pushing(t) => item'[t] = item[t], NEW n, NEW g \in Generations, NEW k
  PROVE  InRing(n, g, k)' <=> InRing(n, g, k)
<1>1. /\ PushAt(g)' = PushAt(g) /\ PopAt(g)' = PopAt(g)
      /\ Turn(g, k)' = Turn(g, k) /\ Node(g, k)' = Node(g, k)
  BY RingsSame
<1>2. ASSUME NEW u \in Threads
      PROVE  (Pushing(u) /\ gen[u] = g /\ My(u) = k /\ item[u] = n)'
             <=> Pushing(u) /\ gen[u] = g /\ My(u) = k /\ item[u] = n
  <2>1. CASE u = t
    BY <2>1, ClaimsKept
  <2>2. CASE u # t
    BY <2>2, OthersAre
  <2> QED
    BY <2>1, <2>2
<1> QED
  BY <1>1, <1>2 DEF InRing

LEMMA OtherHandsStay ==
  ASSUME NEW t \in Threads, OthersStay(t), NEW u \in Threads, u # t, NEW n,
         at[u] = "takeNode" => Node(gen[u], My(u))' = Node(gen[u], My(u))
  PROVE  InHands(n, u)' <=> InHands(n, u)
<1>1. at'[u] = at[u] /\ item'[u] = item[u] /\ Pushing(u)' = Pushing(u)
  BY OthersAre
<1> QED
  BY <1>1 DEF InHands

LEMMA OtherNodesStay ==
  ASSUME RingsStay, NEW t \in Threads, OthersStay(t), NEW u \in Threads, u # t
  PROVE  Node(gen[u], My(u))' = Node(gen[u], My(u))
<1>1. gen'[u] = gen[u] /\ My(u)' = My(u)
  BY OthersAre
<1> QED
  BY <1>1 DEF RingsStay, Node

LEMMA QuietStep ==
  ASSUME QueueIInv, NEW t \in Threads, RingsStay, OthersStay(t), LocalTypes',
         head' \in {0} \cup Generations, KeepsClaim(t), ~Pushing(t), CallKnown(t)', NodesKnown'
  PROVE  QueueIInv' /\ Keeps
<1>1. QueueTypes'
  BY TypesSplit, RingTypesStay DEF QueueIInv, QueueTypes, LocalTypes, RingTypes
<1>2. \A g \in Generations : RingKnown(g)'
  BY RingStaysKnown DEF QueueIInv
<1>3. \A u \in Threads : CallKnown(u)'
  BY OthersStayKnown DEF QueueIInv
<1>4. ClaimsHeld'
  BY ClaimsStay, RingsSame DEF QueueIInv
<1>5. Keeps
  BY RingsSame, RingSpotsStay DEF Keeps
<1> QED
  BY <1>1, <1>2, <1>3, <1>4, <1>5 DEF QueueIInv

\* A step of a call that holds no claim, before or after it, and keeps its node.
Roams(t) ==
    /\ RingsStay /\ OthersStay(t) /\ LocalTypes' /\ head' \in {0} \cup Generations
    /\ ~Pushing(t) /\ ~Popping(t) /\ ~Pushing(t)' /\ ~Popping(t)'
    /\ held'[t] = held[t] /\ item'[t] = item[t]

LEMMA Roaming ==
  ASSUME QueueIInv, NEW t \in Threads, Roams(t), CallKnown(t)'
  PROVE  QueueIInv' /\ Keeps
<1>1. RingsStay /\ OthersStay(t) /\ KeepsClaim(t) /\ ~Pushing(t)
  BY DEF Roams, KeepsClaim, Pushing, Popping
<1>2. ASSUME NEW n \in Nodes, NEW u \in Threads
      PROVE  (n \in held'[u] <=> n \in held[u]) /\ (InHands(n, u)' <=> InHands(n, u))
  <2>1. CASE u = t
    BY <2>1 DEF Roams, InHands, Popping
  <2>2. CASE u # t
    BY <1>1, <2>2, OthersAre, OtherHandsStay, OtherNodesStay
  <2> QED
    BY <2>1, <2>2
<1>3. \A n \in Nodes : \A g \in Generations : \A k \in Nat : InRing(n, g, k)' <=> InRing(n, g, k)
  BY <1>1, RingSpotsStay
<1>4. NodesKnown'
  BY <1>2, <1>3, NodesStay DEF QueueIInv
<1> QED
  BY <1>1, <1>4, QuietStep DEF Roams

\* What CallKnown says of a call at place p of generation g with position m, by the
\* generation it started from and its node.
KnownAt(p, g, m, b, n) ==
    /\ n \in Nodes <=> p \in {"pushHead", "pushLoad", "pushCell", "pushCas", "storeNode",
                              "publish", "create", "publishGeneration", "vacate"}
    /\ p \in {"create", "publishGeneration"} => b + 1 \in Generations
    /\ p \notin {"out", "pushHead", "popHead", "create", "publishGeneration"} => g \in Generations
    /\ p \in {"pushCell", "pushCas"} => m <= PushAt(g)
    /\ p = "pushCas" /\ m = PushAt(g) => Turn(g, m) = m
    /\ p \in {"popCell", "popCas"} => m <= PopAt(g)
    /\ p = "popCas" /\ m = PopAt(g) => m < PushAt(g) /\ Turn(g, m) = m + 1
    /\ p \in {"storeNode", "publish"} => PopAt(g) <= m /\ m < PushAt(g) /\ Turn(g, m) = m
    /\ p = "publish" => Node(g, m) = n
    /\ p \in {"takeNode", "vacate"} =>
          m < PopAt(g) /\ PushAt(g) <= m + Queue!Cap(g) /\ Turn(g, m) = m + 1
    /\ p = "takeNode" => Node(g, m) \in Nodes

LEMMA CallsAre ==
  ASSUME NEW t \in Threads
  PROVE  CallKnown(t) <=> KnownAt(at[t], gen[t], My(t), base[t], item[t])
BY DEF CallKnown, KnownAt, Pushing, Popping

LEMMA CallsBecome ==
  ASSUME NEW t \in Threads, RingsStay,
         KnownAt(at'[t], gen'[t], From(position'[t]), base'[t], item'[t])
  PROVE  CallKnown(t)'
<1>1. \A g : PushAt(g)' = PushAt(g) /\ PopAt(g)' = PopAt(g)
  BY DEF RingsStay, PushAt, PopAt
<1>2. \A g, k : Turn(g, k)' = Turn(g, k) /\ Node(g, k)' = Node(g, k)
  BY DEF RingsStay, Turn, Node
<1> QED
  BY <1>1, <1>2 DEF CallKnown, KnownAt, Pushing, Popping, My, RingsStay, PushAt, PopAt, Turn, Node

\* A step that roams to place p, with generation g, position w and start b.
LEMMA Walking ==
  ASSUME QueueIInv, NEW t \in Threads, RingsStay, head' \in {0} \cup Generations,
         NEW p \in Queue!Places, Queue!Goto(t, p),
         NEW g \in {0} \cup Generations, gen' = [gen EXCEPT ![t] = g],
         NEW w \in Words, position' = [position EXCEPT ![t] = w],
         NEW b \in {0} \cup Generations, base' = [base EXCEPT ![t] = b],
         item' = item, held' = held,
         at[t] \notin {"storeNode", "publish", "takeNode", "vacate"},
         p \notin {"storeNode", "publish", "takeNode", "vacate"},
         KnownAt(p, g, From(w), b, item[t])
  PROVE  QueueIInv' /\ Keeps
<1>1. QueueTypes
  BY DEF QueueIInv
<1>2. /\ LocalTypes' /\ OthersStay(t)
      /\ at'[t] = p /\ gen'[t] = g /\ position'[t] = w /\ base'[t] = b /\ item'[t] = item[t]
      /\ held'[t] = held[t]
  BY <1>1, Walks, Stores
<1>3. CallKnown(t)'
  BY <1>2, CallsBecome
<1>4. Roams(t)
  BY <1>2 DEF Roams, Pushing, Popping
<1> QED
  BY <1>3, <1>4, Roaming

LEMMA KnownNow ==
  ASSUME QueueIInv, NEW t \in Threads
  PROVE  /\ QueueTypes /\ KnownAt(at[t], gen[t], My(t), base[t], item[t])
         /\ head \in {0} \cup Generations
         /\ gen[t] \in Generations => RingKnown(gen[t])
         /\ \A g \in Generations : PushAt(g) \in Nat /\ PopAt(g) \in Nat
BY CallsAre, RingBounds DEF QueueIInv, QueueTypes

\* A step that loads position w.
LEMMA Loading ==
  ASSUME QueueIInv, NEW t \in Threads, RingsStay, head' = head,
         NEW p \in Queue!Places, Queue!Goto(t, p), gen' = gen, base' = base, item' = item, held' = held,
         NEW w \in Words, position' = [position EXCEPT ![t] = w],
         at[t] \notin {"storeNode", "publish", "takeNode", "vacate"},
         p \notin {"storeNode", "publish", "takeNode", "vacate"},
         KnownAt(p, gen[t], From(w), base[t], item[t])
  PROVE  QueueIInv' /\ Keeps
<1>1. /\ gen' = [gen EXCEPT ![t] = gen[t]] /\ gen[t] \in {0} \cup Generations
      /\ base' = [base EXCEPT ![t] = base[t]] /\ base[t] \in {0} \cup Generations
      /\ head' \in {0} \cup Generations
  BY KnownNow, Stores
<1> QED
  BY <1>1, Walking

\* A step that only goes to place p.
LEMMA Going ==
  ASSUME QueueIInv, NEW t \in Threads, RingsStay, head' \in {0} \cup Generations,
         NEW p \in Queue!Places, Queue!Goto(t, p), gen' = gen, base' = base, item' = item, held' = held,
         position' = position,
         at[t] \notin {"storeNode", "publish", "takeNode", "vacate"},
         p \notin {"storeNode", "publish", "takeNode", "vacate"},
         KnownAt(p, gen[t], From(position[t]), base[t], item[t])
  PROVE  QueueIInv' /\ Keeps
<1>1. /\ gen' = [gen EXCEPT ![t] = gen[t]] /\ gen[t] \in {0} \cup Generations
      /\ base' = [base EXCEPT ![t] = base[t]] /\ base[t] \in {0} \cup Generations
      /\ position' = [position EXCEPT ![t] = position[t]] /\ position[t] \in Words
  BY KnownNow, Stores
<1> QED
  BY <1>1, Walking

LEMMA StepCallPop ==
  ASSUME QueueIInv, NEW t \in Threads, Queue!CallPop(t)
  PROVE  QueueIInv' /\ Keeps
<1>1. QueueTypes /\ KnownAt(at[t], gen[t], My(t), base[t], item[t]) /\ at[t] = "out"
  BY KnownNow DEF Queue!CallPop
<1>2. RingsStay /\ head' = head /\ gen' = gen /\ position' = position /\ base' = base
      /\ item' = item /\ held' = held /\ Queue!Goto(t, "popHead")
  BY DEF Queue!CallPop, RingsStay, Queue!rings, Queue!locals
<1>3. KnownAt("popHead", gen[t], From(position[t]), base[t], item[t])
  BY <1>1 DEF KnownAt
<1> QED
  BY <1>1, <1>2, <1>3, KnownNow, Going DEF Queue!Places

LEMMA StepPushHead ==
  ASSUME QueueIInv, NEW t \in Threads, Queue!PushHead(t)
  PROVE  QueueIInv' /\ Keeps
<1> DEFINE p == IF head = 0 THEN "create" ELSE "pushLoad"
<1>1. QueueTypes /\ KnownAt(at[t], gen[t], My(t), base[t], item[t]) /\ at[t] = "pushHead"
  BY KnownNow DEF Queue!PushHead
<1>2. RingsStay /\ head' = head /\ gen' = [gen EXCEPT ![t] = head] /\ position' = position
      /\ base' = [base EXCEPT ![t] = head] /\ item' = item /\ held' = held /\ Queue!Goto(t, p)
  BY DEF Queue!PushHead, RingsStay, Queue!rings, Queue!At
<1>3. 1 \in Generations /\ head \in {0} \cup Generations
  BY <1>1, QueueAssumption DEF Queue!QueueSizes, QueueTypes
<1>4. KnownAt(p, head, From(position[t]), head, item[t])
  BY <1>1, <1>3 DEF KnownAt
<1>5. p \in {"create", "pushLoad"} /\ p \in Queue!Places
  BY DEF Queue!Places
<1> HIDE DEF p
<1> QED
  BY <1>1, <1>2, <1>3, <1>4, <1>5, Stores, Walking

LEMMA StepPushLoad ==
  ASSUME QueueIInv, NEW t \in Threads, Queue!PushLoad(t)
  PROVE  QueueIInv' /\ Keeps
<1> DEFINE w == enqueue[gen[t]]
<1>1. QueueTypes /\ KnownAt(at[t], gen[t], My(t), base[t], item[t]) /\ at[t] = "pushLoad"
  BY KnownNow DEF Queue!PushLoad
<1>2. RingsStay /\ head' = head /\ gen' = gen /\ position' = [position EXCEPT ![t] = w]
      /\ base' = base /\ item' = item /\ held' = held /\ Queue!Goto(t, "pushCell")
  BY DEF Queue!PushLoad, RingsStay, Queue!rings, Queue!Position
<1>3. gen[t] \in Generations
  BY <1>1 DEF KnownAt
<1>4. w \in Words /\ From(w) = PushAt(gen[t]) /\ PushAt(gen[t]) \in Nat
  BY <1>1, <1>3, KnownNow DEF QueueTypes, PushAt
<1> HIDE DEF w
<1>5. KnownAt("pushCell", gen[t], From(w), base[t], item[t])
  BY <1>1, <1>3, <1>4 DEF KnownAt
<1> QED
  BY <1>1, <1>2, <1>4, <1>5, Loading DEF Queue!Places

LEMMA StepPopLoad ==
  ASSUME QueueIInv, NEW t \in Threads, Queue!PopLoad(t)
  PROVE  QueueIInv' /\ Keeps
<1> DEFINE w == dequeue[gen[t]]
<1>1. QueueTypes /\ KnownAt(at[t], gen[t], My(t), base[t], item[t]) /\ at[t] = "popLoad"
  BY KnownNow DEF Queue!PopLoad
<1>2. RingsStay /\ head' = head /\ gen' = gen /\ position' = [position EXCEPT ![t] = w]
      /\ base' = base /\ item' = item /\ held' = held /\ Queue!Goto(t, "popCell")
  BY DEF Queue!PopLoad, RingsStay, Queue!rings, Queue!Position
<1>3. gen[t] \in Generations
  BY <1>1 DEF KnownAt
<1>4. w \in Words /\ From(w) = PopAt(gen[t]) /\ PopAt(gen[t]) \in Nat
  BY <1>1, <1>3, KnownNow DEF QueueTypes, PopAt
<1> HIDE DEF w
<1>5. KnownAt("popCell", gen[t], From(w), base[t], item[t])
  BY <1>1, <1>3, <1>4 DEF KnownAt
<1> QED
  BY <1>1, <1>2, <1>4, <1>5, Loading DEF Queue!Places

\* The cell's turn is the position: the claim may be tried.
LEMMA StepPushCellFree ==
  ASSUME QueueIInv, NEW t \in Threads, Queue!PushCellFree(t)
  PROVE  QueueIInv' /\ Keeps
<1>1. QueueTypes /\ KnownAt(at[t], gen[t], My(t), base[t], item[t]) /\ at[t] = "pushCell"
  BY KnownNow DEF Queue!PushCellFree
<1>2. RingsStay /\ head' = head /\ gen' = gen /\ position' = position /\ base' = base
      /\ item' = item /\ held' = held /\ Queue!Goto(t, "pushCas")
  BY DEF Queue!PushCellFree, RingsStay, Queue!rings, Queue!locals
<1>3. gen[t] \in Generations /\ My(t) <= PushAt(gen[t])
  BY <1>1 DEF KnownAt
<1>4. Turn(gen[t], My(t)) = My(t)
  BY <1>1, <1>3, KnownNow, PushCompares DEF Queue!PushCellFree
<1>5. KnownAt("pushCas", gen[t], From(position[t]), base[t], item[t])
  BY <1>1, <1>3, <1>4 DEF KnownAt, My
<1> QED
  BY <1>1, <1>2, <1>5, KnownNow, Going DEF Queue!Places

LEMMA StepPushCellStale ==
  ASSUME QueueIInv, NEW t \in Threads, Queue!PushCellStale(t)
  PROVE  QueueIInv' /\ Keeps
<1>1. QueueTypes /\ KnownAt(at[t], gen[t], My(t), base[t], item[t]) /\ at[t] = "pushCell"
  BY KnownNow DEF Queue!PushCellStale
<1>2. RingsStay /\ head' = head /\ gen' = gen /\ position' = position /\ base' = base
      /\ item' = item /\ held' = held /\ Queue!Goto(t, "pushLoad")
  BY DEF Queue!PushCellStale, RingsStay, Queue!rings, Queue!locals
<1>3. KnownAt("pushLoad", gen[t], From(position[t]), base[t], item[t])
  BY <1>1 DEF KnownAt
<1> QED
  BY <1>1, <1>2, <1>3, KnownNow, Going DEF Queue!Places

\* The cell's turn is one past the position, so that the position has been pushed.
LEMMA StepPopCellReady ==
  ASSUME QueueIInv, NEW t \in Threads, Queue!PopCellReady(t)
  PROVE  QueueIInv' /\ Keeps
<1>1. QueueTypes /\ KnownAt(at[t], gen[t], My(t), base[t], item[t]) /\ at[t] = "popCell"
  BY KnownNow DEF Queue!PopCellReady
<1>2. RingsStay /\ head' = head /\ gen' = gen /\ position' = position /\ base' = base
      /\ item' = item /\ held' = held /\ Queue!Goto(t, "popCas")
  BY DEF Queue!PopCellReady, RingsStay, Queue!rings, Queue!locals
<1>3. gen[t] \in Generations /\ My(t) <= PopAt(gen[t]) /\ RingKnown(gen[t])
  BY <1>1, KnownNow DEF KnownAt
<1>4. Turn(gen[t], My(t)) = My(t) + 1
  BY <1>1, <1>3, PopCompares DEF Queue!PopCellReady
<1>5. My(t) = PopAt(gen[t]) => My(t) < PushAt(gen[t])
  <2> DEFINE g == gen[t]
  <2> DEFINE m == My(t)
  <2>1. /\ PopAt(g) \in Nat /\ PushAt(g) \in Nat /\ Queue!Cap(g) \in Nat /\ Queue!Cap(g) >= 2
        /\ PopAt(g) <= PushAt(g)
    BY <1>1, <1>3, RingBounds DEF RingKnown
  <2>2. ASSUME m = PopAt(g), m >= PushAt(g)
        PROVE  FALSE
    <3>1. m \in PushAt(g)..PopAt(g) + Queue!Cap(g) - 1
      BY <2>1, <2>2
    <3>2. Turn(g, m) = m \/ Turn(g, m) + Queue!Cap(g) = m + 1
      BY <1>3, <3>1 DEF RingKnown
    <3> QED
      BY <1>4, <2>1, <2>2, <3>2
  <2> QED
    BY <2>1, <2>2
<1>6. KnownAt("popCas", gen[t], From(position[t]), base[t], item[t])
  BY <1>1, <1>3, <1>4, <1>5 DEF KnownAt, My
<1> QED
  BY <1>1, <1>2, <1>6, KnownNow, Going DEF Queue!Places

LEMMA StepPopCellStale ==
  ASSUME QueueIInv, NEW t \in Threads, Queue!PopCellStale(t)
  PROVE  QueueIInv' /\ Keeps
<1>1. QueueTypes /\ KnownAt(at[t], gen[t], My(t), base[t], item[t]) /\ at[t] = "popCell"
  BY KnownNow DEF Queue!PopCellStale
<1>2. RingsStay /\ head' = head /\ gen' = gen /\ position' = position /\ base' = base
      /\ item' = item /\ held' = held /\ Queue!Goto(t, "popLoad")
  BY DEF Queue!PopCellStale, RingsStay, Queue!rings, Queue!locals
<1>3. KnownAt("popLoad", gen[t], From(position[t]), base[t], item[t])
  BY <1>1 DEF KnownAt
<1> QED
  BY <1>1, <1>2, <1>3, KnownNow, Going DEF Queue!Places

LEMMA StepCreate ==
  ASSUME QueueIInv, NEW t \in Threads, Queue!Create(t)
  PROVE  QueueIInv' /\ Keeps
<1>1. QueueTypes /\ KnownAt(at[t], gen[t], My(t), base[t], item[t]) /\ at[t] = "create"
  BY KnownNow DEF Queue!Create
<1>2. RingsStay /\ head' = head /\ gen' = gen /\ position' = position /\ base' = base
      /\ item' = item /\ held' = held /\ Queue!Goto(t, "publishGeneration")
  BY DEF Queue!Create, RingsStay, Queue!rings, Queue!locals
<1>3. KnownAt("publishGeneration", gen[t], From(position[t]), base[t], item[t])
  BY <1>1 DEF KnownAt
<1> QED
  BY <1>1, <1>2, <1>3, KnownNow, Going DEF Queue!Places

LEMMA StepPublishGeneration ==
  ASSUME QueueIInv, NEW t \in Threads, Queue!PublishGeneration(t)
  PROVE  QueueIInv' /\ Keeps
<1>1. QueueTypes /\ KnownAt(at[t], gen[t], My(t), base[t], item[t]) /\ at[t] = "publishGeneration"
  BY KnownNow DEF Queue!PublishGeneration
<1>2. RingsStay /\ gen' = gen /\ position' = position /\ base' = base
      /\ item' = item /\ held' = held /\ Queue!Goto(t, "pushHead")
  BY DEF Queue!PublishGeneration, RingsStay, Queue!rings, Queue!locals
<1>3. head' \in {0} \cup Generations
  BY <1>1 DEF Queue!PublishGeneration, KnownAt, QueueTypes
<1>4. KnownAt("pushHead", gen[t], From(position[t]), base[t], item[t])
  BY <1>1 DEF KnownAt
<1> QED
  BY <1>1, <1>2, <1>3, <1>4, Going DEF Queue!Places

\* A call gives its node back to its thread.
LEMMA GivesBack ==
  ASSUME QueueIInv, NEW t \in Threads, RingsStay, head' = head, item[t] \in Nodes,
         at[t] \notin {"storeNode", "publish", "takeNode", "vacate"}, Queue!Return(t, {item[t]})
  PROVE  QueueIInv' /\ Keeps
<1> DEFINE m == item[t]
<1>1. QueueTypes /\ head \in {0} \cup Generations
  BY KnownNow
<1>2. /\ LocalTypes' /\ OthersStay(t)
      /\ at'[t] = "out" /\ held'[t] = held[t] \cup {m} /\ item'[t] = None
  <2>1. {m} \in SUBSET Nodes
    OBVIOUS
  <2> QED
    BY <1>1, <2>1, Returns DEF LocalTypes
<1>3. /\ ~Pushing(t) /\ ~Popping(t) /\ ~Pushing(t)' /\ ~Popping(t)' /\ KeepsClaim(t)
  BY <1>2 DEF Pushing, Popping, KeepsClaim
<1>4. None \notin Nodes
  BY QueueAssumption DEF Queue!QueueSizes
<1>5. CallKnown(t)'
  <2>1. KnownAt("out", gen'[t], From(position'[t]), base'[t], None)
    BY <1>4 DEF KnownAt
  <2> QED
    BY <1>2, <2>1, CallsBecome
<1>6. ASSUME NEW n \in Nodes, NEW u \in Threads
      PROVE  /\ n \in held'[u] <=> n \in held[u] \/ (n = m /\ u = t)
             /\ InHands(n, u)' <=> InHands(n, u) /\ ~(n = m /\ u = t)
  <2>1. CASE u = t
    BY <1>2, <1>3, <1>4, <2>1 DEF InHands, Popping
  <2>2. CASE u # t
    BY <1>2, <2>2, OthersAre, OtherHandsStay, OtherNodesStay
  <2> QED
    BY <2>1, <2>2
<1>7. \A n \in Nodes : \A g \in Generations : \A k \in Nat : InRing(n, g, k)' <=> InRing(n, g, k)
  BY <1>2, <1>3, RingSpotsStay
<1>8. InHands(m, t)
  BY <1>3 DEF InHands
<1> HIDE DEF m
<1>9. NodesKnown'
  <2>1. m \in Nodes /\ NodesKnown
    BY DEF m, QueueIInv
  <2> QED
    BY <1>6, <1>7, <1>8, <2>1, NodePutDown
<1> QED
  BY <1>1, <1>2, <1>3, <1>5, <1>9, QuietStep

LEMMA StepCallPush ==
  ASSUME QueueIInv, NEW t \in Threads, NEW m \in Nodes, Queue!CallPush(t, m)
  PROVE  QueueIInv' /\ Keeps
<1>1. QueueTypes /\ head \in {0} \cup Generations
      /\ KnownAt(at[t], gen[t], My(t), base[t], item[t]) /\ at[t] = "out" /\ m \in held[t]
  BY KnownNow DEF Queue!CallPush
<1>2. RingsStay /\ head' = head
  BY DEF Queue!CallPush, RingsStay, Queue!rings
<1>3. /\ LocalTypes' /\ OthersStay(t)
      /\ at'[t] = "pushHead" /\ held'[t] = held[t] \ {m} /\ item'[t] = m
  <2> DEFINE g == gen[t]
  <2> DEFINE b == base[t]
  <2> DEFINE w == position[t]
  <2> DEFINE S == held[t] \ {m}
  <2>1. /\ gen' = [gen EXCEPT ![t] = g] /\ g \in {0} \cup Generations
        /\ base' = [base EXCEPT ![t] = b] /\ b \in {0} \cup Generations
        /\ position' = [position EXCEPT ![t] = w] /\ w \in Words
    BY <1>1, Stores DEF Queue!CallPush
  <2>2. held' = [held EXCEPT ![t] = S] /\ S \in SUBSET Nodes
    BY <1>1, Stores DEF Queue!CallPush
  <2>3. item' = [item EXCEPT ![t] = m] /\ m \in Nodes \cup {None} /\ Queue!Goto(t, "pushHead")
        /\ "pushHead" \in Queue!Places
    BY DEF Queue!CallPush, Queue!Places
  <2> HIDE DEF g, b, w, S
  <2>4. LocalTypes' /\ OthersStay(t) /\ at'[t] = "pushHead" /\ held'[t] = S /\ item'[t] = m
    BY <1>1, <2>1, <2>2, <2>3, Walks
  <2> QED
    BY <2>4 DEF S
<1>4. /\ ~Pushing(t) /\ ~Popping(t) /\ ~Pushing(t)' /\ ~Popping(t)' /\ KeepsClaim(t)
  BY <1>1, <1>3 DEF Pushing, Popping, KeepsClaim
<1>5. CallKnown(t)'
  <2>1. KnownAt("pushHead", gen'[t], From(position'[t]), base'[t], m)
    BY DEF KnownAt
  <2> QED
    BY <1>2, <1>3, <2>1, CallsBecome
<1>6. ASSUME NEW n \in Nodes, NEW u \in Threads
      PROVE  /\ n \in held'[u] <=> n \in held[u] /\ ~(n = m /\ u = t)
             /\ InHands(n, u)' <=> InHands(n, u) \/ (n = m /\ u = t)
  <2>1. CASE u = t
    <3>1. item[t] # n
      BY <1>1 DEF KnownAt
    <3> QED
      BY <1>1, <1>3, <1>4, <2>1, <3>1 DEF InHands, Popping
  <2>2. CASE u # t
    BY <1>2, <1>3, <2>2, OthersAre, OtherHandsStay, OtherNodesStay
  <2> QED
    BY <2>1, <2>2
<1>7. \A n \in Nodes : \A g \in Generations : \A k \in Nat : InRing(n, g, k)' <=> InRing(n, g, k)
  BY <1>2, <1>3, <1>4, RingSpotsStay
<1>8. NodesKnown'
  BY <1>1, <1>6, <1>7, NodeTakenUp DEF QueueIInv
<1> QED
  BY <1>1, <1>2, <1>3, <1>4, <1>5, <1>8, QuietStep

LEMMA StepCreateFails ==
  ASSUME QueueIInv, NEW t \in Threads, Queue!CreateFails(t)
  PROVE  QueueIInv' /\ Keeps
<1>1. KnownAt(at[t], gen[t], My(t), base[t], item[t]) /\ at[t] = "create"
  BY KnownNow DEF Queue!CreateFails
<1>2. item[t] \in Nodes
  BY <1>1 DEF KnownAt
<1>3. RingsStay /\ head' = head /\ Queue!Return(t, {item[t]})
  BY DEF Queue!CreateFails, RingsStay, Queue!rings
<1> QED
  BY <1>1, <1>2, <1>3, GivesBack

LEMMA StepPushRingFull ==
  ASSUME QueueIInv, NEW t \in Threads, Queue!PushRingFull(t)
  PROVE  QueueIInv' /\ Keeps
<1>1. KnownAt(at[t], gen[t], My(t), base[t], item[t]) /\ at[t] = "pushCell" /\ QueueTypes
  BY KnownNow DEF Queue!PushRingFull
<1>2. item[t] \in Nodes /\ gen[t] \in Generations
  BY <1>1 DEF KnownAt
<1>3. RingsStay /\ head' = head /\ head \in {0} \cup Generations
  BY KnownNow DEF Queue!PushRingFull, RingsStay, Queue!rings
<1>4. CASE gen[t] = base[t] /\ base[t] + 1 \in Generations
  <2>1. Queue!Goto(t, "create") /\ gen' = gen /\ position' = position /\ base' = base
        /\ item' = item /\ held' = held
    BY <1>4 DEF Queue!PushRingFull, Queue!locals
  <2>2. KnownAt("create", gen[t], From(position[t]), base[t], item[t])
    BY <1>2, <1>4 DEF KnownAt
  <2> QED
    BY <1>1, <1>3, <2>1, <2>2, Going DEF Queue!Places
<1>5. CASE ~(gen[t] = base[t] /\ base[t] + 1 \in Generations) /\ gen[t] > 1
  <2> DEFINE g == gen[t] - 1
  <2>1. Queue!Goto(t, "pushLoad") /\ gen' = [gen EXCEPT ![t] = g] /\ position' = position
        /\ base' = base /\ item' = item /\ held' = held
    BY <1>5 DEF Queue!PushRingFull, Queue!At
  <2>2. g \in Generations
    BY <1>2, <1>5, SameCardinality, QueueAssumption, FS_CardinalityType DEF Queue!QueueSizes
  <2> HIDE DEF g
  <2>3. KnownAt("pushLoad", g, From(position[t]), base[t], item[t])
    BY <1>2, <2>2 DEF KnownAt
  <2>4. /\ base' = [base EXCEPT ![t] = base[t]] /\ base[t] \in {0} \cup Generations
        /\ position' = [position EXCEPT ![t] = position[t]] /\ position[t] \in Words
    BY <1>1, <2>1, Stores
  <2> QED
    BY <1>1, <1>3, <2>1, <2>2, <2>3, <2>4, Walking DEF Queue!Places
<1>6. CASE ~(gen[t] = base[t] /\ base[t] + 1 \in Generations) /\ ~(gen[t] > 1)
  <2>1. Queue!Return(t, {item[t]})
    BY <1>6 DEF Queue!PushRingFull
  <2> QED
    BY <1>1, <1>2, <1>3, <2>1, GivesBack
<1> QED
  BY <1>4, <1>5, <1>6

\* try_pop goes on to generation g, or is over.
LEMMA PopsFrom ==
  ASSUME QueueIInv, NEW t \in Threads, RingsStay, head' = head, at[t] \in {"popHead", "popCell"},
         NEW g \in {0} \cup Generations, Queue!PopFrom(t, g)
  PROVE  QueueIInv' /\ Keeps
<1>1. KnownAt(at[t], gen[t], My(t), base[t], item[t]) /\ QueueTypes
      /\ head \in {0} \cup Generations
  BY KnownNow
<1>2. item[t] \notin Nodes
  BY <1>1 DEF KnownAt
<1>3. CASE g = 0
  <2>1. Queue!Return(t, {}) /\ {} \in SUBSET Nodes
    BY <1>3 DEF Queue!PopFrom
  <2>2. /\ LocalTypes' /\ OthersStay(t) /\ at'[t] = "out" /\ held'[t] = held[t] \cup {}
        /\ item'[t] = None
    BY <1>1, <2>1, Returns DEF LocalTypes
  <2>3. None \notin Nodes /\ item[t] = None
    BY <1>1, <1>2, QueueAssumption DEF Queue!QueueSizes, QueueTypes
  <2>4. Roams(t)
    BY <1>1, <2>2, <2>3 DEF Roams, Pushing, Popping
  <2>5. KnownAt("out", gen'[t], From(position'[t]), base'[t], None)
    BY <2>3 DEF KnownAt
  <2>6. CallKnown(t)'
    BY <2>2, <2>5, CallsBecome
  <2> QED
    BY <2>4, <2>6, Roaming
<1>4. CASE g # 0
  <2>1. Queue!Goto(t, "popLoad") /\ gen' = [gen EXCEPT ![t] = g] /\ position' = position
        /\ base' = base /\ item' = item /\ held' = held
    BY <1>4 DEF Queue!PopFrom, Queue!At
  <2>2. KnownAt("popLoad", g, From(position[t]), base[t], item[t])
    BY <1>2, <1>4 DEF KnownAt
  <2>3. /\ base' = [base EXCEPT ![t] = base[t]] /\ base[t] \in {0} \cup Generations
        /\ position' = [position EXCEPT ![t] = position[t]] /\ position[t] \in Words
    BY <1>1, <2>1, Stores
  <2> QED
    BY <1>1, <2>1, <2>2, <2>3, Walking DEF Queue!Places
<1> QED
  BY <1>3, <1>4

LEMMA StepPopHead ==
  ASSUME QueueIInv, NEW t \in Threads, Queue!PopHead(t)
  PROVE  QueueIInv' /\ Keeps
<1>1. RingsStay /\ head' = head /\ at[t] = "popHead" /\ Queue!PopFrom(t, head)
  BY DEF Queue!PopHead, RingsStay, Queue!rings
<1> QED
  BY <1>1, KnownNow, PopsFrom

LEMMA StepPopRingEmpty ==
  ASSUME QueueIInv, NEW t \in Threads, Queue!PopRingEmpty(t)
  PROVE  QueueIInv' /\ Keeps
<1>1. RingsStay /\ head' = head /\ at[t] = "popCell" /\ Queue!PopFrom(t, gen[t] - 1)
  BY DEF Queue!PopRingEmpty, RingsStay, Queue!rings
<1>2. gen[t] \in Generations
  BY <1>1, KnownNow DEF KnownAt
<1>3. gen[t] - 1 \in {0} \cup Generations
  BY <1>2, SameCardinality, QueueAssumption, FS_CardinalityType DEF Queue!QueueSizes
<1> QED
  BY <1>1, <1>3, PopsFrom

\* A compare-and-swap that fails loads the position again.
LEMMA StepPushCasFails ==
  ASSUME QueueIInv, NEW t \in Threads, Queue!PushCas(t), enqueue[gen[t]] # position[t]
  PROVE  QueueIInv' /\ Keeps
<1> DEFINE w == enqueue[gen[t]]
<1>1. QueueTypes /\ KnownAt(at[t], gen[t], My(t), base[t], item[t]) /\ at[t] = "pushCas"
  BY KnownNow DEF Queue!PushCas
<1>2. RingsStay /\ head' = head /\ gen' = gen /\ position' = [position EXCEPT ![t] = w]
      /\ base' = base /\ item' = item /\ held' = held /\ Queue!Goto(t, "pushCell")
  BY DEF Queue!PushCas, RingsStay, Queue!Position
<1>3. gen[t] \in Generations
  BY <1>1 DEF KnownAt
<1>4. w \in Words /\ From(w) = PushAt(gen[t]) /\ PushAt(gen[t]) \in Nat
  BY <1>1, <1>3, KnownNow DEF QueueTypes, PushAt
<1> HIDE DEF w
<1>5. KnownAt("pushCell", gen[t], From(w), base[t], item[t])
  BY <1>1, <1>3, <1>4 DEF KnownAt
<1> QED
  BY <1>1, <1>2, <1>4, <1>5, Loading DEF Queue!Places

LEMMA StepPopCasFails ==
  ASSUME QueueIInv, NEW t \in Threads, Queue!PopCas(t), dequeue[gen[t]] # position[t]
  PROVE  QueueIInv' /\ Keeps
<1> DEFINE w == dequeue[gen[t]]
<1>1. QueueTypes /\ KnownAt(at[t], gen[t], My(t), base[t], item[t]) /\ at[t] = "popCas"
  BY KnownNow DEF Queue!PopCas
<1>2. RingsStay /\ head' = head /\ gen' = gen /\ position' = [position EXCEPT ![t] = w]
      /\ base' = base /\ item' = item /\ held' = held /\ Queue!Goto(t, "popCell")
  BY DEF Queue!PopCas, RingsStay, Queue!Position
<1>3. gen[t] \in Generations
  BY <1>1 DEF KnownAt
<1>4. w \in Words /\ From(w) = PopAt(gen[t]) /\ PopAt(gen[t]) \in Nat
  BY <1>1, <1>3, KnownNow DEF QueueTypes, PopAt
<1> HIDE DEF w
<1>5. KnownAt("popCell", gen[t], From(w), base[t], item[t])
  BY <1>1, <1>3, <1>4 DEF KnownAt
<1> QED
  BY <1>1, <1>2, <1>4, <1>5, Loading DEF Queue!Places

LEMMA StepTakeNode ==
  ASSUME QueueIInv, NEW t \in Threads, Queue!TakeNode(t)
  PROVE  QueueIInv' /\ Keeps
<1> DEFINE m == Node(gen[t], My(t))
<1>1. QueueTypes /\ head \in {0} \cup Generations
      /\ KnownAt(at[t], gen[t], My(t), base[t], item[t]) /\ at[t] = "takeNode"
  BY KnownNow DEF Queue!TakeNode
<1>2. RingsStay /\ head' = head /\ gen[t] \in Generations /\ item[t] \notin Nodes /\ m \in Nodes
  BY <1>1 DEF Queue!TakeNode, RingsStay, Queue!rings, KnownAt
<1>3. item' = [item EXCEPT ![t] = m]
  BY <1>1, <1>2, MyCell DEF Queue!TakeNode, Node
<1>4. /\ LocalTypes' /\ OthersStay(t) /\ at'[t] = "vacate" /\ item'[t] = m /\ held'[t] = held[t]
      /\ gen'[t] = gen[t] /\ position'[t] = position[t]
  <2> DEFINE g == gen[t]
  <2> DEFINE b == base[t]
  <2> DEFINE w == position[t]
  <2> DEFINE S == held[t]
  <2>1. /\ gen' = [gen EXCEPT ![t] = g] /\ g \in {0} \cup Generations
        /\ base' = [base EXCEPT ![t] = b] /\ b \in {0} \cup Generations
        /\ position' = [position EXCEPT ![t] = w] /\ w \in Words
        /\ held' = [held EXCEPT ![t] = S] /\ S \in SUBSET Nodes
    BY <1>1, Stores DEF Queue!TakeNode
  <2>2. m \in Nodes \cup {None} /\ Queue!Goto(t, "vacate") /\ "vacate" \in Queue!Places
    BY <1>2 DEF Queue!TakeNode, Queue!Places
  <2> HIDE DEF m, g, b, w, S
  <2>3. /\ LocalTypes' /\ OthersStay(t) /\ at'[t] = "vacate" /\ item'[t] = m /\ held'[t] = S
        /\ gen'[t] = g /\ position'[t] = w
    BY <1>1, <1>3, <2>1, <2>2, Walks
  <2> QED
    BY <2>3 DEF g, w, S
<1>5. /\ ~Pushing(t) /\ Popping(t) /\ ~Pushing(t)' /\ Popping(t)' /\ KeepsClaim(t)
  BY <1>1, <1>4 DEF Pushing, Popping, KeepsClaim
<1>6. CallKnown(t)'
  <2>1. KnownAt("vacate", gen[t], My(t), base'[t], m)
    BY <1>1, <1>2 DEF KnownAt
  <2>2. From(position'[t]) = My(t)
    BY <1>4 DEF My
  <2> QED
    BY <1>2, <1>4, <2>1, <2>2, CallsBecome
<1>7. ASSUME NEW n \in Nodes, NEW u \in Threads
      PROVE  /\ n \in held'[u] <=> n \in held[u]
             /\ InHands(n, u)' <=> InHands(n, u)
  <2>1. CASE u = t
    BY <1>1, <1>2, <1>4, <1>5, <2>1 DEF InHands
  <2>2. CASE u # t
    BY <1>2, <1>4, <2>2, OthersAre, OtherHandsStay, OtherNodesStay
  <2> QED
    BY <2>1, <2>2
<1>8. \A n \in Nodes : \A g \in Generations : \A k \in Nat : InRing(n, g, k)' <=> InRing(n, g, k)
  BY <1>2, <1>4, <1>5, RingSpotsStay
<1>9. NodesKnown'
  BY <1>7, <1>8, NodesStay DEF QueueIInv
<1> QED
  BY <1>1, <1>2, <1>4, <1>5, <1>6, <1>9, QuietStep

-----------------------------------------------------------------------------
(* The steps that change a ring. *)

PushNext(g) == From(enqueue'[g])
PopNext(g) == From(dequeue'[g])
TurnNext(g, k) == From(sequence'[g][CellOf(g, k)])
NodeNext(g, k) == cell'[g][CellOf(g, k)]

LEMMA Nexts ==
  /\ \A g : PushAt(g)' = PushNext(g) /\ PopAt(g)' = PopNext(g)
  /\ \A g, k : Turn(g, k)' = TurnNext(g, k) /\ Node(g, k)' = NodeNext(g, k)
BY DEF PushAt, PopAt, Turn, Node, PushNext, PopNext, TurnNext, NodeNext

\* What is known of a call at place p whose generation has its next push at e and its next
\* pop at d, and whose position has turn r and node c.
KnownWith(p, g, m, b, n, e, d, r, c) ==
    /\ n \in Nodes <=> p \in {"pushHead", "pushLoad", "pushCell", "pushCas", "storeNode",
                              "publish", "create", "publishGeneration", "vacate"}
    /\ p \in {"create", "publishGeneration"} => b + 1 \in Generations
    /\ p \notin {"out", "pushHead", "popHead", "create", "publishGeneration"} => g \in Generations
    /\ p \in {"pushCell", "pushCas"} => m <= e
    /\ p = "pushCas" /\ m = e => r = m
    /\ p \in {"popCell", "popCas"} => m <= d
    /\ p = "popCas" /\ m = d => m < e /\ r = m + 1
    /\ p \in {"storeNode", "publish"} => d <= m /\ m < e /\ r = m
    /\ p = "publish" => c = n
    /\ p \in {"takeNode", "vacate"} => m < d /\ e <= m + Queue!Cap(g) /\ r = m + 1
    /\ p = "takeNode" => c \in Nodes

LEMMA KnownAtIs ==
  ASSUME NEW p, NEW g, NEW m, NEW b, NEW n
  PROVE  KnownAt(p, g, m, b, n) <=>
            KnownWith(p, g, m, b, n, PushAt(g), PopAt(g), Turn(g, m), Node(g, m))
BY DEF KnownAt, KnownWith

LEMMA CallsBecomeWith ==
  ASSUME NEW t \in Threads, NEW g, gen'[t] = g, NEW m, From(position'[t]) = m,
         KnownWith(at'[t], g, m, base'[t], item'[t], PushNext(g), PopNext(g),
                   TurnNext(g, m), NodeNext(g, m))
  PROVE  CallKnown(t)'
BY DEF CallKnown, KnownWith, Pushing, Popping, My, PushAt, PopAt, Turn, Node,
       PushNext, PopNext, TurnNext, NodeNext

\* The generations other than h stay as they are.
OthersSame(h) ==
    \A g \in Generations : g # h =>
       /\ PushNext(g) = PushAt(g) /\ PopNext(g) = PopAt(g)
       /\ \A k \in Words : TurnNext(g, k) = Turn(g, k) /\ NodeNext(g, k) = Node(g, k)

\* A call of another thread is known to be where it is, if it is in generation h.
LEMMA OtherCallsKnown ==
  ASSUME QueueIInv, NEW t \in Threads, OthersStay(t), NEW h \in Generations, OthersSame(h),
         NEW u \in Threads, u # t,
         gen[u] = h => KnownWith(at[u], h, My(u), base[u], item[u], PushNext(h), PopNext(h),
                                 TurnNext(h, My(u)), NodeNext(h, My(u)))
  PROVE  CallKnown(u)'
<1> DEFINE g == gen[u]
<1> DEFINE m == My(u)
<1>1. /\ at'[u] = at[u] /\ item'[u] = item[u] /\ gen'[u] = g /\ base'[u] = base[u]
      /\ From(position'[u]) = m
  BY OthersAre DEF My
<1>2. KnownWith(at[u], g, m, base[u], item[u], PushAt(g), PopAt(g), Turn(g, m), Node(g, m))
  BY KnownNow, KnownAtIs
<1>3. m \in Words
  BY TypesAre DEF QueueIInv
<1>4. KnownWith(at[u], g, m, base[u], item[u], PushNext(g), PopNext(g), TurnNext(g, m),
                NodeNext(g, m))
  <2>1. CASE g = h
    BY <2>1
  <2>2. CASE g # h /\ g \in Generations
    BY <1>2, <1>3, <2>2 DEF OthersSame
  <2>3. CASE g \notin Generations
    BY <1>2, <2>3 DEF KnownWith
  <2> QED
    BY <2>1, <2>2, <2>3
<1> HIDE DEF g, m
<1> QED
  BY <1>1, <1>4, CallsBecomeWith

\* A step changes only generation h: what the other generations satisfy stays.
LEMMA OtherRingsKnown ==
  ASSUME QueueIInv, NEW h \in Generations, OthersSame(h), pushes' >= pushes, pushes' \in Nat,
         NEW g \in Generations, g # h, sequence'[g] = sequence[g]
  PROVE  RingKnown(g)'
<1>1. QueueTypes /\ RingKnown(g) /\ pushes \in Nat
  BY Sizes DEF QueueIInv, QueueTypes
<1>2. PushNext(g) = PushAt(g) /\ PopNext(g) = PopAt(g)
      /\ \A k \in Words : TurnNext(g, k) = Turn(g, k) /\ NodeNext(g, k) = Node(g, k)
  BY DEF OthersSame
<1>3. /\ PopAt(g) \in Nat /\ PushAt(g) \in Nat /\ Queue!Cap(g) \in Nat
      /\ \A k \in Nat : k <= PopAt(g) + Queue!Cap(g) => k \in Words
  BY <1>1, RingBounds
<1>4. PopNext(g) <= PushNext(g) /\ PushNext(g) <= PopNext(g) + Queue!Cap(g) /\ PushNext(g) <= pushes'
  BY <1>1, <1>2, <1>3 DEF RingKnown
<1>5. \A i \in Queue!Cells(g) : From(sequence'[g][i]) < MaxPushes + Queue!Cap(g)
  BY <1>1 DEF RingKnown
<1>6. \A k \in 0..PopNext(g) - 1 : TurnNext(g, k) >= k + 1
  BY <1>1, <1>2, <1>3 DEF RingKnown
<1>7. \A k \in PopNext(g)..PushNext(g) - 1 :
         TurnNext(g, k) = k \/ (TurnNext(g, k) = k + 1 /\ NodeNext(g, k) \in Nodes)
  BY <1>1, <1>2, <1>3 DEF RingKnown
<1>8. \A k \in PushNext(g)..PopNext(g) + Queue!Cap(g) - 1 :
         TurnNext(g, k) = k \/ TurnNext(g, k) + Queue!Cap(g) = k + 1
  BY <1>1, <1>2, <1>3 DEF RingKnown
<1> QED
  BY <1>4, <1>5, <1>6, <1>7, <1>8, Nexts DEF RingKnown, Queue!Cells

\* The nodes in the rings, by the threads that push.
LEMMA RingHolds ==
  ASSUME NEW n, NEW g, NEW k
  PROVE  InRing(n, g, k)' <=>
            /\ PopNext(g) <= k /\ k < PushNext(g)
            /\ \/ TurnNext(g, k) = k + 1 /\ NodeNext(g, k) = n
               \/ \E t \in Threads : /\ Pushing(t)' /\ gen'[t] = g /\ My(t)' = k
                                     /\ item'[t] = n
BY Nexts DEF InRing

LEMMA HandsHold ==
  ASSUME NEW n, NEW t \in Threads, NEW g, gen'[t] = g, NEW m, My(t)' = m
  PROVE  InHands(n, t)' <=>
            \/ item'[t] = n /\ ~(Pushing(t)')
            \/ at'[t] = "takeNode" /\ NodeNext(g, m) = n
BY DEF InHands, Node, NodeNext, My

LEMMA OthersStillClaim ==
  ASSUME NEW t \in Threads, OthersStay(t), NEW u \in Threads, u # t, NEW g, NEW k
  PROVE  /\ Pushing(u)' /\ gen'[u] = g /\ My(u)' = k <=> Pushing(u) /\ gen[u] = g /\ My(u) = k
         /\ Popping(u)' /\ gen'[u] = g /\ My(u)' = k <=> Popping(u) /\ gen[u] = g /\ My(u) = k
BY OthersAre

\* What is left to show of the claims after a step of t in generation h.
LEMMA ClaimsChange ==
  ASSUME QueueIInv, NEW t \in Threads, NEW h \in Generations, OthersStay(t), OthersSame(h),
         gen[t] = h,
         \A u \in Threads \ {t} : Pushing(u) /\ gen[u] = gen'[t] /\ position[u] = position'[t]
            => ~(Pushing(t)'),
         \A u \in Threads \ {t} : Popping(u) /\ gen[u] = gen'[t] /\ position[u] = position'[t]
            => ~(Popping(t)'),
         \A k \in PopNext(h)..PushNext(h) - 1 : TurnNext(h, k) = k => Pusher(h, k)',
         \A k \in PushNext(h)..PopNext(h) + Queue!Cap(h) - 1 :
            TurnNext(h, k) + Queue!Cap(h) = k + 1 => k >= Queue!Cap(h) /\ Popper(h, k - Queue!Cap(h))'
  PROVE  ClaimsHeld'
<1>1. ASSUME NEW v \in Threads, NEW u \in Threads, Same(v, u)', Pushing(v)', Pushing(u)'
      PROVE  v = u
  <2>1. gen'[v] = gen'[u] /\ position'[v] = position'[u]
    BY <1>1 DEF Same
  <2>2. CASE v = t /\ u # t
    BY <1>1, <2>1, <2>2, OthersAre DEF OthersStay
  <2>3. CASE v # t /\ u = t
    BY <1>1, <2>1, <2>3, OthersAre DEF OthersStay
  <2>4. CASE v # t /\ u # t
    <3>1. Pushing(v) /\ Pushing(u) /\ Same(v, u)
      BY <1>1, <2>1, <2>4, OthersAre DEF OthersStay, Same
    <3> QED
      BY <3>1 DEF QueueIInv, ClaimsHeld
  <2> QED
    BY <2>2, <2>3, <2>4
<1>2. ASSUME NEW v \in Threads, NEW u \in Threads, Same(v, u)', Popping(v)', Popping(u)'
      PROVE  v = u
  <2>1. gen'[v] = gen'[u] /\ position'[v] = position'[u]
    BY <1>2 DEF Same
  <2>2. CASE v = t /\ u # t
    BY <1>2, <2>1, <2>2, OthersAre DEF OthersStay
  <2>3. CASE v # t /\ u = t
    BY <1>2, <2>1, <2>3, OthersAre DEF OthersStay
  <2>4. CASE v # t /\ u # t
    <3>1. Popping(v) /\ Popping(u) /\ Same(v, u)
      BY <1>2, <2>1, <2>4, OthersAre DEF OthersStay, Same
    <3> QED
      BY <3>1 DEF QueueIInv, ClaimsHeld
  <2> QED
    BY <2>2, <2>3, <2>4
<1>3. ASSUME NEW g \in Generations, g # h, NEW k
      PROVE  (Pusher(g, k) => Pusher(g, k)') /\ (Popper(g, k) => Popper(g, k)')
  BY <1>3, OthersStillClaim DEF Pusher, Popper
<1>4. ASSUME NEW g \in Generations, g # h
      PROVE  /\ PopNext(g) = PopAt(g) /\ PushNext(g) = PushAt(g) /\ ClaimsHeld
             /\ \A k \in PopAt(g)..PopAt(g) + Queue!Cap(g) - 1 : TurnNext(g, k) = Turn(g, k)
             /\ PopAt(g) \in Nat /\ PushAt(g) \in Nat /\ Queue!Cap(g) \in Nat
             /\ PopAt(g) <= PushAt(g) /\ PushAt(g) <= PopAt(g) + Queue!Cap(g)
  BY <1>4, RingBounds DEF QueueIInv, OthersSame, RingKnown
<1>5. ASSUME NEW g \in Generations, NEW k \in PopNext(g)..PushNext(g) - 1, TurnNext(g, k) = k
      PROVE  Pusher(g, k)'
  <2>1. CASE g # h
    BY <1>3, <1>4, <1>5, <2>1 DEF ClaimsHeld
  <2> QED
    BY <1>5, <2>1
<1>6. ASSUME NEW g \in Generations, NEW k \in PushNext(g)..PopNext(g) + Queue!Cap(g) - 1,
             TurnNext(g, k) + Queue!Cap(g) = k + 1
      PROVE  k >= Queue!Cap(g) /\ Popper(g, k - Queue!Cap(g))'
  <2>1. CASE g # h
    BY <1>3, <1>4, <1>6, <2>1 DEF ClaimsHeld
  <2> QED
    BY <1>6, <2>1
<1> QED
  BY <1>1, <1>2, <1>5, <1>6, Nexts DEF ClaimsHeld, Queue!Cap

\* Nodes in the other generations stay.
LEMMA OtherRingNodes ==
  ASSUME QueueIInv, NEW t \in Threads, NEW h \in Generations, OthersStay(t), OthersSame(h),
         gen[t] = h, Pushing(t)' => gen'[t] = h, NEW g \in Generations, g # h, NEW k \in Nat, NEW n
  PROVE  InRing(n, g, k)' <=> InRing(n, g, k)
<1>1. k < PushAt(g) => k \in Words
  BY RingBounds DEF QueueIInv, RingKnown
<1>2. /\ PopNext(g) = PopAt(g) /\ PushNext(g) = PushAt(g)
      /\ k < PushAt(g) => TurnNext(g, k) = Turn(g, k) /\ NodeNext(g, k) = Node(g, k)
  BY <1>1 DEF OthersSame
<1>3. ASSUME NEW u \in Threads
      PROVE  Pushing(u)' /\ gen'[u] = g /\ My(u)' = k /\ item'[u] = n
             <=> Pushing(u) /\ gen[u] = g /\ My(u) = k /\ item[u] = n
  <2>1. CASE u = t
    BY <2>1
  <2>2. CASE u # t
    BY <2>2, OthersAre
  <2> QED
    BY <2>1, <2>2
<1> QED
  BY <1>2, <1>3, RingHolds DEF InRing

\* The hands of the other threads keep their nodes.
LEMMA OtherHandsKeep ==
  ASSUME QueueIInv, NEW t \in Threads, OthersStay(t), NEW h \in Generations, OthersSame(h),
         NEW u \in Threads, u # t, NEW n,
         Popping(u) /\ gen[u] = h => NodeNext(h, My(u)) = Node(h, My(u))
  PROVE  /\ InHands(n, u)' <=> InHands(n, u)
         /\ n \in held'[u] <=> n \in held[u]
<1>1. at'[u] = at[u] /\ item'[u] = item[u] /\ gen'[u] = gen[u] /\ My(u)' = My(u)
      /\ Pushing(u)' = Pushing(u) /\ held'[u] = held[u]
  BY OthersAre
<1>2. at[u] = "takeNode" => gen[u] \in Generations /\ My(u) \in Words
  BY KnownNow, TypesAre DEF KnownAt
<1>3. at[u] = "takeNode" => NodeNext(gen[u], My(u)) = Node(gen[u], My(u))
  BY <1>2 DEF OthersSame, Popping
<1> QED
  BY <1>1, <1>3, HandsHold DEF InHands

LEMMA CallsIn ==
  ASSUME QueueIInv, NEW h \in Generations, NEW u \in Threads, gen[u] = h
  PROVE  /\ KnownWith(at[u], h, My(u), base[u], item[u], PushAt(h), PopAt(h), Turn(h, My(u)),
                      Node(h, My(u)))
         /\ My(u) \in Words /\ My(u) \in Nat
         /\ Pushing(u) => PopAt(h) <= My(u) /\ My(u) < PushAt(h) /\ Turn(h, My(u)) = My(u)
         /\ Popping(u) => /\ My(u) < PopAt(h) /\ PushAt(h) <= My(u) + Queue!Cap(h)
                          /\ Turn(h, My(u)) = My(u) + 1
<1>1. KnownWith(at[u], h, My(u), base[u], item[u], PushAt(h), PopAt(h), Turn(h, My(u)),
                Node(h, My(u)))
  BY KnownNow, KnownAtIs
<1>2. My(u) \in Words /\ My(u) \in Nat
  BY TypesAre, Sizes DEF QueueIInv, Words
<1> QED
  BY <1>1, <1>2 DEF KnownWith, Pushing, Popping

\* What a ring satisfies, in numbers.
LEMMA RingIs ==
  ASSUME QueueIInv, NEW h \in Generations
  PROVE  /\ QueueTypes
         /\ PopAt(h) \in Nat /\ PushAt(h) \in Nat /\ Queue!Cap(h) \in Nat /\ Queue!Cap(h) >= 2
         /\ PopAt(h) <= PushAt(h) /\ PushAt(h) <= PopAt(h) + Queue!Cap(h) /\ PushAt(h) <= pushes
         /\ pushes \in Nat /\ pushes <= MaxPushes /\ MaxPushes \in Nat
         /\ \A k \in Nat : k <= PopAt(h) + Queue!Cap(h) => k \in Words /\ Turn(h, k) \in Nat
         /\ \A i \in Queue!Cells(h) : From(sequence[h][i]) < MaxPushes + Queue!Cap(h)
         /\ \A k \in 0..PopAt(h) - 1 : Turn(h, k) >= k + 1
         /\ \A k \in PopAt(h)..PushAt(h) - 1 :
               Turn(h, k) = k \/ (Turn(h, k) = k + 1 /\ Node(h, k) \in Nodes)
         /\ \A k \in PushAt(h)..PopAt(h) + Queue!Cap(h) - 1 :
               Turn(h, k) = k \/ Turn(h, k) + Queue!Cap(h) = k + 1
         /\ W \in Nat /\ MaxPushes + Queue!Cap(h) < W
<1>1. QueueTypes /\ RingKnown(h)
  BY DEF QueueIInv
<1>2. pushes \in Nat /\ pushes <= MaxPushes /\ MaxPushes \in Nat
  BY <1>1, Sizes DEF QueueTypes
<1>3. /\ PopAt(h) \in Nat /\ PushAt(h) \in Nat /\ Queue!Cap(h) \in Nat /\ Queue!Cap(h) >= 2
      /\ \A k \in Nat : k <= PopAt(h) + Queue!Cap(h) => k \in Words /\ Turn(h, k) \in Nat
  BY <1>1, RingBounds
<1>4. W \in Nat /\ MaxPushes + Queue!Cap(h) < W
  BY <1>2, <1>3, Sizes, Bounds
<1> QED
  BY <1>1, <1>2, <1>3, <1>4 DEF RingKnown

\* The position to push, when its cell's turn has come, is within the capacity, and no pop
\* is still working on its cell.
LEMMA PushFindsRoom ==
  ASSUME QueueIInv, NEW h \in Generations, Turn(h, PushAt(h)) = PushAt(h)
  PROVE  /\ PushAt(h) < PopAt(h) + Queue!Cap(h)
         /\ \A u \in Threads : Popping(u) /\ gen[u] = h => PushAt(h) # My(u) + Queue!Cap(h)
<1> DEFINE e == PushAt(h)
<1> DEFINE d == PopAt(h)
<1> DEFINE c == Queue!Cap(h)
<1>1. /\ d \in Nat /\ e \in Nat /\ c \in Nat /\ c >= 2 /\ d <= e /\ e <= d + c
      /\ \A k \in Nat : k <= d + c => k \in Words
      /\ \A k \in d..e - 1 : Turn(h, k) = k \/ Turn(h, k) = k + 1
  BY RingIs
<1>2. ASSUME e = d + c
      PROVE  FALSE
  <2>1. CellOf(h, d + c) = CellOf(h, d)
    BY <1>1, CellsRepeat
  <2>2. Turn(h, d) = Turn(h, e)
    BY <1>2, <2>1 DEF Turn
  <2>3. d \in d..e - 1
    BY <1>1, <1>2
  <2>4. Turn(h, d) = d \/ Turn(h, d) = d + 1
    BY <1>1, <2>3
  <2> QED
    BY <1>1, <1>2, <2>2, <2>4
<1>3. ASSUME NEW u \in Threads, Popping(u), gen[u] = h, e = My(u) + c
      PROVE  FALSE
  <2>1. My(u) \in Nat /\ My(u) \in Words /\ Turn(h, My(u)) = My(u) + 1
    BY <1>3, CallsIn
  <2>2. My(u) + c \in Words
    BY <1>1, <1>3
  <2>3. CellOf(h, My(u) + c) = CellOf(h, My(u))
    BY <2>1, <2>2, CellsRepeat
  <2>4. Turn(h, My(u)) = Turn(h, e)
    BY <1>3, <2>3 DEF Turn
  <2> QED
    BY <1>1, <1>3, <2>1, <2>4
<1> QED
  BY <1>1, <1>2, <1>3

LEMMA PushCasClaims ==
  ASSUME QueueIInv, NEW t \in Threads, Queue!PushCas(t), enqueue[gen[t]] = position[t],
         NEW h, gen[t] = h, NEW j, My(t) = j, NEW m, item[t] = m
  PROVE  QueueIInv' /\ Moves
<1>1. KnownAt(at[t], h, j, base[t], m) /\ at[t] = "pushCas" /\ QueueTypes
  BY KnownNow DEF Queue!PushCas
<1>2. h \in Generations /\ m \in Nodes /\ PushAt(h) = j /\ Turn(h, j) = j
  BY <1>1 DEF KnownAt, PushAt, My
<1>3. j < PopAt(h) + Queue!Cap(h)
      /\ \A u \in Threads : Popping(u) /\ gen[u] = h => j # My(u) + Queue!Cap(h)
  BY <1>2, PushFindsRoom
<1>4. /\ PopAt(h) \in Nat /\ j \in Nat /\ j \in Words /\ Queue!Cap(h) \in Nat /\ Queue!Cap(h) >= 2
      /\ PopAt(h) <= j /\ j <= pushes /\ pushes \in Nat /\ MaxPushes \in Nat /\ W \in Nat
      /\ MaxPushes + Queue!Cap(h) < W
  BY <1>2, RingIs
<1>5. pushes < MaxPushes /\ pushes' = pushes + 1
  BY DEF Queue!PushCas
<1>6. /\ enqueue' \in [Generations -> Words]
      /\ \A g \in Generations : PushAt(g)' = IF g = h THEN j + 1 ELSE PushAt(g)
  <2>1. PushAt(h) + 1 < W
    BY <1>2, <1>4, <1>5
  <2>2. enqueue' = [enqueue EXCEPT ![h] = Queue!Plus(@, 1)]
    BY DEF Queue!PushCas
  <2> QED
    BY <1>1, <1>2, <2>1, <2>2, PushAtMoves
<1>7. PushNext(h) = j + 1 /\ \A g \in Generations : g # h => PushNext(g) = PushAt(g)
  <2> QED
    BY <1>2, <1>6, Nexts
<1>8. /\ dequeue' = dequeue /\ sequence' = sequence /\ cell' = cell /\ head' = head
      /\ Queue!Goto(t, "storeNode") /\ position' = position /\ held' = held /\ item' = item
      /\ gen' = gen /\ base' = base
  BY DEF Queue!PushCas
<1>9. \A g : PopNext(g) = PopAt(g) /\ \A k : TurnNext(g, k) = Turn(g, k) /\ NodeNext(g, k) = Node(g, k)
  BY <1>8 DEF PopNext, PopAt, TurnNext, Turn, NodeNext, Node
<1>10. at' \in [Threads -> Queue!Places] /\ at'[t] = "storeNode" /\ OthersStay(t)
  BY <1>1, <1>8, Goes DEF OthersStay, Queue!Places
<1>11. My(t)' = j /\ gen'[t] = h /\ item'[t] = m /\ Pushing(t)' /\ ~(Popping(t)')
       /\ ~Pushing(t) /\ ~Popping(t)
  BY <1>1, <1>8, <1>10 DEF My, Pushing, Popping
<1>12. OthersSame(h)
  BY <1>7, <1>9 DEF OthersSame
<1>13. QueueTypes'
  BY <1>1, <1>4, <1>5, <1>6, <1>8, <1>10 DEF QueueTypes, Queue!Cells, Queue!Cap
<1>14. ASSUME NEW g \in Generations
       PROVE  RingKnown(g)'
  <2>1. CASE g # h
    BY <1>2, <1>4, <1>5, <1>8, <1>12, <2>1, OtherRingsKnown
  <2>2. CASE g = h
    <3>1. /\ PopNext(h) <= PushNext(h) /\ PushNext(h) <= PopNext(h) + Queue!Cap(h)
          /\ PushNext(h) <= pushes'
      BY <1>3, <1>4, <1>5, <1>7, <1>9
    <3>2. \A i \in Queue!Cells(h) : From(sequence'[h][i]) < MaxPushes + Queue!Cap(h)
      BY <1>2, <1>8, RingIs
    <3>3. \A k \in 0..PopNext(h) - 1 : TurnNext(h, k) >= k + 1
      BY <1>2, <1>9, RingIs
    <3>4. \A k \in PopNext(h)..PushNext(h) - 1 :
             TurnNext(h, k) = k \/ (TurnNext(h, k) = k + 1 /\ NodeNext(h, k) \in Nodes)
      BY <1>2, <1>4, <1>7, <1>9, RingIs
    <3>5. \A k \in PushNext(h)..PopNext(h) + Queue!Cap(h) - 1 :
             TurnNext(h, k) = k \/ TurnNext(h, k) + Queue!Cap(h) = k + 1
      BY <1>2, <1>4, <1>7, <1>9, RingIs
    <3> QED
      BY <2>2, <3>1, <3>2, <3>3, <3>4, <3>5, Nexts DEF RingKnown, Queue!Cells
  <2> QED
    BY <2>1, <2>2
<1>15. ASSUME NEW u \in Threads
       PROVE  CallKnown(u)'
  <2>1. CASE u = t
    <3>1. KnownWith("storeNode", h, j, base'[t], m, PushNext(h), PopNext(h), TurnNext(h, j),
                    NodeNext(h, j))
      BY <1>2, <1>4, <1>7, <1>9 DEF KnownWith
    <3>2. From(position'[t]) = j
      BY <1>11 DEF My
    <3> QED
      BY <1>10, <1>11, <2>1, <3>1, <3>2, CallsBecomeWith
  <2>2. CASE u # t
    <3>1. ASSUME gen[u] = h
          PROVE  KnownWith(at[u], h, My(u), base[u], item[u], PushNext(h), PopNext(h),
                           TurnNext(h, My(u)), NodeNext(h, My(u)))
      <4>1. /\ KnownWith(at[u], h, My(u), base[u], item[u], j, PopAt(h), Turn(h, My(u)),
                         Node(h, My(u)))
            /\ My(u) \in Nat
        BY <1>2, <3>1, CallsIn
      <4>2. Popping(u) => j # My(u) + Queue!Cap(h)
        BY <1>3, <3>1
      <4> QED
        BY <1>4, <1>7, <1>9, <4>1, <4>2 DEF KnownWith, Popping
    <3> QED
      BY <1>2, <1>10, <1>12, <2>2, <3>1, OtherCallsKnown
  <2> QED
    BY <2>1, <2>2
<1>16. ClaimsHeld'
  <2>1. \A u \in Threads \ {t} : Pushing(u) /\ gen[u] = gen'[t] /\ position[u] = position'[t]
           => ~(Pushing(t)')
    <3>1. ASSUME NEW u \in Threads, Pushing(u), gen[u] = h, position[u] = position'[t]
          PROVE  FALSE
      <4>1. My(u) = j
        BY <1>11, <3>1 DEF My
      <4>2. My(u) < j
        BY <1>2, <3>1, CallsIn
      <4> QED
        BY <1>4, <4>1, <4>2
    <3> QED
      BY <1>11, <3>1
  <2>2. ASSUME NEW k \in PopNext(h)..PushNext(h) - 1, TurnNext(h, k) = k
        PROVE  Pusher(h, k)'
    <3>1. CASE k = j
      BY <1>11, <3>1 DEF Pusher
    <3>2. CASE k # j
      <4>1. Pusher(h, k)
        BY <1>2, <1>4, <1>7, <1>9, <2>2, <3>2 DEF QueueIInv, ClaimsHeld
      <4> QED
        BY <1>10, <1>11, <4>1, OthersStillClaim DEF Pusher
    <3> QED
      BY <3>1, <3>2
  <2>3. ASSUME NEW k \in PushNext(h)..PopNext(h) + Queue!Cap(h) - 1, TurnNext(h, k) + Queue!Cap(h) = k + 1
        PROVE  k >= Queue!Cap(h) /\ Popper(h, k - Queue!Cap(h))'
    <3>1. k >= Queue!Cap(h) /\ Popper(h, k - Queue!Cap(h))
      BY <1>2, <1>4, <1>7, <1>9, <2>3 DEF QueueIInv, ClaimsHeld
    <3> QED
      BY <1>10, <1>11, <3>1, OthersStillClaim DEF Popper
  <2> QED
    BY <1>2, <1>10, <1>11, <1>12, <2>1, <2>2, <2>3, ClaimsChange
<1>17. /\ NodesKnown'
       /\ \A n \in Nodes : \A g \in Generations : \A k \in Nat :
             InRing(n, g, k)' <=> InRing(n, g, k) \/ (n = m /\ g = h /\ k = j)
  <2>1. ASSUME NEW n \in Nodes, NEW u \in Threads
        PROVE  /\ n \in held'[u] <=> n \in held[u]
               /\ InHands(n, u)' <=> InHands(n, u) /\ ~(n = m /\ u = t)
    <3>1. CASE u = t
      BY <1>1, <1>8, <1>10, <1>11, <3>1 DEF InHands
    <3>2. CASE u # t
      BY <1>2, <1>9, <1>10, <1>12, <3>2, OtherHandsKeep
    <3> QED
      BY <3>1, <3>2
  <2>2. ASSUME NEW n \in Nodes, NEW g \in Generations, NEW k \in Nat
        PROVE  InRing(n, g, k)' <=> InRing(n, g, k) \/ (n = m /\ g = h /\ k = j)
    <3>1. CASE g # h
      BY <1>2, <1>10, <1>11, <1>12, <3>1, OtherRingNodes
    <3>2. CASE g = h
      <4>1. ASSUME NEW u \in Threads
            PROVE  Pushing(u)' /\ gen'[u] = h /\ My(u)' = k /\ item'[u] = n
                   <=> \/ Pushing(u) /\ gen[u] = h /\ My(u) = k /\ item[u] = n
                       \/ u = t /\ k = j /\ n = m
        <5>1. CASE u = t
          BY <1>11, <5>1
        <5>2. CASE u # t
          BY <1>10, <5>2, OthersAre
        <5> QED
          BY <5>1, <5>2
      <4>2. /\ PopNext(h) = PopAt(h) /\ PushNext(h) = j + 1 /\ PushAt(h) = j
            /\ TurnNext(h, k) = Turn(h, k) /\ NodeNext(h, k) = Node(h, k)
        BY <1>2, <1>7, <1>9
      <4>3. InRing(n, h, k) <=>
               /\ PopAt(h) <= k /\ k < j
               /\ \/ Turn(h, k) = k + 1 /\ Node(h, k) = n
                  \/ \E u \in Threads : Pushing(u) /\ gen[u] = h /\ My(u) = k /\ item[u] = n
        BY <4>2 DEF InRing
      <4>4. InRing(n, h, k)' <=>
               /\ PopAt(h) <= k /\ k < j + 1
               /\ \/ Turn(h, k) = k + 1 /\ Node(h, k) = n
                  \/ (\E u \in Threads : Pushing(u) /\ gen[u] = h /\ My(u) = k /\ item[u] = n)
                     \/ (k = j /\ n = m)
        BY <4>1, <4>2, RingHolds
      <4>5. \A u \in Threads : Pushing(u) /\ gen[u] = h => My(u) < j
        BY <1>2, CallsIn
      <4>6. CASE k = j
        BY <1>2, <1>4, <3>2, <4>3, <4>4, <4>5, <4>6
      <4>7. CASE k # j
        BY <1>4, <3>2, <4>3, <4>4, <4>7
      <4> QED
        BY <4>6, <4>7
    <3> QED
      BY <3>1, <3>2
  <2>3. InHands(m, t)
    BY <1>11 DEF InHands
  <2>4. NodesKnown'
    <3>1. NodesKnown /\ m \in Nodes /\ h \in Generations /\ j \in Nat
      BY <1>2, <1>4 DEF QueueIInv
    <3>2. /\ \A n \in Nodes : \A u \in Threads :
                /\ n \in held'[u] <=> n \in held[u]
                /\ InHands(n, u)' <=> InHands(n, u) /\ ~(n = m /\ u = t)
          /\ \A n \in Nodes : \A g \in Generations : \A k \in Nat :
                InRing(n, g, k)' <=> InRing(n, g, k) \/ (n = m /\ g = h /\ k = j)
      BY <2>1, <2>2
    <3> QED
      BY <2>3, <3>1, <3>2, NodeGoesIn
  <2> QED
    BY <2>2, <2>4
<1>18. Puts(h, m)
  BY <1>2, <1>7, <1>9, <1>17, Nexts DEF Puts
<1>19. Moves
  BY <1>2, <1>3, <1>18 DEF Moves
<1> QED
  BY <1>13, <1>14, <1>15, <1>16, <1>17, <1>19 DEF QueueIInv

LEMMA StepPushCas ==
  ASSUME QueueIInv, NEW t \in Threads, Queue!PushCas(t)
  PROVE  QueueIInv' /\ Moves
BY PushCasClaims, StepPushCasFails DEF Moves

\* The cell of a claimed push is the cell of no other claim.
LEMMA PushAlone ==
  ASSUME QueueIInv, NEW h \in Generations, NEW t \in Threads, Pushing(t), gen[t] = h
  PROVE  /\ \A k \in PopAt(h)..PushAt(h) - 1 : k # My(t) => CellOf(h, k) # CellOf(h, My(t))
         /\ \A u \in Threads \ {t} : Pushing(u) /\ gen[u] = h =>
               My(u) # My(t) /\ CellOf(h, My(u)) # CellOf(h, My(t))
         /\ \A u \in Threads : Popping(u) /\ gen[u] = h => CellOf(h, My(u)) # CellOf(h, My(t))
<1> DEFINE j == My(t)
<1>1. /\ PopAt(h) \in Nat /\ PushAt(h) \in Nat /\ Queue!Cap(h) \in Nat /\ Queue!Cap(h) >= 2
      /\ PopAt(h) <= PushAt(h) /\ PushAt(h) <= PopAt(h) + Queue!Cap(h)
      /\ \A k \in Nat : k <= PopAt(h) + Queue!Cap(h) => k \in Words
  BY RingIs
<1>2. j \in Nat /\ j \in Words /\ PopAt(h) <= j /\ j < PushAt(h)
  BY CallsIn
<1>3. ASSUME NEW k \in PopAt(h)..PushAt(h) - 1, k # j
      PROVE  CellOf(h, k) # CellOf(h, j)
  <2>1. k \in Nat /\ k \in Words /\ k < j + Queue!Cap(h) /\ j < k + Queue!Cap(h)
    BY <1>1, <1>2
  <2> HIDE DEF j
  <2> QED
    BY <1>2, <1>3, <2>1, Differ
<1>4. ASSUME NEW u \in Threads \ {t}, Pushing(u), gen[u] = h
      PROVE  My(u) # j /\ CellOf(h, My(u)) # CellOf(h, j)
  <2>1. My(u) \in PopAt(h)..PushAt(h) - 1
    BY <1>1, <1>4, CallsIn
  <2>2. position[u] # position[t]
    BY <1>4 DEF QueueIInv, ClaimsHeld, Same
  <2>3. My(u) # j
    BY <2>2, Apart DEF My, QueueIInv, QueueTypes
  <2> HIDE DEF j
  <2> QED
    BY <1>3, <2>1, <2>3
<1>5. ASSUME NEW u \in Threads, Popping(u), gen[u] = h
      PROVE  CellOf(h, My(u)) # CellOf(h, j)
  <2>1. My(u) \in Nat /\ My(u) \in Words /\ My(u) < PopAt(h) /\ PushAt(h) <= My(u) + Queue!Cap(h)
    BY <1>5, CallsIn
  <2>2. My(u) # j /\ My(u) < j + Queue!Cap(h) /\ j < My(u) + Queue!Cap(h)
    BY <1>1, <1>2, <2>1
  <2> HIDE DEF j
  <2> QED
    BY <1>2, <2>1, <2>2, Differ
<1> QED
  BY <1>3, <1>4, <1>5

LEMMA StoresNode ==
  ASSUME QueueIInv, NEW t \in Threads, Queue!StoreNode(t),
         NEW h, gen[t] = h, NEW j, My(t) = j, NEW m, item[t] = m
  PROVE  QueueIInv' /\ Moves
<1>1. KnownAt(at[t], h, j, base[t], m) /\ at[t] = "storeNode" /\ QueueTypes
  BY KnownNow DEF Queue!StoreNode
<1>2. h \in Generations /\ m \in Nodes /\ PopAt(h) <= j /\ j < PushAt(h) /\ Turn(h, j) = j
      /\ j \in Nat /\ j \in Words
  BY <1>1, TypesAre, Sizes DEF KnownAt, Words
<1>3. /\ PopAt(h) \in Nat /\ PushAt(h) \in Nat /\ Queue!Cap(h) \in Nat /\ pushes \in Nat
      /\ \A k \in Nat : k <= PopAt(h) + Queue!Cap(h) => k \in Words
      /\ PushAt(h) <= PopAt(h) + Queue!Cap(h)
  BY <1>2, RingIs
<1>4. /\ enqueue' = enqueue /\ dequeue' = dequeue /\ sequence' = sequence /\ head' = head
      /\ pushes' = pushes /\ Queue!Goto(t, "publish") /\ position' = position /\ held' = held
      /\ item' = item /\ gen' = gen /\ base' = base
  BY DEF Queue!StoreNode, Queue!locals
<1>5. /\ DOMAIN cell' = Generations
      /\ \A g \in Generations : cell'[g] \in [Queue!Cells(g) -> Nodes \cup {None}]
      /\ \A g \in Generations : \A k \in Words :
            NodeNext(g, k) = IF g = h /\ CellOf(g, k) = CellOf(h, j) THEN m ELSE Node(g, k)
  <2>1. cell' = [cell EXCEPT ![gen[t]][Queue!Index(gen[t], position[t])] = m]
    BY DEF Queue!StoreNode
  <2>2. /\ DOMAIN cell' = Generations
        /\ \A g \in Generations : cell'[g] \in [Queue!Cells(g) -> Nodes \cup {None}]
        /\ \A g \in Generations : \A k \in Words :
              Node(g, k)' = IF g = gen[t] /\ CellOf(g, k) = CellOf(g, My(t)) THEN m
                            ELSE Node(g, k)
    BY <1>1, <1>2, <2>1, NodeMoves
  <2> QED
    BY <2>2, Nexts
<1>6. \A g : /\ PushNext(g) = PushAt(g) /\ PopNext(g) = PopAt(g)
             /\ \A k : TurnNext(g, k) = Turn(g, k)
  BY <1>4 DEF PushNext, PushAt, PopNext, PopAt, TurnNext, Turn
<1>7. at' \in [Threads -> Queue!Places] /\ at'[t] = "publish" /\ OthersStay(t)
  BY <1>1, <1>4, Goes DEF OthersStay, Queue!Places
<1>8. My(t)' = j /\ gen'[t] = h /\ item'[t] = m /\ Pushing(t)' /\ ~(Popping(t)')
      /\ Pushing(t) /\ ~Popping(t) /\ KeepsClaim(t)
  BY <1>1, <1>4, <1>7 DEF My, Pushing, Popping, KeepsClaim
<1>9. OthersSame(h)
  BY <1>5, <1>6 DEF OthersSame
<1>10. QueueTypes'
  BY <1>1, <1>4, <1>5, <1>7 DEF QueueTypes, Queue!Cells, Queue!Cap
<1>11. ASSUME NEW g \in Generations
       PROVE  RingKnown(g)'
  <2>1. CASE g # h
    BY <1>2, <1>3, <1>4, <1>9, <2>1, OtherRingsKnown
  <2>2. CASE g = h
    <3>1. \A k \in PopAt(h)..PushAt(h) - 1 :
             Turn(h, k) = k \/ (Turn(h, k) = k + 1 /\ NodeNext(h, k) \in Nodes)
      BY <1>2, <1>3, <1>5, RingIs
    <3> QED
      BY <1>2, <1>4, <1>6, <2>2, <3>1, Nexts, RingIs DEF RingKnown, Queue!Cells
  <2> QED
    BY <2>1, <2>2
<1>12. ASSUME NEW u \in Threads
       PROVE  CallKnown(u)'
  <2>1. CASE u = t
    <3>1. KnownWith("publish", h, j, base'[t], m, PushNext(h), PopNext(h), TurnNext(h, j),
                    NodeNext(h, j))
      BY <1>2, <1>3, <1>5, <1>6 DEF KnownWith
    <3>2. From(position'[t]) = j
      BY <1>8 DEF My
    <3> QED
      BY <1>7, <1>8, <2>1, <3>1, <3>2, CallsBecomeWith
  <2>2. CASE u # t
    <3>1. ASSUME gen[u] = h
          PROVE  KnownWith(at[u], h, My(u), base[u], item[u], PushNext(h), PopNext(h),
                           TurnNext(h, My(u)), NodeNext(h, My(u)))
      <4>1. /\ KnownWith(at[u], h, My(u), base[u], item[u], PushAt(h), PopAt(h),
                         Turn(h, My(u)), Node(h, My(u)))
            /\ My(u) \in Words
        BY <1>2, <3>1, CallsIn
      <4>2. Pushing(u) \/ Popping(u) => CellOf(h, My(u)) # CellOf(h, j)
        BY <1>2, <1>8, <2>2, <3>1, PushAlone
      <4>3. Pushing(u) \/ Popping(u) => NodeNext(h, My(u)) = Node(h, My(u))
        BY <1>2, <1>5, <4>1, <4>2
      <4> QED
        BY <1>6, <4>1, <4>3 DEF KnownWith, Popping, Pushing
    <3> QED
      BY <1>2, <1>7, <1>9, <2>2, <3>1, OtherCallsKnown
  <2> QED
    BY <2>1, <2>2
<1>13. ClaimsHeld'
  BY <1>6, <1>7, <1>8, Nexts, ClaimsStay DEF QueueIInv
<1>14. /\ NodesKnown'
       /\ \A n \in Nodes : \A g \in Generations : \A k \in Nat :
             InRing(n, g, k)' <=> InRing(n, g, k)
  <2>1. ASSUME NEW n \in Nodes, NEW u \in Threads
        PROVE  /\ n \in held'[u] <=> n \in held[u]
               /\ InHands(n, u)' <=> InHands(n, u)
    <3>1. CASE u = t
      BY <1>1, <1>4, <1>7, <1>8, <3>1 DEF InHands
    <3>2. CASE u # t
      <4>1. Popping(u) /\ gen[u] = h => NodeNext(h, My(u)) = Node(h, My(u))
        BY <1>2, <1>5, <1>8, PushAlone, CallsIn
      <4> QED
        BY <1>2, <1>7, <1>9, <3>2, <4>1, OtherHandsKeep
    <3> QED
      BY <3>1, <3>2
  <2>2. ASSUME NEW n \in Nodes, NEW g \in Generations, NEW k \in Nat
        PROVE  InRing(n, g, k)' <=> InRing(n, g, k)
    <3>1. CASE g # h
      BY <1>2, <1>7, <1>8, <1>9, <3>1, OtherRingNodes
    <3>2. CASE g = h
      <4>1. ASSUME NEW u \in Threads
            PROVE  Pushing(u)' /\ gen'[u] = h /\ My(u)' = k /\ item'[u] = n
                   <=> Pushing(u) /\ gen[u] = h /\ My(u) = k /\ item[u] = n
        <5>1. CASE u = t
          BY <1>8, <5>1
        <5>2. CASE u # t
          BY <1>7, <5>2, OthersAre
        <5> QED
          BY <5>1, <5>2
      <4>2. /\ PopNext(h) = PopAt(h) /\ PushNext(h) = PushAt(h) /\ TurnNext(h, k) = Turn(h, k)
        BY <1>6
      <4>3. ASSUME PopAt(h) <= k, k < PushAt(h), Turn(h, k) = k + 1
            PROVE  NodeNext(h, k) = Node(h, k)
        <5>1. k # j /\ k \in PopAt(h)..PushAt(h) - 1 /\ k \in Words
          BY <1>2, <1>3, <4>3
        <5>2. CellOf(h, k) # CellOf(h, j)
          BY <1>2, <1>8, <5>1, PushAlone
        <5> QED
          BY <1>2, <1>5, <5>1, <5>2
      <4> QED
        BY <3>2, <4>1, <4>2, <4>3, RingHolds DEF InRing
    <3> QED
      BY <3>1, <3>2
  <2>3. NodesKnown'
    BY <2>1, <2>2, NodesStay DEF QueueIInv
  <2> QED
    BY <2>2, <2>3
<1>15. Keeps
  BY <1>6, <1>14, Nexts DEF Keeps
<1> QED
  BY <1>10, <1>11, <1>12, <1>13, <1>14, <1>15 DEF QueueIInv, Moves

LEMMA StepStoreNode ==
  ASSUME QueueIInv, NEW t \in Threads, Queue!StoreNode(t)
  PROVE  QueueIInv' /\ Moves
BY StoresNode

\* The cell of a claimed push is not that of the next position to push, if its turn has come.
LEMMA NextPushApart ==
  ASSUME QueueIInv, NEW h \in Generations, NEW t \in Threads, Pushing(t), gen[t] = h
  PROVE  /\ \A k \in PushAt(h)..PopAt(h) + Queue!Cap(h) - 1 : CellOf(h, k) # CellOf(h, My(t))
         /\ Turn(h, PushAt(h)) = PushAt(h) => CellOf(h, PushAt(h)) # CellOf(h, My(t))
<1> DEFINE j == My(t)
<1>1. /\ PopAt(h) \in Nat /\ PushAt(h) \in Nat /\ Queue!Cap(h) \in Nat /\ Queue!Cap(h) >= 2
      /\ PopAt(h) <= PushAt(h) /\ PushAt(h) <= PopAt(h) + Queue!Cap(h)
      /\ \A k \in Nat : k <= PopAt(h) + Queue!Cap(h) => k \in Words
  BY RingIs
<1>2. j \in Nat /\ j \in Words /\ PopAt(h) <= j /\ j < PushAt(h)
  BY CallsIn
<1>3. ASSUME NEW k \in PushAt(h)..PopAt(h) + Queue!Cap(h) - 1
      PROVE  CellOf(h, k) # CellOf(h, j)
  <2>1. k \in Nat /\ k \in Words /\ k # j /\ k < j + Queue!Cap(h) /\ j < k + Queue!Cap(h)
    BY <1>1, <1>2
  <2> HIDE DEF j
  <2> QED
    BY <1>2, <2>1, Differ
<1>4. Turn(h, PushAt(h)) = PushAt(h) => PushAt(h) \in PushAt(h)..PopAt(h) + Queue!Cap(h) - 1
  BY <1>1, PushFindsRoom
<1> QED
  BY <1>3, <1>4

LEMMA Publishes ==
  ASSUME QueueIInv, NEW t \in Threads, Queue!Publish(t),
         NEW h, gen[t] = h, NEW j, My(t) = j, NEW m, item[t] = m
  PROVE  QueueIInv' /\ Moves
<1>1. KnownAt(at[t], h, j, base[t], m) /\ at[t] = "publish" /\ QueueTypes
  BY KnownNow DEF Queue!Publish
<1>2. h \in Generations /\ m \in Nodes /\ PopAt(h) <= j /\ j < PushAt(h) /\ Turn(h, j) = j
      /\ j \in Nat /\ j \in Words /\ Node(h, j) = m /\ Pushing(t)
  BY <1>1, TypesAre, Sizes DEF KnownAt, Words, Pushing
<1>3. /\ PopAt(h) \in Nat /\ PushAt(h) \in Nat /\ Queue!Cap(h) \in Nat /\ Queue!Cap(h) >= 2 /\ pushes \in Nat
      /\ \A k \in Nat : k <= PopAt(h) + Queue!Cap(h) => k \in Words /\ Turn(h, k) \in Nat
      /\ PushAt(h) <= PopAt(h) + Queue!Cap(h) /\ PushAt(h) <= pushes /\ pushes <= MaxPushes
      /\ MaxPushes + Queue!Cap(h) < W /\ W \in Nat /\ MaxPushes \in Nat
  BY <1>2, RingIs
<1>4. /\ enqueue' = enqueue /\ dequeue' = dequeue /\ cell' = cell /\ head' = head
      /\ pushes' = pushes /\ Queue!Return(t, {})
  BY DEF Queue!Publish
<1>5. /\ LocalTypes' /\ OthersStay(t) /\ at'[t] = "out" /\ item'[t] = None /\ held'[t] = held[t]
  <2>1. {} \in SUBSET Nodes /\ held[t] \cup {} = held[t]
    OBVIOUS
  <2> QED
    BY <1>1, <1>4, <2>1, Returns DEF LocalTypes
<1>6. /\ DOMAIN sequence' = Generations
      /\ \A g \in Generations : sequence'[g] \in [Queue!Cells(g) -> Words]
      /\ \A g \in Generations : \A i \in Queue!Cells(g) :
            From(sequence'[g][i]) = IF g = h /\ i = CellOf(h, j) THEN j + 1
                                    ELSE From(sequence[g][i])
      /\ \A g \in Generations : \A k \in Words :
            TurnNext(g, k) = IF g = h /\ CellOf(g, k) = CellOf(h, j) THEN j + 1 ELSE Turn(g, k)
  <2> DEFINE w == Queue!Plus(position[t], 1)
  <2>1. sequence' = [sequence EXCEPT ![gen[t]][Queue!Index(gen[t], position[t])] = w]
    BY DEF Queue!Publish
  <2>2. w \in Words /\ From(w) = j + 1
    <3>1. position[t] \in Words /\ From(position[t]) = j /\ j + 1 < W
      BY <1>1, <1>2, <1>3 DEF QueueTypes, My
    <3> QED
      BY <3>1, Further
  <2> HIDE DEF w
  <2>3. /\ DOMAIN sequence' = Generations
        /\ \A g \in Generations : sequence'[g] \in [Queue!Cells(g) -> Words]
        /\ \A g \in Generations : \A i \in Queue!Cells(g) :
              sequence'[g][i] = IF g = gen[t] /\ i = CellOf(g, My(t)) THEN w ELSE sequence[g][i]
        /\ \A g \in Generations : \A k \in Words :
              Turn(g, k)' = IF g = gen[t] /\ CellOf(g, k) = CellOf(g, My(t)) THEN From(w)
                            ELSE Turn(g, k)
    BY <1>1, <1>2, <2>1, <2>2, TurnMoves
  <2> QED
    BY <2>2, <2>3, Nexts
<1>7. \A g : /\ PushNext(g) = PushAt(g) /\ PopNext(g) = PopAt(g)
             /\ \A k : NodeNext(g, k) = Node(g, k)
  BY <1>4 DEF PushNext, PushAt, PopNext, PopAt, NodeNext, Node
<1>8. ~(Pushing(t)') /\ ~(Popping(t)') /\ ~Popping(t)
  BY <1>1, <1>5 DEF Pushing, Popping
<1>9. OthersSame(h)
  BY <1>6, <1>7 DEF OthersSame
<1>10. QueueTypes'
  BY <1>1, <1>4, <1>5, <1>6 DEF QueueTypes, LocalTypes, Queue!Cells, Queue!Cap
\* What the turns of the ring become.
<1>11. /\ \A k \in PopAt(h)..PushAt(h) - 1 : k # j => TurnNext(h, k) = Turn(h, k)
       /\ \A k \in PushAt(h)..PopAt(h) + Queue!Cap(h) - 1 : TurnNext(h, k) = Turn(h, k)
       /\ TurnNext(h, j) = j + 1
       /\ \A k \in 0..PopAt(h) - 1 : TurnNext(h, k) >= k + 1
  <2>1. \A k \in PopAt(h)..PushAt(h) - 1 : k # j => TurnNext(h, k) = Turn(h, k)
    BY <1>2, <1>3, <1>6, PushAlone
  <2>2. \A k \in PushAt(h)..PopAt(h) + Queue!Cap(h) - 1 : TurnNext(h, k) = Turn(h, k)
    BY <1>2, <1>3, <1>6, NextPushApart
  <2>3. TurnNext(h, j) = j + 1
    BY <1>2, <1>6
  <2>4. ASSUME NEW k \in 0..PopAt(h) - 1
        PROVE  TurnNext(h, k) >= k + 1
    <3>1. Turn(h, k) >= k + 1 /\ k \in Words /\ k < j
      BY <1>2, <1>3, RingIs
    <3> QED
      BY <1>2, <1>6, <3>1
  <2> QED
    BY <2>1, <2>2, <2>3, <2>4
<1>12. ASSUME NEW g \in Generations
       PROVE  RingKnown(g)'
  <2>1. CASE g # h
    <3>1. sequence'[g] = sequence[g]
      BY <2>1 DEF Queue!Publish
    <3> QED
      BY <1>2, <1>3, <1>4, <1>9, <2>1, <3>1, OtherRingsKnown
  <2>2. CASE g = h
    <3>1. \A k \in PopAt(h)..PushAt(h) - 1 :
             TurnNext(h, k) = k \/ (TurnNext(h, k) = k + 1 /\ Node(h, k) \in Nodes)
      BY <1>2, <1>11, RingIs
    <3>2. \A k \in PushAt(h)..PopAt(h) + Queue!Cap(h) - 1 :
             TurnNext(h, k) = k \/ TurnNext(h, k) + Queue!Cap(h) = k + 1
      BY <1>2, <1>11, RingIs
    <3>3. \A i \in Queue!Cells(h) : From(sequence'[h][i]) < MaxPushes + Queue!Cap(h)
      BY <1>2, <1>3, <1>6, RingIs
    <3>4. PopAt(h) <= PushAt(h)
      BY <1>2, RingIs
    <3> QED
      BY <1>3, <1>4, <1>7, <1>11, <2>2, <3>1, <3>2, <3>3, <3>4, Nexts DEF RingKnown, Queue!Cells
  <2> QED
    BY <2>1, <2>2
<1>13. ASSUME NEW u \in Threads
       PROVE  CallKnown(u)'
  <2>1. CASE u = t
    <3>1. None \notin Nodes
      BY QueueAssumption DEF Queue!QueueSizes
    <3> QED
      BY <1>5, <2>1, <3>1 DEF CallKnown, Pushing, Popping
  <2>2. CASE u # t
    <3>1. ASSUME gen[u] = h
          PROVE  KnownWith(at[u], h, My(u), base[u], item[u], PushNext(h), PopNext(h),
                           TurnNext(h, My(u)), NodeNext(h, My(u)))
      <4>1. /\ KnownWith(at[u], h, My(u), base[u], item[u], PushAt(h), PopAt(h),
                         Turn(h, My(u)), Node(h, My(u)))
            /\ My(u) \in Words
        BY <1>2, <3>1, CallsIn
      <4>2. Pushing(u) \/ Popping(u) => TurnNext(h, My(u)) = Turn(h, My(u))
        BY <1>2, <1>6, <2>2, <3>1, <4>1, PushAlone
      <4>3. at[u] = "pushCas" /\ My(u) = PushAt(h) => TurnNext(h, My(u)) = Turn(h, My(u))
        <5>1. ASSUME at[u] = "pushCas", My(u) = PushAt(h)
              PROVE  CellOf(h, My(u)) # CellOf(h, j)
          <6>1. Turn(h, PushAt(h)) = PushAt(h)
            BY <4>1, <5>1 DEF KnownWith
          <6> QED
            BY <1>2, <5>1, <6>1, NextPushApart
        <5> QED
          BY <1>6, <1>2, <4>1, <5>1
      <4>4. at[u] = "popCas" /\ My(u) = PopAt(h) => TurnNext(h, My(u)) = Turn(h, My(u))
        <5>1. ASSUME at[u] = "popCas", My(u) = PopAt(h)
              PROVE  TurnNext(h, My(u)) = Turn(h, My(u))
          <6>1. Turn(h, My(u)) = My(u) + 1 /\ My(u) < PushAt(h)
            BY <4>1, <5>1 DEF KnownWith
          <6>2. My(u) # j
            BY <1>2, <6>1
          <6> QED
            BY <1>3, <1>11, <5>1, <6>1, <6>2
        <5> QED
          BY <5>1
      <4> QED
        BY <1>7, <4>1, <4>2, <4>3, <4>4 DEF KnownWith, Popping, Pushing
    <3> QED
      BY <1>2, <1>5, <1>9, <2>2, <3>1, OtherCallsKnown
  <2> QED
    BY <2>1, <2>2
<1>14. ClaimsHeld'
  <2>1. ASSUME NEW k \in PopNext(h)..PushNext(h) - 1, TurnNext(h, k) = k
        PROVE  Pusher(h, k)'
    <3>1. k # j /\ k \in PopAt(h)..PushAt(h) - 1 /\ Turn(h, k) = k
      BY <1>2, <1>7, <1>11, <2>1
    <3>2. Pusher(h, k)
      BY <1>2, <3>1 DEF QueueIInv, ClaimsHeld
    <3>3. PICK u \in Threads : Pushing(u) /\ gen[u] = h /\ My(u) = k
      BY <3>2 DEF Pusher
    <3> QED
      BY <1>5, <3>1, <3>3, OthersAre DEF Pusher
  <2>2. ASSUME NEW k \in PushNext(h)..PopNext(h) + Queue!Cap(h) - 1, TurnNext(h, k) + Queue!Cap(h) = k + 1
        PROVE  k >= Queue!Cap(h) /\ Popper(h, k - Queue!Cap(h))'
    <3>1. k >= Queue!Cap(h) /\ Popper(h, k - Queue!Cap(h))
      BY <1>2, <1>7, <1>11, <2>2 DEF QueueIInv, ClaimsHeld
    <3>2. PICK u \in Threads : Popping(u) /\ gen[u] = h /\ My(u) = k - Queue!Cap(h)
      BY <3>1 DEF Popper
    <3>3. u # t
      BY <1>8, <3>2
    <3> QED
      BY <1>5, <3>1, <3>2, <3>3, OthersAre DEF Popper
  <2> QED
    BY <1>2, <1>5, <1>8, <1>9, <2>1, <2>2, ClaimsChange
<1>15. /\ NodesKnown'
       /\ \A n \in Nodes : \A g \in Generations : \A k \in Nat :
             InRing(n, g, k)' <=> InRing(n, g, k)
  <2>1. ASSUME NEW n \in Nodes, NEW u \in Threads
        PROVE  /\ n \in held'[u] <=> n \in held[u]
               /\ InHands(n, u)' <=> InHands(n, u)
    <3>1. CASE u = t
      <4>1. None \notin Nodes
        BY QueueAssumption DEF Queue!QueueSizes
      <4> QED
        BY <1>1, <1>2, <1>5, <3>1, <4>1 DEF InHands
    <3>2. CASE u # t
      BY <1>2, <1>5, <1>7, <1>9, <3>2, OtherHandsKeep
    <3> QED
      BY <3>1, <3>2
  <2>2. ASSUME NEW n \in Nodes, NEW g \in Generations, NEW k \in Nat
        PROVE  InRing(n, g, k)' <=> InRing(n, g, k)
    <3>1. CASE g # h
      BY <1>2, <1>5, <1>8, <1>9, <3>1, OtherRingNodes
    <3>2. CASE g = h
      <4>1. ASSUME NEW u \in Threads
            PROVE  Pushing(u)' /\ gen'[u] = h /\ My(u)' = k /\ item'[u] = n
                   <=> u # t /\ Pushing(u) /\ gen[u] = h /\ My(u) = k /\ item[u] = n
        <5>1. CASE u = t
          BY <1>8, <5>1
        <5>2. CASE u # t
          BY <1>5, <5>2, OthersAre
        <5> QED
          BY <5>1, <5>2
      <4>2. /\ PopNext(h) = PopAt(h) /\ PushNext(h) = PushAt(h) /\ NodeNext(h, k) = Node(h, k)
        BY <1>7
      <4>3. CASE k = j
        <5>1. \A u \in Threads \ {t} : Pushing(u) /\ gen[u] = h => My(u) # j
          BY <1>2, PushAlone
        <5>2. InRing(n, h, k) <=> n = m
          BY <1>2, <1>3, <4>3, <5>1 DEF InRing
        <5>3. InRing(n, h, k)' <=> n = m
          BY <1>2, <1>3, <1>11, <4>1, <4>2, <4>3, <5>1, RingHolds
        <5> QED
          BY <3>2, <5>2, <5>3
      <4>4. CASE k # j
        <5>1. PopAt(h) <= k /\ k < PushAt(h) => TurnNext(h, k) = Turn(h, k)
          BY <1>3, <1>11, <4>4
        <5>2. ASSUME NEW u \in Threads
              PROVE  Pushing(u)' /\ gen'[u] = h /\ My(u)' = k /\ item'[u] = n
                     <=> Pushing(u) /\ gen[u] = h /\ My(u) = k /\ item[u] = n
          BY <4>1, <4>4
        <5> QED
          BY <3>2, <4>2, <5>1, <5>2, RingHolds DEF InRing
      <4> QED
        BY <4>3, <4>4
    <3> QED
      BY <3>1, <3>2
  <2>3. NodesKnown'
    BY <2>1, <2>2, NodesStay DEF QueueIInv
  <2> QED
    BY <2>2, <2>3
<1>16. Keeps
  BY <1>7, <1>15, Nexts DEF Keeps
<1> QED
  BY <1>10, <1>12, <1>13, <1>14, <1>15, <1>16 DEF QueueIInv, Moves

LEMMA StepPublish ==
  ASSUME QueueIInv, NEW t \in Threads, Queue!Publish(t)
  PROVE  QueueIInv' /\ Moves
BY Publishes

LEMMA PopCasClaims ==
  ASSUME QueueIInv, NEW t \in Threads, Queue!PopCas(t), dequeue[gen[t]] = position[t],
         NEW h, gen[t] = h, NEW j, My(t) = j, NEW m, Node(h, j) = m
  PROVE  QueueIInv' /\ Moves
<1>1. KnownAt(at[t], h, j, base[t], item[t]) /\ at[t] = "popCas" /\ QueueTypes
  BY KnownNow DEF Queue!PopCas
<1>2. h \in Generations /\ item[t] \notin Nodes /\ PopAt(h) = j /\ j < PushAt(h)
      /\ Turn(h, j) = j + 1
  BY <1>1 DEF KnownAt, PopAt, My
<1>3. /\ j \in Nat /\ j \in Words /\ PushAt(h) \in Nat /\ Queue!Cap(h) \in Nat /\ Queue!Cap(h) >= 2
      /\ PushAt(h) <= j + Queue!Cap(h) /\ PushAt(h) <= pushes /\ pushes \in Nat /\ pushes <= MaxPushes
      /\ MaxPushes \in Nat /\ W \in Nat /\ MaxPushes + Queue!Cap(h) < W
      /\ \A k \in Nat : k <= j + Queue!Cap(h) => k \in Words /\ Turn(h, k) \in Nat
  BY <1>2, RingIs
<1>4. m \in Nodes
  <2>1. j \in PopAt(h)..PushAt(h) - 1
    BY <1>2, <1>3
  <2>2. Turn(h, j) = j \/ (Turn(h, j) = j + 1 /\ Node(h, j) \in Nodes)
    BY <1>2, <2>1, RingIs
  <2> QED
    BY <1>2, <1>3, <2>2
<1>5. /\ dequeue' \in [Generations -> Words]
      /\ \A g \in Generations : PopAt(g)' = IF g = h THEN j + 1 ELSE PopAt(g)
  <2>1. PopAt(h) + 1 < W
    BY <1>2, <1>3
  <2>2. dequeue' = [dequeue EXCEPT ![h] = Queue!Plus(@, 1)]
    BY DEF Queue!PopCas
  <2> QED
    BY <1>1, <1>2, <2>1, <2>2, PopAtMoves
<1>6. PopNext(h) = j + 1 /\ \A g \in Generations : g # h => PopNext(g) = PopAt(g)
  BY <1>2, <1>5, Nexts
<1>7. /\ enqueue' = enqueue /\ sequence' = sequence /\ cell' = cell /\ head' = head
      /\ Queue!Goto(t, "takeNode") /\ position' = position /\ held' = held /\ item' = item
      /\ gen' = gen /\ base' = base /\ pushes' = pushes
  BY DEF Queue!PopCas
<1>8. \A g : PushNext(g) = PushAt(g) /\ \A k : TurnNext(g, k) = Turn(g, k) /\ NodeNext(g, k) = Node(g, k)
  BY <1>7 DEF PushNext, PushAt, TurnNext, Turn, NodeNext, Node
<1>9. at' \in [Threads -> Queue!Places] /\ at'[t] = "takeNode" /\ OthersStay(t)
  BY <1>1, <1>7, Goes DEF OthersStay, Queue!Places
<1>10. My(t)' = j /\ gen'[t] = h /\ item'[t] = item[t] /\ Popping(t)' /\ ~(Pushing(t)')
       /\ ~Pushing(t) /\ ~Popping(t)
  BY <1>1, <1>7, <1>9 DEF My, Pushing, Popping
<1>11. OthersSame(h)
  BY <1>6, <1>8 DEF OthersSame
<1>12. QueueTypes'
  BY <1>1, <1>5, <1>7, <1>9 DEF QueueTypes, Queue!Cells, Queue!Cap
\* The cell of j is the one at the end of the window, to be pushed when t has left it.
<1>13. Turn(h, j + Queue!Cap(h)) = j + 1
  BY <1>2, <1>3, CellsRepeat DEF Turn
<1>14. ASSUME NEW g \in Generations
       PROVE  RingKnown(g)'
  <2>1. CASE g # h
    BY <1>2, <1>3, <1>7, <1>11, <2>1, OtherRingsKnown
  <2>2. CASE g = h
    <3>1. /\ PopNext(h) <= PushNext(h) /\ PushNext(h) <= PopNext(h) + Queue!Cap(h)
          /\ PushNext(h) <= pushes'
      BY <1>2, <1>3, <1>6, <1>7, <1>8
    <3>2. \A i \in Queue!Cells(h) : From(sequence'[h][i]) < MaxPushes + Queue!Cap(h)
      BY <1>2, <1>7, RingIs
    <3>3. ASSUME NEW k \in 0..PopNext(h) - 1
          PROVE  TurnNext(h, k) >= k + 1
      <4>1. CASE k = j
        BY <1>2, <1>3, <1>8, <4>1
      <4>2. CASE k # j
        <5>1. k \in 0..PopAt(h) - 1
          BY <1>2, <1>3, <1>6, <4>2
        <5> QED
          BY <1>2, <1>8, <5>1, RingIs
      <4> QED
        BY <4>1, <4>2
    <3>4. \A k \in PopNext(h)..PushNext(h) - 1 :
             TurnNext(h, k) = k \/ (TurnNext(h, k) = k + 1 /\ NodeNext(h, k) \in Nodes)
      BY <1>2, <1>3, <1>6, <1>8, RingIs
    <3>5. ASSUME NEW k \in PushNext(h)..PopNext(h) + Queue!Cap(h) - 1
          PROVE  TurnNext(h, k) = k \/ TurnNext(h, k) + Queue!Cap(h) = k + 1
      <4>1. CASE k = j + Queue!Cap(h)
        BY <1>3, <1>8, <1>13, <4>1
      <4>2. CASE k # j + Queue!Cap(h)
        <5>1. k \in PushAt(h)..PopAt(h) + Queue!Cap(h) - 1
          BY <1>2, <1>3, <1>6, <1>8, <4>2
        <5> QED
          BY <1>2, <1>8, <5>1, RingIs
      <4> QED
        BY <4>1, <4>2
    <3> QED
      BY <2>2, <3>1, <3>2, <3>3, <3>4, <3>5, Nexts DEF RingKnown, Queue!Cells
  <2> QED
    BY <2>1, <2>2
<1>15. ASSUME NEW u \in Threads
       PROVE  CallKnown(u)'
  <2>1. CASE u = t
    <3>1. KnownWith("takeNode", h, j, base'[t], item[t], PushNext(h), PopNext(h),
                    TurnNext(h, j), NodeNext(h, j))
      BY <1>2, <1>3, <1>4, <1>6, <1>8 DEF KnownWith
    <3>2. From(position'[t]) = j
      BY <1>10 DEF My
    <3> QED
      BY <1>9, <1>10, <2>1, <3>1, <3>2, CallsBecomeWith
  <2>2. CASE u # t
    <3>1. ASSUME gen[u] = h
          PROVE  KnownWith(at[u], h, My(u), base[u], item[u], PushNext(h), PopNext(h),
                           TurnNext(h, My(u)), NodeNext(h, My(u)))
      <4>1. /\ KnownWith(at[u], h, My(u), base[u], item[u], PushAt(h), j, Turn(h, My(u)),
                         Node(h, My(u)))
            /\ My(u) \in Nat
        BY <1>2, <3>1, CallsIn
      <4>2. Pushing(u) => My(u) # j
        BY <1>2, <1>3, <3>1, CallsIn
      <4> QED
        BY <1>3, <1>6, <1>8, <4>1, <4>2 DEF KnownWith, Pushing
    <3> QED
      BY <1>2, <1>9, <1>11, <2>2, <3>1, OtherCallsKnown
  <2> QED
    BY <2>1, <2>2
<1>16. ClaimsHeld'
  <2>1. \A u \in Threads \ {t} : Popping(u) /\ gen[u] = gen'[t] /\ position[u] = position'[t]
           => ~(Popping(t)')
    <3>1. ASSUME NEW u \in Threads, Popping(u), gen[u] = h, position[u] = position'[t]
          PROVE  FALSE
      <4>1. My(u) = j
        BY <1>10, <3>1 DEF My
      <4>2. My(u) < j
        BY <1>2, <3>1, CallsIn
      <4> QED
        BY <1>3, <4>1, <4>2
    <3> QED
      BY <1>10, <3>1
  <2>2. ASSUME NEW k \in PopNext(h)..PushNext(h) - 1, TurnNext(h, k) = k
        PROVE  Pusher(h, k)'
    <3>1. Pusher(h, k)
      BY <1>2, <1>3, <1>6, <1>8, <2>2 DEF QueueIInv, ClaimsHeld
    <3> QED
      BY <1>9, <1>10, <3>1, OthersStillClaim DEF Pusher
  <2>3. ASSUME NEW k \in PushNext(h)..PopNext(h) + Queue!Cap(h) - 1, TurnNext(h, k) + Queue!Cap(h) = k + 1
        PROVE  k >= Queue!Cap(h) /\ Popper(h, k - Queue!Cap(h))'
    <3>1. CASE k = j + Queue!Cap(h)
      <4>1. k >= Queue!Cap(h) /\ k - Queue!Cap(h) = j
        BY <1>3, <3>1
      <4>2. Popper(h, j)'
        BY <1>10 DEF Popper
      <4> QED
        BY <4>1, <4>2
    <3>2. CASE k # j + Queue!Cap(h)
      <4>1. k \in PushAt(h)..PopAt(h) + Queue!Cap(h) - 1
        BY <1>2, <1>3, <1>6, <1>8, <3>2
      <4>2. k >= Queue!Cap(h) /\ Popper(h, k - Queue!Cap(h))
        BY <1>2, <1>8, <2>3, <4>1 DEF QueueIInv, ClaimsHeld
      <4> QED
        BY <1>9, <1>10, <4>2, OthersStillClaim DEF Popper
    <3> QED
      BY <3>1, <3>2
  <2> QED
    BY <1>2, <1>9, <1>10, <1>11, <2>1, <2>2, <2>3, ClaimsChange
<1>17. /\ NodesKnown'
       /\ \A n \in Nodes : \A g \in Generations : \A k \in Nat :
             InRing(n, g, k)' <=> InRing(n, g, k) /\ ~(g = h /\ k = j)
  <2>1. ASSUME NEW n \in Nodes, NEW u \in Threads
        PROVE  /\ n \in held'[u] <=> n \in held[u]
               /\ InHands(n, u)' <=> InHands(n, u) \/ (n = m /\ u = t)
    <3>1. CASE u = t
      <4>1. InHands(n, t)' <=> item'[t] = n \/ NodeNext(h, j) = n
        BY <1>9, <1>10, HandsHold
      <4> QED
        BY <1>1, <1>2, <1>7, <1>8, <1>10, <3>1, <4>1 DEF InHands
    <3>2. CASE u # t
      BY <1>2, <1>8, <1>9, <1>11, <3>2, OtherHandsKeep
    <3> QED
      BY <3>1, <3>2
  <2>2. \A u \in Threads : Pushing(u) /\ gen[u] = h => My(u) # j
    BY <1>2, <1>3, CallsIn
  <2>3. \A n : InRing(n, h, j) <=> n = m
    BY <1>2, <1>3, <2>2 DEF InRing
  <2>4. ASSUME NEW n \in Nodes, NEW g \in Generations, NEW k \in Nat
        PROVE  InRing(n, g, k)' <=> InRing(n, g, k) /\ ~(n = m /\ g = h /\ k = j)
    <3>1. CASE g # h
      BY <1>2, <1>9, <1>10, <1>11, <3>1, OtherRingNodes
    <3>2. CASE g = h
      <4>1. ASSUME NEW u \in Threads
            PROVE  Pushing(u)' /\ gen'[u] = h /\ My(u)' = k /\ item'[u] = n
                   <=> Pushing(u) /\ gen[u] = h /\ My(u) = k /\ item[u] = n
        <5>1. CASE u = t
          BY <1>10, <5>1
        <5>2. CASE u # t
          BY <1>9, <5>2, OthersAre
        <5> QED
          BY <5>1, <5>2
      <4>2. /\ PopNext(h) = j + 1 /\ PopAt(h) = j /\ PushNext(h) = PushAt(h)
            /\ TurnNext(h, k) = Turn(h, k) /\ NodeNext(h, k) = Node(h, k)
        BY <1>2, <1>6, <1>8
      <4>3. InRing(n, h, k) <=>
               /\ j <= k /\ k < PushAt(h)
               /\ \/ Turn(h, k) = k + 1 /\ Node(h, k) = n
                  \/ \E u \in Threads : Pushing(u) /\ gen[u] = h /\ My(u) = k /\ item[u] = n
        BY <4>2 DEF InRing
      <4>4. InRing(n, h, k)' <=>
               /\ j + 1 <= k /\ k < PushAt(h)
               /\ \/ Turn(h, k) = k + 1 /\ Node(h, k) = n
                  \/ \E u \in Threads : Pushing(u) /\ gen[u] = h /\ My(u) = k /\ item[u] = n
        BY <4>1, <4>2, RingHolds
      <4>5. CASE k = j
        BY <1>3, <2>3, <3>2, <4>4, <4>5
      <4>6. CASE k # j
        BY <1>3, <3>2, <4>3, <4>4, <4>6
      <4> QED
        BY <4>5, <4>6
    <3> QED
      BY <3>1, <3>2
  <2>5. NodesKnown'
    BY <1>2, <1>3, <1>4, <2>1, <2>3, <2>4, NodeComesOut DEF QueueIInv
  <2> QED
    BY <2>3, <2>4, <2>5
<1>18. Takes(h)
  BY <1>2, <1>6, <1>8, <1>17, Nexts DEF Takes
<1>19. Moves
  BY <1>2, <1>18 DEF Moves
<1> QED
  BY <1>12, <1>14, <1>15, <1>16, <1>17, <1>19 DEF QueueIInv

LEMMA StepPopCas ==
  ASSUME QueueIInv, NEW t \in Threads, Queue!PopCas(t)
  PROVE  QueueIInv' /\ Moves
BY PopCasClaims, StepPopCasFails DEF Moves

\* The cell of a claimed pop is no cell of the claimed positions, and the next but one
\* position that uses it is past its capacity.
LEMMA PopAlone ==
  ASSUME QueueIInv, NEW h \in Generations, NEW t \in Threads, Popping(t), gen[t] = h
  PROVE  /\ \A k \in PopAt(h)..PushAt(h) - 1 : CellOf(h, k) # CellOf(h, My(t))
         /\ \A k \in PushAt(h)..PopAt(h) + Queue!Cap(h) - 1 : k # My(t) + Queue!Cap(h) =>
               CellOf(h, k) # CellOf(h, My(t))
         /\ \A u \in Threads \ {t} : Popping(u) /\ gen[u] = h =>
               My(u) # My(t) /\ CellOf(h, My(u)) # CellOf(h, My(t))
         /\ Turn(h, PushAt(h)) = PushAt(h) => CellOf(h, PushAt(h)) # CellOf(h, My(t))
<1> DEFINE j == My(t)
<1>1. /\ PopAt(h) \in Nat /\ PushAt(h) \in Nat /\ Queue!Cap(h) \in Nat /\ Queue!Cap(h) >= 2
      /\ PopAt(h) <= PushAt(h) /\ PushAt(h) <= PopAt(h) + Queue!Cap(h)
      /\ \A k \in Nat : k <= PopAt(h) + Queue!Cap(h) => k \in Words
  BY RingIs
<1>2. j \in Nat /\ j \in Words /\ j < PopAt(h) /\ PushAt(h) <= j + Queue!Cap(h)
  BY CallsIn
<1>3. ASSUME NEW k \in PopAt(h)..PushAt(h) - 1
      PROVE  CellOf(h, k) # CellOf(h, j)
  <2>1. k \in Nat /\ k \in Words /\ k # j /\ k < j + Queue!Cap(h) /\ j < k + Queue!Cap(h)
    BY <1>1, <1>2
  <2> HIDE DEF j
  <2> QED
    BY <1>2, <2>1, Differ
<1>4. ASSUME NEW k \in PushAt(h)..PopAt(h) + Queue!Cap(h) - 1, k # j + Queue!Cap(h)
      PROVE  CellOf(h, k) # CellOf(h, j)
  <2>1. k \in Nat /\ k \in Words
    BY <1>1
  <2>2. CASE k < j + Queue!Cap(h)
    <3>1. k # j /\ j < k + Queue!Cap(h)
      BY <1>1, <1>2
    <3> HIDE DEF j
    <3> QED
      BY <1>2, <2>1, <2>2, <3>1, Differ
  <2>3. CASE k > j + Queue!Cap(h)
    <3> DEFINE i == j + Queue!Cap(h)
    <3>1. i \in Nat /\ i \in Words /\ k # i /\ i < k + Queue!Cap(h) /\ k < i + Queue!Cap(h)
      BY <1>1, <1>2, <2>1, <2>3
    <3>2. CellOf(h, i) = CellOf(h, j)
      BY <1>2, <3>1, CellsRepeat
    <3>3. CellOf(h, k) # CellOf(h, i)
      <4> HIDE DEF i
      <4> QED
        BY <2>1, <3>1, Differ
    <3> QED
      BY <3>2, <3>3
  <2> QED
    BY <1>1, <1>2, <1>4, <2>1, <2>2, <2>3
<1>5. ASSUME NEW u \in Threads \ {t}, Popping(u), gen[u] = h
      PROVE  My(u) # j /\ CellOf(h, My(u)) # CellOf(h, j)
  <2> DEFINE k == My(u)
  <2>1. k \in Nat /\ k \in Words /\ k < PopAt(h) /\ PushAt(h) <= k + Queue!Cap(h)
    BY <1>5, CallsIn
  <2>2. position[u] # position[t]
    BY <1>5 DEF QueueIInv, ClaimsHeld, Same
  <2>3. k # j
    BY <2>2, Apart DEF My, QueueIInv, QueueTypes
  <2>4. k < j + Queue!Cap(h) /\ j < k + Queue!Cap(h)
    BY <1>1, <1>2, <2>1
  <2>5. CellOf(h, k) # CellOf(h, j)
    <3> HIDE DEF j, k
    <3> QED
      BY <1>2, <2>1, <2>3, <2>4, Differ
  <2> QED
    BY <2>3, <2>5
<1>6. ASSUME Turn(h, PushAt(h)) = PushAt(h)
      PROVE  CellOf(h, PushAt(h)) # CellOf(h, j)
  <2>1. PushAt(h) \in PushAt(h)..PopAt(h) + Queue!Cap(h) - 1 /\ PushAt(h) # j + Queue!Cap(h)
    BY <1>1, <1>6, PushFindsRoom
  <2> QED
    BY <1>4, <2>1
<1> QED
  BY <1>3, <1>4, <1>5, <1>6

LEMMA Vacates ==
  ASSUME QueueIInv, NEW t \in Threads, Queue!Vacate(t),
         NEW h, gen[t] = h, NEW j, My(t) = j, NEW m, item[t] = m
  PROVE  QueueIInv' /\ Moves
<1>1. KnownAt(at[t], h, j, base[t], m) /\ at[t] = "vacate" /\ QueueTypes
  BY KnownNow DEF Queue!Vacate
<1>2. h \in Generations /\ m \in Nodes /\ j < PopAt(h) /\ PushAt(h) <= j + Queue!Cap(h)
      /\ Turn(h, j) = j + 1 /\ j \in Nat /\ j \in Words /\ Popping(t)
  BY <1>1, TypesAre, Sizes DEF KnownAt, Words, Popping
<1>3. /\ PopAt(h) \in Nat /\ PushAt(h) \in Nat /\ Queue!Cap(h) \in Nat /\ Queue!Cap(h) >= 2 /\ pushes \in Nat
      /\ \A k \in Nat : k <= PopAt(h) + Queue!Cap(h) => k \in Words /\ Turn(h, k) \in Nat
      /\ PopAt(h) <= PushAt(h) /\ PushAt(h) <= PopAt(h) + Queue!Cap(h)
      /\ PushAt(h) <= pushes /\ pushes <= MaxPushes
      /\ MaxPushes + Queue!Cap(h) < W /\ W \in Nat /\ MaxPushes \in Nat
  BY <1>2, RingIs
<1>4. /\ enqueue' = enqueue /\ dequeue' = dequeue /\ cell' = cell /\ head' = head
      /\ pushes' = pushes /\ Queue!Return(t, {m})
  BY DEF Queue!Vacate
<1>5. /\ LocalTypes' /\ OthersStay(t) /\ at'[t] = "out" /\ item'[t] = None
      /\ held'[t] = held[t] \cup {m}
  <2>1. {m} \in SUBSET Nodes
    BY <1>2
  <2> QED
    BY <1>1, <1>4, <2>1, Returns DEF LocalTypes
<1>6. /\ DOMAIN sequence' = Generations
      /\ \A g \in Generations : sequence'[g] \in [Queue!Cells(g) -> Words]
      /\ \A g \in Generations : \A i \in Queue!Cells(g) :
            From(sequence'[g][i]) = IF g = h /\ i = CellOf(h, j) THEN j + Queue!Cap(h)
                                    ELSE From(sequence[g][i])
      /\ \A g \in Generations : \A k \in Words :
            TurnNext(g, k) = IF g = h /\ CellOf(g, k) = CellOf(h, j) THEN j + Queue!Cap(h)
                             ELSE Turn(g, k)
  <2> DEFINE w == Queue!Plus(position[t], Queue!Cap(h))
  <2>1. sequence' = [sequence EXCEPT ![gen[t]][Queue!Index(gen[t], position[t])] = w]
    BY DEF Queue!Vacate
  <2>2. w \in Words /\ From(w) = j + Queue!Cap(h)
    <3>1. position[t] \in Words /\ From(position[t]) = j /\ j + Queue!Cap(h) < W
      BY <1>1, <1>2, <1>3 DEF QueueTypes, My
    <3> QED
      BY <1>3, <3>1, Further
  <2> HIDE DEF w
  <2>3. /\ DOMAIN sequence' = Generations
        /\ \A g \in Generations : sequence'[g] \in [Queue!Cells(g) -> Words]
        /\ \A g \in Generations : \A i \in Queue!Cells(g) :
              sequence'[g][i] = IF g = gen[t] /\ i = CellOf(g, My(t)) THEN w ELSE sequence[g][i]
        /\ \A g \in Generations : \A k \in Words :
              Turn(g, k)' = IF g = gen[t] /\ CellOf(g, k) = CellOf(g, My(t)) THEN From(w)
                            ELSE Turn(g, k)
    BY <1>1, <1>2, <2>1, <2>2, TurnMoves
  <2> QED
    BY <2>2, <2>3, Nexts
<1>7. \A g : /\ PushNext(g) = PushAt(g) /\ PopNext(g) = PopAt(g)
             /\ \A k : NodeNext(g, k) = Node(g, k)
  BY <1>4 DEF PushNext, PushAt, PopNext, PopAt, NodeNext, Node
<1>8. ~(Pushing(t)') /\ ~(Popping(t)') /\ ~Pushing(t)
  BY <1>1, <1>5 DEF Pushing, Popping
<1>9. OthersSame(h)
  BY <1>6, <1>7 DEF OthersSame
<1>10. QueueTypes'
  BY <1>1, <1>4, <1>5, <1>6 DEF QueueTypes, LocalTypes, Queue!Cells, Queue!Cap
\* What the turns of the ring become.
<1>11. /\ \A k \in PopAt(h)..PushAt(h) - 1 : TurnNext(h, k) = Turn(h, k)
       /\ \A k \in PushAt(h)..PopAt(h) + Queue!Cap(h) - 1 :
             k # j + Queue!Cap(h) => TurnNext(h, k) = Turn(h, k)
       /\ TurnNext(h, j + Queue!Cap(h)) = j + Queue!Cap(h)
       /\ \A k \in 0..PopAt(h) - 1 : TurnNext(h, k) >= k + 1
  <2>1. \A k \in PopAt(h)..PushAt(h) - 1 : TurnNext(h, k) = Turn(h, k)
    BY <1>2, <1>3, <1>6, PopAlone
  <2>2. \A k \in PushAt(h)..PopAt(h) + Queue!Cap(h) - 1 :
           k # j + Queue!Cap(h) => TurnNext(h, k) = Turn(h, k)
    BY <1>2, <1>3, <1>6, PopAlone
  <2>3. TurnNext(h, j + Queue!Cap(h)) = j + Queue!Cap(h)
    <3>1. j + Queue!Cap(h) \in Nat /\ j + Queue!Cap(h) \in Words
      BY <1>2, <1>3
    <3>2. CellOf(h, j + Queue!Cap(h)) = CellOf(h, j)
      BY <1>2, <3>1, CellsRepeat
    <3> QED
      BY <1>2, <1>6, <3>1, <3>2
  <2>4. ASSUME NEW k \in 0..PopAt(h) - 1
        PROVE  TurnNext(h, k) >= k + 1
    <3>1. Turn(h, k) >= k + 1 /\ k \in Words /\ k < j + Queue!Cap(h)
      BY <1>2, <1>3, RingIs
    <3> QED
      BY <1>2, <1>3, <1>6, <3>1
  <2> QED
    BY <2>1, <2>2, <2>3, <2>4
<1>12. ASSUME NEW g \in Generations
       PROVE  RingKnown(g)'
  <2>1. CASE g # h
    <3>1. sequence'[g] = sequence[g]
      BY <2>1 DEF Queue!Vacate
    <3> QED
      BY <1>2, <1>3, <1>4, <1>9, <2>1, <3>1, OtherRingsKnown
  <2>2. CASE g = h
    <3>1. \A k \in PopAt(h)..PushAt(h) - 1 :
             TurnNext(h, k) = k \/ (TurnNext(h, k) = k + 1 /\ Node(h, k) \in Nodes)
      BY <1>2, <1>11, RingIs
    <3>2. \A k \in PushAt(h)..PopAt(h) + Queue!Cap(h) - 1 :
             TurnNext(h, k) = k \/ TurnNext(h, k) + Queue!Cap(h) = k + 1
      BY <1>2, <1>11, RingIs
    <3>3. \A i \in Queue!Cells(h) : From(sequence'[h][i]) < MaxPushes + Queue!Cap(h)
      BY <1>2, <1>3, <1>6, RingIs
    <3> QED
      BY <1>3, <1>4, <1>7, <1>11, <2>2, <3>1, <3>2, <3>3, Nexts DEF RingKnown, Queue!Cells
  <2> QED
    BY <2>1, <2>2
<1>13. ASSUME NEW u \in Threads
       PROVE  CallKnown(u)'
  <2>1. CASE u = t
    <3>1. None \notin Nodes
      BY QueueAssumption DEF Queue!QueueSizes
    <3> QED
      BY <1>5, <2>1, <3>1 DEF CallKnown, Pushing, Popping
  <2>2. CASE u # t
    <3>1. ASSUME gen[u] = h
          PROVE  KnownWith(at[u], h, My(u), base[u], item[u], PushNext(h), PopNext(h),
                           TurnNext(h, My(u)), NodeNext(h, My(u)))
      <4>1. /\ KnownWith(at[u], h, My(u), base[u], item[u], PushAt(h), PopAt(h),
                         Turn(h, My(u)), Node(h, My(u)))
            /\ My(u) \in Words
        BY <1>2, <3>1, CallsIn
      <4>2. Popping(u) => TurnNext(h, My(u)) = Turn(h, My(u))
        BY <1>2, <1>6, <2>2, <3>1, <4>1, PopAlone
      <4>3. Pushing(u) => TurnNext(h, My(u)) = Turn(h, My(u))
        <5>1. ASSUME Pushing(u)
              PROVE  My(u) \in PopAt(h)..PushAt(h) - 1
          BY <1>2, <1>3, <3>1, <5>1, CallsIn
        <5> QED
          BY <1>11, <5>1
      <4>4. at[u] = "pushCas" /\ My(u) = PushAt(h) => TurnNext(h, My(u)) = Turn(h, My(u))
        <5>1. ASSUME at[u] = "pushCas", My(u) = PushAt(h)
              PROVE  CellOf(h, My(u)) # CellOf(h, j)
          <6>1. Turn(h, PushAt(h)) = PushAt(h)
            BY <4>1, <5>1 DEF KnownWith
          <6> QED
            BY <1>2, <5>1, <6>1, PopAlone
        <5> QED
          BY <1>6, <1>2, <4>1, <5>1
      <4>5. at[u] = "popCas" /\ My(u) = PopAt(h) => TurnNext(h, My(u)) = Turn(h, My(u))
        <5>1. ASSUME at[u] = "popCas", My(u) = PopAt(h)
              PROVE  My(u) \in PopAt(h)..PushAt(h) - 1
          BY <1>3, <4>1, <5>1 DEF KnownWith
        <5> QED
          BY <1>11, <5>1
      <4> QED
        BY <1>7, <4>1, <4>2, <4>3, <4>4, <4>5 DEF KnownWith, Popping, Pushing
    <3> QED
      BY <1>2, <1>5, <1>9, <2>2, <3>1, OtherCallsKnown
  <2> QED
    BY <2>1, <2>2
<1>14. ClaimsHeld'
  <2>1. ASSUME NEW k \in PopNext(h)..PushNext(h) - 1, TurnNext(h, k) = k
        PROVE  Pusher(h, k)'
    <3>1. k \in PopAt(h)..PushAt(h) - 1 /\ Turn(h, k) = k
      BY <1>7, <1>11, <2>1
    <3>2. Pusher(h, k)
      BY <1>2, <3>1 DEF QueueIInv, ClaimsHeld
    <3>3. PICK u \in Threads : Pushing(u) /\ gen[u] = h /\ My(u) = k
      BY <3>2 DEF Pusher
    <3> QED
      BY <1>5, <1>8, <3>3, OthersAre DEF Pusher
  <2>2. ASSUME NEW k \in PushNext(h)..PopNext(h) + Queue!Cap(h) - 1, TurnNext(h, k) + Queue!Cap(h) = k + 1
        PROVE  k >= Queue!Cap(h) /\ Popper(h, k - Queue!Cap(h))'
    <3>1. k # j + Queue!Cap(h)
      BY <1>2, <1>3, <1>11, <2>2
    <3>2. k >= Queue!Cap(h) /\ Popper(h, k - Queue!Cap(h))
      BY <1>2, <1>7, <1>11, <2>2, <3>1 DEF QueueIInv, ClaimsHeld
    <3>3. PICK u \in Threads : Popping(u) /\ gen[u] = h /\ My(u) = k - Queue!Cap(h)
      BY <3>2 DEF Popper
    <3>4. u # t
      <4>1. k \in Nat /\ Queue!Cap(h) \in Nat
        BY <1>3, <1>7, <2>2
      <4> QED
        BY <1>2, <3>1, <3>3, <4>1
    <3> QED
      BY <1>5, <3>2, <3>3, <3>4, OthersAre DEF Popper
  <2> QED
    BY <1>2, <1>5, <1>8, <1>9, <2>1, <2>2, ClaimsChange
<1>15. /\ NodesKnown'
       /\ \A n \in Nodes : \A g \in Generations : \A k \in Nat :
             InRing(n, g, k)' <=> InRing(n, g, k)
  <2>1. ASSUME NEW n \in Nodes, NEW u \in Threads
        PROVE  /\ n \in held'[u] <=> n \in held[u] \/ (n = m /\ u = t)
               /\ InHands(n, u)' <=> InHands(n, u) /\ ~(n = m /\ u = t)
    <3>1. CASE u = t
      <4>1. None \notin Nodes
        BY QueueAssumption DEF Queue!QueueSizes
      <4> QED
        BY <1>1, <1>5, <1>8, <3>1, <4>1 DEF InHands
    <3>2. CASE u # t
      BY <1>2, <1>5, <1>7, <1>9, <3>2, OtherHandsKeep
    <3> QED
      BY <3>1, <3>2
  <2>2. ASSUME NEW n \in Nodes, NEW g \in Generations, NEW k \in Nat
        PROVE  InRing(n, g, k)' <=> InRing(n, g, k)
    <3>1. CASE g # h
      BY <1>2, <1>5, <1>8, <1>9, <3>1, OtherRingNodes
    <3>2. CASE g = h
      <4>1. ASSUME NEW u \in Threads
            PROVE  Pushing(u)' /\ gen'[u] = h /\ My(u)' = k /\ item'[u] = n
                   <=> Pushing(u) /\ gen[u] = h /\ My(u) = k /\ item[u] = n
        <5>1. CASE u = t
          BY <1>8, <5>1
        <5>2. CASE u # t
          BY <1>5, <5>2, OthersAre
        <5> QED
          BY <5>1, <5>2
      <4>2. /\ PopNext(h) = PopAt(h) /\ PushNext(h) = PushAt(h) /\ NodeNext(h, k) = Node(h, k)
        BY <1>7
      <4>3. PopAt(h) <= k /\ k < PushAt(h) => TurnNext(h, k) = Turn(h, k)
        BY <1>3, <1>11
      <4>4. InRing(n, h, k)' <=>
               /\ PopAt(h) <= k /\ k < PushAt(h)
               /\ \/ TurnNext(h, k) = k + 1 /\ Node(h, k) = n
                  \/ \E u \in Threads : Pushing(u) /\ gen[u] = h /\ My(u) = k /\ item[u] = n
        BY <4>1, <4>2, RingHolds
      <4> QED
        BY <3>2, <4>3, <4>4 DEF InRing
    <3> QED
      BY <3>1, <3>2
  <2>3. InHands(m, t)
    BY <1>8 DEF InHands
  <2>4. NodesKnown'
    BY <1>2, <2>1, <2>2, <2>3, NodePutDown DEF QueueIInv
  <2> QED
    BY <2>2, <2>4
<1>16. Keeps
  BY <1>7, <1>15, Nexts DEF Keeps
<1> QED
  BY <1>10, <1>12, <1>13, <1>14, <1>15, <1>16 DEF QueueIInv, Moves

LEMMA StepVacate ==
  ASSUME QueueIInv, NEW t \in Threads, Queue!Vacate(t)
  PROVE  QueueIInv' /\ Moves
BY Vacates

\* The invariant of the transfer queue is kept by every step.
LEMMA QueueNext ==
  ASSUME QueueIInv, Queue!Next
  PROVE  QueueIInv' /\ Moves
<1> PICK t \in Threads :
    \/ Queue!CallPop(t) \/ \E n \in Nodes : Queue!CallPush(t, n)
    \/ Queue!PushHead(t) \/ Queue!PushLoad(t) \/ Queue!PushCellFree(t) \/ Queue!PushCellStale(t)
    \/ Queue!PushRingFull(t) \/ Queue!PushCas(t) \/ Queue!StoreNode(t) \/ Queue!Publish(t)
    \/ Queue!CreateFails(t) \/ Queue!Create(t) \/ Queue!PublishGeneration(t)
    \/ Queue!PopHead(t) \/ Queue!PopLoad(t) \/ Queue!PopCellReady(t) \/ Queue!PopCellStale(t)
    \/ Queue!PopRingEmpty(t) \/ Queue!PopCas(t) \/ Queue!TakeNode(t) \/ Queue!Vacate(t)
  BY DEF Queue!Next
<1>1. CASE Queue!CallPop(t) \/ (\E n \in Nodes : Queue!CallPush(t, n)) \/ Queue!PushHead(t) \/ Queue!PushLoad(t)
  BY <1>1, StepCallPop, StepCallPush, StepPushHead, StepPushLoad DEF Moves
<1>2. CASE Queue!PushCellFree(t) \/ Queue!PushCellStale(t) \/ Queue!PushRingFull(t) \/ Queue!PushCas(t)
  BY <1>2, StepPushCellFree, StepPushCellStale, StepPushRingFull, StepPushCas DEF Moves
<1>3. CASE Queue!StoreNode(t) \/ Queue!Publish(t) \/ Queue!CreateFails(t) \/ Queue!Create(t) \/ Queue!PublishGeneration(t)
  BY <1>3, StepStoreNode, StepPublish, StepCreateFails, StepCreate, StepPublishGeneration DEF Moves
<1>4. CASE Queue!PopHead(t) \/ Queue!PopLoad(t) \/ Queue!PopCellReady(t) \/ Queue!PopCellStale(t)
  BY <1>4, StepPopHead, StepPopLoad, StepPopCellReady, StepPopCellStale DEF Moves
<1>5. CASE Queue!PopRingEmpty(t) \/ Queue!PopCas(t) \/ Queue!TakeNode(t) \/ Queue!Vacate(t)
  BY <1>5, StepPopRingEmpty, StepPopCas, StepTakeNode, StepVacate DEF Moves
<1> QED
  BY <1>1, <1>2, <1>3, <1>4, <1>5

LEMMA QueueStutters ==
  ASSUME QueueIInv, UNCHANGED Queue!vars
  PROVE  QueueIInv'
<1>1. /\ RingsStay /\ head' = head /\ held' = held /\ at' = at /\ item' = item /\ gen' = gen
      /\ base' = base /\ position' = position
  BY DEF Queue!vars, Queue!rings, Queue!locals, RingsStay
<1>2. QueueTypes'
  BY <1>1 DEF QueueIInv, QueueTypes, RingsStay, Queue!Cells, Queue!Cap
<1>3. \A g \in Generations : RingKnown(g)'
  BY <1>1, RingStaysKnown DEF QueueIInv
<1>4. ASSUME NEW t \in Threads
      PROVE  CallKnown(t)'
  <2>1. KnownAt(at[t], gen[t], My(t), base[t], item[t]) /\ From(position'[t]) = My(t)
    BY <1>1, KnownNow DEF My
  <2> QED
    BY <1>1, <2>1, CallsBecome
<1>5. \A u \in Threads : /\ Pushing(u)' = Pushing(u) /\ Popping(u)' = Popping(u)
                         /\ My(u)' = My(u) /\ gen'[u] = gen[u] /\ item'[u] = item[u]
                         /\ at'[u] = at[u] /\ held'[u] = held[u] /\ position'[u] = position[u]
  BY <1>1 DEF Pushing, Popping, My
<1>6. \A g : /\ PushNext(g) = PushAt(g) /\ PopNext(g) = PopAt(g)
             /\ \A k : TurnNext(g, k) = Turn(g, k) /\ NodeNext(g, k) = Node(g, k)
  BY <1>1 DEF RingsStay, PushNext, PushAt, PopNext, PopAt, TurnNext, Turn, NodeNext, Node
<1>7. ClaimsHeld'
  <2>1. CASE Threads = {}
    BY <1>1, <1>6, <2>1, Nexts DEF QueueIInv, ClaimsHeld, Pusher, Popper
  <2>2. CASE \E t \in Threads : TRUE
    <3>1. PICK t \in Threads : TRUE
      BY <2>2
    <3>2. OthersStay(t) /\ KeepsClaim(t)
      BY <1>1, <1>5 DEF OthersStay, KeepsClaim
    <3> QED
      BY <1>6, <3>2, Nexts, ClaimsStay DEF QueueIInv
  <2> QED
    BY <2>1, <2>2
<1>8. NodesKnown'
  <2>1. ASSUME NEW n \in Nodes, NEW t \in Threads
        PROVE  (n \in held'[t] <=> n \in held[t]) /\ (InHands(n, t)' <=> InHands(n, t))
    BY <1>1, <1>5 DEF InHands, RingsStay, Node
  <2>2. ASSUME NEW n \in Nodes, NEW g \in Generations, NEW k \in Nat
        PROVE  InRing(n, g, k)' <=> InRing(n, g, k)
    BY <1>5, <1>6, RingHolds DEF InRing
  <2> QED
    BY <2>1, <2>2, NodesStay DEF QueueIInv
<1> QED
  BY <1>2, <1>3, <1>4, <1>7, <1>8 DEF QueueIInv

-----------------------------------------------------------------------------
(* The initial state. *)

LEMMA RingsBegin ==
  ASSUME Queue!Init, NEW g \in Generations
  PROVE  /\ PushAt(g) = 0 /\ PopAt(g) = 0
         /\ sequence[g] \in [Queue!Cells(g) -> Words]
         /\ \A i \in Queue!Cells(g) : From(sequence[g][i]) < Queue!Cap(g)
         /\ \A k \in Queue!Cells(g) : Turn(g, k) = k
<1>1. Start0 \in Words /\ From(Start0) = 0
  BY Sizes, Distances DEF Words
<1>2. PushAt(g) = 0 /\ PopAt(g) = 0
  BY <1>1 DEF Queue!Init, PushAt, PopAt
<1>3. \A k \in Queue!Cells(g) : k \in Words /\ k \in Nat /\ k < Queue!Cap(g)
  BY Sizes, Bounds DEF Queue!Cells, Words
<1>4. ASSUME NEW i \in Queue!Cells(g)
      PROVE  \E k \in Queue!Cells(g) : sequence[g][i] = Word(k) /\ CellOf(g, k) = i
  <2> DEFINE S == {Queue!Plus(Start0, k) : k \in Queue!Cells(g)}
  <2> DEFINE s == CHOOSE s \in S : Queue!Index(g, s) = i
  <2>1. sequence[g][i] = s
    BY DEF Queue!Init
  <2>2. PICK k \in Queue!Cells(g) : CellOf(g, k) = i
    BY CellsCovered
  <2>3. Queue!Plus(Start0, k) \in S /\ Queue!Index(g, Queue!Plus(Start0, k)) = i
    BY <2>2 DEF CellOf, Word
  <2> HIDE DEF S
  <2>4. s \in S /\ Queue!Index(g, s) = i
    BY <2>3
  <2>5. PICK q \in Queue!Cells(g) : s = Queue!Plus(Start0, q)
    BY <2>4 DEF S
  <2> HIDE DEF s
  <2> QED
    BY <2>1, <2>4, <2>5 DEF Word, CellOf
<1>5. ASSUME NEW i \in Queue!Cells(g)
      PROVE  sequence[g][i] \in Words /\ From(sequence[g][i]) < Queue!Cap(g)
  <2>1. PICK k \in Queue!Cells(g) : sequence[g][i] = Word(k) /\ CellOf(g, k) = i
    BY <1>4
  <2> QED
    BY <1>3, <2>1, WordsAre
<1>6. sequence[g] \in [Queue!Cells(g) -> Words]
  <2>1. sequence[g] = [i \in Queue!Cells(g) |-> sequence[g][i]]
    BY DEF Queue!Init
  <2> QED
    BY <1>5, <2>1
<1>7. ASSUME NEW k \in Queue!Cells(g)
      PROVE  Turn(g, k) = k
  <2>1. CellOf(g, k) \in Queue!Cells(g)
    BY <1>3, CellIs
  <2>2. PICK q \in Queue!Cells(g) : sequence[g][CellOf(g, k)] = Word(q) /\ CellOf(g, q) = CellOf(g, k)
    BY <1>4, <2>1
  <2>3. q \in Words /\ q \in Nat /\ q < Queue!Cap(g) /\ k \in Words /\ k \in Nat /\ k < Queue!Cap(g)
        /\ Queue!Cap(g) \in Nat
    BY <1>3, Sizes
  <2>4. q = k
    BY <2>2, <2>3, Differ
  <2> QED
    BY <2>2, <2>3, <2>4, WordsAre DEF Turn
<1> QED
  BY <1>2, <1>5, <1>6, <1>7

LEMMA QueueInit ==
  ASSUME Queue!Init
  PROVE  QueueIInv
<1>1. QueueTypes
  <2>1. Start0 \in Words /\ 0 \in Words /\ 0 \in 0..MaxPushes
    BY Sizes DEF Words
  <2>2. held \in [Threads -> SUBSET Nodes]
    BY DEF Queue!Init
  <2>3. /\ head = 0 /\ pushes = 0
        /\ enqueue = [g \in Generations |-> Start0] /\ dequeue = [g \in Generations |-> Start0]
        /\ cell = [g \in Generations |-> [i \in Queue!Cells(g) |-> None]]
        /\ at = [t \in Threads |-> "out"] /\ item = [t \in Threads |-> None]
        /\ gen = [t \in Threads |-> 0] /\ base = [t \in Threads |-> 0]
        /\ position = [t \in Threads |-> 0] /\ DOMAIN sequence = Generations
    BY DEF Queue!Init
  <2>4. \A g \in Generations : sequence[g] \in [Queue!Cells(g) -> Words]
    BY RingsBegin
  <2>5. "out" \in Queue!Places
    BY DEF Queue!Places
  <2> QED
    BY <2>1, <2>2, <2>3, <2>4, <2>5 DEF QueueTypes
<1>2. ASSUME NEW g \in Generations
      PROVE  RingKnown(g)
  <2>1. /\ PushAt(g) = 0 /\ PopAt(g) = 0 /\ pushes = 0
        /\ \A k \in 0..Queue!Cap(g) - 1 : Turn(g, k) = k
    BY RingsBegin DEF Queue!Init, Queue!Cells
  <2>2. Queue!Cap(g) \in Nat /\ Queue!Cap(g) >= 2 /\ MaxPushes \in Nat
    BY Sizes
  <2>3. ASSUME NEW i \in Queue!Cells(g)
        PROVE  From(sequence[g][i]) < MaxPushes + Queue!Cap(g)
    <3>1. From(sequence[g][i]) < Queue!Cap(g) /\ sequence[g][i] \in Words
      BY RingsBegin
    <3>2. From(sequence[g][i]) \in Nat
      BY <3>1, Distances, Sizes DEF Words
    <3> QED
      BY <2>2, <3>1, <3>2
  <2> QED
    BY <2>1, <2>2, <2>3 DEF RingKnown
<1>3. \A t \in Threads : at[t] = "out" /\ item[t] = None /\ None \notin Nodes
  BY QueueAssumption DEF Queue!Init, Queue!QueueSizes
<1>4. \A t \in Threads : ~Pushing(t) /\ ~Popping(t)
  BY <1>3 DEF Pushing, Popping
<1>5. \A t \in Threads : CallKnown(t)
  BY <1>3, <1>4 DEF CallKnown
<1>6. ClaimsHeld
  <2>1. ASSUME NEW g \in Generations
        PROVE  /\ PushAt(g) = 0 /\ PopAt(g) = 0 /\ Queue!Cap(g) \in Nat /\ Queue!Cap(g) >= 2
               /\ \A k \in 0..Queue!Cap(g) - 1 : Turn(g, k) = k
    BY RingsBegin, Sizes DEF Queue!Cells
  <2>2. ASSUME NEW g \in Generations, NEW k \in PopAt(g)..PushAt(g) - 1
        PROVE  FALSE
    BY <2>1
  <2>3. ASSUME NEW g \in Generations, NEW k \in PushAt(g)..PopAt(g) + Queue!Cap(g) - 1,
               Turn(g, k) + Queue!Cap(g) = k + 1
        PROVE  FALSE
    BY <2>1, <2>3
  <2> QED
    BY <1>4, <2>2, <2>3 DEF ClaimsHeld
<1>7. ASSUME NEW n \in Nodes
      PROVE  \E x \in Spots : \A s \in Spots : IsAt(n, s) <=> s = x
  <2> DEFINE H == {t \in Threads : n \in held[t]}
  <2>1. Cardinality(H) = 1
    BY SameCardinality DEF Queue!Init
  <2>2. IsFiniteSet(H)
    BY FS_Subset, SameCardinality, QueueAssumption DEF Queue!QueueSizes
  <2>3. PICK t : H = {t}
    BY <2>1, <2>2, FS_Singleton
  <2>4. t \in Threads /\ \A u \in Threads : n \in held[u] <=> u = t
    BY <2>3
  <2>5. ASSUME NEW s \in Spots
        PROVE  IsAt(n, s) <=> s = Own(t)
    <3>1. ASSUME NEW u \in Threads, s = Own(u)
          PROVE  IsAt(n, s) <=> s = Own(t)
      BY <2>4, <3>1, SpotsHold, SpotsDiffer
    <3>2. ASSUME NEW u \in Threads, s = Hand(u)
          PROVE  IsAt(n, s) <=> s = Own(t)
      <4>1. ~InHands(n, u)
        BY <1>3 DEF InHands
      <4>2. IsAt(n, s) <=> InHands(n, u)
        BY <3>2, SpotsHold
      <4>3. s # Own(t)
        BY <3>2, SpotsDiffer
      <4> QED
        BY <4>1, <4>2, <4>3
    <3>3. ASSUME NEW g \in Generations, NEW k \in Nat, s = Place(g, k)
          PROVE  IsAt(n, s) <=> s = Own(t)
      <4>1. ~InRing(n, g, k)
        BY RingsBegin DEF InRing
      <4>2. IsAt(n, s) <=> InRing(n, g, k)
        BY <3>3, SpotsHold
      <4>3. s # Own(t)
        BY <3>3, SpotsDiffer
      <4> QED
        BY <4>1, <4>2, <4>3
    <3>4. CASE \E u \in Threads : s = Own(u) \/ s = Hand(u)
      BY <3>1, <3>2, <3>4
    <3>5. CASE \E g \in Generations : \E k \in Nat : s = Place(g, k)
      BY <3>3, <3>5
    <3> QED
      BY <3>4, <3>5, SpotsAre
  <2>6. Own(t) \in Spots
    BY <2>4, SpotsAre
  <2> QED
    BY <2>5, <2>6
<1> QED
  BY <1>1, <1>2, <1>5, <1>6, <1>7 DEF QueueIInv, NodesKnown

-----------------------------------------------------------------------------
(* What the invariant says of the queue. *)

\* The node at position k of a ring is the one that InRing places there.
LEMMA NodesOfRing ==
  ASSUME QueueIInv, NEW g \in Generations, NEW k \in PopAt(g)..PushAt(g) - 1
  PROVE  /\ Queue!NodeAt(g, Word(k)) \in Nodes
         /\ \A n : InRing(n, g, k) <=> n = Queue!NodeAt(g, Word(k))
<1> DEFINE p == Word(k)
<1>1. /\ QueueTypes /\ PopAt(g) \in Nat /\ PushAt(g) \in Nat /\ Queue!Cap(g) \in Nat
      /\ PushAt(g) <= PopAt(g) + Queue!Cap(g)
      /\ \A i \in Nat : i <= PopAt(g) + Queue!Cap(g) => i \in Words
      /\ Turn(g, k) = k \/ (Turn(g, k) = k + 1 /\ Node(g, k) \in Nodes)
  BY RingIs
<1>2. k \in Nat /\ k \in Words /\ k + 1 \in Words /\ PopAt(g) <= k /\ k < PushAt(g) /\ k + 1 < W
  BY <1>1, Sizes DEF Words
<1>3. p \in Words /\ From(p) = k
  BY <1>2, WordsAre
<1>4. Queue!Plus(p, 1) \in Words /\ From(Queue!Plus(p, 1)) = k + 1
  BY <1>2, <1>3, Further
<1>5. CellOf(g, k) = Queue!Index(g, p) /\ CellOf(g, k) \in Queue!Cells(g)
  BY <1>1, <1>2, TypesAre DEF CellOf
<1>6. sequence[g][Queue!Index(g, p)] \in Words /\ From(sequence[g][Queue!Index(g, p)]) = Turn(g, k)
      /\ cell[g][Queue!Index(g, p)] = Node(g, k)
  BY <1>1, <1>5 DEF QueueTypes, Turn, Node
<1>7. Queue!Published(g, p) <=> Turn(g, k) = k + 1
  BY <1>4, <1>6, Apart DEF Queue!Published
<1>8. ASSUME NEW t \in Threads
      PROVE  t \in Queue!Pushers(g, p) <=> Pushing(t) /\ gen[t] = g /\ My(t) = k
  BY <1>1, <1>3, Apart DEF Queue!Pushers, Pushing, My, QueueTypes
<1>9. CASE Turn(g, k) = k + 1
  <2>1. \A t \in Threads : ~(Pushing(t) /\ gen[t] = g /\ My(t) = k)
    BY <1>2, <1>9, CallsIn
  <2>2. Queue!NodeAt(g, p) = Node(g, k)
    BY <1>6, <1>7, <1>9 DEF Queue!NodeAt
  <2> QED
    BY <1>1, <1>2, <1>9, <2>1, <2>2 DEF InRing
<1>10. CASE Turn(g, k) = k
  <2>1. Pusher(g, k)
    BY <1>10 DEF QueueIInv, ClaimsHeld
  <2>2. PICK t \in Threads : Pushing(t) /\ gen[t] = g /\ My(t) = k
    BY <2>1 DEF Pusher
  <2>3. \A u \in Threads : Pushing(u) /\ gen[u] = g /\ My(u) = k => u = t
    <3>1. \A u \in Threads : My(u) = My(t) => position[u] = position[t]
      BY <1>1, Apart DEF My, QueueTypes
    <3> QED
      BY <2>2, <3>1 DEF QueueIInv, ClaimsHeld, Same
  <2>4. Queue!Pushers(g, p) = {t}
    <3>1. Queue!Pushers(g, p) \subseteq Threads
      BY DEF Queue!Pushers
    <3> QED
      BY <1>8, <2>2, <2>3, <3>1
  <2>5. (CHOOSE u \in Queue!Pushers(g, p) : TRUE) = t
    BY <2>4
  <2>6. Turn(g, k) # k + 1
    BY <1>2, <1>10
  <2>7. Queue!NodeAt(g, p) = item[t]
    BY <1>7, <2>5, <2>6 DEF Queue!NodeAt
  <2>8. item[t] \in Nodes
    BY <2>2, KnownNow DEF KnownAt, Pushing
  <2> QED
    BY <1>2, <2>2, <2>3, <2>6, <2>7, <2>8 DEF InRing
<1> QED
  BY <1>1, <1>9, <1>10

LEMMA ContentsAre ==
  ASSUME QueueIInv, NEW g \in Generations
  PROVE  /\ Queue!Size(g) = PushAt(g) - PopAt(g) /\ Queue!Size(g) \in Nat
         /\ \A i \in 1..Queue!Size(g) : /\ PopAt(g) + (i - 1) \in PopAt(g)..PushAt(g) - 1
                                 /\ Queue!Contents(g)[i] = Queue!NodeAt(g, Word(PopAt(g) + (i - 1)))
<1>1. /\ QueueTypes /\ PopAt(g) \in Nat /\ PushAt(g) \in Nat /\ PopAt(g) <= PushAt(g)
      /\ PushAt(g) <= MaxPushes /\ MaxPushes < W /\ MaxPushes \in Nat /\ W \in Nat
  <2>1. PushAt(g) <= pushes /\ pushes <= MaxPushes /\ MaxPushes + Queue!Cap(g) < W /\ Queue!Cap(g) \in Nat
        /\ pushes \in Nat /\ MaxPushes \in Nat /\ W \in Nat /\ PushAt(g) \in Nat
    BY RingIs
  <2> QED
    BY <2>1, RingIs
<1>2. enqueue[g] \in Words /\ dequeue[g] \in Words
  BY <1>1 DEF QueueTypes
<1>3. Queue!Size(g) = PushAt(g) - PopAt(g)
  BY <1>1, <1>2, Differences DEF Queue!Size, PushAt, PopAt
<1>4. ASSUME NEW i \in 1..Queue!Size(g)
      PROVE  /\ PopAt(g) + (i - 1) \in PopAt(g)..PushAt(g) - 1
             /\ Queue!Contents(g)[i] = Queue!NodeAt(g, Word(PopAt(g) + (i - 1)))
  <2>1. i - 1 \in Nat /\ PopAt(g) + (i - 1) \in PopAt(g)..PushAt(g) - 1
        /\ PopAt(g) + (i - 1) < W
    BY <1>1, <1>3
  <2>2. Queue!Plus(dequeue[g], i - 1) = Word(PopAt(g) + (i - 1))
    <3> DEFINE a == i - 1
    <3>1. a \in Nat /\ From(dequeue[g]) + a < W /\ From(dequeue[g]) = PopAt(g)
      BY <2>1 DEF PopAt
    <3> HIDE DEF a
    <3>2. Queue!Plus(dequeue[g], a) = Word(PopAt(g) + a)
      BY <1>2, <3>1, Further
    <3> QED
      BY <3>2 DEF a
  <2> QED
    BY <2>1, <2>2 DEF Queue!Contents
<1> QED
  BY <1>1, <1>3, <1>4

LEMMA QueueImpliesCellHeldOnce ==
  ASSUME QueueIInv
  PROVE  Queue!CellHeldOnce
<1>1. ASSUME NEW t \in Threads, NEW u \in Threads,
             {at[t], at[u]} \subseteq {"storeNode", "publish", "takeNode", "vacate"},
             gen[t] = gen[u], Queue!Index(gen[t], position[t]) = Queue!Index(gen[u], position[u]), t # u
      PROVE  FALSE
  <2>1. (Pushing(t) \/ Popping(t)) /\ (Pushing(u) \/ Popping(u))
    BY <1>1 DEF Pushing, Popping
  <2>2. QueueTypes /\ gen[t] \in Generations
    BY <2>1, KnownNow DEF KnownAt, Pushing, Popping
  <2>3. CellOf(gen[t], My(t)) = CellOf(gen[t], My(u))
    BY <1>1, <2>2, MyCell
  <2>4. CASE Pushing(t)
    BY <1>1, <2>1, <2>2, <2>3, <2>4, PushAlone
  <2>5. CASE Pushing(u)
    BY <1>1, <2>1, <2>2, <2>3, <2>5, PushAlone
  <2>6. CASE Popping(t) /\ Popping(u)
    BY <1>1, <2>2, <2>3, <2>6, PopAlone
  <2> QED
    BY <2>1, <2>4, <2>5, <2>6
<1> QED
  BY <1>1 DEF Queue!CellHeldOnce

LEMMA QueueImpliesTypes ==
  ASSUME QueueIInv
  PROVE  Queue!TypeOK
<1>1. QueueTypes
  BY DEF QueueIInv
<1>2. ASSUME NEW t \in Threads, at[t] \in {"create", "publishGeneration"}
      PROVE  base[t] + 1 \in Generations
  BY <1>2, KnownNow DEF KnownAt
<1> QED
  BY <1>1, <1>2 DEF QueueTypes, Queue!TypeOK, Words

\* The three sets that NodeOnce counts, by the place of the node.
LEMMA QueueImpliesNodeOnce ==
  ASSUME QueueIInv
  PROVE  Queue!NodeOnce
<1> SUFFICES ASSUME NEW n \in Nodes
             PROVE  Cardinality({t \in Threads : n \in held[t]})
                    + Cardinality({t \in Threads :
                         \/ item[t] = n /\ at[t] \notin {"storeNode", "publish"}
                         \/ at[t] = "takeNode" /\ cell[gen[t]][Queue!Index(gen[t], position[t])] = n})
                    + Cardinality({gi \in Queue!Claimed : Queue!Contents(gi[1])[gi[2]] = n}) = 1
  BY SameCardinality DEF Queue!NodeOnce
<1> DEFINE Hold == {t \in Threads : n \in held[t]}
<1> DEFINE Move == {t \in Threads :
                      \/ item[t] = n /\ at[t] \notin {"storeNode", "publish"}
                      \/ at[t] = "takeNode" /\ cell[gen[t]][Queue!Index(gen[t], position[t])] = n}
<1> DEFINE Keep == {gi \in Queue!Claimed : Queue!Contents(gi[1])[gi[2]] = n}
<1>1. PICK x \in Spots : \A s \in Spots : IsAt(n, s) <=> s = x
  BY DEF QueueIInv, NodesKnown
<1>2. ASSUME NEW t \in Threads
      PROVE  (t \in Hold <=> Own(t) = x) /\ (t \in Move <=> Hand(t) = x)
  <2>1. Own(t) \in Spots /\ Hand(t) \in Spots
    BY SpotsAre
  <2>2. t \in Hold <=> Own(t) = x
    BY <1>1, <2>1, SpotsHold
  <2>3. at[t] = "takeNode" => Node(gen[t], My(t)) = cell[gen[t]][Queue!Index(gen[t], position[t])]
    <3>1. at[t] = "takeNode" => gen[t] \in Generations /\ QueueTypes
      BY KnownNow DEF KnownAt
    <3> QED
      BY <3>1, MyCell DEF Node
  <2>4. t \in Move <=> InHands(n, t)
    BY <2>3 DEF InHands, Pushing
  <2> HIDE DEF Move
  <2>5. t \in Move <=> Hand(t) = x
    BY <1>1, <2>1, <2>4, SpotsHold
  <2> QED
    BY <2>2, <2>5
<1>3. ASSUME NEW g \in Generations, NEW i \in 1..Queue!Size(g)
      PROVE  /\ PopAt(g) + (i - 1) \in Nat
             /\ Queue!Contents(g)[i] = n <=> Place(g, PopAt(g) + (i - 1)) = x
  <2> DEFINE k == PopAt(g) + (i - 1)
  <2>1. k \in PopAt(g)..PushAt(g) - 1 /\ Queue!Contents(g)[i] = Queue!NodeAt(g, Word(k)) /\ PopAt(g) \in Nat
    BY ContentsAre, RingIs
  <2>2. k \in Nat
    BY <2>1
  <2> HIDE DEF k
  <2>3. InRing(n, g, k) <=> n = Queue!NodeAt(g, Word(k))
    BY <2>1, NodesOfRing
  <2>4. Place(g, k) \in Spots /\ (IsAt(n, Place(g, k)) <=> InRing(n, g, k))
    BY <2>2, SpotsAre, SpotsHold
  <2>5. Queue!Contents(g)[i] = n <=> Place(g, k) = x
    BY <1>1, <2>1, <2>3, <2>4
  <2> QED
    BY <2>2, <2>5 DEF k
<1>4. \A gi : gi \in Keep <=>
         \E g \in Generations : \E i \in 1..Queue!Size(g) :
            gi = <<g, i>> /\ Place(g, PopAt(g) + (i - 1)) = x
  <2>1. ASSUME NEW gi
        PROVE  gi \in Queue!Claimed <=> \E g \in Generations : \E i \in 1..Queue!Size(g) : gi = <<g, i>>
    BY DEF Queue!Claimed
  <2>2. ASSUME NEW g \in Generations, NEW i \in 1..Queue!Size(g), NEW gi, gi = <<g, i>>
        PROVE  Queue!Contents(gi[1])[gi[2]] = n <=> Place(g, PopAt(g) + (i - 1)) = x
    BY <1>3, <2>2
  <2> QED
    BY <2>1, <2>2
<1> HIDE DEF Hold, Move, Keep
<1>5. Hold \subseteq Threads /\ Move \subseteq Threads
  BY DEF Hold, Move
<1>6. CASE \E t \in Threads : x = Own(t)
  <2>1. PICK t \in Threads : x = Own(t)
    BY <1>6
  <2>2. Hold = {t} /\ Move = {}
    BY <1>2, <1>5, <2>1, SpotsDiffer
  <2>3. Keep = {}
    BY <1>4, <2>1, SpotsDiffer
  <2>4. Cardinality(Hold) = 1 /\ Cardinality(Move) = 0 /\ Cardinality(Keep) = 0
    BY <2>2, <2>3, FS_Singleton, FS_EmptySet
  <2> QED
    BY <2>4 DEF Hold, Move, Keep
<1>7. CASE \E t \in Threads : x = Hand(t)
  <2>1. PICK t \in Threads : x = Hand(t)
    BY <1>7
  <2>2. Move = {t} /\ Hold = {}
    BY <1>2, <1>5, <2>1, SpotsDiffer
  <2>3. Keep = {}
    BY <1>4, <2>1, SpotsDiffer
  <2>4. Cardinality(Hold) = 0 /\ Cardinality(Move) = 1 /\ Cardinality(Keep) = 0
    BY <2>2, <2>3, FS_Singleton, FS_EmptySet
  <2> QED
    BY <2>4 DEF Hold, Move, Keep
<1>8. CASE \E g \in Generations : \E k \in Nat : x = Place(g, k)
  <2>1. PICK g \in Generations : \E k \in Nat : x = Place(g, k)
    BY <1>8
  <2>2. PICK k \in Nat : x = Place(g, k)
    BY <2>1
  <2>3. InRing(n, g, k)
    <3>1. Place(g, k) \in Spots
      BY SpotsAre
    <3> QED
      BY <1>1, <2>2, <3>1, SpotsHold
  <2> DEFINE i == (k - PopAt(g)) + 1
  <2>4. /\ PopAt(g) \in Nat /\ PushAt(g) \in Nat /\ PopAt(g) <= k /\ k < PushAt(g)
        /\ Queue!Size(g) = PushAt(g) - PopAt(g)
    BY <2>3, RingIs, ContentsAre DEF InRing
  <2>5. i \in 1..Queue!Size(g) /\ PopAt(g) + (i - 1) = k
    BY <2>4
  <2>6. ASSUME NEW h \in Generations, NEW j \in 1..Queue!Size(h), Place(h, PopAt(h) + (j - 1)) = x
        PROVE  <<h, j>> = <<g, i>>
    <3>1. h = g /\ PopAt(h) + (j - 1) = k
      BY <2>2, <2>6, SpotsDiffer
    <3>2. j = i
      BY <2>4, <3>1
    <3> QED
      BY <3>1, <3>2
  <2>7. Keep = {<<g, i>>}
    <3>1. <<g, i>> \in Keep
      BY <1>4, <2>2, <2>5
    <3> HIDE DEF i
    <3>2. \A gi \in Keep : gi = <<g, i>>
      BY <1>4, <2>6
    <3> QED
      BY <3>1, <3>2
  <2>8. Hold = {} /\ Move = {}
    BY <1>2, <1>5, <2>2, SpotsDiffer
  <2>9. Cardinality(Hold) = 0 /\ Cardinality(Move) = 0 /\ Cardinality(Keep) = 1
    BY <2>7, <2>8, FS_Singleton, FS_EmptySet
  <2> QED
    BY <2>9 DEF Hold, Move, Keep
<1> QED
  BY <1>6, <1>7, <1>8, SpotsAre

LEMMA QueueImpliesRefusals ==
  ASSUME QueueIInv
  PROVE  Queue!RefusalsAreTrue
<1>1. ASSUME NEW t \in Threads, at[t] = "popCell", Queue!Negative(Queue!PopDifference(t))
      PROVE  Queue!Size(gen[t]) = 0 \/ Queue!Pushers(gen[t], dequeue[gen[t]]) # {}
  <2> DEFINE g == gen[t]
  <2>1. QueueTypes /\ g \in Generations /\ My(t) <= PopAt(g) /\ RingKnown(g)
    BY <1>1, KnownNow DEF KnownAt
  <2>2. /\ PopAt(g) \in Nat /\ PushAt(g) \in Nat /\ My(t) \in Nat /\ PopAt(g) <= PushAt(g)
        /\ Queue!Size(g) = PushAt(g) - PopAt(g) /\ My(t) \in Words /\ Turn(g, My(t)) \in Nat
        /\ Queue!Cap(g) \in Nat /\ Queue!Cap(g) >= 2
    BY <2>1, RingIs, CallsIn, ContentsAre, TypesAre, Sizes DEF Words
  <2>3. Turn(g, My(t)) < My(t) + 1
    BY <1>1, <2>1, PopCompares
  <2> HIDE DEF g
  <2>4. My(t) = PopAt(g)
    <3>1. ASSUME My(t) < PopAt(g)
          PROVE  FALSE
      <4>1. My(t) \in 0..PopAt(g) - 1
        BY <2>2, <3>1
      <4>2. Turn(g, My(t)) >= My(t) + 1
        BY <2>1, <4>1 DEF RingKnown
      <4> QED
        BY <2>2, <2>3, <4>2
    <3> QED
      BY <2>1, <2>2, <3>1
  <2>5. ASSUME PopAt(g) < PushAt(g)
        PROVE  Queue!Pushers(g, dequeue[g]) # {}
    <3>1. PopAt(g) \in PopAt(g)..PushAt(g) - 1
      BY <2>2, <2>5
    <3>2. Turn(g, PopAt(g)) = PopAt(g)
      BY <2>1, <2>2, <2>3, <2>4, <3>1 DEF RingKnown
    <3>3. Pusher(g, PopAt(g))
      BY <2>1, <3>1, <3>2 DEF QueueIInv, ClaimsHeld
    <3>4. PICK u \in Threads : Pushing(u) /\ gen[u] = g /\ My(u) = PopAt(g)
      BY <3>3 DEF Pusher
    <3>5. position[u] = dequeue[g]
      BY <2>1, <3>4, Apart DEF My, PopAt, QueueTypes
    <3>6. u \in Queue!Pushers(g, dequeue[g])
      BY <3>4, <3>5 DEF Queue!Pushers, Pushing
    <3> QED
      BY <3>6
  <2>6. Queue!Size(g) = 0 \/ Queue!Pushers(g, dequeue[g]) # {}
    BY <2>2, <2>5
  <2> QED
    BY <2>6 DEF g
<1>2. ASSUME NEW t \in Threads, at[t] = "pushCell", Queue!Negative(Queue!PushDifference(t))
      PROVE  \/ Queue!Size(gen[t]) = Queue!Cap(gen[t])
             \/ \E u \in Threads : /\ at[u] \in {"takeNode", "vacate"} /\ gen[u] = gen[t]
                                   /\ Queue!Plus(position[u], Queue!Cap(gen[t])) = enqueue[gen[t]]
  <2> DEFINE g == gen[t]
  <2>1. QueueTypes /\ g \in Generations /\ My(t) <= PushAt(g) /\ RingKnown(g)
    BY <1>2, KnownNow DEF KnownAt
  <2>2. /\ PopAt(g) \in Nat /\ PushAt(g) \in Nat /\ My(t) \in Nat /\ PopAt(g) <= PushAt(g)
        /\ PushAt(g) <= PopAt(g) + Queue!Cap(g)
        /\ Queue!Size(g) = PushAt(g) - PopAt(g) /\ My(t) \in Words /\ Turn(g, My(t)) \in Nat
        /\ Queue!Cap(g) \in Nat /\ Queue!Cap(g) >= 2
    BY <2>1, RingIs, CallsIn, ContentsAre, TypesAre, Sizes DEF Words
  <2>3. Turn(g, My(t)) < My(t)
    BY <1>2, <2>1, PushCompares
  <2> HIDE DEF g
  <2>4. My(t) = PushAt(g)
    <3>1. ASSUME My(t) < PopAt(g)
          PROVE  FALSE
      <4>1. My(t) \in 0..PopAt(g) - 1
        BY <2>2, <3>1
      <4>2. Turn(g, My(t)) >= My(t) + 1
        BY <2>1, <4>1 DEF RingKnown
      <4> QED
        BY <2>2, <2>3, <4>2
    <3>2. ASSUME PopAt(g) <= My(t), My(t) < PushAt(g)
          PROVE  FALSE
      <4>1. My(t) \in PopAt(g)..PushAt(g) - 1
        BY <2>2, <3>2
      <4>2. Turn(g, My(t)) = My(t) \/ Turn(g, My(t)) = My(t) + 1
        BY <2>1, <4>1 DEF RingKnown
      <4> QED
        BY <2>2, <2>3, <4>2
    <3> QED
      BY <2>1, <2>2, <3>1, <3>2
  <2>5. ASSUME PushAt(g) < PopAt(g) + Queue!Cap(g)
        PROVE  \E u \in Threads : /\ at[u] \in {"takeNode", "vacate"} /\ gen[u] = g
                                  /\ Queue!Plus(position[u], Queue!Cap(g)) = enqueue[g]
    <3>1. PushAt(g) \in PushAt(g)..PopAt(g) + Queue!Cap(g) - 1
      BY <2>2, <2>5
    <3>2. Turn(g, PushAt(g)) + Queue!Cap(g) = PushAt(g) + 1
      BY <2>1, <2>2, <2>3, <2>4, <3>1 DEF RingKnown
    <3>3. PushAt(g) >= Queue!Cap(g) /\ Popper(g, PushAt(g) - Queue!Cap(g))
      BY <2>1, <3>1, <3>2 DEF QueueIInv, ClaimsHeld
    <3>4. PICK u \in Threads : Popping(u) /\ gen[u] = g /\ My(u) = PushAt(g) - Queue!Cap(g)
      BY <3>3 DEF Popper
    <3>5. position[u] \in Words /\ From(position[u]) + Queue!Cap(g) = PushAt(g) /\ PushAt(g) < W
          /\ enqueue[g] \in Words
      BY <2>1, <2>2, <3>4, TypesAre, Sizes DEF My, QueueTypes, Words
    <3>6. Queue!Plus(position[u], Queue!Cap(g)) \in Words /\ From(Queue!Plus(position[u], Queue!Cap(g))) = PushAt(g)
      BY <2>2, <3>5, Further
    <3>7. Queue!Plus(position[u], Queue!Cap(g)) = enqueue[g]
      BY <3>5, <3>6, Apart DEF PushAt
    <3> QED
      BY <3>4, <3>7 DEF Popping
  <2>6. \/ Queue!Size(g) = Queue!Cap(g)
        \/ \E u \in Threads : /\ at[u] \in {"takeNode", "vacate"} /\ gen[u] = g
                              /\ Queue!Plus(position[u], Queue!Cap(g)) = enqueue[g]
    BY <2>2, <2>5
  <2> QED
    BY <2>6 DEF g
<1> QED
  BY <1>1, <1>2 DEF Queue!RefusalsAreTrue, Queue!EmptyIsTrue, Queue!FullIsTrue

\* The contents of a ring as a sequence, by the places of the nodes.
RingsTold ==
    \A g \in Generations :
       /\ PushAt(g) \in Nat /\ PopAt(g) \in Nat /\ PopAt(g) <= PushAt(g)
       /\ Queue!Contents(g) \in Seq(Nodes) /\ Len(Queue!Contents(g)) = PushAt(g) - PopAt(g)
       /\ \A i \in 1..Len(Queue!Contents(g)) : \A n : InRing(n, g, PopAt(g) + (i - 1)) <=> n = Queue!Contents(g)[i]

LEMMA QueueTellsRings == QueueIInv => RingsTold
<1> SUFFICES ASSUME QueueIInv, NEW g \in Generations
             PROVE  /\ PushAt(g) \in Nat /\ PopAt(g) \in Nat /\ PopAt(g) <= PushAt(g)
                    /\ Queue!Contents(g) \in Seq(Nodes) /\ Len(Queue!Contents(g)) = PushAt(g) - PopAt(g)
                    /\ \A i \in 1..Len(Queue!Contents(g)) : \A n :
                          InRing(n, g, PopAt(g) + (i - 1)) <=> n = Queue!Contents(g)[i]
  BY DEF RingsTold
<1>1. PushAt(g) \in Nat /\ PopAt(g) \in Nat /\ PopAt(g) <= PushAt(g)
  BY RingIs
<1>2. Queue!Size(g) = PushAt(g) - PopAt(g) /\ Queue!Size(g) \in Nat
  BY ContentsAre
<1>3. ASSUME NEW i \in 1..Queue!Size(g)
      PROVE  /\ Queue!Contents(g)[i] \in Nodes
             /\ \A n : InRing(n, g, PopAt(g) + (i - 1)) <=> n = Queue!Contents(g)[i]
  <2> DEFINE k == PopAt(g) + (i - 1)
  <2>1. k \in PopAt(g)..PushAt(g) - 1 /\ Queue!Contents(g)[i] = Queue!NodeAt(g, Word(k))
    BY ContentsAre
  <2> HIDE DEF k
  <2>2. /\ Queue!NodeAt(g, Word(k)) \in Nodes
        /\ \A n : InRing(n, g, k) <=> n = Queue!NodeAt(g, Word(k))
    BY <2>1, NodesOfRing
  <2>3. Queue!Contents(g)[i] \in Nodes /\ \A n : InRing(n, g, k) <=> n = Queue!Contents(g)[i]
    BY <2>1, <2>2
  <2> QED
    BY <2>3 DEF k
<1>4. Queue!Contents(g) = [i \in 1..Queue!Size(g) |-> Queue!Contents(g)[i]]
  BY DEF Queue!Contents
<1>5. Queue!Contents(g) \in Seq(Nodes) /\ Len(Queue!Contents(g)) = Queue!Size(g)
  <2> DEFINE s == Queue!Contents(g)
  <2>1. s \in [1..Queue!Size(g) -> Nodes]
    BY <1>3, <1>4
  <2> HIDE DEF s
  <2>2. s \in Seq(Nodes) /\ Len(s) = Queue!Size(g)
    BY <1>2, <2>1
  <2> QED
    BY <2>2 DEF s
<1> QED
  BY <1>1, <1>2, <1>3, <1>5

\* Two sequences are equal if their elements are.
LEMMA SameItems ==
  ASSUME NEW S, NEW s \in Seq(S), NEW r \in Seq(S), Len(s) = Len(r),
         \A i \in 1..Len(s) : s[i] = r[i]
  PROVE  s = r
OBVIOUS

\* Every step puts at most one node at the end of a ring's contents or takes the first one.
LEMMA RingIsFIFO ==
  ASSUME RingsTold, RingsTold', Moves, NEW g \in Generations,
         NEW d, PopAt(g) = d, NEW e, PushAt(g) = e, NEW d2, PopNext(g) = d2, NEW e2, PushNext(g) = e2,
         NEW s, Queue!Contents(g) = s, NEW r, Queue!Contents(g)' = r
  PROVE  Queue!Ring(g)!Next \/ UNCHANGED Queue!Contents(g)
<1>1. /\ e \in Nat /\ d \in Nat /\ d <= e
      /\ s \in Seq(Nodes) /\ Len(s) = e - d
      /\ \A i \in 1..Len(s) : \A n : InRing(n, g, d + (i - 1)) <=> n = s[i]
  BY DEF RingsTold
<1>2. /\ e2 \in Nat /\ d2 \in Nat /\ d2 <= e2
      /\ r \in Seq(Nodes) /\ Len(r) = e2 - d2
      /\ \A i \in 1..Len(r) : \A n : InRing(n, g, d2 + (i - 1))' <=> n = r[i]
  <2>1. /\ PushAt(g)' = e2 /\ PopAt(g)' = d2
    BY Nexts
  <2>2. /\ PushAt(g)' \in Nat /\ PopAt(g)' \in Nat /\ PopAt(g)' <= PushAt(g)'
        /\ r \in Seq(Nodes) /\ Len(r) = PushAt(g)' - PopAt(g)'
        /\ \A i \in 1..Len(r) : \A n : InRing(n, g, PopAt(g) + (i - 1))' <=> n = r[i]
    BY DEF RingsTold
  <2>3. ASSUME NEW i \in 1..Len(r), NEW n
        PROVE  InRing(n, g, d2 + (i - 1))' <=> n = r[i]
    <3>1. InRing(n, g, PopAt(g) + (i - 1))' <=> n = r[i]
      BY <2>2
    <3>2. InRing(n, g, PopAt(g) + (i - 1))' <=> InRing(n, g, d2 + (i - 1))'
      BY <2>1 DEF InRing, Turn, Node
    <3> QED
      BY <3>1, <3>2
  <2> QED
    BY <2>1, <2>2, <2>3
<1>3. ASSUME NEW i \in 1..Len(s)
      PROVE  s[i] \in Nodes /\ d + (i - 1) \in Nat
  BY <1>1, <1>3
<1>4. ASSUME NEW i \in 1..Len(r)
      PROVE  r[i] \in Nodes /\ d2 + (i - 1) \in Nat
  BY <1>2, <1>4
<1>5. CASE /\ e2 = e /\ d2 = d
           /\ \A n \in Nodes : \A k \in Nat : InRing(n, g, k)' <=> InRing(n, g, k)
  <2>1. Len(r) = Len(s)
    BY <1>1, <1>2, <1>5
  <2>2. ASSUME NEW i \in 1..Len(s)
        PROVE  s[i] = r[i]
    <3>1. InRing(s[i], g, d + (i - 1))
      BY <1>1
    <3>2. InRing(s[i], g, d2 + (i - 1))'
      BY <1>3, <1>5, <3>1
    <3> QED
      BY <1>2, <2>1, <3>2
  <2>3. s = r
    BY <1>1, <1>2, <2>1, <2>2, SameItems
  <2> QED
    BY <2>3
<1>6. ASSUME NEW m \in Nodes, e2 = e + 1, d2 = d,
             e < d + Queue!Cap(g),
             \A n \in Nodes : \A k \in Nat :
                InRing(n, g, k)' <=> InRing(n, g, k) \/ (n = m /\ k = e)
      PROVE  Queue!Ring(g)!Next
  <2>1. Len(r) = Len(s) + 1 /\ Len(s) \in Nat
    BY <1>1, <1>2, <1>6
  <2>2. ASSUME NEW i \in 1..Len(s)
        PROVE  r[i] = s[i]
    <3>1. InRing(s[i], g, d + (i - 1))
      BY <1>1
    <3>2. InRing(s[i], g, d2 + (i - 1))' /\ i \in 1..Len(r)
      BY <1>3, <1>6, <2>1, <3>1
    <3> QED
      BY <1>2, <3>2
  <2>3. r[Len(s) + 1] = m
    <3>1. d2 + ((Len(s) + 1) - 1) = e /\ Len(s) + 1 \in 1..Len(r)
      BY <1>1, <1>2, <1>6, <2>1
    <3>2. InRing(m, g, e)'
      BY <1>1, <1>6
    <3> QED
      BY <1>2, <3>1, <3>2
  <2>4. /\ Append(s, m) \in Seq(Nodes) /\ Len(Append(s, m)) = Len(s) + 1
        /\ \A i \in 1..Len(s) : Append(s, m)[i] = s[i]
        /\ Append(s, m)[Len(s) + 1] = m
    BY <1>1
  <2>5. r = Append(s, m)
    <3> DEFINE a == Append(s, m)
    <3>1. a \in Seq(Nodes) /\ Len(a) = Len(r)
      BY <2>1, <2>4
    <3>2. \A i \in 1..Len(r) : r[i] = a[i]
      BY <2>1, <2>2, <2>3, <2>4
    <3> HIDE DEF a
    <3>3. r = a
      BY <1>2, <3>1, <3>2, SameItems
    <3> QED
      BY <3>3 DEF a
  <2>6. Len(s) < Queue!Cap(g)
    BY <1>1, <1>6, Sizes
  <2> QED
    BY <2>5, <2>6 DEF Queue!Ring!Next, Queue!Ring!Put
<1>7. ASSUME e2 = e, d2 = d + 1, d < e,
             \A n \in Nodes : \A k \in Nat :
                InRing(n, g, k)' <=> InRing(n, g, k) /\ k # d
      PROVE  Queue!Ring(g)!Next
  <2>1. Len(s) \in Nat /\ Len(s) > 0 /\ Len(r) = Len(s) - 1
    BY <1>1, <1>2, <1>7
  <2>2. ASSUME NEW i \in 1..Len(r)
        PROVE  r[i] = s[i + 1]
    <3> DEFINE j == i + 1
    <3>1. j \in 1..Len(s) /\ d + (j - 1) = d2 + (i - 1)
          /\ d + (j - 1) # d
      BY <1>1, <1>7, <2>1
    <3> HIDE DEF j
    <3>2. InRing(s[j], g, d + (j - 1))
      BY <1>1, <3>1
    <3>3. InRing(s[j], g, d2 + (i - 1))'
      BY <1>3, <1>7, <3>1, <3>2
    <3>4. s[j] = r[i]
      BY <1>2, <3>3
    <3> QED
      BY <3>4 DEF j
  <2>3. s # <<>>
    BY <2>1
  <2>4. /\ Tail(s) \in Seq(Nodes) /\ Len(Tail(s)) = Len(s) - 1
        /\ \A i \in 1..Len(s) - 1 : Tail(s)[i] = s[i + 1]
    BY <1>1, <2>1, <2>3
  <2>5. r = Tail(s)
    <3> DEFINE a == Tail(s)
    <3>1. a \in Seq(Nodes) /\ Len(a) = Len(r) /\ \A i \in 1..Len(r) : r[i] = a[i]
      BY <2>1, <2>2, <2>4
    <3> HIDE DEF a
    <3>2. r = a
      BY <1>2, <3>1, SameItems
    <3> QED
      BY <3>2 DEF a
  <2> QED
    BY <2>3, <2>5 DEF Queue!Ring!Next, Queue!Ring!Take
<1>8. CASE Keeps
  BY <1>5, <1>8, Nexts DEF Keeps
<1>9. ASSUME NEW h \in Generations, PushAt(h) < PopAt(h) + Queue!Cap(h), NEW m \in Nodes, Puts(h, m)
      PROVE  Queue!Ring(g)!Next \/ UNCHANGED Queue!Contents(g)
  <2>1. CASE g = h
    <3>1. /\ e2 = e + 1 /\ d2 = d
          /\ \A n \in Nodes : \A k \in Nat :
                InRing(n, g, k)' <=> InRing(n, g, k) \/ (n = m /\ k = e)
      BY <1>9, <2>1, Nexts DEF Puts
    <3> QED
      BY <1>6, <1>9, <2>1, <3>1
  <2>2. CASE g # h
    <3>1. /\ e2 = e /\ d2 = d
          /\ \A n \in Nodes : \A k \in Nat : InRing(n, g, k)' <=> InRing(n, g, k)
      BY <1>9, <2>2, Nexts DEF Puts
    <3> QED
      BY <1>5, <3>1
  <2> QED
    BY <2>1, <2>2
<1>10. ASSUME NEW h \in Generations, PopAt(h) < PushAt(h), Takes(h)
       PROVE  Queue!Ring(g)!Next \/ UNCHANGED Queue!Contents(g)
  <2>1. CASE g = h
    <3>1. /\ e2 = e /\ d2 = d + 1
          /\ \A n \in Nodes : \A k \in Nat : InRing(n, g, k)' <=> InRing(n, g, k) /\ k # d
      BY <1>10, <2>1, Nexts DEF Takes
    <3> QED
      BY <1>7, <1>10, <2>1, <3>1
  <2>2. CASE g # h
    <3>1. /\ e2 = e /\ d2 = d
          /\ \A n \in Nodes : \A k \in Nat : InRing(n, g, k)' <=> InRing(n, g, k)
      BY <1>10, <2>2, Nexts DEF Takes
    <3> QED
      BY <1>5, <3>1
  <2> QED
    BY <2>1, <2>2
<1> QED
  BY <1>8, <1>9, <1>10 DEF Moves

LEMMA QueueIsFIFO ==
  ASSUME RingsTold, RingsTold', Moves, NEW g \in Generations
  PROVE  Queue!Ring(g)!Next \/ UNCHANGED Queue!Contents(g)
BY RingIsFIFO

LEMMA QueueStepIsFIFO ==
  ASSUME QueueIInv, QueueIInv', Moves
  PROVE  \A g \in Generations : Queue!Ring(g)!Next \/ UNCHANGED Queue!Contents(g)
<1>1. QueueIInv' => RingsTold'
  BY QueueTellsRings, PTL
<1> QED
  BY <1>1, QueueTellsRings, QueueIsFIFO

\* A step of the queue's part of the run is a step of the queue, any other leaves it alone.
LEMMA QueueMoves ==
  QueueIInv /\ [MCNext]_<<part, vars, queueVars>> => QueueIInv' /\ (Moves \/ UNCHANGED queueVars)
<1> SUFFICES ASSUME QueueIInv, [MCNext]_<<part, vars, queueVars>>
             PROVE  QueueIInv' /\ (Moves \/ UNCHANGED queueVars)
  OBVIOUS
<1>1. CASE Queue!Next
  BY <1>1, QueueNext
<1>2. CASE UNCHANGED queueVars
  <2>1. UNCHANGED Queue!vars
    BY <1>2 DEF queueVars, Queue!vars, Queue!rings, Queue!locals
  <2> QED
    BY <1>2, <2>1, QueueStutters
<1> QED
  BY <1>1, <1>2 DEF MCNext

LEMMA QueueStarts == MCInit => QueueIInv
BY QueueInit DEF MCInit

LEMMA QueueTold == QueueIInv => QueueTellsTruth
BY QueueImpliesTypes, QueueImpliesCellHeldOnce, QueueImpliesNodeOnce, QueueImpliesRefusals
   DEF QueueTellsTruth, Queue!RingInv

\* However calls of try_push and try_pop overlap, generations are created, mappings fail and
\* the sequence words wrap: a cell is in the hands of one thread at a time, a node is owned by
\* one thread, carried by one call or at one position of one generation, a pop gives up on a
\* generation only if it is empty or its oldest claim is not published yet, and a push only if
\* it is full or its next cell is still in the hands of a pop.
THEOREM QueueIsTruthful == MCSpec => []QueueTellsTruth
BY QueueStarts, QueueMoves, QueueTold, PTL DEF MCSpec

\* Each generation hands its nodes out in the order in which pushes claimed its cells, holds
\* no more than its capacity and loses none, across the wrap of the sequence words.
THEOREM QueueIsFirstInFirstOut == MCSpec => GenerationsAreFIFO
<1>1. QueueIInv /\ [MCNext]_<<part, vars, queueVars>> => QueueIInv'
  BY QueueMoves
<1>2. QueueIInv /\ [MCNext]_<<part, vars, queueVars>> =>
         [\A g \in Generations : Queue!Ring(g)!Next \/ UNCHANGED Queue!Contents(g)]_(Queue!vars)
  <2> SUFFICES ASSUME QueueIInv, [MCNext]_<<part, vars, queueVars>>, ~UNCHANGED Queue!vars
               PROVE  \A g \in Generations : Queue!Ring(g)!Next \/ UNCHANGED Queue!Contents(g)
    OBVIOUS
  <2>1. QueueIInv' /\ (Moves \/ UNCHANGED queueVars)
    BY QueueMoves
  <2>2. ~UNCHANGED queueVars
    BY DEF queueVars, Queue!vars, Queue!rings, Queue!locals
  <2> QED
    BY <2>1, <2>2, QueueStepIsFIFO
<1> QED
  BY <1>1, <1>2, QueueStarts, PTL DEF MCSpec, GenerationsAreFIFO, Queue!GenerationsAreFIFO
=============================================================================
