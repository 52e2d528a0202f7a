------------------------- MODULE AsyncContextProofs -------------------------
(***************************************************************************)
(* Proofs about AsyncContext for any workers, any finite set of requests   *)
(* and any bounds.                                                         *)
(***************************************************************************)
EXTENDS AsyncContext, FiniteSetTheorems, SequenceTheorems, TLAPS

Frame == [at : FramePlaces, req : Requests]

Typed ==
    /\ outstanding \in Nat /\ pending \in Nat
    /\ drain \in Threads \cup {None} /\ ring \in Threads \cup {None}
    /\ completions \in Seq(Requests \cup {Stop}) /\ inKernel \subseteq Requests
    /\ at \in [Threads -> LoopPlaces \cup JoinPlaces \cup {"exited"}]
    /\ work \in [Threads -> Seq(Frame)]
    /\ reaped \in [Threads -> Requests \cup {Stop, None}]
    /\ pool \in {"none", "attached", "joining", "threw"}
    /\ crew \subseteq Workers
    /\ context \in {"live", "destroyed"}

\* A callback that starts or completes further transfers stands below them, and a worker
\* starts none but from callbacks.
StackKnown ==
    \A t \in Threads : \A i \in DOMAIN work[t] :
       /\ i < Len(work[t]) => work[t][i].at = "running"
       /\ t # Client /\ i = 1 => work[t][i].at \notin {"count", "submit"}

InRing(r) == \E i \in DOMAIN completions : completions[i] = r

\* A request is in one frame, in the kernel, or once on the completion ring.
RequestsApart ==
    /\ \A t, u \in Threads : \A i \in DOMAIN work[t], j \in DOMAIN work[u] :
          work[t][i].req = work[u][j].req => t = u /\ i = j
    /\ \A r \in Requests : r \in inKernel \/ InRing(r) =>
          \A t \in Threads : \A i \in DOMAIN work[t] : work[t][i].req # r
    /\ \A r \in inKernel : ~InRing(r)
    /\ \A i, j \in DOMAIN completions :
          completions[i] = completions[j] /\ completions[i] # Stop => i = j

\* One thread at a time reads the ring, and what it has copied is still there.
ReaderKnown ==
    /\ \A t \in Threads : at[t] \in {"reap", "advance"} => ring = t
    /\ \A t \in Threads : at[t] # "advance" => reaped[t] = None
    /\ \A t \in Threads : at[t] = "advance" =>
          completions # <<>> /\ reaped[t] = completions[1]

\* Where threads are while there is a pool and while there is none.
ThreadsKnown ==
    /\ \A t \in Threads : work[t] # <<>> => at[t] = IF t = Client THEN "out" ELSE "wait"
    /\ \A t \in Workers : IF t \in crew THEN at[t] \in {"wait", "reap", "advance", "exited"}
                                         ELSE at[t] = "out"
    /\ at[Client] # "exited"
    /\ pool = "joining" <=> at[Client] \in JoinPlaces
    /\ pool = "threw" => at[Client] = "out" /\ work[Client] = <<>>
    /\ at[Client] = "detach" => \A w \in crew : at[w] = "exited"
    /\ pool = "none" => crew = {}

\* The transfers in the kernel, on the ring, or in a frame at one of these places.
Has(r, places) ==
    \E t \in Threads : \E i \in DOMAIN work[t] : work[t][i].req = r /\ work[t][i].at \in places
Counted(places) == {r \in Requests : r \in inKernel \/ InRing(r) \/ Has(r, places)}

CountedByContext == {"submit", "release", "running", "settle"}
CountedByFile == {"count", "submit", "release"}

\* Both counts are those of sets of requests; a pool is stopped when nothing is
\* outstanding, and the context destroyed when nothing is left.
CountsKnown ==
    /\ outstanding = Cardinality(Counted(CountedByContext))
    /\ pending = Cardinality(Counted(CountedByFile))
    /\ at[Client] \in {"stop", "await", "detach"} => outstanding = 0
    /\ context = "destroyed" => /\ pool = "none" /\ at[Client] = "out"
                                /\ \A r \in Requests : r \notin Counted(FramePlaces)

IInv == /\ Typed /\ StackKnown /\ RequestsApart /\ ReaderKnown /\ ThreadsKnown
        /\ CountsKnown

\* A frame comes on top of a thread's stack.
Comes(t, place, r) == work' = [work EXCEPT ![t] = Append(@, [at |-> place, req |-> r])]

-----------------------------------------------------------------------------
(* Stacks of frames. *)

LEMMA FramesAre ==
  ASSUME Typed, NEW t \in Threads
  PROVE  /\ work[t] \in Seq(Frame) /\ Len(work[t]) \in Nat
         /\ DOMAIN work[t] = 1..Len(work[t])
         /\ work[t] # <<>> <=> Len(work[t]) > 0
         /\ \A i \in 1..Len(work[t]) : /\ work[t][i] \in Frame
                                       /\ work[t][i].at \in FramePlaces
                                       /\ work[t][i].req \in Requests
<1>1. work[t] \in Seq(Frame)
  BY DEF Typed
<1>2. Len(work[t]) \in Nat /\ DOMAIN work[t] = 1..Len(work[t])
      /\ (work[t] # <<>> <=> Len(work[t]) > 0)
  BY <1>1
<1>3. \A i \in 1..Len(work[t]) : work[t][i] \in Frame
  BY <1>1, <1>2
<1> QED
  BY <1>1, <1>2, <1>3 DEF Frame

\* The frame on top goes to another place.
LEMMA TopMoves ==
  ASSUME Typed, NEW t \in Threads, work[t] # <<>>, NEW q \in FramePlaces, Step(t, q)
  PROVE  /\ work' \in [Threads -> Seq(Frame)]
         /\ \A u \in Threads \ {t} : work'[u] = work[u]
         /\ Len(work'[t]) = Len(work[t])
         /\ \A i \in 1..Len(work[t]) :
               /\ work'[t][i].req = work[t][i].req
               /\ work'[t][i].at = IF i = Len(work[t]) THEN q ELSE work[t][i].at
<1> DEFINE n == Len(work[t])
           s == [work[t] EXCEPT ![n].at = q]
<1>1. n \in Nat /\ n > 0 /\ DOMAIN work[t] = 1..n
  BY FramesAre
<1>2. \A i \in 1..n : work[t][i] \in Frame
  BY FramesAre
<1>3. DOMAIN s = 1..n /\ \A i \in 1..n : s[i] = IF i = n THEN [work[t][n] EXCEPT !.at = q]
                                                         ELSE work[t][i]
  BY <1>1
<1>4. \A i \in 1..n : /\ s[i] \in Frame /\ s[i].req = work[t][i].req
                      /\ s[i].at = IF i = n THEN q ELSE work[t][i].at
  BY <1>1, <1>2, <1>3 DEF Frame
<1>5. s \in Seq(Frame) /\ Len(s) = n
  <2> DEFINE e == [work[t][n] EXCEPT !.at = q]
  <2>1. e \in Frame
    BY <1>1, <1>2 DEF Frame
  <2>2. s = [work[t] EXCEPT ![n] = e]
    OBVIOUS
  <2>3. work[t] \in Seq(Frame) /\ n \in 1..Len(work[t])
    BY <1>1, FramesAre
  <2> HIDE DEF e, s
  <2>4. [work[t] EXCEPT ![n] = e] \in Seq(Frame) /\ Len([work[t] EXCEPT ![n] = e]) = Len(work[t])
    BY <2>1, <2>3, ExceptSeq
  <2> QED
    BY <2>2, <2>4
<1>6. work' = [work EXCEPT ![t] = s]
  BY DEF Step
<1> HIDE DEF s, n
<1>7. work'[t] = s /\ work' \in [Threads -> Seq(Frame)]
      /\ \A u \in Threads \ {t} : work'[u] = work[u]
  BY <1>5, <1>6 DEF Typed
<1> QED
  BY <1>4, <1>5, <1>7 DEF n

\* The frame on top is left.
LEMMA TopLeaves ==
  ASSUME Typed, NEW t \in Threads, work[t] # <<>>, Leave(t)
  PROVE  /\ work' \in [Threads -> Seq(Frame)]
         /\ \A u \in Threads \ {t} : work'[u] = work[u]
         /\ Len(work'[t]) = Len(work[t]) - 1
         /\ \A i \in 1..Len(work[t]) - 1 : work'[t][i] = work[t][i]
<1> DEFINE n == Len(work[t])
           s == SubSeq(work[t], 1, n - 1)
<1>1. n \in Nat /\ n > 0 /\ work[t] \in Seq(Frame)
  BY FramesAre
<1>2. s \in Seq(Frame) /\ Len(s) = n - 1 /\ \A i \in 1..n - 1 : s[i] = work[t][i]
  BY <1>1
<1>3. work' = [work EXCEPT ![t] = s]
  BY DEF Leave, Front
<1> HIDE DEF s, n
<1>4. work'[t] = s /\ work' \in [Threads -> Seq(Frame)]
      /\ \A u \in Threads \ {t} : work'[u] = work[u]
  BY <1>2, <1>3 DEF Typed
<1> QED
  BY <1>2, <1>4 DEF n

\* A frame comes on top.
LEMMA FrameComes ==
  ASSUME Typed, NEW t \in Threads, NEW p \in FramePlaces, NEW r \in Requests,
         Comes(t, p, r)
  PROVE  /\ work' \in [Threads -> Seq(Frame)]
         /\ \A u \in Threads \ {t} : work'[u] = work[u]
         /\ Len(work'[t]) = Len(work[t]) + 1
         /\ \A i \in 1..Len(work[t]) : work'[t][i] = work[t][i]
         /\ work'[t][Len(work[t]) + 1].at = p /\ work'[t][Len(work[t]) + 1].req = r
<1> DEFINE f == [at |-> p, req |-> r]
           s == Append(work[t], f)
<1>1. f \in Frame
  BY DEF Frame
<1>2. work[t] \in Seq(Frame) /\ Len(work[t]) \in Nat
  BY FramesAre
<1> HIDE DEF f
<1>3. /\ s \in Seq(Frame) /\ Len(s) = Len(work[t]) + 1
      /\ \A i \in 1..Len(work[t]) : s[i] = work[t][i]
      /\ s[Len(work[t]) + 1] = f
  BY <1>1, <1>2
<1>4. work' = [work EXCEPT ![t] = s]
  BY DEF f, Comes
<1> HIDE DEF s
<1>5. work'[t] = s /\ work' \in [Threads -> Seq(Frame)]
      /\ \A u \in Threads \ {t} : work'[u] = work[u]
  BY <1>3, <1>4 DEF Typed
<1> QED
  BY <1>3, <1>5 DEF f

\* The completion ring grows at its end and shrinks at its front.
LEMMA RingGrows ==
  ASSUME Typed, NEW c \in Requests \cup {Stop}, completions' = Append(completions, c)
  PROVE  /\ completions' \in Seq(Requests \cup {Stop}) /\ completions' # <<>>
         /\ DOMAIN completions = 1..Len(completions) /\ Len(completions) \in Nat
         /\ DOMAIN completions' = 1..Len(completions) + 1
         /\ \A i \in 1..Len(completions) : completions'[i] = completions[i]
         /\ completions'[Len(completions) + 1] = c
         /\ \A r : InRing(r)' <=> InRing(r) \/ r = c
<1>1. completions \in Seq(Requests \cup {Stop}) /\ Len(completions) \in Nat
      /\ DOMAIN completions = 1..Len(completions)
  BY DEF Typed
<1>2. /\ completions' \in Seq(Requests \cup {Stop}) /\ Len(completions') = Len(completions) + 1
      /\ \A i \in 1..Len(completions) : completions'[i] = completions[i]
      /\ completions'[Len(completions) + 1] = c
  BY <1>1
<1>3. DOMAIN completions' = 1..Len(completions) + 1 /\ completions' # <<>>
  BY <1>1, <1>2
<1>4. \A r : InRing(r)' <=> InRing(r) \/ r = c
  <2> TAKE r
  <2>1. ASSUME InRing(r)' PROVE InRing(r) \/ r = c
    <3>1. PICK i \in 1..Len(completions) + 1 : completions'[i] = r
      BY <1>3, <2>1 DEF InRing
    <3>2. CASE i = Len(completions) + 1
      BY <1>2, <3>1, <3>2
    <3>3. CASE i \in 1..Len(completions)
      BY <1>1, <1>2, <3>1, <3>3 DEF InRing
    <3> QED
      BY <1>1, <3>1, <3>2, <3>3
  <2>2. ASSUME InRing(r) PROVE InRing(r)'
    <3>1. PICK i \in 1..Len(completions) : completions[i] = r
      BY <1>1, <2>2 DEF InRing
    <3>2. i \in DOMAIN completions' /\ completions'[i] = r
      BY <1>1, <1>2, <1>3, <3>1
    <3> QED
      BY <3>2 DEF InRing
  <2>3. ASSUME r = c PROVE InRing(r)'
    <3>1. Len(completions) + 1 \in DOMAIN completions'
      BY <1>1, <1>3
    <3> QED
      BY <1>2, <2>3, <3>1 DEF InRing
  <2> QED
    BY <2>1, <2>2, <2>3
<1> QED
  BY <1>1, <1>2, <1>3, <1>4

LEMMA RingShrinks ==
  ASSUME Typed, completions # <<>>, completions' = Tail(completions)
  PROVE  /\ completions' \in Seq(Requests \cup {Stop}) /\ 1 \in DOMAIN completions
         /\ DOMAIN completions = 1..Len(completions) /\ Len(completions) \in Nat
         /\ DOMAIN completions' = 1..Len(completions) - 1
         /\ \A i \in 1..Len(completions) - 1 : completions'[i] = completions[i + 1]
         /\ \A r : InRing(r) <=> InRing(r)' \/ r = completions[1]
<1>1. completions \in Seq(Requests \cup {Stop}) /\ Len(completions) \in Nat
      /\ DOMAIN completions = 1..Len(completions) /\ Len(completions) > 0
  BY DEF Typed
<1>2. /\ completions' \in Seq(Requests \cup {Stop}) /\ Len(completions') = Len(completions) - 1
      /\ \A i \in 1..Len(completions) - 1 : completions'[i] = completions[i + 1]
  BY <1>1
<1>3. DOMAIN completions' = 1..Len(completions) - 1 /\ 1 \in DOMAIN completions
  BY <1>1, <1>2
<1>4. \A r : InRing(r) <=> InRing(r)' \/ r = completions[1]
  <2> TAKE r
  <2>1. ASSUME InRing(r), r # completions[1] PROVE InRing(r)'
    <3>1. PICK i \in 1..Len(completions) : completions[i] = r
      BY <1>1, <2>1 DEF InRing
    <3>2. i - 1 \in 1..Len(completions) - 1 /\ (i - 1) + 1 = i
      BY <1>1, <2>1, <3>1
    <3>3. completions'[i - 1] = r
      BY <1>2, <3>1, <3>2
    <3> QED
      BY <1>3, <3>2, <3>3 DEF InRing
  <2>2. ASSUME InRing(r)' PROVE InRing(r)
    <3>1. PICK i \in 1..Len(completions) - 1 : completions'[i] = r
      BY <1>3, <2>2 DEF InRing
    <3>2. i + 1 \in DOMAIN completions /\ completions[i + 1] = r
      BY <1>1, <1>2, <3>1
    <3> QED
      BY <3>2 DEF InRing
  <2>3. ASSUME r = completions[1] PROVE InRing(r)
    BY <1>3, <2>3 DEF InRing
  <2> QED
    BY <2>1, <2>2, <2>3
<1> QED
  BY <1>1, <1>2, <1>3, <1>4

-----------------------------------------------------------------------------
(* Where a step takes a request. *)

\* The request on top of a stack is nowhere else.
LEMMA OnTop ==
  ASSUME Typed, RequestsApart, NEW t \in Threads, work[t] # <<>>,
         NEW x, x = work[t][Len(work[t])].req
  PROVE  /\ x \in Requests /\ x \notin inKernel /\ ~InRing(x)
         /\ \A P : Has(x, P) <=> work[t][Len(work[t])].at \in P
         /\ \A P : x \in Counted(P) <=> work[t][Len(work[t])].at \in P
         /\ \A u \in Threads : \A i \in DOMAIN work[u] :
               work[u][i].req = x => u = t /\ i = Len(work[t])
<1>1. Len(work[t]) \in DOMAIN work[t] /\ x \in Requests
  BY FramesAre
<1>2. x \notin inKernel /\ ~InRing(x)
  BY <1>1 DEF RequestsApart
<1>3. \A u \in Threads : \A i \in DOMAIN work[u] :
         work[u][i].req = x => u = t /\ i = Len(work[t])
  BY <1>1 DEF RequestsApart
<1>4. \A P : Has(x, P) <=> work[t][Len(work[t])].at \in P
  BY <1>1, <1>3 DEF Has
<1> QED
  BY <1>1, <1>2, <1>3, <1>4 DEF Counted

LEMMA StepCounts ==
  ASSUME Typed, RequestsApart, NEW t \in Threads, work[t] # <<>>,
         NEW q \in FramePlaces, Step(t, q), UNCHANGED <<inKernel, completions>>,
         NEW x, x = work[t][Len(work[t])].req
  PROVE  /\ RequestsApart'
         /\ \A P : Counted(P)' = IF q \in P THEN Counted(P) \cup {x} ELSE Counted(P) \ {x}
<1> DEFINE n == Len(work[t])
<1>1. /\ \A u \in Threads \ {t} : work'[u] = work[u]
      /\ DOMAIN work'[t] = DOMAIN work[t] /\ n \in DOMAIN work[t]
      /\ \A i \in DOMAIN work[t] : /\ work'[t][i].req = work[t][i].req
                                   /\ work'[t][i].at = IF i = n THEN q ELSE work[t][i].at
  <2>1. work'[t] \in Seq(Frame)
    BY TopMoves
  <2>2. DOMAIN work'[t] = 1..Len(work'[t])
    BY <2>1
  <2> QED
    BY <2>2, FramesAre, TopMoves
<1>2. \A u \in Threads : /\ DOMAIN work'[u] = DOMAIN work[u]
                         /\ \A i \in DOMAIN work[u] :
                               /\ work'[u][i].req = work[u][i].req
                               /\ ~(u = t /\ i = n) => work'[u][i].at = work[u][i].at
  BY <1>1
<1>3. \A r : InRing(r)' <=> InRing(r)
  BY DEF InRing
<1>4. /\ x \in Requests /\ x \notin inKernel /\ ~InRing(x)
      /\ \A u \in Threads : \A i \in DOMAIN work[u] : work[u][i].req = x => u = t /\ i = n
  BY OnTop
<1> HIDE DEF n
<1>5. RequestsApart'
  <2>1. \A t1, u \in Threads : \A i \in DOMAIN work'[t1], j \in DOMAIN work'[u] :
           work'[t1][i].req = work'[u][j].req => t1 = u /\ i = j
    BY <1>2 DEF RequestsApart
  <2>2. \A r \in Requests : r \in inKernel' \/ InRing(r)' =>
           \A u \in Threads : \A i \in DOMAIN work'[u] : work'[u][i].req # r
    BY <1>2, <1>3 DEF RequestsApart
  <2>3. \A r \in inKernel' : ~InRing(r)'
    BY DEF RequestsApart, InRing
  <2>4. \A i, j \in DOMAIN completions' :
           completions'[i] = completions'[j] /\ completions'[i] # Stop => i = j
    BY DEF RequestsApart
  <2> QED
    BY <2>1, <2>2, <2>3, <2>4 DEF RequestsApart
<1>6. ASSUME NEW P, NEW r \in Requests, r # x PROVE Has(r, P)' <=> Has(r, P)
  <2>1. x = work[t][n].req
    BY DEF n
  <2>2. \A u \in Threads : \A i \in DOMAIN work[u] :
           work[u][i].req = r => work'[u][i].at = work[u][i].at
    BY <1>2, <1>6, <2>1
  <2> QED
    BY <1>2, <2>2 DEF Has
<1>7. ASSUME NEW P PROVE Has(x, P)' <=> q \in P
  <2>1. \A u \in Threads : \A i \in DOMAIN work'[u] : work'[u][i].req = x => u = t /\ i = n
    BY <1>2, <1>4
  <2>2. n \in DOMAIN work'[t] /\ work'[t][n].req = x /\ work'[t][n].at = q
    BY <1>1 DEF n
  <2> QED
    BY <2>1, <2>2 DEF Has
<1>8. ASSUME NEW P
      PROVE  Counted(P)' = IF q \in P THEN Counted(P) \cup {x} ELSE Counted(P) \ {x}
  <2>1. ASSUME NEW r \in Requests, r # x PROVE r \in Counted(P)' <=> r \in Counted(P)
    BY <1>3, <1>6, <2>1 DEF Counted
  <2>2. x \in Counted(P)' <=> q \in P
    BY <1>3, <1>4, <1>7 DEF Counted
  <2>3. Counted(P) \subseteq Requests /\ Counted(P)' \subseteq Requests
    BY DEF Counted
  <2> QED
    BY <1>4, <2>1, <2>2, <2>3
<1> QED
  BY <1>5, <1>8

\* A frame is left, and the kernel may have taken its request.
LEMMA LeaveCounts ==
  ASSUME Typed, RequestsApart, NEW t \in Threads, work[t] # <<>>, Leave(t),
         UNCHANGED completions,
         NEW x, x = work[t][Len(work[t])].req,
         \/ inKernel' = inKernel
         \/ inKernel' = inKernel \cup {x}
  PROVE  /\ RequestsApart'
         /\ \A P : Counted(P)' = IF x \in inKernel' THEN Counted(P) \cup {x}
                                 ELSE Counted(P) \ {x}
<1> DEFINE n == Len(work[t])
<1>1. /\ \A u \in Threads \ {t} : work'[u] = work[u]
      /\ n \in Nat /\ DOMAIN work[t] = 1..n /\ n > 0
      /\ DOMAIN work'[t] = 1..n - 1
      /\ \A i \in 1..n - 1 : work'[t][i] = work[t][i]
  <2>1. work'[t] \in Seq(Frame)
    BY TopLeaves
  <2>2. DOMAIN work'[t] = 1..Len(work'[t])
    BY <2>1
  <2> QED
    BY <2>2, FramesAre, TopLeaves
<1>2. /\ x \in Requests /\ x \notin inKernel /\ ~InRing(x)
      /\ \A u \in Threads : \A i \in DOMAIN work[u] : work[u][i].req = x => u = t /\ i = n
  BY OnTop
<1> HIDE DEF n
<1>3. \A u \in Threads : \A i \in DOMAIN work'[u] :
         i \in DOMAIN work[u] /\ work'[u][i] = work[u][i] /\ ~(u = t /\ i = n)
  <2>1. \A i \in 1..n - 1 : i \in 1..n /\ i # n
    BY <1>1
  <2> QED
    BY <1>1, <2>1
<1>4. \A u \in Threads : \A i \in DOMAIN work[u] : ~(u = t /\ i = n) => i \in DOMAIN work'[u]
  <2>1. \A i \in 1..n : i # n => i \in 1..n - 1
    BY <1>1
  <2> QED
    BY <1>1, <2>1
<1>5. \A r : InRing(r)' <=> InRing(r)
  BY DEF InRing
<1>6. \A u \in Threads : \A i \in DOMAIN work'[u] : work'[u][i].req # x
  BY <1>2, <1>3
<1>7. RequestsApart'
  <2>1. \A t1, u \in Threads : \A i \in DOMAIN work'[t1], j \in DOMAIN work'[u] :
           work'[t1][i].req = work'[u][j].req => t1 = u /\ i = j
    BY <1>3 DEF RequestsApart
  <2>2. \A r \in Requests : r \in inKernel' \/ InRing(r)' =>
           \A u \in Threads : \A i \in DOMAIN work'[u] : work'[u][i].req # r
    BY <1>2, <1>3, <1>5, <1>6 DEF RequestsApart
  <2>3. \A r \in inKernel' : ~InRing(r)'
    BY <1>2, <1>5 DEF RequestsApart
  <2>4. \A i, j \in DOMAIN completions' :
           completions'[i] = completions'[j] /\ completions'[i] # Stop => i = j
    BY DEF RequestsApart
  <2> QED
    BY <2>1, <2>2, <2>3, <2>4 DEF RequestsApart
<1>8. ASSUME NEW P, NEW r \in Requests, r # x PROVE Has(r, P)' <=> Has(r, P)
  <2>1. x = work[t][n].req
    BY DEF n
  <2>2. \A u \in Threads : \A i \in DOMAIN work[u] : work[u][i].req = r => ~(u = t /\ i = n)
    BY <1>8, <2>1
  <2> QED
    BY <1>3, <1>4, <2>2 DEF Has
<1>9. ASSUME NEW P PROVE ~Has(x, P)'
  BY <1>6 DEF Has
<1>10. ASSUME NEW P
       PROVE  Counted(P)' = IF x \in inKernel' THEN Counted(P) \cup {x} ELSE Counted(P) \ {x}
  <2>1. ASSUME NEW r \in Requests, r # x PROVE r \in Counted(P)' <=> r \in Counted(P)
    BY <1>5, <1>8, <2>1 DEF Counted
  <2>2. x \in Counted(P)' <=> x \in inKernel'
    BY <1>2, <1>5, <1>9 DEF Counted
  <2>3. Counted(P) \subseteq Requests /\ Counted(P)' \subseteq Requests
    BY DEF Counted
  <2> QED
    BY <1>2, <2>1, <2>2, <2>3
<1> QED
  BY <1>7, <1>10

\* A frame comes for a request that is nowhere, or was the first on the ring.
LEMMA FrameCounts ==
  ASSUME Typed, RequestsApart, NEW t \in Threads, NEW p \in FramePlaces, NEW r \in Requests,
         Comes(t, p, r),
         inKernel' = inKernel,
         \/ completions' = completions /\ r \notin Counted(FramePlaces)
         \/ completions # <<>> /\ completions' = Tail(completions) /\ r = completions[1]
  PROVE  /\ RequestsApart'
         /\ \A P : Counted(P)' = IF p \in P THEN Counted(P) \cup {r} ELSE Counted(P) \ {r}
<1> DEFINE n == Len(work[t])
<1>1. /\ \A u \in Threads \ {t} : work'[u] = work[u]
      /\ n \in Nat /\ DOMAIN work[t] = 1..n
      /\ DOMAIN work'[t] = 1..n + 1
      /\ \A i \in 1..n : work'[t][i] = work[t][i]
      /\ work'[t][n + 1].at = p /\ work'[t][n + 1].req = r
  <2>1. work'[t] \in Seq(Frame)
    BY FrameComes
  <2>2. DOMAIN work'[t] = 1..Len(work'[t])
    BY <2>1
  <2>3. Len(work'[t]) = n + 1 /\ \A u \in Threads \ {t} : work'[u] = work[u]
    BY FrameComes
  <2>4. \A i \in 1..n : work'[t][i] = work[t][i]
    BY FrameComes
  <2>5. work'[t][n + 1].at = p /\ work'[t][n + 1].req = r
    BY FrameComes
  <2> QED
    BY <2>2, <2>3, <2>4, <2>5, FramesAre
<1> HIDE DEF n
<1>2. \A u \in Threads : \A i \in DOMAIN work[u] :
         i \in DOMAIN work'[u] /\ work'[u][i] = work[u][i] /\ ~(u = t /\ i = n + 1)
  <2>1. \A i \in 1..n : i \in 1..n + 1 /\ i # n + 1
    BY <1>1
  <2> QED
    BY <1>1, <2>1
<1>3. \A u \in Threads : \A i \in DOMAIN work'[u] :
         (u = t /\ i = n + 1) \/ i \in DOMAIN work[u]
  <2>1. \A i \in 1..n + 1 : i # n + 1 => i \in 1..n
    BY <1>1
  <2> QED
    BY <1>1, <2>1
<1>4. n + 1 \in DOMAIN work'[t] /\ work'[t][n + 1].req = r /\ work'[t][n + 1].at = p
  BY <1>1
<1>5. /\ r \notin inKernel
      /\ \A u \in Threads : \A i \in DOMAIN work[u] : work[u][i].req # r
      /\ ~InRing(r)'
      /\ \A c \in Requests : c # r => (InRing(c)' <=> InRing(c))
      /\ \A i, j \in DOMAIN completions' :
            completions'[i] = completions'[j] /\ completions'[i] # Stop => i = j
  <2>1. CASE completions' = completions /\ r \notin Counted(FramePlaces)
    <3>1. r \notin inKernel /\ ~InRing(r) /\ ~Has(r, FramePlaces)
      BY <2>1 DEF Counted
    <3>2. \A u \in Threads : \A i \in DOMAIN work[u] : work[u][i].at \in FramePlaces
      BY FramesAre
    <3> QED
      BY <2>1, <3>1, <3>2 DEF Has, InRing, RequestsApart
  <2>2. CASE completions # <<>> /\ completions' = Tail(completions) /\ r = completions[1]
    <3>1. /\ DOMAIN completions = 1..Len(completions) /\ Len(completions) \in Nat
          /\ DOMAIN completions' = 1..Len(completions) - 1 /\ 1 \in DOMAIN completions
          /\ \A i \in 1..Len(completions) - 1 : completions'[i] = completions[i + 1]
          /\ \A c : InRing(c) <=> InRing(c)' \/ c = completions[1]
      BY <2>2, RingShrinks
    <3>2. InRing(r) /\ r # Stop
      BY <2>2, <3>1, ConstantTypes
    <3>3. r \notin inKernel /\ \A u \in Threads : \A i \in DOMAIN work[u] : work[u][i].req # r
      BY <3>2 DEF RequestsApart
    <3>4. \A i \in 1..Len(completions) - 1 : i + 1 \in DOMAIN completions /\ i + 1 # 1
      BY <3>1
    <3>5. \A i \in 1..Len(completions) - 1 : completions[i + 1] # r
      BY <2>2, <3>1, <3>2, <3>4 DEF RequestsApart
    <3>6. ~InRing(r)'
      BY <3>1, <3>5 DEF InRing
    <3>7. \A i, j \in DOMAIN completions' :
             completions'[i] = completions'[j] /\ completions'[i] # Stop => i = j
      <4> SUFFICES ASSUME NEW i \in DOMAIN completions', NEW j \in DOMAIN completions',
                          completions'[i] = completions'[j], completions'[i] # Stop
                   PROVE  i = j
        OBVIOUS
      <4>1. i + 1 = j + 1
        BY <3>1, <3>4 DEF RequestsApart
      <4> QED
        BY <3>1, <4>1
    <3> QED
      BY <2>2, <3>1, <3>3, <3>6, <3>7
  <2> QED
    BY <2>1, <2>2
<1>6. RequestsApart'
  <2>1. \A t1, u \in Threads : \A i \in DOMAIN work'[t1], j \in DOMAIN work'[u] :
           work'[t1][i].req = work'[u][j].req => t1 = u /\ i = j
    BY <1>2, <1>3, <1>4, <1>5 DEF RequestsApart
  <2>2. \A c \in Requests : c \in inKernel' \/ InRing(c)' =>
           \A u \in Threads : \A i \in DOMAIN work'[u] : work'[u][i].req # c
    <3> SUFFICES ASSUME NEW c \in Requests, c \in inKernel \/ InRing(c)',
                        NEW u \in Threads, NEW i \in DOMAIN work'[u]
                 PROVE  work'[u][i].req # c
      OBVIOUS
    <3>0. c # r
      BY <1>5
    <3>1. CASE u = t /\ i = n + 1
      BY <1>4, <3>0, <3>1
    <3>2. CASE i \in DOMAIN work[u]
      BY <1>2, <1>5, <3>0, <3>2 DEF RequestsApart
    <3> QED
      BY <1>3, <3>1, <3>2
  <2>3. \A c \in inKernel' : ~InRing(c)'
    BY <1>5 DEF RequestsApart, Typed
  <2> QED
    BY <1>5, <2>1, <2>2, <2>3 DEF RequestsApart
<1>7. ASSUME NEW P, NEW c \in Requests, c # r PROVE Has(c, P)' <=> Has(c, P)
  <2>1. ASSUME Has(c, P) PROVE Has(c, P)'
    BY <1>2, <2>1 DEF Has
  <2>2. ASSUME Has(c, P)' PROVE Has(c, P)
    <3>1. PICK u \in Threads : \E j \in DOMAIN work'[u] : work'[u][j].req = c /\ work'[u][j].at \in P
      BY <2>2 DEF Has
    <3>2. PICK i \in DOMAIN work'[u] : work'[u][i].req = c /\ work'[u][i].at \in P
      BY <3>1
    <3>3. i \in DOMAIN work[u]
      BY <1>3, <1>4, <1>7, <3>2
    <3> QED
      BY <1>2, <3>2, <3>3 DEF Has
  <2> QED
    BY <2>1, <2>2
<1>8. ASSUME NEW P PROVE Has(r, P)' <=> p \in P
  <2>1. \A u \in Threads : \A i \in DOMAIN work'[u] : work'[u][i].req = r => u = t /\ i = n + 1
    BY <1>2, <1>3, <1>5
  <2> QED
    BY <1>4, <2>1 DEF Has
<1>9. ASSUME NEW P
      PROVE  Counted(P)' = IF p \in P THEN Counted(P) \cup {r} ELSE Counted(P) \ {r}
  <2>1. ASSUME NEW c \in Requests, c # r PROVE c \in Counted(P)' <=> c \in Counted(P)
    BY <1>5, <1>7, <2>1 DEF Counted
  <2>2. r \in Counted(P)' <=> p \in P
    BY <1>5, <1>8 DEF Counted
  <2>3. Counted(P) \subseteq Requests /\ Counted(P)' \subseteq Requests
    BY DEF Counted
  <2> QED
    BY <2>1, <2>2, <2>3
<1> QED
  BY <1>6, <1>9

\* Steps that move no frame.
LEMMA QuietCounts ==
  ASSUME RequestsApart, UNCHANGED <<work, inKernel, completions>>
  PROVE  RequestsApart' /\ \A P : Counted(P)' = Counted(P)
<1>1. (\A r : InRing(r)' <=> InRing(r)) /\ (\A r, P : Has(r, P)' <=> Has(r, P))
  BY DEF InRing, Has
<1>2. RequestsApart'
  BY <1>1 DEF RequestsApart
<1>3. ASSUME NEW P PROVE Counted(P)' = Counted(P)
  BY <1>1 DEF Counted
<1> QED
  BY <1>2, <1>3

LEMMA RingCounts ==
  ASSUME Typed, RequestsApart, UNCHANGED work,
         \/ \E r \in inKernel : /\ inKernel' = inKernel \ {r}
                                /\ completions' = Append(completions, r)
         \/ inKernel' = inKernel /\ completions' = Append(completions, Stop)
         \/ /\ inKernel' = inKernel
            /\ completions # <<>> /\ completions[1] = Stop /\ completions' = Tail(completions)
  PROVE  RequestsApart' /\ \A P : Counted(P)' = Counted(P)
<1>1. \A r, P : Has(r, P)' <=> Has(r, P)
  BY DEF Has
<1>2. Stop \notin Requests /\ inKernel \subseteq Requests
  BY ConstantTypes DEF Typed
<1>3. /\ \A r \in Requests : r \in inKernel' \/ InRing(r)' <=> r \in inKernel \/ InRing(r)
      /\ \A r \in inKernel' : ~InRing(r)'
      /\ \A i, j \in DOMAIN completions' :
            completions'[i] = completions'[j] /\ completions'[i] # Stop => i = j
  <2>1. ASSUME NEW r \in inKernel, inKernel' = inKernel \ {r},
               completions' = Append(completions, r)
        PROVE  <1>3!:
    <3>1. /\ DOMAIN completions = 1..Len(completions) /\ Len(completions) \in Nat
          /\ DOMAIN completions' = 1..Len(completions) + 1
          /\ \A i \in 1..Len(completions) : completions'[i] = completions[i]
          /\ completions'[Len(completions) + 1] = r
          /\ \A c : InRing(c)' <=> InRing(c) \/ c = r
      BY <1>2, <2>1, RingGrows
    <3>2. ~InRing(r)
      BY DEF RequestsApart
    <3>3. \A i \in 1..Len(completions) : completions[i] # r
      BY <3>1, <3>2 DEF InRing
    <3>2a. Len(completions) \in Nat
      BY <3>1
    <3>4. \A i \in 1..Len(completions) + 1 :
             i = Len(completions) + 1 \/ i \in 1..Len(completions)
      BY <3>2a
    <3>5. \A i, j \in DOMAIN completions' :
             completions'[i] = completions'[j] /\ completions'[i] # Stop => i = j
      BY <3>1, <3>3, <3>4 DEF RequestsApart
    <3> QED
      BY <1>2, <2>1, <3>1, <3>5 DEF RequestsApart
  <2>2. ASSUME inKernel' = inKernel, completions' = Append(completions, Stop)
        PROVE  <1>3!:
    <3>1. /\ DOMAIN completions = 1..Len(completions) /\ Len(completions) \in Nat
          /\ DOMAIN completions' = 1..Len(completions) + 1
          /\ \A i \in 1..Len(completions) : completions'[i] = completions[i]
          /\ completions'[Len(completions) + 1] = Stop
          /\ \A c : InRing(c)' <=> InRing(c) \/ c = Stop
      BY <2>2, RingGrows
    <3>2a. Len(completions) \in Nat
      BY <3>1
    <3>4. \A i \in 1..Len(completions) + 1 :
             i = Len(completions) + 1 \/ i \in 1..Len(completions)
      BY <3>2a
    <3>5. \A i, j \in DOMAIN completions' :
             completions'[i] = completions'[j] /\ completions'[i] # Stop => i = j
      BY <3>1, <3>4 DEF RequestsApart
    <3> QED
      BY <1>2, <2>2, <3>1, <3>5 DEF RequestsApart
  <2>3. ASSUME inKernel' = inKernel, completions # <<>>, completions[1] = Stop,
               completions' = Tail(completions)
        PROVE  <1>3!:
    <3>1. /\ DOMAIN completions = 1..Len(completions) /\ Len(completions) \in Nat
          /\ DOMAIN completions' = 1..Len(completions) - 1
          /\ \A i \in 1..Len(completions) - 1 : completions'[i] = completions[i + 1]
          /\ \A c : InRing(c) <=> InRing(c)' \/ c = Stop
      BY <2>3, RingShrinks
    <3>2. Len(completions) \in Nat
      BY <3>1
    <3>3. \A i \in 1..Len(completions) - 1 : i + 1 \in 1..Len(completions)
      BY <3>2
    <3>4. \A i \in 1..Len(completions) - 1 : i + 1 \in DOMAIN completions
      BY <3>1, <3>3
    <3>5. ASSUME NEW i \in DOMAIN completions', NEW j \in DOMAIN completions',
                 completions'[i] = completions'[j], completions'[i] # Stop
          PROVE  i = j
      <4>1. i + 1 \in DOMAIN completions /\ j + 1 \in DOMAIN completions
            /\ completions[i + 1] = completions[j + 1] /\ completions[i + 1] # Stop
        BY <3>1, <3>4, <3>5
      <4>2. i + 1 = j + 1
        BY <4>1 DEF RequestsApart
      <4>3. i \in 1..Len(completions) - 1 /\ j \in 1..Len(completions) - 1
        BY <3>1, <3>5
      <4> QED
        BY <3>2, <4>2, <4>3
    <3> QED
      BY <1>2, <2>3, <3>1, <3>5 DEF RequestsApart
  <2> QED
    BY <2>1, <2>2, <2>3
<1>4. RequestsApart'
  BY <1>3 DEF RequestsApart
<1>5. ASSUME NEW P PROVE Counted(P)' = Counted(P)
  BY <1>1, <1>3 DEF Counted
<1> QED
  BY <1>4, <1>5

-----------------------------------------------------------------------------
(* What each action does to the frames, the kernel and the ring. *)

\* A frame's step, by its thread, between two places.
LEMMA StandsIs ==
  ASSUME Typed, NEW t \in Threads, NEW p, Stands(t, p)
  PROVE  /\ work[t] # <<>> /\ work[t][Len(work[t])].at = p
         /\ Top(t).req = work[t][Len(work[t])].req
BY DEF Stands, Top, Last

LEMMA Counting ==
  ASSUME Typed, NEW P
  PROVE  /\ Counted(P) \subseteq Requests /\ IsFiniteSet(Counted(P))
         /\ Cardinality(Counted(P)) \in Nat
         /\ Cardinality(Counted(P)) = 0 <=> Counted(P) = {}
         /\ \A r \in Counted(P) : Cardinality(Counted(P) \ {r}) = Cardinality(Counted(P)) - 1
         /\ \A r : r \notin Counted(P) =>
               Cardinality(Counted(P) \cup {r}) = Cardinality(Counted(P)) + 1
<1>1. Counted(P) \subseteq Requests
  BY DEF Counted
<1>2. IsFiniteSet(Counted(P))
  BY <1>1, ConstantTypes, FS_Subset
<1> QED
  BY <1>1, <1>2, FS_CardinalityType, FS_EmptySet, FS_AddElement, FS_RemoveElement

\* A frame goes from p to q: the counts it must change.
LEMMA FrameStepCounts ==
  ASSUME Typed, RequestsApart, NEW t \in Threads, NEW p, NEW q \in FramePlaces,
         Stands(t, p), Step(t, q), UNCHANGED <<inKernel, completions>>
  PROVE  /\ RequestsApart'
         /\ \A P : (p \in P <=> q \in P) => Counted(P)' = Counted(P)
         /\ \A P : p \in P /\ q \notin P =>
               Cardinality(Counted(P)') = Cardinality(Counted(P)) - 1
         /\ \A P : p \notin P /\ q \in P =>
               Cardinality(Counted(P)') = Cardinality(Counted(P)) + 1
<1> DEFINE x == work[t][Len(work[t])].req
<1>1. work[t] # <<>> /\ work[t][Len(work[t])].at = p
  BY StandsIs
<1>2. \A P : x \in Counted(P) <=> p \in P
  BY <1>1, OnTop
<1>3. RequestsApart'
      /\ \A P : Counted(P)' = IF q \in P THEN Counted(P) \cup {x} ELSE Counted(P) \ {x}
  BY <1>1, StepCounts
<1> HIDE DEF x
<1>4. ASSUME NEW P, p \in P <=> q \in P PROVE Counted(P)' = Counted(P)
  BY <1>2, <1>3, <1>4
<1>5. ASSUME NEW P, p \in P, q \notin P
      PROVE  Cardinality(Counted(P)') = Cardinality(Counted(P)) - 1
  <2>1. x \in Counted(P) /\ Counted(P)' = Counted(P) \ {x}
    BY <1>2, <1>3, <1>5
  <2> QED
    BY <2>1, Counting
<1>6. ASSUME NEW P, p \notin P, q \in P
      PROVE  Cardinality(Counted(P)') = Cardinality(Counted(P)) + 1
  <2>1. x \notin Counted(P) /\ Counted(P)' = Counted(P) \cup {x}
    BY <1>2, <1>3, <1>6
  <2> QED
    BY <2>1, Counting
<1> QED
  BY <1>3, <1>4, <1>5, <1>6

\* The frames of client and workers: which steps they take there.
FrameStepOf(t) == \/ CountRequest(t) \/ Submit(t) \/ SubmitRefused(t) \/ ReleaseFile(t)
                  \/ EndCallback(t) \/ Settle(t) \/ NotifyDrained(t) \/ DeleteRequest(t)

\* The counts remain those of the sets they count.
LEMMA CountsFollow ==
  ASSUME IInv, [Next]_vars
  PROVE  /\ RequestsApart'
         /\ outstanding' = Cardinality(Counted(CountedByContext)')
         /\ pending' = Cardinality(Counted(CountedByFile)')
<1> DEFINE C == Counted(CountedByContext)
           F == Counted(CountedByFile)
<1>0. /\ Typed /\ RequestsApart /\ outstanding = Cardinality(C) /\ pending = Cardinality(F)
      /\ Cardinality(C) \in Nat /\ Cardinality(F) \in Nat
  <2>1. Typed /\ RequestsApart /\ outstanding = Cardinality(C) /\ pending = Cardinality(F)
    BY DEF IInv, CountsKnown
  <2> QED
    BY <2>1, Counting
<1>1. ASSUME NEW t \in Threads, NEW r \in Requests, Start(t, r)
      PROVE  /\ RequestsApart' /\ outstanding' = Cardinality(C') /\ pending' = Cardinality(F')
  <2>1. r \notin Counted(FramePlaces)
    <3>1. r \notin LiveRequests /\ r # Stop
      BY <1>1, ConstantTypes DEF Start
    <3>2. r \notin inKernel
      <4>1. \A e \in inKernel : e \in LiveRequests
        BY DEF LiveRequests
      <4> QED
        BY <3>1, <4>1
    <3>3. ~InRing(r)
      <4>1. \A i \in DOMAIN completions :
               completions[i] # Stop => completions[i] \in ToSet(completions) \ {Stop}
        BY DEF ToSet
      <4>2. \A e \in ToSet(completions) \ {Stop} : e \in LiveRequests
        BY DEF LiveRequests
      <4> QED
        BY <3>1, <4>1, <4>2 DEF InRing
    <3>4. ~Has(r, FramePlaces)
      <4>1. \A u \in Threads : \A i \in DOMAIN work[u] : work[u][i].req \in HeldBy(u)
        BY DEF HeldBy
      <4>2. \A u \in Threads : HeldBy(u) \subseteq LiveRequests
        BY DEF LiveRequests
      <4> QED
        BY <3>1, <4>1, <4>2 DEF Has
    <3> QED
      BY <3>2, <3>3, <3>4 DEF Counted
  <2>2. /\ Comes(t, "count", r)
        /\ UNCHANGED <<inKernel, completions, outstanding>> /\ pending' = pending + 1
    BY <1>1 DEF Start, kernel, Comes
  <2>3. "count" \in FramePlaces /\ "count" \notin CountedByContext /\ "count" \in CountedByFile
    BY DEF FramePlaces, CountedByContext, CountedByFile
  <2>3a. completions' = completions /\ inKernel' = inKernel
    BY <2>2
  <2>4. RequestsApart' /\ \A P : Counted(P)' = IF "count" \in P THEN Counted(P) \cup {r}
                                               ELSE Counted(P) \ {r}
    BY <1>0, <2>1, <2>2, <2>3, <2>3a, FrameCounts
  <2>5. r \notin C /\ r \notin F
    <3>1. \A P : P \subseteq FramePlaces => Counted(P) \subseteq Counted(FramePlaces)
      BY DEF Counted, Has
    <3>2. CountedByContext \subseteq FramePlaces /\ CountedByFile \subseteq FramePlaces
      BY DEF FramePlaces, CountedByContext, CountedByFile
    <3> QED
      BY <2>1, <3>1, <3>2
  <2>6. C' = C /\ F' = F \cup {r}
    BY <2>3, <2>4, <2>5
  <2>7. Cardinality(F \cup {r}) = Cardinality(F) + 1
    BY <1>0, <2>5, Counting
  <2> QED
    BY <1>0, <2>2, <2>4, <2>6, <2>7
<1>2. ASSUME NEW t \in Threads, FrameStepOf(t)
      PROVE  /\ RequestsApart' /\ outstanding' = Cardinality(C') /\ pending' = Cardinality(F')
  <2> USE DEF FramePlaces, CountedByContext, CountedByFile
  <2>1. ASSUME NEW p, NEW q \in FramePlaces, Stands(t, p), Step(t, q),
               UNCHANGED <<inKernel, completions>>
        PROVE  /\ RequestsApart'
               /\ \A P : (p \in P <=> q \in P) => Counted(P)' = Counted(P)
               /\ \A P : p \in P /\ q \notin P =>
                     Cardinality(Counted(P)') = Cardinality(Counted(P)) - 1
               /\ \A P : p \notin P /\ q \in P =>
                     Cardinality(Counted(P)') = Cardinality(Counted(P)) + 1
    BY <1>0, <2>1, FrameStepCounts
  <2>2. CASE CountRequest(t)
    <3>1. /\ Stands(t, "count") /\ Step(t, "submit") /\ UNCHANGED <<inKernel, completions>>
          /\ outstanding' = outstanding + 1 /\ pending' = pending
      BY <2>2 DEF CountRequest, kernel
    <3>2. RequestsApart' /\ Cardinality(C') = Cardinality(C) + 1 /\ F' = F
      BY <2>1, <3>1
    <3> QED
      BY <1>0, <3>1, <3>2
  <2>3. CASE Submit(t)
    <3>1. /\ Stands(t, "submit") /\ Leave(t) /\ inKernel' = inKernel \cup {Top(t).req}
          /\ UNCHANGED <<completions, outstanding, pending>>
      BY <2>3 DEF Submit, counts
    <3> DEFINE x == work[t][Len(work[t])].req
    <3>2. work[t] # <<>> /\ work[t][Len(work[t])].at = "submit" /\ Top(t).req = x
      BY <1>0, <3>1, StandsIs
    <3>3. RequestsApart' /\ \A P : Counted(P)' = IF x \in inKernel' THEN Counted(P) \cup {x}
                                                 ELSE Counted(P) \ {x}
      BY <1>0, <3>1, <3>2, LeaveCounts
    <3>4. x \in C /\ x \in F
      BY <1>0, <3>2, OnTop
    <3>5. C' = C /\ F' = F
      BY <3>1, <3>2, <3>3, <3>4
    <3> QED
      BY <1>0, <3>1, <3>3, <3>5
  <2>4. CASE SubmitRefused(t)
    <3>1. /\ Stands(t, "submit") /\ Step(t, "release") /\ UNCHANGED <<inKernel, completions>>
          /\ UNCHANGED <<outstanding, pending>>
      BY <2>4 DEF SubmitRefused, kernel, counts
    <3>2. RequestsApart' /\ C' = C /\ F' = F
      BY <2>1, <3>1
    <3> QED
      BY <1>0, <3>1, <3>2
  <2>5. CASE ReleaseFile(t)
    <3>1. /\ Stands(t, "release") /\ Step(t, "running") /\ UNCHANGED <<inKernel, completions>>
          /\ outstanding' = outstanding /\ pending' = pending - 1
      BY <2>5 DEF ReleaseFile, kernel
    <3>2. RequestsApart' /\ C' = C /\ Cardinality(F') = Cardinality(F) - 1
      BY <2>1, <3>1
    <3> QED
      BY <1>0, <3>1, <3>2
  <2>6. CASE EndCallback(t)
    <3>1. /\ Stands(t, "running") /\ Step(t, "settle") /\ UNCHANGED <<inKernel, completions>>
          /\ UNCHANGED <<outstanding, pending>>
      BY <2>6 DEF EndCallback, kernel, counts
    <3>2. RequestsApart' /\ C' = C /\ F' = F
      BY <2>1, <3>1
    <3> QED
      BY <1>0, <3>1, <3>2
  <2>7. CASE Settle(t)
    <3> DEFINE q == IF outstanding = 1 THEN "notify" ELSE "delete"
    <3>1. /\ Stands(t, "settle") /\ Step(t, q) /\ UNCHANGED <<inKernel, completions>>
          /\ outstanding' = outstanding - 1 /\ pending' = pending
      BY <2>7 DEF Settle, kernel
    <3>2. q \in FramePlaces /\ q \notin CountedByContext /\ q \notin CountedByFile
      OBVIOUS
    <3> HIDE DEF q
    <3>3. RequestsApart' /\ Cardinality(C') = Cardinality(C) - 1 /\ F' = F
      BY <2>1, <3>1, <3>2
    <3> QED
      BY <1>0, <3>1, <3>3
  <2>8. CASE NotifyDrained(t)
    <3>1. /\ Stands(t, "notify") /\ Step(t, "delete") /\ UNCHANGED <<inKernel, completions>>
          /\ UNCHANGED <<outstanding, pending>>
      BY <2>8 DEF NotifyDrained, kernel, counts
    <3>2. RequestsApart' /\ C' = C /\ F' = F
      BY <2>1, <3>1
    <3> QED
      BY <1>0, <3>1, <3>2
  <2>9. CASE DeleteRequest(t)
    <3>1. /\ Stands(t, "delete") /\ Leave(t)
          /\ UNCHANGED <<inKernel, completions, outstanding, pending>>
      BY <2>9 DEF DeleteRequest, kernel, counts
    <3> DEFINE x == work[t][Len(work[t])].req
    <3>2. work[t] # <<>> /\ work[t][Len(work[t])].at = "delete"
      BY <1>0, <3>1, StandsIs
    <3>3. RequestsApart' /\ \A P : Counted(P)' = IF x \in inKernel' THEN Counted(P) \cup {x}
                                                 ELSE Counted(P) \ {x}
      BY <1>0, <3>1, <3>2, LeaveCounts
    <3>4. x \notin C /\ x \notin F /\ x \notin inKernel
      BY <1>0, <3>2, OnTop
    <3>5. C' = C /\ F' = F
      BY <3>1, <3>3, <3>4
    <3> QED
      BY <1>0, <3>1, <3>3, <3>5
  <2> QED
    BY <1>2, <2>2, <2>3, <2>4, <2>5, <2>6, <2>7, <2>8, <2>9 DEF FrameStepOf
<1>3. ASSUME work' = work, outstanding' = outstanding, pending' = pending,
             \/ \E r \in inKernel : /\ inKernel' = inKernel \ {r}
                                    /\ completions' = Append(completions, r)
             \/ inKernel' = inKernel /\ completions' = Append(completions, Stop)
             \/ /\ inKernel' = inKernel
                /\ completions # <<>> /\ completions[1] = Stop /\ completions' = Tail(completions)
      PROVE  /\ RequestsApart' /\ outstanding' = Cardinality(C') /\ pending' = Cardinality(F')
  <2>1. RequestsApart' /\ C' = C /\ F' = F
    BY <1>0, <1>3, RingCounts
  <2> QED
    BY <1>0, <1>3, <2>1
<1>4. ASSUME NEW t \in Threads, Advance(t)
      PROVE  /\ RequestsApart' /\ outstanding' = Cardinality(C') /\ pending' = Cardinality(F')
  <2>1. /\ completions # <<>> /\ completions' = Tail(completions) /\ reaped[t] = completions[1]
        /\ UNCHANGED <<inKernel, outstanding, pending>>
    BY <1>4 DEF Advance, counts, IInv, ReaderKnown
  <2>2. CASE reaped[t] = Stop
    BY <1>3, <1>4, <2>1, <2>2 DEF Advance
  <2>3. CASE reaped[t] # Stop
    <3> DEFINE r == completions[1]
    <3>1. Comes(t, "release", r)
      BY <1>4, <2>1, <2>3 DEF Advance, Comes
    <3>2. completions \in Seq(Requests \cup {Stop})
      BY <1>0 DEF Typed
    <3>3. 1 \in DOMAIN completions /\ r \in Requests
      BY <2>1, <2>3, <3>2
    <3>4. /\ "release" \in FramePlaces /\ "release" \in CountedByContext
          /\ "release" \in CountedByFile
      BY DEF FramePlaces, CountedByContext, CountedByFile
    <3> HIDE DEF r
    <3>5. RequestsApart' /\ \A P : Counted(P)' = IF "release" \in P THEN Counted(P) \cup {r}
                                                 ELSE Counted(P) \ {r}
      BY <1>0, <2>1, <3>1, <3>3, <3>4, FrameCounts DEF r
    <3>6. \A P : r \in Counted(P)
      BY <3>3 DEF r, Counted, InRing
    <3>7. C' = C /\ F' = F
      BY <3>4, <3>5, <3>6
    <3> QED
      BY <1>0, <2>1, <3>5, <3>7 DEF counts
  <2> QED
    BY <2>2, <2>3
<1>5. ASSUME work' = work, outstanding' = outstanding, pending' = pending,
             inKernel' = inKernel, completions' = completions
      PROVE  /\ RequestsApart' /\ outstanding' = Cardinality(C') /\ pending' = Cardinality(F')
  <2>1. RequestsApart' /\ C' = C /\ F' = F
    BY <1>0, <1>5, QuietCounts
  <2> QED
    BY <1>0, <1>5, <2>1
<1>6. ASSUME NEW t \in Threads, LockRing(t) \/ Reap(t) 
      PROVE  UNCHANGED <<work, outstanding, pending, inKernel, completions>>
  BY <1>6 DEF LockRing, Reap, counts, kernel
<1>7. ASSUME NEW r \in Requests, KernelCompletes(r)
      PROVE  /\ r \in inKernel /\ UNCHANGED <<work, outstanding, pending>>
             /\ inKernel' = inKernel \ {r} /\ completions' = Append(completions, r)
  BY <1>7 DEF KernelCompletes, counts
<1>8. ASSUME PostStop
      PROVE  /\ UNCHANGED <<work, outstanding, pending, inKernel>>
             /\ completions' = Append(completions, Stop)
  BY <1>8 DEF PostStop, counts
<1>9. ASSUME \/ LockDrain \/ TestDrained \/ Sleep \/ AwaitWorkers \/ Detach \/ Join
             \/ WakeSpuriously \/ StopRefused \/ WaitOne \/ DestroyContext
             \/ \E W \in (SUBSET Workers) \ {{}} : CreatePool(W)
      PROVE  UNCHANGED <<work, outstanding, pending, inKernel, completions>>
  BY <1>9 DEF counts, kernel, LockDrain, TestDrained, Sleep, AwaitWorkers, Detach, Join, WakeSpuriously,
     StopRefused, WaitOne, DestroyContext, CreatePool
<1>10. CASE UNCHANGED vars
  <2>1. UNCHANGED <<work, outstanding, pending, inKernel, completions>>
    BY <1>10 DEF vars, counts, kernel
  <2> QED
    BY <1>5, <2>1
<1>11. ASSUME NEW t \in Threads, FrameStep(t) \/ WaitStep(t) \/ SubmitRefused(t)
              \/ \E r \in Requests : Start(t, r)
       PROVE  RequestsApart' /\ outstanding' = Cardinality(C') /\ pending' = Cardinality(F')
  <2>1. CASE FrameStep(t) \/ SubmitRefused(t)
    BY <1>2, <2>1 DEF FrameStep, FrameStepOf
  <2>2. CASE LockRing(t) \/ Reap(t)
    BY <1>5, <1>6, <2>2
  <2> QED
    BY <1>1, <1>4, <1>11, <2>1, <2>2 DEF WaitStep
<1>12. CASE \E r \in Requests : KernelCompletes(r)
  <2>1. PICK r \in Requests : KernelCompletes(r)
    BY <1>12
  <2> QED
    BY <1>3, <1>7, <2>1
<1>13. CASE PostStop
  BY <1>3, <1>8, <1>13
<1>14. CASE \/ LockDrain \/ TestDrained \/ Sleep \/ AwaitWorkers \/ Detach \/ Join
            \/ WakeSpuriously \/ StopRefused \/ WaitOne \/ DestroyContext
            \/ \E W \in (SUBSET Workers) \ {{}} : CreatePool(W)
  BY <1>5, <1>9, <1>14
<1>15. /\ RequestsApart' /\ outstanding' = Cardinality(C') /\ pending' = Cardinality(F')
  BY <1>10, <1>11, <1>12, <1>13, <1>14 DEF Next, JoinStep
<1> QED
  BY <1>15

-----------------------------------------------------------------------------
(* The stacks of all threads. *)

LEMMA StackSteps ==
  ASSUME Typed, StackKnown, NEW t \in Threads,
         \/ \E p, q \in FramePlaces :
               /\ Stands(t, p) /\ Step(t, q)
               /\ q \in {"count", "submit"} => p = "count"
         \/ work[t] # <<>> /\ Leave(t)
         \/ \E p \in FramePlaces, r \in Requests :
               /\ Comes(t, p, r) /\ (work[t] = <<>> \/ Stands(t, "running"))
               /\ t # Client /\ work[t] = <<>> => p \notin {"count", "submit"}
  PROVE  /\ work' \in [Threads -> Seq(Frame)]
         /\ \A u \in Threads \ {t} : work'[u] = work[u]
         /\ StackKnown'
<1> DEFINE n == Len(work[t])
           Good(s, u) == \A i \in 1..Len(s) :
                            /\ i < Len(s) => s[i].at = "running"
                            /\ u # Client /\ i = 1 => s[i].at \notin {"count", "submit"}
<1>0. /\ \A i \in 1..n : i < n => work[t][i].at = "running"
      /\ \A i \in 1..n : t # Client /\ i = 1 => work[t][i].at \notin {"count", "submit"}
      /\ n \in Nat
  BY FramesAre DEF StackKnown
<1>1. ASSUME NEW p \in FramePlaces, NEW q \in FramePlaces, Stands(t, p), Step(t, q),
             q \in {"count", "submit"} => p = "count"
      PROVE  /\ work' \in [Threads -> Seq(Frame)]
             /\ \A u \in Threads \ {t} : work'[u] = work[u]
             /\ Good(work'[t], t)
  <2>1. work[t] # <<>> /\ work[t][n].at = p
    BY <1>1, StandsIs
  <2>2. /\ work' \in [Threads -> Seq(Frame)] /\ Len(work'[t]) = n
        /\ \A u \in Threads \ {t} : work'[u] = work[u]
        /\ \A i \in 1..n : work'[t][i].at = IF i = n THEN q ELSE work[t][i].at
    BY <1>1, <2>1, TopMoves
  <2> HIDE DEF n
  <2>3. \A i \in 1..n : i < n => work'[t][i].at = "running"
    BY <1>0, <2>2
  <2>4. \A i \in 1..n : t # Client /\ i = 1 => work'[t][i].at \notin {"count", "submit"}
    BY <1>0, <1>1, <2>1, <2>2
  <2> QED
    BY <2>2, <2>3, <2>4
<1>2. ASSUME work[t] # <<>>, Leave(t)
      PROVE  /\ work' \in [Threads -> Seq(Frame)]
             /\ \A u \in Threads \ {t} : work'[u] = work[u]
             /\ Good(work'[t], t)
  <2>1. /\ work' \in [Threads -> Seq(Frame)] /\ Len(work'[t]) = n - 1
        /\ \A u \in Threads \ {t} : work'[u] = work[u]
        /\ \A i \in 1..n - 1 : work'[t][i] = work[t][i]
    BY <1>2, TopLeaves
  <2> HIDE DEF n
  <2>2. \A i \in 1..n - 1 : i \in 1..n /\ i < n
    BY <1>0
  <2> QED
    BY <1>0, <2>1, <2>2
<1>3. ASSUME NEW p \in FramePlaces, NEW r \in Requests, Comes(t, p, r),
             work[t] = <<>> \/ Stands(t, "running"),
             t # Client /\ work[t] = <<>> => p \notin {"count", "submit"}
      PROVE  /\ work' \in [Threads -> Seq(Frame)]
             /\ \A u \in Threads \ {t} : work'[u] = work[u]
             /\ Good(work'[t], t)
  <2>1. /\ work' \in [Threads -> Seq(Frame)] /\ Len(work'[t]) = n + 1
        /\ \A u \in Threads \ {t} : work'[u] = work[u]
        /\ \A i \in 1..n : work'[t][i] = work[t][i]
        /\ work'[t][n + 1].at = p
    BY <1>3, FrameComes
  <2>2. n = 0 => work[t] = <<>>
    BY FramesAre
  <2>3. n > 0 => work[t][n].at = "running"
    BY <1>3, <2>2, FramesAre, StandsIs
  <2> HIDE DEF n
  <2>4. \A i \in 1..n + 1 : i < n + 1 => work'[t][i].at = "running"
    <3> SUFFICES ASSUME NEW i \in 1..n + 1, i < n + 1 PROVE work'[t][i].at = "running"
      OBVIOUS
    <3>1. i \in 1..n /\ (i < n \/ i = n) /\ n > 0
      BY <1>0
    <3> QED
      BY <1>0, <2>1, <2>3, <3>1
  <2>5. ASSUME t # Client PROVE work'[t][1].at \notin {"count", "submit"}
    <3>1. CASE n = 0
      BY <1>3, <2>1, <2>2, <2>5, <3>1
    <3>2. CASE n > 0
      BY <1>0, <2>1, <2>5, <3>2
    <3> QED
      BY <1>0, <3>1, <3>2
  <2> QED
    BY <2>1, <2>4, <2>5
<1> HIDE DEF n
<1>4. /\ work' \in [Threads -> Seq(Frame)]
      /\ \A u \in Threads \ {t} : work'[u] = work[u]
      /\ Good(work'[t], t)
  BY <1>1, <1>2, <1>3
<1>5. ASSUME NEW u \in Threads, u # t PROVE Good(work'[u], u)
  BY <1>4, <1>5, FramesAre DEF StackKnown
<1>6. \A u \in Threads : DOMAIN work'[u] = 1..Len(work'[u])
  BY <1>4
<1>7. StackKnown'
  <2> SUFFICES ASSUME NEW u \in Threads, NEW i \in DOMAIN work'[u]
               PROVE  /\ i < Len(work'[u]) => work'[u][i].at = "running"
                      /\ u # Client /\ i = 1 => work'[u][i].at \notin {"count", "submit"}
    BY DEF StackKnown
  <2>1. Good(work'[u], u)
    BY <1>4, <1>5
  <2> QED
    BY <1>6, <2>1
<1> QED
  BY <1>4, <1>7

\* Where the program and the loops let a frame come.
LEMMA StacksFollow ==
  ASSUME IInv, [Next]_vars
  PROVE  /\ work' \in [Threads -> Seq(Frame)] /\ StackKnown'
         /\ \/ work' = work
            \/ \E t \in Threads : /\ \A u \in Threads \ {t} : work'[u] = work[u]
                                  /\ \/ at'[t] = at[t] /\ work[t] # <<>>
                                     \/ /\ at'[t] = at[t] /\ pool # "threw"
                                        /\ t = Client /\ at[t] = "out"
                                     \/ Advance(t) /\ reaped[t] # Stop
<1> USE DEF IInv
<1>1. ASSUME NEW t \in Threads, NEW r \in Requests, Start(t, r)
      PROVE  /\ work' \in [Threads -> Seq(Frame)] /\ StackKnown'
             /\ \A u \in Threads \ {t} : work'[u] = work[u]
             /\ at'[t] = at[t]
             /\ work[t] # <<>> \/ (t = Client /\ at[t] = "out" /\ pool # "threw")
  <2>1. /\ Comes(t, "count", r) /\ at' = at /\ pool # "threw"
        /\ \/ t = Client /\ at[t] = "out" /\ work[t] = <<>>
           \/ Stands(t, "running")
    BY <1>1 DEF Start, Comes, InProgram
  <2>2. "count" \in FramePlaces
    BY DEF FramePlaces
  <2>3. Stands(t, "running") => work[t] # <<>>
    BY DEF Stands
  <2>4. /\ work' \in [Threads -> Seq(Frame)] /\ StackKnown'
        /\ \A u \in Threads \ {t} : work'[u] = work[u]
    BY <2>1, <2>2, <2>3, StackSteps
  <2> QED
    BY <2>1, <2>3, <2>4
<1>2. ASSUME NEW t \in Threads, FrameStepOf(t)
      PROVE  /\ work' \in [Threads -> Seq(Frame)] /\ StackKnown'
             /\ \A u \in Threads \ {t} : work'[u] = work[u]
             /\ at'[t] = at[t]
             /\ work[t] # <<>>
  <2>1. \/ \E p, q \in FramePlaces :
              /\ Stands(t, p) /\ Step(t, q)
              /\ q \in {"count", "submit"} => p = "count"
        \/ work[t] # <<>> /\ Leave(t)
    <3> USE DEF FramePlaces
    <3>1. CASE CountRequest(t)
      BY <3>1 DEF CountRequest
    <3>2. CASE Submit(t)
      BY <3>2 DEF Submit, Stands
    <3>3. CASE SubmitRefused(t)
      BY <3>3 DEF SubmitRefused
    <3>4. CASE ReleaseFile(t)
      BY <3>4 DEF ReleaseFile
    <3>5. CASE EndCallback(t)
      BY <3>5 DEF EndCallback
    <3>6. CASE Settle(t)
      BY <3>6 DEF Settle
    <3>7. CASE NotifyDrained(t)
      BY <3>7 DEF NotifyDrained
    <3>8. CASE DeleteRequest(t)
      BY <3>8 DEF DeleteRequest, Stands
    <3> QED
      BY <1>2, <3>1, <3>2, <3>3, <3>4, <3>5, <3>6, <3>7, <3>8 DEF FrameStepOf
  <2>2. work[t] # <<>>
    BY <2>1 DEF Stands
  <2>3. /\ work' \in [Threads -> Seq(Frame)] /\ StackKnown'
        /\ \A u \in Threads \ {t} : work'[u] = work[u]
    BY <2>1, StackSteps
  <2>4. CASE NotifyDrained(t)
    <3>1. at[Client] = "asleep" => t # Client
      BY <2>2 DEF ThreadsKnown
    <3> QED
      BY <2>2, <2>3, <2>4, <3>1 DEF NotifyDrained, Goto, Typed
  <2>5. CASE ~NotifyDrained(t)
    <3>1. at' = at
      BY <1>2, <2>5 DEF FrameStepOf, CountRequest, Submit, SubmitRefused, ReleaseFile,
         EndCallback, Settle, DeleteRequest
    <3> QED
      BY <2>2, <2>3, <3>1
  <2> QED
    BY <2>4, <2>5
<1>3. ASSUME NEW t \in Threads, Advance(t), reaped[t] # Stop
      PROVE  /\ work' \in [Threads -> Seq(Frame)] /\ StackKnown'
             /\ \A u \in Threads \ {t} : work'[u] = work[u]
             /\ Advance(t) /\ reaped[t] # Stop
  <2>1. Comes(t, "release", reaped[t]) /\ at[t] = "advance" /\ completions # <<>>
    BY <1>3 DEF Advance, Comes
  <2>2. work[t] = <<>>
    BY <2>1 DEF ThreadsKnown
  <2>3. reaped[t] \in Requests /\ "release" \in FramePlaces
    <3>1. reaped[t] = completions[1]
      BY <2>1 DEF ReaderKnown
    <3>2. completions[1] \in Requests \cup {Stop}
      BY <2>1 DEF Typed
    <3> QED
      BY <1>3, <3>1, <3>2 DEF FramePlaces
  <2>4. /\ work' \in [Threads -> Seq(Frame)] /\ StackKnown'
        /\ \A u \in Threads \ {t} : work'[u] = work[u]
    BY <2>1, <2>2, <2>3, StackSteps
  <2> QED
    BY <1>3, <2>1, <2>4
<1>4. ASSUME work' = work
      PROVE  work' \in [Threads -> Seq(Frame)] /\ StackKnown'
  BY <1>4 DEF Typed, StackKnown
<1>5. ASSUME NEW t \in Threads, WaitStep(t)
      PROVE  work' = work \/ (Advance(t) /\ reaped[t] # Stop)
  BY <1>5 DEF WaitStep, LockRing, Reap, Advance
<1>6. ASSUME \/ JoinStep \/ Join
             \/ WakeSpuriously \/ StopRefused \/ WaitOne \/ DestroyContext
             \/ \E W \in (SUBSET Workers) \ {{}} : CreatePool(W)
             \/ \E r \in Requests : KernelCompletes(r)
             \/ UNCHANGED vars
      PROVE  work' = work
  BY <1>6 DEF JoinStep, LockDrain, TestDrained, Sleep, PostStop, AwaitWorkers, Detach, Join,
     WakeSpuriously, StopRefused, WaitOne, DestroyContext, CreatePool, KernelCompletes, vars
<1>7. ASSUME NEW t \in Threads,
             FrameStep(t) \/ WaitStep(t) \/ SubmitRefused(t) \/ \E r \in Requests : Start(t, r)
      PROVE  /\ work' \in [Threads -> Seq(Frame)] /\ StackKnown'
             /\ \/ work' = work
                \/ /\ \A u \in Threads \ {t} : work'[u] = work[u]
                   /\ \/ at'[t] = at[t] /\ work[t] # <<>>
                      \/ at'[t] = at[t] /\ pool # "threw" /\ t = Client /\ at[t] = "out"
                      \/ Advance(t) /\ reaped[t] # Stop
  <2>1. CASE FrameStepOf(t)
    BY <1>2, <2>1
  <2>2. CASE WaitStep(t)
    BY <1>3, <1>4, <1>5, <2>2
  <2>3. CASE \E r \in Requests : Start(t, r)
    BY <1>1, <2>3
  <2> QED
    BY <1>7, <2>1, <2>2, <2>3 DEF FrameStep, FrameStepOf
<1> HIDE DEF IInv
<1>8. CASE \E t \in Threads :
             FrameStep(t) \/ WaitStep(t) \/ SubmitRefused(t) \/ \E r \in Requests : Start(t, r)
  BY <1>7, <1>8
<1>9. CASE \/ JoinStep \/ Join
           \/ WakeSpuriously \/ StopRefused \/ WaitOne \/ DestroyContext
           \/ \E W \in (SUBSET Workers) \ {{}} : CreatePool(W)
           \/ \E r \in Requests : KernelCompletes(r)
           \/ UNCHANGED vars
  BY <1>4, <1>6, <1>9
<1> QED
  BY <1>8, <1>9 DEF Next

-----------------------------------------------------------------------------
(* Where threads stand, and who reads the ring. *)

\* Pools and the places of threads, whatever becomes of their stacks.
LEMMA PlacesFollow ==
  ASSUME IInv, [Next]_vars
  PROVE  /\ \A t \in Threads : work[t] # <<>> => at'[t] = at[t]
         /\ \A t \in Workers : IF t \in crew'
                               THEN at'[t] \in {"wait", "reap", "advance", "exited"}
                               ELSE at'[t] = "out"
         /\ at'[Client] # "exited"
         /\ pool' = "joining" <=> at'[Client] \in JoinPlaces
         /\ pool' = "threw" => at'[Client] = "out"
         /\ pool' = "threw" => pool = "threw" \/ StopRefused
         /\ at'[Client] = "detach" => \A w \in crew' : at'[w] = "exited"
         /\ pool' = "none" => crew' = {}
         /\ at' \in [Threads -> LoopPlaces \cup JoinPlaces \cup {"exited"}]
         /\ pool' \in {"none", "attached", "joining", "threw"} /\ crew' \subseteq Workers
<1> DEFINE Goal ==
             /\ \A t \in Threads : work[t] # <<>> => at'[t] = at[t]
             /\ \A t \in Workers : IF t \in crew'
                                   THEN at'[t] \in {"wait", "reap", "advance", "exited"}
                                   ELSE at'[t] = "out"
             /\ at'[Client] # "exited"
             /\ pool' = "joining" <=> at'[Client] \in JoinPlaces
             /\ pool' = "threw" => at'[Client] = "out"
             /\ pool' = "threw" => pool = "threw" \/ StopRefused
             /\ at'[Client] = "detach" => \A w \in crew' : at'[w] = "exited"
             /\ pool' = "none" => crew' = {}
             /\ at' \in [Threads -> LoopPlaces \cup JoinPlaces \cup {"exited"}]
             /\ pool' \in {"none", "attached", "joining", "threw"} /\ crew' \subseteq Workers
<1>0. /\ \A t \in Threads : work[t] # <<>> => at[t] = IF t = Client THEN "out" ELSE "wait"
      /\ \A t \in Workers : IF t \in crew
                            THEN at[t] \in {"wait", "reap", "advance", "exited"}
                            ELSE at[t] = "out"
      /\ at[Client] # "exited"
      /\ pool = "joining" <=> at[Client] \in JoinPlaces
      /\ pool = "threw" => at[Client] = "out"
      /\ at[Client] = "detach" => \A w \in crew : at[w] = "exited"
      /\ pool = "none" => crew = {}
      /\ at \in [Threads -> LoopPlaces \cup JoinPlaces \cup {"exited"}]
      /\ pool \in {"none", "attached", "joining", "threw"} /\ crew \subseteq Workers
      /\ Client \notin Workers /\ Threads = Workers \cup {Client}
  BY ConstantTypes DEF IInv, ThreadsKnown, Typed, Threads
<1> USE <1>0 DEF Goto, JoinPlaces, LoopPlaces
<1>1. ASSUME UNCHANGED <<at, pool, crew>> PROVE Goal
  BY <1>1
<1>2. ASSUME NEW t \in Threads, LockRing(t) PROVE Goal
  <2>1. /\ at[t] = "wait" /\ work[t] = <<>> /\ at' = [at EXCEPT ![t] = "reap"]
        /\ UNCHANGED <<pool, crew>>
    BY <1>2 DEF LockRing, clientVars, poolVars
  <2> QED
    BY <2>1
<1>3. ASSUME NEW t \in Threads, Reap(t) PROVE Goal
  <2>1. at[t] = "reap" /\ at' = [at EXCEPT ![t] = "advance"] /\ UNCHANGED <<pool, crew>>
    BY <1>3 DEF Reap, clientVars, poolVars
  <2> QED
    BY <2>1
<1>4. ASSUME NEW t \in Threads, Advance(t) PROVE Goal
  <2> DEFINE p == IF t = Client THEN "out" ELSE IF reaped[t] = Stop THEN "exited" ELSE "wait"
  <2>1. at[t] = "advance" /\ at' = [at EXCEPT ![t] = p] /\ UNCHANGED <<pool, crew>>
    BY <1>4 DEF Advance, clientVars, poolVars
  <2>2. IF t = Client THEN p = "out" ELSE p \in {"exited", "wait"}
    OBVIOUS
  <2> HIDE DEF p
  <2> QED
    BY <2>1, <2>2
<1>5. ASSUME NEW p \in JoinPlaces \cup {"out", "wait"}, NEW q,
             at[Client] = p, at' = [at EXCEPT ![Client] = q], work[Client] = <<>>,
             \/ /\ p \in JoinPlaces /\ q \in JoinPlaces /\ UNCHANGED <<pool, crew>>
                /\ q = "detach" => \A w \in crew : at[w] = "exited"
             \/ p = "out" /\ pool = "none" /\ q = "wait" /\ UNCHANGED <<pool, crew>>
             \/ p = "out" /\ q = "lock" /\ pool' = "joining" /\ UNCHANGED crew
             \/ StopRefused /\ p = "stop" /\ q = "out" /\ pool' = "threw" /\ UNCHANGED crew
      PROVE  Goal
  <2>1. q \in LoopPlaces \cup JoinPlaces
    BY <1>5
  <2>2. \A w \in Workers : at'[w] = at[w]
    BY <1>5
  <2>3. at'[Client] = q
    BY <1>5
  <2>4. at' \in [Threads -> LoopPlaces \cup JoinPlaces \cup {"exited"}]
    BY <1>5, <2>1
  <2> QED
    BY <1>5, <2>2, <2>3, <2>4
<1>6. at[Client] # "out" => work[Client] = <<>>
  OBVIOUS
<1>7. ASSUME JoinStep \/ WakeSpuriously \/ StopRefused \/ Join \/ WaitOne PROVE Goal
  <2>1. CASE LockDrain
    BY <1>5, <1>6, <2>1 DEF LockDrain, clientVars, poolVars
  <2>2. CASE TestDrained
    BY <1>5, <1>6, <2>2 DEF TestDrained, clientVars, poolVars
  <2>3. CASE Sleep
    BY <1>5, <1>6, <2>3 DEF Sleep, clientVars, poolVars
  <2>4. CASE PostStop
    BY <1>5, <1>6, <2>4 DEF PostStop
  <2>5. CASE AwaitWorkers
    BY <1>5, <1>6, <2>5 DEF AwaitWorkers, clientVars, poolVars
  <2>6. CASE Detach
    <3>1. /\ at[Client] = "detach" /\ pool' = "none" /\ crew' = {}
          /\ at' = [t \in Threads |-> IF t \in crew \cup {Client} THEN "out" ELSE at[t]]
      BY <2>6 DEF Detach
    <3>2. \A t \in Threads : at'[t] = IF t \in crew \cup {Client} THEN "out" ELSE at[t]
      BY <3>1
    <3>3. at' \in [Threads -> LoopPlaces \cup JoinPlaces \cup {"exited"}]
      BY <3>1
    <3>4. \A t \in Threads : work[t] # <<>> => at'[t] = at[t]
      BY <3>1, <3>2
    <3> QED
      BY <3>1, <3>2, <3>3, <3>4
  <2>7. CASE WakeSpuriously
    BY <1>5, <1>6, <2>7 DEF WakeSpuriously, clientVars, poolVars
  <2>8. CASE StopRefused
    BY <1>5, <1>6, <2>8 DEF StopRefused
  <2>9. CASE Join
    BY <1>5, <1>6, <2>9 DEF Join, InProgram, Stands
  <2>10. CASE WaitOne
    BY <1>5, <1>6, <2>10 DEF WaitOne, InProgram, Stands, clientVars, poolVars
  <2> QED
    BY <1>7, <2>1, <2>2, <2>3, <2>4, <2>5, <2>6, <2>7, <2>8, <2>9, <2>10 DEF JoinStep
<1>8. ASSUME NEW W \in (SUBSET Workers) \ {{}}, CreatePool(W) PROVE Goal
  <2>1. /\ pool = "none" /\ pool' = "attached" /\ crew' = W /\ W \subseteq Workers
        /\ at' = [t \in Threads |-> IF t \in W THEN "wait" ELSE at[t]]
        /\ at[Client] = "out"
    BY <1>8 DEF CreatePool, InProgram, Stands
  <2>2. crew = {} /\ \A t \in Workers : at[t] = "out"
    BY <2>1
  <2>3. \A t \in Workers : work[t] = <<>>
    BY <2>2
  <2>4. \A t \in Threads : at'[t] = IF t \in W THEN "wait" ELSE at[t]
    BY <2>1
  <2>5. at' \in [Threads -> LoopPlaces \cup JoinPlaces \cup {"exited"}]
    BY <2>1
  <2> QED
    BY <2>1, <2>2, <2>3, <2>4, <2>5
<1>9. ASSUME NEW t \in Threads, FrameStepOf(t) \/ \E r \in Requests : Start(t, r) PROVE Goal
  <2>1. CASE NotifyDrained(t)
    <3>1. CASE at[Client] = "asleep"
      BY <1>5, <1>6, <2>1, <3>1 DEF NotifyDrained, clientVars, poolVars
    <3>2. CASE at[Client] # "asleep"
      BY <1>1, <2>1, <3>2 DEF NotifyDrained, clientVars, poolVars
    <3> QED
      BY <3>1, <3>2
  <2>2. CASE ~NotifyDrained(t)
    <3>1. UNCHANGED <<at, pool, crew>>
      BY <1>9, <2>2 DEF FrameStepOf, CountRequest, Submit, SubmitRefused, ReleaseFile,
         EndCallback, Settle, DeleteRequest, Start, clientVars, poolVars
    <3> QED
      BY <1>1, <3>1
  <2> QED
    BY <2>1, <2>2
<1>10. ASSUME DestroyContext \/ (\E r \in Requests : KernelCompletes(r)) \/ UNCHANGED vars
       PROVE  Goal
  <2>1. UNCHANGED <<at, pool, crew>>
    BY <1>10 DEF DestroyContext, KernelCompletes, clientVars, poolVars, vars
  <2> QED
    BY <1>1, <2>1
<1> HIDE DEF Goal
<1>11. ASSUME NEW t \in Threads,
              FrameStep(t) \/ WaitStep(t) \/ SubmitRefused(t) \/ \E r \in Requests : Start(t, r)
       PROVE  Goal
  BY <1>2, <1>3, <1>4, <1>9, <1>11 DEF FrameStep, WaitStep, FrameStepOf
<1>12. Goal
  BY <1>7, <1>8, <1>10, <1>11 DEF Next
<1> QED
  BY <1>12 DEF Goal

LEMMA ThreadsFollow ==
  ASSUME IInv, [Next]_vars
  PROVE  ThreadsKnown'
<1>1. \A t \in Threads : work[t] # <<>> => at[t] = IF t = Client THEN "out" ELSE "wait"
  BY DEF IInv, ThreadsKnown
<1>2. \A t \in Threads : work[t] # <<>> => at'[t] = at[t]
  BY PlacesFollow
<1>3. \A t \in Threads : work'[t] # <<>> => at'[t] = IF t = Client THEN "out" ELSE "wait"
  <2> SUFFICES ASSUME NEW t \in Threads, work'[t] # <<>>
               PROVE  at'[t] = IF t = Client THEN "out" ELSE "wait"
    OBVIOUS
  <2>1. CASE work'[t] = work[t]
    BY <1>1, <1>2, <2>1
  <2>2. CASE work'[t] # work[t]
    <3>1. \/ at'[t] = at[t] /\ work[t] # <<>>
          \/ at'[t] = at[t] /\ pool # "threw" /\ t = Client /\ at[t] = "out"
          \/ Advance(t) /\ reaped[t] # Stop
      BY <2>2, StacksFollow
    <3>2. CASE Advance(t) /\ reaped[t] # Stop
      <4>1. at' = [at EXCEPT ![t] = IF t = Client THEN "out" ELSE "wait"]
        BY <3>2 DEF Advance, Goto
      <4> QED
        BY <4>1 DEF IInv, Typed
    <3> QED
      BY <1>1, <3>1, <3>2
  <2> QED
    BY <2>1, <2>2
<1>4. pool' = "threw" => work'[Client] = <<>>
  <2> SUFFICES ASSUME pool' = "threw" PROVE work'[Client] = <<>>
    OBVIOUS
  <2>0. Client \in Threads
    BY DEF Threads
  <2>1. CASE StopRefused
    BY <1>1, <2>0, <2>1 DEF StopRefused
  <2>2. CASE pool = "threw"
    <3>1. at[Client] = "out" /\ work[Client] = <<>>
      BY <2>2 DEF IInv, ThreadsKnown
    <3>2. ~Advance(Client)
      BY <3>1 DEF Advance
    <3>3. work'[Client] = work[Client]
      BY <2>0, <2>2, <3>1, <3>2, StacksFollow
    <3> QED
      BY <3>1, <3>3
  <2> QED
    BY <2>1, <2>2, PlacesFollow
<1>5. /\ \A t \in Workers : IF t \in crew'
                            THEN at'[t] \in {"wait", "reap", "advance", "exited"}
                            ELSE at'[t] = "out"
      /\ at'[Client] # "exited"
      /\ pool' = "joining" <=> at'[Client] \in JoinPlaces
      /\ pool' = "threw" => at'[Client] = "out"
      /\ at'[Client] = "detach" => \A w \in crew' : at'[w] = "exited"
      /\ pool' = "none" => crew' = {}
  BY PlacesFollow
<1> QED
  BY <1>3, <1>4, <1>5 DEF ThreadsKnown

\* One reader, and its completion stays the first on the ring.
LEMMA ReaderFollows ==
  ASSUME IInv, [Next]_vars
  PROVE  /\ ReaderKnown'
         /\ drain' \in Threads \cup {None} /\ ring' \in Threads \cup {None}
         /\ completions' \in Seq(Requests \cup {Stop}) /\ inKernel' \subseteq Requests
         /\ reaped' \in [Threads -> Requests \cup {Stop, None}]
<1> DEFINE Goal ==
             /\ \A t \in Threads : at'[t] \in {"reap", "advance"} => ring' = t
             /\ \A t \in Threads : at'[t] # "advance" => reaped'[t] = None
             /\ \A t \in Threads : at'[t] = "advance" =>
                   completions' # <<>> /\ reaped'[t] = completions'[1]
             /\ drain' \in Threads \cup {None} /\ ring' \in Threads \cup {None}
             /\ completions' \in Seq(Requests \cup {Stop}) /\ inKernel' \subseteq Requests
             /\ reaped' \in [Threads -> Requests \cup {Stop, None}]
<1>0. /\ \A t \in Threads : at[t] \in {"reap", "advance"} => ring = t
      /\ \A t \in Threads : at[t] # "advance" => reaped[t] = None
      /\ \A t \in Threads : at[t] = "advance" =>
            completions # <<>> /\ reaped[t] = completions[1]
      /\ drain \in Threads \cup {None} /\ ring \in Threads \cup {None}
      /\ completions \in Seq(Requests \cup {Stop}) /\ inKernel \subseteq Requests
      /\ reaped \in [Threads -> Requests \cup {Stop, None}]
      /\ at \in [Threads -> LoopPlaces \cup JoinPlaces \cup {"exited"}]
      /\ None \notin Threads /\ Client \in Threads
  BY ConstantTypes DEF IInv, Typed, ReaderKnown, Threads
<1>00. Typed
  BY DEF IInv
<1> USE <1>0
<1>1. ASSUME \A t \in Threads : at'[t] = at[t] \/ {at[t], at'[t]} \cap {"reap", "advance"} = {},
             reaped' = reaped, ring' = ring, drain' \in Threads \cup {None},
             completions' \in Seq(Requests \cup {Stop}), inKernel' \subseteq Requests,
             completions # <<>> => completions' # <<>> /\ completions'[1] = completions[1]
      PROVE  Goal
  <2>2. \A t \in Threads : at'[t] \in {"reap", "advance"} => at[t] = at'[t]
    BY <1>1
  <2>3. \A t \in Threads : at'[t] # "advance" => at[t] # "advance"
    BY <1>1
  <2>4. \A t \in Threads : at'[t] = "advance" =>
           completions' # <<>> /\ reaped'[t] = completions'[1]
    BY <1>1, <2>2
  <2> QED
    BY <1>1, <2>2, <2>3, <2>4
<1>1a. ASSUME \A t \in Threads : at'[t] = at[t] \/ {at[t], at'[t]} \cap {"reap", "advance"} = {},
              reaped' = reaped, ring' = ring, drain' \in Threads \cup {None},
              inKernel' = inKernel, completions' = completions
       PROVE  Goal
  <2>1. /\ completions' \in Seq(Requests \cup {Stop}) /\ inKernel' \subseteq Requests
        /\ completions # <<>> => completions' # <<>> /\ completions'[1] = completions[1]
    BY <1>1a
  <2> HIDE DEF Goal
  <2> QED
    BY <1>1, <1>1a, <2>1
<1>2. ASSUME NEW t \in Threads, LockRing(t) PROVE Goal
  <2>1. /\ at[t] = "wait" /\ ring = None /\ ring' = t /\ at' = [at EXCEPT ![t] = "reap"]
        /\ UNCHANGED <<drain, completions, inKernel, reaped>>
    BY <1>2 DEF LockRing, Goto, kernel
  <2> QED
    BY <2>1
<1>3. ASSUME NEW t \in Threads, Reap(t) PROVE Goal
  <2>1. /\ at[t] = "reap" /\ at' = [at EXCEPT ![t] = "advance"]
        /\ completions # <<>> /\ reaped' = [reaped EXCEPT ![t] = completions[1]]
        /\ UNCHANGED <<drain, ring, completions, inKernel>>
    BY <1>3 DEF Reap, Goto, kernel
  <2>2. completions[1] \in Requests \cup {Stop}
    BY <2>1
  <2>3. \A u \in Threads : u # t => at[u] # "advance"
    BY <2>1
  <2> HIDE <1>0
  <2>4. reaped' \in [Threads -> Requests \cup {Stop, None}]
    BY <1>0, <2>1, <2>2
  <2>5. \A u \in Threads : /\ at'[u] = IF u = t THEN "advance" ELSE at[u]
                           /\ reaped'[u] = IF u = t THEN completions[1] ELSE reaped[u]
    BY <1>0, <2>1
  <2> QED
    BY <1>0, <2>1, <2>3, <2>4, <2>5
<1>4. ASSUME NEW t \in Threads, Advance(t) PROVE Goal
  <2> DEFINE p == IF t = Client THEN "out" ELSE IF reaped[t] = Stop THEN "exited" ELSE "wait"
  <2>1. /\ at[t] = "advance" /\ at' = [at EXCEPT ![t] = p]
        /\ completions # <<>> /\ completions' = Tail(completions)
        /\ reaped' = [reaped EXCEPT ![t] = None] /\ ring' = None
        /\ UNCHANGED <<drain, inKernel>>
    BY <1>4 DEF Advance, Goto
  <2>2. p \notin {"reap", "advance"}
    OBVIOUS
  <2> HIDE DEF p
  <2>3. completions' \in Seq(Requests \cup {Stop})
    BY <1>00, <2>1, RingShrinks
  <2>4. \A u \in Threads : u # t => at[u] \notin {"reap", "advance"}
    BY <2>1
  <2> HIDE <1>0
  <2>5. reaped' \in [Threads -> Requests \cup {Stop, None}]
    BY <1>0, <2>1
  <2>6. \A u \in Threads : /\ at'[u] = IF u = t THEN p ELSE at[u]
                           /\ reaped'[u] = IF u = t THEN None ELSE reaped[u]
    BY <1>0, <2>1
  <2> QED
    BY <1>0, <2>1, <2>2, <2>3, <2>4, <2>5, <2>6
<1>5. ASSUME NEW c \in Requests \cup {Stop}, completions' = Append(completions, c)
      PROVE  /\ completions' \in Seq(Requests \cup {Stop})
             /\ completions # <<>> => completions' # <<>> /\ completions'[1] = completions[1]
  <2>1. /\ completions' \in Seq(Requests \cup {Stop}) /\ completions' # <<>>
        /\ \A i \in 1..Len(completions) : completions'[i] = completions[i]
    BY <1>00, <1>5, RingGrows
  <2>2. completions # <<>> => 1 \in 1..Len(completions)
    OBVIOUS
  <2> QED
    BY <2>1, <2>2
<1>6. ASSUME \E r \in Requests : KernelCompletes(r) PROVE Goal
  <2>1. PICK r \in Requests : KernelCompletes(r)
    BY <1>6
  <2>2. /\ UNCHANGED <<at, reaped, ring, drain>> /\ completions' = Append(completions, r)
        /\ inKernel' \subseteq Requests /\ drain' \in Threads \cup {None}
        /\ \A t \in Threads : at'[t] = at[t]
    BY <2>1 DEF KernelCompletes
  <2>3. /\ completions' \in Seq(Requests \cup {Stop})
        /\ completions # <<>> => completions' # <<>> /\ completions'[1] = completions[1]
    BY <1>5, <2>2
  <2> HIDE DEF Goal
  <2> QED
    BY <1>1, <2>2, <2>3
<1>7. ASSUME PostStop PROVE Goal
  <2>1. /\ at[Client] = "stop" /\ completions' = Append(completions, Stop)
        /\ at' = [at EXCEPT ![Client] = IF posted + 1 = Cardinality(crew)
                                        THEN "await" ELSE "stop"]
        /\ UNCHANGED <<reaped, ring, drain, inKernel>>
    BY <1>7 DEF PostStop, Goto
  <2>2. \A t \in Threads : at'[t] = at[t] \/ {at[t], at'[t]} \cap {"reap", "advance"} = {}
    BY <2>1
  <2>3. /\ completions' \in Seq(Requests \cup {Stop})
        /\ completions # <<>> => completions' # <<>> /\ completions'[1] = completions[1]
    BY <1>5, <2>1
  <2>4. inKernel' \subseteq Requests /\ drain' \in Threads \cup {None}
    BY <2>1
  <2> HIDE DEF Goal
  <2> QED
    BY <1>1, <2>1, <2>2, <2>3, <2>4
<1>8. ASSUME NEW p, NEW q, at[Client] = p, at' = [at EXCEPT ![Client] = q],
             p \notin {"reap", "advance"}, q \notin {"reap", "advance"}
      PROVE  \A t \in Threads : at'[t] = at[t] \/ {at[t], at'[t]} \cap {"reap", "advance"} = {}
  BY <1>8
<1>9. ASSUME \/ LockDrain \/ TestDrained \/ Sleep \/ AwaitWorkers \/ Detach \/ Join
             \/ WakeSpuriously \/ StopRefused \/ WaitOne \/ DestroyContext
      PROVE  /\ \A t \in Threads : at'[t] = at[t]
                                   \/ {at[t], at'[t]} \cap {"reap", "advance"} = {}
             /\ reaped' = reaped /\ ring' = ring /\ drain' \in Threads \cup {None}
             /\ inKernel' = inKernel /\ completions' = completions
  <2> USE DEF Goto, kernel
  <2>1. CASE LockDrain
    BY <1>8, <2>1 DEF LockDrain
  <2>2. CASE TestDrained
    BY <1>8, <2>2 DEF TestDrained
  <2>3. CASE Sleep
    BY <1>8, <2>3 DEF Sleep
  <2>4. CASE AwaitWorkers
    BY <1>8, <2>4 DEF AwaitWorkers
  <2>5. CASE Detach
    <3>1. /\ at[Client] = "detach" /\ UNCHANGED <<reaped, ring, drain, inKernel, completions>>
          /\ \A t \in Threads : at'[t] = IF t \in crew \cup {Client} THEN "out" ELSE at[t]
      BY <2>5 DEF Detach
    <3>2. \A w \in crew : at[w] = "exited"
      BY <3>1 DEF IInv, ThreadsKnown
    <3> QED
      BY <3>1, <3>2
  <2>6. CASE Join
    BY <1>8, <2>6 DEF Join, InProgram, Stands
  <2>7. CASE WakeSpuriously
    BY <1>8, <2>7 DEF WakeSpuriously
  <2>8. CASE StopRefused
    BY <1>8, <2>8 DEF StopRefused
  <2>9. CASE WaitOne
    BY <1>8, <2>9 DEF WaitOne, InProgram, Stands
  <2>10. CASE DestroyContext
    BY <2>10 DEF DestroyContext
  <2> QED
    BY <1>9, <2>1, <2>2, <2>3, <2>4, <2>5, <2>6, <2>7, <2>8, <2>9, <2>10
<1>10. ASSUME NEW W \in (SUBSET Workers) \ {{}}, CreatePool(W) PROVE Goal
  <2>1. /\ pool = "none" /\ UNCHANGED <<reaped, ring, drain, inKernel, completions>>
        /\ \A t \in Threads : at'[t] = IF t \in W THEN "wait" ELSE at[t]
    BY <1>10 DEF CreatePool, kernel
  <2>2. \A t \in Workers : at[t] = "out"
    BY <2>1 DEF IInv, ThreadsKnown
  <2> QED
    BY <1>1a, <2>1, <2>2
<1>11. ASSUME NEW t \in Threads, FrameStepOf(t) \/ \E r \in Requests : Start(t, r) PROVE Goal
  <2>1. UNCHANGED <<drain, ring, reaped, completions>>
    BY <1>11 DEF FrameStepOf, CountRequest, Submit, SubmitRefused, ReleaseFile,
       EndCallback, Settle, NotifyDrained, DeleteRequest, Start, kernel
  <2>2. inKernel' \subseteq Requests
    <3>1. CASE Submit(t)
      <4>1. inKernel' = inKernel \cup {Top(t).req} /\ Stands(t, "submit")
        BY <3>1 DEF Submit
      <4>2. work[t] # <<>> /\ Top(t).req = work[t][Len(work[t])].req
        BY <1>00, <4>1, StandsIs
      <4>3. Top(t).req \in Requests
        BY <1>00, <4>2, FramesAre
      <4> QED
        BY <4>1, <4>3
    <3>2. CASE ~Submit(t)
      BY <1>11, <3>2 DEF FrameStepOf, CountRequest, SubmitRefused, ReleaseFile,
         EndCallback, Settle, NotifyDrained, DeleteRequest, Start, kernel
    <3> QED
      BY <3>1, <3>2
  <2>3. \A u \in Threads : at'[u] = at[u] \/ {at[u], at'[u]} \cap {"reap", "advance"} = {}
    <3>1. CASE NotifyDrained(t)
      BY <1>8, <3>1 DEF NotifyDrained, Goto
    <3>2. CASE ~NotifyDrained(t)
      BY <1>11, <3>2 DEF FrameStepOf, CountRequest, Submit, SubmitRefused, ReleaseFile,
         EndCallback, Settle, DeleteRequest, Start
    <3> QED
      BY <3>1, <3>2
  <2>4. completions # <<>> => completions' # <<>> /\ completions'[1] = completions[1]
    BY <2>1
  <2>5. completions' \in Seq(Requests \cup {Stop}) /\ drain' \in Threads \cup {None}
    BY <2>1
  <2> QED
    BY <1>1, <2>1, <2>2, <2>3, <2>4, <2>5
<1>12. ASSUME UNCHANGED vars PROVE Goal
  <2>1. UNCHANGED <<at, reaped, ring, drain, inKernel, completions>>
    BY <1>12 DEF vars, kernel
  <2> QED
    BY <1>1a, <2>1
<1>13. ASSUME \/ LockDrain \/ TestDrained \/ Sleep \/ AwaitWorkers \/ Detach \/ Join
              \/ WakeSpuriously \/ StopRefused \/ WaitOne \/ DestroyContext
       PROVE  Goal
  BY <1>1a, <1>9, <1>13
<1> HIDE <1>0
<1> HIDE DEF Goal
<1>14. ASSUME NEW t \in Threads,
              FrameStep(t) \/ WaitStep(t) \/ SubmitRefused(t) \/ \E r \in Requests : Start(t, r)
       PROVE  Goal
  BY <1>2, <1>3, <1>4, <1>11, <1>14 DEF FrameStep, WaitStep, FrameStepOf
<1>15. ASSUME \E W \in (SUBSET Workers) \ {{}} : CreatePool(W) PROVE Goal
  BY <1>10, <1>15
<1>16. Goal
  BY <1>6, <1>7, <1>12, <1>13, <1>14, <1>15 DEF Next, JoinStep
<1> QED
  BY <1>16 DEF Goal, ReaderKnown

-----------------------------------------------------------------------------
(* When nothing is left. *)

\* A context that has been destroyed has no request, and none comes; a pool being stopped
\* has none outstanding.
LEMMA QuietFollows ==
  ASSUME IInv, [Next]_vars
  PROVE  /\ at'[Client] \in {"stop", "await", "detach"} => outstanding' = 0
         /\ context' = "destroyed" => /\ pool' = "none" /\ at'[Client] = "out"
                                      /\ \A r \in Requests : r \notin Counted(FramePlaces)'
         /\ context' \in {"live", "destroyed"}
<1> DEFINE C == Counted(CountedByContext)
           Quiet == {"stop", "await", "detach"}
<1>0. /\ Typed /\ StackKnown /\ RequestsApart /\ ThreadsKnown
      /\ outstanding = Cardinality(C)
      /\ at[Client] \in Quiet => outstanding = 0
      /\ at \in [Threads -> LoopPlaces \cup JoinPlaces \cup {"exited"}]
      /\ Client \in Threads /\ Threads = Workers \cup {Client}
  BY DEF IInv, CountsKnown, Typed, Threads
<1>1. ASSUME outstanding = 0
      PROVE  /\ inKernel = {} /\ \A r \in Requests : ~InRing(r)
             /\ \A t \in Threads : \A i \in DOMAIN work[t] : work[t][i].at \notin CountedByContext
  <2>1. C = {}
    BY <1>0, <1>1, Counting
  <2>2. \A r \in Requests : r \notin inKernel /\ ~InRing(r) /\ ~Has(r, CountedByContext)
    BY <2>1 DEF Counted
  <2>3. inKernel \subseteq Requests
    BY <1>0 DEF Typed
  <2>4. \A t \in Threads : \A i \in DOMAIN work[t] : work[t][i].req \in Requests
    BY <1>0, FramesAre
  <2> QED
    BY <2>2, <2>3, <2>4 DEF Has
<1>2. ASSUME NEW t \in Threads, Stands(t, "count"), at[Client] \in Quiet PROVE FALSE
  <2>1. work[t] # <<>> /\ work[t][Len(work[t])].at = "count"
    BY <1>0, <1>2, StandsIs
  <2>2. Len(work[t]) \in Nat /\ Len(work[t]) > 0 /\ DOMAIN work[t] = 1..Len(work[t])
    BY <1>0, <2>1, FramesAre
  <2>3. t # Client
    BY <1>0, <1>2, <2>1 DEF ThreadsKnown
  <2>4. Len(work[t]) # 1
    BY <1>0, <2>1, <2>2, <2>3 DEF StackKnown
  <2>5. 1 \in DOMAIN work[t] /\ work[t][1].at = "running"
    <3> DEFINE n == Len(work[t])
    <3>0. n \in Nat /\ n > 0 /\ n # 1 /\ DOMAIN work[t] = 1..n
      BY <2>2, <2>4
    <3> HIDE DEF n
    <3>1a. 1 \in 1..n /\ 1 < n
      BY <3>0
    <3>1. 1 \in DOMAIN work[t] /\ 1 < Len(work[t])
      BY <3>0, <3>1a DEF n
    <3> QED
      BY <1>0, <3>1 DEF StackKnown
  <2> QED
    BY <1>0, <1>1, <1>2, <2>5 DEF CountedByContext
<1>3. ASSUME NEW t \in Threads, Stands(t, "settle"), at[Client] \in Quiet PROVE FALSE
  <2>1. work[t] # <<>> /\ work[t][Len(work[t])].at = "settle"
    BY <1>0, <1>3, StandsIs
  <2>2. Len(work[t]) \in DOMAIN work[t]
    BY <1>0, <2>1, FramesAre
  <2> QED
    BY <1>0, <1>1, <1>3, <2>1, <2>2 DEF CountedByContext
<1>4. at'[Client] \in Quiet => outstanding' = 0
  <2> DEFINE Goal == at'[Client] \in Quiet => outstanding' = 0
  <2>1. ASSUME at'[Client] \in Quiet => at[Client] \in Quiet, outstanding' = outstanding PROVE Goal
    BY <1>0, <2>1
  <2>2. ASSUME NEW t \in Threads, FrameStepOf(t) \/ \E r \in Requests : Start(t, r) PROVE Goal
    <3>1. CASE CountRequest(t)
      BY <1>2, <3>1 DEF CountRequest
    <3>2. CASE Settle(t)
      BY <1>3, <3>2 DEF Settle
    <3>3. CASE NotifyDrained(t)
      BY <1>0, <3>3 DEF NotifyDrained, Goto, counts
    <3>4. CASE ~CountRequest(t) /\ ~Settle(t) /\ ~NotifyDrained(t)
      <4>1. at' = at /\ outstanding' = outstanding
        BY <2>2, <3>4 DEF FrameStepOf, Submit, SubmitRefused, ReleaseFile, EndCallback,
           DeleteRequest, Start, counts
      <4> QED
        BY <2>1, <4>1
    <3> QED
      BY <3>1, <3>2, <3>3, <3>4
  <2>3. ASSUME NEW t \in Threads, WaitStep(t) PROVE Goal
    <3>1. outstanding' = outstanding
      BY <2>3 DEF WaitStep, LockRing, Reap, Advance, counts
    <3>2. at'[Client] \in Quiet => at[Client] \in Quiet
      <4>1. CASE LockRing(t)
        BY <1>0, <4>1 DEF LockRing, Goto
      <4>2. CASE Reap(t)
        BY <1>0, <4>2 DEF Reap, Goto
      <4>3. CASE Advance(t)
        BY <1>0, <4>3 DEF Advance, Goto
      <4> QED
        BY <2>3, <4>1, <4>2, <4>3 DEF WaitStep
    <3> QED
      BY <2>1, <3>1, <3>2
  <2>4. ASSUME \/ JoinStep \/ Join \/ WakeSpuriously \/ StopRefused \/ WaitOne
               \/ DestroyContext \/ (\E r \in Requests : KernelCompletes(r)) \/ UNCHANGED vars
               \/ \E W \in (SUBSET Workers) \ {{}} : CreatePool(W)
        PROVE  Goal
    <3> USE DEF Goto, counts
    <3>1. outstanding' = outstanding
      BY <2>4 DEF JoinStep, LockDrain, TestDrained, Sleep, PostStop, AwaitWorkers, Detach, Join,
         WakeSpuriously, StopRefused, WaitOne, DestroyContext, KernelCompletes, CreatePool, vars
    <3>2. CASE TestDrained
      BY <1>0, <3>1, <3>2 DEF TestDrained
    <3>3. CASE PostStop \/ AwaitWorkers
      BY <1>0, <3>1, <3>3 DEF PostStop, AwaitWorkers
    <3>4. CASE LockDrain \/ Sleep \/ Join \/ WakeSpuriously \/ StopRefused \/ WaitOne
      BY <1>0, <3>4 DEF LockDrain, Sleep, Join, WakeSpuriously, StopRefused, WaitOne
    <3>5. CASE Detach
      BY <1>0, <3>5 DEF Detach
    <3>6. CASE \/ DestroyContext \/ (\E r \in Requests : KernelCompletes(r)) \/ UNCHANGED vars
      <4>1. at' = at
        BY <3>6 DEF DestroyContext, KernelCompletes, vars
      <4> QED
        BY <2>1, <3>1, <4>1
    <3>7. CASE \E W \in (SUBSET Workers) \ {{}} : CreatePool(W)
      <4>1. PICK W \in (SUBSET Workers) \ {{}} : CreatePool(W)
        BY <3>7
      <4>2. at'[Client] = IF Client \in W THEN "wait" ELSE at[Client]
        BY <1>0, <4>1 DEF CreatePool
      <4> QED
        BY <2>1, <3>1, <4>2
    <3> QED
      BY <2>4, <3>2, <3>3, <3>4, <3>5, <3>6, <3>7 DEF JoinStep
  <2> HIDE DEF Goal
  <2>5. ASSUME NEW t \in Threads,
               FrameStep(t) \/ WaitStep(t) \/ SubmitRefused(t) \/ \E r \in Requests : Start(t, r)
        PROVE  Goal
    BY <2>2, <2>3, <2>5 DEF FrameStep, FrameStepOf
  <2>6. Goal
    BY <2>4, <2>5 DEF Next
  <2> QED
    BY <2>6 DEF Goal
<1>5. ASSUME pool = "none", at[Client] = "out", \A r \in Requests : r \notin Counted(FramePlaces)
      PROVE  /\ \A t \in Threads : work[t] = <<>>
             /\ \A t \in Threads : at[t] = "out"
             /\ inKernel = {} /\ \A r \in Requests : ~InRing(r)
  <2>1. \A r \in Requests : r \notin inKernel /\ ~InRing(r) /\ ~Has(r, FramePlaces)
    BY <1>5 DEF Counted
  <2>2. inKernel = {}
    BY <1>0, <2>1 DEF Typed
  <2>3. \A t \in Threads : work[t] = <<>>
    <3> SUFFICES ASSUME NEW t \in Threads, work[t] # <<>> PROVE FALSE
      OBVIOUS
    <3>1. Len(work[t]) \in DOMAIN work[t] /\ work[t][Len(work[t])].req \in Requests
          /\ work[t][Len(work[t])].at \in FramePlaces
      BY <1>0, FramesAre
    <3> QED
      BY <2>1, <3>1 DEF Has
  <2>4. \A t \in Threads : at[t] = "out"
    BY <1>0, <1>5 DEF ThreadsKnown
  <2> QED
    BY <2>1, <2>2, <2>3, <2>4
<1>6. CASE context = "destroyed"
  <2>1. pool = "none" /\ at[Client] = "out" /\ \A r \in Requests : r \notin Counted(FramePlaces)
    BY <1>6 DEF IInv, CountsKnown
  <2>2. /\ \A t \in Threads : work[t] = <<>> /\ at[t] = "out"
        /\ inKernel = {}
    BY <1>5, <2>1
  <2>3. ASSUME NEW t \in Threads, FrameStepOf(t) \/ WaitStep(t) \/ \E r \in Requests : Start(t, r)
        PROVE  FALSE
    BY <1>6, <2>2, <2>3 DEF FrameStepOf, CountRequest, Submit, SubmitRefused, ReleaseFile,
       EndCallback, Settle, NotifyDrained, DeleteRequest, Start, Stands, WaitStep, LockRing,
       Reap, Advance
  <2>4. ASSUME \/ JoinStep \/ Join \/ WakeSpuriously \/ StopRefused \/ WaitOne
               \/ DestroyContext \/ (\E r \in Requests : KernelCompletes(r))
               \/ \E W \in (SUBSET Workers) \ {{}} : CreatePool(W)
        PROVE  FALSE
    BY <1>0, <1>6, <2>1, <2>2, <2>4 DEF JoinStep, LockDrain, TestDrained, Sleep, PostStop,
       AwaitWorkers, Detach, Join, WakeSpuriously, StopRefused, WaitOne, DestroyContext,
       KernelCompletes, CreatePool
  <2>5. UNCHANGED vars
    BY <2>3, <2>4 DEF Next, FrameStep, FrameStepOf
  <2>6. UNCHANGED <<work, inKernel, completions, pool, context, at>>
    BY <2>5 DEF vars, kernel, poolVars
  <2>7. Counted(FramePlaces)' = Counted(FramePlaces)
    BY <1>0, <2>6, QuietCounts
  <2> QED
    BY <1>4, <1>6, <2>1, <2>6, <2>7
<1>7. CASE context # "destroyed"
  <2>1. CASE DestroyContext
    <3>1. /\ pool = "none" /\ outstanding = 0 /\ at[Client] = "out" /\ work[Client] = <<>>
          /\ UNCHANGED <<work, inKernel, completions, pool, at>> /\ context' = "destroyed"
      BY <2>1 DEF DestroyContext, InProgram, Stands, kernel, poolVars
    <3>2. \A t \in Threads : work[t] = <<>>
      BY <1>0, <3>1 DEF ThreadsKnown
    <3>3. \A r \in Requests : r \notin inKernel /\ ~InRing(r)
      BY <1>1, <3>1
    <3>4. \A t \in Threads : DOMAIN work[t] = {}
      BY <3>2
    <3>5. \A r \in Requests : r \notin Counted(FramePlaces)
      BY <3>3, <3>4 DEF Counted, Has
    <3>6. Counted(FramePlaces)' = Counted(FramePlaces)
      BY <1>0, <3>1, QuietCounts
    <3> QED
      BY <1>4, <3>1, <3>5, <3>6
  <2>2. CASE ~DestroyContext
    <3>1. context' = context
      BY <2>2 DEF Next, FrameStep, WaitStep, JoinStep, CountRequest, Submit, SubmitRefused,
         ReleaseFile, EndCallback, Settle, NotifyDrained, DeleteRequest, Start, LockRing, Reap,
         Advance, LockDrain, TestDrained, Sleep, PostStop, AwaitWorkers, Detach, Join,
         WakeSpuriously, StopRefused, WaitOne, KernelCompletes, CreatePool, vars, clientVars
    <3>2. context \in {"live", "destroyed"}
      BY <1>0 DEF Typed
    <3> QED
      BY <1>4, <1>7, <3>1, <3>2
  <2> QED
    BY <2>1, <2>2
<1> QED
  BY <1>6, <1>7

LEMMA InvariantStep ==
  ASSUME IInv, [Next]_vars
  PROVE  IInv'
<1>1. Typed'
  <2>1. ASSUME NEW P PROVE Cardinality(Counted(P)') \in Nat
    <3>1. Counted(P)' \subseteq Requests
      BY DEF Counted
    <3> QED
      BY <3>1, ConstantTypes, FS_Subset, FS_CardinalityType
  <2>2. outstanding' \in Nat /\ pending' \in Nat
    BY <2>1, CountsFollow
  <2>3. work' \in [Threads -> Seq(Frame)]
    BY StacksFollow
  <2>4. /\ at' \in [Threads -> LoopPlaces \cup JoinPlaces \cup {"exited"}]
        /\ pool' \in {"none", "attached", "joining", "threw"} /\ crew' \subseteq Workers
    BY PlacesFollow
  <2>5. /\ drain' \in Threads \cup {None} /\ ring' \in Threads \cup {None}
        /\ completions' \in Seq(Requests \cup {Stop}) /\ inKernel' \subseteq Requests
        /\ reaped' \in [Threads -> Requests \cup {Stop, None}]
    BY ReaderFollows
  <2>6. context' \in {"live", "destroyed"}
    BY QuietFollows
  <2> QED
    BY <2>2, <2>3, <2>4, <2>5, <2>6 DEF Typed
<1>2. StackKnown'
  BY StacksFollow
<1>3. RequestsApart'
  BY CountsFollow
<1>4. ReaderKnown'
  BY ReaderFollows
<1>5. ThreadsKnown'
  BY ThreadsFollow
<1>6. CountsKnown'
  <2>1. /\ outstanding' = Cardinality(Counted(CountedByContext)')
        /\ pending' = Cardinality(Counted(CountedByFile)')
    BY CountsFollow
  <2>2. /\ at'[Client] \in {"stop", "await", "detach"} => outstanding' = 0
        /\ context' = "destroyed" => /\ pool' = "none" /\ at'[Client] = "out"
                                     /\ \A r \in Requests : r \notin Counted(FramePlaces)'
    BY QuietFollows
  <2> QED
    BY <2>1, <2>2 DEF CountsKnown
<1> QED
  BY <1>1, <1>2, <1>3, <1>4, <1>5, <1>6 DEF IInv

LEMMA InvariantFirst == Init => IInv
<1> SUFFICES ASSUME Init PROVE IInv
  OBVIOUS
<1>0. /\ \A t \in Threads : work[t] = <<>> /\ at[t] = "out" /\ reaped[t] = None
      /\ inKernel = {} /\ completions = <<>> /\ crew = {} /\ pool = "none"
      /\ context = "live" /\ outstanding = 0 /\ pending = 0
      /\ Client \in Threads /\ Workers \subseteq Threads /\ Client \notin Workers
  BY ConstantTypes DEF Init, Threads
<1>1. Typed
  <2>1. <<>> \in Seq(Frame) /\ <<>> \in Seq(Requests \cup {Stop})
    OBVIOUS
  <2> QED
    BY <2>1 DEF Init, Typed, LoopPlaces
<1>2. \A t \in Threads : DOMAIN work[t] = {}
  BY <1>0
<1>3. \A r : ~InRing(r)
  BY <1>0 DEF InRing
<1>4. \A P : Counted(P) = {}
  BY <1>0, <1>2, <1>3 DEF Counted, Has
<1>5. StackKnown /\ RequestsApart
  <2>1. DOMAIN completions = {}
    BY <1>0
  <2> QED
    BY <1>0, <1>2, <1>3, <2>1 DEF StackKnown, RequestsApart
<1>6. ReaderKnown
  BY <1>0 DEF ReaderKnown
<1>7. ThreadsKnown
  BY <1>0 DEF ThreadsKnown, JoinPlaces
<1>8. CountsKnown
  BY <1>0, <1>4, FS_EmptySet DEF CountsKnown
<1> QED
  BY <1>1, <1>5, <1>6, <1>7, <1>8 DEF IInv

-----------------------------------------------------------------------------
(* What the invariant says of counts and holders. *)

\* One member of S for each of T.
LEMMA OneForEach ==
  ASSUME NEW S, NEW T, IsFiniteSet(T), NEW f \in [S -> T],
         \A x, y \in S : f[x] = f[y] => x = y,
         \A z \in T : \E x \in S : f[x] = z
  PROVE  Cardinality(S) = Cardinality(T)
<1>1. f \in Injection(S, T)
  BY DEF Injection, IsInjective
<1>2. f \in Surjection(S, T)
  BY DEF Surjection
<1> QED
  BY <1>1, <1>2, FS_Injection

LEMMA CountedIsHeld ==
  ASSUME Typed, RequestsApart, NEW P
  PROVE  /\ Cardinality(Counted(P)) = Cardinality(InFrame(P)) + InQueue
         /\ Cardinality(Counted(P)) = InQueue + Cardinality(InFrame(P))
<1> DEFINE F == {r \in Requests : Has(r, P)}
           Q == {r \in Requests : InRing(r)}
           K == {i \in DOMAIN completions : completions[i] # Stop}
<1>1. inKernel \subseteq Requests /\ completions \in Seq(Requests \cup {Stop})
      /\ Stop \notin Requests
  BY ConstantTypes DEF Typed
<1>2. IsFiniteSet(F) /\ IsFiniteSet(Q) /\ IsFiniteSet(inKernel)
  <2>1. F \subseteq Requests /\ Q \subseteq Requests
    OBVIOUS
  <2> HIDE DEF F, Q
  <2> QED
    BY <1>1, <2>1, ConstantTypes, FS_Subset
<1>3. Cardinality(InFrame(P)) = Cardinality(F)
  <2> DEFINE f == [e \in InFrame(P) |-> work[e[1]][e[2]].req]
  <2>1. \A e \in InFrame(P) : \E t \in Threads : \E i \in DOMAIN work[t] :
           e = <<t, i>> /\ work[t][i].at \in P
    BY DEF InFrame
  <2>2. \A t \in Threads : \A i \in DOMAIN work[t] :
           work[t][i].at \in P => <<t, i>> \in InFrame(P)
    BY DEF InFrame
  <2>3. \A t \in Threads : \A i \in DOMAIN work[t] : work[t][i].req \in Requests
    BY FramesAre
  <2>4. f \in [InFrame(P) -> F]
    <3>1. \A e \in InFrame(P) : work[e[1]][e[2]].req \in F
      BY <2>1, <2>3 DEF Has
    <3> QED
      BY <3>1
  <2>5. ASSUME NEW d \in InFrame(P), NEW e \in InFrame(P), f[d] = f[e] PROVE d = e
    <3>1a. PICK t \in Threads : \E i \in DOMAIN work[t] : d = <<t, i>>
      BY <2>1
    <3>1. PICK i \in DOMAIN work[t] : d = <<t, i>>
      BY <3>1a
    <3>2a. PICK u \in Threads : \E j \in DOMAIN work[u] : e = <<u, j>>
      BY <2>1
    <3>2. PICK j \in DOMAIN work[u] : e = <<u, j>>
      BY <3>2a
    <3>3. work[t][i].req = work[u][j].req
      BY <2>5, <3>1, <3>2
    <3> QED
      BY <3>1, <3>2, <3>3 DEF RequestsApart
  <2>6. ASSUME NEW r \in F PROVE \E e \in InFrame(P) : f[e] = r
    <3>1. PICK t \in Threads : \E i \in DOMAIN work[t] :
             work[t][i].req = r /\ work[t][i].at \in P
      BY DEF Has
    <3>2. PICK i \in DOMAIN work[t] : work[t][i].req = r /\ work[t][i].at \in P
      BY <3>1
    <3>3. <<t, i>> \in InFrame(P) /\ f[<<t, i>>] = r
      BY <2>2, <3>2
    <3> QED
      BY <3>3
  <2> HIDE DEF f, F
  <2> QED
    BY <1>2, <2>4, <2>5, <2>6, OneForEach
<1>4. Cardinality(K) = Cardinality(Q)
  <2> DEFINE f == [i \in K |-> completions[i]]
  <2>1. \A i \in DOMAIN completions : completions[i] \in Requests \cup {Stop}
    BY <1>1
  <2>2. f \in [K -> Q]
    BY <2>1 DEF InRing
  <2>3. \A i, j \in K : f[i] = f[j] => i = j
    BY DEF RequestsApart
  <2>4. \A r \in Q : \E i \in K : f[i] = r
    BY <1>1 DEF InRing
  <2> HIDE DEF f, K, Q
  <2> QED
    BY <1>2, <2>2, <2>3, <2>4, OneForEach
<1>5. F \cap Q = {} /\ (F \cup Q) \cap inKernel = {}
  BY DEF RequestsApart, Has
<1>6. Counted(P) = (F \cup Q) \cup inKernel
  BY <1>1 DEF Counted
<1>7. IsFiniteSet(F \cup Q)
      /\ Cardinality(F \cup Q) = Cardinality(F) + Cardinality(Q) - Cardinality(F \cap Q)
  <2> HIDE DEF F, Q
  <2> QED
    BY <1>2, FS_Union
<1>8. Cardinality((F \cup Q) \cup inKernel)
      = Cardinality(F \cup Q) + Cardinality(inKernel) - Cardinality((F \cup Q) \cap inKernel)
  <2> HIDE DEF F, Q
  <2> QED
    BY <1>2, <1>7, FS_Union
<1>9. /\ Cardinality(F) \in Nat /\ Cardinality(Q) \in Nat /\ Cardinality(inKernel) \in Nat
      /\ Cardinality({}) = 0
  BY <1>2, FS_CardinalityType, FS_EmptySet
<1>10. InQueue = Cardinality(inKernel) + Cardinality(K)
  BY DEF InQueue
<1> HIDE DEF F, Q, K
<1>11. Cardinality(F \cap Q) = 0 /\ Cardinality((F \cup Q) \cap inKernel) = 0
  BY <1>5, <1>9
<1>12. Cardinality(Counted(P))
       = (Cardinality(F) + Cardinality(Q) - 0) + Cardinality(inKernel) - 0
  BY <1>6, <1>7, <1>8, <1>11
<1>13. InQueue = Cardinality(inKernel) + Cardinality(Q)
  BY <1>4, <1>10
<1> QED
  BY <1>3, <1>9, <1>12, <1>13

LEMMA LiveIsCounted ==
  ASSUME Typed, ReaderKnown
  PROVE  LiveRequests = Counted(FramePlaces)
<1>0. /\ completions \in Seq(Requests \cup {Stop}) /\ inKernel \subseteq Requests
      /\ Stop \notin Requests
  BY ConstantTypes DEF Typed
<1>1. \A r : r \in (UNION {HeldBy(t) : t \in Threads}) <=> r \in Requests /\ Has(r, FramePlaces)
  <2>1. \A t \in Threads : \A i \in DOMAIN work[t] :
           work[t][i].req \in Requests /\ work[t][i].at \in FramePlaces
    BY FramesAre
  <2> QED
    BY <2>1 DEF HeldBy, Has
<1>2. \A r : r \in ToSet(completions) \ {Stop} <=> r \in Requests /\ InRing(r)
  <2>1. \A i \in DOMAIN completions : completions[i] \in Requests \cup {Stop}
    BY <1>0
  <2> QED
    BY <1>0, <2>1 DEF ToSet, InRing
<1>3. \A r \in {reaped[t] : t \in Threads} \ {Stop, None} : r \in Requests /\ InRing(r)
  <2> SUFFICES ASSUME NEW t \in Threads, reaped[t] \notin {Stop, None}
               PROVE  reaped[t] \in Requests /\ InRing(reaped[t])
    OBVIOUS
  <2>1. completions # <<>> /\ reaped[t] = completions[1]
    BY DEF ReaderKnown
  <2>2. 1 \in DOMAIN completions
    BY <1>0, <2>1
  <2>3. reaped[t] \in Requests \cup {Stop, None}
    BY DEF Typed
  <2> QED
    BY <2>1, <2>2, <2>3 DEF InRing
<1> QED
  BY <1>0, <1>1, <1>2, <1>3 DEF LiveRequests, Counted

LEMMA InvariantSays == IInv => ContextInv
<1> SUFFICES ASSUME IInv PROVE ContextInv
  OBVIOUS
<1>0. Typed /\ RequestsApart /\ ReaderKnown /\ ThreadsKnown /\ CountsKnown
  BY DEF IInv
<1>1. TypeOK
  <2>1. ASSUME NEW P PROVE Cardinality(Counted(P)) \in 0..Cardinality(Requests)
    <3>1. Counted(P) \subseteq Requests
      BY DEF Counted
    <3>2. /\ Cardinality(Counted(P)) \in Nat /\ Cardinality(Requests) \in Nat
          /\ Cardinality(Counted(P)) <= Cardinality(Requests)
      BY <3>1, ConstantTypes, FS_Subset, FS_CardinalityType
    <3> QED
      BY <3>2
  <2>2. /\ outstanding \in 0..Cardinality(Requests)
        /\ pending \in 0..Cardinality(Requests)
    BY <1>0, <2>1 DEF CountsKnown
  <2> QED
    BY <1>0, <2>2 DEF Typed, TypeOK, Frame
<1>2. OneHolder
  BY <1>0, CountedIsHeld, LiveIsCounted DEF OneHolder
<1>3. CountsExact
  <2>1. /\ outstanding = InQueue + Cardinality(InFrame(CountedByContext))
        /\ pending = InQueue + Cardinality(InFrame(CountedByFile))
    BY <1>0, CountedIsHeld DEF CountsKnown
  <2> QED
    BY <2>1 DEF CountsExact, CountedByContext, CountedByFile
<1>4. JoinedMeansQuiet
  <2>1. at[Client] = "await" => outstanding = 0
    BY <1>0 DEF CountsKnown
  <2>2. pool = "none" => \A w \in Workers : at[w] = "out" /\ work[w] = <<>>
    BY <1>0, ConstantTypes DEF ThreadsKnown, Threads
  <2>3. context = "destroyed" => LiveRequests = {}
    <3>1. Counted(FramePlaces) \subseteq Requests
      BY DEF Counted
    <3> QED
      BY <1>0, <3>1, LiveIsCounted DEF CountsKnown
  <2> QED
    BY <2>1, <2>2, <2>3 DEF JoinedMeansQuiet
<1> QED
  BY <1>1, <1>2, <1>3, <1>4 DEF ContextInv

\* Whatever threads, callbacks and kernel do: a request is held by one thread, the kernel or
\* the completion ring until it is deleted, once; the context and the file count exactly the
\* requests they must; and a join that has returned, or a context destroyed, leaves none.
THEOREM ContextStaysSound == Spec => []ContextInv
<1> QED
  BY InvariantFirst, InvariantStep, InvariantSays, PTL DEF Spec
=============================================================================
