---------------------------- MODULE VmirLowering ----------------------------
(***************************************************************************)
(* The VMIR generator (co_vmir_generator2.hpp): the blocks, instructions   *)
(* and edges it makes of the statements of a body, of the construction of  *)
(* structs and arrays and of their destruction.  What a path destroys is   *)
(* nowhere written in that code: it follows from which slots are alive at  *)
(* the end of the source of an edge and which at the entry of its target,  *)
(* so that the order in which the generator forks its blocks decides it.   *)
(*                                                                         *)
(* A generator state g has the slots made so far (kind, named, type, of    *)
(* which count are used), par (the slot of each parameter), blocks, the    *)
(* lexical catcher and catch region, the targets of BREAK and CONTINUE     *)
(* (loops, breaks), labels and the GOTOs that wait for one, ntd, at (the   *)
(* current block), value (the slot of the value made last) and ok, FALSE    *)
(* once the compiler has reported an error.                                 *)
(***************************************************************************)
EXTENDS VmirRoutines

CONSTANT MaxSlots           \* slots of a routine

Unused == [kind |-> "unused", of |-> "unused"]

-----------------------------------------------------------------------------
(* Routines and blocks. *)

(* params is a sequence of [name, kind, type]; a positional parameter is    *)
(* named by its place.  The entry block is block 1.                         *)
NewRoutine(params, noexcept) ==
  LET parameter(s) == s <= Len(params)
      kind  == [s \in 1..MaxSlots |-> IF parameter(s) THEN params[s].kind ELSE "local"]
      named == [s \in 1..MaxSlots |-> parameter(s) /\ params[s].name \notin {"0", "1", "2"}]
      type  == [s \in 1..MaxSlots |-> IF parameter(s) THEN params[s].type ELSE Unused]
      r     == [kind |-> kind, named |-> named, type |-> type, ntd |-> {}]
      entry == ApplyEntry(r, [s \in 1..MaxSlots |-> Absent])
  IN [kind |-> kind, named |-> named, type |-> type, count |-> Len(params),
      par |-> [name \in {params[k].name : k \in DOMAIN params} |->
                 CHOOSE k \in DOMAIN params : params[k].name = name],
      blocks |-> <<[entry |-> entry, cur |-> entry, code |-> <<>>, term |-> None,
                    catcher |-> None, region |-> None, incoming |-> FALSE]>>,
      catcher |-> None, region |-> None, loops |-> <<>>, breaks |-> <<>>,
      labels |-> [name \in {} |-> None], pending |-> {}, ntd |-> {}, caught |-> None,
      noexcept |-> noexcept, at |-> 1, value |-> None, ok |-> TRUE]

NewLocal(g, type) == [g EXCEPT !.count = @ + 1, !.type[g.count + 1] = type]

NewLocals(g, types) == FoldLeft(NewLocal, g, types)

At(g, b)   == [g EXCEPT !.at = b]
Fail(g)    == [g EXCEPT !.ok = FALSE]
Fresh(g)   == Len(g.blocks) + 1

(* A block starts with the state its source has now, under the handlers of  *)
(* the place of the program the generator is at.                            *)
Subblock(g, from) ==
  [g EXCEPT !.blocks = Append(@,
     [entry |-> g.blocks[from].cur, cur |-> g.blocks[from].cur, code |-> <<>>, term |-> None,
      catcher |-> g.catcher, region |-> g.region, incoming |-> FALSE])]

Subblocks(g, from, n) == FoldLeft(LAMBDA h, k : Subblock(h, from), g, [k \in 1..n |-> k])

Outputs(g) == {s \in DOMAIN g.kind : g.kind[s] = "nvalue"}

(* Carries the state of the output parameters across an edge: the first     *)
(* edge fixes it, the others must agree.                                    *)
MergeNvalueFlow(g, source, target) ==
  LET from == g.blocks[source]
      to   == g.blocks[target]
      set  == to.incoming \/ to.code # <<>> \/ to.term # None
      agree == \A s \in Outputs(g) : /\ from.cur[s].stage = to.entry[s].stage
                                     /\ from.cur[s].valid = to.entry[s].valid
      carry(st) == [s \in DOMAIN st |-> IF s \in Outputs(g) THEN from.cur[s] ELSE st[s]]
  IN IF source # 1 /\ ~from.incoming THEN g
     ELSE IF set THEN [g EXCEPT !.blocks[target].incoming = TRUE, !.ok = @ /\ agree]
     ELSE [g EXCEPT !.blocks[target] =
             [@ EXCEPT !.entry = carry(@), !.cur = carry(@), !.incoming = TRUE]]

Targets(term) ==
  CASE term.op = "jump"   -> <<term.to>>
    [] term.op = "branch" -> <<term.yes, term.no>>
    [] OTHER              -> <<>>

SetTerminator(g, b, term) ==
  LET merged   == FoldLeft(LAMBDA h, t : MergeNvalueFlow(h, b, t), g, Targets(term))
      returned == term.op = "ret" /\ (b = 1 \/ g.blocks[b].incoming) =>
                    \A s \in Outputs(g) : InitializationCompleted(g.blocks[b].cur, s)
  IN [merged EXCEPT !.blocks[b].term = term, !.ok = @ /\ g.blocks[b].term = None /\ returned]

Jump(g, from, to) == SetTerminator(g, from, [op |-> "jump", to |-> to])

FallthroughJump(g, from, to) == IF g.blocks[from].term = None THEN Jump(g, from, to) ELSE g

(* The current block goes on to another. *)
Join(g, to)            == Jump(g, g.at, to)
FallthroughJoin(g, to) == FallthroughJump(g, g.at, to)

Branch(g, cond, from, yes, no) ==
  SetTerminator(g, from, [op |-> "branch", cond |-> cond, yes |-> yes, no |-> no])

(* A call may leave for the handler, so the handler sees the outputs as the *)
(* call finds them.                                                         *)
CallEdge(g, b, i) ==
  IF g.blocks[b].catcher # None /\ i.op \in Calls THEN MergeNvalueFlow(g, b, g.blocks[b].catcher.handler)
  ELSE g

Record(g, b, i, result) ==
  [g EXCEPT !.blocks[b] = [@ EXCEPT !.cur = result.st, !.code = Append(@, i)], !.ok = @ /\ result.ok]

Perform(g, b, i) == Record(g, b, i, Apply(Engine(g), g.blocks[b].cur, i))

Emit(g, b, i) == Perform(CallEdge(g, b, i), b, i)

EmitAll(g, b, code) == FoldLeft(LAMBDA h, i : Emit(h, b, i), g, code)

Do(op, slots) == [op |-> op, args |-> slots]

(* An instruction that makes a value in a slot of its own, its last operand. *)
Making(g, b, type, op, slots) ==
  [Emit(NewLocal(g, type), b, Do(op, Append(slots, g.count + 1))) EXCEPT !.value = g.count + 1]

ReferenceTo(g, b, slot) == Making(g, b, Ref(g.type[slot].of), "make_reference", <<slot>>)

(* A call of routine f.  Only a constructor initializes an argument, THIS.  *)
Invocation(f, pos, named) ==
  LET initializes(name) == name = "THIS" /\ f[1] \in {"ctor", "subctor", "copy", "subcopy",
                                                      "move", "submove", "list"}
  IN [op |-> "invoke", f |-> f, pos |-> pos, named |-> named,
      sig |-> [pos |-> [k \in DOMAIN pos |-> "value"],
               order |-> SelectSeq(<<"ARG", "EXCEPTION", "OTHER", "THIS", "VALUE">>,
                                   LAMBDA name : name \in DOMAIN named),
               named |-> [name \in DOMAIN named |->
                            IF initializes(name) THEN "nvalue" ELSE "value"]]]

(* Lets a slot made in one block live on in the next. *)
SurvivorForgotten(g, from, to, slot) == g   \* mutant: the next block does not know the slot
Survivor(g, from, to, slot) ==
  LET x == g.blocks[from].cur[slot] IN
  [g EXCEPT !.blocks[to] = [@ EXCEPT !.entry[slot] = x, !.cur[slot] = x],
            !.ok = @ /\ g.blocks[to].code = <<>>]

KillEntryValue(g, b, slot) ==
  [g EXCEPT !.blocks[b] = [@ EXCEPT !.entry[slot] = Absent, !.cur[slot] = Absent]]

(* Every slot whose type has a destructor is destroyed where its life ends. *)
(* The slots the routine did not need are not part of it.                   *)
Finish(g) ==
  LET made(f) == [s \in 1..g.count |-> f[s]] IN
  [g EXCEPT !.ntd = @ \cup {g.type[s] : s \in {t \in 1..g.count :
                              g.type[t].kind = "class" /\ HasDestructor[g.type[t].of]}},
            !.kind = made(@), !.named = made(@), !.type = made(@),
            !.blocks = [b \in DOMAIN @ |-> [@[b] EXCEPT !.entry = made(@), !.cur = made(@)]],
            !.ok = @ /\ g.pending = {} /\ g.count <= MaxSlots]

(* The state the flow of a routine has before each instruction of a block,  *)
(* and before its terminator.                                               *)
FlowOf(g) ==
  [b \in DOMAIN g.blocks |->
    FoldLeft(LAMBDA states, i : Append(states, Apply(Engine(g), Last(states), i).st),
             <<g.blocks[b].entry>>, g.blocks[b].code)]

=============================================================================
