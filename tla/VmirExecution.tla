---------------------------- MODULE VmirExecution ----------------------------
(***************************************************************************)
(* The execution of lowered routines, by the interpreter of constant       *)
(* expressions (ir2_constexpr_interpreter.cpp) or by the code the LLVM     *)
(* back end makes (llvm-backend.cpp).  Both obey the plans of the state    *)
(* engine, and differ in when they make them: the interpreter plans a      *)
(* transition again after every destructor it has called, from the stages  *)
(* its objects really have; the back end plans it once, at compile time,   *)
(* from the stages they have in the flow of the routine.                   *)
(*                                                                         *)
(* An object is named by where it is: a slot of a frame of the stack, or a *)
(* part of another object.  The classes of kind "extern", the runtime's    *)
(* EXCEPTION_PTR and EXCEPTION_HANDLER among them, have constructors and   *)
(* destructors that run in one step.  An exception frame is a number, 0    *)
(* the one the runtime keeps for an allocation that failed.                *)
(***************************************************************************)
EXTENDS VmirRoutines

CONSTANTS Code,           \* the routines, by name, each with its flow: the state its slots
                          \* have before each instruction of a block and before its terminator
          Programs,       \* the functions that can be run
          Executors,      \* of "interpreter" and "native"
          MaxExceptions,  \* exceptions that exist at the same time
          MaxFailures     \* constructions and allocations that fail in a run

VARIABLES executor,
          stack,      \* the frames, the last one running
          memory,     \* the objects that are alive or being built
          live,       \* ghost: the objects whose destructor is owed, as they were completed
          twice,      \* ghost: an object was completed or destroyed again
          current,    \* the exception of the innermost active handler of the thread
          refcount,   \* of each exception frame
          failures,
          outcome     \* "running", "ended", "terminated" or "compiler_bug"

vars == <<executor, stack, memory, live, twice, current, refcount, failures, outcome>>

Exceptions == 0..MaxExceptions

-----------------------------------------------------------------------------
(* Objects. *)

Object(stage, val) == [stage |-> stage, val |-> val, dtor |-> None, done |-> 0, length |-> 0]

Put(mem, p, object) == (p :> object) @@ mem
Drop(mem, ps) == [q \in {q \in DOMAIN mem : \A p \in ps : ~IsPrefix(p, q)} |-> mem[q]]

StageOf(mem, p) == IF p = None THEN "dead" ELSE IF p \in DOMAIN mem THEN mem[p].stage ELSE "dead"
Part(p, sel) == Append(p, sel)
Element(p, k) == Append(p, <<"elem", k>>)
IsPart(p) == Len(p) > 2

Top == Len(stack)
Frame == stack[Top]
Routine(fr) == Code[fr.f]
BlockOf(fr) == Routine(fr).blocks[fr.block]
StateOf(fr) == Code[fr.f].flow[fr.block][fr.pc]
AtInstruction(fr) == fr.pc <= Len(BlockOf(fr).code)
Instruction(fr) == BlockOf(fr).code[fr.pc]

(* The object of a slot, its own storage when it has none yet. *)
Storage(n, fr, s) == IF fr.local[s] = None THEN <<n, s>> ELSE fr.local[s]

(* The objects that are completed and those whose destructor starts. *)
Ghost(done, gone) ==
  /\ live' = SelectSeq(live, LAMBDA q : q \notin gone) \o done
  /\ twice' = (twice \/ ~(gone \subseteq ToSet(live)) \/ ToSet(done) \cap ToSet(live) # {})

(* The value an exception frame owns, one more object. *)
Payload(k) == <<0, k>>

-----------------------------------------------------------------------------
(* The plan of a transition. *)

Exit(r, kind) ==
  LET none == [s \in DOMAIN r.kind |-> Absent] IN
  IF kind = "normal_exit" THEN ApplyNormalExit(r, none) ELSE ApplyExceptionExit(r, none)

(* The interpreter plans from the real stages, and takes every part of      *)
(* another object for an alias of it, except an output.                     *)
InterpreterState(fr) ==
  [s \in DOMAIN StateOf(fr) |->
    LET p == fr.local[s] IN
    [StateOf(fr)[s] EXCEPT
       !.stage = StageOf(memory, p),
       !.proj  = \/ @
                 \/ /\ p # None
                    /\ Routine(fr).kind[s] # "nvalue"
                    /\ IsPart(p) \/ Routine(fr).type[s].kind = "array_initializer"]]

(* The arguments of a call that does not return are gone. *)
AbandonNothing(st, i) == st   \* mutant: what the call was given is destroyed again
AbandonCall(st, i) ==
  LET taken == ToSet(i.pos) \cup {i.named[name] : name \in DOMAIN i.named} IN
  [s \in DOMAIN st |-> IF s \in taken THEN [st[s] EXCEPT !.stage = "dead"] ELSE st[s]]

(* The back end plans a normal edge from the state the flow has there, and  *)
(* an unwinding one from the state before the call.                         *)
NativeState(fr) ==
  IF fr.propagation = None \/ fr.pc = 1 THEN StateOf(fr)
  ELSE LET i == BlockOf(fr).code[fr.pc - 1] IN
       IF i.op \in Calls THEN AbandonCall(Code[fr.f].flow[fr.block][fr.pc - 1], i) ELSE StateOf(fr)

Terminator(fr) == BlockOf(fr).term

AtEdge(fr) == \/ fr.propagation # None
              \/ ~AtInstruction(fr) /\ Terminator(fr).op \in {"jump", "branch", "ret"}

(* The block a frame is about to enter: None when it is about to be left.   *)
Successor(fr) ==
  LET term == Terminator(fr) IN
  CASE fr.propagation # None -> IF fr.propagation.destination = Top THEN fr.propagation.catcher.handler ELSE None
    [] fr.propagation = None /\ fr.to # None -> fr.to
    [] fr.propagation = None /\ fr.to = None /\ term.op = "ret"    -> None
    [] fr.propagation = None /\ fr.to = None /\ term.op = "jump"   -> term.to
    [] fr.propagation = None /\ fr.to = None /\ term.op = "branch" ->
         IF memory[fr.local[term.cond]].val THEN term.yes ELSE term.no

PlanFrom(fr, st) ==
  LET kind == IF Successor(fr) # None THEN "control_flow"
              ELSE IF fr.propagation = None THEN "normal_exit" ELSE "exceptional_exit"
  IN PlanTransition(Engine(Routine(fr)), st,
                    IF Successor(fr) = None THEN Exit(Engine(Routine(fr)), kind)
                    ELSE Routine(fr).blocks[Successor(fr)].entry, kind)

Plan(fr) == IF fr.todo # None THEN fr.todo
            ELSE PlanFrom(fr, IF executor = "native" THEN NativeState(fr) ELSE InterpreterState(fr))

(* Whether an action calls a destructor; those before it run in its step.   *)
CallsDestructor(fr, a) ==
  \/ a.do = "destroy_object"
  \/ /\ a.do = "destroy_array_prefix"
     /\ HasDestructor[Routine(fr).type[a.slot].of]
     /\ StageOf(memory, fr.local[a.slot]) = "full"
     /\ memory[fr.local[a.slot]].done > 0

FirstCall(fr, plan) ==
  IF \A k \in DOMAIN plan : ~CallsDestructor(fr, plan[k]) THEN Len(plan) + 1
  ELSE CHOOSE k \in DOMAIN plan : /\ CallsDestructor(fr, plan[k])
                                  /\ \A j \in 1..(k - 1) : ~CallsDestructor(fr, plan[j])

(* The objects that end without a destructor. *)
EndedBy(fr, actions) ==
  {fr.local[actions[k].slot] : k \in {j \in DOMAIN actions : /\ actions[j].do = "end_lifetime"
                                                             /\ fr.local[actions[j].slot] # None}}
  \cup UNION {LET p == fr.local[actions[k].slot] IN
              {Element(memory[p].val, j) : j \in 1..memory[p].done} :
                k \in {j \in DOMAIN actions : /\ actions[j].do = "destroy_array_prefix"
                                              /\ StageOf(memory, fr.local[actions[j].slot]) = "full"}}

DestructorFor(fr, s) ==
  LET deferred == StateOf(fr)[s].dtor IN
  IF deferred # None THEN deferred ELSE <<"dtor", Routine(fr).type[s].of>>

-----------------------------------------------------------------------------
(* Calls. *)

IsExtern(f) == IF f[1] = "fn" THEN f \notin DOMAIN Code ELSE Classes[f[2]].kind = "extern"

(* given is the object of each parameter. *)
NewFrame(f, given) ==
  [f |-> f, block |-> 1, pc |-> 1, calling |-> FALSE, elements |-> {}, todo |-> None, to |-> None,
   propagation |-> None,
   local |-> [s \in DOMAIN Code[f].kind |->
                IF \E name \in DOMAIN given : Code[f].par[name] = s
                THEN given[CHOOSE name \in DOMAIN given : Code[f].par[name] = s] ELSE None]]

(* An element that is alive after the instruction that made it counts.      *)
CountedEarly(fr, mem) ==   \* mutant: an element counts before it is constructed
  {e \in fr.elements : fr.local[e[2]] # None}
Counted(fr, mem) == {e \in fr.elements : fr.local[e[2]] # None /\ StageOf(mem, fr.local[e[1]]) = "full"}

Progress(fr, mem) ==
  [p \in DOMAIN mem |-> IF \E e \in Counted(fr, mem) : fr.local[e[2]] = p THEN [mem[p] EXCEPT !.done = @ + 1]
                        ELSE mem[p]]

(* The instruction a frame was executing is complete. *)
CompleteInstruction(frames, mem) ==
  LET fr   == Last(frames)
      gone == Counted(fr, mem) \cup {e \in fr.elements : None \in {fr.local[e[1]], fr.local[e[2]]}}
  IN IF fr.calling
     THEN /\ stack' = [frames EXCEPT ![Len(frames)].calling = FALSE, ![Len(frames)].elements = @ \ gone]
          /\ memory' = Progress(fr, mem)
     ELSE stack' = frames /\ memory' = mem

(* A handler that ends restores the exception that was current before it.   *)
NeverRestored(f, p, mem) == current   \* mutant: the current exception stays
Restored(f, p, mem) == IF f = <<"dtor", Handler>> THEN mem[p].val ELSE current

(* The destructor f of the object p is called from the top frame, now fr.   *)
CallDestructor(fr, f, p, mem) ==
  LET frames   == [stack EXCEPT ![Top] = fr]
      held     == IF f = <<"dtor", ExceptionPtr>> THEN mem[p].val ELSE None
      released == held # None /\ refcount[held] = 1
  IN /\ Ghost(<<>>, (IF Classes[f[2]].user THEN {p} ELSE {}) \cup (IF released THEN {Payload(held)} ELSE {}))
     /\ refcount' = IF held = None THEN refcount ELSE [refcount EXCEPT ![held] = @ - 1]
     /\ current'  = Restored(f, p, mem)
     /\ IF IsExtern(f) THEN CompleteInstruction(frames, Drop(mem, {p}))
        ELSE stack' = Append(frames, NewFrame(f, "THIS" :> p)) /\ memory' = mem
     /\ UNCHANGED <<executor, failures, outcome>>

-----------------------------------------------------------------------------
(* Raising an exception. *)

CatcherOf(fr) == BlockOf(fr).catcher

(* The frame that ends the search: one that is cleaning up already, has a   *)
(* handler, or lets nothing escape.  The catcher is chosen before any frame *)
(* is cleaned up.                                                           *)
Stops(fr) == fr.propagation # None \/ CatcherOf(fr) # None \/ Routine(fr).noexcept

SelectHandler(frames, k, mem) ==
  LET stopping == {j \in DOMAIN frames : Stops(frames[j])}
      j        == CHOOSE j \in stopping : \A i \in stopping : i <= j
      caught   == stopping # {} /\ frames[j].propagation = None /\ CatcherOf(frames[j]) # None
  IN /\ memory' = mem
     /\ IF caught
        THEN /\ stack' = [frames EXCEPT ![Len(frames)].propagation =
                            [frame |-> k, destination |-> j, catcher |-> CatcherOf(frames[j])]]
             /\ UNCHANGED outcome
        ELSE stack' = frames /\ outcome' = "terminated"

(* A frame that is free is allocated, unless memory runs out.               *)
NewExceptions ==
  LET free == {k \in Exceptions \ {0} : refcount[k] = 0} IN
  (IF free = {} THEN {0} ELSE {CHOOSE k \in free : \A j \in free : k <= j})
  \cup (IF failures < MaxFailures THEN {0} ELSE {})

-----------------------------------------------------------------------------
(* Instructions that read, make and consume values. *)

Running == outcome = "running"
Executing(fr) == Running /\ fr.propagation = None /\ fr.to = None /\ AtInstruction(fr)

Slots(i, role) == {i.args[k] : k \in {j \in DOMAIN i.args : RolesOf[i.op][j] = role}}
Value(fr, s) == memory[fr.local[s]].val

Results(fr, i) ==
  LET operand(k) == Value(fr, i.args[k]) IN
  CASE i.op = "load_const_bool"  -> BOOLEAN
    [] i.op = "load_const_zero"  -> {0}
    [] i.op = "load_const_int"   -> {i.value}
    [] i.op = "make_reference"   -> {fr.local[i.args[1]]}
    [] i.op \in {"copy_reference", "cast_ptrref", "dereference_pointer", "relocate_value"} -> {operand(1)}
    [] i.op = "load_from_ref"    -> {memory[operand(1)].val}
    [] i.op \in {"access_field", "inheritance_cast"} -> {Part(operand(1), i.sel)}
    [] i.op = "access_array"     -> {Element(operand(1), operand(2) + 1)}
    [] i.op = "int_sub"          -> {operand(1) - operand(2)}
    [] i.op = "int_cmp"          -> {operand(1) < operand(2)}
    [] i.op = "to_bool"          -> {operand(1) # 0}
    [] i.op = "array_init_index" -> {memory[fr.local[i.args[1]]].done}
    [] i.op = "array_init_more"  -> {memory[fr.local[i.args[1]]].done # memory[fr.local[i.args[1]]].length}

(* What the interpreter throws a compiler_bug or an execution error for.    *)
Rejected(fr, i) ==
  LET dead(s) == StageOf(memory, fr.local[s]) = "dead" IN
  CASE i.op \in DOMAIN RolesOf ->
         \/ \E s \in Slots(i, "C") \cup Slots(i, "R") : dead(s)
         \/ \E s \in Slots(i, "O") : ~dead(s)
         \/ i.op = "load_from_ref" /\ StageOf(memory, Value(fr, i.args[1])) = "dead"
    [] i.op = "invoke" ->
         \/ \E k \in DOMAIN i.pos : dead(i.pos[k])
         \/ \E name \in DOMAIN i.named :
              LET output == name = "RETURN" \/ i.sig.named[name] = "nvalue" IN
              dead(i.named[name]) # output
    [] i.op = "struct_init_start"     -> \E s \in ToSet(i.delegates) : fr.local[s] # None
    [] i.op = "struct_init_finish"    -> fr.local[i.on] = None
    [] i.op = "array_init_start"      -> ~dead(i.initializer)
    [] i.op = "array_init_element"    -> dead(i.initializer) \/ ~dead(i.target)
    [] i.op = "array_init_finish"     -> memory[fr.local[i.initializer]].done # memory[fr.local[i.initializer]].length
    [] i.op = "defer_nontrivial_dtor" -> fr.local[i.on] = None

Accepts(op) == Executing(Frame) /\ Instruction(Frame).op = op /\ ~Rejected(Frame, Instruction(Frame))

Unused4 == UNCHANGED <<executor, live, twice, current, refcount, failures, outcome>>

(* The instruction is done in one step; fr is the frame after it.           *)
Finishing(fr, mem) == CompleteInstruction([stack EXCEPT ![Top] = [fr EXCEPT !.pc = @ + 1, !.calling = TRUE]], mem)

Emptied(fr, slots) == [fr EXCEPT !.local = [s \in DOMAIN @ |-> IF s \in slots THEN None ELSE @[s]]]

ExecuteValue ==
  LET i      == Instruction(Frame)
      inputs == Slots(i, "C")
      kept   == Drop(memory, {Frame.local[s] : s \in inputs})
  IN /\ Executing(Frame) /\ i.op \in DOMAIN RolesOf \ {"destroy", "store_to_ref"} /\ ~Rejected(Frame, i)
     /\ \E v \in Results(Frame, i), s \in Slots(i, "O") :
          Finishing([Emptied(Frame, inputs) EXCEPT !.local[s] = Storage(Top, Frame, s)],
                    Put(kept, Storage(Top, Frame, s), Object("full", v)))
     /\ Unused4

StoreToRef ==
  LET i == Instruction(Frame) IN
  /\ Accepts("store_to_ref")
  /\ Finishing(Emptied(Frame, Slots(i, "C")),
               Drop([memory EXCEPT ![Value(Frame, i.args[2])].val = Value(Frame, i.args[1])],
                    {Frame.local[s] : s \in Slots(i, "C")}))
  /\ Unused4

(* A slot is destroyed by its deferred destructor, or that of its type; a   *)
(* reference stands for what it refers to.                                  *)
Destroyed(fr, s) == IF Routine(fr).type[s].kind = "reference" THEN Value(fr, s) ELSE fr.local[s]
WithoutReference(fr, s, mem) ==
  IF Routine(fr).type[s].kind = "reference" THEN Drop(mem, {fr.local[s]}) ELSE mem

DestroySlot ==
  LET s  == Instruction(Frame).args[1]
  IN /\ Accepts("destroy")
     /\ CallDestructor([Emptied(Frame, {s}) EXCEPT !.pc = @ + 1, !.calling = TRUE],
                       DestructorFor(Frame, s), Destroyed(Frame, s), WithoutReference(Frame, s, memory))

-----------------------------------------------------------------------------
(* Instructions that build an object from its parts. *)

DeferDtor ==
  /\ Accepts("defer_nontrivial_dtor")
  /\ Finishing(Frame, [memory EXCEPT ![Frame.local[Instruction(Frame).on]].dtor = Instruction(Frame).dtor])
  /\ Unused4

StructStart ==
  LET i    == Instruction(Frame)
      p    == Storage(Top, Frame, i.on)
      part == [s \in ToSet(i.delegates) |-> Part(p, i.selectors[CHOOSE k \in DOMAIN i.delegates : i.delegates[k] = s])]
  IN /\ Accepts("struct_init_start")
     /\ Finishing([Frame EXCEPT !.local = part @@ (i.on :> p) @@ @], Put(memory, p, Object("partial", None)))
     /\ Unused4

StructFinish ==
  LET i == Instruction(Frame)
      p == Frame.local[i.on]
  IN /\ Accepts("struct_init_finish")
     /\ Finishing(Emptied(Frame, ToSet(StateOf(Frame)[i.on].sdel)), [memory EXCEPT ![p].stage = "full"])
     /\ Ghost(IF Classes[Routine(Frame).type[i.on].of].user THEN <<p>> ELSE <<>>, {})
     /\ UNCHANGED <<executor, current, refcount, failures, outcome>>

ArrayBegin ==
  LET i == Instruction(Frame)
      p == Storage(Top, Frame, i.source)
      q == Storage(Top, Frame, i.initializer)
  IN /\ Accepts("array_init_start")
     /\ Finishing([Frame EXCEPT !.local = (i.source :> p) @@ (i.initializer :> q) @@ @],
                  Put(Put(memory, p, Object("partial", None)), q,
                      [Object("full", p) EXCEPT !.length = Classes[Routine(Frame).type[i.source].of].count]))
     /\ Unused4

ArrayNext ==
  LET i == Instruction(Frame)
      a == memory[Frame.local[i.initializer]]
  IN /\ Accepts("array_init_element")
     /\ Finishing([Frame EXCEPT !.local[i.target] = Element(a.val, a.done + 1),
                                !.elements = @ \cup {<<i.target, i.initializer>>}], memory)
     /\ Unused4

ArrayEnd ==
  LET i     == Instruction(Frame)
      q     == Frame.local[i.initializer]
      alias(s) == Frame.local[s] # None /\ Len(Frame.local[s]) = Len(memory[q].val) + 1
                  /\ IsPrefix(memory[q].val, Frame.local[s])
  IN /\ Accepts("array_init_finish")
     /\ Finishing(Emptied(Frame, {i.initializer} \cup {s \in DOMAIN Frame.local : alias(s)}),
                  Drop([memory EXCEPT ![memory[q].val].stage = "full"], {q}))
     /\ Unused4

-----------------------------------------------------------------------------
(* Calls. *)

ArgumentSlots(i) == [name \in DOMAIN i.named |-> i.named[name]]
                    @@ [name \in {ToString(k - 1) : k \in DOMAIN i.pos} |->
                          i.pos[CHOOSE k \in DOMAIN i.pos : ToString(k - 1) = name]]
IsOutput(i, name) == name = "RETURN" \/ (name \in DOMAIN i.named /\ i.sig.named[name] = "nvalue")

(* The caller's frame after the arguments are passed: an output keeps its   *)
(* storage, any other argument leaves it.                                   *)
Passing(i) ==
  LET slots == ArgumentSlots(i)
      out   == {slots[name] : name \in {n \in DOMAIN slots : IsOutput(i, n)}}
      taken == {slots[name] : name \in {n \in DOMAIN slots : ~IsOutput(i, n)}}
  IN [Frame EXCEPT !.pc = @ + 1, !.calling = TRUE,
                   !.local = [s \in DOMAIN @ |-> IF s \in taken THEN None
                                                 ELSE IF s \in out THEN Storage(Top, Frame, s) ELSE @[s]]]

Argument(i, name) == Storage(Top, Frame, ArgumentSlots(i)[name])
Referred(i, name) == memory[Argument(i, name)].val

CallFunction ==
  LET i == Instruction(Frame) IN
  /\ Accepts("invoke") /\ ~IsExtern(i.f)
  /\ stack' = Append([stack EXCEPT ![Top] = Passing(i)],
                     NewFrame(i.f, [name \in DOMAIN ArgumentSlots(i) |-> Argument(i, name)]))
  /\ UNCHANGED memory
  /\ Unused4

(* A call that runs in one step makes its output, with the value v.         *)
Arguments(i) == {Argument(i, name) : name \in {n \in DOMAIN ArgumentSlots(i) : ~IsOutput(i, n)}}
Returns1(i, out, v) ==
  CompleteInstruction([stack EXCEPT ![Top] = Passing(i)],
                      Put(Drop(memory, Arguments(i)), Argument(i, out), Object("full", v)))
Raises(i, k) == SelectHandler([stack EXCEPT ![Top] = Passing(i)], k, Drop(memory, Arguments(i)))

Calls1(f) == Accepts("invoke") /\ Instruction(Frame).f = f

(* A constructor of a class that is not lowered, EXCEPTION_PTR apart, may   *)
(* throw an exception of its own.                                           *)
ConstructExtern ==
  LET i == Instruction(Frame)
      c == i.f[2]
  IN /\ Accepts("invoke") /\ IsExtern(i.f) /\ i.f[1] # "fn" /\ c \notin {ExceptionPtr, Handler}
     /\ Returns1(i, "THIS", None)
     /\ Ghost(IF Classes[c].user THEN <<Argument(i, "THIS")>> ELSE <<>>, {})
     /\ UNCHANGED <<executor, current, refcount, failures, outcome>>

ConstructorThrows ==
  LET i == Instruction(Frame) IN
  /\ Accepts("invoke") /\ IsExtern(i.f) /\ i.f[1] # "fn" /\ Classes[i.f[2]].throws
  /\ failures < MaxFailures
  /\ failures' = failures + 1
  /\ \E k \in NewExceptions :
       /\ Raises(i, k)
       /\ refcount' = [refcount EXCEPT ![k] = @ + 1]
       /\ Ghost(IF k = 0 THEN <<>> ELSE <<Payload(k)>>, {})
  /\ UNCHANGED <<executor, current>>

(* EXCEPTION_PTR: an empty handle, or another one to the same frame.        *)
ConstructPointer ==
  LET i == Instruction(Frame)
      k == IF i.f[1] = "copy" THEN memory[Referred(i, "OTHER")].val ELSE None
  IN /\ \E kind \in {"ctor", "copy"} : Calls1(<<kind, ExceptionPtr>>)
     /\ Returns1(i, "THIS", k)
     /\ refcount' = IF k = None THEN refcount ELSE [refcount EXCEPT ![k] = @ + 1]
     /\ Ghost(<<Argument(i, "THIS")>>, {})
     /\ UNCHANGED <<executor, current, failures, outcome>>

(* EXCEPTION_HANDLER: the exception a handler handles is the current one.   *)
EnterHandler ==
  LET i == Instruction(Frame) IN
  /\ Calls1(<<"ctor", Handler>>)
  /\ Returns1(i, "THIS", current)
  /\ current' = memory[Referred(i, "EXCEPTION")].val
  /\ Ghost(<<Argument(i, "THIS")>>, {})
  /\ UNCHANGED <<executor, refcount, failures, outcome>>

ExceptionCreate ==
  LET i == Instruction(Frame) IN
  /\ Calls1(<<"fn", "EXCEPTION_CREATE">>)
  /\ \E k \in NewExceptions :
       /\ Returns1(i, "RETURN", k)
       /\ refcount' = [refcount EXCEPT ![k] = @ + 1]
       /\ failures' = IF k = 0 /\ failures < MaxFailures THEN failures + 1 ELSE failures
       /\ Ghost((IF k = 0 THEN <<>> ELSE <<Payload(k)>>) \o <<Argument(i, "RETURN")>>, {})
  /\ UNCHANGED <<executor, current, outcome>>

ExceptionOutOfMemory ==
  LET i == Instruction(Frame) IN
  /\ Calls1(<<"fn", "EXCEPTION_OUT_OF_MEMORY">>)
  /\ Returns1(i, "RETURN", 0)
  /\ refcount' = [refcount EXCEPT ![0] = @ + 1]
  /\ Ghost(<<Argument(i, "RETURN")>>, {})
  /\ UNCHANGED <<executor, current, failures, outcome>>

(* The exception that propagates holds a reference of its own.              *)
ThrowUncounted ==   \* mutant: the exception that propagates takes no reference
  LET i == Instruction(Frame)
      k == memory[Referred(i, "ARG")].val
  IN /\ Calls1(<<"fn", "THROW_EXCEPTION_PTR">>) /\ k # None
     /\ Raises(i, k)
     /\ UNCHANGED <<executor, live, twice, current, refcount, failures>>
ThrowExceptionPtr ==
  LET i == Instruction(Frame)
      k == memory[Referred(i, "ARG")].val
  IN /\ Calls1(<<"fn", "THROW_EXCEPTION_PTR">>) /\ k # None
     /\ Raises(i, k)
     /\ refcount' = [refcount EXCEPT ![k] = @ + 1]
     /\ UNCHANGED <<executor, live, twice, current, failures>>

(* Whether the type of the value matches is not modelled. *)
ExceptionMatch ==
  LET i == Instruction(Frame) IN
  /\ Calls1(<<"fn", "EXCEPTION_MATCH">>)
  /\ \E found \in {0, 1} :
       /\ memory[Referred(i, "EXCEPTION")].val = 0 => found = 0
       /\ Returns1(i, "RETURN", found)
  /\ Unused4

IsOutOfMemory ==
  LET i == Instruction(Frame) IN
  /\ Calls1(<<"fn", "IS_OUT_OF_MEMORY">>)
  /\ Returns1(i, "RETURN", memory[Referred(i, "THIS")].val = 0)
  /\ Unused4

-----------------------------------------------------------------------------
(* Edges. *)

(* Executes the plan of an edge of the top frame up to its first destructor *)
(* call; done is what is left to do when there is none.                     *)
Clean(fr, done(_)) ==
  LET plan  == Plan(Frame)
      k     == FirstCall(fr, plan)
      a     == plan[k]
      p     == fr.local[a.slot]
      mem   == Drop(memory, EndedBy(fr, SubSeq(plan, 1, k - 1)))
      rest  == IF executor = "interpreter" THEN None
               ELSE SubSeq(plan, IF a.do = "destroy_array_prefix" THEN k ELSE k + 1, Len(plan))
  IN IF k > Len(plan) THEN done(mem) /\ UNCHANGED executor
     ELSE IF a.do = "destroy_array_prefix"
     THEN CallDestructor([fr EXCEPT !.todo = rest], <<"dtor", Routine(fr).type[a.slot].of>>,
                         Element(memory[p].val, memory[p].done), [mem EXCEPT ![p].done = @ - 1])
     ELSE CallDestructor([Emptied(fr, {a.slot}) EXCEPT !.todo = rest], DestructorFor(fr, a.slot),
                         Destroyed(fr, a.slot), WithoutReference(fr, a.slot, mem))

(* The frame enters block b; a slot the block knows nothing of is dropped.  *)
EnteringWhole(fr, b) ==   \* mutant: no slot is dropped
  [fr EXCEPT !.block = b, !.pc = 1, !.to = None, !.todo = None]
Entering(fr, b) ==
  LET entry == Routine(fr).blocks[b].entry IN
  [Emptied(fr, {s \in DOMAIN entry : entry[s] = Absent})
     EXCEPT !.block = b, !.pc = 1, !.to = None, !.todo = None]

EntryDead(fr, b, mem) ==
  \E s \in DOMAIN fr.local : Alive(Routine(fr).blocks[b].entry[s]) /\ StageOf(mem, fr.local[s]) = "dead"

Arrive(fr, b, mem) ==
  /\ IF EntryDead(fr, b, mem) THEN outcome' = "compiler_bug" /\ UNCHANGED <<stack, memory>>
     ELSE /\ stack' = [stack EXCEPT ![Top] = Entering(fr, b)]
          /\ memory' = mem
          /\ UNCHANGED outcome
  /\ UNCHANGED <<live, twice, current, refcount, failures>>

(* A jump, or a branch on the value it tests. *)
Transition ==
  LET b == Successor(Frame) IN
  /\ Running /\ AtEdge(Frame) /\ Frame.propagation = None /\ b # None
  /\ Clean([Frame EXCEPT !.to = b], LAMBDA mem : Arrive(Frame, b, mem))

(* The objects a return hands back: its outputs begin their life if they    *)
(* have not, what it was given to destroy is gone.                          *)
OutputsOf(fr) == {s \in DOMAIN fr.local : Routine(fr).kind[s] = "nvalue"}
Handed(fr, mem) ==
  LET given == {fr.local[s] : s \in {t \in DOMAIN fr.local : Routine(fr).kind[t] = "dvalue"}}
      made  == {fr.local[s] : s \in OutputsOf(fr)}
  IN [p \in DOMAIN Drop(mem, given \cup {<<Top>>}) |->
        IF p \in made THEN [mem[p] EXCEPT !.stage = "full"] ELSE mem[p]]

ReturnFrom(fr, mem) ==
  LET begun == {s \in OutputsOf(fr) : StageOf(mem, fr.local[s]) # "full"}
      user  == {s \in begun : Classes[Routine(fr).type[s].of].user}
  IN IF \E s \in OutputsOf(fr) : StageOf(mem, fr.local[s]) = "dead"
     THEN outcome' = "compiler_bug" /\ UNCHANGED <<stack, memory, live, twice, current, refcount, failures>>
     ELSE /\ IF Top = 1 THEN stack' = <<>> /\ memory' = Handed(fr, mem) /\ outcome' = "ended"
             ELSE CompleteInstruction(Front(stack), Handed(fr, mem)) /\ UNCHANGED outcome
          /\ Ghost(SetToSeq({fr.local[s] : s \in user}), {})
          /\ UNCHANGED <<current, refcount, failures>>

Ret ==
  /\ Running /\ AtEdge(Frame) /\ Frame.propagation = None /\ Successor(Frame) = None
  /\ Plan(Frame) # None
  /\ Clean(Frame, LAMBDA mem : ReturnFrom(Frame, mem))

Panics ==
  /\ Running /\ ~AtInstruction(Frame) /\ Terminator(Frame).op = "panic"
  /\ outcome' = "terminated"
  /\ UNCHANGED <<executor, stack, memory, live, twice, current, refcount, failures>>

(* The frame of the catcher goes to its handler, which owns the exception.  *)
Deliver(fr, mem) ==
  LET caught == fr.propagation.catcher
      p      == fr.local[caught.exception]
      frames == [stack EXCEPT ![Top] = [Entering(fr, caught.handler) EXCEPT !.propagation = None, !.calling = FALSE]]
  IN IF EntryDead(fr, caught.handler, mem) \/ mem[p].val # None
     THEN outcome' = "compiler_bug" /\ UNCHANGED <<stack, memory, live, twice, current, refcount, failures>>
     ELSE /\ stack' = frames
          /\ memory' = [mem EXCEPT ![p].val = fr.propagation.frame]
          /\ UNCHANGED <<live, twice, current, refcount, failures, outcome>>

(* Any other frame is left. *)
Leave(fr, mem) ==
  /\ stack' = [Front(stack) EXCEPT ![Top - 1].propagation = fr.propagation]
  /\ memory' = Drop(mem, {<<Top>>})
  /\ UNCHANGED <<live, twice, current, refcount, failures, outcome>>

ContinuePropagation ==
  /\ Running /\ Frame.propagation # None
  /\ IF Successor(Frame) # None
     THEN Clean([Frame EXCEPT !.calling = FALSE], LAMBDA mem : Deliver(Frame, mem))
     ELSE Clean(Frame, LAMBDA mem : Leave(Frame, mem))

Stopped == ~Running /\ UNCHANGED vars

-----------------------------------------------------------------------------

Init ==
  /\ executor \in Executors
  /\ \E name \in Programs : stack = <<NewFrame(<<"fn", name>>, <<>>)>>
  /\ memory = [p \in {} |-> None] /\ live = <<>> /\ twice = FALSE
  /\ current = None /\ refcount = [k \in Exceptions |-> IF k = 0 THEN 1 ELSE 0]
  /\ failures = 0 /\ outcome = "running"

Next ==
  \/ ExecuteValue \/ StoreToRef \/ DestroySlot
  \/ DeferDtor \/ StructStart \/ StructFinish \/ ArrayBegin \/ ArrayNext \/ ArrayEnd
  \/ CallFunction \/ ConstructExtern \/ ConstructorThrows \/ ConstructPointer \/ EnterHandler
  \/ ExceptionCreate \/ ExceptionOutOfMemory \/ ThrowExceptionPtr \/ ExceptionMatch \/ IsOutOfMemory
  \/ Transition \/ Ret \/ Panics \/ ContinuePropagation
  \/ Stopped

Spec == Init /\ [][Next]_vars

-----------------------------------------------------------------------------

Owed == ToSet(live)

(* The compiler never contradicts itself: every routine can be lowered, no  *)
(* instruction finds an operand in another stage than the flow of its       *)
(* routine has it in, no return lacks its result, no edge enters a block    *)
(* whose values are not there, nothing thrown is empty, and no handler is   *)
(* given an exception while it still holds one.                             *)
Contradiction(fr) ==
  IF AtEdge(fr) THEN Plan(fr) = None
  ELSE IF AtInstruction(fr)
  THEN LET i == Instruction(fr) IN
       \/ Rejected(fr, i)
       \/ i.op = "invoke" /\ i.f = <<"fn", "THROW_EXCEPTION_PTR">> /\ memory[Referred(i, "ARG")].val = None
  ELSE Terminator(fr).op # "panic"

Consistent ==
  /\ \A f \in DOMAIN Code : Code[f].ok
  /\ outcome # "compiler_bug"
  /\ Running => ~Contradiction(Frame)

(* At every instruction, and before every jump and branch, the objects of   *)
(* the running frame are in the stages the state engine computed for their  *)
(* slots when it was compiled, whichever way the control came.  The slots   *)
(* of the elements of an array are left alone: they are forgotten when the  *)
(* array is complete.                                                       *)
StagesAgree ==
  Running /\ Frame.propagation = None /\ Frame.to = None /\ Terminator(Frame).op # "ret" =>
    \A s \in DOMAIN Frame.local :
      StateOf(Frame)[s].arrOf = None => StageOf(memory, Frame.local[s]) = StateOf(Frame)[s].stage

(* No object is completed or destroyed a second time; one whose destructor  *)
(* is owed is alive in a frame of the stack, or is the value of an exception *)
(* something still holds; and when the program has ended none is owed.      *)
EveryObjectEndsOnce ==
  /\ ~twice
  /\ outcome = "ended" => live = <<>>
  /\ Running => \A p \in Owed : \/ (p[1] \in 1..Top /\ StageOf(memory, p) = "full")
                               \/ (p[1] = 0 /\ refcount[p[2]] > 0)

(* What a cleanup destroys it destroys in the reverse of the order in which *)
(* it was completed, the parts of an object under construction among        *)
(* themselves and the values of the frame among themselves.                 *)
Position(p) == CHOOSE n \in DOMAIN live : live[n] = p

CleanupReversesCompletion ==
  Running /\ AtEdge(Frame) =>
    LET calls == SelectSeq(Plan(Frame), LAMBDA a : a.do = "destroy_object")
        object(k) == Destroyed(Frame, calls[k].slot)
    IN \A j, k \in DOMAIN calls :
         /\ j < k /\ IsPart(object(j)) = IsPart(object(k))
         /\ {object(j), object(k)} \subseteq Owed
         => Position(object(j)) > Position(object(k))

(* The interpreter and the code of the back end owe the same destructors on *)
(* every edge, in the same order, although one plans from what it finds and *)
(* the other from what the flow of the routine says.                        *)
PlansAgree ==
  Running /\ AtEdge(Frame) /\ Frame.todo = None /\ executor = "native" =>
    LET owed(st) == SelectSeq(PlanFrom(Frame, st), LAMBDA a : a.do # "end_lifetime") IN
    owed(NativeState(Frame)) = owed(InterpreterState(Frame))

(* An array that is being built has counted exactly the elements that are   *)
(* alive, so that a failure destroys all of them and no other.              *)
PrefixExact ==
  \A p \in DOMAIN memory : memory[p].length > 0 =>
    {k \in 1..memory[p].length : StageOf(memory, Element(memory[p].val, k)) = "full"} = 1..memory[p].done

(* The objects of a runtime class that are alive; they are all locals.      *)
AliveOf(c) == {p \in DOMAIN memory : /\ Len(p) = 2 /\ p[1] \in 1..Top
                                     /\ Routine(stack[p[1]]).type[p[2]] = Class(c)}

(* An exception is counted once for each EXCEPTION_PTR that refers to it    *)
(* and once while it propagates, so that its value lives exactly as long as *)
(* that; only the permanent one is left when the program ends.              *)
ExceptionsCounted ==
  outcome # "terminated" =>
    \A k \in Exceptions :
      LET pointers == {p \in AliveOf(ExceptionPtr) : memory[p].val = k}
          flights  == {j \in DOMAIN stack : stack[j].propagation # None /\ stack[j].propagation.frame = k}
      IN /\ refcount[k] = Cardinality(pointers) + Cardinality(flights) + (IF k = 0 THEN 1 ELSE 0)
         /\ k # 0 => (refcount[k] > 0 <=> Payload(k) \in Owed)

(* CURRENT_EXCEPTION counts nothing: it, and what each active handler will  *)
(* restore, is borrowed from the EXCEPTION_PTR of a TRY and must not        *)
(* outlive it.                                                              *)
BorrowedExceptionsLive ==
  /\ \A k \in {current} \cup {memory[p].val : p \in AliveOf(Handler)} : k # None => refcount[k] > 0
  /\ outcome = "ended" => current = None

=============================================================================
