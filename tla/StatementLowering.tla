-------------------------- MODULE StatementLowering --------------------------
(***************************************************************************)
(* The VMIR the generator makes of the statements of a body.  A statement  *)
(* starts in the current block g.at and leaves g at the block that         *)
(* follows it.  Which values end with a statement is decided by the place  *)
(* its blocks are forked at: a block forked before a value is made does    *)
(* not have it, and the edge into that block ends its life.                *)
(*                                                                         *)
(* An expression makes one value: of a class by its default constructor,   *)
(* by copying another, of an array by a list, by a call whose arguments    *)
(* are values of classes made before it, or as a record literal.  A        *)
(* condition is a Boolean the program computes.                            *)
(***************************************************************************)
EXTENDS ConstructionLowering

CONSTANTS Functions,  \* of each function: the classes of its parameters, what it returns
                      \* (a class or None), whether it is NOEXCEPT, and its body
          Bodies      \* of some <<"ctor", c>>, <<"body", c>>: the statements of that body

(* A call of a function: positional arguments by value, the result in the   *)
(* slot named RETURN.                                                       *)
CallOf(f, pos, named) == Invocation(<<"fn", f>>, pos, named)

Make(g, b, c) == Construct(NewLocal(g, Class(c)), b, <<"ctor", c>>, g.count + 1, None)

CallFunctum(g, b, name) ==
  LET f      == Functions[name]
      args   == [k \in DOMAIN f.params |-> g.count + k]
      result == g.count + Len(f.params) + 1
      argued == FoldLeft(LAMBDA h, c : Make(h, b, c), g, f.params)
      out(made, none) == IF f.ret = None THEN none ELSE made
  IN [Emit(NewLocals(argued, out(<<Class(f.ret)>>, <<>>)), b,
           CallOf(name, args, out("RETURN" :> result, <<>>))) EXCEPT !.value = out(result, None)]

MakeList(g, b, c) ==
  LET args   == [k \in 1..Classes[c].count |-> g.count + 2 * k]
      result == g.count + 2 * Classes[c].count + 1
      sources == FoldLeft(LAMBDA h, k : TemporaryArgument(h, b, Classes[c].elem), g, args)
  IN [Emit(NewLocal(sources, Class(c)), b, Invocation(<<"list", c>>, args, "THIS" :> result))
        EXCEPT !.value = result]

MakeCopy(g, b, c) ==
  ConstructFrom(NewLocal(TemporaryArgument(g, b, c), Class(c)), b, <<"copy", c>>, g.count + 3)

(* Leaves the slot of the value in g.value. *)
Evaluate(g, b, e) ==
  CASE e.e = "make"    -> Make(g, b, e.class)
    [] e.e = "list"    -> MakeList(g, b, e.class)
    [] e.e = "copy"    -> MakeCopy(g, b, e.class)
    [] e.e = "call"    -> CallFunctum(g, b, e.f)
    [] e.e = "literal" -> CompositeLiteral(g, b, e.class)

ReferenceToValue(g, b) == ReferenceTo(g, b, g.value)

(* Evaluates e for an argument, a reference to it. *)
EvaluateArgument(g, b, e) == ReferenceToValue(Evaluate(g, b, e), b)

(* A branch on the value made last, or on a condition evaluated in block b. *)
BranchOnValue(g, b, yes, no) == Branch(g, g.value, b, yes, no)
Condition(g, b) == Making(g, b, Basic, "load_const_bool", <<>>)
BranchOn(g, b, yes, no) == BranchOnValue(Condition(g, b), b, yes, no)

-----------------------------------------------------------------------------
RECURSIVE FunctionBlock(_, _), ClauseBlock(_, _)

(* if: the condition and its temporaries end before either branch's own.    *)
If(g, s) ==
  LET after  == Fresh(g)
      test   == after + 1
      yes    == after + 2
      no     == IF s.else = None THEN after ELSE after + 3
      asked  == Condition(Join(Subblocks(g, g.at, 3), test), test)
      forked == Subblocks(asked, g.at, IF s.else = None THEN 0 ELSE 1)
      arms   == <<[at |-> yes, body |-> s.then]>>
                \o IF s.else = None THEN <<>> ELSE <<[at |-> no, body |-> s.else]>>
  IN At(FoldLeft(LAMBDA h, arm : Join(FunctionBlock(At(h, arm.at), arm.body), after),
                 BranchOnValue(forked, test, yes, no), arms), after)

(* VAR: the arguments of the constructor end with the declaration.          *)
Var(g, s) ==
  LET new    == Fresh(g)
      after  == new + 1
      slot   == g.count + 1
      forked == Join(NewLocal(Subblocks(g, g.at, 2), Class(s.class)), new)
      built  == IF s.from = None THEN Construct(forked, new, <<"ctor", s.class>>, slot, None)
                ELSE ConstructFrom(EvaluateArgument(forked, new, s.from), new, <<"move", s.class>>, slot)
  IN At(Survivor(Jump(built, new, after), new, after, slot), after)

(* An expression statement. *)
Eval(g, s) ==
  LET expr == Fresh(g) IN
  At(Jump(Evaluate(Join(Subblocks(g, g.at, 2), expr), expr, s.value), expr, expr + 1), expr + 1)

(* The value made last outlives the block it was made in. *)
Keep(g, b, after) == At(Survivor(Jump(g, b, after), b, after, g.value), after)

(* DEFER: the callable ends with the statement, its guard with the scope.   *)
MakeGuard(g, b, c) == ConstructFrom(NewLocal(g, Class(c)), b, <<"move", c>>, g.count + 1)

Defer(g, s) ==
  LET expr   == Fresh(g)
      source == EvaluateArgument(Join(Subblocks(g, g.at, 2), expr), expr, s.value)
  IN Keep(MakeGuard(source, expr, s.guard), expr, expr + 1)

LeaveRoutine(g) == SetTerminator(g, g.at, [op |-> "ret"])

(* A value that can be relocated is, any other is moved into the result.    *)
ReturnValue(g, b, value) ==
  LET result == g.par["RETURN"]
      c      == g.type[result].of
  IN IF Classes[c].kind = "int" THEN Emit(g, b, Do("relocate_value", <<value, result>>))
     ELSE ConstructFrom(ReferenceTo(g, b, value), b, <<"move", c>>, result)

ReturnMade(g) == LeaveRoutine(ReturnValue(g, g.at, g.value))

Result(g, s) == IF s.value = None THEN LeaveRoutine(g) ELSE ReturnMade(Evaluate(g, g.at, s.value))

(* RETURN UNEQUAL: compares two values and returns the order if they differ. *)
UnequalOrder(g, test, before) ==
  LET leave  == Fresh(g)
      after  == leave + 1
      flag   == g.count + 1
      asked  == Subblock(Subblock(Condition(g, test), test), before)
      killed == KillEntryValue(KillEntryValue(BranchOnValue(asked, test, leave, after), leave, flag), after, flag)
      result == g.par["RETURN"]
      built  == ConstructFrom(ReferenceTo(killed, leave, g.value), leave, <<"move", g.type[result].of>>, result)
  IN At(SetTerminator(built, leave, [op |-> "ret"]), after)

ReturnUnequal(g, s) ==
  LET test == Fresh(g) IN
  UnequalOrder(Evaluate(Join(Subblock(g, g.at), test), test, s.value), test, g.at)

Panic(g) == SetTerminator(g, g.at, [op |-> "panic"])

-----------------------------------------------------------------------------
(* Exceptions. *)

Propagate(g, exception) ==
  SetTerminator(Emit(ReferenceTo(g, g.at, exception), g.at,
                     CallOf("THROW_EXCEPTION_PTR", <<>>, "ARG" :> g.count + 1)),
                g.at, [op |-> "unreachable"])

(* The exception to throw is made from a value, or is the one of THROW OUT_OF_MEMORY. *)
MakeException(g, f, given) ==
  Emit(NewLocal(g, Class(ExceptionPtr)), g.at, CallOf(f, <<>>, "RETURN" :> g.count + 1 @@ given))

ThrowMade(g)  == Propagate(MakeException(g, "EXCEPTION_CREATE", "VALUE" :> g.value), g.count + 1)

Throw(g, s) ==
  IF s.value = None THEN Propagate(MakeException(g, "EXCEPTION_OUT_OF_MEMORY", <<>>), g.count + 1)
  ELSE ThrowMade(EvaluateArgument(g, g.at, s.value))

Rethrow(g) == IF g.caught = None THEN Fail(g) ELSE Propagate(g, g.caught)

(* The test of a handler; g has a reference to the exception in g.value.    *)
MatchType(g, dispatch, body, next) ==
  LET n == g.count
      types  == <<Ref("payload"), Basic, Ref("payload"), Ref("payload"), Ref("payload"), Ref("payload")>>
      tested == EmitAll(NewLocals(g, types), dispatch,
                  <<CallOf("EXCEPTION_MATCH", <<>>, "EXCEPTION" :> g.value @@ "RETURN" :> n + 1),
                    Do("make_reference", <<n + 1, n + 3>>), Do("load_from_ref", <<n + 3, n + 4>>),
                    Do("to_bool", <<n + 4, n + 2>>)>>)
      split  == Branch(Subblock(tested, dispatch), n + 2, dispatch, body, next)
  IN EmitAll(KillEntryValue(split, body, n + 2), body,
             <<Do("cast_ptrref", <<n + 1, n + 5>>), Do("dereference_pointer", <<n + 5, n + 6>>)>>)

MatchOutOfMemory(g, dispatch, body, next) ==
  LET flag  == g.count + 1
      asked == Emit(NewLocal(g, Basic), dispatch,
                    CallOf("IS_OUT_OF_MEMORY", <<>>, "THIS" :> g.value @@ "RETURN" :> flag))
  IN KillEntryValue(Branch(Subblock(asked, dispatch), flag, dispatch, body, next), body, flag)

Matched(g, on, dispatch, body, next) ==
  CASE on = "type"          -> MatchType(g, dispatch, body, next)
    [] on = "out_of_memory" -> MatchOutOfMemory(g, dispatch, body, next)
    [] on = "default"       -> Jump(Subblock(g, dispatch), dispatch, body)

EnterHandlerBody(g, body) ==
  Emit(NewLocal(g, Class(Handler)), body,
       Invocation(<<"ctor", Handler>>, <<>>, "THIS" :> g.count + 1 @@ "EXCEPTION" :> g.value))

(* One handler of a TRY: its test in the dispatch block, its body in a      *)
(* region of its own.  Leaves g at the dispatch block of the next.          *)
Handle(g, dispatch, exception, after, h) ==
  LET next    == Fresh(g)
      body    == next + 1
      ahead   == Subblock(g, dispatch)
      given   == IF h.on = "default" THEN ahead ELSE ReferenceTo(ahead, dispatch, exception)
      entered == [Matched(given, h.on, dispatch, body, next) EXCEPT !.region = body]
      active  == EnterHandlerBody(ReferenceTo(entered, body, exception), body)
      done    == [FunctionBlock(At(active, body), h.body) EXCEPT !.region = g.region]
  IN At(FallthroughJoin(done, after), next)

Try(g, s) ==
  LET after     == Fresh(g)
      scope     == after + 1
      dispatch  == after + 2
      exception == g.count + 1
      forked    == Join(Subblocks(g, g.at, 2), scope)
      owned     == Construct(NewLocal(forked, Class(ExceptionPtr)), scope, <<"ctor", ExceptionPtr>>,
                             exception, None)
      guarded   == [Subblock(owned, scope) EXCEPT
                      !.catcher = [exception |-> exception, handler |-> dispatch]]
      left      == FallthroughJoin(FunctionBlock(At(guarded, scope), s.body), after)
      outside   == [left EXCEPT !.catcher = g.catcher, !.caught = exception]
      handled   == FoldLeft(LAMBDA h, handler : Handle(h, h.at, exception, after, handler),
                            At(outside, dispatch), s.handlers)
  IN [Propagate(handled, exception) EXCEPT !.caught = g.caught, !.at = after]

-----------------------------------------------------------------------------
(* Loops. *)

(* The body of a loop, under its BREAK and CONTINUE targets.                *)
LoopBody(g, body, statements, label, exit, next) ==
  LET inner == [g EXCEPT !.loops  = Append(@, [label |-> label, break |-> exit, continue |-> next]),
                         !.breaks = IF label = None THEN @ ELSE Append(@, [label |-> label, break |-> exit])]
  IN Join([FunctionBlock(At(inner, body), statements) EXCEPT !.loops = g.loops, !.breaks = g.breaks], next)

(* A clause that tests goes to yes or no; one the statement has not is None.*)
TestClause(g, block, yes, no) == IF block = None THEN g ELSE BranchOn(g, block, yes, no)
StepClause(g, step, block, next) == IF step = None THEN g ELSE Join(FunctionBlock(At(g, block), step), next)

OrElse(block, other) == IF block = None THEN other ELSE block

(* LOOP, once the statements of its START clause are done.                  *)
LoopFrom(g, s, after) ==
  LET body   == Fresh(g)
      has    == SelectSeq(<<"test", "filter", "posttest", "step">>, LAMBDA clause : s[clause] # None)
      block(clause) == IF s[clause] = None THEN None
                       ELSE body + CHOOSE k \in DOMAIN has : has[k] = clause
      inward == OrElse(block("filter"), body)
      next   == OrElse(block("test"), inward)
      onward == OrElse(block("posttest"), OrElse(block("step"), next))
      forked == Join(Subblocks(g, g.at, 1 + Len(has)), next)
      tested == TestClause(TestClause(forked, block("test"), inward, after), block("filter"), body, onward)
      looped == LoopBody(tested, body, s.body, s.label, after, onward)
      posted == TestClause(looped, block("posttest"), OrElse(block("step"), next), after)
  IN At(StepClause(posted, s.step, block("step"), next), after)

Loop(g, s) == LoopFrom(ClauseBlock(Subblock(g, g.at), s.init), s, Fresh(g))

(* The numeric LOOP: its value, bound and increment are made where the loop *)
(* stands, before any of its blocks is forked.                              *)
Advance(g, b, value) ==
  LET n == g.count IN
  EmitAll(NewLocals(g, <<Ref(g.type[value].of), Basic, Ref(g.type[value].of)>>), b,
          <<Do("make_reference", <<value, n + 1>>), Do("load_from_ref", <<n + 1, n + 2>>),
            Do("make_reference", <<value, n + 3>>), Do("store_to_ref", <<n + 2, n + 3>>)>>)

SequenceLoop(g, s) ==
  LET value  == g.count + 1
      ready  == EmitAll(NewLocals(g, <<Basic, Basic, Basic>>), g.at,
                        [k \in 1..3 |-> Do("load_const_int", <<g.count + k>>) @@ [value |-> 0]])
      test   == Fresh(g)
      filter == IF s.filter = None THEN None ELSE test + 1
      body   == OrElse(filter, test) + 1
      step   == body + 1
      after  == body + 2
      forked == Join(Subblocks(ready, g.at, after - test + 1), test)
      tested == TestClause(BranchOn(forked, test, OrElse(filter, body), after), filter, body, step)
      looped == LoopBody(tested, body, s.body, s.label, after, step)
  IN At(Jump(Advance(looped, step, value), step, test), after)

(* The operand of an iterator loop: its value is kept, the temporaries of   *)
(* its expression are not.                                                  *)
Operand(g, e) ==
  LET expr == Fresh(g) IN
  Keep(Evaluate(Join(Subblocks(g, g.at, 2), expr), expr, e), expr, expr + 1)

(* The blocks of its clauses, when the item of an iteration is made.        *)
IteratorClauses(g, s, bound, after) ==
  LET values == bound + 1
      wanted == [test |-> s.test # None, filter |-> s.filter # None, body |-> TRUE,
                 posttest |-> s.posttest # None, boundary |-> s.posttest # None, step |-> TRUE]
      has    == SelectSeq(<<"test", "filter", "body", "posttest", "boundary", "step">>,
                          LAMBDA clause : wanted[clause])
      block(clause) == IF ~wanted[clause] THEN None
                       ELSE Fresh(g) - 1 + CHOOSE k \in DOMAIN has : has[k] = clause
      inward == OrElse(block("filter"), block("body"))
      onward == OrElse(block("boundary"), block("step"))
      split  == Jump(Subblocks(g, values, Len(has)), values, OrElse(block("test"), inward))
      tested == TestClause(TestClause(split, block("test"), inward, after),
                           block("filter"), block("body"), onward)
      looped == LoopBody(tested, block("body"), s.body, s.label, after, onward)
      posted == TestClause(TestClause(looped, block("boundary"), block("posttest"), after),
                           block("posttest"), block("step"), after)
      stepped == IF s.step = None THEN At(Condition(posted, block("step")), block("step"))
                 ELSE FunctionBlock(At(posted, block("step")), s.step)
  IN At(Join(stepped, bound), after)

IteratorFrom(g, s, after) ==
  LET bound  == Fresh(g)
      ranged == BranchOn(Join(Subblocks(g, g.at, 2), bound), bound, bound + 1, after)
  IN IteratorClauses(Evaluate(ranged, bound + 1, s.item), s, bound, after)

(* LOOP START ... END: the iterator and its end live as long as the loop,   *)
(* the item of an iteration as long as that iteration.                      *)
IteratorLoop(g, s) ==
  IteratorFrom(Operand(Operand(ClauseBlock(Subblock(g, g.at), s.init), s.start), s.end), s, Fresh(g))

LastWith(controls, label) ==
  LET found == {k \in DOMAIN controls : controls[k].label = label} IN
  IF found = {} THEN None ELSE controls[CHOOSE k \in found : \A j \in found : j <= k]

Break(g, s) ==
  LET control == IF s.label # None THEN LastWith(g.breaks, s.label)
                 ELSE IF g.loops = <<>> THEN None ELSE g.loops[Len(g.loops)]
  IN IF control = None THEN Fail(g) ELSE Jump(g, g.at, control.break)

Continue(g, s) ==
  LET control == IF s.label # None THEN LastWith(g.loops, s.label)
                 ELSE IF g.loops = <<>> THEN None ELSE g.loops[Len(g.loops)]
  IN IF control = None THEN Fail(g) ELSE Jump(g, g.at, control.continue)

LabelBlock(g, s) ==
  LET body  == Fresh(g)
      start == [Join(Subblocks(g, g.at, 2), body) EXCEPT
                  !.breaks = Append(@, [label |-> s.label, break |-> body + 1])]
  IN At(Join([FunctionBlock(At(start, body), s.body) EXCEPT !.breaks = g.breaks], body + 1), body + 1)

-----------------------------------------------------------------------------
(* GOTO. *)

(* Two states of a slot that a GOTO may join: nothing of the slot may be    *)
(* under construction, nor its destructor deferred.                         *)
GotoLiveStateCompatible(source, target) ==
  /\ \A field \in {"stage", "valid", "owner", "sel", "destroy", "proj", "arrOf"} :
       source[field] = target[field]
  /\ \A x \in {source, target} : x.sdel = None /\ x.adel = None /\ x.dtor = None

(* The regions that enclose a block, and so on outwards, None included.     *)
RegionsOf(g, b) ==
  LET out[r \in DOMAIN g.blocks] == {r} \cup (IF g.blocks[r].region = None THEN {None} ELSE out[g.blocks[r].region])
  IN IF g.blocks[b].region = None THEN {None} ELSE out[g.blocks[b].region]

CatchersOf(g, b) ==
  LET out[r \in DOMAIN g.blocks] ==
        {g.blocks[r].catcher} \cup (IF g.blocks[r].catcher = None THEN {}
                                    ELSE out[g.blocks[r].catcher.handler])
  IN out[b]

(* A GOTO may leave a TRY or a handler but not enter one, and what is alive *)
(* at its target must be alive where it starts.                             *)
GotoAllowed(g, source, target) ==
  LET from == g.blocks[source].cur
      to   == g.blocks[target].entry
  IN /\ g.blocks[target].region \in RegionsOf(g, source)
     /\ g.blocks[target].catcher \in CatchersOf(g, source)
     /\ \A s \in DOMAIN to : Alive(to[s]) => GotoLiveStateCompatible(from[s], to[s])

Targeted(g, name) ==
  IF name \in DOMAIN g.labels THEN g
  ELSE [Subblock(g, g.at) EXCEPT !.labels = @ @@ (name :> [target |-> Fresh(g), declared |-> FALSE])]

Goto(g, s) ==
  LET known  == Targeted(g, s.label)
      label  == known.labels[s.label]
  IN Jump(IF label.declared THEN [known EXCEPT !.ok = @ /\ GotoAllowed(known, g.at, label.target)]
          ELSE [known EXCEPT !.pending = @ \cup {<<s.label, g.at>>}],
          g.at, label.target)

Label(g, s) ==
  LET known  == Targeted(g, s.label)
      target == known.labels[s.label].target
      state  == known.blocks[g.at].cur
      joined == Jump(known, g.at, target)
      placed == [joined EXCEPT !.blocks[target] = [@ EXCEPT !.entry = state, !.cur = state,
                                                   !.catcher = g.catcher, !.region = g.region],
                               !.labels[s.label].declared = TRUE]
      waiting == {p \in g.pending : p[1] = s.label}
  IN At([placed EXCEPT !.pending = @ \ waiting,
                       !.ok = /\ @ /\ ~known.labels[s.label].declared
                              /\ \A p \in waiting : GotoAllowed(placed, p[2], target)], target)

-----------------------------------------------------------------------------

Statement(g, s) ==
  CASE s.s = "if"             -> If(g, s)
    [] s.s = "var"            -> Var(g, s)
    [] s.s = "eval"           -> Eval(g, s)
    [] s.s = "defer"          -> Defer(g, s)
    [] s.s = "return"         -> Result(g, s)
    [] s.s = "return_unequal" -> ReturnUnequal(g, s)
    [] s.s = "panic"          -> Panic(g)
    [] s.s = "throw"          -> Throw(g, s)
    [] s.s = "rethrow"        -> Rethrow(g)
    [] s.s = "try"            -> Try(g, s)
    [] s.s = "loop"           -> Loop(g, s)
    [] s.s = "sequence"       -> SequenceLoop(g, s)
    [] s.s = "iterate"        -> IteratorLoop(g, s)
    [] s.s = "break"          -> Break(g, s)
    [] s.s = "continue"       -> Continue(g, s)
    [] s.s = "goto"           -> Goto(g, s)
    [] s.s = "label"          -> Label(g, s)
    [] s.s = "label_block"    -> LabelBlock(g, s)
    [] s.s = "block"          -> FunctionBlock(g, s.body)

(* The statements of a clause run in the scope of the loop itself. *)
ClauseBlock(g, statements) == FoldLeft(Statement, g, statements)

(* A block of statements; what follows a terminator is lowered all the same, *)
(* in a block nothing jumps to.                                              *)
FunctionBlock(g, statements) ==
  LET new    == Fresh(g)
      forked == Join(Subblocks(g, g.at, 2), new)
      step(h, s) == Statement(IF h.blocks[h.at].term = None THEN h ELSE At(Subblock(h, h.at), Fresh(h)), s)
  IN At(FallthroughJoin(FoldLeft(step, At(forked, new), statements), new + 1), new + 1)

(* A routine that runs off its end returns. *)
LowerBody(g, statements) == Finish(LeaveRoutine(FunctionBlock(g, statements)))

(* One the compiler writes returns where its parts are done. *)
LowerBuiltin(g) == Finish(LeaveRoutine(g))

-----------------------------------------------------------------------------
(* The routine of a name. *)

BodyOf(f) == IF f \in DOMAIN Bodies THEN Bodies[f] ELSE <<>>

ThisParameter(kind, type) == [name |-> "THIS", kind |-> kind, type |-> type]
OtherParameter(c) == [name |-> "OTHER", kind |-> "value", type |-> Ref(c)]

Lower(f) ==
  LET c     == f[2]
      this  == ThisParameter("nvalue", Class(c))
      array == Classes[c].kind = "array"
      begin == NewRoutine(<<this>>, FALSE)
      pair  == NewRoutine(<<this, OtherParameter(c)>>, FALSE)
      end   == NewRoutine(<<ThisParameter("dvalue", Class(c))>>, TRUE)
      sub   == f[1] \in {"subctor", "subcopy", "submove", "subdtor"}
  IN CASE f[1] \in {"ctor", "subctor"} ->
            IF array THEN LowerBuiltin(ArrayDelegates(begin, c))
            ELSE IF f \in DOMAIN Bodies THEN LowerBody(StructDelegates(begin, c, sub), Bodies[f])
            ELSE LowerBuiltin(StructDelegates(begin, c, sub))
       [] f[1] \in {"copy", "subcopy"} ->
            LowerBuiltin(IF array THEN ArrayCopyDelegates(pair, c) ELSE CopyDelegates(pair, c, sub))
       [] f[1] \in {"move", "submove"} ->
            LowerBuiltin(IF array THEN ArrayMoveDelegates(pair, c) ELSE MoveDelegates(pair, c, sub))
       [] f[1] = "list" ->
            LowerBuiltin(ArrayFromList(NewRoutine(<<this>> \o [k \in 1..Classes[c].count |->
              [name |-> ToString(k - 1), kind |-> "value", type |-> Ref(Classes[c].elem)]], FALSE), c))
       [] f[1] \in {"dtor", "subdtor"} ->
            Finish(IF array THEN ArrayDestructor(end, c) ELSE StructDestructor(end, c, sub))
       [] f[1] = "body" ->
            LowerBody(NewRoutine(<<ThisParameter("value", Ref(c))>>, TRUE), BodyOf(f))
       [] f[1] = "fn" ->
            LET params == [k \in DOMAIN Functions[c].params |->
                             [name |-> ToString(k - 1), kind |-> "value",
                              type |-> Class(Functions[c].params[k])]]
                result == IF Functions[c].ret = None THEN <<>>
                          ELSE <<[name |-> "RETURN", kind |-> "nvalue", type |-> Class(Functions[c].ret)]>>
            IN LowerBody(NewRoutine(params \o result, Functions[c].noexcept), Functions[c].body)

(* What is executed: the routine, and the states its flow has. *)
Compiled(f) == LET r == Lower(f) IN [flow |-> FlowOf(r)] @@ r

=============================================================================
