------------------------ MODULE ConstructionLowering ------------------------
(***************************************************************************)
(* The VMIR the generator makes of constructors and destructors.  A struct *)
(* is built in its place: its constructor splits THIS into one delegate    *)
(* slot for each part, in the order of the virtual bases, the bases and    *)
(* the fields, constructs them one by one, each in blocks of its own so    *)
(* that the temporaries of its arguments end with it, and defers the       *)
(* destructor of each part it has completed.  The destructor does the      *)
(* reverse through references to the parts.  An array is built and         *)
(* destroyed by a loop over its elements.                                  *)
(***************************************************************************)
EXTENDS VmirLowering

This(g) == g.par["THIS"]

(* A class whose parts include a virtual base is built apart from it when   *)
(* it is itself a base.                                                     *)
Virtual(c) == Classes[c].kind = "struct" /\ Classes[c].vbases # <<>>
IsBase(part) == part.sel[1] \in {"vbase", "base"}

ConstructorOf(part) == <<IF IsBase(part) /\ Virtual(part.class) THEN "subctor" ELSE "ctor", part.class>>
CopierOf(part)      == <<IF IsBase(part) /\ Virtual(part.class) THEN "subcopy" ELSE "copy", part.class>>
MoverOf(part)       == <<IF IsBase(part) /\ Virtual(part.class) THEN "submove" ELSE "move", part.class>>
DestructorOf(part)  == <<IF IsBase(part) /\ Virtual(part.class) THEN "subdtor" ELSE "dtor", part.class>>

(* Constructs an object in a slot: a basic value is loaded, anything else   *)
(* is made by its constructor.  other is the slot of a reference, or None.  *)
Construct(g, b, f, slot, other) ==
  Emit([g EXCEPT !.value = slot], b,
       IF Classes[f[2]].kind = "int"
       THEN IF other = None THEN Do("load_const_zero", <<slot>>) ELSE Do("load_from_ref", <<other, slot>>)
       ELSE Invocation(f, <<>>, "THIS" :> slot @@ (IF other = None THEN <<>> ELSE "OTHER" :> other)))

(* From the reference made last. *)
ConstructFrom(g, b, f, slot) == Construct(g, b, f, slot, g.value)

DeferDestructor(g, b, part, slot, enclosing) ==
  Emit(g, b, [op |-> "defer_nontrivial_dtor", on |-> slot, dtor |-> DestructorOf(part),
              enclosing |-> enclosing])

DeferNothing(g, b, part, slot) == g   \* mutant: the destructor of a part is not deferred
DeferIfNeeded(g, b, part, slot) ==
  IF HasDestructor[part.class] THEN DeferDestructor(g, b, part, slot, None) ELSE g

(* One new slot for each part, THIS split into them. *)
StartParts(g, parts, on) ==
  Emit(NewLocals(g, [k \in DOMAIN parts |-> Class(parts[k].class)]), g.at,
       [op |-> "struct_init_start", on |-> on,
        delegates |-> [k \in DOMAIN parts |-> g.count + k],
        selectors |-> [k \in DOMAIN parts |-> parts[k].sel]])

(* A temporary made for an argument, and a reference to it for the callee.  *)
TemporaryArgument(g, b, c) ==
  [Emit(Construct(NewLocals(g, <<Class(c), Ref(c)>>), b, <<"ctor", c>>, g.count + 1, None),
        b, Do("make_reference", <<g.count + 1, g.count + 2>>)) EXCEPT !.value = g.count + 2]

(* A part is complete at the end of the block of its temporaries. *)
PartDone(g, temporaries, after, part, slot) ==
  At(Survivor(Jump(DeferIfNeeded(g, temporaries, part, slot), temporaries, after), temporaries, after, slot), after)

DelegateStep(g, part, slot, temporary) ==
  LET after  == Fresh(g)
      args   == after + 1
      forked == Join(Subblocks(g, g.at, 2), args)
  IN PartDone(IF temporary = None THEN Construct(forked, args, ConstructorOf(part), slot, None)
              ELSE ConstructFrom(TemporaryArgument(forked, args, temporary), args, ConstructorOf(part), slot),
              args, after, part, slot)

(* The constructor's delegate expressions give an argument to the parts     *)
(* whose class is not lowered.                                              *)
StructDelegates(g, c, sub) ==
  LET parts   == Parts(c, ~sub)
      argument(part) == IF Classes[part.class].kind = "extern" THEN Classes[c].temporary ELSE None
  IN FoldLeftDomain(LAMBDA h, k : DelegateStep(h, parts[k], g.count + k, argument(parts[k])),
                    StartParts(g, parts, This(g)), parts)

-----------------------------------------------------------------------------
(* Generated copy and move: each part from the same part of OTHER. *)

(* A reference to a part of the object a reference is to. *)
Project(g, b, reference, part) ==
  [EmitAll(NewLocals(g, <<Ref("whole"), Ref(part.class)>>), b,
           <<Do("copy_reference", <<reference, g.count + 1>>),
             Do(IF IsBase(part) THEN "inheritance_cast" ELSE "access_field",
                <<g.count + 1, g.count + 2>>) @@ [sel |-> part.sel]>>) EXCEPT !.value = g.count + 2]

(* The source of a move is cast to a reference it can be moved from. *)
SourceOf(g, b, part, moves) ==
  IF moves THEN Making(g, b, Ref(part.class), "cast_ptrref", <<g.value>>) ELSE g

GeneratedStep(g, f, part, slot, moves) ==
  LET temporary == Fresh(g)
      forked    == Join(Subblocks(g, g.at, 2), temporary)
      source    == SourceOf(Project(forked, temporary, g.par["OTHER"], part), temporary, part, moves)
  IN PartDone(ConstructFrom(source, temporary, f, slot), temporary, temporary + 1, part, slot)

CopyDelegates(g, c, sub) ==
  LET parts == Parts(c, ~sub) IN
  FoldLeftDomain(LAMBDA h, k : GeneratedStep(h, CopierOf(parts[k]), parts[k], g.count + k, FALSE),
                 StartParts(g, parts, This(g)), parts)

MoveDelegates(g, c, sub) ==
  LET parts == Parts(c, ~sub) IN
  FoldLeftDomain(LAMBDA h, k : GeneratedStep(h, MoverOf(parts[k]), parts[k], g.count + k, TRUE),
                 StartParts(g, parts, This(g)), parts)

(* A record literal: its fields are constructed from values made before, in *)
(* the block of the expression, and the record is then declared complete.   *)
CompositeLiteral(g, b, c) ==
  LET parts   == Parts(c, FALSE)
      result  == g.count + 2 * Len(parts) + 1
      sources == FoldLeft(LAMBDA h, part : TemporaryArgument(h, b, part.class), g, parts)
      built   == FoldLeftDomain(LAMBDA h, k : Construct(h, b, MoverOf(parts[k]), result + k, g.count + 2 * k),
                                StartParts(At(NewLocal(sources, Class(c)), b), parts, result), parts)
  IN [Emit(built, b, [op |-> "struct_init_finish", on |-> result]) EXCEPT !.at = g.at, !.value = result]

-----------------------------------------------------------------------------
(* Arrays. *)

ArrayStart(g) ==
  Emit(NewLocal(g, [kind |-> "array_initializer", of |-> Classes[g.type[This(g)].of].elem]), g.at,
       [op |-> "array_init_start", source |-> This(g), initializer |-> g.count + 1])

ArrayElement(initializer, target) ==
  [op |-> "array_init_element", initializer |-> initializer, target |-> target]
ArrayFinish(initializer) == [op |-> "array_init_finish", initializer |-> initializer]

(* From a list of values, one for each element. *)
ArrayFromList(g, c) ==
  LET init == g.count + 1
      elem == Classes[c].elem
      step(h, k) == Construct(Emit(NewLocal(h, Class(elem)), g.at, ArrayElement(init, init + k)), g.at,
                              <<"copy", elem>>, init + k, g.par[ToString(k - 1)])
  IN Emit(FoldLeft(step, ArrayStart(g), [k \in 1..Classes[c].count |-> k]), g.at, ArrayFinish(init))

(* The loop over the elements; copying and moving take each element from    *)
(* the element of OTHER at the same index.                                  *)
ArrayLoop(g, f) ==
  LET init    == g.count + 1
      more    == init + 1
      index   == init + 2
      element == init + 3
      cond    == Fresh(g)
      body    == cond + 1
      done    == cond + 2
      copies  == f[1] # "ctor"
      of(sequence) == IF copies THEN sequence ELSE <<>>
      types   == <<Basic, Basic, Class(f[2])>> \o of(<<Ref("array"), Ref(f[2])>>)
      forked  == Join(Subblocks(ArrayStart(g), g.at, 3), cond)
      asked   == Emit(NewLocals(forked, types), cond, Do("array_init_more", <<init, more>>))
      given   == EmitAll(Branch(asked, more, cond, body, done), body,
                   <<ArrayElement(init, element), Do("array_init_index", <<init, index>>)>>
                   \o of(<<Do("copy_reference", <<g.par["OTHER"], element + 1>>),
                           Do("access_array", <<element + 1, index, element + 2>>)>>))
      built   == Construct(given, body, f, element, IF copies THEN element + 2 ELSE None)
  IN At(Emit(Jump(built, body, cond), done, ArrayFinish(init)), done)

ArrayDelegates(g, c)     == ArrayLoop(g, <<"ctor", Classes[c].elem>>)
ArrayCopyDelegates(g, c) == ArrayLoop(g, <<"copy", Classes[c].elem>>)
ArrayMoveDelegates(g, c) == ArrayLoop(g, <<"move", Classes[c].elem>>)

-----------------------------------------------------------------------------
(* Destructors.  THIS is a parameter to destroy. *)

ThisReference(g) == Making(g, g.at, Ref("whole"), "make_reference", <<This(g)>>)

(* The part the reference made last is to is destroyed with the slot of it. *)
Reached(g, part, this) ==
  DeferDestructor([g EXCEPT !.ntd = @ \cup {Ref(part.class)}], g.at, part, g.value,
                  IF IsBase(part) THEN this ELSE None)

StructDestructor(g, c, sub) ==
  LET this  == g.count + 1
      parts == SelectSeq(Parts(c, ~sub), LAMBDA part : HasDestructor[part.class])
      copy  == this + 2 * Len(parts) + 1
      user(sequence) == IF Classes[c].user THEN sequence ELSE <<>>
      reached   == FoldLeft(LAMBDA h, part : Reached(Project(h, g.at, this, part), part, this),
                            ThisReference(g), parts)
      destroyed == EmitAll(NewLocals(reached, user(<<Ref("whole")>>)), g.at,
                     user(<<Do("copy_reference", <<this, copy>>),
                            Invocation(<<"body", c>>, <<>>, [THIS |-> copy])>>)
                     \o Reverse([k \in DOMAIN parts |-> Do("destroy", <<this + 2 * k>>)]))
  IN SetTerminator(destroyed, g.at, [op |-> "ret"])

(* Counts down, so that the last element is the first destroyed. *)
ArrayDestructor(g, c) ==
  LET elem  == Classes[c].elem
      this  == g.count + 1
      left  == g.count + 2      \* how many elements are left
      cond  == Fresh(g)
      body  == cond + 1
      done  == cond + 2
      t(k)  == left + k         \* the temporaries
      start == [EmitAll(NewLocal(ThisReference(g), Basic), g.at,
                        <<Do("load_const_int", <<left>>) @@ [value |-> Classes[c].count]>>)
                 EXCEPT !.ntd = @ \cup {Ref(elem)}]
      forked == Join(Subblocks(start, g.at, 3), cond)
      types  == <<Ref("int"), Basic, Basic, Basic, Ref("int"), Basic, Basic, Basic, Ref("int"),
                  Basic, Ref("int"), Ref(elem), Ref("array")>>
      asked  == EmitAll(NewLocals(forked, types), cond,
                  <<Do("make_reference", <<left, t(1)>>), Do("load_from_ref", <<t(1), t(2)>>),
                    Do("load_const_zero", <<t(3)>>), Do("int_cmp", <<t(3), t(2), t(4)>>)>>)
      branch == Branch(asked, t(4), cond, body, done)
      taken  == EmitAll(branch, body,
                  <<Do("make_reference", <<left, t(5)>>), Do("load_from_ref", <<t(5), t(6)>>),
                    Do("load_const_int", <<t(7)>>) @@ [value |-> 1],
                    Do("int_sub", <<t(6), t(7), t(8)>>),
                    Do("make_reference", <<t(8), t(9)>>), Do("load_from_ref", <<t(9), t(10)>>),
                    Do("make_reference", <<left, t(11)>>), Do("store_to_ref", <<t(8), t(11)>>),
                    Do("copy_reference", <<this, t(13)>>),
                    Do("access_array", <<t(13), t(10), t(12)>>),
                    Do("destroy", <<t(12)>>)>>)
      closed == Jump(taken, body, cond)
  IN SetTerminator(closed, done, [op |-> "ret"])

=============================================================================
