--------------------------- MODULE MCVmirPrograms ---------------------------
(***************************************************************************)
(* Small programs, lowered, for VmirExecution.                             *)
(***************************************************************************)
EXTENDS StatementLowering

Outside(user, throws) ==
  [kind |-> "extern", vbases |-> <<>>, bases |-> <<>>, fields |-> <<>>, user |-> user,
   temporary |-> None, elem |-> None, count |-> 0, throws |-> throws]
Struct(bases, fields, user) ==
  [Outside(user, FALSE) EXCEPT !.kind = "struct", !.bases = bases, !.fields = fields]

MCClasses ==
  [int   |-> [Outside(FALSE, FALSE) EXCEPT !.kind = "int"],
   a     |-> Outside(TRUE, TRUE),
   q     |-> Outside(TRUE, FALSE),
   pair  |-> [Outside(FALSE, FALSE) EXCEPT !.kind = "array", !.elem = "a", !.count = 2],
   rec   |-> Struct(<<>>, <<"q", "int">>, FALSE),
   two   |-> Struct(<<>>, <<"a", "a">>, FALSE),
   base  |-> [Struct(<<>>, <<"a">>, TRUE) EXCEPT !.vbases = <<"q">>],
   whole |-> [Struct(<<"base">>, <<"int", "pair", "a">>, TRUE) EXCEPT !.vbases = <<"q">>, !.temporary = "a"],
   EXCEPTION_PTR     |-> Outside(TRUE, FALSE),
   EXCEPTION_HANDLER |-> Outside(TRUE, FALSE)]

Value1(kind, c) == [e |-> kind, class |-> c]
New(c)  == Value1("make", c)
Call(f) == [e |-> "call", f |-> f]

Var0(c)        == [s |-> "var", class |-> c, from |-> None]
VarFrom(c, e)  == [s |-> "var", class |-> c, from |-> e]
Eval1(e)       == [s |-> "eval", value |-> e]
Defer1(e, c)   == [s |-> "defer", value |-> e, guard |-> c]
Give(e)      == [s |-> "return", value |-> e]
Throw1(e)      == [s |-> "throw", value |-> e]
Rethrow1       == [s |-> "rethrow"]
TryCatch(body, handlers) == [s |-> "try", body |-> body, handlers |-> handlers]
On(kind, body) == [on |-> kind, body |-> body]
CatchAll(body) == TryCatch(body, <<On("default", <<>>)>>)
Maybe(body)    == [s |-> "if", then |-> body, else |-> None]
Either(then, else) == [s |-> "if", then |-> then, else |-> else]
To(kind, label) == [s |-> kind, label |-> label]
Looping(label, body) ==
  [s |-> "loop", label |-> label, init |-> <<Var0("q")>>, test |-> TRUE, filter |-> None,
   posttest |-> None, step |-> <<Eval1(New("q"))>>, body |-> body]

Fn(params, ret, body) == [params |-> params, ret |-> ret, noexcept |-> FALSE, body |-> body]
Main(body) == Fn(<<>>, None, body)

MCFunctions ==
  [\* Values passed, returned and moved; each construction may fail.
   swap  |-> Fn(<<"a", "q">>, "a", <<Var0("q"), Maybe(<<Give(Call("number_of"))>>), Give(New("a"))>>),
   number_of |-> Fn(<<>>, "a", <<Eval1(Call("number")), Give(New("a"))>>),
   number |-> Fn(<<>>, "int", <<Var0("q"), Give(New("int"))>>),
   values |-> Main(<<CatchAll(<<Var0("q"), VarFrom("a", Call("swap")), Eval1(New("a"))>>)>>),
   \* Construction of parts, bases and arrays.
   build |-> Main(<<CatchAll(<<Var0("whole")>>)>>),
   move  |-> Main(<<CatchAll(<<VarFrom("base", Value1("copy", "base"))>>)>>),
   fill  |-> Main(<<CatchAll(<<Eval1(Value1("list", "pair")), VarFrom("pair", New("pair"))>>)>>),
   record |-> Main(<<VarFrom("rec", Value1("literal", "rec"))>>),
   \* A literal whose second field may fail to be constructed.
   literal |-> Main(<<CatchAll(<<VarFrom("two", Value1("literal", "two"))>>)>>),
   \* Handlers.
   rethrow |-> Main(<<Var0("q"),
     TryCatch(<<Var0("q"),
                TryCatch(<<Var0("a"), Maybe(<<Throw1(New("q"))>>), Maybe(<<Throw1(None)>>)>>,
                         <<On("type", <<Var0("q"), Rethrow1>>),
                           On("out_of_memory", <<Throw1(New("a"))>>)>>)>>,
              <<On("default", <<CatchAll(<<Eval1(New("a")), Rethrow1>>)>>)>>)>>),
   loops |-> Main(<<Looping("outer",
     <<TryCatch(<<Var0("a"), Maybe(<<To("break", None)>>), Throw1(New("q"))>>,
                <<On("default", <<To("continue", "outer")>>)>>)>>)>>),
   escape |-> Main(<<TryCatch(<<Var0("q"), Throw1(New("a"))>>,
                              <<On("type", <<Var0("q"), To("goto", "out")>>),
                                On("default", <<Give(None)>>)>>), To("label", "out")>>),
   \* Scopes that statements leave in other ways.
   defers |-> Main(<<CatchAll(<<[s |-> "block", body |->
     <<Defer1(New("a"), "q"), Maybe(<<To("goto", "end")>>), Defer1(New("q"), "q"), Eval1(New("a"))>>],
     To("label", "end")>>)>>),
   ranges |-> Main(<<CatchAll(<<
     [s |-> "iterate", label |-> None, init |-> <<Var0("q")>>, start |-> New("a"), end |-> New("q"),
      item |-> New("q"), test |-> None, filter |-> TRUE, posttest |-> TRUE, step |-> None,
      body |-> <<Maybe(<<To("continue", None)>>), Eval1(New("a"))>>],
     [s |-> "sequence", label |-> None, filter |-> TRUE,
      body |-> <<Var0("q"), Maybe(<<To("break", None)>>), Eval1(New("a"))>>]>>)>>),
   order |-> Fn(<<>>, "q", <<[s |-> "return_unequal", value |-> New("q")],
                             [s |-> "label_block", label |-> "block",
                              body |-> <<Var0("q"), Maybe(<<To("break", "block")>>), Eval1(New("q"))>>],
                             Give(New("q"))>>),
   leave |-> Main(<<Eval1(Call("order")), Either(<<[s |-> "panic"]>>, <<Eval1(Call("quiet"))>>)>>),
   quiet |-> [Fn(<<>>, None, <<Var0("q"), Throw1(New("q"))>>) EXCEPT !.noexcept = TRUE]]

(* A constructor's body that throws; a destructor's that handles what it    *)
(* throws.                                                                  *)
MCBodies ==
  [f \in {<<"ctor", "whole">>, <<"body", "whole">>} |->
    IF f[1] = "ctor" THEN <<Maybe(<<Throw1(New("q"))>>)>> ELSE <<CatchAll(<<Throw1(New("q"))>>)>>]

MCRoutines ==
  {<<"fn", f>> : f \in DOMAIN MCFunctions} \cup {<<"body", c>> : c \in {"base", "whole"}}
  \cup {<<kind, "whole">> : kind \in {"ctor", "dtor"}}
  \cup {<<kind, "base">> : kind \in {"ctor", "copy", "move", "dtor", "subctor", "subdtor"}}
  \cup {<<kind, "pair">> : kind \in {"ctor", "copy", "move", "list", "dtor"}}
  \cup {<<kind, c>> : kind \in {"move", "dtor"}, c \in {"rec", "two"}}

MCPrograms == {"values", "build", "move", "fill", "record", "rethrow", "loops", "escape",
               "defers", "ranges", "leave"}

(* Every routine, lowered once. *)
CompiledCode == [f \in MCRoutines |-> Compiled(f)]

=============================================================================
