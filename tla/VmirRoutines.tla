---------------------------- MODULE VmirRoutines ----------------------------
(***************************************************************************)
(* What the generator and the executors of the VMIR share: the classes of  *)
(* a program and how a routine is described to the state engine.           *)
(***************************************************************************)
EXTENDS SlotLifetimes

CONSTANT Classes            \* what the program declares of each class

Class(c) == [kind |-> "class", of |-> c]
Ref(c)   == [kind |-> "reference", of |-> c]
Basic    == [kind |-> "basic", of |-> "int"]

(* The runtime's handle to an exception, and the object an active handler   *)
(* has.                                                                     *)
ExceptionPtr == "EXCEPTION_PTR"
Handler      == "EXCEPTION_HANDLER"

(* The parts of an object, in order of construction, each with its class.   *)
Parts(c, virtuals) ==
  LET of(kind, names) == [k \in DOMAIN names |-> [sel |-> <<kind, k>>, class |-> names[k]]]
  IN (IF virtuals THEN of("vbase", Classes[c].vbases) ELSE <<>>)
     \o of("base", Classes[c].bases) \o of("field", Classes[c].fields)

(* A class has a destructor to run when it or one of its parts has one.     *)
HasDestructor[c \in DOMAIN Classes] ==
  \/ Classes[c].user
  \/ Classes[c].kind = "array" /\ HasDestructor[Classes[c].elem]
  \/ Classes[c].kind = "struct" /\ \E k \in DOMAIN Parts(c, TRUE) : HasDestructor[Parts(c, TRUE)[k].class]

-----------------------------------------------------------------------------

Engine(g) == [kind |-> g.kind, named |-> g.named, type |-> g.type, ntd |-> g.ntd]

Calls == {"invoke", "invoke_virtual", "invoke_indirect", "interface_invoke"}

=============================================================================
