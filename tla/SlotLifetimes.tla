---------------------------- MODULE SlotLifetimes ----------------------------
(***************************************************************************)
(* The state engine of the VMIR (vmir2/state_engine.hpp): what every       *)
(* instruction does to the lifetime of the slots it names, which actions a *)
(* control-flow edge, a return or an exception owes to the slots that end  *)
(* there, and what a routine's exit leaves to its caller.  The generator,  *)
(* the interpreter and the back ends all compute with it, so it is kept    *)
(* apart from them, as operators over the state of the slots.              *)
(*                                                                         *)
(* A slot is a positive number.  The state of a routine's slots is a       *)
(* function; a slot the C++ map has no entry for is Absent, which is what  *)
(* operator[] of that map would create.  An engine operator returns        *)
(* [ok, st]: ok is FALSE when the code throws.                             *)
(***************************************************************************)
EXTENDS Naturals, SequencesExt

CONSTANT None               \* an empty std::optional

-----------------------------------------------------------------------------
(* The state of one slot. *)

Absent == [stage |-> "dead", valid |-> FALSE, dtor |-> None, sdel |-> None,
           adel |-> None, owner |-> None, sel |-> None, destroy |-> FALSE,
           proj |-> FALSE, arrOf |-> None]

Alive(x) == x.stage # "dead"

Valid(x) ==
  /\ Alive(x) => x.valid
  /\ ~Alive(x) => x.sdel = None /\ x.adel = None
  /\ ~x.valid => x.owner = None /\ ~x.proj
  /\ x.dtor # None => x.stage = "full"
  /\ x.destroy => Alive(x)

(* Verifies that an output holds a complete value or a complete set of     *)
(* construction delegates, those of a delegate included.                   *)
InitializationCompleted(st, slot) ==
  LET complete[s \in DOMAIN st] ==
        /\ st[s].valid
        /\ \/ st[s].stage = "full"
           \/ /\ st[s].stage = "partial"
              /\ st[s].sdel # None
              /\ \A i \in DOMAIN st[s].sdel : complete[st[s].sdel[i]]
  IN complete[slot]

-----------------------------------------------------------------------------
(* A routine r has: kind, for each slot "local" or the kind of parameter it *)
(* is ("nvalue": to be initialized, "dvalue": to be destroyed, "value");    *)
(* named, the parameters passed by name; type, the kind of type of each     *)
(* slot and what it is of; ntd, the types whose destructor is not trivial.  *)

Parameters(r) == {s \in DOMAIN r.kind : r.kind[s] # "local"}
Returns(kind) == kind \in {"normal_exit", "exceptional_exit"}

Up(st) == [s \in DOMAIN st |-> s]   \* mutant: in slot order
Down(st) == Reverse([s \in DOMAIN st |-> s])

(* Plans the cleanup of a transition without changing either state.         *)
(* Completed delegates are destroyed before the other slots, and each group *)
(* in reverse slot order.  None when a return leaves an output         *)
(* parameter without its value.                                             *)
PlanTransition(r, current, target, kind) ==
  LET survives(s) == Alive(target[s])
      ofDelegate(s) ==
        LET x == current[s] IN
        /\ x.owner # None /\ x.sel # None
        /\ x.stage = "full" /\ x.dtor # None
        /\ ~survives(x.owner)
      alias(x) == x.owner # None \/ x.arrOf # None \/ x.destroy \/ x.proj
      mustDestroy(s) ==
        LET x == current[s] IN
        /\ x.stage = "full"
        /\ x.dtor # None \/ r.type[s] \in r.ntd
        /\ ~(Returns(kind) /\ r.kind[s] = "dvalue")
      actionsOf(s) ==
        LET x     == current[s]
            edge  == kind # "instruction"
            ends  == IF alias(x) THEN <<>> ELSE <<[do |-> "end_lifetime", slot |-> s]>>
            first == IF edge /\ r.type[s].kind = "array_initializer" THEN "destroy_array_prefix"
                     ELSE IF ~edge \/ alias(x) THEN "nothing"
                     ELSE IF r.type[s].kind = "initguard_lock" THEN "abort_initguard"
                     ELSE IF mustDestroy(s) THEN "destroy_object" ELSE "nothing"
        IN (IF first = "nothing" THEN <<>> ELSE <<[do |-> first, slot |-> s]>>) \o ends
      ending    == SelectSeq(Down(current), LAMBDA s : Alive(current[s]) /\ ~survives(s))
      delegates == SelectSeq(ending, ofDelegate)
      destroyed == [i \in DOMAIN delegates |-> [do |-> "destroy_object", slot |-> delegates[i]]]
      others    == FlattenSeq([i \in DOMAIN ending |-> actionsOf(ending[i])])
  IN IF kind = "normal_exit" /\ \E s \in Parameters(r) :
          r.kind[s] = "nvalue" /\ ~InitializationCompleted(current, s)
     THEN None
     ELSE (IF kind = "instruction" THEN <<>> ELSE destroyed) \o others

-----------------------------------------------------------------------------
(* What a call finds and leaves in its parameters. *)

ApplyEntry(r, st) ==
  [s \in DOMAIN st |->
    CASE r.kind[s] = "local"  -> st[s]
      [] r.kind[s] = "nvalue" -> [st[s] EXCEPT !.stage = "dead", !.valid = TRUE]
      [] OTHER                -> [st[s] EXCEPT !.stage = "full", !.valid = TRUE]]

ApplyNormalExit(r, st) ==
  [s \in DOMAIN st |->
    IF r.kind[s] = "local" THEN st[s]
    ELSE [st[s] EXCEPT !.stage = IF r.kind[s] = "nvalue" THEN "full" ELSE "dead",
                       !.valid = r.kind[s] \in {"nvalue", "dvalue"},
                       !.sdel = None, !.adel = None]]

ApplyExceptionExit(r, st) ==
  LET keepsDelegates(s) ==
        r.kind[s] = "value" \/ (r.kind[s] = "dvalue" /\ ~r.named[s])
  IN [s \in DOMAIN st |->
       IF r.kind[s] = "local" THEN st[s]
       ELSE [st[s] EXCEPT !.stage = "dead",
                          !.valid = r.kind[s] \in {"nvalue", "dvalue"},
                          !.sdel  = IF keepsDelegates(s) THEN @ ELSE None,
                          !.adel  = IF keepsDelegates(s) THEN @ ELSE None]]

-----------------------------------------------------------------------------
(* What an instruction does to one slot it names. *)

Accept(st) == [ok |-> TRUE, st |-> st]
Refuse(st) == [ok |-> FALSE, st |-> st]

(* Reads a slot without ending its lifetime. *)
Readonly(r, st, s) == IF Alive(st[s]) /\ st[s].valid THEN Accept(st) ELSE Refuse(st)

(* Takes the value of a slot: its lifetime ends. *)
Consume(r, st, s) ==
  IF /\ r.kind[s] # "nvalue"
     /\ st[s].owner = None
     /\ st[s].stage = "full" /\ st[s].valid
  THEN Accept([st EXCEPT ![s] = [@ EXCEPT !.stage = "dead", !.valid = FALSE, !.dtor = None,
                                          !.destroy = FALSE, !.proj = FALSE]])
  ELSE Refuse(st)

(* Gives a slot its value: its lifetime begins.  A projection only views    *)
(* storage that is the lifetime's owner, so its slot is dropped.            *)
Output(r, st, s) ==
  LET x == st[s] IN
  CASE Alive(x)              -> Refuse(st)
    [] ~Alive(x) /\ x.proj  -> IF x.valid THEN Accept([st EXCEPT ![s] = Absent]) ELSE Refuse(st)
    [] ~Alive(x) /\ ~x.proj -> IF ~x.valid /\ x.owner # None THEN Refuse(st)
                               ELSE Accept([st EXCEPT ![s].stage = "full", ![s].valid = TRUE])

(* The state of a fusion is set through a reference, or in its own storage. *)
PublishFusionState(r, st, s) ==
  IF r.type[s].kind = "reference" THEN Readonly(r, st, s)
  ELSE IF Alive(st[s]) \/ ~st[s].valid THEN Refuse(st)
  ELSE Accept([st EXCEPT ![s].stage = "full"])

(* The roles an operand can have; the optional old value of a mutation that *)
(* is not asked for is None and has none.                                   *)
Play(r, result, role, s) ==
  CASE ~result.ok \/ s = None -> result
    [] result.ok /\ s # None /\ role = "C" -> Consume(r, result.st, s)
    [] result.ok /\ s # None /\ role = "R" -> Readonly(r, result.st, s)
    [] result.ok /\ s # None /\ role = "O" -> Output(r, result.st, s)
    [] result.ok /\ s # None /\ role = "P" -> PublishFusionState(r, result.st, s)

PlayAll(r, st, roles, slots) ==
  FoldLeft(LAMBDA result, part : Play(r, result, part[1], part[2]), Accept(st), Zip(roles, slots))

-----------------------------------------------------------------------------
(* The roles of the operands of the instructions that only consume, read    *)
(* and output, in the order the engine applies them.                        *)

ConvertRoles ==
  [op \in {"assert", "assume"} |-> <<"C">>] @@
  [op \in {"code_align", "unimplemented", "lowering_error"} |-> <<>>] @@
  [op \in {"swap"} |-> <<"C", "C">>] @@
  [op \in {"increment", "decrement", "preincrement", "predecrement", "to_bool", "iconv",
           "enum_cast", "to_bool_not", "access_field"} |-> <<"C", "O">>] @@
  [op \in {"enum_int_inrange"} |-> <<"R", "O">>] @@
  [op \in {"load_const_zero", "load_const_bool", "load_type_index"} |-> <<"O">>] @@
  [op \in {"access_array", "access_pointer"} |-> <<"C", "C", "O">>]

CastRoles ==
  [op \in {"inheritance_cast", "struct_dynamic_cast", "struct_type_is",
           "struct_dynamic_type"} |-> <<"C", "O">>] @@
  [op \in {"struct_alloc_info"} |-> <<"C", "O", "O", "O">>] @@
  [op \in {"get_procedure_ptr", "storage_init"} |-> <<"O">>]

StorageRoles ==
  [op \in {"storage_pun", "get_underlying_storage"} |-> <<"C", "O">>] @@
  [op \in {"fusion_active_index", "fusion_has_alternative",
           "fusion_is_valueless"} |-> <<"R", "O">>] @@
  [op \in {"fusion_set_active"} |-> <<"C", "P">>] @@      \* the payload may be None
  [op \in {"fusion_set_valueless"} |-> <<"P">>] @@
  [op \in {"fusion_swap_boxed_state"} |-> <<"R", "R">>] @@
  [op \in {"constexpr_alloc", "jvm_allocate_object_storage"} |-> <<"O">>] @@
  [op \in {"constexpr_alloc_multiple", "jvm_allocate_multiple_object_storage"} |-> <<"C", "O">>] @@
  [op \in {"constexpr_dealloc", "jvm_deallocate_object_storage"} |-> <<"C">>] @@
  [op \in {"constexpr_dealloc_multiple",
           "jvm_deallocate_multiple_object_storage"} |-> <<"C", "C">>]

ReferenceRoles ==
  [op \in {"jvm_gc_pointer_checked_cast", "cast_ptrref", "ibc_load", "ibc_pun", "ibc_getaddr",
           "address_launder", "cast_constant", "float_sqrt", "canonicalize_float",
           "get_value_byte", "dereference_pointer", "relocate_value",
           "load_from_ref"} |-> <<"C", "O">>] @@
  [op \in {"get_object_ref", "get_antestatal_ref", "initguard_global_get_ref",
           "constexpr_make_proxy", "load_const_value"} |-> <<"O">>] @@
  [op \in {"initguard_complete", "initguard_abort", "constexpr_set_result",
           "constexpr_set_result2"} |-> <<"C">>] @@
  [op \in {"thread_destructor_register", "ret"} |-> <<>>] @@
  [op \in {"make_reference", "make_pointer_to"} |-> <<"R", "O">>] @@
  [op \in {"ibc_write", "constexpr_output_byte", "set_value_byte"} |-> <<"C", "C">>] @@
  [op \in {"compare_exchange"} |-> <<"C", "C", "C", "O">>]

ArithmeticRoles ==
  [op \in {"int_add", "int_sub", "int_mul", "int_div", "int_mod", "mut_int_add", "mut_int_sub",
           "mut_int_mul", "mut_int_div", "mut_int_mod", "float_add", "float_sub", "float_mul",
           "float_div"} |-> <<"C", "C", "O">>] @@
  [op \in {"mut_float_add", "mut_float_sub", "mut_float_mul",
           "mut_float_div"} |-> <<"C", "C">>] @@
  [op \in {"float_from_int"} |-> <<"C", "O">>]

BitwiseRoles ==
  [op \in {"bitwise_and", "bitwise_or", "bitwise_xor", "bitwise_nand", "bitwise_nor",
           "bitwise_nxor", "bitwise_implies", "bitwise_implied", "bitwise_shift_up",
           "bitwise_shift_down", "bitwise_rotate_up", "bitwise_rotate_down"} |->
     <<"C", "C", "O">>] @@
  [op \in {"bitwise_inverse"} |-> <<"C", "O">>]

MutBitwiseRoles ==
  [op \in {"mut_bitwise_and", "mut_bitwise_or", "mut_bitwise_xor", "mut_bitwise_nand",
           "mut_bitwise_nor", "mut_bitwise_nxor", "mut_bitwise_implies", "mut_bitwise_implied",
           "mut_bitwise_shift_up", "mut_bitwise_shift_down", "mut_bitwise_rotate_up",
           "mut_bitwise_rotate_down"} |-> <<"C", "C", "O">>]

CompareRoles ==
  [op \in {"store_to_ref"} |-> <<"C", "C">>] @@
  [op \in {"load_const_int", "load_const_enum", "load_const_float"} |-> <<"O">>] @@
  [op \in {"int_cmp", "float_cmp", "address_cmp", "address_mod", "type_index_cmp", "pointer_cmp",
           "pointer_eq", "pointer_ne", "float_ieee_eq", "float_ieee_ne", "float_ieee_lt",
           "float_ieee_gt"} |-> <<"C", "C", "O">>] @@
  [op \in {"cmp_bool"} |-> <<"C", "O">>]

PointerRoles ==
  [op \in {"copy_reference"} |-> <<"R", "O">>] @@
  [op \in {"destroy", "end_lifetime"} |-> <<"C">>] @@
  [op \in {"pointer_arith", "pointer_diff"} |-> <<"C", "C", "O">>]

ArrayRoles == [op \in {"array_init_index", "array_init_more"} |-> <<"R", "O">>]

RolesOf == ConvertRoles @@ CastRoles @@ StorageRoles @@ ReferenceRoles @@ ArithmeticRoles
           @@ BitwiseRoles @@ MutBitwiseRoles @@ CompareRoles @@ PointerRoles @@ ArrayRoles

-----------------------------------------------------------------------------
(* Calls.  A signature gives the kinds of the parameters, positional and by *)
(* name; a "static" one has no argument at run time.  A call has the slots  *)
(* of its arguments: pos, a sequence, and named, a function of the names.   *)

RoleOf(kind) == IF kind = "nvalue" THEN "O" ELSE "C"

PlayArguments(r, result, kinds, slots) ==
  FoldLeft(LAMBDA acc, part : Play(r, acc, RoleOf(part[1]), part[2]), result, Zip(kinds, slots))

PlayNamed(r, result, kinds, call, names) ==
  FoldLeft(LAMBDA acc, name : Play(r, acc, RoleOf(kinds[name]), call.named[name]), result, names)

Reject(result) == [result EXCEPT !.ok = FALSE]

Return(r, result, call) ==
  IF "RETURN" \in DOMAIN call.named THEN Play(r, result, "O", call.named["RETURN"]) ELSE result

RunTime(kinds) == SelectSeq(kinds, LAMBDA kind : kind # "static")

(* The names of a signature's parameters, in the order of the map. *)
NamesOf(sig) == SelectSeq(sig.order, LAMBDA name : sig.named[name] # "static")

Invoke(r, st, call) ==
  LET kinds == RunTime(call.sig.pos)
      names == NamesOf(call.sig)
  IN IF \/ Len(kinds) # Len(call.pos)
        \/ \E i \in DOMAIN names : names[i] \notin DOMAIN call.named
     THEN Refuse(st)
     ELSE Return(r, PlayNamed(r, PlayArguments(r, Accept(st), kinds, call.pos),
                              call.sig.named, call, names), call)

InvokeVirtual(r, st, call) ==
  LET names   == <<"THIS">> \o SelectSeq(call.sig.order, LAMBDA name : name # "THIS")
      allowed == ToSet(names) \cup {"RETURN"}
  IN IF \/ Len(call.sig.pos) # Len(call.pos)
        \/ ~(ToSet(names) \subseteq DOMAIN call.named /\ DOMAIN call.named \subseteq allowed)
     THEN Refuse(st)
     ELSE Return(r, PlayNamed(r, PlayArguments(r, Accept(st), call.sig.pos, call.pos),
                              call.sig.named, call, names), call)

InterfaceInvoke(r, st, call) ==
  Return(r, PlayNamed(r, PlayArguments(r, Consume(r, st, call.on), call.sig.pos, call.pos),
                      call.sig.named, call,
                      SelectSeq(call.sig.order, LAMBDA name : name \in DOMAIN call.named)), call)

InvokeIndirect(r, st, call) ==
  IF r.type[call.on].kind # "procedure" THEN Reject(Consume(r, st, call.on))
  ELSE Return(r, PlayNamed(r, PlayArguments(r, Consume(r, st, call.on), call.sig.pos, call.pos),
                           call.sig.named, call,
                           SelectSeq(call.sig.order, LAMBDA name : name \in DOMAIN call.named)), call)

-----------------------------------------------------------------------------
(* The instructions that start or finish the lifetime of parts of an object. *)

StorageInitStart(r, st, i) ==
  IF ~Readonly(r, st, i.on).ok \/ Alive(st[i.target]) THEN Refuse(st)
  ELSE Accept([st EXCEPT ![i.target] = [@ EXCEPT !.destroy = FALSE, !.proj = TRUE,
                                                 !.valid = TRUE, !.stage = "dead"]])

StorageDeinitStart(r, st, i) ==
  IF ~Readonly(r, st, i.on).ok \/ Alive(st[i.target]) THEN Refuse(st)
  ELSE Accept([st EXCEPT ![i.target] = [@ EXCEPT !.destroy = TRUE, !.proj = FALSE,
                                                 !.valid = TRUE, !.stage = "full"]])

FusionStorageRef(r, st, i) ==
  LET subject == IF r.type[i.on].kind = "reference" THEN Readonly(r, st, i.on).ok
                 ELSE ~Alive(st[i.on]) /\ st[i.on].valid
  IN IF subject THEN Output(r, st, i.target) ELSE Refuse(st)

DeferNontrivialDtor(r, st, i) ==
  IF Readonly(r, st, i.on).ok /\ (i.enclosing # None => Readonly(r, st, i.enclosing).ok)
  THEN Accept([st EXCEPT ![i.on].dtor = i.dtor])
  ELSE Refuse(st)

(* delegates is a sequence of the slots of the parts, selectors what each is. *)
StructInitStart(r, st, i) ==
  Accept([s \in DOMAIN st |->
    IF s = i.on THEN [st[s] EXCEPT !.sdel = i.delegates, !.valid = TRUE, !.stage = "partial"]
    ELSE IF s \in ToSet(i.delegates)
      THEN [st[s] EXCEPT !.owner = i.on,
                         !.sel = i.selectors[CHOOSE k \in DOMAIN i.delegates : i.delegates[k] = s],
                         !.proj = FALSE, !.valid = TRUE, !.stage = "dead"]
    ELSE st[s]])

StructInitFinish(r, st, i) ==
  IF st[i.on].sdel = None THEN Refuse(st)
  ELSE Accept([s \in DOMAIN st |->
    IF s \in ToSet(st[i.on].sdel) THEN Absent
    ELSE IF s = i.on THEN [st[s] EXCEPT !.sdel = None, !.stage = "full", !.valid = TRUE]
    ELSE st[s]])

(* The initializer of an array is a delegate of the slot it fills, or fills *)
(* allocated storage: then it takes the pointer and the count.              *)
ArrayInitStart(r, st, i) ==
  LET source == IF i.source # None
                THEN Accept([st EXCEPT ![i.source].adel = i.initializer,
                                       ![i.source].valid = TRUE, ![i.source].stage = "partial",
                                       ![i.initializer].owner = i.source])
                ELSE Play(r, Consume(r, st, i.pointer), "C", i.count)
  IN IF ~source.ok THEN source
     ELSE Accept([source.st EXCEPT ![i.initializer].proj = FALSE, ![i.initializer].stage = "full",
                                   ![i.initializer].valid = TRUE])

ArrayInitElement(r, st, i) ==
  IF ~Readonly(r, st, i.initializer).ok THEN Refuse(st)
  ELSE Accept([st EXCEPT ![i.target] = [@ EXCEPT !.arrOf = i.initializer, !.proj = FALSE,
                                                 !.valid = TRUE, !.stage = "dead"]])

ArrayInitFinish(r, st, i) ==
  LET owner == st[i.initializer].owner IN
  IF st[i.initializer] = Absent THEN Accept(st)
  ELSE IF owner # None /\ ~st[owner].valid THEN Refuse(st)
  ELSE Accept([s \in DOMAIN st |->
    IF s = i.initializer THEN Absent
    ELSE IF s = owner THEN [st[s] EXCEPT !.stage = "full", !.adel = None]
    ELSE st[s]])

-----------------------------------------------------------------------------

Transfer(r, st, i) ==
  CASE i.op \in DOMAIN RolesOf        -> PlayAll(r, st, RolesOf[i.op], i.args)
    [] i.op = "invoke"                -> Invoke(r, st, i)
    [] i.op = "invoke_virtual"        -> InvokeVirtual(r, st, i)
    [] i.op = "interface_init"        -> Output(r, st, i.target)
    [] i.op = "interface_invoke"      -> InterfaceInvoke(r, st, i)
    [] i.op = "interface_is_default"  -> PlayAll(r, st, <<"C", "O">>, i.args)
    [] i.op = "invoke_indirect"       -> InvokeIndirect(r, st, i)
    [] i.op = "storage_init_start"    -> StorageInitStart(r, st, i)
    [] i.op = "storage_deinit_start"  -> StorageDeinitStart(r, st, i)
    [] i.op = "fusion_storage_ref"    -> FusionStorageRef(r, st, i)
    [] i.op = "defer_nontrivial_dtor" -> DeferNontrivialDtor(r, st, i)
    [] i.op = "struct_init_start"     -> StructInitStart(r, st, i)
    [] i.op = "struct_init_finish"    -> StructInitFinish(r, st, i)
    [] i.op = "array_init_start"      -> ArrayInitStart(r, st, i)
    [] i.op = "array_init_element"    -> ArrayInitElement(r, st, i)
    [] i.op = "array_init_finish"     -> ArrayInitFinish(r, st, i)

StatesValid(st) == \A s \in DOMAIN st : Valid(st[s])

Asserted(st, result) == [result EXCEPT !.ok = @ /\ StatesValid(st) /\ StatesValid(result.st)]

(* The engine asserts the state of every slot before and after. *)
Apply(r, st, i) == Asserted(st, Transfer(r, st, i))

=============================================================================
