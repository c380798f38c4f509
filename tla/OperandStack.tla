----------------------------- MODULE OperandStack -----------------------------
(***************************************************************************)
(* How jitc_asm_emit (platform/x86_64.c) turns the instructions of an      *)
(* expression into code: the operand stack it keeps while it does, with    *)
(* the register or the slot of the frame that each operand has, and what   *)
(* the code it writes does to these.  `asm` holds the static variables     *)
(* (257-262) and the effect of the code so far:                            *)
(*   items    the operand stack: [type, float, place, ok, su];             *)
(*   ints, floats, slots   opstack_int_index, opstack_float_index and      *)
(*            rvalue_stack_ptr;                                            *)
(*   memory   FALSE once code that does not assign has changed a variable; *)
(* The first pass of jitc_asm_emit, which only counts, is left out.        *)
(* `ok` says that, when the code runs, the place of the operand has its    *)
(* value; `su` is its Sethi-Ullman number.                                 *)
(***************************************************************************)
EXTENDS FrameLayout, CallingConvention

CONSTANTS NumRegs,    \* registers of each kind: 7, rbx to r11 and xmm8 to xmm14
          Volatile,   \* those for integers that a call may change: r10 and r11
          Params, Variables,    \* the kinds of parameters and of local variables
          MaxParams, MaxLocals, \* bounds of a function
          MaxDepth,   \* bound on the operands at a time
          MaxArgs,    \* bound on the arguments of a call
          Forms       \* which of the uses that go wrong are taken: "not", "shift",
                      \* "index", "slot", "call", "unnamed", "floats"

ASSUME RegsAssumption == NumRegs \in Nat

(* Types are as large as a multiple of their alignment (jitc_update_struct *)
(* and the jitc_typecache_ functions), of externs even this is not needed. *)
ASSUME VariablesAssumption ==
    /\ \A v \in Params \union Variables :
            /\ v.named \in BOOLEAN /\ v.global \in BOOLEAN
            /\ v.size \in Nat /\ v.align \in Nat \ {0}
            /\ ~v.global => v.size % v.align = 0
    /\ \A p \in Params : p.float \in BOOLEAN /\ ~p.global
ASSUME BoundsAssumption == MaxParams \in Nat /\ MaxLocals \in Nat

VARIABLES phase, frame, asm
vars == <<phase, frame, asm>>

(* A place is the number of a register, or of a slot: <<"int", 0>>. *)
Nowhere == <<"none", 0>>

Held(item) == item.type \in {"rvalue", "lvalue_abs"}
Writable(item) == item.type \in {"lvalue", "lvalue_abs"}
Under(items) == items[Len(items) - 1]

(* The counter that an operand with a place goes by. *)
ByFloats(item) == item.type = "rvalue" /\ item.float
ByInts(item) == Held(item) /\ ~ByFloats(item)

push(a, type, float) ==
    LET xmm   == type = "rvalue" /\ float
        index == IF xmm THEN a.floats ELSE a.ints
        inreg == index < NumRegs
        held  == type \in {"rvalue", "lvalue_abs"}
        place == IF ~held THEN Nowhere
                 ELSE IF inreg THEN <<IF xmm THEN "xmm" ELSE "int", index>>
                 ELSE <<"slot", a.slots + 1>>
        slots == IF held /\ ~inreg THEN a.slots + 1 ELSE a.slots
    IN  [a EXCEPT !.items  = Append(@, [type |-> type, float |-> float, place |-> place,
                                        ok |-> TRUE, su |-> 1]),
                  !.ints   = IF held /\ ~xmm THEN @ + 1 ELSE @,
                  !.floats = IF xmm THEN @ + 1 ELSE @,
                  !.slots  = slots]

(* A slip: the slot stays taken. *)
pop_but_slot(a) ==
    LET item == Last(a.items)
    IN  [a EXCEPT !.items  = Front(@),
                  !.ints   = IF ByInts(item) THEN @ - 1 ELSE @,
                  !.floats = IF ByFloats(item) THEN @ - 1 ELSE @]

pop(a) ==
    LET item == Last(a.items)
    IN  [a EXCEPT !.items  = Front(@),
                  !.ints   = IF ByInts(item) THEN @ - 1 ELSE @,
                  !.floats = IF ByFloats(item) THEN @ - 1 ELSE @,
                  !.slots  = IF item.place[1] = "slot" THEN @ - 1 ELSE @]

(* What pop leaves when it is called until there are n operands. *)
popto(a, n) ==
    LET gone == n + 1 .. Len(a.items)
    IN  [a EXCEPT !.items  = SubSeq(@, 1, n),
                  !.ints   = @ - Quantify(gone, LAMBDA i : ByInts(a.items[i])),
                  !.floats = @ - Quantify(gone, LAMBDA i : ByFloats(a.items[i])),
                  !.slots  = @ - Quantify(gone, LAMBDA i : a.items[i].place[1] = "slot")]

(* Code writes to a place: what other operand has it is lost. *)
In(item, place) == Held(item) /\ item.place = place
Write(a, place) ==
    [a EXCEPT !.items = [i \in DOMAIN a.items |->
        [a.items[i] EXCEPT !.ok = @ /\ ~In(a.items[i], place)]]]

(* Code writes to the place of the top operand, from operands whose values *)
(* were all there or not.                                                  *)
Result(a, ok) ==
    [Write(a, Last(a.items).place) EXCEPT !.items[Len(a.items)].ok = ok]

(* A slip: operands are taken to be in the order they were pushed in. *)
never_swp(op1, op2) == FALSE

(* The register number, or the number of the slot, in `value`. *)
isswp(op1, op2) == Held(op1) /\ Held(op2) /\ op2.place[2] < op1.place[2]

(* Gives the top operand its Sethi-Ullman number (get_su_number). *)
Su(a, su) == [a EXCEPT !.items[Len(a.items)].su = su]
SuBinary(l, r) == IF l = r THEN l + 1 ELSE Max({l, r})
--------------------------------------------------------------------------------
jitc_asm_rval(a) ==
    LET item == Last(a.items)
    IN  IF item.type = "rvalue" THEN a
        ELSE Su(Result(push(pop(a), "rvalue", item.float), item.ok), item.su)

(* compiler.c 259: the operand assembled last becomes the left one. *)
jitc_asm_swp(a) ==
    [a EXCEPT !.items = SubSeq(@, 1, Len(@) - 2) \o <<Last(@), Under(@)>>]

(* The result takes the place of the left operand, which may hold the      *)
(* right one if they were swapped: then the work is done in a third place. *)
binaryop(a) ==
    LET op1   == Under(a.items)
        op2   == Last(a.items)
        res   == push(pop(pop(a)), "rvalue", op1.float)
        move  == op1.type # "rvalue" \/ isswp(op1, op2)
        temps == move /\ Held(op2)
        third == IF temps THEN push(push(res, "rvalue", op1.float), "rvalue", op1.float) ELSE res
        work  == Last(third.items).place
        done  == Write(third, work)
    IN  Result(IF temps THEN pop(pop(done)) ELSE done,
               /\ op1.ok /\ (move \/ op1.place = work)
               /\ op2.ok /\ (move => ~In(op2, work)))

(* arithcomplex and compare work in registers of their own, or only write  *)
(* the result when both operands have been read. *)
fromboth(a, float) ==
    Result(push(pop(pop(a)), "rvalue", float), Under(a.items).ok /\ Last(a.items).ok)

(* The left operand is moved to the place of the result before the right   *)
(* one is taken to rcx. *)
bitshift(a) ==
    LET op1   == Under(a.items)
        op2   == Last(a.items)
        res   == push(pop(pop(a)), "rvalue", FALSE)
        place == Last(res.items).place
        move  == op1.type # "rvalue"
    IN  Result(res, /\ op1.ok /\ (move \/ op1.place = place)
                    /\ op2.ok /\ (move => ~In(op2, place)))

(* One operand gives a new one of type `type`, by code that reads it whole *)
(* before the result is written. *)
fromone(a, type, float) ==
    LET item == Last(a.items)
    IN  Su(Result(push(pop(a), type, float), item.ok), item.su)

(* `not` and `neg` work on the operand itself, wherever it is. *)
unaryop(a) ==
    [fromone(a, "rvalue", Last(a.items).float) EXCEPT
        !.memory = @ /\ ~Writable(Last(a.items))]

(* A slip: the operand is not made an rvalue first. *)
neg_in_place(a) == unaryop(a)

jitc_asm_neg(a) == unaryop(jitc_asm_rval(a))

(* jitc_asm_load: the pointer is moved to a temporary, which from now on   *)
(* is read through. *)
jitc_asm_load(a, float) ==
    LET b == fromone(a, "rvalue", FALSE)
    IN  [b EXCEPT !.items[Len(b.items)] = [@ EXCEPT !.type = "lvalue_abs", !.float = float]]

(* A suffix on what a pointer points to needs the pointer and the old      *)
(* value at the same time. *)
increment(a, suffix) ==
    LET item  == Last(a.items)
        res   == push(pop(a), "rvalue", item.float)
        temps == suffix /\ item.type = "lvalue_abs"
        saved == IF temps THEN push(res, "rvalue", item.float) ELSE res
        work  == Last(saved.items).place
        done  == Write(saved, work)
    IN  Su(Result(IF temps THEN pop(done) ELSE done, item.ok /\ (suffix => ~In(item, work))),
           item.su)

(* An integer becomes a float through another temporary for an integer. *)
jitc_asm_cvt(a, float) ==
    LET item  == Last(a.items)
        res   == push(pop(a), "rvalue", float)
        temps == float /\ ~item.float
        via   == push(res, "rvalue", FALSE)
    IN  Su(Result(IF temps THEN pop(Write(via, Last(via.items).place)) ELSE res, item.ok),
           IF item.su = 1 THEN 2 ELSE item.su)

(* The registers that a call may change. *)
Fragile(place) == place[1] = "xmm" \/ (place[1] = "int" /\ place[2] \in Volatile)

(* The register that jitc_asm_call saves for an operand in a register: by  *)
(* the type of the operand, also when it has a pointer there.              *)
Preserved(item) == <<IF item.float THEN "xmm" ELSE "int", item.place[2]>>

Saved(a) == {Preserved(item) : item \in {i \in Range(a.items) : Held(i) /\ i.place[1] # "slot"}}

Restored(a) ==
    [a EXCEPT !.items = [i \in DOMAIN a.items |->
        [a.items[i] EXCEPT !.ok = @ /\ (Fragile(a.items[i].place) => a.items[i].place \in Saved(a))]]]

(* The n arguments and the function are popped; for the operands below,    *)
(* registers are saved before the call and restored after the result has   *)
(* been put into its place.                                                *)
jitc_asm_call(a, n, ret) ==
    LET below  == Len(a.items) - n - 1
        args   == SubSeq(a.items, below + 1, Len(a.items))
        popped == popto(a, below)
        res    == push(Restored(popped), IF ret = "void" THEN "literal" ELSE "rvalue", ret = "float")
        right  == /\ \A i \in DOMAIN args : args[i].ok
                  /\ Last(res.items).place \notin {p \in Saved(popped) : Fragile(p)}
    IN  CASE ret = "void"   -> Su(res, 2)
          [] ret = "struct" -> Su([Result(res, right) EXCEPT
                                    !.items[Len(res.items)].type = "lvalue_abs"], 2)
          [] OTHER          -> Su(Result(res, right), 2)
--------------------------------------------------------------------------------
NoFrame == [params |-> <<>>, blocks |-> <<>>]

Init ==
    /\ phase = "between" /\ frame = NoFrame
    /\ asm = [items |-> <<>>, ints |-> 0, floats |-> 0, slots |-> 0, memory |-> TRUE]

(* get_stack_size: the parameters, what the outermost block declares, and  *)
(* blocks inside it or inside each other.                                  *)
Layout(params, own, ups, inner) ==
    /\ phase = "between" /\ phase' = "laid"
    /\ frame' = [params |-> params,
                 blocks |-> <<[up |-> 1, vars |-> NamedParams(params) \o own]>>
                            \o [i \in DOMAIN ups |-> [up |-> ups[i], vars |-> inner[i]]]]
    /\ UNCHANGED asm

(* jitc_asm_func: the prologue; the places of variables are known. *)
Func ==
    /\ phase = "laid" /\ phase' = "code"
    /\ frame' = NoFrame
    /\ UNCHANGED asm

(* jitc_asm_func_end, after the last statement. *)
FuncEnd ==
    /\ phase = "code" /\ asm.items = <<>>
    /\ phase' = "between"
    /\ UNCHANGED <<frame, asm>>

(* One instruction of the IR, or a few that always follow each other. *)
Emit(a) ==
    /\ phase = "code"
    /\ asm' = a
    /\ UNCHANGED <<phase, frame>>

Ready == Len(asm.items)
Operand == Last(asm.items)

(* IR_pushi, IR_pushf, IR_pushd; IR_lstack; IR_laddr, which loads the      *)
(* address into the place of the operand.                                  *)
Leaf(type, float) ==
    /\ Ready < MaxDepth
    /\ Emit(IF type = "lvalue_abs" THEN Result(push(asm, type, float), TRUE)
            ELSE push(asm, type, float))

Dereference(float) ==
    /\ Ready > 0 /\ ~Operand.float
    /\ Emit(jitc_asm_load(asm, float))

AddressOf ==
    /\ Ready > 0 /\ Writable(Operand)
    /\ Emit(fromone(asm, "rvalue", FALSE))

Negate ==
    /\ Ready > 0
    /\ Emit(jitc_asm_neg(asm))

(* `~`: without the form "not", only of what is no variable. *)
Complement ==
    /\ Ready > 0 /\ ~Operand.float
    /\ Writable(Operand) => "not" \in Forms
    /\ Emit(unaryop(asm))

(* `!`: compare_against *)
LogicNegate ==
    /\ Ready > 0
    /\ Emit(fromone(asm, "rvalue", FALSE))

Increment(suffix) ==
    /\ Ready > 0 /\ Writable(Operand)
    /\ suffix /\ Operand.float /\ Operand.place[1] = "slot" => "slot" \in Forms
    /\ Emit(increment(asm, suffix))

Cast(float) ==
    /\ Ready > 0
    /\ Emit(jitc_asm_cvt(asm, float))

(* Where the place of a result, or of a temporary, is that of an operand   *)
(* that is still to be read: a shift by what is in a register; an index    *)
(* behind a pointer; and, for an operand in a slot, isswp, which compares  *)
(* the numbers of slots with those of registers, and temporaries for       *)
(* floats, which take the slot of a pointer to a float.                    *)
Overwrites(kind, left, right, swapped) ==
    {form \in {"shift", "index", "slot"} :
        \/ form = "shift" /\ kind = "shift" /\ Held(right) /\ (swapped \/ ~Held(left))
        \/ form = "index" /\ kind = "index" /\ swapped /\ right.type = "lvalue_abs"
        \/ /\ form = "slot" /\ "slot" \in {left.place[1], right.place[1]}
           /\ swapped \/ left.float}

(* The index behind a pointer is shifted in the place it has. *)
jitc_asm_normalize(a) == jitc_asm_rval(a)

(* The instructions for the operators that do not assign, by what they do  *)
(* to places: "add" stands for sub, and, or and xor, "mul" for div and mod. *)
Operation(kind, a) ==
    CASE kind = "add"     -> binaryop(a)
      [] kind = "mul"     -> IF Last(a.items).float THEN binaryop(a) ELSE fromboth(a, FALSE)
      [] kind = "compare" -> fromboth(a, FALSE)
      [] kind = "shift"   -> bitshift(a)
      [] kind = "index"   -> binaryop(jitc_asm_normalize(a))

(* The operators that do not assign.  The operands are assembled in the    *)
(* order of their numbers: the left one first, unless it has the smaller   *)
(* one; then IR_swp follows.                                               *)
Binary(kind, swapped) ==
    LET a     == IF swapped THEN jitc_asm_swp(asm) ELSE asm
        left  == Under(a.items)
        right == Last(a.items)
    IN  /\ Ready >= 2 /\ swapped = (left.su < right.su)
        /\ left.float = right.float
        /\ kind \in {"shift", "index"} => ~left.float
        /\ Overwrites(kind, left, right, swapped) \subseteq Forms
        /\ Emit(Su(Operation(kind, a), SuBinary(left.su, right.su)))

(* The operators that assign: the left operand stays, as the result.       *)
Assign(kind) ==
    LET left  == Under(asm.items)
        ready == IF Operand.float /\ Operand.type = "literal" /\ kind = "add"
                 THEN jitc_asm_rval(asm) ELSE asm
        ok    == left.ok /\ Last(ready.items).ok
    IN  /\ Ready >= 2
        /\ Writable(left) /\ left.float = Operand.float
        /\ kind = "shift" => ~Operand.float
        /\ Emit(Su([pop(ready) EXCEPT !.memory = @ /\ ok], SuBinary(left.su, Operand.su)))

(* A call of the top operand with the n operands under it (form "call": an *)
(* operand that stays has the address of a float).                         *)
Call(n, ret) ==
    /\ Ready > n /\ ~Operand.float
    /\ (\E i \in 1 .. Ready - n - 1 : asm.items[i].type = "lvalue_abs" /\ asm.items[i].float)
            => "call" \in Forms
    /\ Emit(jitc_asm_call(asm, n, ret))

(* The end of an expression statement, a comma, a condition, or a return   *)
(* (IR_pop, IR_then, IR_ret).                                              *)
Pop ==
    /\ Ready > 0
    /\ Emit(pop(asm))

(* The left operand of && and ||, and the middle one of a conditional.     *)
Test ==
    /\ Ready > 0
    /\ Emit(pop(jitc_asm_rval(asm)))

(* The end of && and || (IR_sc_end). *)
Truth ==
    /\ Ready > 0
    /\ Emit(fromone(jitc_asm_rval(asm), "rvalue", FALSE))

Functions == UNION {[1 .. n -> Params] : n \in 0 .. MaxParams}
Declarations(least) == UNION {[1 .. n -> Variables] : n \in least .. MaxLocals}

(* The forms "unnamed" (a parameter without a name) and "floats" (more     *)
(* floats than registers for them).                                        *)
Begin ==
    \E params \in Functions, own \in Declarations(0), ups \in {<<>>, <<1>>, <<1, 1>>, <<1, 2>>} :
        /\ \A i \in DOMAIN params : params[i].named \/ "unnamed" \in Forms
        /\ Quantify(DOMAIN params, LAMBDA i : params[i].float) <= FloatArgs \/ "floats" \in Forms
        /\ \E inner \in [DOMAIN ups -> Declarations(1)] : Layout(params, own, ups, inner)

Next ==
    \/ Begin \/ Func \/ FuncEnd
    \/ \E type \in {"literal", "lvalue", "lvalue_abs"}, float \in BOOLEAN : Leaf(type, float)
    \/ \E float \in BOOLEAN : Dereference(float) \/ Cast(float)
    \/ AddressOf \/ Negate \/ Complement \/ LogicNegate
    \/ \E suffix \in BOOLEAN : Increment(suffix)
    \/ \E kind \in {"add", "mul", "compare", "shift", "index"}, swapped \in BOOLEAN :
            Binary(kind, swapped)
    \/ \E kind \in {"store", "add", "shift"} : Assign(kind)
    \/ \E n \in 0 .. MaxArgs, ret \in {"int", "float", "struct", "void"} : Call(n, ret)
    \/ Pop \/ Test \/ Truth

Spec == Init /\ [][Next]_vars
--------------------------------------------------------------------------------
(* Every operand on the stack can still be read when the code runs: no     *)
(* later instruction, temporary or call has taken or changed its place     *)
(* (push, op and what uses them, x86_64.c 290-757).                        *)
ValuesKept == \A i \in DOMAIN asm.items : asm.items[i].ok

(* Only ++, -- and assignments change variables, and with the right value  *)
(* (unaryop works in place, x86_64.c 666).                                 *)
MemoryKept == asm.memory

(* The counters that choose registers and slots count the operands that    *)
(* have one, although the types of operands change while they have it, so  *)
(* that no function leaves one taken (pop, x86_64.c 329).                  *)
RegistersFreed ==
    LET with(kind) == Quantify(DOMAIN asm.items, LAMBDA i : asm.items[i].place[1] = kind)
        excess(n)  == Max({n - NumRegs, 0})
    IN  /\ asm.ints + asm.floats = with("int") + with("xmm") + with("slot")
        /\ asm.slots = with("slot")
        /\ asm.slots = excess(asm.ints) + excess(asm.floats)

(* Variables that are live together lie apart, within the frame, at        *)
(* multiples of their alignment (process_size_tree, compiler.c 156).       *)
FrameSound ==
    phase = "laid" =>
        LET blocks == frame.blocks
            locals == Locals(blocks)
        IN  \A v \in locals :
                /\ Offset(blocks, v[1], v[2]) <= FrameSize(blocks)
                /\ Offset(blocks, v[1], v[2]) % blocks[v[1]].vars[v[2]].align = 0
                /\ \A w \in locals \ {v} :
                        w[1] \in Around(blocks, v[1]) =>
                            Bytes(blocks, v[1], v[2]) \intersect Bytes(blocks, w[1], w[2]) = {}

(* A caller puts every argument where the function called looks for it,    *)
(* and its prologue stores it where the body looks for it (sysv-x86_64.c   *)
(* 138-167 and 249-273, compiler.c 183).                                   *)
ArgumentsArrive ==
    phase = "laid" =>
        LET params == frame.params
            floats == [i \in DOMAIN params |-> params[i].float]
            leaf(i) == Quantify(1..i, LAMBDA j : params[j].named)
        IN  /\ ArgPlaces(floats) = ParamPlaces(floats)
            /\ \A i \in DOMAIN params : params[i].named =>
                    ParamOffset(params, i) = Offset(frame.blocks, 1, leaf(i))
================================================================================
