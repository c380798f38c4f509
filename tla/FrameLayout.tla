------------------------------ MODULE FrameLayout ------------------------------
(***************************************************************************)
(* The stack frame of a function (compiler.c 106-196, and the end of the   *)
(* prologue in platform/sysv-x86_64.c 249-273).                            *)
(*                                                                         *)
(* A variable is [size, align, named, global]: `named` is FALSE for a      *)
(* parameter without a name, `global` is TRUE for an extern declared in a  *)
(* block, which takes no room.  The tree that append_to_size_tree builds   *)
(* is a sequence of blocks [up, vars]; the first holds the parameters and  *)
(* what is declared beside them, and `up` is the block around a later one. *)
(***************************************************************************)
EXTENDS Integers, Sequences, SequencesExt, FiniteSetsExt

(* `size += align - size % align`, where it is not aligned already. *)
AlignUp(size, align) == ((size + align - 1) \div align) * align

(* What one leaf adds to the frame in process_size_tree. *)
AddLeaf(size, v) ==
    IF ~v.named THEN size
    ELSE AlignUp(size, v.align) + (IF v.global THEN 0 ELSE v.size)

(* process_size_tree: the leaves of a block come first, each block inside  *)
(* it begins where they end, so that blocks beside each other share room.  *)
BlockEnds(blocks) ==
    LET end[b \in DOMAIN blocks] ==
            FoldLeft(AddLeaf, IF b = 1 THEN 0 ELSE end[blocks[b].up], blocks[b].vars)
    IN  end

(* A slip: the variables of an inner block begin where the frame does. *)
OffsetInBlock(blocks, b, i) == FoldLeft(AddLeaf, 0, SubSeq(blocks[b].vars, 1, i))

(* `var.offset`: the variable lies at [rbp - offset, rbp - offset + size). *)
Offset(blocks, b, i) ==
    FoldLeft(AddLeaf, IF b = 1 THEN 0 ELSE BlockEnds(blocks)[blocks[b].up],
             SubSeq(blocks[b].vars, 1, i))

(* get_stack_size: the largest end of a block. *)
FrameSize(blocks) == Max({BlockEnds(blocks)[b] : b \in DOMAIN blocks})

(* Where jitc_asm_func stores the i-th parameter: its `offset` skips       *)
(* parameters without a name as well, but only after it has been aligned   *)
(* to them.                                                                *)
AddParam(offset, p) == AlignUp(offset, p.align) + (IF p.named THEN p.size ELSE 0)
ParamOffset(params, i) == FoldLeft(AddParam, 0, SubSeq(params, 1, i))

(* The parameters that get_stack_size makes leaves of. *)
AddNamed(leaves, p) == IF p.named THEN Append(leaves, p) ELSE leaves
NamedParams(params) == FoldLeft(AddNamed, <<>>, params)

--------------------------------------------------------------------------------
(* The blocks around b, and b. *)
Around(blocks, b) ==
    LET around[c \in DOMAIN blocks] ==
            {c} \union (IF c = 1 THEN {} ELSE around[blocks[c].up])
    IN  around[b]

(* The variables that take room in the frame, as pairs of block and index. *)
Locals(blocks) ==
    {v \in (DOMAIN blocks) \X (1 .. Max({Len(blocks[b].vars) : b \in DOMAIN blocks})) :
        LET locals == blocks[v[1]].vars
        IN  v[2] \in DOMAIN locals /\ locals[v[2]].named /\ ~locals[v[2]].global}

(* The bytes of a variable, counted downwards from the frame pointer. *)
Bytes(blocks, b, i) ==
    LET end == Offset(blocks, b, i) IN end - blocks[b].vars[i].size .. end - 1
================================================================================
