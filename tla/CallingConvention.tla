--------------------------- MODULE CallingConvention ---------------------------
(***************************************************************************)
(* Where the arguments of a call go (platform/sysv-x86_64.c 43-231) and    *)
(* where the function called looks for them (233-274).  Arguments are      *)
(* scalars; of each only matters whether it is a float.                    *)
(***************************************************************************)
EXTENDS Integers, Sequences, SequencesExt

CONSTANTS IntArgs,    \* registers for integers: 6, rdi to r9
          FloatArgs   \* registers for floats: 8, xmm0 to xmm7

ASSUME ArgsAssumption == IntArgs \in Nat /\ FloatArgs \in Nat

(* int_params, float_params and stack_params, and what has been found. *)
NoneUsed == [params |-> [kind \in {"int", "float", "stack"} |-> 0], out |-> <<>>]

Use(used, kind, what) ==
    [params |-> [used.params EXCEPT ![kind] = @ + 1], out |-> Append(used.out, what)]

(* classify, for a scalar. *)
Classify(used, float) ==
    IF float
    THEN IF used.params["float"] < FloatArgs THEN Use(used, "float", "FLOATING")
         ELSE Use(used, "stack", "MEMORY")
    ELSE IF used.params["int"] < IntArgs THEN Use(used, "int", "INTEGER")
         ELSE Use(used, "stack", "MEMORY")

Classes(args) == FoldLeft(Classify, NoneUsed, args).out

(* One turn of the loop that copies the arguments in jitc_asm_call: only   *)
(* the class FLOATING is looked at, and what is left is an integer as long *)
(* as there are registers.                                                 *)
CopyArg(used, class) ==
    IF class = "FLOATING" /\ used.params["float"] < FloatArgs
    THEN Use(used, "float", <<"xmm", used.params["float"]>>)
    ELSE IF used.params["int"] < IntArgs
    THEN Use(used, "int", <<"int", used.params["int"]>>)
    ELSE Use(used, "stack", <<"stack", used.params["stack"]>>)

ArgPlaces(args) == FoldLeft(CopyArg, NoneUsed, Classes(args)).out

(* A slip: one register for integers too many. *)
TakeParamLate(used, float) ==
    IF float /\ used.params["float"] < FloatArgs
    THEN Use(used, "float", <<"xmm", used.params["float"]>>)
    ELSE IF ~float /\ used.params["int"] <= IntArgs
    THEN Use(used, "int", <<"int", used.params["int"]>>)
    ELSE Use(used, "stack", <<"stack", used.params["stack"]>>)

(* One turn of the loop over the parameters in jitc_asm_func. *)
TakeParam(used, float) ==
    IF float /\ used.params["float"] < FloatArgs
    THEN Use(used, "float", <<"xmm", used.params["float"]>>)
    ELSE IF ~float /\ used.params["int"] < IntArgs
    THEN Use(used, "int", <<"int", used.params["int"]>>)
    ELSE Use(used, "stack", <<"stack", used.params["stack"]>>)

ParamPlaces(params) == FoldLeft(TakeParam, NoneUsed, params).out
================================================================================
