---------------------------- MODULE MCOperandStack ----------------------------
(***************************************************************************)
(* OperandStack with two registers of each kind, one of which a call may   *)
(* change, and arguments in two registers for integers and one for floats. *)
(***************************************************************************)
EXTENDS OperandStack

MCVolatile == {1}

Scalar(float, size, named) ==
    [float |-> float, size |-> size, align |-> size, named |-> named, global |-> FALSE]
MCParams == {Scalar(FALSE, 1, TRUE), Scalar(FALSE, 4, TRUE), Scalar(TRUE, 8, TRUE),
             Scalar(FALSE, 8, FALSE)}

\* a char, a long, a struct of twelve bytes, an extern
MCVariables ==
    {[size |-> s[1], align |-> s[2], named |-> TRUE, global |-> s[3]] :
        s \in {<<1, 1, FALSE>>, <<8, 8, FALSE>>, <<12, 4, FALSE>>, <<8, 8, TRUE>>}}
================================================================================
