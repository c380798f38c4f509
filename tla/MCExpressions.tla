---------------------------- MODULE MCExpressions ----------------------------
(***************************************************************************)
(* Texts for Expressions.  Operators stand between numbers, two of them in *)
(* a text of four numbers and ? : in one of five, so that every two meet   *)
(* in every order; in the others tokens stand anyhow.  In four bits 8 is   *)
(* the number that does not fit.                                           *)
(***************************************************************************)
EXTENDS Expressions

MCNumber == [n \in {"0", "1", "2", "8"} |->
                CASE n = "0" -> 0 [] n = "1" -> 1 [] n = "2" -> 2 [] n = "8" -> 8]

BinaryOperators == UNION {Operator[l] : l \in DOMAIN Operator}

Alternating(numbers, operators, length) ==
    [i \in 1 .. length |-> IF i % 2 = 1 THEN numbers ELSE operators]
Anyhow(tokens, length) == [i \in 1 .. length |-> tokens]

MCShapes ==
    {Alternating({"1", "2"}, {p, q}, 7) : p, q \in BinaryOperators} \union
    {Alternating({"0", "1"}, {"?", ":", p}, 9) : p \in {"||", "/"}} \union
    {Anyhow({"-", "~", "!", "+", "1"}, 5), Anyhow({"/", "-", "%", "8", "1"}, 5),
     Anyhow({"defined", "(", ")", "A", "N", "!"}, 5),
     Anyhow({"(", ")", "-", "*", "1"}, 6), Anyhow({"(", ")", "?", ":", "1"}, 6)}

MCTokens == UNION {UNION ToSet(s) : s \in MCShapes}
=============================================================================
