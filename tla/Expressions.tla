----------------------------- MODULE Expressions -----------------------------
(***************************************************************************)
(* The expressions of #if and #elif as preprocessor.c computes them:       *)
(* get_operand and compute_expression call each other while they go        *)
(* through the tokens of the line, evaluating what they read, once.        *)
(*                                                                         *)
(* A call ends in [ok, value, next, error]; next is stream->ptr.  An error *)
(* that is thrown at the variable token before it has been set is "fault", *)
(* as is a division the processor traps at.                                *)
(***************************************************************************)
EXTENDS CExpressions, SequencesExt

CONSTANTS
    Tokens, \* all tokens
    Shapes  \* what texts look like: sequences of sets of tokens

ASSUME ShapesAssumption == Shapes \subseteq Seq(SUBSET Tokens)

VARIABLES
    shape,  \* the shape of the text
    text,   \* what stands behind #if
    result  \* what compute_expression makes of it
vars == <<shape, text, result>>

Ok(value, next) == [ok |-> TRUE, value |-> value, next |-> next, error |-> "none"]
Error(why, next) == [ok |-> FALSE, value |-> 0, next |-> next, error |-> why]

Least == -(2^(Bits - 1))

(* -, ~ and ! of an int64_t. *)
Signed(sign, value) ==
    CASE sign = "+" -> value [] sign = "-" -> Wrap(-value)
      [] sign = "~" -> -value - 1 [] sign = "!" -> Bool(value = 0)

(* The stack of signs: the last one read is next to the operand. *)
SignsApplied(signs, value) == FoldRight(LAMBDA sign, v : Signed(sign, v), signs, value)

(* op_info *)
precedence(op) ==
    CASE op \in {"*", "/", "%"} -> 11 [] op \in {"+", "-"} -> 10 [] op \in {"<<", ">>"} -> 9
      [] op \in {"<", ">", "<=", ">="} -> 8 [] op \in {"==", "!="} -> 7 [] op = "&" -> 6
      [] op = "^" -> 5 [] op = "|" -> 4 [] op = "&&" -> 3 [] op = "||" -> 2 [] op = "?" -> 1
      [] OTHER -> 0

(* A result goes into an int64_t. *)
Stored(value) == Wrap(value)

(* The switch over the operator; shifts count as x86-64 does. *)
Computed(op, a, b) ==
    CASE op = "+" -> Stored(a + b) [] op = "-" -> Stored(a - b) [] op = "*" -> Stored(a * b)
      [] op = "/" -> Quotient(a, b) [] op = "%" -> a - b * Quotient(a, b)
      [] op = "&" -> Wrap(Unsigned(a) & Unsigned(b)) [] op = "|" -> Wrap(Unsigned(a) | Unsigned(b))
      [] op = "^" -> Wrap(Unsigned(a) ^^ Unsigned(b))
      [] op = "<<" -> Wrap(a * 2^(b % Bits)) [] op = ">>" -> a \div 2^(b % Bits)
      [] op = "==" -> Bool(a = b) [] op = "!=" -> Bool(a # b)
      [] op = "<" -> Bool(a < b) [] op = ">" -> Bool(a > b)
      [] op = "<=" -> Bool(a <= b) [] op = ">=" -> Bool(a >= b)
      [] op = "&&" -> Bool(a # 0 /\ b # 0) [] op = "||" -> Bool(a # 0 \/ b # 0)

RECURSIVE Operand(_, _), compute_expression(_, _, _), Operators(_, _, _)

Is(s, i, tokens) == i <= Len(s) /\ s[i] \in tokens

(* Mutant: whatever stands there is taken for the token. *)
Expect_any(s, c, token, why) ==
    IF ~c.ok THEN c
    ELSE IF c.next <= Len(s) THEN [c EXCEPT !.next = @ + 1] ELSE Error(why, c.next + 1)

(* The token that must follow once the call c has come back. *)
Expect(s, c, token, why) ==
    IF ~c.ok THEN c
    ELSE IF Is(s, c.next, {token}) THEN [c EXCEPT !.next = @ + 1] ELSE Error(why, c.next + 1)

(* The name of defined, with or without parentheses around it. *)
Defined(s, i) ==
    LET open == Is(s, i, {"("})
        n    == IF open THEN i + 1 ELSE i
        name == Ok(Bool(n <= Len(s) /\ s[n] \in Macros), n + 1)
    IN  IF ~Is(s, n, Identifiers) THEN Error("Macro name expected", n + 1)
        ELSE IF open THEN Expect(s, name, ")", "Expected ')'") ELSE name

(* What the signs stand before. *)
Operand(s, i) ==
    CASE s[i] = "defined" -> Defined(s, i + 1)
      [] s[i] \in DOMAIN Number -> Ok(Wrap(Number[s[i]]), i + 1)
      [] s[i] = "(" -> Expect(s, compute_expression(s, i + 1, 1), ")", "Expected ')'")
      [] s[i] \in Names -> Ok(0, i + 1)
      [] OTHER -> Error("Expected operand", i + 1)

get_operand(s, i) ==
    LET rest    == SelectInSubSeq(s, i, Len(s), LAMBDA token : token \notin Signs)
        operand == Operand(s, rest)
    IN  IF rest = 0
        THEN Error(IF i > Len(s) THEN "fault" ELSE "Expected operand", Len(s) + 2)
        ELSE IF operand.ok
        THEN [operand EXCEPT !.value = SignsApplied(SubSeq(s, i, rest - 1), @)]
        ELSE operand

(* The operand or the result so far, left, and an operator with what is    *)
(* right of it.                                                            *)
Applied(op, left, right) ==
    IF ~right.ok THEN right
    ELSE IF op \in {"/", "%"} /\ right.value = 0 THEN Error("Division by 0", right.next)
    ELSE IF op \in {"/", "%"} /\ right.value = -1 /\ left.value = Least THEN Error("fault", right.next)
    ELSE Ok(Computed(op, left.value, right.value), right.next)

(* Both branches are computed. *)
Ternary(s, left) ==
    LET then      == compute_expression(s, left.next + 1, precedence("?"))
        colon     == Expect(s, then, ":", "Expected ':'")
        otherwise == compute_expression(s, colon.next, precedence("?"))
    IN  IF ~colon.ok THEN colon
        ELSE IF otherwise.ok /\ left.value # 0 THEN [otherwise EXCEPT !.value = then.value]
        ELSE otherwise

(* Mutant: the right side takes operators of the same level. *)
RightOf_same(s, i, op) == compute_expression(s, i, precedence(op))

RightOf(s, i, op) == compute_expression(s, i, precedence(op) + 1)

(* The loop: operators of no less than min_prec. *)
Operators(s, left, min_prec) ==
    IF ~left.ok \/ left.next > Len(s) THEN left
    ELSE LET op == s[left.next]
         IN  IF precedence(op) < min_prec THEN left
             ELSE Operators(s, IF op = "?" THEN Ternary(s, left)
                               ELSE Applied(op, left, RightOf(s, left.next + 1, op)), min_prec)

compute_expression(s, i, min_prec) == Operators(s, get_operand(s, i), min_prec)
--------------------------------------------------------------------------------
(* A line behind #if, one token longer, and what jitc_preprocess gets.     *)
Init == shape \in Shapes /\ text = <<>> /\ result = compute_expression(<<>>, 1, 1)

Longer ==
    /\ Len(text) < Len(shape)
    /\ \E token \in shape[Len(text) + 1] : text' = Append(text, token)
    /\ result' = compute_expression(text', 1, 1)
    /\ UNCHANGED shape

Next == Longer

Spec == Init /\ [][Next]_vars
--------------------------------------------------------------------------------
(* What C takes is taken, all of it, with the value it has in C; only if   *)
(* some part of it, evaluated or not, has none may it fail.                *)
ValueAsInC ==
    \A m \in Meaning(text) :
        /\ m.all => result.ok
        /\ result.ok => result.next = Len(text) + 1
        /\ m.defined /\ result.ok => result.value = m.value

(* And nothing else: what has been read when it is taken is an expression  *)
(* of C, and its value fits into an int64_t.  That tokens are left behind  *)
(* it nobody notices.                                                      *)
TakesOnlyC ==
    result.ok => Fits(result.value) /\ Meaning(SubSeq(text, 1, result.next - 1)) # {}
================================================================================
