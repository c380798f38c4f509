---------------------------- MODULE CExpressions ----------------------------
(***************************************************************************)
(* The controlling expressions of C as its grammar has them: what a text   *)
(* of tokens means, if anything, is found by trying every way to divide    *)
(* it.  Numbers have Bits bits; where C says that a result that does not   *)
(* fit, or a shift by too much, is undefined, so is the meaning here.      *)
(***************************************************************************)
EXTENDS Integers, Sequences, FiniteSets, Bitwise

CONSTANTS
    Bits,    \* the width of int64_t
    Number,  \* the values of the tokens that are numbers
    Names,   \* the tokens that are identifiers, but for "defined"
    Macros   \* those that are the names of macros

ASSUME WidthAssumption == Bits \in Nat \ {0, 1}
ASSUME MacrosAssumption == Macros \subseteq Names

Fits(n) == n \in -(2^(Bits - 1)) .. 2^(Bits - 1) - 1

(* A number as its bits, and bits as a number. *)
Unsigned(n) == n % 2^Bits
Wrap(n) == LET u == Unsigned(n) IN IF u < 2^(Bits - 1) THEN u ELSE u - 2^Bits

Bool(condition) == IF condition THEN 1 ELSE 0
Abs(n) == IF n < 0 THEN -n ELSE n
Quotient(a, b) == LET q == Abs(a) \div Abs(b) IN IF (a < 0) = (b < 0) THEN q ELSE -q

Operator == [
    or       |-> {"||"},                and    |-> {"&&"},
    bits_or  |-> {"|"},                 xor    |-> {"^"},        bits_and |-> {"&"},
    equality |-> {"==", "!="},          order  |-> {"<", ">", "<=", ">="},
    shift    |-> {"<<", ">>"},          sum    |-> {"+", "-"},   product  |-> {"*", "/", "%"}]

Levels == <<"or", "and", "bits_or", "xor", "bits_and", "equality", "order", "shift", "sum", "product">>
Signs == {"+", "-", "~", "!"}

(* value: what C has it be, if it is defined; all: so is every part of it, *)
(* those that are not evaluated included.                                  *)
Known(n) == [value |-> n, defined |-> Fits(n), all |-> Fits(n)]
Open == [value |-> 0, defined |-> FALSE, all |-> FALSE]

Binary(op, a, b) ==
    CASE op = "+" -> Known(a + b)              [] op = "-" -> Known(a - b)
      [] op = "*" -> Known(a * b)              [] op = "/" /\ b # 0 -> Known(Quotient(a, b))
      [] op = "%" /\ b # 0 /\ Fits(Quotient(a, b)) -> Known(a - b * Quotient(a, b))
      [] op = "&" -> Known(Wrap(Unsigned(a) & Unsigned(b)))
      [] op = "|" -> Known(Wrap(Unsigned(a) | Unsigned(b)))
      [] op = "^" -> Known(Wrap(Unsigned(a) ^^ Unsigned(b)))
      [] op = "<<" /\ a >= 0 /\ b \in 0 .. Bits - 1 -> Known(a * 2^b)
      [] op = ">>" /\ a >= 0 /\ b \in 0 .. Bits - 1 -> Known(a \div 2^b)
      [] op = "==" -> Known(Bool(a = b))       [] op = "!=" -> Known(Bool(a # b))
      [] op = "<" -> Known(Bool(a < b))        [] op = ">" -> Known(Bool(a > b))
      [] op = "<=" -> Known(Bool(a <= b))      [] op = ">=" -> Known(Bool(a >= b))
      [] OTHER -> Open

Unary(sign, a) ==
    CASE sign = "+" -> Known(a) [] sign = "-" -> Known(-a)
      [] sign = "~" -> Known(-a - 1) [] sign = "!" -> Known(Bool(a = 0))

(* m, of which only the evaluated parts need be defined. *)
With(m, parts, evaluated) ==
    [value |-> m.value, defined |-> m.defined /\ \A p \in evaluated : p.defined,
     all |-> m.all /\ \A p \in parts : p.all]

Combined(op, a, b) ==
    CASE op = "||" -> With(Known(Bool(a.value # 0 \/ b.value # 0)), {a, b}, IF a.value # 0 THEN {a} ELSE {a, b})
      [] op = "&&" -> With(Known(Bool(a.value # 0 /\ b.value # 0)), {a, b}, IF a.value = 0 THEN {a} ELSE {a, b})
      [] OTHER -> With(Binary(op, a.value, b.value), {a, b}, {a, b})

Chosen(a, b, c) == LET taken == IF a.value # 0 THEN b ELSE c
                   IN  With(Known(taken.value), {a, b, c}, {a, taken})

RECURSIVE Meaning(_), OfLevel(_, _), OfUnary(_)

Before(s, i) == SubSeq(s, 1, i - 1)
Behind(s, i) == SubSeq(s, i + 1, Len(s))
Between(s, tokens) == {i \in 2 .. Len(s) - 1 : s[i] \in tokens}

(* A conditional expression, whose middle is any expression. *)
Meaning(s) ==
    OfLevel(1, s) \union
    UNION {UNION {UNION {{Chosen(a, b, c) : c \in Meaning(Behind(s, j))} :
              b \in Meaning(SubSeq(s, i + 1, j - 1))} :
              a \in OfLevel(1, Before(s, i))} :
              i \in Between(s, {"?"}), j \in Between(s, {":"})}

(* Operators of one level group from the left. *)
OfLevel(level, s) ==
    IF level > Len(Levels) THEN OfUnary(s)
    ELSE OfLevel(level + 1, s) \union
         UNION {UNION {{Combined(s[i], a, b) : b \in OfLevel(level + 1, Behind(s, i))} :
                   a \in OfLevel(level, Before(s, i))} :
                   i \in Between(s, Operator[Levels[level]])}

Identifiers == Names \union {"defined"}

OfUnary(s) ==
    IF s = <<>> THEN {}
    ELSE IF s[1] \in Signs
    THEN {With(Unary(s[1], a.value), {a}, {a}) : a \in OfUnary(Tail(s))}
    ELSE IF s[1] = "(" /\ s[Len(s)] = ")" THEN Meaning(SubSeq(s, 2, Len(s) - 1))
    ELSE IF Len(s) = 1
    THEN IF s[1] \in DOMAIN Number THEN {Known(Number[s[1]])}
         \* What a macro stands for is left open.
         ELSE IF s[1] \in Macros THEN {Open} ELSE IF s[1] \in Names THEN {Known(0)} ELSE {}
    ELSE {Known(Bool(n \in Macros)) :
             n \in {n \in Identifiers : s \in {<<"defined", n>>, <<"defined", "(", n, ")">>}}}
=============================================================================
