------------------------------- MODULE CLexemes -------------------------------
(***************************************************************************)
(* What the lexer is measured by: how C divides a text into lexemes, each  *)
(* as long as it can be, and the numbers and literals C has.  Nothing here *)
(* is translated from the code but the classes of characters and the table *)
(* of symbols.  Characters are their ASCII codes, NUL is 0.                *)
(***************************************************************************)
EXTENDS Integers, Sequences, SequencesExt, FiniteSetsExt

CONSTANTS Symbols,   \* token_table, as far as its characters occur
          Include    \* the word "include"

NL == 10        Quote == 34     Hash == 35      Tick == 39      Star == 42
Plus == 43      Minus == 45     Dot == 46       Slash == 47     Less == 60
Greater == 62   Backslash == 92

is_letter(c) == c \in (65 .. 90) \union (97 .. 122) \union {95, 36}

is_number(c) == c \in 48 .. 57

is_hex_number(c) == is_number(c) \/ c \in (65 .. 70) \union (97 .. 102)

is_alphanumeric(c) == is_number(c) \/ is_letter(c)

is_symbol(c) == c > 32 /\ c <= 126 /\ ~is_alphanumeric(c)

is_blank(c) == c \in {32, 9, NL}

(* The value of a hexadecimal digit; no base has it if c is none. *)
Digit(c) == IF is_number(c) THEN c - 48
            ELSE IF c \in 97 .. 102 THEN c - 87
            ELSE IF c \in 65 .. 70 THEN c - 55 ELSE 99

IsX(c) == c \in {120, 88}
IsB(c) == c \in {98, 66}
IsU(c) == c \in {117, 85}
IsL(c) == c \in {108, 76}
IsE(c) == c \in {101, 69}
IsP(c) == c \in {112, 80}
IsF(c) == c \in {102, 70}
--------------------------------------------------------------------------------
At(t, i) == IF i \in DOMAIN t THEN t[i] ELSE 0
From(t, i) == SubSeq(t, i, Len(t))
All(t, Class(_)) == \A i \in DOMAIN t : Class(t[i])

(* The last position of the run of a class that begins at i. *)
RunEnd(t, i, Class(_)) ==
    Min({j \in i .. Len(t) + 1 : j > Len(t) \/ ~Class(t[j])}) - 1

NumberEnd(t, i) ==
    Min({j \in i + 1 .. Len(t) + 1 :
            ~(is_alphanumeric(At(t, j)) \/ At(t, j) = Dot
              \/ (At(t, j) \in {Plus, Minus} /\ (IsE(t[j - 1]) \/ IsP(t[j - 1]))))}) - 1

(* Where a literal that begins at i ends; 0 if it does not. *)
QuoteEnd(t, i, quote) ==
    LET end[j \in Nat] == IF j > Len(t) THEN 0
                          ELSE IF t[j] = quote THEN j
                          ELSE end[IF t[j] = Backslash THEN j + 2 ELSE j + 1]
    IN  end[i + 1]

Least(ends) == IF ends = {} THEN 0 ELSE Min(ends)
Longest(ends) == IF ends = {} THEN 0 ELSE Max(ends)

(* Header names are lexemes of their own in a line that includes one. *)
InInclude(t, i, before) ==
    \E j \in 2 .. Len(before) :
        /\ before[j - 1].text = <<Hash>> /\ before[j - 1].first
        /\ before[j].text = Include /\ NL \notin ToSet(SubSeq(t, before[j - 1].at, i))

Kind(t, i, before) ==
    CASE is_blank(t[i])  -> "blank"
      [] is_letter(t[i]) -> "word"
      [] is_number(t[i]) \/ (t[i] = Dot /\ is_number(At(t, i + 1))) -> "number"
      [] t[i] = Quote \/ (t[i] = Less /\ InInclude(t, i, before)) -> "string"
      [] t[i] = Tick     -> "char"
      [] t[i] = Slash /\ At(t, i + 1) \in {Slash, Star} -> "comment"
      [] OTHER -> "symbol"

End(t, i, kind) ==
    CASE kind = "blank"   -> i
      [] kind = "word"    -> RunEnd(t, i, is_alphanumeric)
      [] kind = "number"  -> NumberEnd(t, i)
      [] kind = "string"  -> QuoteEnd(t, i, IF t[i] = Less THEN Greater ELSE Quote)
      [] kind = "char"    -> QuoteEnd(t, i, Tick)
      [] kind = "comment" -> IF t[i + 1] = Slash THEN RunEnd(t, i, LAMBDA c : c # NL)
                             ELSE Least({j \in i + 3 .. Len(t) : SubSeq(t, j - 1, j) = <<Star, Slash>>})
      [] OTHER            -> Longest({j \in i .. Len(t) : SubSeq(t, i, j) \in Symbols})

(* The lexemes from i on, behind those before; one without an end is last. *)
RECURSIVE Lexemes(_, _, _)
Lexemes(t, i, before) ==
    IF i > Len(t) THEN before
    ELSE LET kind == Kind(t, i, before)
             end  == End(t, i, kind)
             from == IF before = <<>> THEN 1 ELSE Last(before).end
             this == [kind |-> kind, at |-> i, end |-> end, text |-> SubSeq(t, i, end),
                      first |-> before = <<>> \/ NL \in ToSet(SubSeq(t, from, i))]
         IN  IF end = 0 THEN Append(before, this)
             ELSE Lexemes(t, end + 1, IF kind = "blank" THEN before ELSE Append(before, this))
--------------------------------------------------------------------------------
(* The readings of a number, <<type, value, flags>>: none if C has no such *)
(* number.  A fraction stands as its digits, how many of them are behind   *)
(* the point, and the exponent; a long double has the flag of a double.    *)
DigitsOf(s, base) == All(s, LAMBDA c : Digit(c) < base)
Value(s, base) == FoldLeft(LAMBDA v, c : v * base + Digit(c), 0, s)

IntSuffix(s) ==
    /\ All(s, LAMBDA c : IsU(c) \/ IsL(c))
    /\ Len(SelectSeq(s, IsU)) <= 1 /\ Len(SelectSeq(s, IsL)) <= 2
    /\ ~(Len(s) = 3 /\ IsU(s[2]))

CBase(s) == IF At(s, 1) # 48 THEN 10
            ELSE IF IsX(At(s, 2)) THEN 16 ELSE IF IsB(At(s, 2)) THEN 2 ELSE 8

CInts(s) ==
    LET base   == CBase(s)
        digits == IF base \in {16, 2} THEN From(s, 3) ELSE s
    IN  {<<"integer", Value(SubSeq(digits, 1, n), base),
           [is_unsigned |-> \E i \in n + 1 .. Len(digits) : IsU(digits[i]),
            long |-> \E i \in n + 1 .. Len(digits) : IsL(digits[i])]>> :
         n \in {k \in 1 .. Len(digits) : /\ DigitsOf(SubSeq(digits, 1, k), base)
                                         /\ IntSuffix(From(digits, k + 1))}}

CFloats(s) ==
    LET hex    == At(s, 1) = 48 /\ IsX(At(s, 2))
        base   == IF hex THEN 16 ELSE 10
        single == s # <<>> /\ IsF(Last(s)) /\ (hex => \E i \in DOMAIN s : IsP(s[i]))
        suffix == IF single \/ (s # <<>> /\ IsL(Last(s))) THEN 1 ELSE 0
        body   == SubSeq(s, IF hex THEN 3 ELSE 1, Len(s) - suffix)
        exps   == {i \in DOMAIN body : IF hex THEN IsP(body[i]) ELSE IsE(body[i])}
        mant   == IF exps = {} THEN body ELSE SubSeq(body, 1, Min(exps) - 1)
        exp    == IF exps = {} THEN <<>> ELSE From(body, Min(exps) + 1)
        sign   == IF At(exp, 1) \in {Plus, Minus} THEN 1 ELSE 0
        digits == SelectSeq(mant, LAMBDA c : c # Dot)
        dots   == {i \in DOMAIN mant : mant[i] = Dot}
    IN  IF /\ digits # <<>> /\ DigitsOf(digits, base) /\ Cardinality(dots) <= 1
           /\ exps # {} \/ (dots # {} /\ ~hex)
           /\ exps # {} => Len(exp) > sign /\ DigitsOf(From(exp, sign + 1), 10)
        THEN {<<"float", [digits |-> Value(digits, base),
                          places |-> IF dots = {} THEN 0 ELSE Len(mant) - Min(dots),
                          exponent |-> Value(From(exp, sign + 1), 10)
                                       * (IF At(exp, 1) = Minus THEN -1 ELSE 1),
                          hex |-> hex], single>>}
        ELSE {}
--------------------------------------------------------------------------------
SimpleEscape == 97 :> 7 @@ 98 :> 8 @@ 101 :> 27 @@ 102 :> 12 @@ 110 :> 10 @@ 114 :> 13
                @@ 116 :> 9 @@ 118 :> 11 @@ 34 :> 34 @@ 39 :> 39 @@ 92 :> 92

(* The bytes of a literal, <<>> behind <<0>> if an escape is none of C's. *)
RECURSIVE Unescape(_)
Unescape(s) ==
    IF s = <<>> THEN <<>>
    ELSE IF s[1] # Backslash THEN <<s[1]>> \o Unescape(Tail(s))
    ELSE LET c == At(s, 2)
             Oct(x) == Digit(x) < 8
             n == IF Oct(c) THEN Min({4, RunEnd(s, 2, Oct)}) ELSE RunEnd(s, 3, is_hex_number)
         IN  IF c \in DOMAIN SimpleEscape THEN <<SimpleEscape[c]>> \o Unescape(From(s, 3))
             ELSE IF Oct(c) THEN <<Value(SubSeq(s, 2, n), 8)>> \o Unescape(From(s, n + 1))
             ELSE IF IsX(c) /\ n > 2 THEN <<Value(SubSeq(s, 3, n), 16)>> \o Unescape(From(s, n + 1))
             ELSE <<-1>>

Signed(byte) == IF byte >= 128 THEN byte - 256 ELSE byte

(* A constant of several characters has the value it has with most         *)
(* compilers.                                                              *)
CharValue(bytes) == IF Len(bytes) = 1 THEN Signed(bytes[1])
                    ELSE FoldLeft(LAMBDA v, b : v * 256 + b, 0, bytes)

(* The tokens a lexeme may stand for: one, none in a comment, and no token *)
(* at all, {}, if C has no such lexeme.                                    *)
CTokens(l) ==
    LET inside == SubSeq(l.text, 2, Len(l.text) - 1)
        bytes  == Unescape(inside)
        Token(type, value, flags) == <<[type |-> type, at |-> l.at, value |-> value, flags |-> flags]>>
    IN  IF l.end = 0 THEN {} ELSE
        CASE l.kind = "comment" -> {<<>>}
          [] l.kind = "number"  -> {Token(r[1], r[2], r[3]) : r \in CInts(l.text) \union CFloats(l.text)}
          [] l.kind = "string"  -> IF -1 \in ToSet(bytes) THEN {} ELSE {Token("string", bytes, <<>>)}
          [] l.kind = "char"    -> IF bytes = <<>> \/ -1 \in ToSet(bytes) THEN {}
                                   ELSE {Token("integer", CharValue(bytes),
                                               [is_unsigned |-> FALSE, long |-> FALSE])}
          [] OTHER              -> {Token(l.kind, l.text, <<>>)}
================================================================================
