-------------------------------- MODULE Lexer --------------------------------
(***************************************************************************)
(* The lexer: jitc_lex and the readings of numbers and escapes it uses.  A *)
(* step reads one character, or the last one again.  The text comes into   *)
(* being as it is read, from one of Alphabets, so that all texts of a      *)
(* length are run.  Rows and columns are one position, a file has no name, *)
(* and a float is kept exactly, as its digits, places and exponent.        *)
(***************************************************************************)
EXTENDS CLexemes, FiniteSets

CONSTANT Alphabets    \* records [begins, chars, length]: the texts that are run

VARIABLES phase,      \* "reading", "done" or "error"
          alphabet,   \* what the text is made of
          text,       \* code[0 .. ptr - 1]
          ahead,      \* code[ptr]
          no_increment, asterisk,
          parse_state, buffer, at,
          line,       \* first_token_on_line, preprocessor, include
          literal,    \* string_state
          number,     \* number_state; just_used_letter is never left set
          behind,     \* whether the byte behind the first of the buffer's is not 0
          tokens

vars == <<phase, alphabet, text, ahead, no_increment, asterisk, parse_state, buffer, at,
          line, literal, number, behind, tokens>>
--------------------------------------------------------------------------------
(* Digits of the base, then suffixes; of "0u" the suffix follows at once. *)
IntStep(r, c, base) ==
    IF r.bad THEN r
    ELSE IF r.any /\ IsU(c) THEN [r EXCEPT !.bad = r.is_unsigned, !.is_unsigned = TRUE, !.last_u = TRUE]
    ELSE IF r.any /\ IsL(c) THEN [r EXCEPT !.bad = (r.last_u /\ r.longs = 1) \/ r.longs = 2,
                                           !.longs = @ + 1, !.last_u = FALSE]
    ELSE IF r.is_unsigned \/ r.longs # 0 \/ Digit(c) >= base THEN [r EXCEPT !.bad = TRUE]
    ELSE [r EXCEPT !.any = TRUE, !.value = @ * base + Digit(c)]

try_parse_int(s) ==
    LET c     == At(s, 2)
        zero  == s[1] = 48
        base  == IF ~zero THEN 10 ELSE IF IsX(c) THEN 16 ELSE IF IsB(c) THEN 2
                 ELSE IF Digit(c) < 8 THEN 8 ELSE 10
        ptr   == IF base \in {16, 2} THEN 3 ELSE IF base = 8 THEN 2 ELSE 1
        known == ~zero \/ base # 10 \/ c = 0 \/ IsU(c) \/ IsL(c)
        r     == FoldLeft(LAMBDA x, y : IntStep(x, y, base),
                          [bad |-> FALSE, any |-> FALSE, value |-> 0, is_unsigned |-> FALSE,
                           last_u |-> FALSE, longs |-> 0], From(s, ptr))
    IN  IF known /\ ptr <= Len(s) /\ ~r.bad
        THEN {<<"integer", r.value, [is_unsigned |-> r.is_unsigned, long |-> r.longs # 0]>>} ELSE {}

FltStep(r, c, hex) ==
    LET base  == IF hex /\ r.state \in {"Integer", "Fraction"} THEN 16 ELSE 10
        valid == Digit(c) < base
        Add   == [r EXCEPT !.digits = @ * base + Digit(c)]
    IN  IF r.state = "bad" \/ r.single THEN [r EXCEPT !.state = "bad"]
        ELSE IF IsF(c) /\ r.state # "Integer" THEN [r EXCEPT !.single = TRUE]
        ELSE IF r.state = "Integer" /\ c = Dot THEN [r EXCEPT !.state = "Fraction"]
        ELSE IF r.state \in {"Integer", "Fraction"} /\ (IF hex THEN IsP(c) ELSE IsE(c))
             THEN [r EXCEPT !.state = "ExponentFirstChar"]
        ELSE IF r.state = "ExponentFirstChar" /\ c \in {Plus, Minus}
             THEN [r EXCEPT !.state = "ExponentFirstCharNoSign", !.neg_exp = c = Minus]
        ELSE IF ~valid THEN [r EXCEPT !.state = "bad"]
        ELSE CASE r.state = "Integer"  -> Add
               [] r.state = "Fraction" -> [Add EXCEPT !.places = @ + 1]
               [] OTHER -> [r EXCEPT !.state = "Exponent", !.exponent = @ * 10 + Digit(c)]

try_parse_flt(s) ==
    LET hex == s[1] = 48 /\ IsX(At(s, 2))
        r   == FoldLeft(LAMBDA x, y : FltStep(x, y, hex),
                        [state |-> "Integer", digits |-> 0, places |-> 0, exponent |-> 0,
                         neg_exp |-> FALSE, single |-> FALSE], From(s, IF hex THEN 3 ELSE 1))
    IN  IF /\ r.state \in (IF hex THEN {"Exponent"} ELSE {"Integer", "Fraction", "Exponent"})
           /\ hex => Len(s) > 2
        THEN {<<"float", [digits |-> r.digits, places |-> r.places, hex |-> hex,
                          exponent |-> IF r.neg_exp THEN -r.exponent ELSE r.exponent], r.single>>}
        ELSE {}

(* The bytes of a code point below 65536; of 0 none is appended. *)
encode_utf8(v) ==
    IF v = 0 THEN <<>>
    ELSE IF v < 128 THEN <<v>>
    ELSE IF v < 2048 THEN <<192 + (v \div 64), 128 + (v % 64)>>
    ELSE <<224 + (v \div 4096), 128 + ((v \div 64) % 64), 128 + (v % 64)>>

(* The first code point of a buffer, and how many bytes it has. *)
decode_utf8(s) ==
    LET b(i) == At(s, i) % 64
    IN  CASE At(s, 1) < 128 -> <<At(s, 1), 1>>
          [] At(s, 1) \in 192 .. 223 -> <<(s[1] % 32) * 64 + b(2), 2>>
          [] At(s, 1) \in 224 .. 239 -> <<(s[1] % 16) * 4096 + b(2) * 64 + b(3), 3>>
--------------------------------------------------------------------------------
Reading == phase = "reading" /\ (text # <<>> => Last(text) # 0)
Read    == IF no_increment THEN Last(text) ELSE ahead
c       == IF Read = 0 THEN NL ELSE Read

(* Mutant: the column goes on when a character is read again. *)
Here_counted == Len(text) + 1

Here == IF no_increment THEN Len(text) ELSE Len(text) + 1

LineStart == [first |-> TRUE, preprocessor |-> FALSE, include |-> FALSE]

(* Mutant: a line that includes goes on in the next one. *)
Line_include == IF c = NL THEN [line EXCEPT !.first = TRUE] ELSE line

Line == IF c = NL THEN LineStart ELSE line

InLine == [Line EXCEPT !.first = FALSE]

Chars(a, n) == IF n <= Len(a.begins) THEN {a.begins[n]}
               ELSE IF n <= a.length THEN a.chars \union {0} ELSE {0}

(* The head of the loop: the next character, or again the last one. *)
Advance ==
    /\ IF no_increment THEN UNCHANGED <<text, ahead>>
       ELSE /\ text' = Append(text, ahead)
            /\ ahead' \in (IF ahead = 0 THEN {0} ELSE Chars(alphabet, Len(text) + 2))
    /\ UNCHANGED alphabet

Step == Advance /\ no_increment' = FALSE
Stay == Advance /\ no_increment' = TRUE

Throw == /\ phase' = "error" /\ Step
         /\ UNCHANGED <<asterisk, parse_state, buffer, at, line, literal, number, behind, tokens>>

Goto(state) == parse_state' = state /\ UNCHANGED phase

mktoken(type, value, flags) ==
    tokens' = Append(tokens, [type |-> type, at |-> at, value |-> value, flags |-> flags])

str_append(bytes) ==
    /\ buffer' = buffer \o bytes
    /\ behind' = IF bytes = <<>> THEN behind ELSE Len(buffer \o bytes) > 1
--------------------------------------------------------------------------------
Comment ==
    /\ Reading /\ parse_state = "ParsingComment"
    /\ Step /\ line' = Line
    /\ Goto(IF c = NL THEN "Idle" ELSE parse_state)
    /\ UNCHANGED <<asterisk, buffer, at, literal, number, behind, tokens>>

MultilineComment ==
    /\ Reading /\ parse_state = "ParsingMultilineComment"
    /\ Step /\ line' = Line /\ asterisk' = (c = Star)
    /\ Goto(IF c = Slash /\ asterisk THEN "Idle" ELSE parse_state)
    /\ UNCHANGED <<buffer, at, literal, number, behind, tokens>>

(* What begins at c, with the character behind it in sight. *)
Begins ==
    CASE c = Quote \/ (Line.include /\ c = Less)    -> "ParsingStringLiteral"
      [] c = Tick                                   -> "ParsingCharLiteral"
      [] is_number(c) \/ (c = Dot /\ is_number(ahead')) -> "ParsingNumber"
      [] is_letter(c)                               -> "ParsingWord"
      [] OTHER                                      -> "ParsingSymbol"

Blank ==
    /\ Reading /\ parse_state = "Idle" /\ is_blank(c)
    /\ Step /\ line' = Line
    /\ UNCHANGED <<phase, asterisk, parse_state, buffer, at, literal, number, behind, tokens>>

Begin ==
    /\ Reading /\ parse_state = "Idle" /\ (is_symbol(c) \/ is_alphanumeric(c))
    /\ Advance /\ Goto(Begins)
    /\ no_increment' = (Begins \in {"ParsingWord", "ParsingNumber", "ParsingSymbol"})
    /\ buffer' = <<>> /\ at' = Here /\ line' = Line
    /\ literal' = [literal EXCEPT !.state = IF c = Tick THEN "CharStart" ELSE "None",
                                  !.angled = c = Less]
    /\ number' = [used_dot |-> FALSE, used_letter |-> FALSE]
    /\ UNCHANGED <<asterisk, behind, tokens>>

InvalidCodepoint ==
    /\ Reading /\ parse_state = "Idle" /\ ~(is_symbol(c) \/ is_alphanumeric(c) \/ is_blank(c))
    /\ Throw
--------------------------------------------------------------------------------
InLiteral(state) ==
    /\ Reading /\ parse_state \in {"ParsingStringLiteral", "ParsingCharLiteral"}
    /\ literal.state \in state

Inside(state) ==
    /\ literal' = [literal EXCEPT !.state = state]
    /\ line' = [InLine EXCEPT !.preprocessor = FALSE]
    /\ UNCHANGED <<asterisk, at, number, tokens>>

Closes == IF parse_state = "ParsingCharLiteral" THEN c = Tick
          ELSE c = IF literal.angled THEN Greater ELSE Quote

LiteralByte ==
    /\ InLiteral({"CharStart", "None"}) /\ ~Closes
    /\ Step /\ UNCHANGED <<phase, parse_state>>
    /\ IF c = Backslash THEN Inside("Backslash") /\ UNCHANGED <<buffer, behind>>
       ELSE Inside("None") /\ str_append(<<c>>)

EmptyChar == InLiteral({"CharStart"}) /\ Closes /\ Throw

Close ==
    /\ InLiteral({"None"}) /\ Closes
    /\ Step /\ Goto("Idle")
    /\ line' = [InLine EXCEPT !.preprocessor = FALSE]
    /\ UNCHANGED <<asterisk, buffer, at, literal, number, behind>>

StringLiteral == parse_state = "ParsingStringLiteral" /\ Close /\ mktoken("string", buffer, <<>>)

(* Behind the code point must be the terminator; an empty buffer has one   *)
(* byte of code point, 0, and behind it what an earlier one has left.      *)
OneCharacter == IF buffer = <<>> THEN ~behind ELSE Len(buffer) = decode_utf8(buffer)[2]

CharLiteral ==
    /\ parse_state = "ParsingCharLiteral"
    /\ IF OneCharacter
       THEN Close /\ mktoken("integer", Signed(decode_utf8(buffer)[1] % 256),
                             [is_unsigned |-> FALSE, long |-> FALSE])
       ELSE InLiteral({"None"}) /\ Closes /\ Throw

Escaped == SimpleEscape @@ Greater :> Greater @@ NL :> NL
DigitsOfEscape == 120 :> "Hex2" @@ 117 :> "Hex4" @@ 85 :> "Hex8"

Escape ==
    /\ InLiteral({"Backslash"})
    /\ \/ /\ c \in DOMAIN Escaped
          /\ Step /\ Inside("None") /\ str_append(<<Escaped[c]>>)
          /\ UNCHANGED <<phase, parse_state>>
       \/ /\ c \in DOMAIN DigitsOfEscape \/ Digit(c) < 8
          /\ IF Digit(c) < 8 THEN Stay ELSE Step
          /\ literal' = [literal EXCEPT !.num_digits = 0, !.value = 0,
                             !.state = IF Digit(c) < 8 THEN "Octal" ELSE DigitsOfEscape[c]]
          /\ line' = [InLine EXCEPT !.preprocessor = FALSE]
          /\ UNCHANGED <<phase, asterisk, parse_state, buffer, at, number, behind, tokens>>
       \/ c \notin DOMAIN Escaped \union DOMAIN DigitsOfEscape /\ Digit(c) >= 8 /\ Throw

Needed(state) == CASE state = "Octal" -> 3 [] state = "Hex2" -> 2
                   [] state = "Hex4" -> 4 [] state = "Hex8" -> 8 [] OTHER -> 1

(* A short octal escape ends with the first character that is no digit,    *)
(* which is taken with it.                                                 *)
EscapeDigit ==
    LET base  == IF literal.state = "Octal" THEN 8 ELSE 16
        digit == Digit(c) < base
        value == IF digit THEN literal.value * base + Digit(c) ELSE literal.value
        count == IF digit THEN literal.num_digits + 1 ELSE 3
    IN  /\ InLiteral({"Octal", "Hex2", "Hex4", "Hex8"})
        /\ IF ~digit /\ base = 16 THEN Throw
           ELSE /\ Step /\ UNCHANGED <<phase, asterisk, parse_state, at, number, tokens>>
                /\ line' = [InLine EXCEPT !.preprocessor = FALSE]
                /\ IF count = Needed(literal.state)
                   THEN /\ str_append(encode_utf8(value))
                        /\ literal' = [literal EXCEPT !.state = "None"]
                   ELSE /\ literal' = [literal EXCEPT !.num_digits = count, !.value = value]
                        /\ UNCHANGED <<buffer, behind>>
--------------------------------------------------------------------------------
Word ==
    /\ Reading /\ parse_state = "ParsingWord"
    /\ IF is_alphanumeric(c)
       THEN Step /\ str_append(<<c>>) /\ line' = InLine /\ UNCHANGED <<phase, parse_state, tokens>>
       ELSE /\ Stay /\ Goto("Idle") /\ mktoken("word", buffer, <<>>)
            /\ line' = [InLine EXCEPT !.preprocessor = FALSE,
                            !.include = @ \/ (buffer = Include /\ Line.preprocessor)]
            /\ UNCHANGED <<buffer, behind>>
    /\ UNCHANGED <<asterisk, at, literal, number>>

InNumber == \/ is_hex_number(c) \/ IsX(c) \/ IsU(c) \/ IsL(c)
            \/ c = Dot /\ ~number.used_dot
            \/ IsP(c) /\ ~number.used_letter

Number ==
    LET readings == IF try_parse_int(buffer) # {} THEN try_parse_int(buffer) ELSE try_parse_flt(buffer)
    IN  /\ Reading /\ parse_state = "ParsingNumber"
        /\ \/ /\ InNumber /\ Step /\ str_append(<<c>>)
              /\ number' = [used_dot |-> number.used_dot \/ c = Dot \/ IsP(c),
                            used_letter |-> number.used_letter \/ IsP(c)]
              /\ line' = [InLine EXCEPT !.preprocessor = FALSE]
              /\ UNCHANGED <<phase, asterisk, parse_state, at, literal, tokens>>
           \/ /\ ~InNumber /\ Stay /\ Goto("Idle")
              /\ \E r \in readings : mktoken(r[1], r[2], r[3])
              /\ line' = [InLine EXCEPT !.preprocessor = FALSE]
              /\ UNCHANGED <<asterisk, buffer, at, literal, number, behind>>
           \/ ~InNumber /\ readings = {} /\ Throw
--------------------------------------------------------------------------------
StartsWith(prefix) == {s \in Symbols : IsPrefix(prefix, s)}

(* Mutant: a symbol that is one already does not wait for a longer one. *)
Settled_first == buffer \in Symbols

(* The buffer is the symbol: no longer one begins with it, or none can. *)
Settled == buffer \in Symbols /\ (Cardinality(StartsWith(buffer)) = 1 \/ ~is_symbol(c))

EmitSymbol ==
    IF buffer[1] = Slash /\ Len(buffer) = 2 /\ buffer[2] \in {Slash, Star}
    THEN /\ Step /\ line' = Line /\ UNCHANGED tokens
         /\ Goto(IF buffer[2] = Slash THEN "ParsingComment" ELSE "ParsingMultilineComment")
    ELSE /\ Stay /\ Goto("Idle") /\ mktoken("symbol", buffer, <<>>)
         /\ line' = [InLine EXCEPT !.preprocessor = @ \/ (buffer = <<Hash>> /\ Line.first)]

Symbol ==
    /\ Reading /\ parse_state = "ParsingSymbol"
    /\ \/ /\ Settled \/ (buffer \in Symbols /\ StartsWith(Append(buffer, c)) = {})
          /\ EmitSymbol
          /\ UNCHANGED <<asterisk, buffer, at, literal, number, behind>>
       \/ /\ ~Settled /\ is_symbol(c) /\ StartsWith(buffer) # {}
          /\ buffer \in Symbols => StartsWith(Append(buffer, c)) # {}
          /\ Step /\ str_append(<<c>>) /\ line' = Line
          /\ UNCHANGED <<phase, asterisk, parse_state, at, literal, number, tokens>>
       \/ /\ buffer \notin Symbols /\ ~(is_symbol(c) /\ StartsWith(buffer) # {})
          /\ Throw

(* The end of the text; what has been begun and not ended is dropped. *)
Finish ==
    /\ phase = "reading" /\ text # <<>> /\ Last(text) = 0
    /\ phase' = "done" /\ mktoken("end", <<>>, <<>>)
    /\ UNCHANGED <<alphabet, text, ahead, no_increment, asterisk, parse_state, buffer, at,
                   line, literal, number, behind>>

Init ==
    /\ phase = "reading" /\ parse_state = "Idle" /\ line = LineStart
    /\ alphabet \in Alphabets /\ text = <<>> /\ ahead \in Chars(alphabet, 1)
    /\ no_increment = FALSE /\ asterisk = FALSE /\ buffer = <<>> /\ at = 0
    /\ literal = [state |-> "None", angled |-> FALSE, num_digits |-> 0, value |-> 0]
    /\ number = [used_dot |-> FALSE, used_letter |-> FALSE]
    /\ behind \in (IF Tick \in alphabet.chars THEN BOOLEAN ELSE {FALSE})
    /\ tokens = <<>>

Next == \/ Comment \/ MultilineComment \/ Blank \/ Begin \/ InvalidCodepoint
        \/ LiteralByte \/ EmptyChar \/ StringLiteral \/ CharLiteral \/ Escape \/ EscapeDigit
        \/ Word \/ Number \/ Symbol \/ Finish

Spec == Init /\ [][Next]_vars
--------------------------------------------------------------------------------
Code == IF text # <<>> /\ Last(text) = 0 THEN Front(text) ELSE text

(***************************************************************************)
(* The texts the lexer reads as C does.  Elsewhere it goes its own way: a  *)
(* comment with nothing in it goes on; 08 is a number, 0xp1 too; signs of  *)
(* exponents, hexadecimal fractions with an f, long double constants and   *)
(* what C takes into one malformed number are not read, nor constants of   *)
(* several characters; an escape has three octal or two hexadecimal        *)
(* digits, appends nothing for 0 and UTF-8 from 128 on; lines may end in   *)
(* literals; ".." is an error; and what the end of the text leaves open, a *)
(* literal or a comment, is dropped.                                       *)
(***************************************************************************)
PlainNumber(s) ==
    LET marks == {i \in DOMAIN s : s[i] = Dot \/ IsP(s[i])}
        hex   == IsX(At(s, 2))
    IN  /\ All(s, LAMBDA x : is_hex_number(x) \/ IsX(x) \/ IsU(x) \/ IsL(x) \/ IsP(x) \/ x = Dot)
        /\ \A i, j \in marks : i < j => s[i] = Dot /\ IsP(s[j])
        /\ ~(s[1] = 48 /\ DigitsOf(s, 10) /\ ~DigitsOf(s, 8))
        /\ hex => At(SelectSeq(s, LAMBDA x : x # Dot), 3) \notin {112, 80}
        /\ hex => \A i, j \in DOMAIN s : s[i] = Dot /\ IsF(s[j]) => j < i
        /\ CInts(s) = {} /\ CFloats(s) # {} => ~IsL(Last(s))

PlainEscape(s, i, string) ==
    LET octal == SubSeq(s, i + 1, Min({i + 3, Len(s)}))
        hexa  == SubSeq(s, i + 2, Min({i + 3, Len(s)}))
        Limited(v) == v > 0 /\ v < IF string THEN 128 ELSE 256
    IN  /\ s[i + 1] \notin {Greater, NL, 117, 85}
        /\ Digit(s[i + 1]) < 8 => DigitsOf(octal, 8) /\ Limited(Value(octal, 8))
        /\ IsX(s[i + 1]) /\ is_hex_number(At(s, i + 2)) =>
              DigitsOf(hexa, 16) /\ ~is_hex_number(At(s, i + 4)) /\ Limited(Value(hexa, 16))

PlainLexeme(l) ==
    LET s == l.text
        bytes == Unescape(SubSeq(s, 2, Len(s) - 1))
    IN  IF l.end = 0 THEN l.kind = "symbol" ELSE
        CASE l.kind = "comment" -> IF s[2] = Slash THEN Len(s) > 2 ELSE Len(s) > 4
          [] l.kind = "number" -> PlainNumber(s)
          [] l.kind \in {"string", "char"} ->
                /\ NL \notin ToSet(s)
                /\ \A i \in DOMAIN s : s[i] = Backslash => PlainEscape(s, i, l.kind = "string")
                /\ l.kind = "char" => Len(bytes) <= 1 \/ -1 \in ToSet(bytes)
          [] OTHER -> TRUE

Plain(ls) ==
    /\ \A i \in DOMAIN ls : PlainLexeme(ls[i])
    /\ \A i \in 1 .. Len(ls) - 1 :
          /\ ls[i].text = <<Dot>> => ls[i + 1].at > ls[i].end + 1 \/ Code[ls[i + 1].at] # Dot
          /\ ls[i].text = <<Hash>> /\ ls[i].first => ls[i + 1].kind # "symbol" \/ ls[i + 1].first

(* What the lexer makes of such a text are the tokens of C, or an error    *)
(* where C has none.                                                       *)
TokensAsInC ==
    LET ls == Lexemes(Code, 1, <<>>)
    IN  phase # "reading" /\ Plain(ls) =>
            IF \E i \in DOMAIN ls : CTokens(ls[i]) = {} THEN phase = "error"
            ELSE /\ phase = "done"
                 /\ Front(tokens) = FlattenSeq([i \in DOMAIN ls |-> CHOOSE t \in CTokens(ls[i]) : TRUE])

(* In every text: a token begins where the lexer says, words and symbols   *)
(* are what is written there, and no character of a word or a symbol       *)
(* belongs to another token.                                               *)
TokensLocated ==
    \A i \in DOMAIN tokens :
        LET t == tokens[i]
        IN  /\ i > 1 /\ t.type # "end" =>
                  t.at >= tokens[i - 1].at
                          + (IF tokens[i - 1].type \in {"word", "symbol"} THEN Len(tokens[i - 1].value) ELSE 1)
            /\ t.type \in {"word", "symbol"} => SubSeq(text, t.at, t.at + Len(t.value) - 1) = t.value
            /\ t.type = "float" => is_number(text[t.at]) \/ text[t.at] = Dot
            /\ t.type = "integer" => is_number(text[t.at]) \/ text[t.at] = Tick

(* In every text: `<` begins a name only in a line whose first token is #, *)
(* with the word include behind it.                                        *)
AngledInIncludes ==
    \A i \in DOMAIN tokens :
        tokens[i].type = "string" /\ text[tokens[i].at] = Less =>
            \E h, w \in 1 .. i - 1 :
                /\ h < w /\ tokens[h].value = <<Hash>> /\ tokens[w].value = Include
                /\ NL \notin ToSet(SubSeq(text, tokens[h].at, tokens[i].at))
                /\ h > 1 => NL \in ToSet(SubSeq(text, tokens[h - 1].at, tokens[h].at))
================================================================================
