-------------------------- MODULE MCMacroExpansion --------------------------
(***************************************************************************)
(* Instances of MacroExpansion, and the expansion that C defines.          *)
(***************************************************************************)
EXTENDS MacroExpansion, TLC

\* A body: some of its tokens enclosed by __VA_OPT__.
Body(texts, opts) == [n \in DOMAIN texts |-> [text |-> texts[n], opt |-> n \in opts]]
Object(texts) == [kind |-> "object", params |-> <<>>, body |-> Body(texts, {})]
Function(params, texts) == [kind |-> "function", params |-> params, body |-> Body(texts, {})]
Builtin(kind) == [kind |-> kind, params |-> <<>>, body |-> <<>>]

Variadic ==
  [kind |-> "function", params |-> <<"x", Rest>>, body |-> Body(<<"x", ",", Rest, "n">>, {2})]

Objects == {Object(<<"n">>), Object(<<"f", "n">>), Object(<<"g">>), Object(<<"g", "(", "h", ")">>), Object(<<"f", "(", "n", ")">>)}

Functions1 ==
  {Function(<<"x">>, <<"x", "x">>), Function(<<"x">>, <<"g", "(", "x", ")">>), Function(<<"x">>, <<"f", "(", "x", ")", "g">>),
   Function(<<"x">>, <<"h", "x">>), Function(<<"x">>, <<"g", "(", "x">>), Variadic}

\* f and g are objects or functions that name each other and themselves.
OfF == Objects \cup Functions1 \cup {Function(<<Rest>>, <<"g", "(", Rest, ")">>), Function(<<>>, <<"h">>)}
OfG == Objects \cup Functions1 \cup {Object(<<"__ID__", "(", "f", "(", "n", ")", ")">>), Object(<<"h", "__ID__">>), Object(<<"h", "__LINE__">>)}
OfH == {Object(<<"n">>), Object(<<"h", "g", "h">>), Function(<<"x", "y">>, <<"y", "g">>)}

Sources ==
  {<<"f">>, <<"f", "n">>, <<"f", "(", "h", ")", "n">>, <<"f", "(", "f", "(", "n", ")", ")">>, <<"f", "(", "n", ",", "h", ")">>,
   <<"f", "(", ")">>, <<"f", "(", "(", "n", ",", "g", ")", ")">>, <<"g", "f", "(", "n", ")">>, <<"f", "(", "n", ",", "n", ",", "g", ")">>,
   <<"f", "(", "n">>, <<"__ID__", "(", "f">>, <<"__ID__", "(", "n", "n", "f", "(", "g", ")", ")">>, <<"__ID__", "f">>}

MCPrograms ==
  {[macros |-> [f |-> f, g |-> g, h |-> h, __LINE__ |-> Builtin("line"), __ID__ |-> Builtin("id")],
    source |-> Append(s, "eof")] : f \in OfF, g \in OfG, h \in OfH, s \in Sources}

-----------------------------------------------------------------------------
(* Expansion in C, by hide sets: a token carries the macros it came from,  *)
(* arguments are expanded before they are put into the body, and what the  *)
(* body becomes is read again together with all that follows.              *)

Hiding(texts, names) == [n \in DOMAIN texts |-> [text |-> texts[n], hide |-> names]]
HidingMore(s, names) == [n \in DOMAIN s |-> [s[n] EXCEPT !.hide = @ \cup names]]

\* The arguments, of which the last takes the commas that are left, the parenthesis
\* that closes them and the tokens behind it.
RECURSIVE CArguments(_, _, _, _)
CArguments(s, depth, most, args) ==
  LET text == Head(s).text
      With(arg) == [args EXCEPT ![Len(args)] = arg]
      now == depth + (IF text = "(" THEN 1 ELSE IF text = ")" THEN -1 ELSE 0)
  IN IF text = ")" /\ depth = 0 THEN [args |-> args, close |-> Head(s), behind |-> Tail(s)]
     ELSE IF text = "," /\ depth = 0 /\ Len(args) < most THEN CArguments(Tail(s), 0, most, Append(args, <<>>))
     ELSE CArguments(Tail(s), now, most, With(Append(Last(args), Head(s))))

CBody(macro, args) ==
  LET Of(text) == {n \in DOMAIN macro.params \cap DOMAIN args : macro.params[n] = text}
      some == \E n \in Of(Rest) : args[n] # <<>>
      C(token) ==
        IF token.opt THEN IF some THEN Hiding(<<token.text>>, {}) ELSE <<>>
        ELSE IF Of(token.text) # {} THEN args[Min(Of(token.text))]
        ELSE IF token.text = Rest THEN <<>> ELSE Hiding(<<token.text>>, {})
  IN FlattenSeq([n \in DOMAIN macro.body |-> C(macro.body[n])])

RECURSIVE CExpand(_, _)
CExpand(macros, s) ==
  IF s = <<>> THEN <<>>
  ELSE
    LET name == Head(s).text
        hide == Head(s).hide
        macro == macros[name]
        call == CArguments(Tail(Tail(s)), 0, Len(macro.params), << <<>> >>)
        args == [n \in DOMAIN call.args |-> CExpand(macros, call.args[n])]
    IN IF name \notin DOMAIN macros \/ name \in hide THEN <<Head(s)>> \o CExpand(macros, Tail(s))
       ELSE CASE macro.kind = "line" -> Hiding(<<Literal>>, {}) \o CExpand(macros, Tail(s))
              [] macro.kind = "object" ->
                   CExpand(macros, HidingMore(CBody(macro, <<>>), hide \cup {name}) \o Tail(s))
              [] macro.kind = "function" ->
                   CExpand(macros, HidingMore(CBody(macro, args), (hide \cap call.close.hide) \cup {name}) \o call.behind)

Texts(s) == [n \in DOMAIN s |-> s[n].text]

InC == Texts(CExpand(program.macros, Hiding(program.source, {})))

\* Parentheses are closed where they are opened.
Balanced ==
  \A texts \in Written :
    LET s == Hiding(texts, {})
    IN Depth(s, 1, Len(s) + 1) = 0 /\ \A n \in DOMAIN s : Depth(s, 1, n) >= 0

\* Functions have as many arguments as parameters; __VA_ARGS__, which may be any
\* number of them, is handed on as __VA_ARGS__ only.
Supplied ==
  \A texts \in Written :
    LET s == Hiding(texts, {})
        Given(n) == 1 + Cardinality(Commas(s, n + 2, Macro(texts[n]).params))
        Needed(n) == Len(Macro(texts[n]).params)
    IN \A n \in DOMAIN s :
         KindOf(texts[n]) = "function" =>
           /\ IF Needed(n) = 0 THEN texts[n + 2] = ")" ELSE Given(n) = Needed(n)
           /\ Number(s, n + 2, Closing(s, n + 2) - 1, Rest) > 0 => Rest \in ToSet(Macro(texts[n]).params)

\* Names in arguments are at most those of objects that name no other macro.
PlainArguments ==
  \A texts \in Written :
    LET s == Hiding(texts, {})
    IN \A n \in DOMAIN s :
         Depth(s, 1, n) > 0 /\ IsMacro(texts[n]) =>
           /\ Macro(texts[n]).kind \in {"object", "line"}
           /\ \A m \in DOMAIN Macro(texts[n]).body : ~IsMacro(Macro(texts[n]).body[m].text)

\* Where functions are called with the arguments they need and the arguments name no
\* macro that leads to another, the tokens are those that C defines: arguments that
\* are expanded after they are put into the body, and results that are disabled for
\* good, come to the same.
AsInC ==
  phase = "done" /\ CallsAreWritten /\ Balanced /\ Supplied /\ PlainArguments => Texts(calls[1].second) = InC
=============================================================================
