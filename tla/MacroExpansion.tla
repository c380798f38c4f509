---------------------------- MODULE MacroExpansion ----------------------------
(***************************************************************************)
(* The expansion of macros: process_identifier and expand.  A call of      *)
(* expand puts the arguments into the body and then rescans the result     *)
(* until a pass has expanded nothing.  What it hands to its caller is      *)
(* disabled.  The set of macros in use is shared by all the calls that are *)
(* under way.                                                              *)
(*                                                                         *)
(* A program is its macros and the line they are used in.  The text of a   *)
(* token is the name of a macro or parameter, a parenthesis, a comma, the  *)
(* end of the file, or something else.                                     *)
(***************************************************************************)
EXTENDS Integers, Sequences, FiniteSets, SequencesExt, FiniteSetsExt

CONSTANTS
  Programs,  \* macros and source
  Literal,   \* what __LINE__ and its like become
  Joined     \* the identifier that __ID__ makes of none or several

Rest == "..."  \* __VA_ARGS__ among the parameters and in bodies

VARIABLES
  program, \* [macros, source]
  calls,   \* the unit, and the calls of expand under way
  used,    \* used_macros
  phase    \* "expanding", "done", or "fault"

vars == <<program, calls, used, phase>>

Token(text) == [text |-> text, disabled |-> FALSE]

\* One call of expand for the macro: the token stream that is read, where, the one
\* that is written, and whether this pass has expanded anything.  The unit is
\* read once.
Call(macro, tokens) == [macro |-> macro, first |-> tokens, at |-> 1, second |-> <<>>, again |-> FALSE]
Unit == "unit"

Init ==
  /\ program \in Programs
  /\ calls = <<Call(Unit, [n \in DOMAIN program.source |-> Token(program.source[n])])>>
  /\ used = {}
  /\ phase = "expanding"

-----------------------------------------------------------------------------
(* Reading a stream.                                                       *)

Here == Last(calls)
InUnit == Len(calls) = 1
Reading == phase = "expanding" /\ Here.at <= Len(Here.first)
Current == Here.first[Here.at]

Macro(text) == program.macros[text]
IsMacro(text) == text \in DOMAIN program.macros

\* Variant: macros in use are expanded too.
ExpandableInUse(token) == IsMacro(token.text) /\ ~token.disabled

\* A token that process_identifier does not leave as it is.
Expandable(token) == IsMacro(token.text) /\ token.text \notin used /\ ~token.disabled

Is(s, n, text) == n \in DOMAIN s /\ s[n].text = text

Number(s, from, to, text) == Cardinality({n \in from..to : s[n].text = text})

\* Parentheses that are open before n, from a position on.
Depth(s, from, n) == Number(s, from, n - 1, "(") - Number(s, from, n - 1, ")")

\* Variant: the first parenthesis closes.
FirstClosing(s, from) == Min({n \in from..Len(s) : s[n].text \in {"eof", ")"}} \cup {Len(s) + 1})

\* Where the list of arguments that begins at a position is closed, or ends
\* for want of more.
Closing(s, from) ==
  Min({n \in from..Len(s) : s[n].text = "eof" \/ (s[n].text = ")" /\ Depth(s, from, n) = 0)} \cup {Len(s) + 1})

\* The commas that separate arguments: __VA_ARGS__ takes the rest with its commas.
Commas(s, from, params) ==
  LET all == {n \in from..(Closing(s, from) - 1) : s[n].text = "," /\ Depth(s, from, n) = 0}
      before == IF params # <<>> /\ Last(params) = Rest THEN Len(params) - 1 ELSE Cardinality(all)
  IN {n \in all : Cardinality({m \in all : m < n}) < before}

\* Arguments by parameter: one too many is dropped, one that is missing is not there.
Arguments(s, from, params) ==
  LET commas == Commas(s, from, params)
      ends == Append(SetToSortSeq(commas, <), Closing(s, from))
      starts == <<from>> \o [n \in 1..Cardinality(commas) |-> ends[n] + 1]
      Index(p) == CHOOSE n \in DOMAIN params : params[n] = p
  IN [p \in {params[n] : n \in DOMAIN params \cap DOMAIN ends} |->
        SubSeq(s, starts[Index(p)], ends[Index(p)] - 1)]

\* After the arguments.
Behind(s, from) == IF Is(s, Closing(s, from), ")") THEN Closing(s, from) + 1 ELSE Closing(s, from)

\* What a token of the body becomes: __VA_ARGS__ without an argument is nothing, and
\* what __VA_OPT__ encloses is taken as it is when there is something for __VA_ARGS__.
Becomes(token, arguments) ==
  CASE token.opt ->
         IF Rest \in DOMAIN arguments /\ arguments[Rest] # <<>> THEN <<Token(token.text)>> ELSE <<>>
    [] ~token.opt /\ token.text \in DOMAIN arguments -> arguments[token.text]
    [] ~token.opt /\ token.text \notin DOMAIN arguments ->
         IF token.text = Rest THEN <<>> ELSE <<Token(token.text)>>

Substituted(body, arguments) == FlattenSeq([n \in DOMAIN body |-> Becomes(body[n], arguments)])

-----------------------------------------------------------------------------
(* process_identifier.                                                     *)

\* What was read up to next is written as the tokens given.
Write(tokens, next, expanded) ==
  calls' = [calls EXCEPT ![Len(calls)].at = next, ![Len(calls)].second = @ \o tokens,
                         ![Len(calls)].again = @ \/ expanded]

\* Variant: a macro that is in use or disabled counts as expanded.
CopyCounts ==
  /\ Reading
  /\ ~Expandable(Current)
  /\ Write(<<Current>>, Here.at + 1, IsMacro(Current.text))
  /\ UNCHANGED <<program, used, phase>>

Copy ==
  /\ Reading
  /\ ~Expandable(Current)
  /\ Write(<<Current>>, Here.at + 1, FALSE)
  /\ UNCHANGED <<program, used, phase>>

Expanding(kind) == Reading /\ Expandable(Current) /\ Macro(Current.text).kind = kind

\* The macro is in use until its call of expand returns.
Enter(next, tokens) ==
  /\ calls' = Append([calls EXCEPT ![Len(calls)].at = next, ![Len(calls)].again = TRUE],
                     Call(Current.text, tokens))
  /\ used' = used \cup {Current.text}

ExpandObject ==
  /\ Expanding("object")
  /\ LET body == Macro(Current.text).body
     IN Enter(Here.at + 1, [n \in DOMAIN body |-> Token(body[n].text)])
  /\ UNCHANGED <<program, phase>>

Called == Is(Here.first, Here.at + 1, "(")

ExpandFunction ==
  /\ Expanding("function")
  /\ Called
  /\ Closing(Here.first, Here.at + 2) \in DOMAIN Here.first
  /\ LET macro == Macro(Current.text)
     IN Enter(Behind(Here.first, Here.at + 2),
              Substituted(macro.body, Arguments(Here.first, Here.at + 2, macro.params)))
  /\ UNCHANGED <<program, phase>>

\* scan_macro_args looks for the end of the file, which only the unit has.
Overrun ==
  /\ Expanding("function")
  /\ Called
  /\ Closing(Here.first, Here.at + 2) \notin DOMAIN Here.first
  /\ phase' = "fault"
  /\ UNCHANGED <<program, calls, used>>

\* A name without arguments is kept, and counts as expanded.
BareName ==
  /\ Expanding("function")
  /\ ~Called
  /\ Write(<<Current>>, Here.at + 1, TRUE)
  /\ UNCHANGED <<program, used, phase>>

\* __LINE__; __FILE__, __DATE__ and __TIME__ are alike.
ExpandLine ==
  /\ Expanding("line")
  /\ Write(<<Token(Literal)>>, Here.at + 1, TRUE)
  /\ UNCHANGED <<program, used, phase>>

\* The names that __ID__ joins are those that are not in parentheses, up to its own
\* or to the end, that of the file included.
IdEnd(s, from) ==
  Min({n \in from..Len(s) : s[n].text = ")" /\ Depth(s, from, n) = 0} \cup {Len(s) + 1})

BehindId(s, from) == Min({IdEnd(s, from) + 1, Len(s) + 1})

Joins(s, from) ==
  {n \in from..(IdEnd(s, from) - 1) : s[n].text \notin {"(", ")", ",", "eof"} /\ Depth(s, from, n) = 0}

ExpandId ==
  /\ Expanding("id")
  /\ Called
  /\ LET from == Here.at + 2
         names == Joins(Here.first, from)
     IN Write(<<Token(IF Cardinality(names) = 1 THEN Here.first[Min(names)].text ELSE Joined)>>,
              BehindId(Here.first, from), TRUE)
  /\ UNCHANGED <<program, used, phase>>

\* Without arguments the token that was looked at is written, and read again.
BareId ==
  /\ Expanding("id")
  /\ ~Called
  /\ IF Here.at + 1 \in DOMAIN Here.first
     THEN Write(<<Here.first[Here.at + 1]>>, Here.at + 1, TRUE) /\ UNCHANGED phase
     ELSE phase' = "fault" /\ UNCHANGED calls
  /\ UNCHANGED <<program, used>>

-----------------------------------------------------------------------------
(* The passes of expand.                                                   *)

AtEnd == phase = "expanding" /\ Here.at > Len(Here.first)

NextPass ==
  /\ AtEnd
  /\ ~InUnit
  /\ Here.again
  /\ calls' = [calls EXCEPT ![Len(calls)] = Call(Here.macro, Here.second)]
  /\ UNCHANGED <<program, used, phase>>

Return ==
  /\ AtEnd
  /\ ~InUnit
  /\ ~Here.again
  /\ LET callers == Front(calls)
         result == [n \in DOMAIN Here.second |-> [Here.second[n] EXCEPT !.disabled = TRUE]]
     IN calls' = [callers EXCEPT ![Len(callers)].second = @ \o result]
  /\ used' = used \ {Here.macro}
  /\ UNCHANGED <<program, phase>>

Finish ==
  /\ AtEnd
  /\ InUnit
  /\ phase' = "done"
  /\ UNCHANGED <<program, calls, used>>

Next ==
  \/ Copy \/ ExpandObject \/ ExpandFunction \/ Overrun \/ BareName \/ ExpandLine \/ ExpandId \/ BareId
  \/ NextPass \/ Return \/ Finish

Spec == Init /\ [][Next]_vars

\* jitc_preprocess is one call, which goes on while there is something to do.
FairSpec == Spec /\ WF_vars(Next)

-----------------------------------------------------------------------------
(* Properties.                                                             *)

\* No macro is expanded inside its own expansion, however the calls are nested and
\* however many passes they make; a macro is in use exactly as long as a call of
\* expand for it is under way.
NotInsideItself ==
  /\ used = {calls[n].macro : n \in 2..Len(calls)}
  /\ \A m, n \in 2..Len(calls) : calls[m].macro = calls[n].macro => m = n

\* The streams of a program as it is written.
Written ==
  {program.source} \cup
  {[n \in DOMAIN program.macros[name].body |-> program.macros[name].body[n].text] : name \in DOMAIN program.macros}

KindOf(text) == IF IsMacro(text) THEN Macro(text).kind ELSE "none"

\* The names of functions are written with a list of arguments, and __ID__, which can
\* make such a name, is not used.
CallsAreWritten ==
  \A s \in Written : \A n \in DOMAIN s :
    /\ KindOf(s[n]) = "function" => n < Len(s) /\ s[n + 1] = "("
    /\ KindOf(s[n]) # "id"

\* Expansion ends, whatever the macros say of each other and of themselves, where the
\* names of functions are called wherever they are written.
ExpansionEnds == CallsAreWritten ~> phase # "expanding"
=============================================================================
