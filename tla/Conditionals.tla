---------------------------- MODULE Conditionals ----------------------------
(***************************************************************************)
(* The directives of jitc_preprocess and the lines they keep.  Every call  *)
(* has a stack of its own for the #if sections of its file, #include makes *)
(* another call with the same table of macros and the same list of         *)
(* dependencies.  The source is chosen line by line by the environment:    *)
(* the value of a controlling expression may be anything, or be missing    *)
(* because computing it fails.                                             *)
(*                                                                         *)
(* What macros expand to is left out; that they are defined is not, as     *)
(* #ifdef depends on it.                                                   *)
(***************************************************************************)
EXTENDS Integers, Sequences

CONSTANTS
  Macros,    \* names that are defined, undefined and tested
  Forms,     \* lines beyond text, #if, #ifdef, #ifndef, #else and #endif
  MaxFiles,  \* bound: files that are open at a time
  MaxDepth,  \* bound: sections that are open in one file
  MaxGroups, \* bound: groups of one section
  MaxText    \* bound: lines of text kept

AllForms == {"elif", "elifkept", "elifdef", "define", "undef", "error", "depends", "include",
             "unknown", "expression", "unterminated", "skipped"}

ASSUME FormsAssumption == Forms \subseteq AllForms
ASSUME BoundAssumption == {MaxFiles, MaxDepth, MaxGroups, MaxText} \subseteq Nat

VARIABLES
  calls,   \* cond_stack of every call of jitc_preprocess, the first file first: of
           \* cond_t [state, has_else, start, tests], where start says whether it is
           \* a token and tests is a ghost, the conditions so far, TRUE for #else
  macros,  \* names that have a definition
  text,    \* number of lines of text passed on to the parser
  depends, \* a #depends has been noted
  result,  \* "running", "ok", or why the outermost call failed
  fault    \* a pointer that is none has been followed

vars == <<calls, macros, text, depends, result, fault>>

Init ==
  /\ calls = <<<<>>>>
  /\ macros = {}
  /\ text = 0
  /\ depends = FALSE
  /\ result = "running"
  /\ fault = FALSE

Running == result = "running" /\ ~fault

File == Len(calls)
Stack == calls[File]
Top == Stack[Len(Stack)]
Open == Stack # <<>>

do_things == Open => Top.state = "Expanding"

\* Lines that C does not look at in a skipped group, and the code does, are the
\* form "skipped".  The condition of an #elif C does look at until a group is kept.
Looked == do_things \/ "skipped" \in Forms
LookedElif == Looked \/ (Open /\ Top.state = "WillExpand")

\* A throw ends this call and, as every caller tries, all the others.
Throw(why) ==
  /\ result' = why
  /\ calls' = <<>>
  /\ UNCHANGED <<macros, text, depends, fault>>

\* jitc_error_parser reads through the token it is given.
ThrowAt(token, why) ==
  IF token THEN Throw(why) ELSE fault' = TRUE /\ UNCHANGED <<calls, macros, text, depends, result>>

SetStack(s) == calls' = [calls EXCEPT ![File] = s]
SetTop(c) == SetStack([Stack EXCEPT ![Len(Stack)] = c])

-----------------------------------------------------------------------------
(* Lines that do something only in a group that is being expanded.         *)

Text ==
  /\ Running
  /\ do_things
  /\ text < MaxText
  /\ text' = text + 1
  /\ UNCHANGED <<calls, macros, depends, result, fault>>

Define(m) ==
  /\ Running
  /\ "define" \in Forms
  /\ macros' = IF do_things THEN macros \cup {m} ELSE macros
  /\ UNCHANGED <<calls, text, depends, result, fault>>

Undefine(m) ==
  /\ Running
  /\ "undef" \in Forms
  /\ macros' = IF do_things THEN macros \ {m} ELSE macros
  /\ UNCHANGED <<calls, text, depends, result, fault>>

Depends ==
  /\ Running
  /\ "depends" \in Forms
  /\ depends' = (depends \/ do_things)
  /\ UNCHANGED <<calls, macros, text, result, fault>>

\* Variant: the line is obeyed wherever it stands.
ErrorAnywhere ==
  /\ Running
  /\ "error" \in Forms
  /\ Throw("#error")

ErrorLine ==
  /\ Running
  /\ "error" \in Forms
  /\ do_things
  /\ Throw("#error")

\* jitc_include lexes the file and makes a call of jitc_preprocess for it; the
\* file may be missing or not lex.
Include ==
  /\ Running
  /\ "include" \in Forms
  /\ do_things
  /\ \/ /\ File < MaxFiles
        /\ calls' = Append(calls, <<>>)
        /\ UNCHANGED <<macros, text, depends, result, fault>>
     \/ Throw("#include")

\* Refused wherever it stands.
UnknownLine ==
  /\ Running
  /\ "unknown" \in Forms
  /\ Looked
  /\ Throw("Invalid preprocessor directive")

-----------------------------------------------------------------------------
(* Lines that open, continue and close a section.                          *)

\* Variant: a section in a skipped group is opened like any other.
OpenedAnywhere(pass, token) ==
  [state |-> IF pass THEN "Expanding" ELSE "WillExpand",
   has_else |-> FALSE, start |-> token, tests |-> <<pass>>]

Opened(pass, token) ==
  [state |-> IF ~do_things THEN "Expanded" ELSE IF pass THEN "Expanding" ELSE "WillExpand",
   has_else |-> FALSE, start |-> token, tests |-> <<pass>>]

Push(c) ==
  /\ Len(Stack) < MaxDepth
  /\ SetStack(Append(Stack, c))
  /\ UNCHANGED <<macros, text, depends, result, fault>>

\* The loop that reads the expression leaves token null: start is no token.
If(value) == Running /\ Push(Opened(value, FALSE))

Ifdef(m, negative) == Running /\ Push(Opened((m \in macros) # negative, TRUE))

\* The expression of an #if or #elif is computed in skipped groups as well.
BrokenExpression ==
  /\ Running
  /\ "expression" \in Forms
  /\ LookedElif
  /\ Throw("expression")

\* "elifkept" is an #elif after a group that is kept.
MoreGroups ==
  /\ Len(Top.tests) < MaxGroups
  /\ Top.state = "Expanding" => "elifkept" \in Forms

Elif(value) ==
  /\ Running
  /\ "elif" \in Forms
  /\ \/ ~Open /\ Throw("else without if")
     \/ Open /\ Top.has_else /\ ThrowAt(FALSE, "Duplicate else")
     \/ /\ Open /\ ~Top.has_else /\ MoreGroups
        /\ SetTop([Top EXCEPT
             !.state = IF @ = "Expanded" THEN @ ELSE IF value THEN "Expanding" ELSE "WillExpand",
             !.start = FALSE,
             !.tests = Append(@, value)])
        /\ UNCHANGED <<macros, text, depends, result, fault>>

\* map_find is given the name instead of its address, which compare_string
\* follows.
Elifdef ==
  /\ Running
  /\ "elifdef" \in Forms
  /\ LookedElif
  /\ IF Open THEN fault' = TRUE /\ UNCHANGED <<calls, macros, text, depends, result>>
             ELSE Throw("else without if")

\* Variant: a section in which a group has been expanded goes on with the next.
ElseState(s) == IF s = "Expanded" THEN "Expanded" ELSE "Expanding"

AfterElse(s) == IF s = "WillExpand" THEN "Expanding" ELSE "Expanded"

Else ==
  /\ Running
  /\ \/ ~Open /\ Throw("else without if")
     \/ Open /\ Top.has_else /\ ThrowAt(TRUE, "Duplicate else")
     \/ /\ Open /\ ~Top.has_else
        /\ SetTop([Top EXCEPT !.state = AfterElse(@),
                              !.has_else = TRUE,
                              !.tests = Append(@, TRUE)])
        /\ UNCHANGED <<macros, text, depends, result, fault>>

Endif ==
  /\ Running
  /\ \/ ~Open /\ Throw("endif without if")
     \/ /\ Open
        /\ SetStack(SubSeq(Stack, 1, Len(Stack) - 1))
        /\ UNCHANGED <<macros, text, depends, result, fault>>

EndOfFile ==
  /\ Running
  /\ \/ /\ "unterminated" \in Forms
        /\ Open
        /\ ThrowAt(Top.start, "Unterminated condition")
     \/ /\ ~Open
        /\ calls' = SubSeq(calls, 1, File - 1)
        /\ result' = IF File = 1 THEN "ok" ELSE result
        /\ UNCHANGED <<macros, text, depends, fault>>

\* The next unit, with a new table.
NextUnit ==
  /\ ~Running
  /\ ~fault
  /\ calls' = <<<<>>>>
  /\ macros' = {}
  /\ text' = 0
  /\ depends' = FALSE
  /\ result' = "running"
  /\ UNCHANGED fault

Undefined == fault /\ UNCHANGED vars

Inert ==
  \/ Text
  \/ \E m \in Macros : Define(m) \/ Undefine(m)
  \/ Depends
  \/ ErrorLine
  \/ Include
  \/ UnknownLine

Sections ==
  \/ \E value \in BOOLEAN : If(value) \/ Elif(value)
  \/ \E m \in Macros, negative \in BOOLEAN : Ifdef(m, negative)
  \/ BrokenExpression
  \/ Elifdef
  \/ Else
  \/ Endif

Next ==
  \/ Inert
  \/ Sections
  \/ EndOfFile
  \/ NextUnit
  \/ Undefined

Spec == Init /\ [][Next]_vars

-----------------------------------------------------------------------------
(* Properties.                                                             *)

\* What C says of a section: the group to be kept is the first whose condition
\* is true.  So the current group is kept if its condition is, and none before.
FirstTrue(tests) ==
  /\ tests[Len(tests)]
  /\ \A i \in 1..(Len(tests) - 1) : ~tests[i]

\* A group is kept if that holds of its section and of all around it.
Kept(s, d) == \A i \in 1..d : FirstTrue(s[i].tests)

\* In every open file, at every depth, the state of a section says "Expanding"
\* exactly for the group that C keeps.
KeepsFirstTrueGroup ==
  \A f \in 1..Len(calls) : \A d \in 1..Len(calls[f]) :
    calls[f][d].state = "Expanding" <=> Kept(calls[f], d)

\* A group is skipped if it or one around it, in an including file too, is not
\* the one to be kept.
Skipping == \E f \in 1..Len(calls) : ~Kept(calls[f], Len(calls[f]))

\* The section is in groups that are kept, and has none to keep yet.
Undecided ==
  /\ Open
  /\ \A f \in 1..(File - 1) : Kept(calls[f], Len(calls[f]))
  /\ Kept(Stack, Len(Stack) - 1)
  /\ \A i \in 1..Len(Top.tests) : ~Top.tests[i]

\* Where C looks at a line behind a skipped group as well: a second #else, the
\* condition of an #elif that counts, the end of the file.  The code reports some
\* of it at a token that is none, and at any #elifdef follows a wrong pointer.
Refused ==
  \/ Open /\ Top.has_else /\ (result' = "Duplicate else" \/ fault')
  \/ Undecided /\ (result' = "expression" \/ fault')
  \/ result' = "Unterminated condition" \/ (Open /\ ~Top.start /\ fault')

\* A line in a group that C skips has no effect beyond its file's sections,
\* however deep the group is nested and through however many files: it defines,
\* includes and passes on nothing, and the unit goes on.
SkippedIsInert ==
  [][Running /\ Skipping =>
       /\ UNCHANGED <<macros, text, depends>>
       /\ \/ /\ UNCHANGED <<result, fault>>
             /\ Len(calls') = Len(calls)
             /\ \A f \in 1..(File - 1) : calls'[f] = calls[f]
          \/ Refused]_vars

\* While a group is not decided, or is being expanded, everything around it, in
\* the files that include this one too, is being expanded.
Enclosed(f, d, g, e) == g < f \/ (g = f /\ e < d)

DecidedFromOutside ==
  \A f \in 1..Len(calls) : \A d \in 1..Len(calls[f]) :
    calls[f][d].state # "Expanded" =>
      \A g \in 1..f : \A e \in 1..Len(calls[g]) :
        Enclosed(f, d, g, e) => calls[g][e].state = "Expanding"
=============================================================================
