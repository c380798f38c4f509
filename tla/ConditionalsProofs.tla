-------------------------- MODULE ConditionalsProofs --------------------------
(***************************************************************************)
(* Proofs about Conditionals, for all names and bounds: what the states of *)
(* sections stand for, in any nesting of sections and files.               *)
(*                                                                         *)
(* A section says with one of three states what all sections around it and *)
(* all its earlier groups have come to.  The invariant spells that out: of *)
(* a section that is not Expanded all around it are being expanded; where  *)
(* one is WillExpand no condition has held yet, where it is Expanding only *)
(* the last one has, and where it is Expanded either an earlier one has,   *)
(* or a section around it is in a group that C does not keep.              *)
(***************************************************************************)
EXTENDS Conditionals, SequenceTheorems, TLAPS

(* cond_t *)
Section == [state : {"WillExpand", "Expanding", "Expanded"}, has_else : BOOLEAN,
            start : BOOLEAN, tests : Seq(BOOLEAN) \ {<<>>}]

Outer(s, d) == \A i \in 1..(d - 1) : s[i].state = "Expanding"

Decided(s, d) == s[d].state # "Expanded" => Outer(s, d)

Means(s, d) ==
  /\ s[d].state = "Expanding" => FirstTrue(s[d].tests)
  /\ s[d].state = "WillExpand" => \A j \in 1..Len(s[d].tests) : ~s[d].tests[j]
  /\ s[d].state = "Expanded" =>
       \/ \E i \in 1..(d - 1) : ~FirstTrue(s[i].tests)
       \/ \E j \in 1..(Len(s[d].tests) - 1) : s[d].tests[j]

AllDecided(s) == \A d \in 1..Len(s) : Decided(s, d)
AllMean(s) == \A d \in 1..Len(s) : Means(s, d)

(* A file is only included from a group that is expanded. *)
IncludedInside(c) ==
  \A f \in 1..Len(c) : \A g \in 1..(f - 1) : \A e \in 1..Len(c[g]) :
    c[g][e].state = "Expanding"

Nested(c) ==
  /\ c \in Seq(Seq(Section))
  /\ IncludedInside(c)
  /\ \A f \in 1..Len(c) : AllDecided(c[f])

Meanings(c) == \A f \in 1..Len(c) : AllMean(c[f])

Nesting == Nested(calls) /\ (Running => calls # <<>>)

-------------------------------------------------------------------------------
(* Sections of one file.                                                   *)

(* What a section means rests on those around it and on itself only. *)
LEMMA Local ==
  ASSUME NEW s, NEW t, NEW d \in Nat, \A i \in 1..d : s[i] = t[i]
  PROVE  \A e \in 1..d : (Decided(s, e) <=> Decided(t, e)) /\ (Means(s, e) <=> Means(t, e))
<1> TAKE e \in 1..d
<1>1. e \in 1..d /\ \A i \in 1..(e - 1) : i \in 1..d
  OBVIOUS
<1>2. s[e] = t[e] /\ \A i \in 1..(e - 1) : s[i] = t[i]
  BY <1>1
<1>3. Decided(s, e) <=> Decided(t, e)
  BY <1>2 DEF Decided, Outer
<1>4. Means(s, e) <=> Means(t, e)
  BY <1>2 DEF Means
<1>5. QED
  BY <1>3, <1>4

(* If the group on top is expanded, so are all around it. *)
LEMMA AllExpanding ==
  ASSUME NEW s \in Seq(Section), AllDecided(s), s # <<>> => s[Len(s)].state = "Expanding"
  PROVE  \A e \in 1..Len(s) : s[e].state = "Expanding"
<1>1. CASE s = <<>>
  BY <1>1
<1>2. CASE s # <<>>
  <2>1. Len(s) \in Nat /\ Len(s) \in 1..Len(s)
    BY <1>2
  <2>2. Outer(s, Len(s))
    BY <1>2, <2>1 DEF AllDecided, Decided
  <2>3. QED
    BY <1>2, <2>1, <2>2 DEF Outer
<1>3. QED
  BY <1>1, <1>2

(* #if and its like: a section in a skipped group is Expanded at once. *)
LEMMA Pushed ==
  ASSUME NEW s \in Seq(Section), AllDecided(s), NEW c \in Section,
         s # <<>> /\ s[Len(s)].state # "Expanding" => c.state = "Expanded"
  PROVE  /\ Append(s, c) \in Seq(Section)
         /\ AllDecided(Append(s, c))
<1> DEFINE t == Append(s, c)
<1>1. /\ t \in Seq(Section) /\ Len(t) = Len(s) + 1 /\ Len(s) \in Nat
      /\ t[Len(s) + 1] = c /\ \A i \in 1..Len(s) : t[i] = s[i]
  BY AppendProperties
<1>2. \A d \in 1..Len(s) : Decided(t, d)
  BY <1>1, Local DEF AllDecided
<1>3. Decided(t, Len(s) + 1)
  <2>1. SUFFICES ASSUME c.state # "Expanded"
                 PROVE  Outer(t, Len(s) + 1)
    BY <1>1 DEF Decided
  <2>2. \A e \in 1..Len(s) : s[e].state = "Expanding"
    BY <2>1, AllExpanding
  <2>3. QED
    BY <1>1, <2>2 DEF Outer
<1>4. AllDecided(t)
  BY <1>1, <1>2, <1>3 DEF AllDecided
<1>5. QED
  BY <1>1, <1>4

(* #elif and #else: the section on top goes on, not from Expanded to       *)
(* another state. *)
LEMMA GoesOn ==
  ASSUME NEW s \in Seq(Section), AllDecided(s), s # <<>>, NEW c \in Section,
         s[Len(s)].state = "Expanded" => c.state = "Expanded"
  PROVE  LET t == [s EXCEPT ![Len(s)] = c]
         IN  /\ t \in Seq(Section) /\ Len(t) = Len(s)
             /\ \A i \in 1..Len(s) : t[i] = IF i = Len(s) THEN c ELSE s[i]
             /\ AllDecided(t)
<1> DEFINE t == [s EXCEPT ![Len(s)] = c]
<1>1. Len(s) \in Nat /\ Len(s) \in 1..Len(s)
  OBVIOUS
<1>2. /\ t \in Seq(Section) /\ Len(t) = Len(s)
      /\ \A i \in 1..Len(s) : t[i] = IF i = Len(s) THEN c ELSE s[i]
  BY <1>1, ExceptSeq
<1> HIDE DEF t
<1>3. \A i \in 1..(Len(s) - 1) : s[i] = t[i]
  BY <1>1, <1>2
<1>4. \A d \in 1..(Len(s) - 1) : Decided(t, d)
  <2>1. Len(s) - 1 \in Nat /\ \A d \in 1..(Len(s) - 1) : d \in 1..Len(s)
    BY <1>1
  <2>2. QED
    BY <1>3, <2>1, Local DEF AllDecided
<1>5. Decided(t, Len(s))
  <2>1. Decided(s, Len(s))
    BY <1>1 DEF AllDecided
  <2>2. QED
    BY <1>1, <1>2, <1>3, <2>1 DEF Decided, Outer
<1>6. AllDecided(t)
  BY <1>1, <1>2, <1>4, <1>5 DEF AllDecided
<1>7. QED
  BY <1>2, <1>6 DEF t

(* A sequence without its last element. *)
LEMMA Shorter ==
  ASSUME NEW S, NEW s \in Seq(S), s # <<>>
  PROVE  LET t == SubSeq(s, 1, Len(s) - 1)
         IN  t \in Seq(S) /\ Len(t) = Len(s) - 1 /\ \A i \in 1..(Len(s) - 1) : t[i] = s[i]
<1> DEFINE n == Len(s) - 1
           t == SubSeq(s, 1, n)
<1>1. 1 \in Int /\ n \in Int /\ n >= 0 /\ \A i \in 1..n : s[i] \in S
  OBVIOUS
<1> HIDE DEF n
<1>2. /\ t \in Seq(S) /\ Len(t) = IF 1 <= n THEN n - 1 + 1 ELSE 0
      /\ \A i \in 1..(n - 1 + 1) : t[i] = s[1 + i - 1]
  BY <1>1, SubSeqProperties
<1> HIDE DEF t
<1>3. t \in Seq(S) /\ Len(t) = n /\ \A i \in 1..n : t[i] = s[i]
  BY <1>1, <1>2
<1>4. QED
  BY <1>3 DEF t, n

(* #endif *)
LEMMA Popped ==
  ASSUME NEW s \in Seq(Section), AllDecided(s), s # <<>>
  PROVE  LET t == SubSeq(s, 1, Len(s) - 1)
         IN  /\ t \in Seq(Section) /\ Len(t) = Len(s) - 1
             /\ \A i \in 1..(Len(s) - 1) : t[i] = s[i]
             /\ AllDecided(t)
<1> DEFINE t == SubSeq(s, 1, Len(s) - 1)
<1>1. Len(s) \in Nat /\ Len(s) - 1 \in Nat /\ \A d \in 1..(Len(s) - 1) : d \in 1..Len(s)
  OBVIOUS
<1>2. t \in Seq(Section) /\ Len(t) = Len(s) - 1 /\ \A i \in 1..(Len(s) - 1) : t[i] = s[i]
  BY Shorter
<1> HIDE DEF t
<1>3. AllDecided(t)
  BY <1>1, <1>2, Local DEF AllDecided
<1>4. QED
  BY <1>2, <1>3 DEF t

-------------------------------------------------------------------------------
(* All open files.                                                         *)

(* A line that changes the sections of the file that is read. *)
LEMMA Replaced ==
  ASSUME NEW c, Nested(c), c # <<>>, NEW t \in Seq(Section), AllDecided(t)
  PROVE  LET u == [c EXCEPT ![Len(c)] = t]
         IN  /\ Nested(u) /\ u # <<>>
             /\ AllMean(t) /\ Meanings(c) => Meanings(u)
<1> DEFINE u == [c EXCEPT ![Len(c)] = t]
<1>1. c \in Seq(Seq(Section)) /\ Len(c) \in Nat /\ Len(c) \in 1..Len(c)
  BY DEF Nested
<1>2. /\ u \in Seq(Seq(Section)) /\ Len(u) = Len(c)
      /\ \A i \in 1..Len(c) : u[i] = IF i = Len(c) THEN t ELSE c[i]
  BY <1>1, ExceptSeq
<1> HIDE DEF u
<1>3. IncludedInside(u)
  <2>1. \A f \in 1..Len(c) : \A g \in 1..(f - 1) : g \in 1..Len(c) /\ u[g] = c[g]
    BY <1>1, <1>2
  <2>2. QED
    BY <1>2, <2>1 DEF Nested, IncludedInside
<1>4. \A f \in 1..Len(u) : AllDecided(u[f])
  BY <1>2 DEF Nested
<1>5. u # <<>>
  BY <1>1, <1>2
<1>6. AllMean(t) /\ Meanings(c) => Meanings(u)
  BY <1>2 DEF Meanings
<1>7. QED
  BY <1>2, <1>3, <1>4, <1>5, <1>6 DEF Nested, u

(* #include *)
LEMMA OneMore ==
  ASSUME NEW c, Nested(c), c # <<>>, \A e \in 1..Len(c[Len(c)]) : c[Len(c)][e].state = "Expanding"
  PROVE  /\ Nested(Append(c, <<>>)) /\ Append(c, <<>>) # <<>>
         /\ Meanings(c) => Meanings(Append(c, <<>>))
<1> DEFINE u == Append(c, <<>>)
<1>1. c \in Seq(Seq(Section)) /\ <<>> \in Seq(Section)
  BY DEF Nested
<1>2. /\ u \in Seq(Seq(Section)) /\ Len(u) = Len(c) + 1 /\ Len(c) \in Nat
      /\ u[Len(c) + 1] = <<>> /\ \A i \in 1..Len(c) : u[i] = c[i]
  BY <1>1, AppendProperties
<1> HIDE DEF u
<1>3. ASSUME NEW f \in 1..Len(u), NEW g \in 1..(f - 1)
      PROVE  \A e \in 1..Len(u[g]) : u[g][e].state = "Expanding"
  <2>1. g \in 1..Len(c) /\ u[g] = c[g] /\ Len(c) \in 1..Len(c)
    BY <1>2
  <2>2. CASE g = Len(c)
    BY <2>1, <2>2
  <2>3. CASE g < Len(c)
    <3>1. g \in 1..(Len(c) - 1)
      BY <1>2, <2>1, <2>3
    <3>2. QED
      BY <2>1, <3>1 DEF Nested, IncludedInside
  <2>4. QED
    BY <1>2, <2>1, <2>2, <2>3
<1>4. IncludedInside(u)
  BY <1>3 DEF IncludedInside
<1>5. Len(<<>>) = 0
  OBVIOUS
<1>6. \A f \in 1..Len(u) : AllDecided(u[f])
  <2>1. AllDecided(<<>>)
    BY <1>5 DEF AllDecided
  <2>2. \A f \in 1..Len(c) : AllDecided(c[f])
    BY DEF Nested
  <2>3. \A f \in 1..Len(u) : AllDecided(u[f])
    <3>1. \A f \in 1..Len(u) : f \in 1..Len(c) \/ f = Len(c) + 1
      BY <1>2
    <3>2. QED
      BY <1>2, <2>1, <2>2, <3>1, Zenon
  <2>4. QED
    BY <2>3
<1>7. Meanings(c) => Meanings(u)
  <2>1. AllMean(<<>>)
    BY <1>5 DEF AllMean
  <2>2. ASSUME Meanings(c)
        PROVE  \A f \in 1..Len(u) : AllMean(u[f])
    <3>1. \A f \in 1..Len(u) : f \in 1..Len(c) \/ f = Len(c) + 1
      BY <1>2
    <3>2. \A f \in 1..Len(c) : AllMean(c[f])
      BY <2>2 DEF Meanings
    <3>3. QED
      BY <1>2, <2>1, <3>1, <3>2, Zenon
  <2>3. QED
    BY <2>2 DEF Meanings
<1>8. u # <<>>
  BY <1>2, <1>5
<1>9. QED
  BY <1>2, <1>4, <1>6, <1>7, <1>8 DEF Nested, u

(* The end of a file. *)
LEMMA Returned ==
  ASSUME NEW c, Nested(c), c # <<>>
  PROVE  LET u == SubSeq(c, 1, Len(c) - 1)
         IN  /\ Nested(u)
             /\ Len(u) = Len(c) - 1
             /\ Meanings(c) => Meanings(u)
<1> DEFINE u == SubSeq(c, 1, Len(c) - 1)
<1>1. c \in Seq(Seq(Section)) /\ Len(c) \in Nat
  BY DEF Nested
<1>2. u \in Seq(Seq(Section)) /\ Len(u) = Len(c) - 1 /\ \A i \in 1..(Len(c) - 1) : u[i] = c[i]
  BY <1>1, Shorter
<1> HIDE DEF u
<1>3. \A f \in 1..Len(u) : f \in 1..Len(c) /\ u[f] = c[f] /\ \A g \in 1..(f - 1) : u[g] = c[g]
  BY <1>1, <1>2
<1>4. IncludedInside(u)
  BY <1>3 DEF Nested, IncludedInside
<1>5. \A f \in 1..Len(u) : AllDecided(u[f])
  BY <1>3 DEF Nested
<1>6. Meanings(c) => Meanings(u)
  BY <1>3 DEF Meanings
<1>7. QED
  BY <1>2, <1>4, <1>5, <1>6 DEF Nested, u

(* Before the first line, and when a call has ended with an error. *)
LEMMA Fresh ==
  /\ Nested(<<>>) /\ Meanings(<<>>)
  /\ Nested(<<<<>>>>) /\ Meanings(<<<<>>>>) /\ <<<<>>>> # <<>>
<1>1. Len(<<>>) = 0 /\ <<>> \in Seq(Seq(Section)) /\ <<>> \in Seq(Section)
  OBVIOUS
<1>2. Nested(<<>>) /\ Meanings(<<>>)
  BY <1>1 DEF Nested, IncludedInside, Meanings
<1>3. <<<<>>>> \in Seq(Seq(Section)) /\ Len(<<<<>>>>) = 1 /\ <<<<>>>>[1] = <<>> /\ <<<<>>>> # <<>>
  BY <1>1
<1>4. AllDecided(<<>>) /\ AllMean(<<>>)
  BY <1>1 DEF AllDecided, AllMean
<1>5. Nested(<<<<>>>>) /\ Meanings(<<<<>>>>)
  BY <1>1, <1>3, <1>4 DEF Nested, IncludedInside, Meanings
<1>6. QED
  BY <1>2, <1>3, <1>5

-------------------------------------------------------------------------------
(* What a step does to the open files.                                     *)

(* The section c on top becomes d: what #elif and #else make of it. *)
Continued(c, d) ==
  \E value \in BOOLEAN :
    /\ d.tests = Append(c.tests, value)
    /\ c.state = "Expanded" => d.state = "Expanded"
    /\ c.state = "WillExpand" => d.state = IF value THEN "Expanding" ELSE "WillExpand"
    /\ c.state = "Expanding" => d.state = "Expanded" \/ "elifkept" \in Forms

Stays == calls' = calls /\ (Running' => Running)
Ends == calls' = <<>> /\ ~Running'
Starts == calls' = <<<<>>>>
Includes == do_things /\ calls' = Append(calls, <<>>)
Returns == calls' = SubSeq(calls, 1, File - 1) /\ (Running' => File # 1)
Opens == \E pass, token \in BOOLEAN : SetStack(Append(Stack, Opened(pass, token)))
GoesOnWith(c) == Open /\ SetTop(c) /\ Continued(Top, c)
Closes == Open /\ SetStack(SubSeq(Stack, 1, Len(Stack) - 1))

(* Every action does one of these. *)
Moves ==
  \/ Stays \/ Ends \/ Starts
  \/ Running /\ (Includes \/ Returns \/ Opens \/ (\E c \in Section : GoesOnWith(c)) \/ Closes)

(* The stack of the file that is read, and the section on top of it. *)
LEMMA Current ==
  ASSUME Nesting, Running
  PROVE  /\ calls # <<>> /\ Nested(calls) /\ File \in 1..Len(calls)
         /\ Stack \in Seq(Section) /\ AllDecided(Stack)
         /\ Open => Len(Stack) \in 1..Len(Stack) /\ Top \in Section
<1>1. calls # <<>> /\ Nested(calls) /\ calls \in Seq(Seq(Section))
  BY DEF Nesting, Nested
<1>2. File \in 1..Len(calls)
  BY <1>1 DEF File
<1>3. Stack \in Seq(Section) /\ AllDecided(Stack)
  BY <1>1, <1>2 DEF Stack, Nested
<1>4. Open => Len(Stack) \in 1..Len(Stack) /\ Top \in Section
  BY <1>3 DEF Open, Top
<1>5. QED
  BY <1>1, <1>2, <1>3, <1>4

(* An error ends all calls, or runs into a null token. *)
LEMMA Thrown ==
  ASSUME NEW token \in BOOLEAN, NEW why, why # "running", ThrowAt(token, why)
  PROVE  Stays \/ Ends
BY DEF ThrowAt, Throw, Stays, Ends, Running

LEMMA ElifMoves ==
  ASSUME Nesting, NEW value \in BOOLEAN, Elif(value)
  PROVE  Moves
<1> USE DEF Moves
<1>1. Running
  BY DEF Elif
<1>2. CASE ~Open /\ Throw("else without if")
  BY <1>2 DEF Throw, Ends, Running
<1>3. CASE Open /\ Top.has_else /\ ThrowAt(FALSE, "Duplicate else")
  BY <1>3, Thrown
<1>4. CASE Open /\ ~Top.has_else /\ MoreGroups
           /\ SetTop([Top EXCEPT
                !.state = IF @ = "Expanded" THEN @ ELSE IF value THEN "Expanding" ELSE "WillExpand",
                !.start = FALSE, !.tests = Append(@, value)])
  <2> DEFINE d == [Top EXCEPT
                !.state = IF @ = "Expanded" THEN @ ELSE IF value THEN "Expanding" ELSE "WillExpand",
                !.start = FALSE, !.tests = Append(@, value)]
  <2>1. Top \in Section
    BY <1>1, <1>4, Current
  <2>2. Append(Top.tests, value) \in Seq(BOOLEAN) \ {<<>>}
    BY <2>1, AppendProperties DEF Section
  <2>3. d \in Section
    BY <2>1, <2>2 DEF Section
  <2>4. Continued(Top, d)
    BY <1>4, <2>1 DEF Continued, MoreGroups, Section
  <2>5. GoesOnWith(d)
    BY <1>4, <2>4 DEF GoesOnWith
  <2>6. QED
    BY <1>1, <2>3, <2>5
<1>5. QED
  BY <1>2, <1>3, <1>4 DEF Elif

LEMMA ElseMoves ==
  ASSUME Nesting, Else
  PROVE  Moves
<1> USE DEF Moves
<1>1. Running
  BY DEF Else
<1>2. CASE ~Open /\ Throw("else without if")
  BY <1>2 DEF Throw, Ends, Running
<1>3. CASE Open /\ Top.has_else /\ ThrowAt(TRUE, "Duplicate else")
  BY <1>3, Thrown
<1>4. CASE Open /\ ~Top.has_else
           /\ SetTop([Top EXCEPT !.state = AfterElse(@), !.has_else = TRUE, !.tests = Append(@, TRUE)])
  <2> DEFINE d == [Top EXCEPT !.state = AfterElse(@), !.has_else = TRUE, !.tests = Append(@, TRUE)]
  <2>1. Top \in Section
    BY <1>1, <1>4, Current
  <2>2. Append(Top.tests, TRUE) \in Seq(BOOLEAN) \ {<<>>}
    BY <2>1, AppendProperties DEF Section
  <2>3. d \in Section
    BY <2>1, <2>2 DEF Section, AfterElse
  <2>4. /\ d.tests = Append(Top.tests, TRUE)
        /\ Top.state = "WillExpand" => d.state = "Expanding"
        /\ Top.state # "WillExpand" => d.state = "Expanded"
    BY <2>1 DEF AfterElse, Section
  <2>5. GoesOnWith(d)
    BY <1>4, <2>4 DEF GoesOnWith, Continued
  <2>6. QED
    BY <1>1, <2>3, <2>5
<1>5. QED
  BY <1>2, <1>3, <1>4 DEF Else

LEMMA StepMoves ==
  ASSUME Nesting, [Next]_vars
  PROVE  Moves
<1> USE DEF Moves
<1>1. CASE Text
  BY <1>1 DEF Text, Stays, Running
<1>2. ASSUME NEW m \in Macros, Define(m) \/ Undefine(m)
      PROVE  Moves
  BY <1>2 DEF Define, Undefine, Stays, Running
<1>3. CASE Depends
  BY <1>3 DEF Depends, Stays, Running
<1>4. CASE ErrorLine
  BY <1>4 DEF ErrorLine, Throw, Ends, Running
<1>5. CASE Include
  BY <1>5 DEF Include, Throw, Ends, Includes, Running
<1>6. CASE UnknownLine
  BY <1>6 DEF UnknownLine, Throw, Ends, Running
<1>7. ASSUME NEW value \in BOOLEAN, If(value)
      PROVE  Moves
  BY <1>7 DEF If, Push, Opens
<1>8. ASSUME NEW m \in Macros, NEW negative \in BOOLEAN, Ifdef(m, negative)
      PROVE  Moves
  <2>1. ((m \in macros) # negative) \in BOOLEAN
    OBVIOUS
  <2>2. QED
    BY <1>8, <2>1 DEF Ifdef, Push, Opens
<1>9. CASE BrokenExpression
  BY <1>9 DEF BrokenExpression, Throw, Ends, Running
<1>10. CASE Elifdef
  BY <1>10 DEF Elifdef, Throw, Ends, Stays, Running
<1>11. CASE Endif
  BY <1>11 DEF Endif, Throw, Ends, Closes, Running
<1>12. CASE EndOfFile
  <2>1. CASE Open /\ ThrowAt(Top.start, "Unterminated condition")
    <3>1. Top.start \in BOOLEAN
      BY <1>12, <2>1, Current DEF EndOfFile, Section
    <3>2. QED
      BY <2>1, <3>1, Thrown
  <2>2. QED
    BY <1>12, <2>1 DEF EndOfFile, Returns, Running
<1>13. CASE NextUnit
  BY <1>13 DEF NextUnit, Starts
<1>14. CASE Undefined \/ UNCHANGED vars
  BY <1>14 DEF Undefined, vars, Stays, Running
<1>15. QED
  BY <1>1, <1>2, <1>3, <1>4, <1>5, <1>6, <1>7, <1>8, <1>9, <1>10, <1>11, <1>12, <1>13, <1>14,
     ElifMoves, ElseMoves DEF Next, Inert, Sections

-------------------------------------------------------------------------------
(* Whatever is open is nested: the first half of the invariant, which does *)
(* without the conditions.                                                 *)

LEMMA NestingStep ==
  ASSUME Nesting, [Next]_vars
  PROVE  Nesting'
<1>1. CASE Stays
  BY <1>1 DEF Stays, Nesting
<1>2. CASE Ends \/ Starts
  BY <1>2, Fresh DEF Ends, Starts, Nesting
<1>3. CASE Running /\ Includes
  <2>1. \A e \in 1..Len(Stack) : Stack[e].state = "Expanding"
    BY <1>3, Current, AllExpanding DEF Includes, do_things, Open, Top
  <2>2. QED
    BY <1>3, <2>1, Current, OneMore DEF Includes, Nesting, Stack, File
<1>4. CASE Running /\ Returns
  <2>1. Nested(calls') /\ Len(calls') = Len(calls) - 1
    BY <1>4, Current, Returned DEF Returns, File
  <2>2. Len(calls) \in Nat /\ (Running' => Len(calls) # 1 /\ Len(calls) # 0)
    BY <1>4, Current DEF Returns, File, Nested
  <2>3. Running' => calls' # <<>>
    BY <2>1, <2>2
  <2>4. QED
    BY <2>1, <2>3 DEF Nesting
<1>5. ASSUME Running, NEW t \in Seq(Section), AllDecided(t), SetStack(t)
      PROVE  Nesting'
  BY <1>5, Current, Replaced DEF SetStack, Nesting, File
<1>6. CASE Running /\ Opens
  <2>1. PICK pass \in BOOLEAN, token \in BOOLEAN : SetStack(Append(Stack, Opened(pass, token)))
    BY <1>6 DEF Opens
  <2>2. Opened(pass, token) \in Section
    <3>1. <<pass>> \in Seq(BOOLEAN) \ {<<>>}
      OBVIOUS
    <3>2. QED
      BY <3>1 DEF Opened, Section
  <2>3. Stack # <<>> /\ Stack[Len(Stack)].state # "Expanding" => Opened(pass, token).state = "Expanded"
    BY DEF Opened, do_things, Open, Top
  <2>4. Append(Stack, Opened(pass, token)) \in Seq(Section) /\ AllDecided(Append(Stack, Opened(pass, token)))
    BY <1>6, <2>2, <2>3, Current, Pushed
  <2>5. QED
    BY <1>5, <1>6, <2>1, <2>4
<1>7. ASSUME Running, NEW c \in Section, GoesOnWith(c)
      PROVE  Nesting'
  <2>1. Stack \in Seq(Section) /\ AllDecided(Stack) /\ Stack # <<>>
    BY <1>7, Current DEF GoesOnWith, Open
  <2>2. Stack[Len(Stack)].state = "Expanded" => c.state = "Expanded"
    BY <1>7 DEF GoesOnWith, Continued, Top
  <2>3. /\ [Stack EXCEPT ![Len(Stack)] = c] \in Seq(Section)
        /\ AllDecided([Stack EXCEPT ![Len(Stack)] = c])
    BY <2>1, <2>2, GoesOn
  <2>4. QED
    BY <1>5, <1>7, <2>3 DEF GoesOnWith, SetTop
<1>8. CASE Running /\ Closes
  <2>1. Stack \in Seq(Section) /\ AllDecided(Stack) /\ Stack # <<>>
    BY <1>8, Current DEF Closes, Open
  <2>2. SubSeq(Stack, 1, Len(Stack) - 1) \in Seq(Section) /\ AllDecided(SubSeq(Stack, 1, Len(Stack) - 1))
    BY <2>1, Popped
  <2>3. QED
    BY <1>5, <1>8, <2>2 DEF Closes
<1>9. QED
  BY <1>1, <1>2, <1>3, <1>4, <1>6, <1>7, <1>8, StepMoves DEF Moves

LEMMA NestingInit == Init => Nesting
BY Fresh DEF Init, Nesting

(* Nesting holds at all times: sections and files are only opened inside   *)
(* what is decided. *)
THEOREM NestingInvariance == Spec => []Nesting
<1>1. Nesting /\ [Next]_vars => Nesting'
  BY NestingStep
<1>2. QED
  BY NestingInit, <1>1, PTL DEF Spec

(* A section that is not decided, or is being expanded, has only such      *)
(* around it as are being expanded, in the files that include this one     *)
(* too: skipped text cannot begin to count, for all names, forms and       *)
(* bounds, an #elif behind a kept group included. *)
THEOREM GroupsDecidedFromOutside == Spec => []DecidedFromOutside
<1>1. Nesting => DecidedFromOutside
  <2> SUFFICES ASSUME Nesting,
                      NEW f \in 1..Len(calls), NEW d \in 1..Len(calls[f]), calls[f][d].state # "Expanded",
                      NEW g \in 1..f, NEW e \in 1..Len(calls[g]), Enclosed(f, d, g, e)
               PROVE  calls[g][e].state = "Expanding"
    BY DEF DecidedFromOutside
  <2>1. calls \in Seq(Seq(Section)) /\ Len(calls) \in Nat /\ calls[f] \in Seq(Section)
    BY DEF Nesting, Nested
  <2>2. CASE g < f
    <3>1. g \in 1..(f - 1)
      BY <2>1, <2>2
    <3>2. QED
      BY <3>1 DEF Nesting, Nested, IncludedInside
  <2>3. CASE g = f /\ e < d
    <3>1. Outer(calls[f], d)
      BY DEF Nesting, Nested, AllDecided, Decided
    <3>2. e \in 1..(d - 1)
      BY <2>1, <2>3
    <3>3. QED
      BY <2>3, <3>1, <3>2 DEF Outer
  <2>4. QED
    BY <2>2, <2>3 DEF Enclosed
<1>2. QED
  BY NestingInvariance, <1>1, PTL

-------------------------------------------------------------------------------
(* What the states mean: the second half, where no #elif follows a group   *)
(* that is kept.                                                           *)

(* A new section has one condition, and does not begin to mean anything if *)
(* what is around it is skipped. *)
LEMMA PushedMeans ==
  ASSUME NEW s \in Seq(Section), AllMean(s), NEW c, NEW pass \in BOOLEAN, c.tests = <<pass>>,
         s # <<>> /\ s[Len(s)].state # "Expanding" => c.state = "Expanded",
         s = <<>> \/ s[Len(s)].state = "Expanding"
            => c.state = IF pass THEN "Expanding" ELSE "WillExpand"
  PROVE  AllMean(Append(s, c))
<1> DEFINE t == Append(s, c)
           n == Len(s)
<1>1. n \in Nat /\ Len(t) = n + 1 /\ t[n + 1] = c /\ \A i \in 1..n : t[i] = s[i]
  BY AppendProperties
<1> HIDE DEF t
<1>2. \A d \in 1..n : Means(t, d)
  BY <1>1, Local DEF AllMean
<1>3. Len(c.tests) = 1 /\ c.tests[1] = pass
  OBVIOUS
<1>4. ASSUME s = <<>> \/ s[n].state = "Expanding"
      PROVE  Means(t, n + 1)
  <2>1. c.state = "Expanding" => FirstTrue(c.tests)
    BY <1>3, <1>4 DEF FirstTrue
  <2>2. c.state = "WillExpand" => \A j \in 1..Len(c.tests) : ~c.tests[j]
    BY <1>3, <1>4
  <2>3. c.state # "Expanded"
    BY <1>4
  <2>4. QED
    BY <1>1, <2>1, <2>2, <2>3 DEF Means
<1>5. ASSUME s # <<>> /\ s[n].state # "Expanding"
      PROVE  Means(t, n + 1)
  <2>1. n \in 1..n /\ s[n] \in Section
    BY <1>5
  <2>2. \E i \in 1..n : ~FirstTrue(s[i].tests)
    <3>1. CASE s[n].state = "WillExpand"
      <4>1. s[n].tests \in Seq(BOOLEAN) \ {<<>>}
        BY <2>1 DEF Section
      <4>2. Len(s[n].tests) \in 1..Len(s[n].tests)
        BY <4>1
      <4>3. ~s[n].tests[Len(s[n].tests)]
        BY <2>1, <3>1, <4>2 DEF AllMean, Means
      <4>4. QED
        BY <2>1, <4>3 DEF FirstTrue
    <3>2. CASE s[n].state = "Expanded"
      <4>1. \/ \E i \in 1..(n - 1) : ~FirstTrue(s[i].tests)
            \/ \E j \in 1..(Len(s[n].tests) - 1) : s[n].tests[j]
        BY <2>1, <3>2 DEF AllMean, Means
      <4>2. QED
        BY <1>1, <2>1, <4>1 DEF FirstTrue
    <3>3. QED
      BY <1>5, <2>1, <3>1, <3>2 DEF Section
  <2>3. \E i \in 1..n : ~FirstTrue(t[i].tests)
    BY <1>1, <2>2
  <2>4. t[n + 1].state = "Expanded" /\ 1..(n + 1 - 1) = 1..n
    BY <1>1, <1>5
  <2>5. QED
    BY <2>3, <2>4 DEF Means
<1>6. Means(t, n + 1)
  BY <1>4, <1>5
<1>7. \A d \in 1..(n + 1) : Means(t, d)
  BY <1>1, <1>2, <1>6
<1>8. QED
  BY <1>1, <1>7 DEF AllMean, t

(* One more condition for the section on top. *)
LEMMA GoesOnMeans ==
  ASSUME "elifkept" \notin Forms,
         NEW s \in Seq(Section), AllDecided(s), AllMean(s), s # <<>>, NEW c \in Section,
         Continued(s[Len(s)], c)
  PROVE  AllMean([s EXCEPT ![Len(s)] = c])
<1> DEFINE t == [s EXCEPT ![Len(s)] = c]
           n == Len(s)
<1>1. n \in Nat /\ n - 1 \in Nat /\ n \in 1..n /\ \A d \in 1..(n - 1) : d \in 1..n
  OBVIOUS
<1>2. s[n].state = "Expanded" => c.state = "Expanded"
  BY DEF Continued
<1>3. Len(t) = n /\ \A i \in 1..n : t[i] = IF i = n THEN c ELSE s[i]
  BY <1>2, GoesOn
<1> HIDE DEF t
<1>4. \A i \in 1..(n - 1) : s[i] = t[i]
  BY <1>1, <1>3
<1>5. \A d \in 1..(n - 1) : Means(t, d)
  <2>1. \A d \in 1..(n - 1) : Means(s, d) <=> Means(t, d)
    BY <1>1, <1>4, Local
  <2>2. QED
    BY <1>1, <2>1 DEF AllMean
<1>6. Means(t, n)
  <2> DEFINE old == s[n].tests
             m == Len(old)
  <2>1. PICK value \in BOOLEAN :
          /\ c.tests = Append(old, value)
          /\ s[n].state = "WillExpand" => c.state = IF value THEN "Expanding" ELSE "WillExpand"
          /\ s[n].state = "Expanding" => c.state = "Expanded"
    BY DEF Continued
  <2>2. s[n] \in Section /\ old \in Seq(BOOLEAN) \ {<<>>}
    <3>1. s[n] \in Section
      BY <1>1
    <3>2. QED
      BY <3>1 DEF Section
  <2>3. /\ m \in Nat /\ m \in 1..m /\ Len(c.tests) = m + 1 /\ c.tests[m + 1] = value
        /\ \A j \in 1..m : c.tests[j] = old[j]
    BY <2>1, <2>2, AppendProperties
  <2>4. t[n] = c /\ Means(s, n)
    BY <1>1, <1>3 DEF AllMean
  <2> HIDE DEF m, old
  <2>5. CASE s[n].state = "WillExpand"
    <3>1. \A j \in 1..m : ~c.tests[j]
      BY <2>3, <2>4, <2>5 DEF Means, m, old
    <3>2. c.state = "Expanding" => FirstTrue(c.tests)
      <4>1. c.state = "Expanding" => value
        BY <2>1, <2>5
      <4>2. Len(c.tests) - 1 = m
        BY <2>3
      <4>3. QED
        BY <2>3, <3>1, <4>1, <4>2 DEF FirstTrue
    <3>3. c.state = "WillExpand" => \A j \in 1..Len(c.tests) : ~c.tests[j]
      <4>1. c.state = "WillExpand" => ~value
        BY <2>1, <2>5
      <4>2. QED
        BY <2>3, <3>1, <4>1
    <3>4. c.state # "Expanded"
      BY <2>1, <2>5
    <3>5. QED
      BY <2>4, <3>2, <3>3, <3>4 DEF Means
  <2>6. CASE s[n].state = "Expanding"
    <3>1. old[m]
      BY <2>4, <2>6 DEF Means, FirstTrue, m, old
    <3>2. m \in 1..(Len(c.tests) - 1) /\ c.tests[m]
      BY <2>3, <3>1
    <3>3. c.state = "Expanded"
      BY <2>1, <2>6
    <3>4. QED
      BY <2>4, <3>2, <3>3 DEF Means
  <2>7. CASE s[n].state = "Expanded"
    <3>1. CASE \E i \in 1..(n - 1) : ~FirstTrue(s[i].tests)
      BY <1>2, <1>4, <2>4, <2>7, <3>1 DEF Means
    <3>2. CASE \E j \in 1..(m - 1) : old[j]
      <4>1. PICK j \in 1..(m - 1) : old[j]
        BY <3>2
      <4>2. j \in 1..(Len(c.tests) - 1) /\ c.tests[j]
        BY <2>3, <4>1
      <4>3. QED
        BY <1>2, <2>4, <2>7, <4>2 DEF Means
    <3>3. QED
      BY <2>4, <2>7, <3>1, <3>2 DEF Means, m, old
  <2>8. QED
    BY <2>2, <2>5, <2>6, <2>7 DEF Section
<1>7. \A d \in 1..n : Means(t, d)
  BY <1>1, <1>5, <1>6
<1>8. QED
  BY <1>3, <1>7 DEF AllMean, t

LEMMA PoppedMeans ==
  ASSUME NEW s \in Seq(Section), AllDecided(s), AllMean(s), s # <<>>
  PROVE  AllMean(SubSeq(s, 1, Len(s) - 1))
<1> DEFINE t == SubSeq(s, 1, Len(s) - 1)
<1>1. Len(s) - 1 \in Nat /\ \A d \in 1..(Len(s) - 1) : d \in 1..Len(s)
  OBVIOUS
<1>2. Len(t) = Len(s) - 1 /\ \A i \in 1..(Len(s) - 1) : t[i] = s[i]
  BY Popped
<1> HIDE DEF t
<1>3. AllMean(t)
  BY <1>1, <1>2, Local DEF AllMean
<1>4. QED
  BY <1>3 DEF t

LEMMA MeaningsStep ==
  ASSUME "elifkept" \notin Forms, Nesting, Meanings(calls), [Next]_vars
  PROVE  Meanings(calls')
<1>1. CASE Stays
  BY <1>1 DEF Stays
<1>2. CASE Ends \/ Starts
  BY <1>2, Fresh DEF Ends, Starts
<1>3. CASE Running /\ Includes
  <2>1. \A e \in 1..Len(Stack) : Stack[e].state = "Expanding"
    BY <1>3, Current, AllExpanding DEF Includes, do_things, Open, Top
  <2>2. QED
    BY <1>3, <2>1, Current, OneMore DEF Includes, Stack, File
<1>4. CASE Running /\ Returns
  BY <1>4, Current, Returned DEF Returns, File
<1>5. ASSUME Running, NEW t \in Seq(Section), AllDecided(t), AllMean(t), SetStack(t)
      PROVE  Meanings(calls')
  BY <1>5, Current, Replaced DEF SetStack, File
<1>6. Running => AllMean(Stack)
  BY Current DEF Meanings, Stack
<1>7. CASE Running /\ Opens
  <2>1. PICK pass \in BOOLEAN, token \in BOOLEAN : SetStack(Append(Stack, Opened(pass, token)))
    BY <1>7 DEF Opens
  <2> DEFINE c == Opened(pass, token)
  <2>2. /\ c \in Section /\ c.tests = <<pass>>
        /\ c.state = IF ~do_things THEN "Expanded" ELSE IF pass THEN "Expanding" ELSE "WillExpand"
    <3>1. <<pass>> \in Seq(BOOLEAN) \ {<<>>}
      OBVIOUS
    <3>2. QED
      BY <3>1 DEF Opened, Section
  <2> HIDE DEF c
  <2>3. /\ Stack # <<>> /\ Stack[Len(Stack)].state # "Expanding" => c.state = "Expanded"
        /\ Stack = <<>> \/ Stack[Len(Stack)].state = "Expanding"
             => c.state = IF pass THEN "Expanding" ELSE "WillExpand"
    BY <2>2 DEF do_things, Open, Top
  <2>4. Append(Stack, c) \in Seq(Section) /\ AllDecided(Append(Stack, c))
    BY <1>7, <2>2, <2>3, Current, Pushed
  <2>5. AllMean(Append(Stack, c))
    BY <1>6, <1>7, <2>2, <2>3, Current, PushedMeans
  <2>6. QED
    BY <1>5, <1>7, <2>1, <2>4, <2>5 DEF c
<1>8. ASSUME Running, NEW c \in Section, GoesOnWith(c)
      PROVE  Meanings(calls')
  <2>1. Stack \in Seq(Section) /\ AllDecided(Stack) /\ Stack # <<>>
    BY <1>8, Current DEF GoesOnWith, Open
  <2>2. Continued(Stack[Len(Stack)], c)
    BY <1>8 DEF GoesOnWith, Top
  <2>3. Stack[Len(Stack)].state = "Expanded" => c.state = "Expanded"
    BY <2>2 DEF Continued
  <2>4. /\ [Stack EXCEPT ![Len(Stack)] = c] \in Seq(Section)
        /\ AllDecided([Stack EXCEPT ![Len(Stack)] = c])
    BY <2>1, <2>3, GoesOn
  <2>5. AllMean([Stack EXCEPT ![Len(Stack)] = c])
    BY <1>6, <1>8, <2>1, <2>2, GoesOnMeans
  <2>6. QED
    BY <1>5, <1>8, <2>4, <2>5 DEF GoesOnWith, SetTop
<1>9. CASE Running /\ Closes
  <2>1. Stack \in Seq(Section) /\ AllDecided(Stack) /\ Stack # <<>>
    BY <1>9, Current DEF Closes, Open
  <2>2. SubSeq(Stack, 1, Len(Stack) - 1) \in Seq(Section) /\ AllDecided(SubSeq(Stack, 1, Len(Stack) - 1))
    BY <2>1, Popped
  <2>3. AllMean(SubSeq(Stack, 1, Len(Stack) - 1))
    BY <1>6, <1>9, <2>1, PoppedMeans
  <2>4. QED
    BY <1>5, <1>9, <2>2, <2>3 DEF Closes
<1>10. QED
  BY <1>1, <1>2, <1>3, <1>4, <1>7, <1>8, <1>9, StepMoves DEF Moves

(* A section is being expanded exactly where C keeps its group. *)
LEMMA StatesAreKept ==
  ASSUME NEW s \in Seq(Section), AllDecided(s), AllMean(s), NEW d \in 1..Len(s)
  PROVE  s[d].state = "Expanding" <=> Kept(s, d)
<1>1. /\ d \in 1..d /\ s[d] \in Section /\ Means(s, d)
      /\ \A i \in 1..d : i \in 1..Len(s) /\ (i = d \/ i \in 1..(d - 1))
      /\ \A i \in 1..(d - 1) : i \in 1..d
  BY DEF AllMean
<1>2. ASSUME s[d].state = "Expanding"
      PROVE  Kept(s, d)
  <2>1. Outer(s, d)
    BY <1>2 DEF AllDecided, Decided
  <2>2. \A i \in 1..d : s[i].state = "Expanding"
    BY <1>1, <1>2, <2>1 DEF Outer
  <2>3. \A i \in 1..d : FirstTrue(s[i].tests)
    BY <1>1, <2>2 DEF AllMean, Means
  <2>4. QED
    BY <2>3 DEF Kept
<1>3. ASSUME Kept(s, d)
      PROVE  s[d].state = "Expanding"
  <2>1. FirstTrue(s[d].tests) /\ \A i \in 1..(d - 1) : FirstTrue(s[i].tests)
    BY <1>1, <1>3 DEF Kept
  <2>2. s[d].tests \in Seq(BOOLEAN) \ {<<>>}
    BY <1>1 DEF Section
  <2>3. Len(s[d].tests) \in 1..Len(s[d].tests)
    BY <2>2
  <2>4. s[d].state # "WillExpand"
    BY <1>1, <2>1, <2>3 DEF Means, FirstTrue
  <2>5. s[d].state # "Expanded"
    BY <1>1, <2>1 DEF Means, FirstTrue
  <2>6. QED
    BY <1>1, <2>4, <2>5 DEF Section
<1>4. QED
  BY <1>2, <1>3

LEMMA NestingKeeps ==
  ASSUME Nesting, Meanings(calls)
  PROVE  KeepsFirstTrueGroup
<1> SUFFICES ASSUME NEW f \in 1..Len(calls), NEW d \in 1..Len(calls[f])
             PROVE  calls[f][d].state = "Expanding" <=> Kept(calls[f], d)
  BY DEF KeepsFirstTrueGroup
<1>1. calls[f] \in Seq(Section) /\ AllDecided(calls[f]) /\ AllMean(calls[f])
  BY DEF Nesting, Nested, Meanings
<1>2. QED
  BY <1>1, StatesAreKept

LEMMA MeaningsInvariance ==
  ASSUME "elifkept" \notin Forms
  PROVE  Spec => [](Nesting /\ Meanings(calls))
<1>1. Init => Nesting /\ Meanings(calls)
  BY NestingInit, Fresh DEF Init
<1>2. Nesting /\ Meanings(calls) /\ [Next]_vars => (Nesting /\ Meanings(calls))'
  BY NestingStep, MeaningsStep
<1>3. QED
  BY <1>1, <1>2, PTL DEF Spec

(* At every depth and in every file the code keeps the group that C keeps: *)
(* the first whose condition holds, in a group that is itself kept.  For   *)
(* all names and bounds, and all lines but an #elif behind a kept group.   *)
THEOREM FirstTrueGroupKept ==
  ASSUME "elifkept" \notin Forms
  PROVE  Spec => []KeepsFirstTrueGroup
BY MeaningsInvariance, NestingKeeps, PTL

LEMMA DependsType == Spec => [](depends \in BOOLEAN)
<1>1. Init => depends \in BOOLEAN
  BY DEF Init
<1>2. depends \in BOOLEAN /\ [Next]_vars => (depends \in BOOLEAN)'
  BY DEF Next, vars, Inert, Sections, Text, Define, Undefine, Depends, ErrorLine, Include, UnknownLine,
         If, Elif, Ifdef, Push, BrokenExpression, Elifdef, Else, Endif, EndOfFile, NextUnit, Undefined,
         Throw, ThrowAt
<1>3. QED
  BY <1>1, <1>2, PTL DEF Spec

(* Where no group of a section is kept yet, the code knows it. *)
LEMMA WaitingIsUndecided ==
  ASSUME Nesting, Meanings(calls), Running, Open, Top.state = "WillExpand"
  PROVE  Undecided
<1> DEFINE n == Len(Stack)
<1>1. /\ Stack \in Seq(Section) /\ AllDecided(Stack) /\ n \in 1..n /\ n \in Nat /\ File \in 1..Len(calls)
      /\ calls \in Seq(Seq(Section)) /\ Len(calls) \in Nat /\ Stack = calls[File]
  BY Current DEF Nested, Stack
<1>2. AllMean(Stack)
  BY <1>1 DEF Meanings
<1>3. \A d \in 1..(n - 1) : Stack[d].state = "Expanding"
  <2>1. Stack[n].state = "WillExpand"
    BY DEF Top
  <2>2. Decided(Stack, n)
    BY <1>1 DEF AllDecided
  <2>3. QED
    BY <2>1, <2>2 DEF Decided, Outer
<1>4. Kept(Stack, n - 1)
  <2>1. CASE n = 1
    BY <2>1 DEF Kept
  <2>2. CASE n # 1
    <3>1. n - 1 \in 1..n /\ n - 1 \in 1..(n - 1)
      <4> HIDE DEF n
      <4>1. n \in Nat /\ n \in 1..n
        BY <1>1
      <4>2. QED
        BY <4>1, <2>2
    <3>2. QED
      BY <1>1, <1>2, <1>3, <3>1, StatesAreKept
  <2>3. QED
    BY <2>1, <2>2
<1>5. ASSUME NEW f \in 1..(File - 1)
      PROVE  Kept(calls[f], Len(calls[f]))
  <2>1. f \in 1..Len(calls) /\ calls[f] \in Seq(Section) /\ AllDecided(calls[f]) /\ AllMean(calls[f])
    BY <1>1 DEF Nesting, Nested, Meanings
  <2>2. Len(calls[f]) \in Nat
    BY <2>1
  <2>3. CASE Len(calls[f]) = 0
    BY <2>3 DEF Kept
  <2>4. CASE Len(calls[f]) # 0
    <3>1. Len(calls[f]) \in 1..Len(calls[f])
      BY <2>2, <2>4
    <3>2. calls[f][Len(calls[f])].state = "Expanding"
      BY <1>1, <3>1 DEF Nesting, Nested, IncludedInside
    <3>3. QED
      BY <2>1, <3>1, <3>2, StatesAreKept
  <2>5. QED
    BY <2>3, <2>4
<1>6. \A i \in 1..Len(Top.tests) : ~Top.tests[i]
  BY <1>1, <1>2 DEF AllMean, Means, Top
<1>7. QED
  BY <1>4, <1>5, <1>6 DEF Undecided

(* Where C skips, the section on top of the last file is not expanded. *)
LEMMA SkippingStops ==
  ASSUME Nesting, Meanings(calls), Running, Skipping
  PROVE  Open /\ ~do_things
<1>1. PICK f \in 1..Len(calls) : ~Kept(calls[f], Len(calls[f]))
  BY DEF Skipping
<1>2. /\ calls \in Seq(Seq(Section)) /\ Len(calls) \in Nat /\ calls[f] \in Seq(Section)
      /\ AllDecided(calls[f]) /\ AllMean(calls[f])
  BY DEF Nesting, Nested, Meanings
<1>3. calls[f] # <<>> /\ Len(calls[f]) \in 1..Len(calls[f])
  <2>1. calls[f] # <<>>
    BY <1>1 DEF Kept
  <2>2. QED
    BY <1>2, <2>1
<1>4. calls[f][Len(calls[f])].state # "Expanding"
  BY <1>1, <1>2, <1>3, StatesAreKept
<1>5. f = File
  <2>1. SUFFICES ASSUME f \in 1..(Len(calls) - 1)
                 PROVE  FALSE
    BY <1>2 DEF File
  <2>2. Len(calls) \in 1..Len(calls)
    BY <1>2
  <2>3. calls[f][Len(calls[f])].state = "Expanding"
    BY <1>3, <2>1, <2>2 DEF Nesting, Nested, IncludedInside
  <2>4. QED
    BY <1>4, <2>3
<1>6. QED
  BY <1>3, <1>4, <1>5 DEF do_things, Open, Top, Stack

(* The unit goes on, and only the sections of the last file may change. *)
Quiet ==
  /\ UNCHANGED <<macros, text, depends, result, fault>>
  /\ Len(calls') = Len(calls)
  /\ \A f \in 1..(File - 1) : calls'[f] = calls[f]

LEMMA OnlyTheLastFile ==
  ASSUME Nesting, Running, NEW s, SetStack(s), UNCHANGED <<macros, text, depends, result, fault>>
  PROVE  Quiet
<1>1. calls \in Seq(Seq(Section)) /\ Len(calls) \in Nat
  BY DEF Nesting, Nested
<1>2. calls' = [calls EXCEPT ![Len(calls)] = s]
  BY DEF SetStack, File
<1>3. Len(calls') = Len(calls) /\ \A f \in 1..(Len(calls) - 1) : calls'[f] = calls[f]
  BY <1>1, <1>2
<1>4. QED
  BY <1>3 DEF Quiet, File

(* What a line in a skipped group does: nothing, or end the unit as in C.  *)
Harmless == Quiet \/ (UNCHANGED <<macros, text, depends>> /\ Refused)

LEMMA SkippedLine ==
  ASSUME "skipped" \notin Forms, Nesting, Meanings(calls), depends \in BOOLEAN,
         Running, Skipping, [Next]_vars
  PROVE  Harmless
<1>1. Open /\ ~do_things /\ ~Looked
  BY SkippingStops DEF Looked
<1>2. LookedElif => Undecided
  BY <1>1, WaitingIsUndecided DEF LookedElif
<1>3. Top \in Section
  BY <1>1, Current
<1>4. CASE Text \/ ErrorLine \/ Include \/ UnknownLine
  BY <1>1, <1>4 DEF Text, ErrorLine, Include, UnknownLine
<1>5. CASE Depends \/ (\E m \in Macros : Define(m) \/ Undefine(m)) \/ UNCHANGED vars
  <2>1. UNCHANGED <<calls, macros, text, depends, result, fault>>
    BY <1>1, <1>5 DEF Depends, Define, Undefine, vars
  <2>2. QED
    BY <2>1 DEF Harmless, Quiet
<1>6. CASE \/ \E value \in BOOLEAN : If(value)
           \/ \E m \in Macros, negative \in BOOLEAN : Ifdef(m, negative)
  <2>1. PICK c : Push(c)
    BY <1>6 DEF If, Ifdef
  <2>2. QED
    BY <2>1, OnlyTheLastFile DEF Push, Harmless
<1>7. CASE BrokenExpression
  BY <1>2, <1>7 DEF BrokenExpression, Throw, Harmless, Refused
<1>8. CASE Elifdef
  BY <1>1, <1>2, <1>8 DEF Elifdef, Harmless, Refused
<1>9. ASSUME NEW value \in BOOLEAN, Elif(value)
      PROVE  Harmless
  <2>1. CASE Top.has_else /\ ThrowAt(FALSE, "Duplicate else")
    BY <1>1, <2>1 DEF ThrowAt, Harmless, Refused
  <2>2. CASE (\E c : SetTop(c)) /\ UNCHANGED <<macros, text, depends, result, fault>>
    BY <2>2, OnlyTheLastFile DEF SetTop, Harmless
  <2>3. QED
    BY <1>1, <1>9, <2>1, <2>2 DEF Elif
<1>10. CASE Else
  <2>1. CASE Top.has_else /\ ThrowAt(TRUE, "Duplicate else")
    BY <1>1, <2>1 DEF ThrowAt, Throw, Harmless, Refused
  <2>2. CASE (\E c : SetTop(c)) /\ UNCHANGED <<macros, text, depends, result, fault>>
    BY <2>2, OnlyTheLastFile DEF SetTop, Harmless
  <2>3. QED
    BY <1>1, <1>10, <2>1, <2>2 DEF Else
<1>11. CASE Endif
  BY <1>1, <1>11, OnlyTheLastFile DEF Endif, Harmless
<1>12. CASE EndOfFile
  <2>1. Top.start \in BOOLEAN
    BY <1>3 DEF Section
  <2>2. QED
    BY <1>1, <1>12, <2>1 DEF EndOfFile, ThrowAt, Throw, Harmless, Refused
<1>13. CASE NextUnit \/ Undefined
  BY <1>13 DEF NextUnit, Undefined, Running
<1>14. QED
  BY <1>4, <1>5, <1>6, <1>7, <1>8, <1>9, <1>10, <1>11, <1>12, <1>13 DEF Next, Inert, Sections

(* A line in a group that C skips, at any depth and through any number of  *)
(* files, leaves macros, text, dependencies and the other files alone, and *)
(* ends the unit only where C refuses it as well, unless it is one of the  *)
(* lines that C does not look at and the code does. *)
THEOREM SkippedLinesInert ==
  ASSUME "elifkept" \notin Forms, "skipped" \notin Forms
  PROVE  Spec => SkippedIsInert
<1> DEFINE NoEffect == Running /\ Skipping => Harmless
<1>1. Nesting /\ Meanings(calls) /\ depends \in BOOLEAN /\ [Next]_vars => [NoEffect]_vars
  BY SkippedLine
<1> HIDE DEF NoEffect
<1>2. Spec => [][NoEffect]_vars
  BY MeaningsInvariance, DependsType, <1>1, PTL DEF Spec
<1> DEFINE Inertly ==
             Running /\ Skipping =>
               /\ UNCHANGED <<macros, text, depends>>
               /\ \/ /\ UNCHANGED <<result, fault>>
                     /\ Len(calls') = Len(calls)
                     /\ \A f \in 1..(File - 1) : calls'[f] = calls[f]
                  \/ Refused
<1>3. NoEffect => Inertly
  BY DEF NoEffect, Harmless, Quiet
<1> HIDE DEF Inertly
<1>4. [NoEffect]_vars => [Inertly]_vars
  BY <1>3
<1>5. Spec => [][Inertly]_vars
  BY <1>2, <1>4, PTL
<1>6. QED
  BY <1>5, PTL DEF SkippedIsInert, Inertly
===============================================================================
