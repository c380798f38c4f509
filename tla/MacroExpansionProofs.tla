------------------------ MODULE MacroExpansionProofs ------------------------
(***************************************************************************)
(* Proofs about MacroExpansion: no macro is expanded inside its own        *)
(* expansion, for every program.                                           *)
(***************************************************************************)
EXTENDS MacroExpansion, SequenceTheorems, TLAPS

\* The invariant, of any sequence of calls and set of macros: the calls are records
\* with a macro, the unit is the first, and the macros of the others are those in use,
\* each of one call.
Nested(s, macros) ==
  /\ \E Calls : s \in Seq(Calls)
  /\ Len(s) >= 1
  /\ \A n \in DOMAIN s : "macro" \in DOMAIN s[n]
  /\ macros = {s[n].macro : n \in 2..Len(s)}
  /\ \A m, n \in 2..Len(s) : s[m].macro = s[n].macro => m = n

IInv == Nested(calls, used)

-----------------------------------------------------------------------------
(* What a handler does to the calls.                                       *)

\* A call that goes on with other streams keeps its macro.
LEMMA GoingOn ==
  ASSUME NEW s, NEW macros, Nested(s, macros),
         NEW call, "macro" \in DOMAIN call, call.macro = s[Len(s)].macro
  PROVE  Nested([s EXCEPT ![Len(s)] = call], macros)
<1> DEFINE t == [s EXCEPT ![Len(s)] = call]
<1>1. PICK Calls : s \in Seq(Calls) /\ call \in Calls
  <2>1. PICK Calls : s \in Seq(Calls)
    BY DEF Nested
  <2>2. s \in Seq(Calls \cup {call})
    BY <2>1
  <2>3. QED
    BY <2>2
<1>2. Len(s) \in Nat /\ DOMAIN s = 1..Len(s) /\ Len(s) \in 1..Len(s)
  BY <1>1, LenProperties DEF Nested
<1>3. /\ t \in Seq(Calls) /\ Len(t) = Len(s)
      /\ \A n \in 1..Len(s) : t[n] = IF n = Len(s) THEN call ELSE s[n]
  BY <1>1, <1>2, ExceptSeq
<1> HIDE DEF t
<1>4. DOMAIN t = 1..Len(s)
  BY <1>3, LenProperties
<1>5. \A n \in 1..Len(s) : t[n].macro = s[n].macro /\ "macro" \in DOMAIN t[n]
  BY <1>2, <1>3 DEF Nested
<1>6. \A n \in 2..Len(s) : t[n].macro = s[n].macro
  BY <1>2, <1>5
<1>7. {t[n].macro : n \in 2..Len(t)} = {s[n].macro : n \in 2..Len(s)}
  BY <1>3, <1>6
<1>8. \A m, n \in 2..Len(t) : t[m].macro = t[n].macro => m = n
  BY <1>3, <1>6 DEF Nested
<1>9. Nested(t, macros)
  BY <1>3, <1>4, <1>5, <1>7, <1>8 DEF Nested
<1>10. QED
  BY <1>9 DEF t

\* A call for a macro that is not in use.
LEMMA Entering ==
  ASSUME NEW s, NEW macros, Nested(s, macros),
         NEW call, "macro" \in DOMAIN call, call.macro \notin macros
  PROVE  Nested(Append(s, call), macros \cup {call.macro})
<1> DEFINE t == Append(s, call)
<1>1. PICK Calls : s \in Seq(Calls) /\ call \in Calls
  <2>1. PICK Calls : s \in Seq(Calls)
    BY DEF Nested
  <2>2. s \in Seq(Calls \cup {call})
    BY <2>1
  <2>3. QED
    BY <2>2
<1>2. Len(s) \in Nat \ {0} /\ DOMAIN s = 1..Len(s)
  BY <1>1, LenProperties DEF Nested
<1>3. /\ t \in Seq(Calls) /\ Len(t) = Len(s) + 1
      /\ t[Len(s) + 1] = call /\ \A n \in 1..Len(s) : t[n] = s[n]
  BY <1>1, AppendProperties
<1> HIDE DEF t
<1>4. DOMAIN t = 1..(Len(s) + 1)
  BY <1>3, LenProperties
<1>5. \A n \in DOMAIN t : "macro" \in DOMAIN t[n]
  BY <1>2, <1>3, <1>4 DEF Nested
<1>6. \A n \in 2..Len(t) : n = Len(s) + 1 \/ (n \in 2..Len(s) /\ t[n] = s[n])
  BY <1>2, <1>3
<1>7. {t[n].macro : n \in 2..Len(t)} = {s[n].macro : n \in 2..Len(s)} \cup {call.macro}
  <2>1. \A n \in 2..Len(s) : n \in 2..Len(t) /\ t[n] = s[n]
    BY <1>2, <1>3
  <2>2. Len(s) + 1 \in 2..Len(t)
    BY <1>2, <1>3
  <2>3. QED
    BY <1>3, <1>6, <2>1, <2>2
<1>8. \A m, n \in 2..Len(t) : t[m].macro = t[n].macro => m = n
  <2>1. \A n \in 2..Len(s) : s[n].macro \in macros
    BY DEF Nested
  <2>2. QED
    BY <1>3, <1>6, <2>1 DEF Nested
<1>9. Nested(t, macros \cup {call.macro})
  <2>1. macros = {s[n].macro : n \in 2..Len(s)} /\ Len(t) >= 1
    BY <1>2, <1>3 DEF Nested
  <2>2. QED
    BY <1>3, <1>5, <1>7, <1>8, <2>1 DEF Nested
<1>10. QED
  BY <1>9 DEF t

\* The call that returns takes its macro out of use.
LEMMA Returning ==
  ASSUME NEW s, NEW macros, Nested(s, macros), Len(s) > 1
  PROVE  Nested(Front(s), macros \ {Last(s).macro})
<1> DEFINE t == Front(s)
<1>1. PICK Calls : s \in Seq(Calls)
  BY DEF Nested
<1>2. Len(s) \in Nat /\ DOMAIN s = 1..Len(s)
  BY <1>1, LenProperties
<1>3. /\ t \in Seq(Calls) /\ Len(t) = Len(s) - 1
      /\ \A n \in 1..(Len(s) - 1) : t[n] = s[n]
  <2>1. \A n \in 1..(Len(s) - 1) : s[n] \in Calls
    BY <1>1, <1>2, ElementOfSeq
  <2>2. Len(s) - 1 \in Int /\ 1 <= Len(s) - 1
    BY <1>2
  <2>3. QED
    BY <2>1, <2>2, SubSeqProperties DEF Front
<1> HIDE DEF t
<1>4. DOMAIN t = 1..(Len(s) - 1)
  BY <1>3, LenProperties
<1>5. \A n \in 2..Len(s) : n = Len(s) \/ n \in 2..Len(t)
  <2>1. Len(s) \in Nat /\ Len(t) = Len(s) - 1
    BY <1>2, <1>3
  <2>2. QED
    BY <2>1
<1>6. \A n \in 2..Len(t) : n \in 2..Len(s) /\ n # Len(s) /\ t[n] = s[n]
  <2>1. \A n \in 2..(Len(s) - 1) : n \in 2..Len(s) /\ n # Len(s) /\ n \in 1..(Len(s) - 1)
    <3>1. \A k \in Nat : \A n \in 2..(k - 1) : n \in 2..k /\ n # k /\ n \in 1..(k - 1)
      OBVIOUS
    <3>2. QED
      BY <1>2, <3>1
  <2>2. Len(t) = Len(s) - 1 /\ \A n \in 1..(Len(s) - 1) : t[n] = s[n]
    BY <1>3
  <2>3. QED
    BY <2>1, <2>2
<1>7. {t[n].macro : n \in 2..Len(t)} = macros \ {Last(s).macro}
  <2>1. Last(s) = s[Len(s)] /\ Len(s) \in 2..Len(s)
    BY <1>2 DEF Last
  <2>2. QED
    BY <1>5, <1>6, <2>1 DEF Nested
<1>8. \A m, n \in 2..Len(t) : t[m].macro = t[n].macro => m = n
  BY <1>6 DEF Nested
<1>9. \A n \in DOMAIN t : "macro" \in DOMAIN t[n]
  BY <1>2, <1>3, <1>4 DEF Nested
<1>10. Nested(t, macros \ {Last(s).macro})
  <2>1. (\E C : t \in Seq(C)) /\ Len(t) >= 1
    BY <1>2, <1>3
  <2>2. QED
    BY <2>1, <1>7, <1>8, <1>9 DEF Nested
<1>11. QED
  BY <1>10 DEF t

-----------------------------------------------------------------------------
(* The handlers.                                                           *)

\* What is written leaves the macro of the call.
LEMMA Writing ==
  ASSUME IInv, NEW tokens, NEW next, NEW expanded, Write(tokens, next, expanded), used' = used
  PROVE  IInv'
<1> DEFINE call == [calls[Len(calls)] EXCEPT !.at = next, !.second = @ \o tokens, !.again = @ \/ expanded]
<1>1. calls' = [calls EXCEPT ![Len(calls)] = call]
  <2>1. Len(calls) \in DOMAIN calls
    BY DEF IInv, Nested
  <2>2. QED
    BY <2>1 DEF Write
<1>2. "macro" \in DOMAIN call /\ call.macro = calls[Len(calls)].macro
  BY DEF IInv, Nested
<1> HIDE DEF call
<1>3. Nested([calls EXCEPT ![Len(calls)] = call], used)
  BY <1>2, GoingOn DEF IInv
<1>4. QED
  BY <1>1, <1>3 DEF IInv

\* A macro that is entered was not in use.
LEMMA EnterNested ==
  ASSUME IInv, Expandable(Current), NEW next, NEW tokens, Enter(next, tokens)
  PROVE  IInv'
<1> DEFINE here == [calls[Len(calls)] EXCEPT !.at = next, !.again = TRUE]
           call == Call(Current.text, tokens)
           s == [calls EXCEPT ![Len(calls)] = here]
<1>1. "macro" \in DOMAIN here /\ here.macro = calls[Len(calls)].macro
  BY DEF IInv, Nested
<1>2. calls' = Append(s, call)
  <2>1. Len(calls) \in DOMAIN calls
    BY DEF IInv, Nested
  <2>2. QED
    BY <2>1 DEF Enter
<1> HIDE DEF here
<1>3. Nested(s, used)
  BY <1>1, GoingOn DEF IInv
<1>4. "macro" \in DOMAIN call /\ call.macro = Current.text /\ call.macro \notin used
  BY DEF Call, Expandable
<1> HIDE DEF call, s
<1>5. Nested(Append(s, call), used \cup {call.macro})
  BY <1>3, <1>4, Entering
<1>6. used' = used \cup {call.macro}
  BY <1>4 DEF Enter
<1>7. QED
  BY <1>2, <1>5, <1>6 DEF IInv

\* The unit is a call, and nothing is in use.
LEMMA Initially == Init => IInv
<1> SUFFICES ASSUME Init PROVE IInv
  OBVIOUS
<1>1. PICK call : calls = <<call>> /\ "macro" \in DOMAIN call
  BY DEF Init, Call
<1>2. calls \in Seq({call}) /\ Len(calls) = 1 /\ DOMAIN calls = {1} /\ calls[1] = call
  BY <1>1
<1>3. 2..Len(calls) = {}
  BY <1>2
<1>4. (\E C : calls \in Seq(C)) /\ Len(calls) >= 1
  BY <1>2
<1>5. used = {calls[n].macro : n \in 2..Len(calls)}
  BY <1>3 DEF Init
<1>6. QED
  BY <1>1, <1>2, <1>3, <1>4, <1>5 DEF IInv, Nested

\* Every action keeps the invariant.
LEMMA Step == IInv /\ [Next]_vars => IInv'
<1> SUFFICES ASSUME IInv, [Next]_vars PROVE IInv'
  OBVIOUS
<1>1. CASE Copy
  BY <1>1, Writing DEF Copy
<1>2. CASE ExpandObject
  <2>1. PICK next, tokens : Enter(next, tokens)
    BY <1>2 DEF ExpandObject
  <2>2. QED
    BY <1>2, <2>1, EnterNested DEF ExpandObject, Expanding
<1>3. CASE ExpandFunction
  <2>1. PICK next, tokens : Enter(next, tokens)
    BY <1>3 DEF ExpandFunction
  <2>2. QED
    BY <1>3, <2>1, EnterNested DEF ExpandFunction, Expanding
<1>4. CASE Overrun
  BY <1>4 DEF Overrun, IInv
<1>5. CASE BareName
  BY <1>5, Writing DEF BareName
<1>6. CASE ExpandLine
  BY <1>6, Writing DEF ExpandLine
<1>7. CASE ExpandId
  <2>1. PICK tokens, next : Write(tokens, next, TRUE)
    BY <1>7 DEF ExpandId
  <2>2. QED
    BY <1>7, <2>1, Writing DEF ExpandId
<1>8. CASE BareId
  <2>1. CASE UNCHANGED calls
    BY <1>8, <2>1 DEF BareId, IInv
  <2>2. CASE \E tokens, next : Write(tokens, next, TRUE)
    BY <1>8, <2>2, Writing DEF BareId
  <2>3. QED
    BY <1>8, <2>1, <2>2 DEF BareId
<1>9. CASE NextPass
  <2>1. calls' = [calls EXCEPT ![Len(calls)] = Call(Here.macro, Here.second)]
    BY <1>9 DEF NextPass
  <2>2. "macro" \in DOMAIN Call(Here.macro, Here.second) /\ Call(Here.macro, Here.second).macro = calls[Len(calls)].macro
    BY DEF Call, Here, Last
  <2>3. Nested([calls EXCEPT ![Len(calls)] = Call(Here.macro, Here.second)], used)
    BY <2>2, GoingOn DEF IInv
  <2>4. QED
    BY <1>9, <2>1, <2>3 DEF NextPass, IInv
<1>10. CASE Return
  <2> DEFINE s == Front(calls)
  <2>1. Len(calls) > 1
    <3>1. Len(calls) \in Nat /\ Len(calls) >= 1 /\ Len(calls) # 1
      BY <1>10, LenProperties DEF Return, InUnit, IInv, Nested
    <3>2. \A k \in Nat : k >= 1 /\ k # 1 => k > 1
      OBVIOUS
    <3>3. QED
      BY <3>1, <3>2
  <2>2. Nested(s, used \ {Here.macro})
    BY <2>1, Returning DEF IInv, Here
  <2>3. PICK call : /\ calls' = [s EXCEPT ![Len(s)] = call]
                    /\ "macro" \in DOMAIN call /\ call.macro = s[Len(s)].macro
    <3>1. PICK result : calls' = [s EXCEPT ![Len(s)].second = @ \o result]
      BY <1>10 DEF Return
    <3>2. "macro" \in DOMAIN s[Len(s)] /\ Len(s) \in DOMAIN s
      <4>1. PICK C : s \in Seq(C)
        BY <2>2 DEF Nested
      <4> HIDE DEF s
      <4>2. Len(s) \in Nat /\ DOMAIN s = 1..Len(s) /\ Len(s) >= 1
        BY <2>2, <4>1, LenProperties DEF Nested
      <4>3. QED
        BY <2>2, <4>2 DEF Nested
    <3>3. QED
      <4> DEFINE call == [s[Len(s)] EXCEPT !.second = @ \o result]
      <4>1. calls' = [s EXCEPT ![Len(s)] = call]
        BY <3>1, <3>2
      <4>2. "macro" \in DOMAIN call /\ call.macro = s[Len(s)].macro
        BY <3>2
      <4> HIDE DEF call
      <4>3. QED
        BY <4>1, <4>2
  <2> HIDE DEF s
  <2>4. Nested([s EXCEPT ![Len(s)] = call], used \ {Here.macro})
    BY <2>2, <2>3, GoingOn
  <2>5. QED
    BY <1>10, <2>3, <2>4 DEF Return, IInv
<1>11. CASE Finish
  BY <1>11 DEF Finish, IInv
<1>12. CASE UNCHANGED vars
  BY <1>12 DEF vars, IInv
<1>13. QED
  BY <1>1, <1>2, <1>3, <1>4, <1>5, <1>6, <1>7, <1>8, <1>9, <1>10, <1>11, <1>12 DEF Next

\* No macro is expanded inside its own expansion, for every program: process_identifier
\* looks at used_macros before it enters a macro, and expand returns before the macro is
\* taken out again.
THEOREM NoSelfExpansion == Spec => []NotInsideItself
<1>1. IInv => NotInsideItself
  BY DEF IInv, Nested, NotInsideItself
<1>2. QED
  BY Initially, Step, <1>1, PTL DEF Spec
=============================================================================
