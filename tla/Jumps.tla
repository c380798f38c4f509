-------------------------------- MODULE Jumps --------------------------------
(***************************************************************************)
(* Control flow in the compiler: what assemble writes for statements,      *)
(* loops, conditional expressions and the operators && and ||, and how the *)
(* back end turns it into jumps.  Every jump is written with a             *)
(* displacement of zero and patched later, through stacks that are static  *)
(* variables of platform/x86_64.c.  The stacks follow the instructions of  *)
(* the intermediate language, not the tree they come from.                 *)
(*                                                                         *)
(* The list of instructions is written by assemble and read by             *)
(* jitc_asm_emit once and in order, so the model has both done together.   *)
(* Whatever does not jump is the instruction "op".  A position is the      *)
(* number of instructions before it.                                       *)
(*                                                                         *)
(* Where C says a jump goes is kept in ghosts: every node of the tree gets *)
(* a number and places for its parts, every jump the place it is aimed at. *)
(***************************************************************************)
EXTENDS Integers, Sequences, SequencesExt

CONSTANTS
  Labels,    \* names of labels
  Forms,     \* forms of continue beyond that in the body of a while itself
  MaxCode,   \* bound: instructions of a function after which nothing new is begun
  MaxOpen,   \* bound: nested statements and conditional expressions
  MaxGroups  \* bound: nested groups of && and ||

\* A continue in an if, one in a for or do-while, and a break or continue
\* that is in no loop at all.
AllForms == {"inner", "late", "stray"}

ASSUME FormsAssumption == Forms \subseteq AllForms
ASSUME BoundAssumption == {MaxCode, MaxOpen, MaxGroups} \subseteq Nat
ASSUME LabelsAssumption == "none" \notin Labels

VARIABLES
  asm,      \* the code of the function and the static variables of the back end
  open,     \* nodes that assemble is in: statements and conditional expressions
  groups,   \* groups of && and || that assemble is in
  places,   \* ghost: positions of the parts of every node of the function
  labelled, \* ghost: position of every label
  phase     \* "idle", or the compilation of a "function"

vars == <<asm, open, groups, places, labelled, phase>>

Nowhere == -1
NoPlaces == [start |-> Nowhere, resume |-> Nowhere, other |-> Nowhere, end |-> Nowhere]

\* The node of the function itself, and what stands for labels in an aim.
Function == 1
ByLabel == 0

Loops == {"while", "for", "do"}
NoLoop == 0
NoAim == [id |-> ByLabel, place |-> "none"]

\* goto_t: position is Nowhere until the label has been met.
NoLabels == [l \in Labels |-> [position |-> Nowhere, waiting |-> <<>>]]

Init ==
  /\ asm = [code |-> <<>>, branches |-> <<>>, shortcircuits |-> <<>>, returns |-> <<>>,
            goto_labels |-> NoLabels, fault |-> FALSE]
  /\ open = <<>>
  /\ groups = <<>>
  /\ places = <<>>
  /\ labelled = [l \in Labels |-> Nowhere]
  /\ phase = "idle"

-----------------------------------------------------------------------------
(* The back end.  Every operator is a function of platform/x86_64.c and    *)
(* maps the state of the back end to the next; size(m) is bytewriter_size. *)

size(m) == Len(m.code)

emit(m, op, aim) ==
  [m EXCEPT !.code = Append(@, [op |-> op, to |-> size(m) + 1, aim |-> aim])]

\* The jumps that end at these positions are made to go here.
Patched(m, positions) ==
  [m EXCEPT !.code = [i \in 1..size(m) |->
     IF i \in positions THEN [m.code[i] EXCEPT !.to = size(m)] ELSE m.code[i]]]

\* Every branch gets a stack of its own for its breaks.  Unless it is a loop, its
\* branch_start is set from the top of the stack, which is the branch itself.
push_branch(m, loop) ==
  [m EXCEPT !.branches = Append(@, [branch_start |-> IF loop THEN size(m) ELSE Nowhere,
                                    curr_jump |-> Nowhere, end_stack |-> <<>>, is_loop |-> loop])]

\* Variant: the breaks of an if are taken to end at the if.
pop_branch_here(m) ==
  [Patched(m, ToSet(Last(m.branches).end_stack)) EXCEPT !.branches = Front(@)]

\* The breaks of what is no loop are handed to what is around it; if nothing is,
\* there is no stack to push them on.
pop_branch(m) ==
  LET branch == Last(m.branches)
      rest == Front(m.branches)
      ends == branch.end_stack
  IN IF branch.is_loop THEN [Patched(m, ToSet(ends)) EXCEPT !.branches = rest]
     ELSE IF ends = <<>> THEN [m EXCEPT !.branches = rest]
     ELSE IF rest = <<>> THEN [m EXCEPT !.fault = TRUE]
     ELSE [m EXCEPT !.branches =
             [rest EXCEPT ![Len(rest)].end_stack = @ \o Reverse(ends)]]

set_jump(m) == [m EXCEPT !.branches[Len(m.branches)].curr_jump = size(m)]
write_jump(m) == Patched(m, {Last(m.branches).curr_jump})

asm_if(m, loop) == push_branch(m, loop)
asm_then(m, aim) == set_jump(emit(m, "jz", aim))
asm_else(m, aim) == set_jump(write_jump(emit(m, "jmp", aim)))
asm_end(m) == pop_branch(write_jump(m))

\* The branch on top is what counts, a loop or not.  Where its branch_start has
\* not been set, wild is what the memory of the stack held.
asm_goto_start(m, aim, wild) ==
  LET jumped == emit(m, "jmp", aim)
      start == Last(m.branches).branch_start
  IN IF m.branches = <<>> THEN [m EXCEPT !.fault = TRUE]
     ELSE [jumped EXCEPT !.code[size(jumped)].to = IF start = Nowhere THEN wild ELSE start]

asm_goto_end(m, aim) ==
  LET jumped == emit(m, "jmp", aim)
  IN IF m.branches = <<>> THEN [m EXCEPT !.fault = TRUE]
     ELSE [jumped EXCEPT !.branches[Len(m.branches)].end_stack = Append(@, size(jumped))]

asm_sc_begin(m) == [m EXCEPT !.shortcircuits = Append(@, <<>>)]

\* jitc_asm_land and jitc_asm_lor.
asm_logic(m, op, aim) ==
  LET jumped == emit(m, IF op = "and" THEN "jz" ELSE "jnz", aim)
  IN [jumped EXCEPT !.shortcircuits[Len(m.shortcircuits)] = Append(@, size(jumped))]

\* pop_shortcircuit, and then the comparison that makes the result 0 or 1.
asm_sc_end(m) ==
  LET patched == Patched(m, ToSet(Last(m.shortcircuits)))
  IN [emit(patched, "op", NoAim) EXCEPT !.shortcircuits = Front(@)]

\* Variant: the position of a label is used whether it has been met or not.
asm_goto_known(m, label) ==
  LET jumped == emit(m, "jmp", [id |-> ByLabel, place |-> label])
  IN [jumped EXCEPT !.code[size(jumped)].to = m.goto_labels[label].position]

asm_goto(m, label) ==
  LET jumped == emit(m, "jmp", [id |-> ByLabel, place |-> label])
      known == m.goto_labels[label].position
  IN IF known = Nowhere
     THEN [jumped EXCEPT !.goto_labels[label].waiting = Append(@, size(jumped))]
     ELSE [jumped EXCEPT !.code[size(jumped)].to = known]

asm_label(m, label) ==
  [Patched(m, ToSet(m.goto_labels[label].waiting)) EXCEPT
     !.goto_labels[label] = [position |-> size(m), waiting |-> <<>>]]

asm_ret(m) ==
  LET jumped == emit(m, "jmp", [id |-> Function, place |-> "end"])
  IN [jumped EXCEPT !.returns = Append(@, size(jumped))]

\* Variant: the stack of returns is walked but not emptied.
asm_func_end_kept(m) == Patched(m, ToSet(m.returns))

asm_func_end(m) == [Patched(m, ToSet(m.returns)) EXCEPT !.returns = <<>>]

\* clear_labels; the code is written to a new bytewriter.
asm_func(m) == [m EXCEPT !.code = <<>>, !.goto_labels = NoLabels]

-----------------------------------------------------------------------------
(* assemble.  Where it calls itself, the node is on one of two stacks; a   *)
(* group of && and || belongs to the node that was on top when it began.   *)

Top == open[Len(open)]
TopIs(nodes, part) == open # <<>> /\ Top.node \in nodes /\ Top.part = part

\* Nothing of a group is left to assemble before the part of the node ends.
NoGroup == groups # <<>> => Last(groups).depth # Len(open)

Working == phase = "function" /\ ~asm.fault

\* Statements are assembled in the function itself and in the parts of
\* statements.
InStatements ==
  /\ Working
  /\ NoGroup
  /\ \/ open = <<>>
     \/ TopIs({"if", "while", "for", "do"}, "then")
     \/ TopIs({"if"}, "else")

\* What has been begun is finished beyond the bound.
Room == size(asm) < MaxCode

\* Ghost: the loop that C has a break or continue refer to, or NoLoop.
Innermost == IF open = <<>> THEN NoLoop ELSE Top.loop
InLoop == Innermost # NoLoop

SetPart(part) == open' = [open EXCEPT ![Len(open)].part = part]
Reached(place, at) == places' = [places EXCEPT ![Top.id][place] = at]
Aimed(place) == [id |-> Top.id, place |-> place]

\* jitc_compile starts a function and assembles its body.
Start ==
  /\ phase = "idle"
  /\ ~asm.fault
  /\ phase' = "function"
  /\ asm' = asm_func(asm)
  /\ places' = <<NoPlaces>>
  /\ labelled' = [l \in Labels |-> Nowhere]
  /\ UNCHANGED <<open, groups>>

\* Anything that is no jump, in a statement or in an expression: one "op" stands
\* for any number of instructions.
Straight ==
  /\ Working
  /\ Room
  /\ asm.code # <<>> => Last(asm.code).op # "op"
  /\ asm' = emit(asm, "op", NoAim)
  /\ UNCHANGED <<open, groups, places, labelled, phase>>

\* The nodes that become IR_if.  A conditional expression may be anywhere in an
\* expression, a statement where statements are.
Open(node) ==
  /\ Working
  /\ node = "?:" \/ InStatements
  /\ Room
  /\ Len(open) < MaxOpen
  /\ asm' = asm_if(asm, node \in Loops)
  /\ open' = Append(open, [id |-> Len(places) + 1, node |-> node, part |-> "when",
                           loop |-> IF node \in Loops THEN Len(places) + 1 ELSE Innermost])
  /\ places' = Append(places, [NoPlaces EXCEPT !.start = size(asm)])
  /\ UNCHANGED <<groups, labelled, phase>>

\* What a false condition skips to; a while is continued with its condition.
Then ==
  /\ Working
  /\ NoGroup
  /\ TopIs({"if", "?:"} \cup Loops, "when")
  /\ asm' = asm_then(asm, Aimed(IF Top.node \in Loops THEN "end" ELSE "other"))
  /\ SetPart("then")
  /\ places' = IF Top.node # "while" THEN places
               ELSE [places EXCEPT ![Top.id].resume = places[Top.id].start]
  /\ UNCHANGED <<groups, labelled, phase>>

Else ==
  /\ Working
  /\ NoGroup
  /\ TopIs({"if", "?:"}, "then")
  /\ asm' = asm_else(asm, Aimed("end"))
  /\ SetPart("else")
  /\ Reached("other", size(asm) + 1)
  /\ UNCHANGED <<groups, labelled, phase>>

End ==
  /\ Working
  /\ NoGroup
  /\ TopIs({"if", "?:"}, "else")
  /\ asm' = asm_end(asm)
  /\ open' = Front(open)
  /\ Reached("end", size(asm))
  /\ UNCHANGED <<groups, labelled, phase>>

\* The body of a for or do-while is assembled: what C continues with is next,
\* the last expression of the for and the condition of the do-while.
Resume ==
  /\ Working
  /\ TopIs({"for", "do"}, "then")
  /\ NoGroup
  /\ SetPart("after")
  /\ Reached("resume", size(asm))
  /\ UNCHANGED <<asm, groups, labelled, phase>>

\* The parser makes of do S while (c); a loop over S; if (c) ; else break;
Until ==
  /\ Working
  /\ TopIs({"do"}, "after")
  /\ NoGroup
  /\ asm' = asm_if(asm, FALSE)
  /\ open' = Append([open EXCEPT ![Len(open)].part = "tested"],
                    [id |-> Len(places) + 1, node |-> "until", part |-> "when", loop |-> Innermost])
  /\ places' = Append(places, [NoPlaces EXCEPT !.start = size(asm)])
  /\ UNCHANGED <<groups, labelled, phase>>

\* asm_then, asm_else, asm_goto_end and asm_end of that if.
UntilTested ==
  /\ Working
  /\ TopIs({"until"}, "when")
  /\ NoGroup
  /\ LET then == asm_then(asm, Aimed("other"))
         else == asm_else(then, Aimed("end"))
     IN /\ asm' = asm_end(asm_goto_end(else, [id |-> Innermost, place |-> "end"]))
        /\ places' = [places EXCEPT ![Top.id].other = size(else), ![Top.id].end = size(asm')]
  /\ open' = Front(open)
  /\ UNCHANGED <<groups, labelled, phase>>

\* jitc_process_ast has replaced that if by one of its branches.
UntilConstant(true) ==
  /\ Working
  /\ TopIs({"do"}, "after")
  /\ NoGroup
  /\ SetPart("tested")
  /\ asm' = IF true THEN asm ELSE asm_goto_end(asm, Aimed("end"))
  /\ UNCHANGED <<groups, places, labelled, phase>>

\* The end of AST_Loop: IR_goto_start, IR_else and IR_end.
EndLoop ==
  /\ Working
  /\ NoGroup
  /\ TopIs({"while"}, "then") \/ TopIs({"for"}, "after") \/ TopIs({"do"}, "tested")
  /\ \E wild \in 0..size(asm) :
       asm' = asm_end(asm_else(asm_goto_start(asm, Aimed("start"), wild), Aimed("end")))
  /\ open' = Front(open)
  /\ Reached("end", size(asm) + 2)
  /\ UNCHANGED <<groups, labelled, phase>>

Break ==
  /\ InStatements
  /\ Room
  /\ InLoop \/ "stray" \in Forms
  /\ asm' = asm_goto_end(asm, IF InLoop THEN [id |-> Innermost, place |-> "end"] ELSE NoAim)
  /\ UNCHANGED <<open, groups, places, labelled, phase>>

Continue ==
  /\ InStatements
  /\ Room
  /\ \/ open # <<>> /\ Top.node = "while"
     \/ open # <<>> /\ Top.node \in Loops /\ "late" \in Forms
     \/ InLoop /\ Top.node \notin Loops /\ "inner" \in Forms
     \/ ~InLoop /\ "stray" \in Forms
  /\ \E wild \in 0..size(asm) :
       asm' = asm_goto_start(asm, IF InLoop THEN [id |-> Innermost, place |-> "resume"] ELSE NoAim, wild)
  /\ UNCHANGED <<open, groups, places, labelled, phase>>

Goto(label) ==
  /\ InStatements
  /\ Room
  /\ asm' = asm_goto(asm, label)
  /\ UNCHANGED <<open, groups, places, labelled, phase>>

\* A label stands once in a function, as C has it; jitc does not look.
Label(label) ==
  /\ InStatements
  /\ labelled[label] = Nowhere
  /\ asm' = asm_label(asm, label)
  /\ labelled' = [labelled EXCEPT ![label] = size(asm)]
  /\ UNCHANGED <<open, groups, places, phase>>

\* Also what jitc_compile adds to a function that does not end with one.
Return ==
  /\ InStatements
  /\ Room
  /\ asm' = asm_ret(asm)
  /\ UNCHANGED <<open, groups, places, labelled, phase>>

\* An operand that is an && under an && (or an || under an ||) is assembled as
\* part of the same group.
BeginGroup(op) ==
  /\ Working
  /\ Room
  /\ Len(groups) < MaxGroups
  /\ asm' = asm_sc_begin(asm)
  /\ groups' = Append(groups, [id |-> Len(places) + 1, op |-> op, depth |-> Len(open), operands |-> 0])
  /\ places' = Append(places, [NoPlaces EXCEPT !.start = size(asm)])
  /\ UNCHANGED <<open, labelled, phase>>

GroupOnTop == groups # <<>> /\ Last(groups).depth = Len(open)

\* An operand has been assembled, and the operator is next.
Operator ==
  /\ Working
  /\ GroupOnTop
  /\ Room \/ Last(groups).operands = 0
  /\ asm' = asm_logic(asm, Last(groups).op, [id |-> Last(groups).id, place |-> "end"])
  /\ groups' = [groups EXCEPT ![Len(groups)].operands = @ + 1]
  /\ UNCHANGED <<open, places, labelled, phase>>

\* The last operand has been assembled: the comparison is made with it.
EndGroup ==
  /\ Working
  /\ GroupOnTop
  /\ Last(groups).operands > 0
  /\ asm' = asm_sc_end(asm)
  /\ groups' = Front(groups)
  /\ places' = [places EXCEPT ![Last(groups).id].end = size(asm)]
  /\ UNCHANGED <<open, labelled, phase>>

\* jitc_verify_gotos has refused functions in which a label is missing.
Finish ==
  /\ Working
  /\ open = <<>>
  /\ NoGroup
  /\ \A i \in 1..size(asm) :
       asm.code[i].aim.id = ByLabel /\ asm.code[i].aim.place \in Labels =>
         labelled[asm.code[i].aim.place] # Nowhere
  /\ asm' = asm_func_end(asm)
  /\ places' = [places EXCEPT ![Function].end = size(asm)]
  /\ phase' = "idle"
  /\ UNCHANGED <<open, groups, labelled>>

Crashed == asm.fault /\ UNCHANGED vars

Statements ==
  \/ \E node \in {"if", "?:"} \cup Loops : Open(node)
  \/ Then
  \/ Else
  \/ End
  \/ Resume
  \/ Until
  \/ UntilTested
  \/ \E true \in BOOLEAN : UntilConstant(true)
  \/ EndLoop
  \/ Break
  \/ Continue
  \/ \E label \in Labels : Goto(label) \/ Label(label)
  \/ Return

Expressions ==
  \/ Straight
  \/ \E op \in {"and", "or"} : BeginGroup(op)
  \/ Operator
  \/ EndGroup

Next ==
  \/ Start
  \/ Statements
  \/ Expressions
  \/ Finish
  \/ Crashed

Spec == Init /\ [][Next]_vars

-----------------------------------------------------------------------------
(* Properties.                                                             *)

Aim == [id : Nat, place : {"none", "start", "resume", "other", "end"} \cup Labels]
Instruction == [op : {"op", "jmp", "jz", "jnz"}, to : Nat, aim : Aim]
Branch == [branch_start : Int, curr_jump : Int, end_stack : Seq(Nat), is_loop : BOOLEAN]
Machine ==
  [code : Seq(Instruction), branches : Seq(Branch), shortcircuits : Seq(Seq(Nat)), returns : Seq(Nat),
   goto_labels : [Labels -> [position : Int, waiting : Seq(Nat)]], fault : BOOLEAN]
Places == [start : Int, resume : Int, other : Int, end : Int]

TypeOK ==
  /\ asm \in Machine
  /\ open \in Seq([id : Nat, node : {"if", "?:", "until"} \cup Loops,
                   part : {"when", "then", "else", "after", "tested"}, loop : Nat])
  /\ groups \in Seq([id : Nat, op : {"and", "or"}, depth : Nat, operands : Nat])
  /\ places \in Seq(Places)
  /\ labelled \in [Labels -> Int]
  /\ phase \in {"idle", "function"}

\* Where a jump should go, or Nowhere while that has not been assembled.
Target(aim) ==
  IF aim = NoAim THEN Nowhere
  ELSE IF aim.id = ByLabel THEN labelled[aim.place]
  ELSE places[aim.id][aim.place]

\* As soon as the place a jump is for has been assembled, the jump goes there:
\* whatever is nested in what, every break leaves its innermost loop and no
\* other, every condition skips what it guards, every && and || the operands that
\* are not to be evaluated, every goto meets its label and every return the end.
JumpsArrive ==
  \A i \in 1..size(asm) :
    LET jump == asm.code[i]
    IN Target(jump.aim) # Nowhere => jump.to = Target(jump.aim)

\* No function leaves anything in the static variables to be patched into the
\* code of the next, and while one is compiled only jumps of its own are there.
PatchesOwnJumps ==
  ~asm.fault =>
    /\ phase = "idle" =>
         asm.branches = <<>> /\ asm.shortcircuits = <<>> /\ asm.returns = <<>>
    /\ \A p \in ToSet(asm.returns) \cup (UNION {ToSet(s) : s \in ToSet(asm.shortcircuits)})
                \cup (UNION {ToSet(b.end_stack) : b \in ToSet(asm.branches)}) :
         p \in 1..size(asm) /\ asm.code[p].op # "op"
=============================================================================
