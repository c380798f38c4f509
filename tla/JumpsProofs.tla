----------------------------- MODULE JumpsProofs -----------------------------
(***************************************************************************)
(* Proofs about Jumps.  The stacks of the back end are read as one table   *)
(* that has, for every place a jump can be aimed at, the positions of the  *)
(* jumps that wait for it.  Whatever a function is made of, that table     *)
(* holds exactly the jumps whose place has not been assembled.             *)
(***************************************************************************)
EXTENDS Jumps, SequenceTheorems, TLAPS

Ops == {"op", "jmp", "jz", "jnz"}
Node == [id : Nat, node : {"if", "?:", "until"} \cup Loops,
         part : {"when", "then", "else", "after", "tested"}, loop : Nat]
Group == [id : Nat, op : {"and", "or"}, depth : Nat, operands : Nat]
Table == [Aim -> SUBSET Nat]

-----------------------------------------------------------------------------
(* The table.                                                              *)

\* The place of a jump, with the places and labels of the function given.
TargetIn(P, L, aim) ==
  IF aim = NoAim THEN Nowhere
  ELSE IF aim.id = ByLabel THEN L[aim.place]
  ELSE P[aim.id][aim.place]

\* An aim is the place of a node there is, a label, or none.
Aimable(P, aim) ==
  \/ aim = NoAim
  \/ aim.id = ByLabel /\ aim.place \in Labels
  \/ aim.id \in 1..Len(P) /\ aim.place \in {"start", "resume", "other", "end"}

\* What a continue is for: such a jump never waits for its place.
Resumes(aim) == aim.id # ByLabel /\ aim.place = "resume"

\* The table D is true of the code: what waits is a jump that is aimed there, and
\* every jump whose place is not there yet waits.
Sound(code, D, P, L) ==
  /\ \A a \in Aim : \A p \in D[a] :
       p \in 1..Len(code) /\ code[p].op # "op" /\ code[p].aim = a
  /\ \A i \in 1..Len(code) :
       LET a == code[i].aim
       IN /\ Aimable(P, a)
          /\ a # NoAim /\ TargetIn(P, L, a) = Nowhere /\ ~Resumes(a) => i \in D[a]

\* Every jump whose place is there goes to it, and a continue always does.
Arrived(code, P, L) ==
  \A i \in 1..Len(code) :
    LET a == code[i].aim
    IN /\ TargetIn(P, L, a) # Nowhere => code[i].to = TargetIn(P, L, a)
       /\ Resumes(a) => TargetIn(P, L, a) # Nowhere

FunctionEnd == [id |-> Function, place |-> "end"]
BreakAim(node) == IF node.loop = NoLoop THEN NoAim ELSE [id |-> node.loop, place |-> "end"]
ConditionAim(node) ==
  [id |-> node.id, place |-> IF node.node \in Loops \/ node.part = "else" THEN "end" ELSE "other"]

\* What the stacks of the back end say of an aim: the first n branches, which
\* belong to the nodes o, and the first n groups.
OfReturns(returns, a) == IF a = FunctionEnd THEN ToSet(returns) ELSE {}
OfLabels(labels, a) ==
  IF a.id = ByLabel /\ a.place \in Labels THEN ToSet(labels[a.place].waiting) ELSE {}
OfGroups(scs, g, n, a) ==
  {p \in Nat : \E k \in 1..n : a = [id |-> g[k].id, place |-> "end"] /\ p \in ToSet(scs[k])}
OfBreaks(bs, o, n, a) ==
  {p \in Nat : \E k \in 1..n : a = BreakAim(o[k]) /\ p \in ToSet(bs[k].end_stack)}
OfConditions(bs, o, n, a) ==
  {p \in Nat : \E k \in 1..n :
     o[k].part # "when" /\ a = ConditionAim(o[k]) /\ p = bs[k].curr_jump}

Waiting(m, o, g, a) ==
  UNION {OfReturns(m.returns, a), OfLabels(m.goto_labels, a),
         OfGroups(m.shortcircuits, g, Len(g), a), OfBreaks(m.branches, o, Len(o), a),
         OfConditions(m.branches, o, Len(o), a)}

TableOf(m, o, g) == [a \in Aim |-> Waiting(m, o, g, a)]

-----------------------------------------------------------------------------
(* The invariant.                                                          *)

\* A node and its branch.
NodeOK(b, r, P) ==
  /\ b.id \in 2..Len(P)
  /\ P[b.id].end = Nowhere
  /\ b.part # "else" => P[b.id].other = Nowhere
  /\ r.is_loop = (b.node \in Loops)
  /\ r.branch_start \in Nat \cup {Nowhere}
  /\ b.node \in Loops => b.loop = b.id /\ r.branch_start = P[b.id].start /\ P[b.id].start # Nowhere
  /\ b.node = "while" =>
       /\ b.part \in {"when", "then"}
       /\ P[b.id].resume = IF b.part = "when" THEN Nowhere ELSE P[b.id].start
  /\ b.node \in {"for", "do"} /\ b.part \in {"when", "then"} => P[b.id].resume = Nowhere
  /\ b.node \in {"if", "?:"} => b.part \in {"when", "then", "else"}
  /\ b.node = "until" => b.part = "when" /\ b.loop # NoLoop

\* The loop a node is in is that of the node around it, and is open.
NestedOK(o, k) ==
  /\ o[k].node \notin Loops => o[k].loop = IF k = 1 THEN NoLoop ELSE o[k - 1].loop
  /\ o[k].loop # NoLoop => \E j \in 1..k : o[j].node \in Loops /\ o[j].id = o[k].loop

NodesOK(bs, o, P) ==
  /\ Len(bs) = Len(o)
  /\ \A k \in 1..Len(o) : NodeOK(o[k], bs[k], P) /\ NestedOK(o, k)
  /\ \A j, k \in 1..Len(o) : o[j].id = o[k].id => j = k

GroupsOK(scs, g, o, P) ==
  /\ Len(scs) = Len(g)
  /\ \A k \in 1..Len(g) : g[k].id \in 2..Len(P) /\ P[g[k].id].end = Nowhere /\ g[k].depth <= Len(o)
  /\ \A j, k \in 1..Len(g) : g[j].id = g[k].id => j = k
  /\ \A j, k \in 1..Len(g) : j <= k => g[j].depth <= g[k].depth
  /\ \A j \in 1..Len(o), k \in 1..Len(g) : o[j].id # g[k].id

LabelsOK(labels, L) ==
  \A l \in Labels :
    /\ labels[l].position = L[l]
    /\ L[l] \in Nat \cup {Nowhere}
    /\ L[l] # Nowhere => labels[l].waiting = <<>>

PhaseOK ==
  /\ phase = "idle" => open = <<>> /\ groups = <<>> /\ asm.returns = <<>>
  /\ phase = "function" => Len(places) >= 1 /\ places[Function].end = Nowhere

Shape ==
  /\ NodesOK(asm.branches, open, places)
  /\ GroupsOK(asm.shortcircuits, groups, open, places)
  /\ LabelsOK(asm.goto_labels, labelled)
  /\ PhaseOK

JInv ==
  /\ TypeOK
  /\ ~asm.fault => Shape /\ Sound(asm.code, TableOf(asm, open, groups), places, labelled)

\* No continue but that in the body of a while itself.
AInv == JInv /\ Arrived(asm.code, places, labelled)

-----------------------------------------------------------------------------
(* Code.                                                                   *)

LEMMA AimsAreAims ==
  /\ NoAim \in Aim /\ FunctionEnd \in Aim
  /\ \A id \in Nat, place \in {"start", "resume", "other", "end"} :
       [id |-> id, place |-> place] \in Aim /\ (id # 0 => [id |-> id, place |-> place] # NoAim)
  /\ \A l \in Labels :
       [id |-> ByLabel, place |-> l] \in Aim /\ [id |-> ByLabel, place |-> l] # NoAim
<1>1. \A l \in Labels : l # "none"
  BY LabelsAssumption
<1> QED
  BY <1>1 DEF Aim, NoAim, FunctionEnd, Function, ByLabel

LEMMA CodeTypes ==
  ASSUME NEW code \in Seq(Instruction)
  PROVE  \A i \in 1..Len(code) :
           code[i] \in Instruction /\ code[i].op \in Ops /\ code[i].to \in Nat /\ code[i].aim \in Aim
<1>1. \A i \in 1..Len(code) : code[i] \in Instruction
  OBVIOUS
<1> QED
  BY <1>1 DEF Instruction, Ops

\* An instruction is written whose jump waits for its place.
LEMMA EmitWaiting ==
  ASSUME NEW code \in Seq(Instruction), NEW D \in Table, NEW P, NEW L, Sound(code, D, P, L),
         NEW ins \in Instruction, ins.op # "op", Aimable(P, ins.aim),
         NEW E \in Table,
         \A a \in Aim : E[a] = IF a = ins.aim THEN D[a] \cup {Len(code) + 1} ELSE D[a]
  PROVE  /\ Sound(Append(code, ins), E, P, L)
         /\ Arrived(code, P, L) /\ TargetIn(P, L, ins.aim) = Nowhere /\ ~Resumes(ins.aim)
              => Arrived(Append(code, ins), P, L)
<1> DEFINE c == Append(code, ins)
<1>1. /\ Len(code) \in Nat /\ c \in Seq(Instruction) /\ Len(c) = Len(code) + 1
      /\ \A i \in 1..Len(code) : c[i] = code[i]
      /\ c[Len(code) + 1] = ins
  BY AppendProperties, LenProperties
<1>2. ins.aim \in Aim /\ \A i \in 1..Len(code) : code[i].aim \in Aim
  BY CodeTypes DEF Instruction
<1> HIDE DEF c
<1>3. ASSUME NEW a \in Aim, NEW p \in E[a]
      PROVE  p \in 1..Len(c) /\ c[p].op # "op" /\ c[p].aim = a
  <2>1. CASE p \in D[a]
    <3>1. p \in 1..Len(code) /\ code[p].op # "op" /\ code[p].aim = a
      BY <2>1 DEF Sound
    <3> QED
      BY <1>1, <3>1
  <2>2. CASE a = ins.aim /\ p = Len(code) + 1
    BY <1>1, <2>2
  <2> QED
    BY <1>3, <2>1, <2>2
<1>4. ASSUME NEW i \in 1..Len(c)
      PROVE  LET a == c[i].aim
             IN /\ Aimable(P, a)
                /\ a # NoAim /\ TargetIn(P, L, a) = Nowhere /\ ~Resumes(a) => i \in E[a]
  <2>1. CASE i \in 1..Len(code)
    <3>1. c[i] = code[i] /\ code[i].aim \in Aim
      BY <1>1, <1>2, <2>1
    <3>2. D[code[i].aim] \subseteq E[code[i].aim]
      BY <3>1
    <3> QED
      BY <2>1, <3>1, <3>2 DEF Sound
  <2>2. CASE i = Len(code) + 1
    BY <1>1, <1>2, <2>2
  <2> QED
    BY <1>1, <2>1, <2>2
<1>5. Arrived(code, P, L) /\ TargetIn(P, L, ins.aim) = Nowhere /\ ~Resumes(ins.aim) => Arrived(c, P, L)
  <2> SUFFICES ASSUME Arrived(code, P, L), TargetIn(P, L, ins.aim) = Nowhere, ~Resumes(ins.aim),
                      NEW i \in 1..Len(c)
               PROVE  LET a == c[i].aim
                      IN /\ TargetIn(P, L, a) # Nowhere => c[i].to = TargetIn(P, L, a)
                         /\ Resumes(a) => TargetIn(P, L, a) # Nowhere
    BY DEF Arrived
  <2>1. CASE i \in 1..Len(code)
    BY <1>1, <2>1 DEF Arrived
  <2>2. CASE i = Len(code) + 1
    BY <1>1, <2>2
  <2> QED
    BY <1>1, <2>1, <2>2
<1>6. Sound(c, E, P, L)
  BY <1>3, <1>4 DEF Sound
<1> QED
  BY <1>5, <1>6 DEF c

KnownTo(ins, P, L) == ins.aim = NoAim \/ (ins.to = TargetIn(P, L, ins.aim) /\ ins.to # Nowhere)

\* One that does not wait: it is no jump, or its place is there.
LEMMA EmitKnown ==
  ASSUME NEW code \in Seq(Instruction), NEW D \in Table, NEW P, NEW L, Sound(code, D, P, L),
         NEW ins \in Instruction, Aimable(P, ins.aim),
         ins.aim = NoAim \/ TargetIn(P, L, ins.aim) # Nowhere \/ Resumes(ins.aim)
  PROVE  /\ Sound(Append(code, ins), D, P, L)
         /\ Arrived(code, P, L) => (KnownTo(ins, P, L) => Arrived(Append(code, ins), P, L))
<1> DEFINE c == Append(code, ins)
<1>1. /\ Len(code) \in Nat /\ c \in Seq(Instruction) /\ Len(c) = Len(code) + 1
      /\ \A i \in 1..Len(code) : c[i] = code[i]
      /\ c[Len(code) + 1] = ins
  BY AppendProperties, LenProperties
<1> HIDE DEF c
<1>2. ASSUME NEW a \in Aim, NEW p \in D[a]
      PROVE  p \in 1..Len(c) /\ c[p].op # "op" /\ c[p].aim = a
  <2>1. p \in 1..Len(code) /\ code[p].op # "op" /\ code[p].aim = a
    BY DEF Sound
  <2> QED
    BY <1>1, <2>1
<1>3. ASSUME NEW i \in 1..Len(c)
      PROVE  LET a == c[i].aim
             IN /\ Aimable(P, a)
                /\ a # NoAim /\ TargetIn(P, L, a) = Nowhere /\ ~Resumes(a) => i \in D[a]
  <2>1. CASE i \in 1..Len(code)
    BY <1>1, <2>1 DEF Sound
  <2>2. CASE i = Len(code) + 1
    BY <1>1, <2>2
  <2> QED
    BY <1>1, <2>1, <2>2
<1>4. ASSUME Arrived(code, P, L), KnownTo(ins, P, L)
      PROVE  Arrived(c, P, L)
  <2>1. /\ TargetIn(P, L, ins.aim) # Nowhere => ins.to = TargetIn(P, L, ins.aim)
        /\ Resumes(ins.aim) => TargetIn(P, L, ins.aim) # Nowhere
    BY <1>4 DEF KnownTo, TargetIn, Resumes, NoAim
  <2> SUFFICES ASSUME NEW i \in 1..Len(c)
               PROVE  LET a == c[i].aim
                      IN /\ TargetIn(P, L, a) # Nowhere => c[i].to = TargetIn(P, L, a)
                         /\ Resumes(a) => TargetIn(P, L, a) # Nowhere
    BY DEF Arrived
  <2>2. CASE i \in 1..Len(code)
    BY <1>1, <1>4, <2>2 DEF Arrived
  <2>3. CASE i = Len(code) + 1
    BY <1>1, <2>1, <2>3
  <2> QED
    BY <1>1, <2>2, <2>3
<1>5. Sound(c, D, P, L)
  BY <1>2, <1>3 DEF Sound
<1>6. Arrived(code, P, L) => (KnownTo(ins, P, L) => Arrived(c, P, L))
  BY <1>4
<1> QED
  BY <1>5, <1>6 DEF c

\* The code when the jumps at these positions are made to go to v.
PatchedCode(code, positions, v) ==
  [i \in 1..Len(code) |-> IF i \in positions THEN [code[i] EXCEPT !.to = v] ELSE code[i]]

\* A place is reached, and what waits for it is patched.
LEMMA PatchPlace ==
  ASSUME NEW code \in Seq(Instruction), NEW D \in Table, NEW P, NEW L, Sound(code, D, P, L),
         NEW x \in Aim, x # NoAim, TargetIn(P, L, x) = Nowhere, ~Resumes(x), NEW v \in Nat,
         NEW Q, NEW M,
         \A a \in Aim : Aimable(P, a) =>
            Aimable(Q, a) /\ TargetIn(Q, M, a) = IF a = x THEN v ELSE TargetIn(P, L, a),
         NEW E \in Table, \A a \in Aim : E[a] = IF a = x THEN {} ELSE D[a]
  PROVE  /\ PatchedCode(code, D[x], v) \in Seq(Instruction)
         /\ Len(PatchedCode(code, D[x], v)) = Len(code)
         /\ Sound(PatchedCode(code, D[x], v), E, Q, M)
         /\ Arrived(code, P, L) => Arrived(PatchedCode(code, D[x], v), Q, M)
<1> DEFINE c == PatchedCode(code, D[x], v)
<1>1. /\ Len(code) \in Nat
      /\ \A i \in 1..Len(code) : code[i] \in Instruction /\ code[i].aim \in Aim
  BY CodeTypes, LenProperties
<1>2. ASSUME NEW i \in 1..Len(code)
      PROVE  /\ c[i] = IF i \in D[x] THEN [code[i] EXCEPT !.to = v] ELSE code[i]
             /\ c[i] \in Instruction /\ c[i].op = code[i].op /\ c[i].aim = code[i].aim
             /\ i \in D[x] => c[i].to = v
  <2>1. c[i] = IF i \in D[x] THEN [code[i] EXCEPT !.to = v] ELSE code[i]
    BY DEF PatchedCode
  <2> HIDE DEF c
  <2>2. code[i] \in Instruction
    BY <1>1
  <2> QED
    BY <2>1, <2>2 DEF Instruction
<1>3. c \in Seq(Instruction) /\ Len(c) = Len(code)
  <2>1. c = [i \in 1..Len(code) |-> c[i]] /\ DOMAIN c = 1..Len(code)
    BY DEF PatchedCode
  <2> HIDE DEF c
  <2> QED
    BY <1>1, <1>2, <2>1
<1> HIDE DEF c
<1>4. \A i \in 1..Len(code) : i \in D[x] => code[i].aim = x
  BY DEF Sound
<1>5. \A i \in 1..Len(code) : Aimable(P, code[i].aim) /\ Aimable(Q, code[i].aim)
  BY <1>1 DEF Sound
<1>6. \A i \in 1..Len(code) :
        TargetIn(Q, M, code[i].aim) = IF code[i].aim = x THEN v ELSE TargetIn(P, L, code[i].aim)
  BY <1>1, <1>5
<1>7. v # Nowhere
  BY DEF Nowhere
<1>8. Sound(c, E, Q, M)
  <2>1. ASSUME NEW a \in Aim, NEW p \in E[a]
        PROVE  p \in 1..Len(c) /\ c[p].op # "op" /\ c[p].aim = a
    <3>1. p \in D[a]
      BY <2>1
    <3>2. p \in 1..Len(code) /\ code[p].op # "op" /\ code[p].aim = a
      BY <3>1 DEF Sound
    <3>3. c[p].op = code[p].op /\ c[p].aim = code[p].aim
      BY <1>2, <3>2
    <3> QED
      BY <1>3, <3>2, <3>3
  <2>2. ASSUME NEW i \in 1..Len(c)
        PROVE  LET a == c[i].aim
               IN /\ Aimable(Q, a)
                  /\ a # NoAim /\ TargetIn(Q, M, a) = Nowhere /\ ~Resumes(a) => i \in E[a]
    <3>1. i \in 1..Len(code) /\ c[i].aim = code[i].aim /\ code[i].aim \in Aim
      BY <1>1, <1>2, <1>3
    <3>2. Aimable(Q, code[i].aim)
      BY <1>5, <3>1
    <3>3. ASSUME code[i].aim # NoAim, TargetIn(Q, M, code[i].aim) = Nowhere, ~Resumes(code[i].aim)
          PROVE  i \in E[code[i].aim]
      <4>1. code[i].aim # x /\ TargetIn(P, L, code[i].aim) = Nowhere
        BY <1>6, <1>7, <3>1, <3>3
      <4>2. i \in D[code[i].aim]
        BY <3>1, <3>3, <4>1 DEF Sound
      <4> QED
        BY <3>1, <4>1, <4>2
    <3> QED
      BY <3>1, <3>2, <3>3
  <2> QED
    BY <2>1, <2>2 DEF Sound
<1>9. ASSUME Arrived(code, P, L)
      PROVE  Arrived(c, Q, M)
  <2> SUFFICES ASSUME NEW i \in 1..Len(c)
               PROVE  LET a == c[i].aim
                      IN /\ TargetIn(Q, M, a) # Nowhere => c[i].to = TargetIn(Q, M, a)
                         /\ Resumes(a) => TargetIn(Q, M, a) # Nowhere
    BY DEF Arrived
  <2>1. i \in 1..Len(code) /\ c[i].aim = code[i].aim /\ code[i].aim \in Aim
    BY <1>1, <1>2, <1>3
  <2>2. CASE code[i].aim = x
    <3>1. i \in D[x]
      BY <2>1, <2>2 DEF Sound
    <3> QED
      BY <1>2, <1>6, <2>1, <2>2, <3>1
  <2>3. CASE code[i].aim # x
    <3>1. i \notin D[x] /\ c[i] = code[i]
      BY <1>2, <1>4, <2>1, <2>3
    <3>2. TargetIn(Q, M, code[i].aim) = TargetIn(P, L, code[i].aim)
      BY <1>6, <2>1, <2>3
    <3> QED
      BY <1>9, <2>1, <3>1, <3>2 DEF Arrived
  <2> QED
    BY <2>2, <2>3
<1> QED
  BY <1>3, <1>8, <1>9 DEF c

\* A place is there now that no jump waits for, or a node with its places.
LEMMA PlaceUnaimed ==
  ASSUME NEW code \in Seq(Instruction), NEW D \in Table, NEW P, NEW Q, NEW L, Sound(code, D, P, L),
         \A a \in Aim : Aimable(P, a) =>
            /\ Aimable(Q, a)
            /\ Resumes(a) \/ TargetIn(Q, L, a) = TargetIn(P, L, a)
            /\ TargetIn(P, L, a) # Nowhere => TargetIn(Q, L, a) = TargetIn(P, L, a)
  PROVE  /\ Sound(code, D, Q, L)
         /\ Arrived(code, P, L) => Arrived(code, Q, L)
<1>1. \A i \in 1..Len(code) : code[i].aim \in Aim /\ Aimable(P, code[i].aim)
  BY CodeTypes DEF Sound
<1>2. \A i \in 1..Len(code) :
        LET a == code[i].aim
        IN /\ Aimable(Q, a)
           /\ Resumes(a) \/ TargetIn(Q, L, a) = TargetIn(P, L, a)
           /\ TargetIn(P, L, a) # Nowhere => TargetIn(Q, L, a) = TargetIn(P, L, a)
  BY <1>1
<1>3. Sound(code, D, Q, L)
  BY <1>2 DEF Sound
<1>4. Arrived(code, P, L) => Arrived(code, Q, L)
  BY <1>2 DEF Arrived
<1> QED
  BY <1>3, <1>4

\* The same of code that is named, so that a step can cite its facts at once.
WaitingEmit(code, D, P, L, ins, c, E) ==
  /\ code \in Seq(Instruction) /\ D \in Table /\ E \in Table /\ Sound(code, D, P, L)
  /\ ins \in Instruction /\ ins.op # "op" /\ Aimable(P, ins.aim) /\ c = Append(code, ins)
  /\ \A a \in Aim : E[a] = IF a = ins.aim THEN D[a] \cup {Len(code) + 1} ELSE D[a]

LEMMA EmittedWaiting ==
  ASSUME NEW code, NEW D, NEW P, NEW L, NEW ins, NEW c, NEW E, WaitingEmit(code, D, P, L, ins, c, E)
  PROVE  /\ Sound(c, E, P, L)
         /\ Arrived(code, P, L) /\ TargetIn(P, L, ins.aim) = Nowhere /\ ~Resumes(ins.aim)
              => Arrived(c, P, L)
<1>1. /\ code \in Seq(Instruction) /\ D \in Table /\ E \in Table /\ Sound(code, D, P, L)
      /\ ins \in Instruction /\ ins.op # "op" /\ Aimable(P, ins.aim) /\ c = Append(code, ins)
      /\ \A a \in Aim : E[a] = IF a = ins.aim THEN D[a] \cup {Len(code) + 1} ELSE D[a]
  BY DEF WaitingEmit
<1>2. /\ Sound(Append(code, ins), E, P, L)
      /\ Arrived(code, P, L) /\ TargetIn(P, L, ins.aim) = Nowhere /\ ~Resumes(ins.aim)
           => Arrived(Append(code, ins), P, L)
  BY <1>1, EmitWaiting
<1> QED
  BY <1>1, <1>2

KnownEmit(code, D, P, L, ins, c) ==
  /\ code \in Seq(Instruction) /\ D \in Table /\ Sound(code, D, P, L)
  /\ ins \in Instruction /\ Aimable(P, ins.aim) /\ c = Append(code, ins)
  /\ ins.aim = NoAim \/ TargetIn(P, L, ins.aim) # Nowhere \/ Resumes(ins.aim)

LEMMA EmittedKnown ==
  ASSUME NEW code, NEW D, NEW P, NEW L, NEW ins, NEW c, KnownEmit(code, D, P, L, ins, c)
  PROVE  /\ Sound(c, D, P, L)
         /\ Arrived(code, P, L) => (KnownTo(ins, P, L) => Arrived(c, P, L))
<1>1. /\ code \in Seq(Instruction) /\ D \in Table /\ Sound(code, D, P, L)
      /\ ins \in Instruction /\ Aimable(P, ins.aim) /\ c = Append(code, ins)
      /\ ins.aim = NoAim \/ TargetIn(P, L, ins.aim) # Nowhere \/ Resumes(ins.aim)
  BY DEF KnownEmit
<1>2. /\ Sound(Append(code, ins), D, P, L)
      /\ Arrived(code, P, L) => (KnownTo(ins, P, L) => Arrived(Append(code, ins), P, L))
  BY <1>1, EmitKnown
<1> QED
  BY <1>1, <1>2

Patching(code, D, P, L, x, v, Q, M, E, c) ==
  /\ code \in Seq(Instruction) /\ D \in Table /\ E \in Table /\ Sound(code, D, P, L)
  /\ x \in Aim /\ x # NoAim /\ TargetIn(P, L, x) = Nowhere /\ ~Resumes(x) /\ v \in Nat
  /\ \A a \in Aim : Aimable(P, a) =>
       Aimable(Q, a) /\ TargetIn(Q, M, a) = IF a = x THEN v ELSE TargetIn(P, L, a)
  /\ \A a \in Aim : E[a] = IF a = x THEN {} ELSE D[a]
  /\ c = PatchedCode(code, D[x], v)

LEMMA Patches ==
  ASSUME NEW code, NEW D, NEW P, NEW L, NEW x, NEW v, NEW Q, NEW M, NEW E, NEW c,
         Patching(code, D, P, L, x, v, Q, M, E, c)
  PROVE  /\ c \in Seq(Instruction) /\ Len(c) = Len(code)
         /\ Sound(c, E, Q, M)
         /\ Arrived(code, P, L) => Arrived(c, Q, M)
<1>1. /\ code \in Seq(Instruction) /\ D \in Table /\ E \in Table /\ Sound(code, D, P, L)
      /\ x \in Aim /\ x # NoAim /\ TargetIn(P, L, x) = Nowhere /\ ~Resumes(x) /\ v \in Nat
      /\ \A a \in Aim : Aimable(P, a) =>
           Aimable(Q, a) /\ TargetIn(Q, M, a) = IF a = x THEN v ELSE TargetIn(P, L, a)
      /\ \A a \in Aim : E[a] = IF a = x THEN {} ELSE D[a]
      /\ c = PatchedCode(code, D[x], v)
  BY DEF Patching
<1>2. /\ PatchedCode(code, D[x], v) \in Seq(Instruction)
      /\ Len(PatchedCode(code, D[x], v)) = Len(code)
      /\ Sound(PatchedCode(code, D[x], v), E, Q, M)
      /\ Arrived(code, P, L) => Arrived(PatchedCode(code, D[x], v), Q, M)
  BY <1>1, PatchPlace
<1> QED
  BY <1>1, <1>2

Unaiming(code, D, P, Q, L) ==
  /\ code \in Seq(Instruction) /\ D \in Table /\ Sound(code, D, P, L)
  /\ \A a \in Aim : Aimable(P, a) =>
       /\ Aimable(Q, a)
       /\ Resumes(a) \/ TargetIn(Q, L, a) = TargetIn(P, L, a)
       /\ TargetIn(P, L, a) # Nowhere => TargetIn(Q, L, a) = TargetIn(P, L, a)

LEMMA Unaimed ==
  ASSUME NEW code, NEW D, NEW P, NEW Q, NEW L, Unaiming(code, D, P, Q, L)
  PROVE  Sound(code, D, Q, L) /\ (Arrived(code, P, L) => Arrived(code, Q, L))
BY PlaceUnaimed DEF Unaiming

-----------------------------------------------------------------------------
(* Stacks.                                                                 *)

LEMMA ToSetIs ==
  ASSUME NEW S, NEW s \in Seq(S)
  PROVE  ToSet(s) = {s[i] : i \in 1..Len(s)} /\ ToSet(s) \subseteq S
<1>1. DOMAIN s = 1..Len(s) /\ \A i \in 1..Len(s) : s[i] \in S
  BY LenProperties
<1> QED
  BY <1>1 DEF ToSet

LEMMA ToSetEmpty == ToSet(<<>>) = {}
BY DEF ToSet

LEMMA ToSetAppend ==
  ASSUME NEW S, NEW s \in Seq(S), NEW x \in S
  PROVE  Append(s, x) \in Seq(S) /\ ToSet(Append(s, x)) = ToSet(s) \cup {x}
<1> DEFINE t == Append(s, x)
<1>1. /\ t \in Seq(S) /\ Len(t) = Len(s) + 1 /\ Len(s) \in Nat
      /\ \A i \in 1..Len(s) : t[i] = s[i]
      /\ t[Len(s) + 1] = x
  BY AppendProperties, LenProperties
<1> HIDE DEF t
<1>2. ToSet(t) = {t[i] : i \in 1..(Len(s) + 1)} /\ ToSet(s) = {s[i] : i \in 1..Len(s)}
  BY <1>1, ToSetIs
<1>3. 1..(Len(s) + 1) = 1..Len(s) \cup {Len(s) + 1}
  BY <1>1
<1>4. {t[i] : i \in 1..(Len(s) + 1)} = {s[i] : i \in 1..Len(s)} \cup {x}
  BY <1>1, <1>3
<1> QED
  BY <1>1, <1>2, <1>4 DEF t

\* Breaks are handed down in the order in which they are popped.
LEMMA ToSetHandedDown ==
  ASSUME NEW S, NEW s \in Seq(S), NEW t \in Seq(S)
  PROVE  /\ s \o Reverse(t) \in Seq(S)
         /\ ToSet(s \o Reverse(t)) = ToSet(s) \cup ToSet(t)
<1> DEFINE r == Reverse(t)
           u == s \o r
<1>1. /\ Len(s) \in Nat /\ Len(t) \in Nat
      /\ \A i \in 1..Len(s) : s[i] \in S
      /\ \A i \in 1..Len(t) : t[i] \in S
  BY LenProperties
<1>2. r = [i \in 1..Len(t) |-> t[(Len(t) - i) + 1]]
  BY DEF Reverse
<1>3. \A i \in 1..Len(t) : (Len(t) - i) + 1 \in 1..Len(t)
  BY <1>1
<1>4. /\ r \in Seq(S) /\ Len(r) = Len(t)
      /\ \A i \in 1..Len(t) : r[i] = t[(Len(t) - i) + 1]
  <2>1. \A i \in 1..Len(t) : r[i] = t[(Len(t) - i) + 1] /\ r[i] \in S
    BY <1>1, <1>2, <1>3
  <2> HIDE DEF r
  <2> QED
    BY <1>1, <1>2, <2>1
<1> HIDE DEF r
<1>5. /\ u \in Seq(S) /\ Len(u) = Len(s) + Len(t)
      /\ \A i \in 1..(Len(s) + Len(t)) : u[i] = IF i <= Len(s) THEN s[i] ELSE r[i - Len(s)]
  <2>1. r \in Seq(S)
    BY <1>4
  <2>2. /\ s \o r \in Seq(S) /\ Len(s \o r) = Len(s) + Len(r)
        /\ \A i \in 1..(Len(s) + Len(r)) : (s \o r)[i] = IF i <= Len(s) THEN s[i] ELSE r[i - Len(s)]
    BY <2>1, ConcatProperties
  <2>3. u = s \o r
    OBVIOUS
  <2> HIDE DEF u
  <2> QED
    BY <1>4, <2>2, <2>3
<1> HIDE DEF u
<1>6. /\ ToSet(u) = {u[i] : i \in 1..(Len(s) + Len(t))}
      /\ ToSet(s) = {s[i] : i \in 1..Len(s)} /\ ToSet(t) = {t[i] : i \in 1..Len(t)}
  BY <1>5, ToSetIs
<1>7. ASSUME NEW i \in 1..(Len(s) + Len(t))
      PROVE  u[i] \in ToSet(s) \cup ToSet(t)
  <2>1. CASE i <= Len(s)
    BY <1>1, <1>5, <1>6, <2>1
  <2>2. CASE i > Len(s)
    <3>1. i - Len(s) \in 1..Len(t)
      BY <1>1, <2>2
    <3>2. u[i] = t[(Len(t) - (i - Len(s))) + 1]
      BY <1>1, <1>4, <1>5, <2>2, <3>1, SMTT(30)
    <3> QED
      BY <1>3, <1>6, <3>1, <3>2
  <2> QED
    BY <1>1, <2>1, <2>2
<1>8. ASSUME NEW i \in 1..Len(s)
      PROVE  s[i] \in ToSet(u)
  <2>1. i \in 1..(Len(s) + Len(t)) /\ u[i] = s[i]
    BY <1>1, <1>5
  <2> QED
    BY <1>6, <2>1
<1>9. ASSUME NEW i \in 1..Len(t)
      PROVE  t[i] \in ToSet(u)
  <2> DEFINE j == (Len(t) - i) + 1
  <2>1. /\ j \in 1..Len(t) /\ (Len(t) - j) + 1 = i
        /\ Len(s) + j \in 1..(Len(s) + Len(t)) /\ ~(Len(s) + j <= Len(s)) /\ (Len(s) + j) - Len(s) = j
    BY <1>1
  <2> HIDE DEF j
  <2>2. u[Len(s) + j] = t[i]
    BY <1>4, <1>5, <2>1
  <2> QED
    BY <1>6, <2>1, <2>2
<1>10. ToSet(u) = ToSet(s) \cup ToSet(t)
  BY <1>6, <1>7, <1>8, <1>9
<1> QED
  BY <1>5, <1>10 DEF u, r

LEMMA FrontAndLast ==
  ASSUME NEW S, NEW s \in Seq(S), s # <<>>
  PROVE  /\ Len(s) \in Nat \ {0} /\ Len(s) \in 1..Len(s)
         /\ Front(s) \in Seq(S) /\ Len(Front(s)) = Len(s) - 1
         /\ \A i \in 1..(Len(s) - 1) : Front(s)[i] = s[i]
         /\ Last(s) = s[Len(s)] /\ Last(s) \in S
<1>1. Len(s) \in Nat \ {0} /\ \A i \in 1..Len(s) : s[i] \in S
  BY EmptySeq, LenProperties
<1> DEFINE f == SubSeq(s, 1, Len(s) - 1)
<1>2. /\ f \in Seq(S)
      /\ Len(f) = IF 1 <= Len(s) - 1 THEN Len(s) - 1 - 1 + 1 ELSE 0
      /\ \A i \in 1..(Len(s) - 1 - 1 + 1) : f[i] = s[1 + i - 1]
  BY <1>1, SubSeqProperties
<1>3. Front(s) = f /\ Last(s) = s[Len(s)]
  BY DEF Front, Last
<1> HIDE DEF f
<1>4. Len(f) = Len(s) - 1
  <2>1. CASE 1 <= Len(s) - 1
    BY <1>1, <1>2, <2>1
  <2>2. CASE Len(s) = 1
    <3>1. ~(1 <= Len(s) - 1)
      BY <2>2
    <3> QED
      BY <1>2, <2>2, <3>1
  <2>3. ASSUME NEW n \in Nat \ {0}
        PROVE  1 <= n - 1 \/ n = 1
    OBVIOUS
  <2>4. 1 <= Len(s) - 1 \/ Len(s) = 1
    BY <1>1, <2>3
  <2> QED
    BY <2>1, <2>2, <2>4
<1>5. \A i \in 1..(Len(s) - 1) : f[i] = s[i]
  <2>1. \A i \in 1..(Len(s) - 1) : i \in 1..(Len(s) - 1 - 1 + 1) /\ 1 + i - 1 = i
    BY <1>1
  <2> QED
    BY <1>2, <2>1
<1> QED
  BY <1>1, <1>2, <1>3, <1>4, <1>5

LEMMA GroupsSplit ==
  ASSUME NEW n, n \in Nat \ {0}
  PROVE  \A scs, g, a : OfGroups(scs, g, n, a) =
           OfGroups(scs, g, n - 1, a)
             \cup (IF a = [id |-> g[n].id, place |-> "end"] THEN ToSet(scs[n]) \cap Nat ELSE {})
<1>1. 1..n = 1..(n - 1) \cup {n}
  OBVIOUS
<1> QED
  BY <1>1 DEF OfGroups

LEMMA GroupsSame ==
  ASSUME NEW scs, NEW g, NEW tcs, NEW h, NEW n, NEW a,
         \A k \in 1..n : tcs[k] = scs[k] /\ h[k].id = g[k].id
  PROVE  OfGroups(tcs, h, n, a) = OfGroups(scs, g, n, a)
BY DEF OfGroups

-----------------------------------------------------------------------------
(* The back end.                                                           *)

LEMMA MachineFields ==
  ASSUME NEW m \in Machine
  PROVE  /\ m.code \in Seq(Instruction) /\ m.branches \in Seq(Branch)
         /\ m.shortcircuits \in Seq(Seq(Nat)) /\ m.returns \in Seq(Nat)
         /\ m.goto_labels \in [Labels -> [position : Int, waiting : Seq(Nat)]]
         /\ m.fault \in BOOLEAN /\ size(m) \in Nat
<1>1. /\ m.code \in Seq(Instruction) /\ m.branches \in Seq(Branch)
      /\ m.shortcircuits \in Seq(Seq(Nat)) /\ m.returns \in Seq(Nat)
      /\ m.goto_labels \in [Labels -> [position : Int, waiting : Seq(Nat)]]
      /\ m.fault \in BOOLEAN
  BY DEF Machine
<1> QED
  BY <1>1, LenProperties DEF size

LEMMA BranchFields ==
  ASSUME NEW bs \in Seq(Branch)
  PROVE  /\ Len(bs) \in Nat
         /\ \A k \in 1..Len(bs) :
              /\ bs[k] \in Branch /\ bs[k].branch_start \in Int /\ bs[k].curr_jump \in Int
              /\ bs[k].end_stack \in Seq(Nat) /\ ToSet(bs[k].end_stack) \subseteq Nat
              /\ bs[k].is_loop \in BOOLEAN
<1>1. Len(bs) \in Nat /\ \A k \in 1..Len(bs) : bs[k] \in Branch
  BY LenProperties
<1>2. \A b \in Branch : /\ b.branch_start \in Int /\ b.curr_jump \in Int
                        /\ b.end_stack \in Seq(Nat) /\ b.is_loop \in BOOLEAN
  BY DEF Branch
<1> QED
  BY <1>1, <1>2, ToSetIs

LEMMA BranchJumping ==
  ASSUME NEW r \in Branch, NEW v \in Int
  PROVE  [r EXCEPT !.curr_jump = v] \in Branch
BY DEF Branch

LEMMA BranchEnding ==
  ASSUME NEW r \in Branch, NEW s \in Seq(Nat)
  PROVE  [r EXCEPT !.end_stack = s] \in Branch
BY DEF Branch

\* What an operator leaves as it was.
SameBut(fields, m, n) ==
  /\ "code" \in fields \/ n.code = m.code
  /\ "branches" \in fields \/ n.branches = m.branches
  /\ "shortcircuits" \in fields \/ n.shortcircuits = m.shortcircuits
  /\ "returns" \in fields \/ n.returns = m.returns
  /\ "goto_labels" \in fields \/ n.goto_labels = m.goto_labels
  /\ "fault" \in fields \/ n.fault = m.fault

LEMMA EmitIs ==
  ASSUME NEW m \in Machine, NEW op \in Ops, NEW aim \in Aim
  PROVE  LET e == emit(m, op, aim)
             ins == [op |-> op, to |-> size(m) + 1, aim |-> aim]
         IN /\ e \in Machine /\ SameBut({"code"}, m, e)
            /\ ins \in Instruction /\ e.code = Append(m.code, ins) /\ size(e) = size(m) + 1
            /\ size(e) \in 1..size(e) /\ e.code[size(e)] = ins
<1> DEFINE ins == [op |-> op, to |-> size(m) + 1, aim |-> aim]
           e == emit(m, op, aim)
<1>0. size(m) \in Nat /\ m.code \in Seq(Instruction)
  BY MachineFields
<1>1. ins \in Instruction /\ size(m) \in Nat /\ m.code \in Seq(Instruction)
  BY <1>0 DEF Instruction, Ops
<1>2. e = [m EXCEPT !.code = Append(m.code, ins)]
  BY DEF emit
<1> HIDE DEF ins
<1>3. /\ Append(m.code, ins) \in Seq(Instruction) /\ Len(Append(m.code, ins)) = size(m) + 1
      /\ Append(m.code, ins)[size(m) + 1] = ins
  BY <1>1, AppendProperties DEF size
<1>4. e \in Machine /\ e.code = Append(m.code, ins) /\ SameBut({"code"}, m, e)
  BY <1>2, <1>3 DEF Machine, SameBut
<1> HIDE DEF e
<1> QED
  BY <1>1, <1>3, <1>4 DEF size, ins, e

LEMMA PatchedIs ==
  ASSUME NEW m \in Machine, NEW S
  PROVE  /\ Patched(m, S) \in Machine /\ SameBut({"code"}, m, Patched(m, S))
         /\ Patched(m, S).code = PatchedCode(m.code, S, size(m)) /\ size(Patched(m, S)) = size(m)
<1> DEFINE c == PatchedCode(m.code, S, size(m))
<1>1. size(m) \in Nat /\ size(m) = Len(m.code) /\ m.code \in Seq(Instruction)
  BY MachineFields DEF size
<1>2. \A i \in 1..Len(m.code) : c[i] \in Instruction
  <2>1. \A i \in 1..Len(m.code) : m.code[i] \in Instruction
    BY <1>1
  <2>2. \A ins \in Instruction : [ins EXCEPT !.to = size(m)] \in Instruction
    BY <1>1 DEF Instruction
  <2> QED
    BY <2>1, <2>2 DEF PatchedCode
<1>3. c = [i \in 1..Len(m.code) |-> c[i]]
  BY DEF PatchedCode
<1>4. Patched(m, S) = [m EXCEPT !.code = c]
  BY DEF Patched, PatchedCode, size
<1> HIDE DEF c
<1>5. c \in Seq(Instruction) /\ Len(c) = size(m)
  <2>1. Len(m.code) \in Nat
    BY <1>1
  <2>2. c \in [1..Len(m.code) -> Instruction]
    BY <1>2, <1>3
  <2>3. Len(c) = Len(m.code)
    BY <2>1, <2>2
  <2> QED
    BY <1>1, <2>1, <2>2, <2>3
<1>6. Patched(m, S) \in Machine /\ SameBut({"code"}, m, Patched(m, S)) /\ Patched(m, S).code = c
  BY <1>4, <1>5 DEF Machine, SameBut
<1> QED
  BY <1>5, <1>6 DEF c, size

\* Patching twice at one size is patching once.
LEMMA PatchedTwice ==
  ASSUME NEW code \in Seq(Instruction), NEW S, NEW T, NEW v \in Nat
  PROVE  PatchedCode(PatchedCode(code, S, v), T, v) = PatchedCode(code, S \cup T, v)
<1> DEFINE c == PatchedCode(code, S, v)
<1>1. Len(code) \in Nat /\ \A i \in 1..Len(code) : code[i] \in Instruction
  BY LenProperties
<1>2. \A i \in 1..Len(code) : c[i] = IF i \in S THEN [code[i] EXCEPT !.to = v] ELSE code[i]
  BY DEF PatchedCode
<1>3. c = [i \in 1..Len(code) |-> c[i]]
  BY DEF PatchedCode
<1> HIDE DEF c
<1>4. Len(c) = Len(code)
  BY <1>1, <1>3
<1>5. \A i \in 1..Len(code) :
        (IF i \in T THEN [c[i] EXCEPT !.to = v] ELSE c[i])
          = IF i \in S \cup T THEN [code[i] EXCEPT !.to = v] ELSE code[i]
  <2> SUFFICES ASSUME NEW i \in 1..Len(code)
               PROVE  (IF i \in T THEN [c[i] EXCEPT !.to = v] ELSE c[i])
                        = IF i \in S \cup T THEN [code[i] EXCEPT !.to = v] ELSE code[i]
    OBVIOUS
  <2>1. \A ins \in Instruction : [[ins EXCEPT !.to = v] EXCEPT !.to = v] = [ins EXCEPT !.to = v]
    BY DEF Instruction
  <2> QED
    BY <1>1, <1>2, <2>1
<1>6. PatchedCode(c, T, v) = PatchedCode(code, S \cup T, v)
  BY <1>4, <1>5 DEF PatchedCode
<1> QED
  BY <1>6 DEF c

LEMMA SetJumpIs ==
  ASSUME NEW m \in Machine, m.branches # <<>>
  PROVE  /\ set_jump(m) \in Machine /\ SameBut({"branches"}, m, set_jump(m))
         /\ Len(set_jump(m).branches) = Len(m.branches)
         /\ \A k \in 1..Len(m.branches) :
              set_jump(m).branches[k] = IF k = Len(m.branches)
                                        THEN [m.branches[k] EXCEPT !.curr_jump = size(m)]
                                        ELSE m.branches[k]
<1> DEFINE n == Len(m.branches)
           b == [m.branches[n] EXCEPT !.curr_jump = size(m)]
           bs == [m.branches EXCEPT ![n] = b]
<1>1. m.branches \in Seq(Branch) /\ size(m) \in Nat
  BY MachineFields
<1>2. n \in 1..n /\ m.branches[n] \in Branch
  BY <1>1, FrontAndLast
<1>3. b \in Branch
  <2>1. size(m) \in Int
    BY <1>1
  <2>2. [m.branches[n] EXCEPT !.curr_jump = size(m)] \in Branch
    BY <1>2, <2>1, BranchJumping
  <2> QED
    BY <2>2
<1>4. set_jump(m) = [m EXCEPT !.branches = bs]
  BY DEF set_jump
<1> HIDE DEF b
<1>5. bs \in Seq(Branch) /\ Len(bs) = n /\ \A k \in 1..n : bs[k] = IF k = n THEN b ELSE m.branches[k]
  BY <1>1, <1>2, <1>3, ExceptSeq
<1> HIDE DEF bs
<1>6. set_jump(m) \in Machine /\ SameBut({"branches"}, m, set_jump(m)) /\ set_jump(m).branches = bs
  BY <1>4, <1>5 DEF Machine, SameBut
<1> QED
  BY <1>5, <1>6 DEF b

LEMMA WriteJumpIs ==
  ASSUME NEW m \in Machine, m.branches # <<>>
  PROVE  /\ write_jump(m) \in Machine /\ SameBut({"code"}, m, write_jump(m))
         /\ write_jump(m).code = PatchedCode(m.code, {m.branches[Len(m.branches)].curr_jump}, size(m))
         /\ size(write_jump(m)) = size(m)
BY PatchedIs DEF write_jump, Last

LEMMA PushBranchIs ==
  ASSUME NEW m \in Machine, NEW loop \in BOOLEAN
  PROVE  LET p == push_branch(m, loop)
             n == Len(m.branches)
         IN /\ p \in Machine /\ SameBut({"branches"}, m, p)
            /\ Len(p.branches) = n + 1 /\ n \in Nat
            /\ \A k \in 1..n : p.branches[k] = m.branches[k]
            /\ p.branches[n + 1] = [branch_start |-> IF loop THEN size(m) ELSE Nowhere,
                                    curr_jump |-> Nowhere, end_stack |-> <<>>, is_loop |-> loop]
<1> DEFINE b == [branch_start |-> IF loop THEN size(m) ELSE Nowhere,
                 curr_jump |-> Nowhere, end_stack |-> <<>>, is_loop |-> loop]
           bs == Append(m.branches, b)
<1>1. m.branches \in Seq(Branch) /\ b \in Branch
  BY MachineFields DEF Branch, Nowhere
<1>2. push_branch(m, loop) = [m EXCEPT !.branches = bs]
  BY DEF push_branch
<1> HIDE DEF b
<1>3. /\ bs \in Seq(Branch) /\ Len(bs) = Len(m.branches) + 1 /\ Len(m.branches) \in Nat
      /\ \A k \in 1..Len(m.branches) : bs[k] = m.branches[k]
      /\ bs[Len(m.branches) + 1] = b
  BY <1>1, AppendProperties, LenProperties
<1> HIDE DEF bs
<1>4. /\ push_branch(m, loop) \in Machine /\ SameBut({"branches"}, m, push_branch(m, loop))
      /\ push_branch(m, loop).branches = bs
  BY <1>2, <1>3 DEF Machine, SameBut
<1> QED
  BY <1>3, <1>4 DEF b

\* What is popped is patched if it is a loop, and else handed down.
LEMMA PopBranchIs ==
  ASSUME NEW m \in Machine, m.branches # <<>>
  PROVE  LET n == Len(m.branches)
             top == m.branches[n]
             p == pop_branch(m)
         IN /\ p \in Machine /\ SameBut({"code", "branches", "fault"}, m, p)
            /\ p.code = IF top.is_loop THEN PatchedCode(m.code, ToSet(top.end_stack), size(m)) ELSE m.code
            /\ n \in Nat \ {0}
            /\ p.fault \/ p.fault = m.fault
            /\ p.fault = m.fault =>
                 \/ m.fault /\ p.branches = m.branches
                 \/ /\ ~top.is_loop /\ n = 1 => top.end_stack = <<>>
                    /\ Len(p.branches) = n - 1
                    /\ \A k \in 1..(n - 1) :
                         /\ p.branches[k].branch_start = m.branches[k].branch_start
                         /\ p.branches[k].curr_jump = m.branches[k].curr_jump
                         /\ p.branches[k].is_loop = m.branches[k].is_loop
                         /\ ToSet(p.branches[k].end_stack) =
                              ToSet(m.branches[k].end_stack)
                                \cup (IF ~top.is_loop /\ k = n - 1 THEN ToSet(top.end_stack) ELSE {})
<1> DEFINE n == Len(m.branches)
           top == m.branches[n]
           rest == Front(m.branches)
           ends == top.end_stack
<1>1. /\ n \in Nat \ {0} /\ n \in Nat /\ n \in 1..n
      /\ Last(m.branches) = top /\ top \in Branch /\ ends \in Seq(Nat)
      /\ rest \in Seq(Branch) /\ Len(rest) = n - 1
      /\ \A k \in 1..(n - 1) : rest[k] = m.branches[k]
  <2>1. m.branches \in Seq(Branch)
    BY MachineFields
  <2>2. \A k \in 1..n : m.branches[k].end_stack \in Seq(Nat)
    BY <2>1, BranchFields
  <2> QED
    BY <2>1, <2>2, FrontAndLast
<1>2. pop_branch(m) = IF top.is_loop THEN [Patched(m, ToSet(ends)) EXCEPT !.branches = rest]
                      ELSE IF ends = <<>> THEN [m EXCEPT !.branches = rest]
                      ELSE IF rest = <<>> THEN [m EXCEPT !.fault = TRUE]
                      ELSE [m EXCEPT !.branches =
                              [rest EXCEPT ![Len(rest)].end_stack = @ \o Reverse(ends)]]
  BY <1>1 DEF pop_branch
<1> HIDE DEF rest, top, n
<1>3. CASE top.is_loop
  <2>1. /\ Patched(m, ToSet(ends)) \in Machine /\ SameBut({"code"}, m, Patched(m, ToSet(ends)))
        /\ Patched(m, ToSet(ends)).code = PatchedCode(m.code, ToSet(ends), size(m))
    BY PatchedIs
  <2>2. pop_branch(m) = [Patched(m, ToSet(ends)) EXCEPT !.branches = rest]
    BY <1>2, <1>3
  <2>3. /\ pop_branch(m) \in Machine
        /\ pop_branch(m).branches = rest
        /\ SameBut({"code", "branches"}, m, pop_branch(m))
        /\ pop_branch(m).code = PatchedCode(m.code, ToSet(ends), size(m))
    BY <1>1, <2>1, <2>2 DEF Machine, SameBut
  <2> QED
    BY <1>1, <1>3, <2>3 DEF SameBut, n, top
<1>4. CASE ~top.is_loop /\ ends = <<>>
  <2>1. pop_branch(m) = [m EXCEPT !.branches = rest]
    BY <1>2, <1>4
  <2>2. pop_branch(m) \in Machine /\ pop_branch(m).branches = rest /\ SameBut({"branches"}, m, pop_branch(m))
    BY <1>1, <2>1 DEF Machine, SameBut
  <2> QED
    BY <1>1, <1>4, <2>2, ToSetEmpty DEF SameBut, n, top
<1>5. CASE ~top.is_loop /\ ends # <<>> /\ rest = <<>>
  <2>1. pop_branch(m) = [m EXCEPT !.fault = TRUE]
    BY <1>2, <1>5
  <2>2. /\ pop_branch(m) \in Machine /\ SameBut({"fault"}, m, pop_branch(m))
        /\ pop_branch(m).fault = TRUE /\ m.fault \in BOOLEAN
    BY <2>1 DEF Machine, SameBut
  <2>3. pop_branch(m).fault = m.fault => m.fault
    BY <2>2
  <2> QED
    BY <1>1, <1>5, <2>2, <2>3 DEF SameBut, n, top
<1>6. CASE ~top.is_loop /\ ends # <<>> /\ rest # <<>>
  <2> DEFINE down == rest[Len(rest)].end_stack \o Reverse(ends)
             b == [rest[Len(rest)] EXCEPT !.end_stack = down]
             bs == [rest EXCEPT ![Len(rest)] = b]
  <2>1. /\ n - 1 \in 1..(n - 1) /\ Len(rest) = n - 1 /\ rest[n - 1] \in Branch /\ n # 1
        /\ rest[n - 1] = m.branches[n - 1]
        /\ rest[n - 1].end_stack \in Seq(Nat)
    BY <1>1, <1>6, FrontAndLast, BranchFields
  <2>2. down \in Seq(Nat) /\ ToSet(down) = ToSet(rest[n - 1].end_stack) \cup ToSet(ends)
    BY <1>1, <2>1, ToSetHandedDown
  <2>3. pop_branch(m) = [m EXCEPT !.branches = bs]
    BY <1>2, <1>6
  <2> HIDE DEF down
  <2>4. /\ b \in Branch /\ b.end_stack = down
        /\ b.branch_start = rest[n - 1].branch_start /\ b.curr_jump = rest[n - 1].curr_jump
        /\ b.is_loop = rest[n - 1].is_loop
    <3>1. \A r \in Branch : LET c == [r EXCEPT !.end_stack = down]
                            IN /\ c.end_stack = down /\ c.branch_start = r.branch_start
                               /\ c.curr_jump = r.curr_jump /\ c.is_loop = r.is_loop
      BY DEF Branch
    <3>2. \A r \in Branch : [r EXCEPT !.end_stack = down] \in Branch
      BY <2>2, BranchEnding
    <3> QED
      BY <2>1, <3>1, <3>2
  <2> HIDE DEF b
  <2>5. bs \in Seq(Branch) /\ Len(bs) = n - 1 /\ \A k \in 1..(n - 1) : bs[k] = IF k = n - 1 THEN b ELSE rest[k]
    BY <1>1, <2>1, <2>4, ExceptSeq
  <2> HIDE DEF bs
  <2>6. pop_branch(m) \in Machine /\ pop_branch(m).branches = bs /\ SameBut({"branches"}, m, pop_branch(m))
    BY <2>3, <2>5 DEF Machine, SameBut
  <2>7. \A k \in 1..(n - 1) :
          /\ bs[k].branch_start = m.branches[k].branch_start
          /\ bs[k].curr_jump = m.branches[k].curr_jump
          /\ bs[k].is_loop = m.branches[k].is_loop
          /\ ToSet(bs[k].end_stack) =
               ToSet(m.branches[k].end_stack) \cup (IF k = n - 1 THEN ToSet(ends) ELSE {})
    BY <1>1, <2>1, <2>2, <2>4, <2>5
  <2> QED
    BY <1>1, <1>6, <2>1, <2>5, <2>6, <2>7 DEF SameBut, n, top
<1> QED
  BY <1>3, <1>4, <1>5, <1>6

-----------------------------------------------------------------------------
(* Places.                                                                 *)

PlaceNames == {"start", "resume", "other", "end"}

\* Q is P with that place of that node.
WithPlace(P, i, pl, v, Q) ==
  /\ P \in Seq(Places) /\ i \in 1..Len(P) /\ pl \in PlaceNames /\ v \in Int
  /\ Q = [P EXCEPT ![i][pl] = v]

LEMMA PlacesWith ==
  ASSUME NEW P, NEW i, NEW pl, NEW v, NEW Q, WithPlace(P, i, pl, v, Q)
  PROVE  /\ Q \in Seq(Places) /\ Len(Q) = Len(P)
         /\ \A j \in 1..Len(P), q \in PlaceNames : Q[j][q] = IF j = i /\ q = pl THEN v ELSE P[j][q]
<1> DEFINE r == [P[i] EXCEPT ![pl] = v]
<1>0. /\ P \in Seq(Places) /\ i \in 1..Len(P) /\ pl \in PlaceNames /\ v \in Int
      /\ Q = [P EXCEPT ![i][pl] = v]
  BY DEF WithPlace
<1>1. P[i] \in Places
  BY <1>0, LenProperties
<1>2. r \in Places /\ \A q \in PlaceNames : r[q] = IF q = pl THEN v ELSE P[i][q]
  BY <1>0, <1>1 DEF Places, PlaceNames
<1>3. Q = [P EXCEPT ![i] = r]
  BY <1>0
<1> HIDE DEF r
<1>4. Q \in Seq(Places) /\ Len(Q) = Len(P) /\ \A j \in 1..Len(P) : Q[j] = IF j = i THEN r ELSE P[j]
  <2>1. P \in Seq(Places) /\ i \in 1..Len(P) /\ r \in Places
    BY <1>0, <1>2
  <2> DEFINE R == [P EXCEPT ![i] = r]
  <2>2. R \in Seq(Places) /\ Len(R) = Len(P) /\ \A j \in 1..Len(P) : R[j] = IF j = i THEN r ELSE P[j]
    BY <2>1, ExceptSeq
  <2> QED
    BY <1>3, <2>2
<1>5. ASSUME NEW j \in 1..Len(P), NEW q \in PlaceNames
      PROVE  Q[j][q] = IF j = i /\ q = pl THEN v ELSE P[j][q]
  <2>1. CASE j = i
    <3>1. Q[j] = r
      BY <1>4, <2>1
    <3> QED
      BY <1>2, <2>1, <3>1
  <2>2. CASE j # i
    <3>1. Q[j] = P[j]
      BY <1>4, <2>2
    <3> QED
      BY <2>2, <3>1
  <2> QED
    BY <2>1, <2>2
<1> QED
  BY <1>4, <1>5

\* Only the aim of that place has another target now.
LEMMA TargetWith ==
  ASSUME NEW P, NEW i, NEW pl, NEW v, NEW Q, WithPlace(P, i, pl, v, Q)
  PROVE  \A L : \A a \in Aim : Aimable(P, a) =>
           /\ Aimable(Q, a)
           /\ TargetIn(Q, L, a) = IF a = [id |-> i, place |-> pl] THEN v ELSE TargetIn(P, L, a)
<1> SUFFICES ASSUME NEW L, NEW a \in Aim, Aimable(P, a)
             PROVE  /\ Aimable(Q, a)
                    /\ TargetIn(Q, L, a) = IF a = [id |-> i, place |-> pl] THEN v ELSE TargetIn(P, L, a)
  OBVIOUS
<1> DEFINE x == [id |-> i, place |-> pl]
<1>0. /\ P \in Seq(Places) /\ i \in 1..Len(P) /\ pl \in PlaceNames /\ v \in Int /\ Len(Q) = Len(P)
      /\ \A j \in 1..Len(P), q \in PlaceNames : Q[j][q] = IF j = i /\ q = pl THEN v ELSE P[j][q]
  <2>1. P \in Seq(Places) /\ i \in 1..Len(P) /\ pl \in PlaceNames /\ v \in Int
    BY DEF WithPlace
  <2> QED
    BY <2>1, PlacesWith
<1>1. Len(P) \in Nat /\ i # 0 /\ a.id \in Nat
  BY <1>0, LenProperties DEF Aim
<1>2. a = x <=> a.id = i /\ a.place = pl
  BY DEF Aim
<1>3. x # NoAim /\ x.id # ByLabel
  BY <1>1 DEF NoAim, ByLabel
<1> HIDE DEF x
<1>4. Aimable(Q, a)
  BY <1>0 DEF Aimable
<1>5. ASSUME a = NoAim
      PROVE  TargetIn(Q, L, a) = IF a = x THEN v ELSE TargetIn(P, L, a)
  <2>1. a # x
    BY <1>3, <1>5
  <2>2. TargetIn(Q, L, a) = Nowhere /\ TargetIn(P, L, a) = Nowhere
    BY <1>5 DEF TargetIn
  <2> QED
    BY <2>1, <2>2
<1>6. ASSUME a # NoAim, a.id = ByLabel
      PROVE  TargetIn(Q, L, a) = IF a = x THEN v ELSE TargetIn(P, L, a)
  <2>1. a # x
    BY <1>3, <1>6
  <2>2. TargetIn(Q, L, a) = L[a.place] /\ TargetIn(P, L, a) = L[a.place]
    BY <1>6 DEF TargetIn
  <2> QED
    BY <2>1, <2>2
<1>7. ASSUME a # NoAim, a.id # ByLabel
      PROVE  TargetIn(Q, L, a) = IF a = x THEN v ELSE TargetIn(P, L, a)
  <2>1. a.id \in 1..Len(P) /\ a.place \in PlaceNames
    BY <1>7 DEF Aimable, PlaceNames
  <2>2. Q[a.id][a.place] = IF a.id = i /\ a.place = pl THEN v ELSE P[a.id][a.place]
    BY <1>0, <2>1
  <2>3. TargetIn(Q, L, a) = Q[a.id][a.place] /\ TargetIn(P, L, a) = P[a.id][a.place]
    BY <1>7 DEF TargetIn
  <2> QED
    BY <1>2, <2>2, <2>3
<1>8. TargetIn(Q, L, a) = IF a = x THEN v ELSE TargetIn(P, L, a)
  BY <1>5, <1>6, <1>7
<1> QED
  BY <1>4, <1>8 DEF x

LEMMA PlacesAppended ==
  ASSUME NEW P \in Seq(Places), NEW r \in Places, NEW L
  PROVE  /\ Append(P, r) \in Seq(Places) /\ Len(Append(P, r)) = Len(P) + 1 /\ Len(P) \in Nat
         /\ Append(P, r)[Len(P) + 1] = r /\ \A i \in 1..Len(P) : Append(P, r)[i] = P[i]
         /\ \A a \in Aim : Aimable(P, a) =>
              Aimable(Append(P, r), a) /\ TargetIn(Append(P, r), L, a) = TargetIn(P, L, a)
<1> DEFINE Q == Append(P, r)
<1>1. /\ Q \in Seq(Places) /\ Len(Q) = Len(P) + 1 /\ Len(P) \in Nat
      /\ Q[Len(P) + 1] = r /\ \A i \in 1..Len(P) : Q[i] = P[i]
  BY AppendProperties, LenProperties
<1> HIDE DEF Q
<1>2. ASSUME NEW a \in Aim, Aimable(P, a)
      PROVE  Aimable(Q, a) /\ TargetIn(Q, L, a) = TargetIn(P, L, a)
  BY <1>1, <1>2 DEF Aimable, TargetIn, ByLabel
<1>3. \A a \in Aim : Aimable(P, a) => Aimable(Q, a) /\ TargetIn(Q, L, a) = TargetIn(P, L, a)
  BY <1>2
<1> QED
  BY <1>1, <1>3 DEF Q

\* A label is met.
WithLabel(L, l, v, M) == L \in [Labels -> Int] /\ l \in Labels /\ v \in Int /\ M = [L EXCEPT ![l] = v]

LEMMA LabelWith ==
  ASSUME NEW L, NEW l, NEW v, NEW M, WithLabel(L, l, v, M)
  PROVE  \A P : \A a \in Aim : Aimable(P, a) =>
           TargetIn(P, M, a) = IF a = [id |-> ByLabel, place |-> l] THEN v ELSE TargetIn(P, L, a)
<1> SUFFICES ASSUME NEW P, NEW a \in Aim, Aimable(P, a)
             PROVE  TargetIn(P, M, a) =
                      IF a = [id |-> ByLabel, place |-> l] THEN v ELSE TargetIn(P, L, a)
  OBVIOUS
<1>1. a = [id |-> ByLabel, place |-> l] <=> a.id = ByLabel /\ a.place = l
  BY DEF Aim
<1>2. [id |-> ByLabel, place |-> l] # NoAim
  BY AimsAreAims DEF WithLabel
<1>3. a = NoAim \/ a.id # ByLabel \/ a.place \in Labels
  BY DEF Aimable, ByLabel
<1>4. \A k \in Labels : M[k] = IF k = l THEN v ELSE L[k]
  BY DEF WithLabel
<1> QED
  BY <1>1, <1>2, <1>3, <1>4 DEF TargetIn

-----------------------------------------------------------------------------
(* What waits for a place.                                                 *)

LEMMA WaitingIsTable ==
  ASSUME NEW m \in Machine, NEW o, NEW g
  PROVE  /\ TableOf(m, o, g) \in Table
         /\ \A a \in Aim : TableOf(m, o, g)[a] = Waiting(m, o, g, a)
<1>1. /\ m.returns \in Seq(Nat)
      /\ m.goto_labels \in [Labels -> [position : Int, waiting : Seq(Nat)]]
  BY MachineFields
<1>2. \A a \in Aim : OfReturns(m.returns, a) \subseteq Nat
  BY <1>1, ToSetIs DEF OfReturns
<1>3. \A a \in Aim : OfLabels(m.goto_labels, a) \subseteq Nat
  <2>1. \A l \in Labels : m.goto_labels[l].waiting \in Seq(Nat)
    BY <1>1
  <2> QED
    BY <2>1, ToSetIs DEF OfLabels
<1>4. \A a \in Aim : Waiting(m, o, g, a) \subseteq Nat
  BY <1>2, <1>3 DEF Waiting, OfGroups, OfBreaks, OfConditions
<1> QED
  BY <1>4 DEF TableOf, Table

\* The types of the variables, by their parts.
LEMMA Types ==
  ASSUME TypeOK
  PROVE  /\ asm \in Machine
         /\ asm.code \in Seq(Instruction) /\ size(asm) = Len(asm.code) /\ size(asm) \in Nat
         /\ asm.branches \in Seq(Branch)
         /\ asm.shortcircuits \in Seq(Seq(Nat)) /\ asm.returns \in Seq(Nat)
         /\ asm.fault \in BOOLEAN
         /\ open \in Seq(Node) /\ Len(open) \in Nat /\ \A k \in 1..Len(open) : open[k] \in Node
         /\ groups \in Seq(Group) /\ Len(groups) \in Nat /\ \A k \in 1..Len(groups) : groups[k] \in Group
         /\ places \in Seq(Places) /\ Len(places) \in Nat
         /\ \A i \in 1..Len(places) : places[i] \in Places
         /\ labelled \in [Labels -> Int]
<1>1. asm \in Machine /\ open \in Seq(Node) /\ groups \in Seq(Group) /\ places \in Seq(Places)
      /\ labelled \in [Labels -> Int]
  BY DEF TypeOK, Node, Group
<1>2. size(asm) = Len(asm.code)
  BY DEF size
<1> QED
  BY <1>1, <1>2, MachineFields, LenProperties

\* The nodes: what each is, and the loops they are in.
LEMMA OpenNodes ==
  ASSUME TypeOK, Shape
  PROVE  /\ Len(asm.branches) = Len(open)
         /\ \A k \in 1..Len(open) :
              /\ open[k].id \in 2..Len(places) /\ open[k].id \in Nat
              /\ open[k].id # ByLabel /\ open[k].id # Function /\ open[k].loop # Function
              /\ open[k].loop # NoLoop =>
                   \E j \in 1..k : open[j].node \in Loops /\ open[j].id = open[k].loop
              /\ open[k].node \in Loops => open[k].loop = open[k].id
         /\ \A j, k \in 1..Len(open) : open[j].id = open[k].id => j = k
         /\ \A j \in 1..Len(open), k \in 1..Len(groups) :
              open[j].id # groups[k].id /\ (open[j].loop # NoLoop => open[j].loop # groups[k].id)
         /\ \A k \in 1..Len(groups) :
              groups[k].id \in 2..Len(places) /\ groups[k].id # ByLabel /\ groups[k].id # Function
         /\ \A j, k \in 1..Len(groups) : groups[j].id = groups[k].id => j = k
<1>1. Len(places) \in Nat /\ Len(open) \in Nat
  BY Types
<1>2. \A id \in 2..Len(places) : id # ByLabel /\ id # Function /\ id \in Nat
  BY <1>1 DEF ByLabel, Function
<1>3. /\ Len(asm.branches) = Len(open)
      /\ \A k \in 1..Len(open) :
           /\ open[k].id \in 2..Len(places)
           /\ open[k].loop # NoLoop =>
                \E j \in 1..k : open[j].node \in Loops /\ open[j].id = open[k].loop
           /\ open[k].node \in Loops => open[k].loop = open[k].id
      /\ \A j, k \in 1..Len(open) : open[j].id = open[k].id => j = k
  BY DEF Shape, NodesOK, NodeOK, NestedOK
<1>4. /\ \A j \in 1..Len(open), k \in 1..Len(groups) : open[j].id # groups[k].id
      /\ \A k \in 1..Len(groups) : groups[k].id \in 2..Len(places)
      /\ \A j, k \in 1..Len(groups) : groups[j].id = groups[k].id => j = k
  BY DEF Shape, GroupsOK
<1>5. \A k \in 1..Len(open) : open[k].loop # NoLoop => \E j \in 1..Len(open) : open[j].id = open[k].loop
  <2> SUFFICES ASSUME NEW k \in 1..Len(open), open[k].loop # NoLoop
               PROVE  \E j \in 1..Len(open) : open[j].id = open[k].loop
    OBVIOUS
  <2>1. PICK j \in 1..k : open[j].id = open[k].loop
    BY <1>3
  <2>2. j \in 1..Len(open)
    BY <1>1
  <2> QED
    BY <2>1, <2>2
<1>6. \A k \in 1..Len(open) : open[k].loop # Function
  <2>1. NoLoop # Function
    BY DEF NoLoop, Function
  <2> QED
    BY <1>2, <1>3, <1>5, <2>1
<1>7. \A j \in 1..Len(open), k \in 1..Len(groups) :
        open[j].id # groups[k].id /\ (open[j].loop # NoLoop => open[j].loop # groups[k].id)
  BY <1>4, <1>5
<1> QED
  BY <1>2, <1>3, <1>4, <1>6, <1>7

LEMMA WaitsForEnd ==
  ASSUME TypeOK, Shape
  PROVE  /\ Waiting(asm, open, groups, FunctionEnd) = ToSet(asm.returns)
         /\ OfLabels(asm.goto_labels, FunctionEnd) = {}
         /\ OfGroups(asm.shortcircuits, groups, Len(groups), FunctionEnd) = {}
         /\ OfBreaks(asm.branches, open, Len(open), FunctionEnd) = {}
         /\ OfConditions(asm.branches, open, Len(open), FunctionEnd) = {}
<1>1. OfLabels(asm.goto_labels, FunctionEnd) = {}
  BY DEF OfLabels, FunctionEnd, Function, ByLabel
<1>2. OfGroups(asm.shortcircuits, groups, Len(groups), FunctionEnd) = {}
  <2>1. \A k \in 1..Len(groups) : groups[k].id # Function
    BY OpenNodes
  <2> QED
    BY <2>1 DEF OfGroups, FunctionEnd
<1>3. ASSUME NEW k \in 1..Len(open)
      PROVE  BreakAim(open[k]) # FunctionEnd /\ ConditionAim(open[k]) # FunctionEnd
  <2>1. open[k].loop # Function /\ open[k].id # Function
    BY OpenNodes
  <2> QED
    BY <2>1 DEF BreakAim, ConditionAim, FunctionEnd, Function, NoAim, ByLabel
<1>4. /\ OfBreaks(asm.branches, open, Len(open), FunctionEnd) = {}
      /\ OfConditions(asm.branches, open, Len(open), FunctionEnd) = {}
  BY <1>3 DEF OfBreaks, OfConditions
<1> QED
  BY <1>1, <1>2, <1>4 DEF Waiting, OfReturns

LEMMA WaitsForLabel ==
  ASSUME TypeOK, Shape, NEW l \in Labels
  PROVE  LET x == [id |-> ByLabel, place |-> l]
         IN /\ Waiting(asm, open, groups, x) = ToSet(asm.goto_labels[l].waiting)
            /\ OfReturns(asm.returns, x) = {}
            /\ OfGroups(asm.shortcircuits, groups, Len(groups), x) = {}
            /\ OfBreaks(asm.branches, open, Len(open), x) = {}
            /\ OfConditions(asm.branches, open, Len(open), x) = {}
<1> DEFINE x == [id |-> ByLabel, place |-> l]
<1>1. OfReturns(asm.returns, x) = {}
  BY DEF OfReturns, FunctionEnd, Function, ByLabel
<1>2. OfGroups(asm.shortcircuits, groups, Len(groups), x) = {}
  <2>1. \A k \in 1..Len(groups) : groups[k].id # ByLabel
    BY OpenNodes
  <2> QED
    BY <2>1 DEF OfGroups
<1>3. ASSUME NEW k \in 1..Len(open)
      PROVE  BreakAim(open[k]) # x /\ ConditionAim(open[k]) # x
  <2>1. open[k].id # ByLabel /\ (open[k].loop # NoLoop => open[k].loop # ByLabel)
    BY OpenNodes DEF NoLoop, ByLabel
  <2>2. x # NoAim
    BY AimsAreAims
  <2> QED
    BY <2>1, <2>2 DEF BreakAim, ConditionAim
<1>4. /\ OfBreaks(asm.branches, open, Len(open), x) = {}
      /\ OfConditions(asm.branches, open, Len(open), x) = {}
  BY <1>3 DEF OfBreaks, OfConditions
<1>5. OfLabels(asm.goto_labels, x) = ToSet(asm.goto_labels[l].waiting)
  BY DEF OfLabels
<1> QED
  BY <1>1, <1>2, <1>4, <1>5 DEF Waiting

LEMMA WaitsForGroup ==
  ASSUME TypeOK, Shape, groups # <<>>
  PROVE  LET x == [id |-> Last(groups).id, place |-> "end"]
         IN /\ Waiting(asm, open, groups, x) = ToSet(Last(asm.shortcircuits))
            /\ OfReturns(asm.returns, x) = {} /\ OfLabels(asm.goto_labels, x) = {}
            /\ OfBreaks(asm.branches, open, Len(open), x) = {}
            /\ OfConditions(asm.branches, open, Len(open), x) = {}
<1> DEFINE n == Len(groups)
           x == [id |-> groups[n].id, place |-> "end"]
<1>1. /\ n \in Nat \ {0} /\ n \in 1..n /\ Last(groups) = groups[n]
      /\ Len(asm.shortcircuits) = n /\ asm.shortcircuits \in Seq(Seq(Nat))
  BY Types, FrontAndLast DEF Shape, GroupsOK
<1>2. Last(asm.shortcircuits) = asm.shortcircuits[n]
  BY <1>1 DEF Last
<1>3. groups[n].id \in 2..Len(places) /\ groups[n].id # ByLabel /\ groups[n].id # Function
  BY <1>1, OpenNodes, Types DEF ByLabel, Function
<1>4. OfReturns(asm.returns, x) = {} /\ OfLabels(asm.goto_labels, x) = {}
  BY <1>3 DEF OfReturns, OfLabels, FunctionEnd
<1>5. ASSUME NEW k \in 1..Len(open)
      PROVE  BreakAim(open[k]) # x /\ ConditionAim(open[k]) # x
  <2>1. open[k].id # groups[n].id /\ (open[k].loop # NoLoop => open[k].loop # groups[n].id)
    BY <1>1, OpenNodes
  <2>2. x # NoAim
    BY <1>3 DEF NoAim
  <2> QED
    BY <2>1, <2>2 DEF BreakAim, ConditionAim
<1>6. /\ OfBreaks(asm.branches, open, Len(open), x) = {}
      /\ OfConditions(asm.branches, open, Len(open), x) = {}
  BY <1>5 DEF OfBreaks, OfConditions
<1>7. OfGroups(asm.shortcircuits, groups, n, x) = ToSet(asm.shortcircuits[n])
  <2>1. ToSet(asm.shortcircuits[n]) \subseteq Nat
    BY <1>1, ToSetIs
  <2>2. \A k \in 1..n : x = [id |-> groups[k].id, place |-> "end"] <=> k = n
    BY <1>1, OpenNodes
  <2> QED
    BY <1>1, <2>1, <2>2 DEF OfGroups
<1> QED
  BY <1>1, <1>2, <1>4, <1>6, <1>7 DEF Waiting

-----------------------------------------------------------------------------
(* Jumps that are written with a position, and the other stacks.           *)

\* A jump that is written and given its position at once.
Retargeted(m, op, aim, v) == [emit(m, op, aim) EXCEPT !.code[size(emit(m, op, aim))].to = v]

LEMMA RetargetIs ==
  ASSUME NEW m \in Machine, NEW op \in Ops, NEW aim \in Aim, NEW v \in Nat
  PROVE  LET ins == [op |-> op, to |-> v, aim |-> aim]
             r == Retargeted(m, op, aim, v)
         IN /\ r \in Machine /\ SameBut({"code"}, m, r)
            /\ ins \in Instruction /\ r.code = Append(m.code, ins)
<1> DEFINE e == emit(m, op, aim)
           old == [op |-> op, to |-> size(m) + 1, aim |-> aim]
           ins == [op |-> op, to |-> v, aim |-> aim]
           n == size(e)
           c == [e.code EXCEPT ![n] = ins]
           r == Retargeted(m, op, aim, v)
<1>1. /\ e \in Machine /\ SameBut({"code"}, m, e) /\ old \in Instruction
      /\ e.code = Append(m.code, old) /\ n = size(m) + 1 /\ n \in 1..n /\ e.code[n] = old
  BY EmitIs
<1>2. m.code \in Seq(Instruction) /\ size(m) \in Nat /\ size(m) = Len(m.code)
  BY MachineFields DEF size
<1>3. ins \in Instruction /\ [old EXCEPT !.to = v] = ins
  BY DEF Instruction, Ops
<1> HIDE DEF e
<1>4. r = [e EXCEPT !.code = [e.code EXCEPT ![n] = [e.code[n] EXCEPT !.to = v]]]
  BY DEF e, Retargeted
<1> HIDE DEF r
<1> HIDE DEF old, ins
<1>5. r = [e EXCEPT !.code = c]
  BY <1>1, <1>3, <1>4
<1>6. e.code \in Seq(Instruction) /\ n = Len(e.code)
  BY <1>1, MachineFields DEF size
<1> HIDE DEF n
<1>7. c \in Seq(Instruction) /\ Len(c) = n /\ \A i \in 1..n : c[i] = IF i = n THEN ins ELSE e.code[i]
  <2>1. n \in 1..Len(e.code) /\ ins \in Instruction
    BY <1>1, <1>3, <1>6
  <2> QED
    BY <1>6, <2>1, ExceptSeq
<1> HIDE DEF c
<1>8. c = Append(m.code, ins)
  <2> DEFINE d == Append(m.code, ins)
  <2>1. /\ d \in Seq(Instruction) /\ Len(d) = n /\ d[n] = ins
        /\ \A i \in 1..(n - 1) : d[i] = m.code[i]
    BY <1>1, <1>2, <1>3, AppendProperties
  <2>2. \A i \in 1..(n - 1) : e.code[i] = m.code[i]
    BY <1>1, <1>2, AppendProperties
  <2> HIDE DEF d
  <2>3. ASSUME NEW i \in 1..n
        PROVE  c[i] = d[i]
    <3>1. CASE i = n
      BY <1>1, <1>7, <2>1, <3>1
    <3>2. CASE i # n
      <4>1. i \in 1..(n - 1)
        BY <1>1, <1>2, <3>2
      <4> QED
        BY <1>7, <2>1, <2>2, <3>2, <4>1
    <3> QED
      BY <3>1, <3>2
  <2> QED
    BY <1>7, <2>1, <2>3, SeqEqual DEF d
<1>9. r \in Machine /\ r.code = c /\ SameBut({"code"}, m, r)
  BY <1>1, <1>5, <1>7 DEF Machine, SameBut
<1> QED
  BY <1>3, <1>8, <1>9 DEF ins, r

LEMMA GotoStartIs ==
  ASSUME NEW m \in Machine, m.branches # <<>>, NEW aim \in Aim, NEW wild \in Nat,
         m.branches[Len(m.branches)].branch_start \in Nat \cup {Nowhere}
  PROVE  LET start == m.branches[Len(m.branches)].branch_start
             ins == [op |-> "jmp", to |-> IF start = Nowhere THEN wild ELSE start, aim |-> aim]
             r == asm_goto_start(m, aim, wild)
         IN /\ r \in Machine /\ SameBut({"code"}, m, r)
            /\ ins \in Instruction /\ r.code = Append(m.code, ins)
<1> DEFINE start == m.branches[Len(m.branches)].branch_start
           v == IF start = Nowhere THEN wild ELSE start
           r == asm_goto_start(m, aim, wild)
<1>1. v \in Nat /\ "jmp" \in Ops
  BY DEF Ops
<1>2. r = Retargeted(m, "jmp", aim, v)
  BY DEF asm_goto_start, Last, Retargeted
<1> HIDE DEF v, r
<1>3. /\ r \in Machine /\ SameBut({"code"}, m, r)
      /\ [op |-> "jmp", to |-> v, aim |-> aim] \in Instruction
      /\ r.code = Append(m.code, [op |-> "jmp", to |-> v, aim |-> aim])
  BY <1>1, <1>2, RetargetIs
<1> QED
  BY <1>3 DEF v, r

LEMMA GotoEndIs ==
  ASSUME NEW m \in Machine, m.branches # <<>>, NEW aim \in Aim
  PROVE  LET n == Len(m.branches)
             r == asm_goto_end(m, aim)
             ins == [op |-> "jmp", to |-> size(m) + 1, aim |-> aim]
         IN /\ r \in Machine /\ SameBut({"code", "branches"}, m, r) /\ size(r) = size(m) + 1
            /\ ins \in Instruction /\ r.code = Append(m.code, ins)
            /\ Len(r.branches) = n /\ n \in Nat \ {0}
            /\ \A k \in 1..n :
                 /\ r.branches[k].branch_start = m.branches[k].branch_start
                 /\ r.branches[k].curr_jump = m.branches[k].curr_jump
                 /\ r.branches[k].is_loop = m.branches[k].is_loop
                 /\ ToSet(r.branches[k].end_stack) =
                      ToSet(m.branches[k].end_stack) \cup (IF k = n THEN {size(m) + 1} ELSE {})
<1> DEFINE e == emit(m, "jmp", aim)
           n == Len(m.branches)
           r == asm_goto_end(m, aim)
           ends == Append(m.branches[n].end_stack, size(m) + 1)
           b == [m.branches[n] EXCEPT !.end_stack = ends]
           bs == [m.branches EXCEPT ![n] = b]
<1>1. /\ e \in Machine /\ SameBut({"code"}, m, e) /\ size(e) = size(m) + 1
      /\ [op |-> "jmp", to |-> size(m) + 1, aim |-> aim] \in Instruction
      /\ e.code = Append(m.code, [op |-> "jmp", to |-> size(m) + 1, aim |-> aim])
  BY EmitIs DEF Ops
<1>2. /\ m.branches \in Seq(Branch) /\ size(m) + 1 \in Nat
      /\ n \in Nat \ {0} /\ n \in 1..n /\ m.branches[n] \in Branch
      /\ m.branches[n].end_stack \in Seq(Nat)
  <2>1. m.branches \in Seq(Branch) /\ size(m) + 1 \in Nat
    BY MachineFields
  <2>2. n \in Nat \ {0} /\ n \in 1..n
    BY <2>1, FrontAndLast
  <2> QED
    BY <2>1, <2>2, BranchFields
<1>3. ends \in Seq(Nat) /\ ToSet(ends) = ToSet(m.branches[n].end_stack) \cup {size(m) + 1}
  BY <1>2, ToSetAppend
<1> HIDE DEF e
<1>4. r = [e EXCEPT !.branches = bs]
  <2>1. e.branches = m.branches
    BY <1>1 DEF SameBut
  <2>2. r = [e EXCEPT !.branches[n].end_stack = Append(@, size(e))]
    BY DEF asm_goto_end, e
  <2> QED
    BY <1>1, <2>1, <2>2
<1> HIDE DEF ends, r
<1>5. /\ b \in Branch /\ b.end_stack = ends /\ b.branch_start = m.branches[n].branch_start
      /\ b.curr_jump = m.branches[n].curr_jump /\ b.is_loop = m.branches[n].is_loop
  <2>1. b \in Branch
    BY <1>2, <1>3, BranchEnding
  <2> QED
    BY <1>2, <2>1 DEF Branch
<1> HIDE DEF b
<1>6. bs \in Seq(Branch) /\ Len(bs) = n /\ \A k \in 1..n : bs[k] = IF k = n THEN b ELSE m.branches[k]
  BY <1>2, <1>5, ExceptSeq
<1> HIDE DEF bs
<1>7. r \in Machine /\ r.branches = bs /\ SameBut({"code", "branches"}, m, r) /\ r.code = e.code
  BY <1>1, <1>4, <1>6 DEF Machine, SameBut
<1>8. \A k \in 1..n :
        /\ bs[k].branch_start = m.branches[k].branch_start
        /\ bs[k].curr_jump = m.branches[k].curr_jump
        /\ bs[k].is_loop = m.branches[k].is_loop
        /\ ToSet(bs[k].end_stack) =
             ToSet(m.branches[k].end_stack) \cup (IF k = n THEN {size(m) + 1} ELSE {})
  BY <1>3, <1>5, <1>6
<1>9. size(r) = size(m) + 1
  BY <1>1, <1>7 DEF size
<1> QED
  BY <1>1, <1>2, <1>6, <1>7, <1>8, <1>9 DEF r

LEMMA LogicIs ==
  ASSUME NEW m \in Machine, m.shortcircuits # <<>>, NEW op \in {"and", "or"}, NEW aim \in Aim
  PROVE  LET n == Len(m.shortcircuits)
             r == asm_logic(m, op, aim)
             ins == [op |-> IF op = "and" THEN "jz" ELSE "jnz", to |-> size(m) + 1, aim |-> aim]
         IN /\ r \in Machine /\ SameBut({"code", "shortcircuits"}, m, r)
            /\ ins \in Instruction /\ ins.op # "op" /\ r.code = Append(m.code, ins)
            /\ Len(r.shortcircuits) = n /\ n \in Nat \ {0}
            /\ \A k \in 1..(n - 1) : r.shortcircuits[k] = m.shortcircuits[k]
            /\ ToSet(r.shortcircuits[n]) = ToSet(m.shortcircuits[n]) \cup {size(m) + 1}
<1> DEFINE j == IF op = "and" THEN "jz" ELSE "jnz"
           e == emit(m, j, aim)
           n == Len(m.shortcircuits)
           r == asm_logic(m, op, aim)
           sc == Append(m.shortcircuits[n], size(m) + 1)
           scs == [m.shortcircuits EXCEPT ![n] = sc]
<1>0. j \in Ops /\ j # "op"
  BY DEF Ops
<1>1. /\ e \in Machine /\ SameBut({"code"}, m, e) /\ size(e) = size(m) + 1
      /\ [op |-> j, to |-> size(m) + 1, aim |-> aim] \in Instruction
      /\ e.code = Append(m.code, [op |-> j, to |-> size(m) + 1, aim |-> aim])
  BY <1>0, EmitIs
<1>2. /\ m.shortcircuits \in Seq(Seq(Nat)) /\ size(m) + 1 \in Nat
      /\ n \in Nat \ {0} /\ n \in 1..n /\ m.shortcircuits[n] \in Seq(Nat)
  BY MachineFields, FrontAndLast
<1>3. sc \in Seq(Nat) /\ ToSet(sc) = ToSet(m.shortcircuits[n]) \cup {size(m) + 1}
  BY <1>2, ToSetAppend
<1> HIDE DEF e
<1>4. r = [e EXCEPT !.shortcircuits = scs]
  <2>1. e.shortcircuits = m.shortcircuits
    BY <1>1 DEF SameBut
  <2>2. r = [e EXCEPT !.shortcircuits[n] = Append(@, size(e))]
    BY DEF asm_logic, e
  <2> QED
    BY <1>1, <2>1, <2>2
<1> HIDE DEF sc, r
<1>5. /\ scs \in Seq(Seq(Nat)) /\ Len(scs) = n
      /\ \A k \in 1..n : scs[k] = IF k = n THEN sc ELSE m.shortcircuits[k]
  BY <1>2, <1>3, ExceptSeq
<1> HIDE DEF scs
<1>6. /\ r \in Machine /\ r.shortcircuits = scs /\ SameBut({"code", "shortcircuits"}, m, r)
      /\ r.code = e.code
  BY <1>1, <1>4, <1>5 DEF Machine, SameBut
<1>7. \A k \in 1..(n - 1) : scs[k] = m.shortcircuits[k]
  <2>1. \A k \in 1..(n - 1) : k \in 1..n /\ k # n
    BY <1>2
  <2> QED
    BY <1>5, <2>1
<1>8. scs[n] = sc
  BY <1>2, <1>5
<1> HIDE DEF j
<1> QED
  BY <1>0, <1>1, <1>2, <1>3, <1>5, <1>6, <1>7, <1>8 DEF r, j

LEMMA RetIs ==
  ASSUME NEW m \in Machine
  PROVE  LET ins == [op |-> "jmp", to |-> size(m) + 1, aim |-> FunctionEnd]
         IN /\ asm_ret(m) \in Machine /\ SameBut({"code", "returns"}, m, asm_ret(m))
            /\ ins \in Instruction /\ asm_ret(m).code = Append(m.code, ins)
            /\ ToSet(asm_ret(m).returns) = ToSet(m.returns) \cup {size(m) + 1}
<1> DEFINE e == emit(m, "jmp", FunctionEnd)
           rs == Append(m.returns, size(m) + 1)
<1>1. /\ e \in Machine /\ SameBut({"code"}, m, e) /\ size(e) = size(m) + 1
      /\ [op |-> "jmp", to |-> size(m) + 1, aim |-> FunctionEnd] \in Instruction
      /\ e.code = Append(m.code, [op |-> "jmp", to |-> size(m) + 1, aim |-> FunctionEnd])
  BY EmitIs, AimsAreAims DEF Ops
<1>2. rs \in Seq(Nat) /\ ToSet(rs) = ToSet(m.returns) \cup {size(m) + 1}
  <2>1. m.returns \in Seq(Nat) /\ size(m) + 1 \in Nat
    BY MachineFields
  <2> QED
    BY <2>1, ToSetAppend
<1> HIDE DEF e
<1>3. asm_ret(m) = [e EXCEPT !.returns = rs]
  <2>1. e.returns = m.returns
    BY <1>1 DEF SameBut
  <2>2. asm_ret(m) = [e EXCEPT !.returns = Append(@, size(e))]
    BY DEF asm_ret, e, FunctionEnd
  <2> QED
    BY <1>1, <2>1, <2>2
<1> HIDE DEF rs
<1>4. /\ asm_ret(m) \in Machine /\ asm_ret(m).returns = rs /\ SameBut({"code", "returns"}, m, asm_ret(m))
      /\ asm_ret(m).code = e.code
  BY <1>1, <1>2, <1>3 DEF Machine, SameBut
<1> QED
  BY <1>1, <1>2, <1>4

-----------------------------------------------------------------------------
(* The steps that write one jump, or none.                                 *)

Kept ==
  /\ JInv'
  /\ Arrived(asm.code, places, labelled) => Arrived(asm.code, places, labelled)'

LEMMA Context ==
  ASSUME JInv, Working
  PROVE  /\ TypeOK /\ Shape /\ phase = "function" /\ ~asm.fault
         /\ Sound(asm.code, TableOf(asm, open, groups), places, labelled)
         /\ TableOf(asm, open, groups) \in Table
         /\ \A a \in Aim : TableOf(asm, open, groups)[a] = Waiting(asm, open, groups, a)
         /\ asm \in Machine /\ size(asm) \in Nat /\ size(asm) = Len(asm.code)
         /\ asm.code \in Seq(Instruction)
<1>1. TypeOK /\ Shape /\ phase = "function" /\ ~asm.fault
      /\ Sound(asm.code, TableOf(asm, open, groups), places, labelled)
  BY DEF JInv, Working
<1> QED
  BY <1>1, Types, WaitingIsTable

\* A step that does nothing but change the stacks of the back end.
LEMMA ShapeKept ==
  ASSUME TypeOK, Shape, phase = "function", UNCHANGED <<open, groups, places, labelled, phase>>,
         Len(asm'.branches) = Len(asm.branches),
         \A k \in 1..Len(asm.branches) :
           /\ asm'.branches[k].is_loop = asm.branches[k].is_loop
           /\ asm'.branches[k].branch_start = asm.branches[k].branch_start,
         Len(asm'.shortcircuits) = Len(asm.shortcircuits),
         asm'.goto_labels = asm.goto_labels
  PROVE  Shape'
<1>1. NodesOK(asm.branches, open, places)'
  BY DEF Shape, NodesOK, NodeOK, NestedOK
<1>2. GroupsOK(asm.shortcircuits, groups, open, places)'
  BY DEF Shape, GroupsOK
<1>3. LabelsOK(asm.goto_labels, labelled)' /\ PhaseOK'
  BY DEF Shape, LabelsOK, PhaseOK
<1> QED
  BY <1>1, <1>2, <1>3 DEF Shape

\* The table does not depend on the code.
LEMMA SameTable ==
  ASSUME NEW m, NEW n, NEW o, NEW g, SameBut({"code"}, m, n)
  PROVE  TableOf(n, o, g) = TableOf(m, o, g)
BY DEF TableOf, Waiting, SameBut

LEMMA StraightKeeps ==
  ASSUME JInv, Straight
  PROVE  Kept
<1> DEFINE ins == [op |-> "op", to |-> size(asm) + 1, aim |-> NoAim]
<1>1. Working /\ asm' = emit(asm, "op", NoAim) /\ UNCHANGED <<open, groups, places, labelled, phase>>
  BY DEF Straight
<1>2. /\ asm' \in Machine /\ SameBut({"code"}, asm, asm') /\ ins \in Instruction
      /\ asm'.code = Append(asm.code, ins)
  BY <1>1, Context, EmitIs, AimsAreAims DEF Ops
<1>3. TableOf(asm', open, groups) = TableOf(asm, open, groups)
  BY <1>2, SameTable
<1>4. /\ Sound(asm'.code, TableOf(asm, open, groups), places, labelled)
      /\ Arrived(asm.code, places, labelled) => Arrived(asm'.code, places, labelled)
  <2>1. Aimable(places, ins.aim) /\ ins.aim = NoAim /\ KnownTo(ins, places, labelled)
    BY DEF Aimable, KnownTo
  <2> HIDE DEF ins
  <2> QED
    BY <1>1, <1>2, <2>1, Context, EmitKnown
<1>5. Shape'
  BY <1>1, <1>2, Context, ShapeKept DEF SameBut
<1>6. TypeOK'
  BY <1>1, <1>2, Context DEF TypeOK
<1> QED
  BY <1>1, <1>3, <1>4, <1>5, <1>6 DEF Kept, JInv

LEMMA ReturnKeeps ==
  ASSUME JInv, Return
  PROVE  Kept
<1> DEFINE ins == [op |-> "jmp", to |-> size(asm) + 1, aim |-> FunctionEnd]
           D == TableOf(asm, open, groups)
           E == TableOf(asm', open, groups)
<1>1. Working /\ asm' = asm_ret(asm) /\ UNCHANGED <<open, groups, places, labelled, phase>>
  BY DEF Return, InStatements
<1>2. /\ asm' \in Machine /\ SameBut({"code", "returns"}, asm, asm') /\ ins \in Instruction
      /\ asm'.code = Append(asm.code, ins)
      /\ ToSet(asm'.returns) = ToSet(asm.returns) \cup {size(asm) + 1}
  BY <1>1, Context, RetIs
<1>3. /\ D \in Table /\ E \in Table
      /\ \A a \in Aim : D[a] = Waiting(asm, open, groups, a) /\ E[a] = Waiting(asm', open, groups, a)
  BY <1>1, <1>2, Context, WaitingIsTable
<1>9. /\ Sound(asm.code, D, places, labelled) /\ asm.code \in Seq(Instruction)
      /\ size(asm) = Len(asm.code)
  BY <1>1, Context
<1> HIDE DEF D, E
<1>4. \A a \in Aim : E[a] = IF a = ins.aim THEN D[a] \cup {Len(asm.code) + 1} ELSE D[a]
  <2>1. \A a \in Aim : OfReturns(asm'.returns, a) =
          OfReturns(asm.returns, a) \cup (IF a = FunctionEnd THEN {size(asm) + 1} ELSE {})
    BY <1>2 DEF OfReturns
  <2>2. \A a \in Aim : Waiting(asm', open, groups, a) =
          Waiting(asm, open, groups, a) \cup (IF a = FunctionEnd THEN {size(asm) + 1} ELSE {})
    BY <1>2, <2>1 DEF Waiting, SameBut
  <2> QED
    BY <1>3, <1>9, <2>2
<1>5. /\ Aimable(places, ins.aim) /\ TargetIn(places, labelled, ins.aim) = Nowhere
      /\ ~Resumes(ins.aim) /\ ins.op # "op"
  <2>1. Len(places) >= 1 /\ places[Function].end = Nowhere /\ Len(places) \in Nat
    BY <1>1, Context, Types DEF Shape, PhaseOK
  <2> QED
    BY <2>1 DEF Aimable, TargetIn, Resumes, FunctionEnd, Function, ByLabel, NoAim
<1> HIDE DEF ins
<1>6. /\ Sound(asm'.code, E, places, labelled)
      /\ Arrived(asm.code, places, labelled) => Arrived(asm'.code, places, labelled)
  <2>1. WaitingEmit(asm.code, D, places, labelled, ins, asm'.code, E)
    BY <1>2, <1>3, <1>4, <1>5, <1>9 DEF WaitingEmit
  <2> QED
    BY <1>5, <2>1, EmittedWaiting
<1>7. Shape'
  BY <1>1, <1>2, Context, ShapeKept DEF SameBut
<1>8. TypeOK'
  BY <1>1, <1>2, Context DEF TypeOK
<1> QED
  BY <1>1, <1>6, <1>7, <1>8 DEF Kept, JInv, E

\* The loop a break leaves is not at its end.
LEMMA BreakIsOpen ==
  ASSUME TypeOK, Shape, open # <<>>
  PROVE  /\ BreakAim(Top) \in Aim /\ Aimable(places, BreakAim(Top))
         /\ TargetIn(places, labelled, BreakAim(Top)) = Nowhere /\ ~Resumes(BreakAim(Top))
<1> DEFINE n == Len(open)
<1>1. n \in 1..n /\ Top = open[n] /\ Len(open) \in Nat /\ Len(places) \in Nat
  BY Types, FrontAndLast DEF Top
<1>2. CASE Top.loop = NoLoop
  <2>1. BreakAim(Top) = NoAim
    BY <1>2 DEF BreakAim
  <2> QED
    BY <2>1, AimsAreAims DEF Aimable, TargetIn, Resumes, NoAim, ByLabel
<1>3. CASE Top.loop # NoLoop
  <2>1. PICK j \in 1..n : open[j].id = Top.loop
    BY <1>1, <1>3, OpenNodes
  <2>2. open[j].id \in 2..Len(places) /\ places[open[j].id].end = Nowhere /\ open[j].id \in Nat
    BY OpenNodes DEF Shape, NodesOK, NodeOK
  <2>3. BreakAim(Top) = [id |-> open[j].id, place |-> "end"]
    BY <1>3, <2>1 DEF BreakAim
  <2>4. open[j].id # 0 /\ open[j].id \in 1..Len(places)
    BY <1>1, <2>2
  <2>5. BreakAim(Top) \in Aim /\ BreakAim(Top) # NoAim
    BY <2>2, <2>3, <2>4, AimsAreAims
  <2> QED
    BY <2>2, <2>3, <2>4, <2>5 DEF Aimable, TargetIn, Resumes, ByLabel
<1> QED
  BY <1>2, <1>3
-----------------------------------------------------------------------------
(* Steps of the table.                                                     *)

Added(D, x, p) == [a \in Aim |-> IF a = x THEN D[a] \cup {p} ELSE D[a]]
Cleared(D, x) == [a \in Aim |-> IF a = x THEN {} ELSE D[a]]

LEMMA ClearedIs ==
  ASSUME NEW D, D \in Table, NEW x, x \in Aim
  PROVE  /\ Cleared(D, x) \in Table
         /\ \A a \in Aim : Cleared(D, x)[a] = IF a = x THEN {} ELSE D[a]
BY DEF Cleared, Table

\* A jump is written that waits.
Waits(code, D, P, L, ins) ==
  /\ code \in Seq(Instruction) /\ D \in Table /\ Sound(code, D, P, L)
  /\ ins \in Instruction /\ ins.op # "op" /\ Aimable(P, ins.aim)
  /\ TargetIn(P, L, ins.aim) = Nowhere /\ ~Resumes(ins.aim)

LEMMA Waited ==
  ASSUME NEW code, NEW D, NEW P, NEW L, NEW ins, Waits(code, D, P, L, ins)
  PROVE  LET c == Append(code, ins)
             E == Added(D, ins.aim, Len(code) + 1)
         IN /\ c \in Seq(Instruction) /\ Len(c) = Len(code) + 1 /\ Len(code) \in Nat
            /\ ins.aim \in Aim /\ E \in Table /\ Sound(c, E, P, L)
            /\ Arrived(code, P, L) => Arrived(c, P, L)
<1>1. /\ code \in Seq(Instruction) /\ D \in Table /\ Sound(code, D, P, L)
      /\ ins \in Instruction /\ ins.op # "op" /\ Aimable(P, ins.aim)
      /\ TargetIn(P, L, ins.aim) = Nowhere /\ ~Resumes(ins.aim)
  BY DEF Waits
<1> DEFINE c == Append(code, ins)
           E == Added(D, ins.aim, Len(code) + 1)
<1>2. c \in Seq(Instruction) /\ Len(c) = Len(code) + 1 /\ Len(code) \in Nat /\ Len(code) + 1 \in Nat
  BY <1>1, AppendProperties, LenProperties
<1>3. ins.aim \in Aim
  BY <1>1 DEF Instruction
<1>4. E \in Table /\ \A a \in Aim : E[a] = IF a = ins.aim THEN D[a] \cup {Len(code) + 1} ELSE D[a]
  <2> DEFINE p == Len(code) + 1
             x == ins.aim
  <2>1. D \in Table /\ x \in Aim /\ p \in Nat
    BY <1>1, <1>2, <1>3
  <2> HIDE DEF p, x
  <2>2. Added(D, x, p) \in Table /\ \A a \in Aim : Added(D, x, p)[a] = IF a = x THEN D[a] \cup {p} ELSE D[a]
    BY <2>1 DEF Added, Table
  <2> QED
    BY <2>2 DEF p, x
<1>5. c = Append(code, ins)
  OBVIOUS
<1> HIDE DEF E, c
<1>6. WaitingEmit(code, D, P, L, ins, c, E)
  BY <1>1, <1>4, <1>5 DEF WaitingEmit
<1>7. /\ Sound(c, E, P, L)
      /\ Arrived(code, P, L) /\ TargetIn(P, L, ins.aim) = Nowhere /\ ~Resumes(ins.aim)
           => Arrived(c, P, L)
  BY <1>6, EmittedWaiting
<1> QED
  BY <1>1, <1>2, <1>3, <1>4, <1>7 DEF E, c

\* A place is reached. A position that is none is of no jump.
Reaches(code, D, P, x, v, Q, S) ==
  /\ code \in Seq(Instruction) /\ D \in Table /\ P \in Seq(Places)
  /\ x.id \in 1..Len(P) /\ x.place \in {"other", "end"} /\ x = [id |-> x.id, place |-> x.place]
  /\ P[x.id][x.place] = Nowhere /\ v \in Nat
  /\ Q = [P EXCEPT ![x.id][x.place] = v]
  /\ D[x] = S \cap Nat

LEMMA PatchedNat ==
  ASSUME NEW code \in Seq(Instruction), NEW S, NEW v
  PROVE  PatchedCode(code, S, v) = PatchedCode(code, S \cap Nat, v)
<1>1. \A i \in 1..Len(code) : i \in Nat
  BY LenProperties
<1> QED
  BY <1>1 DEF PatchedCode

LEMMA ReachedPlace ==
  ASSUME NEW code, NEW D, NEW P, NEW L, NEW x, NEW v, NEW Q, NEW S,
         Reaches(code, D, P, x, v, Q, S), Sound(code, D, P, L)
  PROVE  LET c == PatchedCode(code, S, v)
         IN /\ c \in Seq(Instruction) /\ Len(c) = Len(code)
            /\ x \in Aim /\ Cleared(D, x) \in Table /\ Sound(c, Cleared(D, x), Q, L)
            /\ Arrived(code, P, L) => Arrived(c, Q, L)
<1>1. /\ code \in Seq(Instruction) /\ D \in Table /\ P \in Seq(Places)
      /\ x.id \in 1..Len(P) /\ x.place \in {"other", "end"} /\ x = [id |-> x.id, place |-> x.place]
      /\ P[x.id][x.place] = Nowhere /\ v \in Nat
      /\ Q = [P EXCEPT ![x.id][x.place] = v]
      /\ D[x] = S \cap Nat
  BY DEF Reaches
<1>2. /\ x.id \in Nat /\ x.id # 0 /\ v \in Int
      /\ x.place \in {"start", "resume", "other", "end"}
  BY <1>1, LenProperties
<1>3. x \in Aim /\ x # NoAim
  BY <1>1, <1>2, AimsAreAims
<1>4. TargetIn(P, L, x) = Nowhere /\ ~Resumes(x)
  BY <1>1, <1>2, <1>3 DEF TargetIn, Resumes, ByLabel
<1>5. WithPlace(P, x.id, x.place, v, Q)
  BY <1>1, <1>2 DEF WithPlace, PlaceNames
<1>6. \A a \in Aim : Aimable(P, a) =>
        Aimable(Q, a) /\ TargetIn(Q, L, a) = IF a = x THEN v ELSE TargetIn(P, L, a)
  BY <1>1, <1>5, TargetWith
<1>7. Cleared(D, x) \in Table /\ \A a \in Aim : Cleared(D, x)[a] = IF a = x THEN {} ELSE D[a]
  BY <1>1, <1>3, ClearedIs
<1> DEFINE c == PatchedCode(code, S, v)
           E == Cleared(D, x)
<1>8. c = PatchedCode(code, D[x], v)
  BY <1>1, PatchedNat
<1>9. E = Cleared(D, x)
  OBVIOUS
<1>10. c = PatchedCode(code, S, v)
  OBVIOUS
<1> HIDE DEF c, E
<1>11. Patching(code, D, P, L, x, v, Q, L, E, c)
  BY <1>1, <1>3, <1>4, <1>6, <1>7, <1>8, <1>9 DEF Patching
<1>12. /\ c \in Seq(Instruction) /\ Len(c) = Len(code)
       /\ Sound(c, E, Q, L) /\ (Arrived(code, P, L) => Arrived(c, Q, L))
  BY <1>11, Patches
<1> QED
  BY <1>3, <1>7, <1>9, <1>10, <1>12

\* A jump is written that goes to its place at once, or is aimed at none.
LEMMA WroteKnown ==
  ASSUME NEW code, NEW D, NEW P, NEW L, NEW ins, NEW c, KnownEmit(code, D, P, L, ins, c)
  PROVE  /\ c \in Seq(Instruction) /\ Len(c) = Len(code) + 1
         /\ Sound(c, D, P, L)
         /\ Arrived(code, P, L) => (KnownTo(ins, P, L) => Arrived(c, P, L))
<1>1. c \in Seq(Instruction) /\ Len(c) = Len(code) + 1
  BY AppendProperties DEF KnownEmit
<1> QED
  BY <1>1, EmittedKnown

-----------------------------------------------------------------------------
(* The node on top, and what is below it.                                  *)

Below(m, o, g, n, a) ==
  UNION {OfReturns(m.returns, a), OfLabels(m.goto_labels, a),
         OfGroups(m.shortcircuits, g, Len(g), a), OfBreaks(m.branches, o, n, a),
         OfConditions(m.branches, o, n, a)}

OfTop(r, b, a) ==
  (IF a = BreakAim(b) THEN ToSet(r.end_stack) \cap Nat ELSE {})
    \cup (IF b.part # "when" /\ a = ConditionAim(b) THEN {r.curr_jump} \cap Nat ELSE {})

Preceding(j, n) == n \in Nat \ {0} /\ j = n - 1

LEMMA BelowSplit ==
  ASSUME NEW m, NEW o, NEW g, NEW n, NEW j, Preceding(j, n), NEW a
  PROVE  Below(m, o, g, n, a) = Below(m, o, g, j, a) \cup OfTop(m.branches[n], o[n], a)
<1>0. 1..n = 1..j \cup {n}
  BY DEF Preceding
<1>1. OfBreaks(m.branches, o, n, a) =
        OfBreaks(m.branches, o, j, a)
          \cup (IF a = BreakAim(o[n]) THEN ToSet(m.branches[n].end_stack) \cap Nat ELSE {})
  BY <1>0 DEF OfBreaks
<1>2. OfConditions(m.branches, o, n, a) =
        OfConditions(m.branches, o, j, a)
          \cup (IF o[n].part # "when" /\ a = ConditionAim(o[n])
                THEN {m.branches[n].curr_jump} \cap Nat ELSE {})
  BY <1>0 DEF OfConditions
<1> QED
  BY <1>1, <1>2 DEF Below, OfTop

Tops(o, j, n) == Preceding(j, n) /\ Len(o) = n

LEMMA WaitingSplit ==
  ASSUME NEW o, NEW j, NEW n, Tops(o, j, n)
  PROVE  \A m, g, a : Waiting(m, o, g, a) = Below(m, o, g, j, a) \cup OfTop(m.branches[n], o[n], a)
<1>1. \A m, g, a : Waiting(m, o, g, a) = Below(m, o, g, n, a)
  BY DEF Waiting, Below, Tops
<1>2. Preceding(j, n)
  BY DEF Tops
<1>3. \A m, g, a : Below(m, o, g, n, a) = Below(m, o, g, j, a) \cup OfTop(m.branches[n], o[n], a)
  BY <1>2, BelowSplit
<1> QED
  BY <1>1, <1>3

\* Where nothing that counts is different but the breaks. A loop that is at its
\* condition is as after its body.
Alike(b, c) ==
  /\ c.id = b.id /\ c.node = b.node /\ c.loop = b.loop
  /\ c.part = b.part \/ (b.part = "after" /\ c.part = "tested")

Agree(m, o, q, p, n) ==
  /\ q.returns = m.returns /\ q.goto_labels = m.goto_labels /\ q.shortcircuits = m.shortcircuits
  /\ \A k \in 1..n :
       /\ Alike(o[k], p[k])
       /\ q.branches[k].curr_jump = m.branches[k].curr_jump
       /\ q.branches[k].branch_start = m.branches[k].branch_start
       /\ q.branches[k].is_loop = m.branches[k].is_loop

SameBreaks(m, q, n) == \A k \in 1..n : ToSet(q.branches[k].end_stack) = ToSet(m.branches[k].end_stack)

LEMMA BelowSame ==
  ASSUME NEW m, NEW o, NEW q, NEW p, NEW n, Agree(m, o, q, p, n), SameBreaks(m, q, n)
  PROVE  \A g, a : Below(q, p, g, n, a) = Below(m, o, g, n, a)
<1>1. \A k \in 1..n :
        /\ BreakAim(p[k]) = BreakAim(o[k]) /\ ConditionAim(p[k]) = ConditionAim(o[k])
        /\ p[k].part = "when" <=> o[k].part = "when"
  <2>1. \A k \in 1..n : Alike(o[k], p[k])
    BY DEF Agree
  <2> QED
    BY <2>1 DEF Alike, BreakAim, ConditionAim
<1>2. \A a : OfBreaks(q.branches, p, n, a) = OfBreaks(m.branches, o, n, a)
  BY <1>1 DEF SameBreaks, OfBreaks
<1>3. \A a : OfConditions(q.branches, p, n, a) = OfConditions(m.branches, o, n, a)
  <2>1. \A k \in 1..n : q.branches[k].curr_jump = m.branches[k].curr_jump
    BY DEF Agree
  <2> QED
    BY <1>1, <2>1 DEF OfConditions
<1> QED
  BY <1>2, <1>3 DEF Agree, Below

\* Two machines with the same table.
LEMMA SameWaiting ==
  ASSUME NEW m, NEW o, NEW q, NEW p, Len(p) = Len(o), Agree(m, o, q, p, Len(o)), SameBreaks(m, q, Len(o))
  PROVE  \A g : TableOf(q, p, g) = TableOf(m, o, g)
<1>1. \A g, a : Waiting(q, p, g, a) = Below(q, p, g, Len(o), a) /\ Waiting(m, o, g, a) = Below(m, o, g, Len(o), a)
  BY DEF Waiting, Below
<1>2. \A g, a : Below(q, p, g, Len(o), a) = Below(m, o, g, Len(o), a)
  BY BelowSame
<1> QED
  BY <1>1, <1>2 DEF TableOf

LEMMA SameFunction ==
  ASSUME NEW D, NEW E, D \in Table, E \in Table, \A a \in Aim : D[a] = E[a]
  PROVE  D = E
BY DEF Table

LEMMA TopOpen ==
  ASSUME TypeOK, Shape, open # <<>>
  PROVE  LET n == Len(open)
         IN /\ n \in Nat \ {0} /\ n \in Nat /\ n - 1 \in Nat /\ n \in 1..n
            /\ Top = open[n] /\ Top \in Node
            /\ Len(asm.branches) = n /\ asm.branches # <<>>
            /\ NodeOK(Top, asm.branches[n], places) /\ NestedOK(open, n)
            /\ Top.id \in 2..Len(places) /\ Top.id \in 1..Len(places) /\ Top.id \in Nat /\ Top.id # ByLabel
            /\ \A k \in 1..(n - 1) : k \in 1..n /\ k # n /\ open[k].id # Top.id
            /\ \A k \in 1..Len(groups) : groups[k].id # Top.id
<1> DEFINE n == Len(open)
<1>1. n \in Nat \ {0} /\ n \in Nat /\ n - 1 \in Nat /\ n \in 1..n /\ Top = open[n] /\ Top \in Node
  BY Types, FrontAndLast DEF Top
<1>2. Len(asm.branches) = n /\ asm.branches # <<>>
  <2>1. Len(asm.branches) = n /\ asm.branches \in Seq(Branch)
    BY OpenNodes, Types
  <2>2. Len(<<>>) = 0
    BY EmptySeq
  <2> QED
    BY <1>1, <2>1, <2>2
<1>3. NodeOK(Top, asm.branches[n], places) /\ NestedOK(open, n)
  BY <1>1 DEF Shape, NodesOK
<1>4. \A k \in 1..(n - 1) : k \in 1..n /\ k # n
  BY <1>1
<1>5. Len(places) \in Nat /\ Top.id \in 2..Len(places) /\ Top.id # ByLabel
  BY <1>1, OpenNodes, Types
<1>6. \A k \in 1..(n - 1) : open[k].id # Top.id
  BY <1>1, <1>4, OpenNodes
<1>7. \A k \in 1..Len(groups) : groups[k].id # Top.id
  BY <1>1, OpenNodes
<1>8. Top.id \in 1..Len(places) /\ Top.id \in Nat
  BY <1>5
<1> QED
  BY <1>1, <1>2, <1>3, <1>4, <1>5, <1>6, <1>7, <1>8

LEMMA NodesBelow ==
  ASSUME TypeOK, Shape, NEW q, NEW p, NEW n, Agree(asm, open, q, p, n), n \in Nat, n <= Len(open),
         NEW Q, Len(Q) \in Nat, Len(Q) >= Len(places),
         \A k \in 1..n : Q[open[k].id] = places[open[k].id]
  PROVE  \A k \in 1..n : NodeOK(p[k], q.branches[k], Q) /\ NestedOK(p, k) /\ p[k].id = open[k].id
<1>0. Len(open) \in Nat /\ Len(places) \in Nat
  BY Types
<1>1. ASSUME NEW k \in 1..n
      PROVE  NodeOK(p[k], q.branches[k], Q)
  <2>1. /\ Alike(open[k], p[k]) /\ q.branches[k].is_loop = asm.branches[k].is_loop
        /\ q.branches[k].branch_start = asm.branches[k].branch_start
    BY DEF Agree
  <2>2. k \in 1..Len(open)
    BY <1>0
  <2>3. NodeOK(open[k], asm.branches[k], places)
    BY <2>2 DEF Shape, NodesOK
  <2>4. open[k].id \in 2..Len(Q)
    BY <1>0, <2>3 DEF NodeOK
  <2>5. Q[open[k].id] = places[open[k].id]
    OBVIOUS
  <2>6. CASE p[k].part = open[k].part
    BY <2>1, <2>3, <2>4, <2>5, <2>6 DEF NodeOK, Alike
  <2>7. CASE open[k].part = "after" /\ p[k].part = "tested"
    <3>1. open[k].node \notin {"while", "if", "?:", "until"}
      BY <2>3, <2>7 DEF NodeOK
    <3> QED
      BY <2>1, <2>3, <2>4, <2>5, <2>7, <3>1 DEF NodeOK, Alike
  <2> QED
    BY <2>1, <2>6, <2>7 DEF Alike
<1>2. ASSUME NEW k \in 1..n
      PROVE  NestedOK(p, k)
  <2>1. k \in 1..Len(open)
    BY <1>0
  <2>2. NestedOK(open, k)
    BY <2>1 DEF Shape, NodesOK
  <2>3. \A j \in 1..k : j \in 1..n
    BY <1>0
  <2>4. \A j \in 1..k : p[j].id = open[j].id /\ p[j].node = open[j].node /\ p[j].loop = open[j].loop
    BY <2>3 DEF Agree, Alike
  <2>5. k = 1 \/ k - 1 \in 1..k
    BY <1>0
  <2>6. k \in 1..k
    BY <1>0
  <2> QED
    BY <2>2, <2>4, <2>5, <2>6 DEF NestedOK
<1>3. \A k \in 1..n : p[k].id = open[k].id
  BY DEF Agree, Alike
<1> QED
  BY <1>1, <1>2, <1>3

\* Groups do not depend on what the nodes are, but on their names.
LEMMA GroupsKept ==
  ASSUME TypeOK, Shape, UNCHANGED groups, asm'.shortcircuits = asm.shortcircuits,
         Len(places') \in Nat, Len(places') >= Len(places), Len(open') \in Nat,
         \A k \in 1..Len(groups) : /\ places'[groups[k].id].end = places[groups[k].id].end
                                   /\ groups[k].depth <= Len(open'),
         \A j \in 1..Len(open') :
           (\E i \in 1..Len(open) : open'[j].id = open[i].id) \/ open'[j].id = Len(places) + 1
  PROVE  GroupsOK(asm.shortcircuits, groups, open, places)'
<1>0. Len(places) \in Nat /\ Len(groups) \in Nat
  BY Types
<1>1. GroupsOK(asm.shortcircuits, groups, open, places)
  BY DEF Shape
<1>2. \A k \in 1..Len(groups) :
        groups[k].id \in 2..Len(places') /\ places'[groups[k].id].end = Nowhere
  <2>1. \A k \in 1..Len(groups) : groups[k].id \in 2..Len(places) /\ places[groups[k].id].end = Nowhere
    BY <1>1 DEF GroupsOK
  <2>2. \A id \in 2..Len(places) : id \in 2..Len(places')
    BY <1>0
  <2> QED
    BY <2>1, <2>2
<1>3. \A j \in 1..Len(open'), k \in 1..Len(groups) : open'[j].id # groups[k].id
  <2>1. \A j \in 1..Len(open), k \in 1..Len(groups) : open[j].id # groups[k].id
    BY <1>1 DEF GroupsOK
  <2>2. \A k \in 1..Len(groups) : groups[k].id # Len(places) + 1
    <3>1. \A id \in 2..Len(places) : id # Len(places) + 1
      BY <1>0
    <3> QED
      BY <1>1, <3>1 DEF GroupsOK
  <2> QED
    BY <2>1, <2>2
<1> QED
  BY <1>1, <1>2, <1>3 DEF GroupsOK

\* Nothing of a group is left in the node on top: they all began below it.
LEMMA GroupsBelow ==
  ASSUME TypeOK, Shape, NoGroup, open # <<>>
  PROVE  \A k \in 1..Len(groups) : groups[k].depth <= Len(open) - 1
<1> DEFINE n == Len(groups)
<1>1. /\ n \in Nat /\ Len(open) \in Nat /\ groups \in Seq(Group)
      /\ \A k \in 1..n : groups[k] \in Group
  BY Types
<1>2. /\ \A k \in 1..n : groups[k].depth <= Len(open)
      /\ \A j, k \in 1..n : j <= k => groups[j].depth <= groups[k].depth
  BY DEF Shape, GroupsOK
<1>3. \A k \in 1..n : groups[k].depth \in Nat
  BY <1>1 DEF Group
<1> SUFFICES ASSUME NEW k \in 1..n
             PROVE  groups[k].depth <= Len(open) - 1
  OBVIOUS
<1>4. groups # <<>> /\ n \in 1..n /\ k <= n
  <2>1. Len(<<>>) = 0
    BY EmptySeq
  <2>2. n # 0 /\ k <= n
    BY <1>1
  <2> QED
    BY <1>1, <2>1, <2>2
<1>5. groups[n].depth # Len(open)
  BY <1>1, <1>4, FrontAndLast DEF NoGroup
<1>6. groups[k].depth <= groups[n].depth
  BY <1>2, <1>4
<1> QED
  BY <1>1, <1>2, <1>3, <1>4, <1>5, <1>6

\* Of what waits for a place of the node on top, nothing is below it.
LEMMA NoneBelow ==
  ASSUME TypeOK, Shape, open # <<>>, NEW pl \in {"other", "end"}
  PROVE  LET x == [id |-> Top.id, place |-> pl]
         IN /\ x \in Aim /\ x # NoAim
            /\ Below(asm, open, groups, Len(open) - 1, x) = {}
            /\ x = BreakAim(Top) <=> Top.node \in Loops /\ pl = "end"
<1> DEFINE n == Len(open)
           x == [id |-> open[n].id, place |-> pl]
<1>1. n \in Nat \ {0} /\ n \in Nat /\ n \in 1..n /\ Top = open[n] /\ n - 1 \in Nat
  BY TopOpen
<1>2. open[n].id \in 2..Len(places) /\ open[n].id # ByLabel /\ open[n].id # Function /\ open[n].id \in Nat
  BY <1>1, OpenNodes, Types DEF ByLabel, Function
<1>3. OfReturns(asm.returns, x) = {} /\ OfLabels(asm.goto_labels, x) = {}
  BY <1>2 DEF OfReturns, OfLabels, FunctionEnd
<1>4. OfGroups(asm.shortcircuits, groups, Len(groups), x) = {}
  BY <1>1, OpenNodes DEF OfGroups
<1>5. \A k \in 1..(n - 1) : open[k].id # open[n].id /\ open[k].loop # open[n].id
  <2> SUFFICES ASSUME NEW k \in 1..(n - 1)
               PROVE  open[k].id # open[n].id /\ open[k].loop # open[n].id
    OBVIOUS
  <2>1. k \in 1..n /\ k # n
    BY <1>1
  <2>2. open[k].id # open[n].id
    BY <1>1, <2>1, OpenNodes
  <2>3. CASE open[k].loop = NoLoop
    BY <1>2, <2>2, <2>3 DEF NoLoop
  <2>4. CASE open[k].loop # NoLoop
    <3>1. PICK j \in 1..k : open[j].id = open[k].loop
      BY <2>1, <2>4, OpenNodes
    <3>2. j \in 1..n /\ j # n
      BY <1>1, <2>1
    <3> QED
      BY <1>1, <2>2, <3>1, <3>2, OpenNodes
  <2> QED
    BY <2>3, <2>4
<1>6. x # NoAim /\ x \in Aim
  BY <1>2, AimsAreAims DEF NoAim, ByLabel
<1>7. OfBreaks(asm.branches, open, n - 1, x) = {} /\ OfConditions(asm.branches, open, n - 1, x) = {}
  BY <1>5, <1>6 DEF OfBreaks, OfConditions, BreakAim, ConditionAim
<1>8. x = BreakAim(open[n]) <=> open[n].node \in Loops /\ pl = "end"
  <2>1. open[n].loop = open[n].id => open[n].node \in Loops
    <3> SUFFICES ASSUME open[n].loop = open[n].id
                 PROVE  open[n].node \in Loops
      OBVIOUS
    <3>1. open[n].loop # NoLoop
      BY <1>2 DEF NoLoop, ByLabel
    <3>2. PICK j \in 1..n : open[j].node \in Loops /\ open[j].id = open[n].loop
      BY <1>1, <3>1, OpenNodes
    <3> QED
      BY <1>1, <3>2, OpenNodes
  <2>2. open[n].node \in Loops => open[n].loop = open[n].id
    BY <1>1, OpenNodes
  <2> QED
    BY <1>2, <1>6, <2>1, <2>2 DEF BreakAim, NoLoop, ByLabel
<1> QED
  BY <1>1, <1>3, <1>4, <1>6, <1>7, <1>8 DEF Below

\* The breaks of what is no loop, which the branch below it gets, are for the
\* same loop.
Handing(q, p, S) ==
  LET n == Len(open)
  IN /\ Agree(asm, open, q, p, n - 1)
     /\ n = 1 => S = {}
     /\ \A k \in 1..(n - 1) :
          ToSet(q.branches[k].end_stack) =
            ToSet(asm.branches[k].end_stack) \cup (IF k = n - 1 THEN S ELSE {})

LEMMA HandedDown ==
  ASSUME TypeOK, Shape, open # <<>>, Top.node \notin Loops, NEW q, NEW p, NEW S, Handing(q, p, S)
  PROVE  \A a : Below(q, p, groups, Len(open) - 1, a) =
           Below(asm, open, groups, Len(open) - 1, a) \cup (IF a = BreakAim(Top) THEN S \cap Nat ELSE {})
<1> DEFINE n == Len(open)
           j == Len(open) - 1
<1>1. n \in Nat \ {0} /\ Top = open[n] /\ j \in Nat /\ (n = 1 <=> j = 0) /\ (j # 0 => j \in 1..j)
  <2>1. n \in Nat \ {0} /\ Top = open[n]
    BY TopOpen
  <2> HIDE DEF n
  <2>2. j = n - 1
    BY DEF n
  <2> QED
    BY <2>1, <2>2
<1>0. /\ Agree(asm, open, q, p, j)
      /\ n = 1 => S = {}
      /\ \A k \in 1..j : ToSet(q.branches[k].end_stack) =
                           ToSet(asm.branches[k].end_stack) \cup (IF k = j THEN S ELSE {})
  BY DEF Handing
<1>2. \A k \in 1..j : /\ BreakAim(p[k]) = BreakAim(open[k]) /\ ConditionAim(p[k]) = ConditionAim(open[k])
                      /\ p[k].part = "when" <=> open[k].part = "when"
                      /\ q.branches[k].curr_jump = asm.branches[k].curr_jump
  <2>1. \A k \in 1..j : Alike(open[k], p[k]) /\ q.branches[k].curr_jump = asm.branches[k].curr_jump
    BY <1>0 DEF Agree
  <2> HIDE DEF j
  <2> QED
    BY <2>1 DEF Alike, BreakAim, ConditionAim
<1>3. n # 1 => BreakAim(open[j]) = BreakAim(Top)
  <2>1. NestedOK(open, n)
    BY TopOpen
  <2> QED
    BY <1>1, <2>1 DEF NestedOK, BreakAim
<1>4. n = 1 => S = {}
  BY <1>0
<1>5. \A k \in 1..j : ToSet(q.branches[k].end_stack) =
                        ToSet(asm.branches[k].end_stack) \cup (IF k = j THEN S ELSE {})
  BY <1>0
<1> HIDE DEF n, j
<1>6. \A a : OfConditions(q.branches, p, j, a) = OfConditions(asm.branches, open, j, a)
  BY <1>2 DEF OfConditions
<1>7. \A a : OfBreaks(q.branches, p, j, a) =
               OfBreaks(asm.branches, open, j, a) \cup (IF a = BreakAim(Top) THEN S \cap Nat ELSE {})
  <2>1. CASE n = 1
    <3>1. S = {} /\ \A k \in 1..j : ToSet(q.branches[k].end_stack) = ToSet(asm.branches[k].end_stack)
      BY <1>4, <1>5, <2>1
    <3> QED
      BY <1>2, <3>1 DEF OfBreaks
  <2>2. CASE n # 1
    <3>1. j \in 1..j /\ BreakAim(open[j]) = BreakAim(Top)
      BY <1>1, <1>3, <2>2
    <3> QED
      BY <1>2, <1>5, <3>1 DEF OfBreaks
  <2> QED
    BY <2>1, <2>2
<1> QED
  BY <1>0, <1>6, <1>7 DEF Agree, Below, j

-----------------------------------------------------------------------------
(* The instructions of a branch.                                           *)

\* The branch on top has a new jump to be patched.
Jumping(m, r, v) ==
  LET n == Len(m.branches)
  IN /\ n \in Nat \ {0} /\ Len(r.branches) = n
     /\ \A k \in 1..n :
          /\ r.branches[k].end_stack = m.branches[k].end_stack
          /\ r.branches[k].branch_start = m.branches[k].branch_start
          /\ r.branches[k].is_loop = m.branches[k].is_loop
          /\ r.branches[k].curr_jump = IF k = n THEN v ELSE m.branches[k].curr_jump

LEMMA BranchesNotEmpty ==
  ASSUME NEW m, NEW r, m \in Machine, r \in Machine, Len(r.branches) = Len(m.branches), m.branches # <<>>
  PROVE  r.branches # <<>> /\ Len(m.branches) \in Nat \ {0}
<1>1. m.branches \in Seq(Branch) /\ r.branches \in Seq(Branch)
  BY MachineFields
<1>2. Len(m.branches) \in Nat \ {0} /\ Len(<<>>) = 0
  BY <1>1, EmptySeq, LenProperties
<1> QED
  BY <1>2

LEMMA SetJumpJumps ==
  ASSUME NEW m, m \in Machine, m.branches # <<>>
  PROVE  Jumping(m, set_jump(m), size(m)) /\ set_jump(m) \in Machine
         /\ SameBut({"branches"}, m, set_jump(m))
<1> DEFINE r == set_jump(m)
           n == Len(m.branches)
<1>1. /\ r \in Machine /\ SameBut({"branches"}, m, r) /\ Len(r.branches) = n
      /\ \A k \in 1..n : r.branches[k] = IF k = n THEN [m.branches[k] EXCEPT !.curr_jump = size(m)]
                                                  ELSE m.branches[k]
  BY SetJumpIs
<1>2. /\ \A k \in 1..n : m.branches[k] \in Branch
      /\ n \in Nat \ {0}
  BY MachineFields, BranchFields, BranchesNotEmpty
<1>3. \A b \in Branch : LET c == [b EXCEPT !.curr_jump = size(m)]
                        IN /\ c.curr_jump = size(m) /\ c.end_stack = b.end_stack
                           /\ c.branch_start = b.branch_start /\ c.is_loop = b.is_loop
  BY DEF Branch
<1> HIDE DEF r
<1>4. \A k \in 1..n :
        /\ r.branches[k].end_stack = m.branches[k].end_stack
        /\ r.branches[k].branch_start = m.branches[k].branch_start
        /\ r.branches[k].is_loop = m.branches[k].is_loop
        /\ r.branches[k].curr_jump = IF k = n THEN size(m) ELSE m.branches[k].curr_jump
  <2> SUFFICES ASSUME NEW k \in 1..n
               PROVE  /\ r.branches[k].end_stack = m.branches[k].end_stack
                      /\ r.branches[k].branch_start = m.branches[k].branch_start
                      /\ r.branches[k].is_loop = m.branches[k].is_loop
                      /\ r.branches[k].curr_jump = IF k = n THEN size(m) ELSE m.branches[k].curr_jump
    OBVIOUS
  <2>1. m.branches[k] \in Branch
    BY <1>2
  <2>2. r.branches[k] = IF k = n THEN [m.branches[k] EXCEPT !.curr_jump = size(m)] ELSE m.branches[k]
    BY <1>1
  <2>3. CASE k = n
    BY <1>3, <2>1, <2>2, <2>3
  <2>4. CASE k # n
    BY <2>2, <2>4
  <2> QED
    BY <2>3, <2>4
<1> QED
  BY <1>1, <1>2, <1>4 DEF r, Jumping

LEMMA ThenIs ==
  ASSUME NEW m, m \in Machine, m.branches # <<>>, NEW aim, aim \in Aim
  PROVE  LET r == asm_then(m, aim)
             ins == [op |-> "jz", to |-> size(m) + 1, aim |-> aim]
         IN /\ r \in Machine /\ SameBut({"code", "branches"}, m, r) /\ r.branches # <<>>
            /\ ins \in Instruction /\ r.code = Append(m.code, ins) /\ size(r) = size(m) + 1
            /\ Jumping(m, r, size(m) + 1)
<1> DEFINE e == emit(m, "jz", aim)
           r == asm_then(m, aim)
           ins == [op |-> "jz", to |-> size(m) + 1, aim |-> aim]
<1>1. /\ e \in Machine /\ SameBut({"code"}, m, e)
      /\ ins \in Instruction /\ e.code = Append(m.code, ins) /\ size(e) = size(m) + 1
  BY EmitIs DEF Ops
<1>2. r = set_jump(e)
  BY DEF asm_then
<1>3. e.branches = m.branches /\ e.branches # <<>>
  BY <1>1 DEF SameBut
<1> HIDE DEF e, r, ins
<1>4. Jumping(e, r, size(m) + 1) /\ r \in Machine /\ SameBut({"branches"}, e, r)
  BY <1>1, <1>2, <1>3, SetJumpJumps
<1>5. Jumping(m, r, size(m) + 1)
  BY <1>3, <1>4 DEF Jumping
<1>6. r.code = e.code /\ size(r) = size(e) /\ SameBut({"code", "branches"}, m, r)
  BY <1>1, <1>4 DEF SameBut, size
<1>7. r.branches # <<>>
  BY <1>5, <1>1, <1>4, BranchesNotEmpty DEF Jumping
<1> QED
  BY <1>1, <1>4, <1>5, <1>6, <1>7 DEF r, ins

LEMMA ElseIs ==
  ASSUME NEW m, m \in Machine, m.branches # <<>>, NEW aim, aim \in Aim
  PROVE  LET r == asm_else(m, aim)
             ins == [op |-> "jmp", to |-> size(m) + 1, aim |-> aim]
             jump == m.branches[Len(m.branches)].curr_jump
         IN /\ r \in Machine /\ SameBut({"code", "branches"}, m, r) /\ r.branches # <<>>
            /\ ins \in Instruction /\ size(r) = size(m) + 1
            /\ r.code = PatchedCode(Append(m.code, ins), {jump}, size(m) + 1)
            /\ Jumping(m, r, size(m) + 1)
<1> DEFINE e == emit(m, "jmp", aim)
           w == write_jump(e)
           r == asm_else(m, aim)
           ins == [op |-> "jmp", to |-> size(m) + 1, aim |-> aim]
<1>1. /\ e \in Machine /\ SameBut({"code"}, m, e)
      /\ ins \in Instruction /\ e.code = Append(m.code, ins) /\ size(e) = size(m) + 1
  BY EmitIs DEF Ops
<1>2. r = set_jump(w) /\ w = write_jump(e)
  BY DEF asm_else
<1>3. e.branches = m.branches /\ e.branches # <<>>
  BY <1>1 DEF SameBut
<1> HIDE DEF e, w, r, ins
<1>4. /\ w \in Machine /\ SameBut({"code"}, e, w) /\ size(w) = size(e)
      /\ w.code = PatchedCode(e.code, {e.branches[Len(e.branches)].curr_jump}, size(e))
  BY <1>1, <1>2, <1>3, WriteJumpIs
<1>5. w.branches = m.branches /\ w.branches # <<>> /\ size(w) = size(m) + 1
  BY <1>1, <1>3, <1>4 DEF SameBut
<1>6. Jumping(w, r, size(w)) /\ r \in Machine /\ SameBut({"branches"}, w, r)
  BY <1>2, <1>4, <1>5, SetJumpJumps
<1>7. Jumping(m, r, size(m) + 1)
  BY <1>5, <1>6 DEF Jumping
<1>8. r.code = w.code /\ size(r) = size(w) /\ SameBut({"code", "branches"}, m, r)
  BY <1>1, <1>4, <1>6 DEF SameBut, size
<1>9. r.branches # <<>>
  BY <1>7, <1>1, <1>6, BranchesNotEmpty DEF Jumping
<1> QED
  BY <1>1, <1>3, <1>4, <1>5, <1>6, <1>7, <1>8, <1>9 DEF r, ins

\* What is below the branch that ends gets its breaks, unless it is a loop.
Ended(m, r) ==
  LET n == Len(m.branches)
      top == m.branches[n]
  IN /\ Len(r.branches) = n - 1
     /\ ~top.is_loop /\ n = 1 => top.end_stack = <<>>
     /\ \A k \in 1..(n - 1) :
          /\ r.branches[k].branch_start = m.branches[k].branch_start
          /\ r.branches[k].is_loop = m.branches[k].is_loop
          /\ r.branches[k].curr_jump = m.branches[k].curr_jump
          /\ ToSet(r.branches[k].end_stack) =
               ToSet(m.branches[k].end_stack)
                 \cup (IF ~top.is_loop /\ k = n - 1 THEN ToSet(top.end_stack) ELSE {})

LEMMA EndIs ==
  ASSUME NEW m, m \in Machine, m.branches # <<>>, ~m.fault
  PROVE  LET r == asm_end(m)
             n == Len(m.branches)
             top == m.branches[n]
         IN /\ r \in Machine /\ SameBut({"code", "branches", "fault"}, m, r)
            /\ r.code = PatchedCode(m.code, {top.curr_jump}
                                      \cup (IF top.is_loop THEN ToSet(top.end_stack) ELSE {}), size(m))
            /\ size(r) = size(m)
            /\ ~r.fault => Ended(m, r)
<1> DEFINE w == write_jump(m)
           r == asm_end(m)
           n == Len(m.branches)
           top == m.branches[n]
<1>1. /\ w \in Machine /\ SameBut({"code"}, m, w) /\ size(w) = size(m)
      /\ w.code = PatchedCode(m.code, {top.curr_jump}, size(m))
  BY WriteJumpIs
<1>2. r = pop_branch(w)
  BY DEF asm_end
<1>3. w.branches = m.branches /\ w.branches # <<>> /\ ~w.fault
  BY <1>1 DEF SameBut
<1> HIDE DEF w, r
<1>4. /\ r \in Machine /\ SameBut({"code", "branches", "fault"}, w, r)
      /\ r.code = IF top.is_loop THEN PatchedCode(w.code, ToSet(top.end_stack), size(w)) ELSE w.code
      /\ n \in Nat \ {0}
      /\ r.fault \/ r.fault = w.fault
      /\ r.fault = w.fault => (w.fault /\ r.branches = w.branches) \/ Ended(w, r)
  <2>1. LET p == pop_branch(w)
            t == w.branches[Len(w.branches)]
        IN /\ p \in Machine /\ SameBut({"code", "branches", "fault"}, w, p)
           /\ p.code = IF t.is_loop THEN PatchedCode(w.code, ToSet(t.end_stack), size(w)) ELSE w.code
           /\ Len(w.branches) \in Nat \ {0}
           /\ p.fault \/ p.fault = w.fault
    BY <1>1, <1>3, PopBranchIs
  <2>2. pop_branch(w).fault = w.fault =>
          (w.fault /\ pop_branch(w).branches = w.branches) \/ Ended(w, pop_branch(w))
    BY <1>1, <1>3, PopBranchIs DEF Ended
  <2> QED
    BY <1>2, <1>3, <2>1, <2>2
<1>5. ~r.fault => Ended(m, r)
  <2>1. ~r.fault => r.fault = w.fault
    BY <1>4
  <2> QED
    BY <1>3, <1>4, <2>1 DEF Ended
<1>6. SameBut({"code", "branches", "fault"}, m, r)
  BY <1>1, <1>4 DEF SameBut
<1>7. m.code \in Seq(Instruction) /\ size(m) \in Nat
  BY MachineFields
<1>8. r.code = PatchedCode(m.code, {top.curr_jump}
                             \cup (IF top.is_loop THEN ToSet(top.end_stack) ELSE {}), size(m))
  <2>1. CASE top.is_loop
    <3>1. PatchedCode(PatchedCode(m.code, {top.curr_jump}, size(m)), ToSet(top.end_stack), size(m))
            = PatchedCode(m.code, {top.curr_jump} \cup ToSet(top.end_stack), size(m))
      BY <1>7, PatchedTwice
    <3> QED
      BY <1>1, <1>4, <2>1, <3>1
  <2>2. CASE ~top.is_loop
    <3>1. {top.curr_jump} \cup {} = {top.curr_jump}
      OBVIOUS
    <3> QED
      BY <1>1, <1>4, <2>2, <3>1
  <2> QED
    BY <2>1, <2>2
<1>9. size(r) = size(m)
  <2>1. \A S : Len(PatchedCode(m.code, S, size(m))) = Len(m.code)
    BY <1>7, LenProperties DEF PatchedCode
  <2> QED
    BY <1>8, <2>1 DEF size
<1> QED
  BY <1>4, <1>5, <1>6, <1>8, <1>9 DEF r

-----------------------------------------------------------------------------
(* The shape after the node on top has got another part, after a node has  *)
(* been begun and after one has ended.                                     *)

\* What such steps have in common. The first n nodes and branches are kept.
Around(n) ==
  /\ TypeOK /\ Shape /\ phase = "function"
  /\ UNCHANGED <<groups, labelled, phase>>
  /\ n \in Nat /\ n <= Len(open) /\ n <= Len(open') /\ Len(open') \in Nat
  /\ Agree(asm, open, asm', open', n)
  /\ Len(asm'.branches) = Len(open')
  /\ Len(places') \in Nat /\ Len(places') >= Len(places)

LEMMA AroundKept ==
  ASSUME NEW n, Around(n),
         \A i \in 1..Len(places) : i = Function \/ (\E k \in 1..n : i = open[k].id) => places'[i] = places[i],
         \A k \in 1..Len(groups) : places'[groups[k].id] = places[groups[k].id]
  PROVE  /\ \A k \in 1..n : /\ NodeOK(open'[k], asm'.branches[k], places') /\ NestedOK(open', k)
                            /\ open'[k].id = open[k].id
         /\ LabelsOK(asm.goto_labels, labelled)' /\ PhaseOK'
<1>1. TypeOK /\ Shape /\ n \in Nat /\ n <= Len(open) /\ Len(open) \in Nat
  BY Types DEF Around
<1>2. \A k \in 1..n : places'[open[k].id] = places[open[k].id]
  <2> SUFFICES ASSUME NEW k \in 1..n
               PROVE  places'[open[k].id] = places[open[k].id]
    OBVIOUS
  <2>1. k \in 1..Len(open) /\ Len(places) \in Nat
    BY <1>1, Types
  <2>2. open[k].id \in 1..Len(places)
    BY <1>1, <2>1, OpenNodes
  <2> QED
    BY <2>2
<1>3. \A k \in 1..n : /\ NodeOK(open'[k], asm'.branches[k], places') /\ NestedOK(open', k)
                      /\ open'[k].id = open[k].id
  <2>1. /\ Agree(asm, open, asm', open', n)
        /\ Len(places') \in Nat /\ Len(places') >= Len(places)
    BY DEF Around
  <2> QED
    BY <1>1, <1>2, <2>1, NodesBelow, SMTT(30)
<1>4. LabelsOK(asm.goto_labels, labelled)'
  BY <1>1 DEF Around, Agree, Shape, LabelsOK
<1>5. PhaseOK'
  <2>1. Len(places) >= 1 /\ places[Function].end = Nowhere /\ Len(places) \in Nat
    BY <1>1, Types DEF Around, Shape, PhaseOK
  <2>2. Function \in 1..Len(places)
    BY <2>1 DEF Function
  <2>3. places'[Function] = places[Function]
    BY <2>2
  <2>4. Len(places') >= 1
    BY <2>1 DEF Around
  <2> QED
    BY <2>1, <2>3, <2>4 DEF PhaseOK, Around
<1> QED
  BY <1>3, <1>4, <1>5

LEMMA ShapeTop ==
  ASSUME open # <<>>, Around(Len(open) - 1), Len(open') = Len(open), Len(places') = Len(places),
         Top'.id = Top.id, Top'.node = Top.node, Top'.loop = Top.loop,
         NodeOK(open'[Len(open)], asm'.branches[Len(open)], places'),
         \A i \in 1..Len(places) : i # Top.id => places'[i] = places[i]
  PROVE  Shape'
<1> DEFINE n == Len(open)
<1>1. TypeOK /\ Shape
  BY DEF Around
<1>2. /\ n \in Nat \ {0} /\ n \in Nat /\ n - 1 \in Nat /\ n \in 1..n /\ Top = open[n]
      /\ Top.id \in 2..Len(places) /\ Len(places) \in Nat
      /\ NestedOK(open, n)
      /\ \A k \in 1..(n - 1) : k \in 1..n /\ k # n /\ open[k].id # Top.id
      /\ \A k \in 1..Len(groups) : groups[k].id # Top.id
  BY <1>1, TopOpen, Types
<1>3. Top' = open'[n] /\ Len(open') = n
  BY DEF Top
<1>4. \A k \in 1..Len(groups) : places'[groups[k].id] = places[groups[k].id]
  <2>1. \A k \in 1..Len(groups) : groups[k].id \in 1..Len(places)
    <3>1. \A id \in 2..Len(places) : id \in 1..Len(places)
      BY <1>2
    <3> QED
      BY <1>1, <3>1, OpenNodes
  <2> QED
    BY <1>2, <2>1
<1>5. Function # Top.id
  BY <1>2 DEF Function
<1>6. /\ \A k \in 1..(n - 1) : /\ NodeOK(open'[k], asm'.branches[k], places') /\ NestedOK(open', k)
                               /\ open'[k].id = open[k].id
      /\ LabelsOK(asm.goto_labels, labelled)' /\ PhaseOK'
  <2>1. \A i \in 1..Len(places) : i = Function \/ (\E k \in 1..(n - 1) : i = open[k].id) => places'[i] = places[i]
    BY <1>2, <1>5
  <2> QED
    BY <1>4, <2>1, AroundKept
<1>7. \A k \in 1..n : k \in 1..(n - 1) \/ k = n
  BY <1>2
<1>8. \A k \in 1..n : open'[k].id = open[k].id
  BY <1>2, <1>3, <1>6, <1>7
<1>9. NestedOK(open', n)
  <2>1. \A k \in 1..n : /\ open'[k].id = open[k].id /\ open'[k].node = open[k].node
                        /\ open'[k].loop = open[k].loop
    <3>1. \A k \in 1..(n - 1) : open'[k].node = open[k].node /\ open'[k].loop = open[k].loop
      BY DEF Around, Agree, Alike
    <3> QED
      BY <1>2, <1>3, <1>7, <1>8, <3>1
  <2>2. n = 1 \/ n - 1 \in 1..n
    BY <1>2, SMTT(30)
  <2> QED
    BY <1>2, <2>1, <2>2 DEF NestedOK
<1>10. NodesOK(asm.branches, open, places)'
  <2>1. \A k \in 1..n : NodeOK(open'[k], asm'.branches[k], places') /\ NestedOK(open', k)
    BY <1>6, <1>7, <1>9
  <2>2. \A j, k \in 1..n : open'[j].id = open'[k].id => j = k
    BY <1>1, <1>8, OpenNodes
  <2> QED
    BY <1>3, <2>1, <2>2 DEF NodesOK, Around
<1>11. GroupsOK(asm.shortcircuits, groups, open, places)'
  <2>1. \A k \in 1..Len(groups) : groups[k].depth <= Len(open')
    BY <1>1, <1>3 DEF Shape, GroupsOK
  <2>2. \A k \in 1..Len(open') : \E i \in 1..Len(open) : open'[k].id = open[i].id
    BY <1>3, <1>8
  <2>3. UNCHANGED groups /\ asm'.shortcircuits = asm.shortcircuits /\ Len(places') \in Nat
        /\ Len(places') >= Len(places) /\ Len(open') \in Nat
    BY DEF Around, Agree
  <2> QED
    BY <1>1, <1>4, <2>1, <2>2, <2>3, GroupsKept
<1> QED
  BY <1>6, <1>10, <1>11 DEF Shape

LEMMA ShapePushed ==
  ASSUME Around(Len(open)), Len(open') = Len(open) + 1, Len(places') = Len(places) + 1,
         open'[Len(open) + 1].id = Len(places) + 1,
         NodeOK(open'[Len(open) + 1], asm'.branches[Len(open) + 1], places'), NestedOK(open', Len(open) + 1),
         \A i \in 1..Len(places) : places'[i] = places[i]
  PROVE  Shape'
<1> DEFINE n == Len(open)
<1>1. TypeOK /\ Shape
  BY DEF Around
<1>2. n \in Nat /\ Len(places) \in Nat
  BY <1>1, Types
<1>3. \A k \in 1..Len(groups) : places'[groups[k].id] = places[groups[k].id]
  <2>1. \A id \in 2..Len(places) : id \in 1..Len(places)
    BY <1>2
  <2> QED
    BY <1>1, <2>1, OpenNodes
<1>4. /\ \A k \in 1..n : /\ NodeOK(open'[k], asm'.branches[k], places') /\ NestedOK(open', k)
                         /\ open'[k].id = open[k].id
      /\ LabelsOK(asm.goto_labels, labelled)' /\ PhaseOK'
  BY <1>3, AroundKept
<1>5. \A k \in 1..(n + 1) : k \in 1..n \/ k = n + 1
  BY <1>2
<1>6. NodesOK(asm.branches, open, places)'
  <2>1. \A k \in 1..(n + 1) : NodeOK(open'[k], asm'.branches[k], places') /\ NestedOK(open', k)
    BY <1>4, <1>5
  <2>2. \A k \in 1..n : open'[k].id # Len(places) + 1
    <3>1. \A id \in 2..Len(places) : id # Len(places) + 1
      BY <1>2
    <3> QED
      BY <1>1, <1>4, <3>1, OpenNodes
  <2>3. \A j, k \in 1..(n + 1) : open'[j].id = open'[k].id => j = k
    <3>1. \A j, k \in 1..n : open'[j].id = open'[k].id => j = k
      BY <1>1, <1>4, OpenNodes
    <3> QED
      BY <1>5, <2>2, <3>1
  <2> QED
    BY <2>1, <2>3 DEF NodesOK, Around
<1>7. GroupsOK(asm.shortcircuits, groups, open, places)'
  <2>1. \A k \in 1..Len(groups) : groups[k].depth <= Len(open')
    <3>1. \A k \in 1..Len(groups) : groups[k].depth <= n /\ groups[k].depth \in Nat
      BY <1>1, Types DEF Shape, GroupsOK, Group
    <3> QED
      BY <1>2, <3>1
  <2>2. \A k \in 1..Len(open') :
          (\E i \in 1..Len(open) : open'[k].id = open[i].id) \/ open'[k].id = Len(places) + 1
    BY <1>4, <1>5
  <2>3. UNCHANGED groups /\ asm'.shortcircuits = asm.shortcircuits /\ Len(places') \in Nat
        /\ Len(places') >= Len(places) /\ Len(open') \in Nat
    BY DEF Around, Agree
  <2> QED
    BY <1>1, <1>3, <2>1, <2>2, <2>3, GroupsKept
<1> QED
  BY <1>4, <1>6, <1>7 DEF Shape

LEMMA ShapePopped ==
  ASSUME open # <<>>, NoGroup, Around(Len(open) - 1), Len(open') = Len(open) - 1, Len(places') = Len(places),
         \A i \in 1..Len(places) : i # Top.id => places'[i] = places[i]
  PROVE  Shape'
<1> DEFINE n == Len(open)
<1>1. TypeOK /\ Shape
  BY DEF Around
<1>2. /\ n \in Nat \ {0} /\ n \in Nat /\ n - 1 \in Nat /\ n \in 1..n
      /\ Top.id \in 2..Len(places) /\ Len(places) \in Nat
      /\ \A k \in 1..(n - 1) : k \in 1..n /\ open[k].id # Top.id
      /\ \A k \in 1..Len(groups) : groups[k].id # Top.id
  BY <1>1, TopOpen, Types
<1>3. \A k \in 1..Len(groups) : places'[groups[k].id] = places[groups[k].id]
  <2>1. \A id \in 2..Len(places) : id \in 1..Len(places)
    BY <1>2
  <2> QED
    BY <1>1, <1>2, <2>1, OpenNodes
<1>4. /\ \A k \in 1..(n - 1) : /\ NodeOK(open'[k], asm'.branches[k], places') /\ NestedOK(open', k)
                               /\ open'[k].id = open[k].id
      /\ LabelsOK(asm.goto_labels, labelled)' /\ PhaseOK'
  <2>1. Function # Top.id
    BY <1>2 DEF Function
  <2>2. \A i \in 1..Len(places) : i = Function \/ (\E k \in 1..(n - 1) : i = open[k].id) => places'[i] = places[i]
    BY <1>2, <2>1
  <2> QED
    BY <1>3, <2>2, AroundKept
<1>5. NodesOK(asm.branches, open, places)'
  <2>1. \A j, k \in 1..(n - 1) : open'[j].id = open'[k].id => j = k
    BY <1>1, <1>2, <1>4, OpenNodes
  <2> QED
    BY <1>4, <2>1 DEF NodesOK, Around
<1>6. GroupsOK(asm.shortcircuits, groups, open, places)'
  <2>1. \A k \in 1..Len(groups) : groups[k].depth <= Len(open')
    BY <1>1, GroupsBelow
  <2>2. \A k \in 1..Len(open') : \E i \in 1..Len(open) : open'[k].id = open[i].id
    BY <1>2, <1>4
  <2>3. UNCHANGED groups /\ asm'.shortcircuits = asm.shortcircuits /\ Len(places') \in Nat
        /\ Len(places') >= Len(places) /\ Len(open') \in Nat
    BY DEF Around, Agree
  <2> QED
    BY <1>1, <1>3, <2>1, <2>2, <2>3, GroupsKept
<1> QED
  BY <1>4, <1>5, <1>6 DEF Shape

-----------------------------------------------------------------------------
(* Steps of the nodes.                                                     *)

LEMMA LeaveIs ==
  ASSUME TypeOK, Shape, open # <<>>, Sound(asm.code, TableOf(asm, open, groups), places, labelled),
         NEW r, r = asm_goto_end(asm, BreakAim(Top))
  PROVE  /\ r \in Machine /\ SameBut({"code", "branches"}, asm, r)
         /\ Len(r.branches) = Len(asm.branches)
         /\ \A k \in 1..Len(asm.branches) :
              /\ r.branches[k].branch_start = asm.branches[k].branch_start
              /\ r.branches[k].curr_jump = asm.branches[k].curr_jump
              /\ r.branches[k].is_loop = asm.branches[k].is_loop
         /\ Sound(r.code, TableOf(r, open, groups), places, labelled)
         /\ Arrived(asm.code, places, labelled) => Arrived(r.code, places, labelled)
<1> DEFINE n == Len(open)
           aim == BreakAim(Top)
           ins == [op |-> "jmp", to |-> size(asm) + 1, aim |-> aim]
           D == TableOf(asm, open, groups)
           E == TableOf(r, open, groups)
           F == Added(D, aim, size(asm) + 1)
<1>1. /\ n \in Nat \ {0} /\ n \in Nat /\ n - 1 \in Nat /\ n \in 1..n /\ Top = open[n]
      /\ Len(asm.branches) = n /\ asm.branches # <<>>
      /\ \A k \in 1..(n - 1) : k \in 1..n /\ k # n
  BY TopOpen
<1>2. /\ aim \in Aim /\ Aimable(places, aim) /\ TargetIn(places, labelled, aim) = Nowhere /\ ~Resumes(aim)
  BY BreakIsOpen
<1>3. asm \in Machine /\ asm.code \in Seq(Instruction) /\ size(asm) = Len(asm.code) /\ size(asm) + 1 \in Nat
  BY Types
<1>4. r = asm_goto_end(asm, aim) /\ n = Len(open)
  OBVIOUS
<1> HIDE DEF aim, n
<1>5. /\ r \in Machine /\ SameBut({"code", "branches"}, asm, r)
      /\ ins \in Instruction /\ r.code = Append(asm.code, ins) /\ Len(r.branches) = n
      /\ \A k \in 1..n :
           /\ r.branches[k].branch_start = asm.branches[k].branch_start
           /\ r.branches[k].curr_jump = asm.branches[k].curr_jump
           /\ r.branches[k].is_loop = asm.branches[k].is_loop
           /\ ToSet(r.branches[k].end_stack) =
                ToSet(asm.branches[k].end_stack) \cup (IF k = n THEN {size(asm) + 1} ELSE {})
  <2>1. LET k == Len(asm.branches)
            q == asm_goto_end(asm, aim)
        IN /\ q \in Machine /\ SameBut({"code", "branches"}, asm, q)
           /\ ins \in Instruction /\ q.code = Append(asm.code, ins) /\ Len(q.branches) = k
           /\ \A i \in 1..k :
                /\ q.branches[i].branch_start = asm.branches[i].branch_start
                /\ q.branches[i].curr_jump = asm.branches[i].curr_jump
                /\ q.branches[i].is_loop = asm.branches[i].is_loop
                /\ ToSet(q.branches[i].end_stack) =
                     ToSet(asm.branches[i].end_stack) \cup (IF i = k THEN {size(asm) + 1} ELSE {})
    BY <1>1, <1>2, <1>3, GotoEndIs
  <2> HIDE DEF ins
  <2> QED
    BY <1>1, <1>4, <2>1
<1>6. D \in Table /\ E \in Table /\ Sound(asm.code, D, places, labelled)
      /\ \A a \in Aim : D[a] = Waiting(asm, open, groups, a) /\ E[a] = Waiting(r, open, groups, a)
  BY <1>3, <1>5, WaitingIsTable
<1>7. /\ Sound(r.code, F, places, labelled) /\ F \in Table
      /\ Arrived(asm.code, places, labelled) => Arrived(r.code, places, labelled)
      /\ \A a \in Aim : F[a] = IF a = aim THEN D[a] \cup {size(asm) + 1} ELSE D[a]
  <2>1. ins.aim = aim /\ ins.op # "op"
    OBVIOUS
  <2> HIDE DEF ins, D
  <2>2. Waits(asm.code, D, places, labelled, ins)
    BY <1>2, <1>3, <1>5, <1>6, <2>1 DEF Waits
  <2>3. \A a \in Aim : F[a] = IF a = aim THEN D[a] \cup {size(asm) + 1} ELSE D[a]
    BY <1>2, <1>3, <1>6 DEF Added
  <2> QED
    <3>1. LET c == Append(asm.code, ins)
              G == Added(D, ins.aim, Len(asm.code) + 1)
          IN /\ G \in Table /\ Sound(c, G, places, labelled)
             /\ Arrived(asm.code, places, labelled) => Arrived(c, places, labelled)
      BY <2>2, Waited
    <3> QED
      BY <1>3, <1>5, <2>1, <2>3, <3>1
<1> HIDE DEF D, E, F, ins
<1>8. ASSUME NEW a \in Aim
      PROVE  E[a] = F[a]
  <2>1. /\ Waiting(asm, open, groups, a) =
             Below(asm, open, groups, n - 1, a) \cup OfTop(asm.branches[n], open[n], a)
        /\ Waiting(r, open, groups, a) =
             Below(r, open, groups, n - 1, a) \cup OfTop(r.branches[n], open[n], a)
    <3>1. Tops(open, n - 1, n)
      BY <1>1, <1>4 DEF Tops, Preceding
    <3> QED
      BY <3>1, WaitingSplit
  <2>2. Below(r, open, groups, n - 1, a) = Below(asm, open, groups, n - 1, a)
    <3>1. Agree(asm, open, r, open, n - 1)
      BY <1>1, <1>5 DEF Agree, Alike, SameBut
    <3>2. SameBreaks(asm, r, n - 1)
      <4>1. ASSUME NEW k \in 1..(n - 1)
            PROVE  ToSet(r.branches[k].end_stack) = ToSet(asm.branches[k].end_stack)
        <5>1. k \in 1..n /\ k # n
          BY <1>1
        <5> QED
          BY <1>5, <5>1
      <4> QED
        BY <4>1 DEF SameBreaks
    <3> QED
      BY <3>1, <3>2, BelowSame
  <2>3. OfTop(r.branches[n], open[n], a) =
          OfTop(asm.branches[n], open[n], a) \cup (IF a = aim THEN {size(asm) + 1} ELSE {})
    <3>1. BreakAim(open[n]) = aim
      BY <1>1 DEF aim
    <3>2. /\ ToSet(r.branches[n].end_stack) = ToSet(asm.branches[n].end_stack) \cup {size(asm) + 1}
          /\ r.branches[n].curr_jump = asm.branches[n].curr_jump
      BY <1>1, <1>5
    <3> QED
      BY <1>3, <3>1, <3>2 DEF OfTop
  <2>4. /\ E[a] = Waiting(r, open, groups, a) /\ D[a] = Waiting(asm, open, groups, a)
        /\ F[a] = D[a] \cup (IF a = aim THEN {size(asm) + 1} ELSE {})
    BY <1>6, <1>7
  <2> QED
    BY <2>1, <2>2, <2>3, <2>4
<1>9. E = F
  BY <1>6, <1>7, <1>8, SameFunction
<1> QED
  BY <1>1, <1>5, <1>7, <1>9 DEF E

\* A machine that has failed is of no account.
LEMMA FaultKeeps ==
  ASSUME TypeOK, asm' \in Machine, asm'.code = asm.code, asm'.fault,
         UNCHANGED <<open, groups, places, labelled, phase>>
  PROVE  Kept
BY DEF Kept, JInv, TypeOK

LEMMA BreakKeeps ==
  ASSUME JInv, Break
  PROVE  Kept
<1>1. /\ Working /\ UNCHANGED <<open, groups, places, labelled, phase>>
      /\ asm' = asm_goto_end(asm, IF InLoop THEN [id |-> Innermost, place |-> "end"] ELSE NoAim)
  BY DEF Break, InStatements
<1>2. TypeOK /\ Shape /\ phase = "function" /\ Sound(asm.code, TableOf(asm, open, groups), places, labelled)
      /\ asm \in Machine
  BY <1>1, Context
<1>3. CASE open = <<>>
  <2>1. asm.branches = <<>>
    <3>1. asm.branches \in Seq(Branch) /\ Len(asm.branches) = Len(open)
      BY <1>2, OpenNodes, Types
    <3> QED
      BY <1>3, <3>1, EmptySeq
  <2>2. asm' = [asm EXCEPT !.fault = TRUE]
    BY <1>1, <2>1 DEF asm_goto_end
  <2>3. asm' \in Machine /\ asm'.code = asm.code /\ asm'.fault = TRUE
    BY <1>2, <2>2 DEF Machine
  <2> QED
    BY <1>1, <1>2, <2>3, FaultKeeps
<1>4. CASE open # <<>>
  <2>1. asm' = asm_goto_end(asm, BreakAim(Top))
    BY <1>1, <1>4 DEF InLoop, Innermost, BreakAim
  <2>2. /\ asm' \in Machine /\ SameBut({"code", "branches"}, asm, asm')
        /\ Len(asm'.branches) = Len(asm.branches)
        /\ \A k \in 1..Len(asm.branches) :
             /\ asm'.branches[k].branch_start = asm.branches[k].branch_start
             /\ asm'.branches[k].is_loop = asm.branches[k].is_loop
        /\ Sound(asm'.code, TableOf(asm', open, groups), places, labelled)
        /\ Arrived(asm.code, places, labelled) => Arrived(asm'.code, places, labelled)
    BY <1>2, <1>4, <2>1, LeaveIs
  <2>3. Shape'
    BY <1>1, <1>2, <2>2, ShapeKept DEF SameBut
  <2>4. TypeOK'
    BY <1>1, <1>2, <2>2 DEF TypeOK
  <2> QED
    BY <1>1, <2>2, <2>3, <2>4 DEF Kept, JInv
<1> QED
  BY <1>3, <1>4

\* What a continue is for is there: no jump waits for it.
LEMMA ResumeReached ==
  ASSUME NEW code, code \in Seq(Instruction), NEW D, D \in Table, NEW P, NEW i, NEW v, NEW Q,
         WithPlace(P, i, "resume", v, Q), P[i].resume = Nowhere,
         NEW L, Sound(code, D, P, L)
  PROVE  Sound(code, D, Q, L) /\ (Arrived(code, P, L) => Arrived(code, Q, L))
<1> DEFINE x == [id |-> i, place |-> "resume"]
<1>1. i \in Nat /\ i # 0
  BY LenProperties DEF WithPlace
<1>2. x \in Aim /\ x # NoAim /\ Resumes(x) /\ TargetIn(P, L, x) = Nowhere
  <2>1. x \in Aim /\ x # NoAim
    BY <1>1, AimsAreAims
  <2> QED
    BY <1>1, <2>1 DEF Resumes, TargetIn, ByLabel
<1>3. \A a \in Aim : Aimable(P, a) =>
        Aimable(Q, a) /\ TargetIn(Q, L, a) = IF a = x THEN v ELSE TargetIn(P, L, a)
  BY TargetWith
<1> HIDE DEF x
<1>4. Unaiming(code, D, P, Q, L)
  BY <1>2, <1>3 DEF Unaiming
<1> QED
  BY <1>4, Unaimed

LEMMA TopPart ==
  ASSUME TypeOK, Shape, open # <<>>, NEW part, SetPart(part),
         part \in {"when", "then", "else", "after", "tested"}
  PROVE  /\ open' \in Seq(Node) /\ Len(open') = Len(open)
         /\ \A k \in 1..(Len(open) - 1) : open'[k] = open[k]
         /\ Top' = open'[Len(open)] /\ Top'.part = part
         /\ Top'.id = Top.id /\ Top'.node = Top.node /\ Top'.loop = Top.loop
<1> DEFINE n == Len(open)
           b == [Top EXCEPT !.part = part]
<1>1. /\ n \in 1..n /\ Top = open[n] /\ Top \in Node /\ open \in Seq(Node)
      /\ \A k \in 1..(n - 1) : k \in 1..n /\ k # n
  BY TopOpen, Types
<1>2. open' = [open EXCEPT ![n] = b]
  BY <1>1 DEF SetPart
<1>3. b \in Node /\ b.part = part /\ b.id = Top.id /\ b.node = Top.node /\ b.loop = Top.loop
  BY <1>1 DEF Node
<1> HIDE DEF b
<1>4. /\ open' \in Seq(Node) /\ Len(open') = n
      /\ \A k \in 1..n : open'[k] = IF k = n THEN b ELSE open[k]
  <2> DEFINE o == [open EXCEPT ![n] = b]
  <2>1. o \in Seq(Node) /\ Len(o) = n /\ \A k \in 1..n : o[k] = IF k = n THEN b ELSE open[k]
    BY <1>1, <1>3, ExceptSeq
  <2> QED
    BY <1>2, <2>1
<1>5. Top' = b
  BY <1>1, <1>4 DEF Top
<1>6. \A k \in 1..(n - 1) : open'[k] = open[k]
  BY <1>1, <1>4
<1> QED
  BY <1>1, <1>3, <1>4, <1>5, <1>6

LEMMA ResumeKeeps ==
  ASSUME JInv, Resume
  PROVE  Kept
<1> DEFINE n == Len(open)
<1>1. /\ Working /\ open # <<>> /\ Top.node \in {"for", "do"} /\ Top.part = "then"
      /\ SetPart("after") /\ UNCHANGED <<asm, groups, labelled, phase>>
      /\ places' = [places EXCEPT ![Top.id].resume = size(asm)]
  BY DEF Resume, TopIs, Reached
<1>2. /\ TypeOK /\ Shape /\ phase = "function" /\ ~asm.fault
      /\ Sound(asm.code, TableOf(asm, open, groups), places, labelled)
      /\ TableOf(asm, open, groups) \in Table /\ asm.code \in Seq(Instruction) /\ size(asm) \in Nat
  BY <1>1, Context
<1>3. /\ n \in Nat \ {0} /\ n \in Nat /\ n - 1 \in Nat /\ n \in 1..n
      /\ Top = open[n] /\ Top \in Node
      /\ Len(asm.branches) = n /\ asm.branches # <<>>
      /\ NodeOK(Top, asm.branches[n], places)
      /\ Top.id \in 1..Len(places)
  BY <1>1, <1>2, TopOpen
<1>4. /\ open' \in Seq(Node) /\ Len(open') = n
      /\ \A k \in 1..(n - 1) : open'[k] = open[k]
      /\ Top' = open'[n] /\ Top'.part = "after"
      /\ Top'.id = Top.id /\ Top'.node = Top.node /\ Top'.loop = Top.loop
  BY <1>1, <1>2, TopPart
<1>5. /\ WithPlace(places, Top.id, "resume", size(asm), places')
      /\ places' \in Seq(Places) /\ Len(places') = Len(places)
      /\ \A j \in 1..Len(places), q \in PlaceNames :
           places'[j][q] = IF j = Top.id /\ q = "resume" THEN size(asm) ELSE places[j][q]
      /\ \A j \in 1..Len(places) : j # Top.id => places'[j] = places[j]
  <2>1. WithPlace(places, Top.id, "resume", size(asm), places')
    <3>1. "resume" \in PlaceNames /\ size(asm) \in Int /\ places \in Seq(Places)
      BY <1>2, Types DEF PlaceNames
    <3>2. places' = [places EXCEPT ![Top.id]["resume"] = size(asm)]
      BY <1>1
    <3> QED
      BY <1>3, <3>1, <3>2 DEF WithPlace
  <2>2. \A j \in 1..Len(places) : j # Top.id => places'[j] = places[j]
    BY <1>1, <1>2, Types
  <2> QED
    BY <2>1, <2>2, PlacesWith
<1>6. /\ Sound(asm.code, TableOf(asm, open, groups), places', labelled)
      /\ Arrived(asm.code, places, labelled) => Arrived(asm.code, places', labelled)
  <2>1. places[Top.id].resume = Nowhere
    BY <1>1, <1>3 DEF NodeOK
  <2> QED
    BY <1>2, <1>5, <2>1, ResumeReached
<1>7. TableOf(asm', open', groups') = TableOf(asm, open, groups)
  <2>2. \A k \in 1..n : /\ BreakAim(open'[k]) = BreakAim(open[k])
                        /\ ConditionAim(open'[k]) = ConditionAim(open[k])
                        /\ open'[k].part = "when" <=> open[k].part = "when"
    <3>1. \A k \in 1..n : k \in 1..(n - 1) \/ k = n
      BY <1>3
    <3> QED
      BY <1>1, <1>3, <1>4, <3>1 DEF BreakAim, ConditionAim
  <2>3. \A a : OfBreaks(asm.branches, open', n, a) = OfBreaks(asm.branches, open, n, a)
    BY <2>2 DEF OfBreaks
  <2>4. \A a : OfConditions(asm.branches, open', n, a) = OfConditions(asm.branches, open, n, a)
    BY <2>2 DEF OfConditions
  <2>5. \A a : Waiting(asm, open', groups, a) = Waiting(asm, open, groups, a)
    BY <1>4, <2>3, <2>4 DEF Waiting
  <2> QED
    BY <1>1, <2>5 DEF TableOf
<1>8. Shape'
  <2>1. Around(n - 1)
    <3>1. \A k \in 1..(n - 1) : Alike(open[k], open'[k])
      BY <1>4 DEF Alike
    <3>2. Agree(asm, open, asm', open', n - 1)
      BY <1>1, <3>1 DEF Agree
    <3> QED
      BY <1>1, <1>2, <1>3, <1>4, <1>5, <3>2, Types DEF Around
  <2>2. NodeOK(open'[n], asm'.branches[n], places')
    <3>1. /\ places'[Top.id].end = places[Top.id].end /\ places'[Top.id].other = places[Top.id].other
          /\ places'[Top.id].start = places[Top.id].start
      BY <1>3, <1>5 DEF PlaceNames
    <3> QED
      BY <1>1, <1>3, <1>4, <1>5, <3>1 DEF NodeOK, Loops
  <2> QED
    BY <1>1, <1>3, <1>4, <1>5, <2>1, <2>2, ShapeTop
<1>9. TypeOK'
  BY <1>1, <1>2, <1>4, <1>5 DEF TypeOK, Node
<1> QED
  BY <1>1, <1>6, <1>7, <1>8, <1>9 DEF Kept, JInv

LEMMA ThenKeeps ==
  ASSUME JInv, Then
  PROVE  Kept
<1> DEFINE n == Len(open)
           pl == IF Top.node \in Loops THEN "end" ELSE "other"
           aim == [id |-> Top.id, place |-> pl]
           ins == [op |-> "jz", to |-> size(asm) + 1, aim |-> aim]
           D == TableOf(asm, open, groups)
           E == TableOf(asm', open', groups)
           F == Added(D, aim, size(asm) + 1)
<1>1. /\ Working /\ open # <<>> /\ Top.part = "when" /\ Top.node # "until"
      /\ asm' = asm_then(asm, aim) /\ SetPart("then") /\ UNCHANGED <<groups, labelled, phase>>
      /\ places' = IF Top.node # "while" THEN places
                   ELSE [places EXCEPT ![Top.id].resume = places[Top.id].start]
  BY DEF Then, TopIs, Aimed, Loops
<1>2. /\ TypeOK /\ Shape /\ phase = "function" /\ ~asm.fault /\ asm \in Machine
      /\ Sound(asm.code, D, places, labelled)
      /\ D \in Table /\ asm.code \in Seq(Instruction) /\ size(asm) \in Nat /\ size(asm) = Len(asm.code)
      /\ size(asm) + 1 \in Nat
      /\ \A a \in Aim : D[a] = Waiting(asm, open, groups, a)
  BY <1>1, Context
<1>3. /\ n \in Nat \ {0} /\ n \in Nat /\ n - 1 \in Nat /\ n \in 1..n
      /\ Top = open[n] /\ Top \in Node
      /\ Len(asm.branches) = n /\ asm.branches # <<>>
      /\ NodeOK(Top, asm.branches[n], places)
      /\ Top.id \in 1..Len(places) /\ Top.id # ByLabel
      /\ \A k \in 1..(n - 1) : k \in 1..n /\ k # n
  BY <1>1, <1>2, TopOpen
<1>4. /\ open' \in Seq(Node) /\ Len(open') = n
      /\ \A k \in 1..(n - 1) : open'[k] = open[k]
      /\ Top' = open'[n] /\ Top'.part = "then"
      /\ Top'.id = Top.id /\ Top'.node = Top.node /\ Top'.loop = Top.loop
  BY <1>1, <1>2, TopPart
<1>5. aim \in Aim /\ aim # NoAim /\ pl \in {"other", "end"} /\ ~Resumes(aim) /\ aim.id # ByLabel
  BY <1>1, <1>2, <1>3, NoneBelow DEF Resumes
<1>6. /\ asm' \in Machine /\ SameBut({"code", "branches"}, asm, asm')
      /\ ins \in Instruction /\ asm'.code = Append(asm.code, ins)
      /\ Jumping(asm, asm', size(asm) + 1)
  BY <1>1, <1>2, <1>3, <1>5, ThenIs
<1>7. /\ places' \in Seq(Places) /\ Len(places') = Len(places)
      /\ \A j \in 1..Len(places) : j # Top.id => places'[j] = places[j]
      /\ \A q \in {"start", "other", "end"} : places'[Top.id][q] = places[Top.id][q]
      /\ Top.node = "while" => places'[Top.id].resume = places[Top.id].start
      /\ Top.node # "while" => places'[Top.id].resume = places[Top.id].resume
      /\ Sound(asm.code, D, places', labelled)
      /\ Arrived(asm.code, places, labelled) => Arrived(asm.code, places', labelled)
  <2>1. CASE Top.node # "while"
    BY <1>1, <1>2, <2>1, Types
  <2>2. CASE Top.node = "while"
    <3> DEFINE v == places[Top.id].start
    <3>1. places' = [places EXCEPT ![Top.id]["resume"] = v]
      BY <1>1, <2>2
    <3>2. "resume" \in PlaceNames /\ v \in Int /\ places \in Seq(Places)
      <4>1. places \in Seq(Places) /\ places[Top.id] \in Places
        BY <1>2, <1>3, Types
      <4> QED
        BY <4>1 DEF PlaceNames, Places
    <3> HIDE DEF v
    <3>3. WithPlace(places, Top.id, "resume", v, places')
      BY <1>3, <3>1, <3>2 DEF WithPlace
    <3>4. /\ places' \in Seq(Places) /\ Len(places') = Len(places)
          /\ \A j \in 1..Len(places), q \in PlaceNames :
               places'[j][q] = IF j = Top.id /\ q = "resume" THEN v ELSE places[j][q]
      BY <3>3, PlacesWith
    <3>5. \A j \in 1..Len(places) : j # Top.id => places'[j] = places[j]
      BY <1>2, <3>1, Types
    <3>6. places[Top.id].resume = Nowhere
      BY <1>1, <1>3, <2>2 DEF NodeOK
    <3>7. /\ Sound(asm.code, D, places', labelled)
          /\ Arrived(asm.code, places, labelled) => Arrived(asm.code, places', labelled)
      BY <1>2, <3>3, <3>6, ResumeReached
    <3>8. /\ \A q \in {"start", "other", "end"} : places'[Top.id][q] = places[Top.id][q]
          /\ places'[Top.id]["resume"] = v
      BY <1>3, <3>4, SMTT(30) DEF PlaceNames
    <3> QED
      BY <2>2, <3>4, <3>5, <3>7, <3>8 DEF v
  <2> QED
    BY <2>1, <2>2
<1>8. places[Top.id][pl] = Nowhere /\ places'[Top.id][pl] = Nowhere
  BY <1>1, <1>3, <1>7 DEF NodeOK
<1>9. Aimable(places', aim) /\ TargetIn(places', labelled, aim) = Nowhere
  BY <1>3, <1>5, <1>7, <1>8 DEF Aimable, TargetIn
<1>10. \A a : ConditionAim(open'[n]) = aim /\ BreakAim(open'[n]) = BreakAim(open[n])
  BY <1>3, <1>4 DEF ConditionAim, BreakAim
<1>11. ins.aim = aim /\ ins.op # "op"
  OBVIOUS
<1>12. E \in Table /\ \A a \in Aim : E[a] = Waiting(asm', open', groups, a)
  BY <1>6, WaitingIsTable
<1>13. n = Len(open)
  OBVIOUS
<1> HIDE DEF ins, aim, pl, D, E, n
<1>14. /\ Sound(asm'.code, F, places', labelled) /\ F \in Table
       /\ Arrived(asm.code, places', labelled) => Arrived(asm'.code, places', labelled)
       /\ \A a \in Aim : F[a] = IF a = aim THEN D[a] \cup {size(asm) + 1} ELSE D[a]
  <2>1. Waits(asm.code, D, places', labelled, ins)
    BY <1>2, <1>5, <1>6, <1>7, <1>9, <1>11 DEF Waits
  <2>2. \A a \in Aim : F[a] = IF a = aim THEN D[a] \cup {size(asm) + 1} ELSE D[a]
    BY <1>2, <1>5 DEF Added
  <2>3. LET c == Append(asm.code, ins)
            G == Added(D, ins.aim, Len(asm.code) + 1)
        IN /\ G \in Table /\ Sound(c, G, places', labelled)
           /\ Arrived(asm.code, places', labelled) => Arrived(c, places', labelled)
    BY <2>1, Waited
  <2> QED
    BY <1>2, <1>6, <1>11, <2>2, <2>3
<1> HIDE DEF F
<1>15. Agree(asm, open, asm', open', n - 1) /\ SameBreaks(asm, asm', n - 1)
  <2>1. \A k \in 1..(n - 1) : Alike(open[k], open'[k])
    BY <1>4 DEF Alike
  <2>2. \A k \in 1..(n - 1) :
          /\ asm'.branches[k].end_stack = asm.branches[k].end_stack
          /\ asm'.branches[k].branch_start = asm.branches[k].branch_start
          /\ asm'.branches[k].is_loop = asm.branches[k].is_loop
          /\ asm'.branches[k].curr_jump = asm.branches[k].curr_jump
    BY <1>3, <1>6 DEF Jumping
  <2> QED
    BY <1>6, <2>1, <2>2 DEF Agree, SameBreaks, SameBut
<1>20. Tops(open, n - 1, n) /\ Tops(open', n - 1, n)
  BY <1>3, <1>4, <1>13 DEF Tops, Preceding
<1>16. ASSUME NEW a \in Aim
       PROVE  E[a] = F[a]
  <2>1. /\ Waiting(asm, open, groups, a) =
             Below(asm, open, groups, n - 1, a) \cup OfTop(asm.branches[n], open[n], a)
        /\ Waiting(asm', open', groups, a) =
             Below(asm', open', groups, n - 1, a) \cup OfTop(asm'.branches[n], open'[n], a)
    BY <1>20, WaitingSplit
  <2>2. Below(asm', open', groups, n - 1, a) = Below(asm, open, groups, n - 1, a)
    BY <1>15, BelowSame
  <2>3. OfTop(asm'.branches[n], open'[n], a) =
          OfTop(asm.branches[n], open[n], a) \cup (IF a = aim THEN {size(asm) + 1} ELSE {})
    <3>1. /\ asm'.branches[n].end_stack = asm.branches[n].end_stack
          /\ asm'.branches[n].curr_jump = size(asm) + 1
      BY <1>3, <1>6 DEF Jumping
    <3>2. open[n].part = "when" /\ open'[n].part # "when"
      BY <1>1, <1>3, <1>4
    <3> QED
      BY <1>2, <1>10, <3>1, <3>2 DEF OfTop
  <2>4. /\ E[a] = Waiting(asm', open', groups, a) /\ D[a] = Waiting(asm, open, groups, a)
        /\ F[a] = D[a] \cup (IF a = aim THEN {size(asm) + 1} ELSE {})
    BY <1>2, <1>12, <1>14
  <2> QED
    BY <2>1, <2>2, <2>3, <2>4
<1>17. E = F
  BY <1>12, <1>14, <1>16, SameFunction
<1>18. Shape'
  <2>1. Around(n - 1)
    BY <1>1, <1>2, <1>3, <1>4, <1>6, <1>7, <1>13, <1>15, Types, SMTT(30) DEF Around, Jumping
  <2>2. NodeOK(open'[n], asm'.branches[n], places')
    <3>1. /\ asm'.branches[n].branch_start = asm.branches[n].branch_start
          /\ asm'.branches[n].is_loop = asm.branches[n].is_loop
      BY <1>3, <1>6 DEF Jumping
    <3>2. /\ places'[Top.id].end = places[Top.id].end /\ places'[Top.id].other = places[Top.id].other
          /\ places'[Top.id].start = places[Top.id].start
      BY <1>7
    <3> QED
      BY <1>1, <1>3, <1>4, <1>7, <3>1, <3>2 DEF NodeOK, Loops
  <2> QED
    BY <1>1, <1>4, <1>7, <1>13, <2>1, <2>2, ShapeTop
<1>19. TypeOK'
  BY <1>1, <1>2, <1>4, <1>6, <1>7 DEF TypeOK, Node
<1> QED
  BY <1>1, <1>7, <1>14, <1>17, <1>18, <1>19 DEF Kept, JInv, E

-----------------------------------------------------------------------------
(* Labels.                                                                 *)

LabelAim(l) == [id |-> ByLabel, place |-> l]

\* A label that has not been met gets one more jump that waits for it.
LEMMA GotoWaits ==
  ASSUME NEW m, m \in Machine, NEW l, l \in Labels, m.goto_labels[l].position = Nowhere
  PROVE  LET r == asm_goto(m, l)
             ins == [op |-> "jmp", to |-> size(m) + 1, aim |-> LabelAim(l)]
         IN /\ r \in Machine /\ SameBut({"code", "goto_labels"}, m, r)
            /\ ins \in Instruction /\ r.code = Append(m.code, ins)
            /\ \A k \in Labels :
                 /\ r.goto_labels[k].position = m.goto_labels[k].position
                 /\ k # l => r.goto_labels[k] = m.goto_labels[k]
            /\ ToSet(r.goto_labels[l].waiting) = ToSet(m.goto_labels[l].waiting) \cup {size(m) + 1}
<1> DEFINE e == emit(m, "jmp", LabelAim(l))
           ins == [op |-> "jmp", to |-> size(m) + 1, aim |-> LabelAim(l)]
           w == Append(m.goto_labels[l].waiting, size(m) + 1)
           b == [m.goto_labels[l] EXCEPT !.waiting = w]
           gs == [m.goto_labels EXCEPT ![l] = b]
           r == asm_goto(m, l)
           Goal == [position : Int, waiting : Seq(Nat)]
<1>1. /\ e \in Machine /\ SameBut({"code"}, m, e) /\ size(e) = size(m) + 1
      /\ ins \in Instruction /\ e.code = Append(m.code, ins)
  <2>1. LabelAim(l) \in Aim /\ "jmp" \in Ops
    BY AimsAreAims DEF Ops, LabelAim
  <2> QED
    BY <2>1, EmitIs
<1>2. /\ m.goto_labels \in [Labels -> Goal] /\ m.goto_labels[l] \in Goal
      /\ m.goto_labels[l].waiting \in Seq(Nat) /\ size(m) + 1 \in Nat
  BY MachineFields
<1>3. w \in Seq(Nat) /\ ToSet(w) = ToSet(m.goto_labels[l].waiting) \cup {size(m) + 1}
  BY <1>2, ToSetAppend
<1>4. r = [e EXCEPT !.goto_labels = gs]
  <2>1. e.goto_labels = m.goto_labels
    BY <1>1 DEF SameBut
  <2>2. r = [e EXCEPT !.goto_labels[l].waiting = Append(@, size(e))]
    BY DEF asm_goto, LabelAim
  <2> HIDE DEF e
  <2> QED
    BY <1>1, <2>1, <2>2
<1> HIDE DEF e, ins, w, r
<1>5. b \in Goal /\ b.position = m.goto_labels[l].position /\ b.waiting = w
  BY <1>2, <1>3
<1> HIDE DEF b
<1>6. gs \in [Labels -> Goal] /\ \A k \in Labels : gs[k] = IF k = l THEN b ELSE m.goto_labels[k]
  BY <1>2, <1>5
<1> HIDE DEF gs
<1>7. /\ r \in Machine /\ r.goto_labels = gs /\ SameBut({"code", "goto_labels"}, m, r)
      /\ r.code = e.code
  BY <1>1, <1>4, <1>6 DEF Machine, SameBut
<1>8. \A k \in Labels : /\ gs[k].position = m.goto_labels[k].position
                        /\ k # l => gs[k] = m.goto_labels[k]
  BY <1>5, <1>6
<1>9. gs[l].waiting = w
  BY <1>5, <1>6
<1> QED
  BY <1>1, <1>3, <1>7, <1>8, <1>9 DEF ins, r

\* The nodes and groups of a step that changes no more than code and labels.
LEMMA ShapeOfLabels ==
  ASSUME TypeOK, Shape, phase = "function", UNCHANGED <<open, groups, places, phase>>,
         SameBut({"code", "goto_labels"}, asm, asm'), LabelsOK(asm.goto_labels, labelled)'
  PROVE  Shape'
<1>1. NodesOK(asm.branches, open, places)' /\ GroupsOK(asm.shortcircuits, groups, open, places)'
  BY DEF Shape, NodesOK, NodeOK, NestedOK, GroupsOK, SameBut
<1>2. PhaseOK'
  BY DEF Shape, PhaseOK
<1> QED
  BY <1>1, <1>2 DEF Shape

LEMMA GotoKeeps ==
  ASSUME JInv, NEW l, l \in Labels, Goto(l)
  PROVE  Kept
<1> DEFINE x == LabelAim(l)
           D == TableOf(asm, open, groups)
           E == TableOf(asm', open, groups)
<1>1. Working /\ asm' = asm_goto(asm, l) /\ UNCHANGED <<open, groups, places, labelled, phase>>
  BY DEF Goto, InStatements
<1>2. /\ TypeOK /\ Shape /\ phase = "function" /\ ~asm.fault
      /\ Sound(asm.code, D, places, labelled)
      /\ D \in Table /\ \A a \in Aim : D[a] = Waiting(asm, open, groups, a)
      /\ asm \in Machine /\ size(asm) \in Nat /\ size(asm) = Len(asm.code) /\ size(asm) + 1 \in Nat
      /\ asm.code \in Seq(Instruction)
  BY <1>1, Context
<1>3. /\ \A k \in Labels : /\ asm.goto_labels[k].position = labelled[k]
                           /\ labelled[k] \in Nat \cup {Nowhere}
                           /\ labelled[k] # Nowhere => asm.goto_labels[k].waiting = <<>>
  BY <1>2 DEF Shape, LabelsOK
<1>4. /\ x \in Aim /\ x # NoAim /\ Aimable(places, x) /\ ~Resumes(x)
      /\ TargetIn(places, labelled, x) = labelled[l]
  <2>1. x \in Aim /\ x # NoAim
    BY AimsAreAims DEF LabelAim
  <2> QED
    BY <2>1 DEF Aimable, Resumes, TargetIn, LabelAim
<1>5. CASE labelled[l] = Nowhere
  <2> DEFINE ins == [op |-> "jmp", to |-> size(asm) + 1, aim |-> x]
             F == Added(D, x, size(asm) + 1)
  <2>1. /\ asm' \in Machine /\ SameBut({"code", "goto_labels"}, asm, asm')
        /\ ins \in Instruction /\ asm'.code = Append(asm.code, ins)
        /\ \A k \in Labels :
             /\ asm'.goto_labels[k].position = asm.goto_labels[k].position
             /\ k # l => asm'.goto_labels[k] = asm.goto_labels[k]
        /\ ToSet(asm'.goto_labels[l].waiting) = ToSet(asm.goto_labels[l].waiting) \cup {size(asm) + 1}
    BY <1>1, <1>2, <1>3, <1>5, GotoWaits, ZenonT(60)
  <2>2. E \in Table /\ \A a \in Aim : E[a] = Waiting(asm', open, groups, a)
    BY <2>1, WaitingIsTable
  <2>3. ins.aim = x /\ ins.op # "op"
    OBVIOUS
  <2> HIDE DEF ins, D, E
  <2>4. \A a \in Aim : a = x <=> a.id = ByLabel /\ a.place = l
    BY DEF Aim, LabelAim
  <2>5. \A a \in Aim : OfLabels(asm'.goto_labels, a) =
          OfLabels(asm.goto_labels, a) \cup (IF a = x THEN {size(asm) + 1} ELSE {})
    <3> HIDE DEF x
    <3> QED
      BY <2>1, <2>4 DEF OfLabels
  <2> HIDE DEF x
  <2>6. \A a \in Aim : Waiting(asm', open, groups, a) =
          Waiting(asm, open, groups, a) \cup (IF a = x THEN {size(asm) + 1} ELSE {})
    BY <2>1, <2>5 DEF Waiting, SameBut
  <2>7. \A a \in Aim : E[a] = IF a = ins.aim THEN D[a] \cup {Len(asm.code) + 1} ELSE D[a]
    <3> SUFFICES ASSUME NEW a \in Aim
                 PROVE  E[a] = IF a = ins.aim THEN D[a] \cup {Len(asm.code) + 1} ELSE D[a]
      OBVIOUS
    <3>1. E[a] = Waiting(asm', open, groups, a) /\ D[a] = Waiting(asm, open, groups, a)
      BY <1>2, <2>2
    <3>2. E[a] = D[a] \cup (IF a = x THEN {size(asm) + 1} ELSE {})
      BY <2>6, <3>1
    <3> QED
      BY <1>2, <2>3, <3>2
  <2>8. /\ Sound(asm'.code, E, places, labelled)
        /\ Arrived(asm.code, places, labelled) => Arrived(asm'.code, places, labelled)
    <3>1. WaitingEmit(asm.code, D, places, labelled, ins, asm'.code, E)
      BY <1>2, <1>4, <2>1, <2>2, <2>3, <2>7 DEF WaitingEmit
    <3> QED
      BY <1>4, <1>5, <2>3, <3>1, EmittedWaiting
  <2>9. LabelsOK(asm.goto_labels, labelled)'
    <3>1. \A k \in Labels : labelled[k] # Nowhere => k # l
      BY <1>5
    <3> QED
      BY <1>1, <1>3, <2>1, <3>1 DEF LabelsOK
  <2>10. Shape'
    BY <1>1, <1>2, <2>1, <2>9, ShapeOfLabels
  <2>11. TypeOK'
    BY <1>1, <1>2, <2>1 DEF TypeOK
  <2> QED
    BY <1>1, <2>8, <2>10, <2>11 DEF Kept, JInv, E
<1>6. CASE labelled[l] # Nowhere
  <2> DEFINE v == labelled[l]
             ins == [op |-> "jmp", to |-> v, aim |-> x]
  <2>1. v \in Nat /\ asm.goto_labels[l].position = v
    BY <1>3, <1>6
  <2>2. asm' = Retargeted(asm, "jmp", x, v)
    BY <1>1, <1>6, <2>1 DEF asm_goto, Retargeted, LabelAim
  <2>3. "jmp" \in Ops
    BY DEF Ops
  <2> HIDE DEF x, v
  <2>4. /\ asm' \in Machine /\ SameBut({"code"}, asm, asm')
        /\ ins \in Instruction /\ asm'.code = Append(asm.code, ins)
    BY <1>2, <1>4, <2>1, <2>2, <2>3, RetargetIs
  <2>5. E = D
    BY <2>4, SameTable
  <2>6. ins.aim = x /\ ins.to = v
    OBVIOUS
  <2> HIDE DEF ins, D, E
  <2>7. KnownEmit(asm.code, D, places, labelled, ins, asm'.code)
    BY <1>2, <1>4, <1>6, <2>4, <2>6 DEF KnownEmit
  <2>8. KnownTo(ins, places, labelled)
    BY <1>4, <1>6, <2>6 DEF KnownTo, v
  <2>9. /\ Sound(asm'.code, D, places, labelled)
        /\ Arrived(asm.code, places, labelled) => Arrived(asm'.code, places, labelled)
    BY <2>7, <2>8, EmittedKnown
  <2>10. Shape'
    <3>1. LabelsOK(asm.goto_labels, labelled)'
      BY <1>1, <1>3, <2>4 DEF LabelsOK, SameBut
    <3>2. SameBut({"code", "goto_labels"}, asm, asm')
      BY <2>4 DEF SameBut
    <3> QED
      BY <1>1, <1>2, <3>1, <3>2, ShapeOfLabels
  <2>11. TypeOK'
    BY <1>1, <1>2, <2>4 DEF TypeOK
  <2> QED
    BY <1>1, <2>5, <2>9, <2>10, <2>11 DEF Kept, JInv, E
<1> QED
  BY <1>5, <1>6

LEMMA LabelIs ==
  ASSUME NEW m, m \in Machine, NEW l, l \in Labels
  PROVE  LET r == asm_label(m, l)
         IN /\ r \in Machine /\ SameBut({"code", "goto_labels"}, m, r)
            /\ r.code = PatchedCode(m.code, ToSet(m.goto_labels[l].waiting), size(m))
            /\ \A k \in Labels :
                 r.goto_labels[k] = IF k = l THEN [position |-> size(m), waiting |-> <<>>]
                                    ELSE m.goto_labels[k]
<1> DEFINE p == Patched(m, ToSet(m.goto_labels[l].waiting))
           b == [position |-> size(m), waiting |-> <<>>]
           gs == [m.goto_labels EXCEPT ![l] = b]
           r == asm_label(m, l)
           Goal == [position : Int, waiting : Seq(Nat)]
<1>1. /\ p \in Machine /\ SameBut({"code"}, m, p)
      /\ p.code = PatchedCode(m.code, ToSet(m.goto_labels[l].waiting), size(m))
  BY PatchedIs
<1>2. m.goto_labels \in [Labels -> Goal] /\ size(m) \in Nat
  BY MachineFields
<1>3. b \in Goal
  <2>1. <<>> \in Seq(Nat)
    BY EmptySeq
  <2> QED
    BY <1>2, <2>1
<1>4. r = [p EXCEPT !.goto_labels = gs]
  <2>1. p.goto_labels = m.goto_labels
    BY <1>1 DEF SameBut
  <2>2. r = [p EXCEPT !.goto_labels[l] = b]
    BY DEF asm_label
  <2> HIDE DEF p
  <2> QED
    BY <2>1, <2>2
<1> HIDE DEF p, b, r
<1>5. gs \in [Labels -> Goal] /\ \A k \in Labels : gs[k] = IF k = l THEN b ELSE m.goto_labels[k]
  BY <1>2, <1>3
<1> HIDE DEF gs
<1>6. /\ r \in Machine /\ r.goto_labels = gs /\ SameBut({"code", "goto_labels"}, m, r)
      /\ r.code = p.code
  BY <1>1, <1>4, <1>5 DEF Machine, SameBut
<1> QED
  BY <1>1, <1>5, <1>6 DEF r, b

LEMMA LabelKeeps ==
  ASSUME JInv, NEW l, l \in Labels, Label(l)
  PROVE  Kept
<1> DEFINE x == LabelAim(l)
           D == TableOf(asm, open, groups)
           E == TableOf(asm', open, groups)
           v == size(asm)
<1>1. /\ Working /\ asm' = asm_label(asm, l) /\ UNCHANGED <<open, groups, places, phase>>
      /\ labelled[l] = Nowhere /\ labelled' = [labelled EXCEPT ![l] = v]
  BY DEF Label, InStatements
<1>2. /\ TypeOK /\ Shape /\ phase = "function" /\ ~asm.fault
      /\ Sound(asm.code, D, places, labelled)
      /\ D \in Table /\ \A a \in Aim : D[a] = Waiting(asm, open, groups, a)
      /\ asm \in Machine /\ v \in Nat /\ asm.code \in Seq(Instruction)
      /\ labelled \in [Labels -> Int]
  BY <1>1, Context, Types
<1>3. \A k \in Labels : /\ asm.goto_labels[k].position = labelled[k]
                        /\ labelled[k] \in Nat \cup {Nowhere}
                        /\ labelled[k] # Nowhere => asm.goto_labels[k].waiting = <<>>
  BY <1>2 DEF Shape, LabelsOK
<1>4. /\ x \in Aim /\ x # NoAim /\ ~Resumes(x) /\ TargetIn(places, labelled, x) = Nowhere
      /\ \A a \in Aim : a = x <=> a.id = ByLabel /\ a.place = l
  <2>1. x \in Aim /\ x # NoAim
    BY AimsAreAims DEF LabelAim
  <2>2. \A a \in Aim : a = x <=> a.id = ByLabel /\ a.place = l
    BY DEF Aim, LabelAim
  <2> QED
    BY <1>1, <2>1, <2>2 DEF Resumes, TargetIn, LabelAim
<1>5. /\ asm' \in Machine /\ SameBut({"code", "goto_labels"}, asm, asm')
      /\ asm'.code = PatchedCode(asm.code, ToSet(asm.goto_labels[l].waiting), v)
      /\ \A k \in Labels :
           asm'.goto_labels[k] = IF k = l THEN [position |-> v, waiting |-> <<>>]
                                 ELSE asm.goto_labels[k]
  BY <1>1, <1>2, LabelIs
<1>6. labelled' \in [Labels -> Int]
      /\ \A k \in Labels : labelled'[k] = IF k = l THEN v ELSE labelled[k]
  BY <1>1, <1>2
<1>7. /\ Waiting(asm, open, groups, x) = ToSet(asm.goto_labels[l].waiting)
      /\ OfReturns(asm.returns, x) = {}
      /\ OfGroups(asm.shortcircuits, groups, Len(groups), x) = {}
      /\ OfBreaks(asm.branches, open, Len(open), x) = {}
      /\ OfConditions(asm.branches, open, Len(open), x) = {}
  BY <1>2, WaitsForLabel DEF LabelAim
<1>8. E \in Table /\ \A a \in Aim : E[a] = Waiting(asm', open, groups, a)
  BY <1>5, WaitingIsTable
<1> HIDE DEF x, D, E, v
<1>9. \A a \in Aim : E[a] = IF a = x THEN {} ELSE D[a]
  <2> SUFFICES ASSUME NEW a \in Aim
               PROVE  E[a] = IF a = x THEN {} ELSE D[a]
    OBVIOUS
  <2>1. E[a] = Waiting(asm', open, groups, a) /\ D[a] = Waiting(asm, open, groups, a)
    BY <1>2, <1>8
  <2>2. CASE a = x
    <3>1. OfLabels(asm'.goto_labels, x) = {}
      BY <1>4, <1>5, ToSetEmpty DEF OfLabels
    <3> QED
      BY <1>5, <1>7, <2>1, <2>2, <3>1 DEF Waiting, SameBut
  <2>3. CASE a # x
    <3>1. OfLabels(asm'.goto_labels, a) = OfLabels(asm.goto_labels, a)
      BY <1>4, <1>5, <2>3 DEF OfLabels
    <3> QED
      BY <1>5, <2>1, <2>3, <3>1 DEF Waiting, SameBut
  <2> QED
    BY <2>2, <2>3
<1>10. \A a \in Aim : Aimable(places, a) =>
         TargetIn(places, labelled', a) = IF a = x THEN v ELSE TargetIn(places, labelled, a)
  <2>1. WithLabel(labelled, l, v, labelled')
    BY <1>1, <1>2 DEF WithLabel
  <2>2. x = [id |-> ByLabel, place |-> l]
    BY DEF x, LabelAim
  <2> QED
    BY <2>1, <2>2, LabelWith
<1>11. asm'.code = PatchedCode(asm.code, D[x], v)
  BY <1>2, <1>4, <1>5, <1>7
<1>12. Patching(asm.code, D, places, labelled, x, v, places, labelled', E, asm'.code)
  BY <1>2, <1>4, <1>8, <1>9, <1>10, <1>11 DEF Patching
<1>13. /\ Sound(asm'.code, E, places, labelled')
       /\ Arrived(asm.code, places, labelled) => Arrived(asm'.code, places, labelled')
  BY <1>12, Patches
<1>14. LabelsOK(asm.goto_labels, labelled)'
  BY <1>2, <1>3, <1>5, <1>6 DEF LabelsOK
<1>15. Shape'
  BY <1>1, <1>2, <1>5, <1>14, ShapeOfLabels
<1>16. TypeOK'
  BY <1>1, <1>2, <1>5, <1>6 DEF TypeOK
<1> QED
  BY <1>1, <1>13, <1>15, <1>16 DEF Kept, JInv, E

-----------------------------------------------------------------------------
(* Groups.                                                                 *)

\* The nodes when places have got other places than theirs.
LEMMA NodesGrown ==
  ASSUME TypeOK, Shape, NEW Q, Len(Q) \in Nat, Len(Q) >= Len(places),
         \A k \in 1..Len(open) : Q[open[k].id] = places[open[k].id]
  PROVE  NodesOK(asm.branches, open, Q)
<1>1. Agree(asm, open, asm, open, Len(open)) /\ Len(open) \in Nat
  BY Types DEF Agree, Alike
<1>2. \A k \in 1..Len(open) : NodeOK(open[k], asm.branches[k], Q) /\ NestedOK(open, k)
  BY <1>1, NodesBelow
<1> QED
  BY <1>2 DEF Shape, NodesOK

\* The nodes and labels of a step that changes no more than code and groups.
LEMMA ShapeOfGroups ==
  ASSUME TypeOK, Shape, phase = "function", UNCHANGED <<open, labelled, phase>>,
         SameBut({"code", "shortcircuits"}, asm, asm'),
         Len(places') \in Nat, Len(places') >= Len(places),
         \A i \in 1..Len(places) : (\A k \in 1..Len(groups) : i # groups[k].id) => places'[i] = places[i],
         GroupsOK(asm.shortcircuits, groups, open, places)'
  PROVE  Shape'
<1>0. Len(places) \in Nat
  BY Types
<1>1. NodesOK(asm.branches, open, places)'
  <2>1. \A k \in 1..Len(open) : places'[open[k].id] = places[open[k].id]
    <3> SUFFICES ASSUME NEW k \in 1..Len(open)
                 PROVE  places'[open[k].id] = places[open[k].id]
      OBVIOUS
    <3>1. open[k].id \in 2..Len(places) /\ \A j \in 1..Len(groups) : open[k].id # groups[j].id
      BY OpenNodes
    <3>2. open[k].id \in 1..Len(places)
      BY <1>0, <3>1
    <3> QED
      BY <3>1, <3>2
  <2>2. NodesOK(asm.branches, open, places')
    BY <2>1, NodesGrown
  <2> QED
    BY <2>2 DEF SameBut
<1>2. LabelsOK(asm.goto_labels, labelled)'
  BY DEF Shape, LabelsOK, SameBut
<1>3. PhaseOK'
  <2>1. Len(places) >= 1 /\ places[Function].end = Nowhere /\ Function \in 1..Len(places)
    BY <1>0 DEF Shape, PhaseOK, Function
  <2>2. \A k \in 1..Len(groups) : Function # groups[k].id
    BY OpenNodes
  <2>3. places'[Function] = places[Function] /\ Len(places') >= 1
    BY <1>0, <2>1, <2>2
  <2> QED
    BY <2>1, <2>3 DEF PhaseOK
<1> QED
  BY <1>1, <1>2, <1>3 DEF Shape

LEMMA OperatorKeeps ==
  ASSUME JInv, Operator
  PROVE  Kept
<1> DEFINE n == Len(groups)
           g == Last(groups)
           aim == [id |-> g.id, place |-> "end"]
           ins == [op |-> IF g.op = "and" THEN "jz" ELSE "jnz", to |-> size(asm) + 1, aim |-> aim]
           h == [g EXCEPT !.operands = @ + 1]
           D == TableOf(asm, open, groups)
           E == TableOf(asm', open, groups')
           scs == asm.shortcircuits
           tcs == asm'.shortcircuits
<1>1. /\ Working /\ groups # <<>> /\ g.depth = Len(open)
      /\ asm' = asm_logic(asm, g.op, aim)
      /\ groups' = [groups EXCEPT ![n].operands = @ + 1]
      /\ UNCHANGED <<open, places, labelled, phase>>
  BY DEF Operator, GroupOnTop
<1>2. /\ TypeOK /\ Shape /\ phase = "function" /\ ~asm.fault
      /\ Sound(asm.code, D, places, labelled)
      /\ D \in Table /\ \A a \in Aim : D[a] = Waiting(asm, open, groups, a)
      /\ asm \in Machine /\ size(asm) \in Nat /\ size(asm) = Len(asm.code) /\ size(asm) + 1 \in Nat
      /\ asm.code \in Seq(Instruction)
  BY <1>1, Context
<1>3. /\ n \in Nat \ {0} /\ n - 1 \in Nat /\ n \in 1..n /\ g = groups[n] /\ g \in Group /\ groups \in Seq(Group)
      /\ \A k \in 1..(n - 1) : k \in 1..n /\ k # n
  <2>1. groups \in Seq(Group) /\ groups # <<>>
    BY <1>1, <1>2, Types
  <2>2. n \in Nat \ {0} /\ n \in 1..n /\ g = groups[n] /\ g \in Group
    BY <2>1, FrontAndLast
  <2> HIDE DEF n, g
  <2>3. n - 1 \in Nat /\ \A k \in 1..(n - 1) : k \in 1..n /\ k # n
    BY <2>2
  <2> QED
    BY <2>1, <2>2, <2>3
<1>4. /\ Len(scs) = n /\ scs # <<>> /\ ToSet(scs[n]) \subseteq Nat
  <2>1. Len(scs) = n /\ scs \in Seq(Seq(Nat)) /\ Len(<<>>) = 0
    BY <1>2, Types, EmptySeq DEF Shape, GroupsOK
  <2>2. scs[n] \in Seq(Nat)
    BY <1>3, <2>1
  <2> QED
    BY <1>3, <2>1, <2>2, ToSetIs
<1>5. /\ g.id \in Nat /\ g.id # 0 /\ g.id \in 1..Len(places) /\ places[g.id].end = Nowhere
      /\ g.op \in {"and", "or"}
  <2>1. g.id \in 2..Len(places) /\ places[g.id].end = Nowhere /\ Len(places) \in Nat
    BY <1>2, <1>3, Types DEF Shape, GroupsOK
  <2>2. g \in Group
    BY <1>3
  <2> HIDE DEF g
  <2>3. g.op \in {"and", "or"}
    BY <2>2 DEF Group
  <2>4. g.id \in Nat /\ g.id # 0 /\ g.id \in 1..Len(places)
    BY <2>1
  <2> QED
    BY <2>1, <2>3, <2>4
<1>6. /\ aim \in Aim /\ aim # NoAim /\ Aimable(places, aim) /\ ~Resumes(aim)
      /\ TargetIn(places, labelled, aim) = Nowhere
  <2>1. aim \in Aim /\ aim # NoAim
    BY <1>5, AimsAreAims
  <2> QED
    BY <1>5, <2>1 DEF Aimable, Resumes, TargetIn, ByLabel
<1>7. /\ asm' \in Machine /\ SameBut({"code", "shortcircuits"}, asm, asm')
      /\ ins \in Instruction /\ ins.op # "op" /\ asm'.code = Append(asm.code, ins)
      /\ Len(tcs) = n
      /\ \A k \in 1..(n - 1) : tcs[k] = scs[k]
      /\ ToSet(tcs[n]) = ToSet(scs[n]) \cup {size(asm) + 1}
  <2> HIDE DEF aim, n, g
  <2>1. LET k == Len(asm.shortcircuits)
            r == asm_logic(asm, g.op, aim)
        IN /\ r \in Machine /\ SameBut({"code", "shortcircuits"}, asm, r)
           /\ ins \in Instruction /\ ins.op # "op" /\ r.code = Append(asm.code, ins)
           /\ Len(r.shortcircuits) = k
           /\ \A i \in 1..(k - 1) : r.shortcircuits[i] = asm.shortcircuits[i]
           /\ ToSet(r.shortcircuits[k]) = ToSet(asm.shortcircuits[k]) \cup {size(asm) + 1}
    BY <1>2, <1>4, <1>5, <1>6, LogicIs
  <2> HIDE DEF ins
  <2> QED
    BY <1>1, <1>4, <2>1
<1>8. /\ groups' \in Seq(Group) /\ Len(groups') = n
      /\ \A k \in 1..n : groups'[k] = IF k = n THEN h ELSE groups[k]
      /\ h.id = g.id /\ h.depth = g.depth
  <2>0. g \in Group
    BY <1>3
  <2>1. h \in Group /\ h.id = g.id /\ h.depth = g.depth
    <3> HIDE DEF g
    <3> QED
      BY <2>0 DEF Group
  <2>2. groups' = [groups EXCEPT ![n] = h]
    BY <1>1, <1>3
  <2> HIDE DEF h
  <2> DEFINE G == [groups EXCEPT ![n] = h]
  <2>3. G \in Seq(Group) /\ Len(G) = n /\ \A k \in 1..n : G[k] = IF k = n THEN h ELSE groups[k]
    BY <1>3, <2>1, ExceptSeq
  <2> QED
    BY <2>1, <2>2, <2>3
<1>9. \A k \in 1..n : groups'[k].id = groups[k].id /\ groups'[k].depth = groups[k].depth
  BY <1>3, <1>8
<1>10. E \in Table /\ \A a \in Aim : E[a] = Waiting(asm', open, groups', a)
  BY <1>7, WaitingIsTable
<1>11. ins.aim = aim /\ n = Len(groups) /\ aim = [id |-> groups[n].id, place |-> "end"]
       /\ aim = [id |-> groups'[n].id, place |-> "end"]
       /\ scs = asm.shortcircuits /\ tcs = asm'.shortcircuits
  BY <1>3, <1>9
<1> HIDE DEF n, aim, ins, h, D, E, scs, tcs, g
<1>12. \A a : OfGroups(tcs, groups', n, a) =
         OfGroups(scs, groups, n, a) \cup (IF a = aim THEN {size(asm) + 1} ELSE {})
  <2> SUFFICES ASSUME NEW a
               PROVE  OfGroups(tcs, groups', n, a) =
                        OfGroups(scs, groups, n, a) \cup (IF a = aim THEN {size(asm) + 1} ELSE {})
    OBVIOUS
  <2>1. OfGroups(tcs, groups', n - 1, a) = OfGroups(scs, groups, n - 1, a)
    BY <1>3, <1>7, <1>9, GroupsSame
  <2>2. /\ OfGroups(scs, groups, n, a) =
             OfGroups(scs, groups, n - 1, a) \cup (IF a = aim THEN ToSet(scs[n]) \cap Nat ELSE {})
        /\ OfGroups(tcs, groups', n, a) =
             OfGroups(tcs, groups', n - 1, a) \cup (IF a = aim THEN ToSet(tcs[n]) \cap Nat ELSE {})
    <3>1. n \in Nat \ {0}
      BY <1>3
    <3>0. \A S, T, i : OfGroups(S, T, n, i) =
            OfGroups(S, T, n - 1, i)
              \cup (IF i = [id |-> T[n].id, place |-> "end"] THEN ToSet(S[n]) \cap Nat ELSE {})
      BY <3>1, GroupsSplit
    <3>2. /\ OfGroups(scs, groups, n, a) =
               OfGroups(scs, groups, n - 1, a)
                 \cup (IF a = [id |-> groups[n].id, place |-> "end"] THEN ToSet(scs[n]) \cap Nat ELSE {})
          /\ OfGroups(tcs, groups', n, a) =
               OfGroups(tcs, groups', n - 1, a)
                 \cup (IF a = [id |-> groups'[n].id, place |-> "end"] THEN ToSet(tcs[n]) \cap Nat ELSE {})
      BY <3>0
    <3> QED
      BY <1>11, <3>2
  <2> QED
    BY <1>2, <1>7, <2>1, <2>2
<1>13. \A a \in Aim : E[a] = IF a = ins.aim THEN D[a] \cup {Len(asm.code) + 1} ELSE D[a]
  <2> SUFFICES ASSUME NEW a \in Aim
               PROVE  E[a] = IF a = ins.aim THEN D[a] \cup {Len(asm.code) + 1} ELSE D[a]
    OBVIOUS
  <2>1. E[a] = Waiting(asm', open, groups', a) /\ D[a] = Waiting(asm, open, groups, a)
    BY <1>2, <1>10
  <2>2. Waiting(asm', open, groups', a) =
          Waiting(asm, open, groups, a) \cup (IF a = aim THEN {size(asm) + 1} ELSE {})
    BY <1>7, <1>8, <1>11, <1>12 DEF Waiting, SameBut
  <2> QED
    BY <1>2, <1>11, <2>1, <2>2
<1>14. /\ Sound(asm'.code, E, places, labelled)
       /\ Arrived(asm.code, places, labelled) => Arrived(asm'.code, places, labelled)
  <2>1. WaitingEmit(asm.code, D, places, labelled, ins, asm'.code, E)
    BY <1>2, <1>6, <1>7, <1>10, <1>11, <1>13 DEF WaitingEmit
  <2> QED
    BY <1>6, <1>11, <2>1, EmittedWaiting
<1>15. Shape'
  <2>1. GroupsOK(asm.shortcircuits, groups, open, places)'
    BY <1>1, <1>2, <1>7, <1>8, <1>9, <1>11, SMTT(30) DEF Shape, GroupsOK
  <2> QED
    BY <1>1, <1>2, <1>7, <2>1, Types, ShapeOfGroups
<1>16. TypeOK'
  BY <1>1, <1>2, <1>7, <1>8 DEF TypeOK, Group
<1> QED
  BY <1>1, <1>14, <1>15, <1>16 DEF Kept, JInv, E

LEMMA BeginGroupKeeps ==
  ASSUME JInv, NEW op, op \in {"and", "or"}, BeginGroup(op)
  PROVE  Kept
<1> DEFINE n == Len(groups)
           p == Len(places)
           h == [id |-> p + 1, op |-> op, depth |-> Len(open), operands |-> 0]
           r == [NoPlaces EXCEPT !.start = size(asm)]
           D == TableOf(asm, open, groups)
           scs == asm.shortcircuits
           tcs == asm'.shortcircuits
<1>1. /\ Working /\ asm' = asm_sc_begin(asm)
      /\ groups' = Append(groups, h) /\ places' = Append(places, r)
      /\ UNCHANGED <<open, labelled, phase>>
  BY DEF BeginGroup
<1>2. /\ TypeOK /\ Shape /\ phase = "function" /\ ~asm.fault
      /\ Sound(asm.code, D, places, labelled)
      /\ D \in Table /\ asm \in Machine /\ size(asm) \in Nat /\ asm.code \in Seq(Instruction)
      /\ scs \in Seq(Seq(Nat)) /\ groups \in Seq(Group) /\ n \in Nat /\ p \in Nat /\ Len(open) \in Nat
      /\ places \in Seq(Places)
  BY <1>1, Context, Types
<1>3. Len(scs) = n
  BY <1>2 DEF Shape, GroupsOK
<1>4. h \in Group /\ h.id = p + 1 /\ h.depth = Len(open)
  <2>1. p + 1 \in Nat /\ 0 \in Nat
    BY <1>2
  <2> HIDE DEF p
  <2> QED
    BY <1>2, <2>1 DEF Group
<1>5. r \in Places /\ r.end = Nowhere
  BY <1>2 DEF NoPlaces, Places, Nowhere
<1>6. /\ asm' \in Machine /\ SameBut({"shortcircuits"}, asm, asm')
      /\ tcs = Append(scs, <<>>)
  <2>1. Append(scs, <<>>) \in Seq(Seq(Nat))
    <3>1. <<>> \in Seq(Nat)
      BY EmptySeq
    <3> QED
      BY <1>2, <3>1, AppendProperties
  <2>2. asm' = [asm EXCEPT !.shortcircuits = Append(scs, <<>>)]
    BY <1>1 DEF asm_sc_begin
  <2> DEFINE new == Append(scs, <<>>)
  <2> HIDE DEF new
  <2>3. new \in Seq(Seq(Nat)) /\ asm' = [asm EXCEPT !.shortcircuits = new]
    BY <2>1, <2>2 DEF new
  <2>4. asm' \in Machine /\ SameBut({"shortcircuits"}, asm, asm') /\ asm'.shortcircuits = new
    BY <1>2, <2>3 DEF Machine, SameBut
  <2> QED
    BY <2>4 DEF new
<1> HIDE DEF h, r
<1>7. /\ groups' \in Seq(Group) /\ Len(groups') = n + 1
      /\ \A k \in 1..n : groups'[k] = groups[k]
      /\ groups'[n + 1] = h
  <2> DEFINE G == Append(groups, h)
  <2>1. /\ G \in Seq(Group) /\ Len(G) = n + 1 /\ \A k \in 1..n : G[k] = groups[k]
        /\ G[n + 1] = h
    BY <1>2, <1>4, AppendProperties
  <2> QED
    BY <1>1, <2>1
<1>8. /\ Len(tcs) = n + 1 /\ \A k \in 1..n : tcs[k] = scs[k]
      /\ tcs[n + 1] = <<>>
  <2> DEFINE T == Append(scs, <<>>)
  <2>0. <<>> \in Seq(Nat)
    BY EmptySeq
  <2>1. Len(T) = n + 1 /\ (\A k \in 1..n : T[k] = scs[k]) /\ T[n + 1] = <<>>
    BY <1>2, <1>3, <2>0, AppendProperties
  <2> QED
    BY <1>6, <2>1
<1>9. /\ places' \in Seq(Places) /\ Len(places') = p + 1
      /\ places'[p + 1] = r /\ \A i \in 1..p : places'[i] = places[i]
      /\ \A a \in Aim : Aimable(places, a) =>
           Aimable(places', a) /\ TargetIn(places', labelled, a) = TargetIn(places, labelled, a)
  <2> DEFINE Q == Append(places, r)
  <2>1. /\ Q \in Seq(Places) /\ Len(Q) = p + 1
        /\ Q[p + 1] = r /\ \A i \in 1..p : Q[i] = places[i]
        /\ \A a \in Aim : Aimable(places, a) =>
             Aimable(Q, a) /\ TargetIn(Q, labelled, a) = TargetIn(places, labelled, a)
    <3>1. places \in Seq(Places) /\ r \in Places
      BY <1>2, <1>5
    <3> HIDE DEF Q
    <3>2. Q = Append(places, r)
      BY DEF Q
    <3> QED
      BY <3>1, <3>2, PlacesAppended
  <2> QED
    BY <1>1, <2>1
<1>10. /\ Sound(asm.code, D, places', labelled)
       /\ Arrived(asm.code, places, labelled) => Arrived(asm.code, places', labelled)
  <2>1. Unaiming(asm.code, D, places, places', labelled)
    BY <1>2, <1>9 DEF Unaiming
  <2> QED
    BY <2>1, Unaimed
<1>11. n = Len(groups) /\ Len(groups') = n + 1 /\ scs = asm.shortcircuits /\ tcs = asm'.shortcircuits
  BY <1>7
<1>13. p = Len(places)
  OBVIOUS
<1> HIDE DEF n, scs, tcs, p
<1>12. TableOf(asm', open, groups') = D
  <2> SUFFICES ASSUME NEW a
               PROVE  Waiting(asm', open, groups', a) = Waiting(asm, open, groups, a)
    BY DEF TableOf
  <2>1. OfGroups(tcs, groups', n, a) = OfGroups(scs, groups, n, a)
    BY <1>7, <1>8, GroupsSame
  <2>2. OfGroups(tcs, groups', n + 1, a) = OfGroups(tcs, groups', n, a)
    <3>1. n + 1 \in Nat \ {0} /\ (n + 1) - 1 = n
      BY <1>2
    <3>2. OfGroups(tcs, groups', n + 1, a) =
            OfGroups(tcs, groups', (n + 1) - 1, a)
              \cup (IF a = [id |-> groups'[n + 1].id, place |-> "end"] THEN ToSet(tcs[n + 1]) \cap Nat ELSE {})
      BY <3>1, GroupsSplit
    <3>3. ToSet(tcs[n + 1]) = {}
      BY <1>8, ToSetEmpty
    <3> QED
      BY <3>1, <3>2, <3>3
  <2> QED
    BY <1>6, <1>11, <2>1, <2>2 DEF Waiting, SameBut
<1>14. GroupsOK(asm.shortcircuits, groups, open, places)'
  <2>0. \A k \in 1..(n + 1) : k \in 1..n \/ k = n + 1
    BY <1>2
  <2>1. /\ \A k \in 1..n : groups[k].id \in 2..p /\ places[groups[k].id].end = Nowhere
                           /\ groups[k].depth <= Len(open)
        /\ \A j, k \in 1..n : groups[j].id = groups[k].id => j = k
        /\ \A j, k \in 1..n : j <= k => groups[j].depth <= groups[k].depth
        /\ \A j \in 1..Len(open), k \in 1..n : open[j].id # groups[k].id
        /\ \A j \in 1..Len(open) : open[j].id \in 2..p
    BY <1>2, <1>11, <1>13, OpenNodes DEF Shape, GroupsOK
  <2>2. /\ \A id \in 2..p : id # p + 1 /\ id \in 1..p /\ id \in 2..(p + 1)
        /\ p + 1 \in 2..(p + 1)
    <3>1. p >= 1
      BY <1>2, <1>13 DEF Shape, PhaseOK
    <3> QED
      BY <1>2, <3>1
  <2>3. \A k \in 1..(n + 1) : /\ groups'[k].id \in 2..(p + 1) /\ places'[groups'[k].id].end = Nowhere
                              /\ groups'[k].depth <= Len(open)
    <3>1. \A k \in 1..n : /\ groups'[k].id \in 2..(p + 1) /\ places'[groups'[k].id].end = Nowhere
                          /\ groups'[k].depth <= Len(open)
      BY <1>7, <1>9, <2>1, <2>2
    <3>2. /\ groups'[n + 1].id \in 2..(p + 1) /\ places'[groups'[n + 1].id].end = Nowhere
          /\ groups'[n + 1].depth <= Len(open)
      <4>1. Len(open) <= Len(open)
        BY <1>2
      <4> QED
        BY <1>4, <1>5, <1>7, <1>9, <2>2, <4>1
    <3> QED
      BY <2>0, <3>1, <3>2
  <2>4. \A j, k \in 1..(n + 1) : groups'[j].id = groups'[k].id => j = k
    BY <1>4, <1>7, <2>0, <2>1, <2>2
  <2>5. \A j, k \in 1..(n + 1) : j <= k => groups'[j].depth <= groups'[k].depth
    <3>1. groups'[n + 1].depth = Len(open) /\ \A j \in 1..(n + 1) : groups'[j].depth <= Len(open)
      BY <1>4, <1>7, <2>3
    <3>2. \A j, k \in 1..n : j <= k => groups'[j].depth <= groups'[k].depth
      BY <1>7, <2>1
    <3>3. \A k \in 1..n : ~(n + 1 <= k)
      BY <1>2
    <3> QED
      BY <2>0, <3>1, <3>2, <3>3
  <2>6. \A j \in 1..Len(open), k \in 1..(n + 1) : open[j].id # groups'[k].id
    BY <1>4, <1>7, <2>0, <2>1, <2>2
  <2>7. open' = open /\ Len(groups') = n + 1 /\ Len(places') = p + 1 /\ Len(asm'.shortcircuits) = n + 1
    BY <1>1, <1>8, <1>9, <1>11
  <2> SUFFICES GroupsOK(asm'.shortcircuits, groups', open', places')
    OBVIOUS
  <2> QED
    BY <2>3, <2>4, <2>5, <2>6, <2>7 DEF GroupsOK
<1>15. Shape'
  <2>1. SameBut({"code", "shortcircuits"}, asm, asm')
    BY <1>6 DEF SameBut
  <2>2. Len(places') \in Nat /\ Len(places') >= Len(places)
    BY <1>2, <1>9, <1>13
  <2> QED
    BY <1>1, <1>2, <1>9, <1>13, <1>14, <2>1, <2>2, ShapeOfGroups
<1>16. TypeOK'
  BY <1>1, <1>2, <1>6, <1>7, <1>9 DEF TypeOK, Group
<1>17. asm'.code = asm.code
  BY <1>6 DEF SameBut
<1> QED
  BY <1>1, <1>10, <1>12, <1>15, <1>16, <1>17 DEF Kept, JInv

LEMMA ScEndIs ==
  ASSUME NEW m, m \in Machine, m.shortcircuits # <<>>
  PROVE  LET n == Len(m.shortcircuits)
             r == asm_sc_end(m)
             c == PatchedCode(m.code, ToSet(m.shortcircuits[n]), size(m))
             ins == [op |-> "op", to |-> size(m) + 1, aim |-> NoAim]
         IN /\ r \in Machine /\ SameBut({"code", "shortcircuits"}, m, r)
            /\ ins \in Instruction /\ r.code = Append(c, ins)
            /\ Len(r.shortcircuits) = n - 1
            /\ \A k \in 1..(n - 1) : r.shortcircuits[k] = m.shortcircuits[k]
<1> DEFINE n == Len(m.shortcircuits)
           r == asm_sc_end(m)
           S == ToSet(m.shortcircuits[n])
           p == Patched(m, S)
           e == emit(p, "op", NoAim)
           ins == [op |-> "op", to |-> size(m) + 1, aim |-> NoAim]
           f == Front(m.shortcircuits)
<1>1. m.shortcircuits \in Seq(Seq(Nat))
  BY MachineFields
<1>2. /\ Last(m.shortcircuits) = m.shortcircuits[n]
      /\ f \in Seq(Seq(Nat)) /\ Len(f) = n - 1
      /\ \A k \in 1..(n - 1) : f[k] = m.shortcircuits[k]
  BY <1>1, FrontAndLast
<1>3. r = [emit(Patched(m, S), "op", NoAim) EXCEPT !.shortcircuits = Front(@)]
  BY <1>2 DEF asm_sc_end
<1>4. /\ p \in Machine /\ SameBut({"code"}, m, p)
      /\ p.code = PatchedCode(m.code, S, size(m)) /\ size(p) = size(m)
  BY PatchedIs
<1> HIDE DEF p, S, n
<1>5. /\ e \in Machine /\ SameBut({"code"}, p, e)
      /\ ins \in Instruction /\ e.code = Append(p.code, ins)
  <2>1. "op" \in Ops /\ NoAim \in Aim
    BY AimsAreAims DEF Ops
  <2>2. LET i == [op |-> "op", to |-> size(p) + 1, aim |-> NoAim]
        IN e \in Machine /\ SameBut({"code"}, p, e) /\ i \in Instruction /\ e.code = Append(p.code, i)
    BY <1>4, <2>1, EmitIs
  <2> QED
    BY <1>4, <2>2
<1>6. e.shortcircuits = m.shortcircuits
  BY <1>4, <1>5 DEF SameBut
<1>7. r = [e EXCEPT !.shortcircuits = Front(@)]
  BY <1>3 DEF p
<1> HIDE DEF e, ins, f, r
<1>8. r = [e EXCEPT !.shortcircuits = f]
  BY <1>6, <1>7 DEF f
<1>9. r \in Machine /\ r.shortcircuits = f /\ SameBut({"code", "shortcircuits"}, m, r) /\ r.code = e.code
  BY <1>2, <1>4, <1>5, <1>8 DEF Machine, SameBut
<1> QED
  BY <1>2, <1>4, <1>5, <1>9 DEF S, n, ins, r

LEMMA EndGroupKeeps ==
  ASSUME JInv, EndGroup
  PROVE  Kept
<1> DEFINE n == Len(groups)
           g == Last(groups)
           x == [id |-> g.id, place |-> "end"]
           ins == [op |-> "op", to |-> size(asm) + 1, aim |-> NoAim]
           D == TableOf(asm, open, groups)
           E == TableOf(asm', open, groups')
           scs == asm.shortcircuits
           tcs == asm'.shortcircuits
           v == size(asm)
           S == ToSet(scs[n])
           c == PatchedCode(asm.code, S, v)
<1>1. /\ Working /\ groups # <<>>
      /\ asm' = asm_sc_end(asm)
      /\ groups' = Front(groups)
      /\ places' = [places EXCEPT ![g.id]["end"] = v]
      /\ UNCHANGED <<open, labelled, phase>>
  BY DEF EndGroup, GroupOnTop
<1>2. /\ TypeOK /\ Shape /\ phase = "function" /\ ~asm.fault
      /\ Sound(asm.code, D, places, labelled)
      /\ D \in Table /\ \A a \in Aim : D[a] = Waiting(asm, open, groups, a)
      /\ asm \in Machine /\ v \in Nat /\ v = Len(asm.code) /\ v + 1 \in Nat
      /\ asm.code \in Seq(Instruction) /\ places \in Seq(Places) /\ groups \in Seq(Group)
  BY <1>1, Context, Types
<1>3. /\ n \in Nat \ {0} /\ n - 1 \in Nat /\ n \in 1..n /\ g = groups[n] /\ g \in Group
      /\ groups' \in Seq(Group) /\ Len(groups') = n - 1
      /\ \A k \in 1..(n - 1) : groups'[k] = groups[k]
      /\ \A k \in 1..(n - 1) : k \in 1..n /\ k # n
  <2>1. groups \in Seq(Group) /\ groups # <<>>
    BY <1>1, <1>2, Types
  <2>2. /\ n \in Nat \ {0} /\ n \in 1..n /\ g = groups[n] /\ g \in Group
        /\ groups' \in Seq(Group) /\ Len(groups') = n - 1
        /\ \A k \in 1..(n - 1) : groups'[k] = groups[k]
    BY <1>1, <2>1, FrontAndLast
  <2> HIDE DEF n, g
  <2>3. n - 1 \in Nat /\ \A k \in 1..(n - 1) : k \in 1..n /\ k # n
    BY <2>2
  <2> QED
    BY <2>1, <2>2, <2>3
<1>4. Len(scs) = n /\ scs # <<>> /\ S \subseteq Nat /\ Last(scs) = scs[n]
  <2>1. Len(scs) = n /\ scs \in Seq(Seq(Nat)) /\ Len(<<>>) = 0
    BY <1>2, Types, EmptySeq DEF Shape, GroupsOK
  <2>2. scs[n] \in Seq(Nat) /\ Last(scs) = scs[n]
    BY <1>3, <2>1 DEF Last
  <2> QED
    BY <1>3, <2>1, <2>2, ToSetIs
<1>5. g.id \in Nat /\ g.id # 0 /\ g.id \in 1..Len(places) /\ places[g.id].end = Nowhere
  <2>1. g.id \in 2..Len(places) /\ places[g.id].end = Nowhere /\ Len(places) \in Nat
    BY <1>2, <1>3, Types DEF Shape, GroupsOK
  <2> HIDE DEF g
  <2> QED
    BY <2>1
<1>6. /\ Waiting(asm, open, groups, x) = S
      /\ OfReturns(asm.returns, x) = {} /\ OfLabels(asm.goto_labels, x) = {}
      /\ OfBreaks(asm.branches, open, Len(open), x) = {}
      /\ OfConditions(asm.branches, open, Len(open), x) = {}
  BY <1>1, <1>2, <1>4, WaitsForGroup
<1>7. /\ asm' \in Machine /\ SameBut({"code", "shortcircuits"}, asm, asm')
      /\ ins \in Instruction /\ asm'.code = Append(c, ins)
      /\ Len(tcs) = n - 1 /\ \A k \in 1..(n - 1) : tcs[k] = scs[k]
  <2>1. LET k == Len(asm.shortcircuits)
            r == asm_sc_end(asm)
            d == PatchedCode(asm.code, ToSet(asm.shortcircuits[k]), size(asm))
        IN /\ r \in Machine /\ SameBut({"code", "shortcircuits"}, asm, r)
           /\ ins \in Instruction /\ r.code = Append(d, ins)
           /\ Len(r.shortcircuits) = k - 1
           /\ \A i \in 1..(k - 1) : r.shortcircuits[i] = asm.shortcircuits[i]
    BY <1>2, <1>4, ScEndIs
  <2> HIDE DEF ins
  <2> QED
    BY <1>1, <1>4, <2>1
<1>8. E \in Table /\ \A a \in Aim : E[a] = Waiting(asm', open, groups', a)
  BY <1>7, WaitingIsTable
<1>9. /\ x.id = g.id /\ x.place = "end" /\ x = [id |-> x.id, place |-> x.place]
      /\ x = [id |-> groups[n].id, place |-> "end"]
      /\ n = Len(groups) /\ scs = asm.shortcircuits /\ tcs = asm'.shortcircuits
      /\ c = PatchedCode(asm.code, S, v) /\ v = size(asm)
      /\ ins.aim = NoAim
  BY <1>3
<1>10. x \in Aim
  BY <1>5, AimsAreAims
<1> HIDE DEF n, g, x, ins, D, E, scs, tcs, v, S, c
<1>11. /\ c \in Seq(Instruction) /\ Sound(c, Cleared(D, x), places', labelled)
       /\ Cleared(D, x) \in Table
       /\ Arrived(asm.code, places, labelled) => Arrived(c, places', labelled)
       /\ \A a \in Aim : Cleared(D, x)[a] = IF a = x THEN {} ELSE D[a]
  <2>1. D[x] = S \cap Nat
    BY <1>2, <1>4, <1>6, <1>10
  <2>2. Reaches(asm.code, D, places, x, v, places', S)
    BY <1>1, <1>2, <1>5, <1>9, <2>1 DEF Reaches
  <2>3. LET d == PatchedCode(asm.code, S, v)
        IN /\ d \in Seq(Instruction)
           /\ Cleared(D, x) \in Table /\ Sound(d, Cleared(D, x), places', labelled)
           /\ Arrived(asm.code, places, labelled) => Arrived(d, places', labelled)
    BY <1>2, <2>2, ReachedPlace
  <2>4. \A a \in Aim : Cleared(D, x)[a] = IF a = x THEN {} ELSE D[a]
    BY DEF Cleared
  <2> QED
    BY <1>9, <2>3, <2>4
<1>12. /\ Sound(asm'.code, Cleared(D, x), places', labelled)
       /\ Arrived(c, places', labelled) => Arrived(asm'.code, places', labelled)
  <2>1. Aimable(places', ins.aim) /\ KnownTo(ins, places', labelled)
    BY <1>9 DEF Aimable, KnownTo
  <2>2. KnownEmit(c, Cleared(D, x), places', labelled, ins, asm'.code)
    BY <1>7, <1>9, <1>11, <2>1 DEF KnownEmit
  <2> QED
    BY <2>1, <2>2, WroteKnown
<1>13. \A k \in 1..(n - 1) : x # [id |-> groups[k].id, place |-> "end"] /\ groups[k].id # g.id
  <2>1. \A k \in 1..(n - 1) : groups[k].id # groups[n].id
    BY <1>2, <1>3, <1>9, OpenNodes
  <2> QED
    BY <1>3, <1>9, <2>1
<1>14. \A a \in Aim : OfGroups(tcs, groups', n - 1, a) = IF a = x THEN {} ELSE OfGroups(scs, groups, n, a)
  <2> SUFFICES ASSUME NEW a \in Aim
               PROVE  OfGroups(tcs, groups', n - 1, a) = IF a = x THEN {} ELSE OfGroups(scs, groups, n, a)
    OBVIOUS
  <2>1. OfGroups(tcs, groups', n - 1, a) = OfGroups(scs, groups, n - 1, a)
    BY <1>3, <1>7, GroupsSame
  <2>2. CASE a = x
    <3>1. OfGroups(scs, groups, n - 1, x) = {}
      BY <1>13 DEF OfGroups
    <3> QED
      BY <2>1, <2>2, <3>1
  <2>3. CASE a # x
    <3>1. n \in Nat \ {0}
      BY <1>3
    <3>2. \A T, G, i : OfGroups(T, G, n, i) =
            OfGroups(T, G, n - 1, i)
              \cup (IF i = [id |-> G[n].id, place |-> "end"] THEN ToSet(T[n]) \cap Nat ELSE {})
      BY <3>1, GroupsSplit
    <3>4. OfGroups(scs, groups, n, a) =
            OfGroups(scs, groups, n - 1, a)
              \cup (IF a = [id |-> groups[n].id, place |-> "end"] THEN ToSet(scs[n]) \cap Nat ELSE {})
      BY <3>2
    <3>5. a # [id |-> groups[n].id, place |-> "end"]
      BY <1>9, <2>3
    <3>3. OfGroups(scs, groups, n, a) = OfGroups(scs, groups, n - 1, a)
      BY <3>4, <3>5
    <3> QED
      BY <2>1, <2>3, <3>3
  <2> QED
    BY <2>2, <2>3
<1>15. E = Cleared(D, x)
  <2>1. ASSUME NEW a \in Aim
        PROVE  E[a] = Cleared(D, x)[a]
    <3>1. E[a] = Waiting(asm', open, groups', a) /\ D[a] = Waiting(asm, open, groups, a)
      BY <1>2, <1>8
    <3>2. CASE a = x
      <4>1. Waiting(asm', open, groups', x) = {}
        BY <1>3, <1>6, <1>7, <1>9, <1>10, <1>14 DEF Waiting, SameBut
      <4> QED
        BY <1>10, <1>11, <3>1, <3>2, <4>1
    <3>3. CASE a # x
      <4>1. Waiting(asm', open, groups', a) = Waiting(asm, open, groups, a)
        BY <1>3, <1>7, <1>9, <1>14, <3>3 DEF Waiting, SameBut
      <4> QED
        BY <1>11, <3>1, <3>3, <4>1
    <3> QED
      BY <3>2, <3>3
  <2> QED
    BY <1>8, <1>11, <2>1, SameFunction
<1>16. /\ places' \in Seq(Places) /\ Len(places') = Len(places)
       /\ \A i \in 1..Len(places) : i # g.id => places'[i] = places[i]
  <2>1. WithPlace(places, g.id, "end", v, places')
    BY <1>1, <1>2, <1>5 DEF WithPlace, PlaceNames
  <2>2. \A i \in 1..Len(places) : i # g.id => places'[i] = places[i]
    BY <1>1, <1>2, Types
  <2> QED
    BY <2>1, <2>2, PlacesWith
<1>17. GroupsOK(asm.shortcircuits, groups, open, places)'
  <2>1. /\ \A k \in 1..(n - 1) : groups[k].id \in 2..Len(places) /\ places[groups[k].id].end = Nowhere
                                 /\ groups[k].depth <= Len(open)
        /\ \A j, k \in 1..(n - 1) : groups[j].id = groups[k].id => j = k
        /\ \A j, k \in 1..(n - 1) : j <= k => groups[j].depth <= groups[k].depth
        /\ \A j \in 1..Len(open), k \in 1..(n - 1) : open[j].id # groups[k].id
    BY <1>2, <1>3, <1>9 DEF Shape, GroupsOK
  <2>2. \A k \in 1..(n - 1) : places'[groups[k].id] = places[groups[k].id]
    <3>1. \A id \in 2..Len(places) : id \in 1..Len(places)
      BY <1>2, Types
    <3> QED
      BY <1>13, <1>16, <2>1, <3>1
  <2> QED
    BY <1>1, <1>3, <1>7, <1>9, <1>16, <2>1, <2>2, SMTT(30) DEF GroupsOK
<1>18. Shape'
  <2>1. Len(places') \in Nat /\ Len(places') >= Len(places)
    BY <1>2, <1>16, Types
  <2>2. \A i \in 1..Len(places) : (\A k \in 1..Len(groups) : i # groups[k].id) => places'[i] = places[i]
    BY <1>3, <1>9, <1>16
  <2> QED
    BY <1>1, <1>2, <1>7, <1>17, <2>1, <2>2, ShapeOfGroups
<1>19. TypeOK'
  BY <1>1, <1>2, <1>3, <1>7, <1>16 DEF TypeOK, Group
<1> QED
  BY <1>1, <1>11, <1>12, <1>15, <1>18, <1>19 DEF Kept, JInv, E

-----------------------------------------------------------------------------
(* Nodes that begin.                                                       *)

\* The node b is begun. What is around it may be at another part by then.
Pushing(b) ==
  /\ JInv /\ Working
  /\ asm' = push_branch(asm, b.node \in Loops)
  /\ places' = Append(places, [NoPlaces EXCEPT !.start = size(asm)])
  /\ UNCHANGED <<groups, labelled, phase>>
  /\ b \in Node /\ b.id = Len(places) + 1 /\ b.part = "when"
  /\ b.loop = IF b.node \in Loops THEN b.id ELSE Innermost
  /\ b.node = "until" => Innermost # NoLoop
  /\ open' \in Seq(Node) /\ Len(open') = Len(open) + 1 /\ open'[Len(open) + 1] = b
  /\ \A k \in 1..Len(open) : Alike(open[k], open'[k])

LEMMA PushKeeps ==
  ASSUME NEW b, Pushing(b)
  PROVE  Kept
<1> DEFINE n == Len(open)
           p == Len(places)
           r == [NoPlaces EXCEPT !.start = size(asm)]
           D == TableOf(asm, open, groups)
           loop == b.node \in Loops
<1>1. /\ JInv /\ Working /\ asm' = push_branch(asm, loop) /\ places' = Append(places, r)
      /\ UNCHANGED <<groups, labelled, phase>>
      /\ b \in Node /\ b.id = p + 1 /\ b.part = "when"
      /\ b.loop = IF loop THEN b.id ELSE Innermost
      /\ b.node = "until" => Innermost # NoLoop
      /\ open' \in Seq(Node) /\ Len(open') = n + 1 /\ open'[n + 1] = b
      /\ \A k \in 1..n : Alike(open[k], open'[k])
  BY DEF Pushing
<1>2. /\ TypeOK /\ Shape /\ phase = "function" /\ ~asm.fault
      /\ Sound(asm.code, D, places, labelled)
      /\ D \in Table /\ asm \in Machine /\ size(asm) \in Nat /\ asm.code \in Seq(Instruction)
      /\ n \in Nat /\ p \in Nat /\ places \in Seq(Places)
  BY <1>1, Context, Types
<1>3. Len(asm.branches) = n
  BY <1>2, OpenNodes
<1>4. r \in Places /\ r.start = size(asm) /\ r.end = Nowhere /\ r.other = Nowhere /\ r.resume = Nowhere
  BY <1>2 DEF NoPlaces, Places, Nowhere
<1>5. /\ asm' \in Machine /\ SameBut({"branches"}, asm, asm') /\ Len(asm'.branches) = n + 1
      /\ \A k \in 1..n : asm'.branches[k] = asm.branches[k]
      /\ asm'.branches[n + 1] = [branch_start |-> IF loop THEN size(asm) ELSE Nowhere,
                                 curr_jump |-> Nowhere, end_stack |-> <<>>, is_loop |-> loop]
  <2>1. loop \in BOOLEAN
    OBVIOUS
  <2> HIDE DEF loop, n
  <2>2. LET q == push_branch(asm, loop)
            k == Len(asm.branches)
        IN /\ q \in Machine /\ SameBut({"branches"}, asm, q) /\ Len(q.branches) = k + 1
           /\ \A i \in 1..k : q.branches[i] = asm.branches[i]
           /\ q.branches[k + 1] = [branch_start |-> IF loop THEN size(asm) ELSE Nowhere,
                                   curr_jump |-> Nowhere, end_stack |-> <<>>, is_loop |-> loop]
    BY <1>2, <2>1, PushBranchIs
  <2> QED
    BY <1>1, <1>3, <2>2
<1>6. /\ places' \in Seq(Places) /\ Len(places') = p + 1
      /\ places'[p + 1] = r /\ \A i \in 1..p : places'[i] = places[i]
      /\ \A a \in Aim : Aimable(places, a) =>
           Aimable(places', a) /\ TargetIn(places', labelled, a) = TargetIn(places, labelled, a)
  <2> HIDE DEF r
  <2> QED
    BY <1>1, <1>2, <1>4, PlacesAppended
<1>7. /\ Sound(asm.code, D, places', labelled)
      /\ Arrived(asm.code, places, labelled) => Arrived(asm.code, places', labelled)
  <2>1. Unaiming(asm.code, D, places, places', labelled)
    BY <1>2, <1>6 DEF Unaiming
  <2> QED
    BY <2>1, Unaimed
<1>8. n = Len(open) /\ p = Len(places) /\ loop = (b.node \in Loops)
  OBVIOUS
<1> HIDE DEF n, p, r, loop
<1>9. Agree(asm, open, asm', open', n) /\ SameBreaks(asm, asm', n)
  BY <1>1, <1>5 DEF Agree, SameBreaks, SameBut
<1>10. Tops(open', n, n + 1)
  BY <1>1, <1>2 DEF Tops, Preceding
<1>12. TableOf(asm', open', groups) = D
  <2> SUFFICES ASSUME NEW a
               PROVE  Waiting(asm', open', groups, a) = Waiting(asm, open, groups, a)
    BY DEF TableOf
  <2>1. Waiting(asm', open', groups, a) =
          Below(asm', open', groups, n, a) \cup OfTop(asm'.branches[n + 1], open'[n + 1], a)
    BY <1>10, WaitingSplit
  <2>2. Below(asm', open', groups, n, a) = Below(asm, open, groups, n, a)
    BY <1>9, BelowSame
  <2>3. Waiting(asm, open, groups, a) = Below(asm, open, groups, n, a)
    BY <1>8 DEF Waiting, Below
  <2>4. OfTop(asm'.branches[n + 1], open'[n + 1], a) = {}
    BY <1>1, <1>5, ToSetEmpty DEF OfTop
  <2> QED
    BY <2>1, <2>2, <2>3, <2>4
<1>13. NodeOK(open'[n + 1], asm'.branches[n + 1], places')
  <2>1. p + 1 \in 2..(p + 1) /\ size(asm) # Nowhere
    <3>1. p >= 1
      BY <1>2, <1>8 DEF Shape, PhaseOK
    <3> QED
      BY <1>2, <3>1 DEF Nowhere
  <2>2. places'[b.id] = r /\ b.id \in 2..Len(places')
    BY <1>1, <1>6, <2>1
  <2>3. /\ asm'.branches[n + 1].is_loop = loop
        /\ asm'.branches[n + 1].branch_start = IF loop THEN size(asm) ELSE Nowhere
    BY <1>5
  <2>4. b.node = "until" => b.loop # NoLoop
    BY <1>1, <1>8 DEF Loops
  <2>5. /\ b.node \in Loops => b.loop = b.id
        /\ asm'.branches[n + 1].is_loop = (b.node \in Loops)
        /\ b.node \in Loops => asm'.branches[n + 1].branch_start = size(asm)
        /\ asm'.branches[n + 1].branch_start \in Nat \cup {Nowhere}
    BY <1>1, <1>2, <1>8, <2>3
  <2> QED
    BY <1>1, <1>4, <2>1, <2>2, <2>4, <2>5 DEF NodeOK
<1>14. NestedOK(open', n + 1)
  <2>1. \A k \in 1..n : /\ open'[k].id = open[k].id /\ open'[k].node = open[k].node
                        /\ open'[k].loop = open[k].loop
    BY <1>1 DEF Alike
  <2>2. CASE loop
    <3>1. n + 1 \in 1..(n + 1)
      BY <1>2
    <3> QED
      BY <1>1, <1>8, <2>2, <3>1 DEF NestedOK
  <2>3. CASE ~loop /\ n = 0
    <3>1. open = <<>>
      BY <1>2, <1>8, <2>3, Types, EmptySeq
    <3>2. Innermost = NoLoop /\ n + 1 = 1
      BY <2>3, <3>1 DEF Innermost
    <3> QED
      BY <1>1, <2>3, <3>2 DEF NestedOK
  <2>4. CASE ~loop /\ n # 0
    <3>1. n \in 1..n /\ n + 1 # 1 /\ (n + 1) - 1 = n /\ n \in 1..(n + 1) /\ open # <<>>
      BY <1>2, <1>8, <2>4, EmptySeq
    <3>2. Innermost = open[n].loop
      BY <1>8, <3>1 DEF Innermost, Top
    <3>3. open'[n + 1].loop = open'[n].loop
      BY <1>1, <2>1, <2>4, <3>1, <3>2
    <3>4. ASSUME open[n].loop # NoLoop
          PROVE  \E j \in 1..(n + 1) : open'[j].node \in Loops /\ open'[j].id = open[n].loop
      <4>1. PICK j \in 1..n : open[j].node \in Loops /\ open[j].id = open[n].loop
        BY <1>2, <1>8, <3>1, <3>4, OpenNodes
      <4>2. j \in 1..(n + 1)
        BY <1>2
      <4> QED
        BY <2>1, <4>1, <4>2
    <3> QED
      BY <1>1, <2>1, <2>4, <3>1, <3>2, <3>3, <3>4 DEF NestedOK
  <2> QED
    BY <2>2, <2>3, <2>4
<1>15. Shape'
  <2>1. Around(n)
    <3>1. /\ n <= Len(open) /\ n <= Len(open') /\ Len(open') \in Nat
          /\ Len(places') \in Nat /\ Len(places') >= Len(places)
      BY <1>1, <1>2, <1>6, <1>8
    <3> QED
      BY <1>1, <1>2, <1>5, <1>9, <3>1 DEF Around
  <2> QED
    BY <1>1, <1>6, <1>8, <1>13, <1>14, <2>1, ShapePushed
<1>16. TypeOK'
  BY <1>1, <1>2, <1>5, <1>6 DEF TypeOK, Node
<1>17. asm'.code = asm.code
  BY <1>5 DEF SameBut
<1> QED
  BY <1>1, <1>7, <1>12, <1>15, <1>16, <1>17 DEF Kept, JInv

LEMMA OpenKeeps ==
  ASSUME JInv, NEW node, node \in {"if", "?:"} \cup Loops, Open(node)
  PROVE  Kept
<1> DEFINE b == [id |-> Len(places) + 1, node |-> node, part |-> "when",
                 loop |-> IF node \in Loops THEN Len(places) + 1 ELSE Innermost]
<1>1. /\ Working /\ asm' = push_branch(asm, node \in Loops)
      /\ open' = Append(open, b)
      /\ places' = Append(places, [NoPlaces EXCEPT !.start = size(asm)])
      /\ UNCHANGED <<groups, labelled, phase>>
  BY DEF Open, asm_if
<1>2. Len(places) + 1 \in Nat /\ Innermost \in Nat /\ open \in Seq(Node)
  <2>1. TypeOK /\ Len(places) \in Nat /\ open \in Seq(Node)
    BY <1>1, Context, Types
  <2>2. open # <<>> => Top \in Node
    BY <2>1, FrontAndLast DEF Top
  <2> QED
    BY <2>1, <2>2 DEF Innermost, NoLoop, Node
<1>3. /\ b \in Node /\ b.id = Len(places) + 1 /\ b.part = "when" /\ b.node = node /\ node # "until"
      /\ b.loop = IF b.node \in Loops THEN b.id ELSE Innermost
  <2> DEFINE i == Len(places) + 1
  <2>1. i \in Nat
    BY <1>2
  <2> HIDE DEF i
  <2>2. [id |-> i, node |-> node, part |-> "when", loop |-> IF node \in Loops THEN i ELSE Innermost] \in Node
    BY <1>2, <2>1 DEF Node
  <2> QED
    BY <2>2 DEF i, Loops
<1> HIDE DEF b
<1>4. /\ open' \in Seq(Node) /\ Len(open') = Len(open) + 1 /\ open'[Len(open) + 1] = b
      /\ \A k \in 1..Len(open) : open'[k] = open[k]
  <2> DEFINE o == Append(open, b)
  <2>1. /\ o \in Seq(Node) /\ Len(o) = Len(open) + 1 /\ o[Len(open) + 1] = b
        /\ \A k \in 1..Len(open) : o[k] = open[k]
    BY <1>2, <1>3, AppendProperties
  <2> QED
    BY <1>1, <2>1
<1>5. Pushing(b)
  BY <1>1, <1>3, <1>4 DEF Pushing, Alike
<1> QED
  BY <1>5, PushKeeps

LEMMA UntilKeeps ==
  ASSUME JInv, Until
  PROVE  Kept
<1> DEFINE b == [id |-> Len(places) + 1, node |-> "until", part |-> "when", loop |-> Innermost]
           n == Len(open)
           o == [open EXCEPT ![n].part = "tested"]
<1>1. /\ Working /\ open # <<>> /\ Top.node = "do" /\ Top.part = "after"
      /\ asm' = push_branch(asm, FALSE) /\ open' = Append(o, b)
      /\ places' = Append(places, [NoPlaces EXCEPT !.start = size(asm)])
      /\ UNCHANGED <<groups, labelled, phase>>
  BY DEF Until, TopIs, asm_if
<1>2. /\ TypeOK /\ Shape /\ Len(places) + 1 \in Nat /\ open \in Seq(Node)
      /\ n \in 1..n /\ n \in Nat /\ Top = open[n] /\ Top \in Node /\ Top.loop = Top.id /\ Top.id # ByLabel
  <2>1. TypeOK /\ Shape /\ Len(places) \in Nat /\ open \in Seq(Node)
    BY <1>1, Context, Types
  <2>2. n \in 1..n /\ n \in Nat /\ Top = open[n] /\ Top \in Node /\ NodeOK(Top, asm.branches[n], places) /\ Top.id # ByLabel
    BY <1>1, <2>1, TopOpen
  <2>3. Top.loop = Top.id
    BY <1>1, <2>2 DEF NodeOK, Loops
  <2> QED
    BY <2>1, <2>2, <2>3
<1>3. Innermost \in Nat /\ Innermost # NoLoop
  BY <1>1, <1>2 DEF Innermost, Node, NoLoop, ByLabel
<1>4. /\ b \in Node /\ b.id = Len(places) + 1 /\ b.part = "when" /\ b.node = "until"
      /\ b.loop = Innermost /\ "until" \notin Loops
  <2> DEFINE i == Len(places) + 1
  <2>1. i \in Nat
    BY <1>2
  <2> HIDE DEF i
  <2>2. [id |-> i, node |-> "until", part |-> "when", loop |-> Innermost] \in Node
    BY <1>3, <2>1 DEF Node
  <2> QED
    BY <2>2 DEF i, Loops
<1> HIDE DEF b
<1>5. o \in Seq(Node) /\ Len(o) = n /\ \A k \in 1..n : Alike(open[k], o[k])
  <2> DEFINE t == [Top EXCEPT !.part = "tested"]
             q == [open EXCEPT ![n] = t]
  <2>1. t \in Node /\ Alike(Top, t)
    BY <1>1, <1>2 DEF Node, Alike
  <2>2. o = q
    BY <1>2
  <2> HIDE DEF t, o
  <2>3. q \in Seq(Node) /\ Len(q) = n /\ \A k \in 1..n : q[k] = IF k = n THEN t ELSE open[k]
    BY <1>2, <2>1, ExceptSeq
  <2>4. \A k \in 1..n : Alike(open[k], q[k])
    BY <1>2, <2>1, <2>3 DEF Alike
  <2> QED
    BY <2>2, <2>3, <2>4
<1> HIDE DEF o
<1>6. /\ open' \in Seq(Node) /\ Len(open') = n + 1 /\ open'[n + 1] = b
      /\ \A k \in 1..n : Alike(open[k], open'[k])
  <2> DEFINE q == Append(o, b)
  <2>1. /\ q \in Seq(Node) /\ Len(q) = n + 1 /\ q[n + 1] = b
        /\ \A k \in 1..n : q[k] = o[k]
    BY <1>4, <1>5, AppendProperties
  <2> QED
    BY <1>1, <1>5, <2>1
<1>7. Pushing(b)
  <2>1. (b.node \in Loops) = FALSE
    BY <1>4
  <2> QED
    BY <1>1, <1>3, <1>4, <1>6, <2>1 DEF Pushing
<1> QED
  BY <1>7, PushKeeps

-----------------------------------------------------------------------------
(* Loops over their conditions, and what a continue does.                  *)

LEMMA UntilConstantKeeps ==
  ASSUME JInv, NEW true, true \in BOOLEAN, UntilConstant(true)
  PROVE  Kept
<1> DEFINE n == Len(open)
<1>1. /\ Working /\ open # <<>> /\ Top.node = "do" /\ Top.part = "after" /\ SetPart("tested")
      /\ asm' = IF true THEN asm ELSE asm_goto_end(asm, [id |-> Top.id, place |-> "end"])
      /\ UNCHANGED <<groups, places, labelled, phase>>
  BY DEF UntilConstant, TopIs, Aimed
<1>2. /\ TypeOK /\ Shape /\ phase = "function" /\ ~asm.fault /\ asm \in Machine
      /\ Sound(asm.code, TableOf(asm, open, groups), places, labelled) /\ Len(places) \in Nat
  BY <1>1, Context, Types
<1>3. /\ n \in Nat \ {0} /\ n \in Nat /\ n - 1 \in Nat /\ n \in 1..n
      /\ Top = open[n] /\ Top \in Node
      /\ Len(asm.branches) = n
      /\ NodeOK(Top, asm.branches[n], places) /\ Top.id # ByLabel
      /\ \A k \in 1..(n - 1) : k \in 1..n /\ k # n
      /\ \A k \in 1..n : k \in 1..(n - 1) \/ k = n
  <2>1. /\ n \in Nat \ {0} /\ n \in Nat /\ n - 1 \in Nat /\ n \in 1..n
        /\ Top = open[n] /\ Top \in Node
        /\ Len(asm.branches) = n
        /\ NodeOK(Top, asm.branches[n], places) /\ Top.id # ByLabel
        /\ \A k \in 1..(n - 1) : k \in 1..n /\ k # n
    BY <1>1, <1>2, TopOpen
  <2> HIDE DEF n
  <2>2. \A k \in 1..n : k \in 1..(n - 1) \/ k = n
    BY <2>1
  <2> QED
    BY <2>1, <2>2
<1>4. /\ open' \in Seq(Node) /\ Len(open') = n
      /\ \A k \in 1..(n - 1) : open'[k] = open[k]
      /\ Top' = open'[n] /\ Top'.part = "tested"
      /\ Top'.id = Top.id /\ Top'.node = Top.node /\ Top'.loop = Top.loop
  BY <1>1, <1>2, TopPart
<1>5. BreakAim(Top) = [id |-> Top.id, place |-> "end"]
  BY <1>1, <1>3 DEF NodeOK, BreakAim, Loops, NoLoop, ByLabel
<1>6. /\ asm' \in Machine /\ SameBut({"code", "branches"}, asm, asm')
      /\ Len(asm'.branches) = n
      /\ \A k \in 1..n :
           /\ asm'.branches[k].branch_start = asm.branches[k].branch_start
           /\ asm'.branches[k].curr_jump = asm.branches[k].curr_jump
           /\ asm'.branches[k].is_loop = asm.branches[k].is_loop
      /\ Sound(asm'.code, TableOf(asm', open, groups), places, labelled)
      /\ Arrived(asm.code, places, labelled) => Arrived(asm'.code, places, labelled)
  <2>1. CASE true
    <3>1. asm' = asm
      BY <1>1, <2>1
    <3> QED
      BY <1>2, <1>3, <3>1 DEF SameBut
  <2>2. CASE ~true
    <3>1. asm' = asm_goto_end(asm, BreakAim(Top))
      BY <1>1, <1>5, <2>2
    <3> HIDE DEF n
    <3>2. /\ asm' \in Machine /\ SameBut({"code", "branches"}, asm, asm')
          /\ Len(asm'.branches) = Len(asm.branches)
          /\ \A k \in 1..Len(asm.branches) :
               /\ asm'.branches[k].branch_start = asm.branches[k].branch_start
               /\ asm'.branches[k].curr_jump = asm.branches[k].curr_jump
               /\ asm'.branches[k].is_loop = asm.branches[k].is_loop
          /\ Sound(asm'.code, TableOf(asm', open, groups), places, labelled)
          /\ Arrived(asm.code, places, labelled) => Arrived(asm'.code, places, labelled)
      BY <1>1, <1>2, <3>1, LeaveIs
    <3> QED
      BY <1>3, <3>2
  <2> QED
    BY <2>1, <2>2
<1>7. n = Len(open)
  OBVIOUS
<1> HIDE DEF n
<1>8. \A k \in 1..n : Alike(open[k], open'[k])
  <2>1. Alike(Top, Top')
    BY <1>1, <1>4 DEF Alike
  <2> QED
    BY <1>3, <1>4, <2>1 DEF Alike
<1>9. TableOf(asm', open', groups) = TableOf(asm', open, groups)
  <2>1. Agree(asm', open, asm', open', Len(open)) /\ SameBreaks(asm', asm', Len(open))
    BY <1>7, <1>8 DEF Agree, SameBreaks
  <2> QED
    BY <1>4, <1>7, <2>1, SameWaiting
<1>10. Shape'
  <2>1. Agree(asm, open, asm', open', n - 1)
    BY <1>3, <1>6, <1>8 DEF Agree, SameBut
  <2>2. Around(n - 1)
    BY <1>1, <1>2, <1>3, <1>4, <1>6, <1>7, <2>1 DEF Around
  <2>3. NodeOK(open'[n], asm'.branches[n], places')
    BY <1>1, <1>3, <1>4, <1>6 DEF NodeOK, Loops
  <2> QED
    BY <1>1, <1>4, <1>7, <2>2, <2>3, ShapeTop
<1>11. TypeOK'
  BY <1>1, <1>2, <1>4, <1>6 DEF TypeOK, Node
<1> QED
  BY <1>1, <1>6, <1>9, <1>10, <1>11 DEF Kept, JInv

\* A continue is right in the body of a while, and where there is no loop at all.
LEMMA ContinueKeeps ==
  ASSUME JInv, Continue
  PROVE  JInv' /\ ({"inner", "late"} \cap Forms = {} => Kept)
<1> DEFINE n == Len(open)
           aim == IF InLoop THEN [id |-> Innermost, place |-> "resume"] ELSE NoAim
           D == TableOf(asm, open, groups)
<1>1. /\ Working /\ UNCHANGED <<open, groups, places, labelled, phase>>
      /\ open # <<>> => Top.part \in {"then", "else"}
      /\ Top.node = "while" /\ open # <<>> => Top.part = "then"
      /\ \/ open # <<>> /\ Top.node = "while"
         \/ open # <<>> /\ Top.node \in Loops /\ "late" \in Forms
         \/ InLoop /\ Top.node \notin Loops /\ "inner" \in Forms
         \/ ~InLoop /\ "stray" \in Forms
  BY DEF Continue, InStatements, TopIs
<1>2. PICK wild \in 0..size(asm) : asm' = asm_goto_start(asm, aim, wild)
  BY DEF Continue
<1>3. /\ TypeOK /\ Shape /\ phase = "function" /\ Sound(asm.code, D, places, labelled)
      /\ asm \in Machine /\ D \in Table /\ asm.code \in Seq(Instruction) /\ size(asm) \in Nat
      /\ wild \in Nat
  BY <1>1, Context
<1>4. CASE open = <<>>
  <2>1. asm.branches = <<>>
    <3>1. asm.branches \in Seq(Branch) /\ Len(asm.branches) = Len(open)
      BY <1>3, OpenNodes, Types
    <3> QED
      BY <1>4, <3>1, EmptySeq
  <2>2. asm' = [asm EXCEPT !.fault = TRUE]
    BY <1>2, <2>1 DEF asm_goto_start
  <2>3. asm' \in Machine /\ asm'.code = asm.code /\ asm'.fault = TRUE
    BY <1>3, <2>2 DEF Machine
  <2>4. Kept
    BY <1>1, <1>3, <2>3, FaultKeeps
  <2> QED
    BY <2>4 DEF Kept
<1>5. CASE open # <<>>
  <2>1. /\ n \in 1..n /\ Top = open[n] /\ Top \in Node
        /\ Len(asm.branches) = n /\ asm.branches # <<>>
        /\ NodeOK(Top, asm.branches[n], places)
        /\ Top.id # ByLabel
    BY <1>3, <1>5, TopOpen
  <2>2. Innermost = Top.loop /\ InLoop = (Top.loop # NoLoop)
    BY <1>5 DEF InLoop, Innermost
  <2>3. aim \in Aim /\ Aimable(places, aim) /\ (aim = NoAim \/ Resumes(aim)) /\ (InLoop \/ aim = NoAim)
    <3>1. CASE ~InLoop
      BY <3>1, AimsAreAims DEF Aimable
    <3>2. CASE InLoop
      <4>1. PICK j \in 1..n : open[j].id = Top.loop
        BY <1>3, <2>1, <2>2, <3>2, OpenNodes
      <4>2. open[j].id \in 2..Len(places) /\ Len(places) \in Nat /\ open[j].id \in Nat
        BY <1>3, OpenNodes, Types
      <4>3. Innermost \in 1..Len(places) /\ Innermost \in Nat /\ Innermost # 0
        BY <2>2, <4>1, <4>2
      <4>4. aim = [id |-> Innermost, place |-> "resume"]
        BY <3>2
      <4> HIDE DEF aim
      <4> QED
        BY <3>2, <4>3, <4>4, AimsAreAims DEF Aimable, Resumes, ByLabel
    <3> QED
      BY <3>1, <3>2
  <2> DEFINE start == asm.branches[n].branch_start
             ins == [op |-> "jmp", to |-> IF start = Nowhere THEN wild ELSE start, aim |-> aim]
  <2>4. start \in Nat \cup {Nowhere}
    BY <2>1 DEF NodeOK
  <2>5. /\ asm' \in Machine /\ SameBut({"code"}, asm, asm')
        /\ ins \in Instruction /\ asm'.code = Append(asm.code, ins)
    <3> HIDE DEF aim, n
    <3>1. LET s == asm.branches[Len(asm.branches)].branch_start
              i == [op |-> "jmp", to |-> IF s = Nowhere THEN wild ELSE s, aim |-> aim]
              r == asm_goto_start(asm, aim, wild)
          IN /\ r \in Machine /\ SameBut({"code"}, asm, r)
             /\ i \in Instruction /\ r.code = Append(asm.code, i)
      BY <1>3, <2>1, <2>3, <2>4, GotoStartIs
    <3> QED
      BY <1>2, <2>1, <3>1
  <2>6. TableOf(asm', open, groups) = D
    BY <2>5, SameTable
  <2>7. ins.aim = aim /\ ins.to = IF start = Nowhere THEN wild ELSE start
    OBVIOUS
  <2>8. {"inner", "late"} \cap Forms = {} => KnownTo(ins, places, labelled)
    <3> SUFFICES ASSUME {"inner", "late"} \cap Forms = {}
                 PROVE  KnownTo(ins, places, labelled)
      OBVIOUS
    <3>1. CASE ~InLoop
      BY <2>3, <2>7, <3>1 DEF KnownTo
    <3>2. CASE InLoop
      <4>1. Top.node = "while" /\ Top.part = "then"
        BY <1>1, <1>5, <3>2
      <4>2. /\ places[Top.id].resume = places[Top.id].start /\ places[Top.id].start # Nowhere
            /\ start = places[Top.id].start /\ Top.loop = Top.id
        BY <2>1, <4>1 DEF NodeOK, Loops
      <4>3. aim = [id |-> Top.id, place |-> "resume"] /\ aim # NoAim
        BY <2>1, <2>2, <3>2, <4>2 DEF NoAim
      <4>4. TargetIn(places, labelled, aim) = places[Top.id].start
        BY <2>1, <4>2, <4>3 DEF TargetIn
      <4> HIDE DEF ins, aim
      <4> QED
        BY <2>7, <4>2, <4>4 DEF KnownTo
    <3> QED
      BY <3>1, <3>2
  <2> HIDE DEF ins, aim, D, start, n
  <2>9. /\ Sound(asm'.code, D, places, labelled)
        /\ Arrived(asm.code, places, labelled) =>
             (KnownTo(ins, places, labelled) => Arrived(asm'.code, places, labelled))
    <3>1. KnownEmit(asm.code, D, places, labelled, ins, asm'.code)
      BY <1>3, <2>3, <2>5, <2>7 DEF KnownEmit
    <3> QED
      BY <3>1, EmittedKnown
  <2>10. Shape'
    BY <1>1, <1>3, <2>5, ShapeKept DEF SameBut
  <2>11. TypeOK'
    BY <1>1, <1>3, <2>5 DEF TypeOK
  <2>12. JInv'
    BY <1>1, <2>6, <2>9, <2>10, <2>11 DEF JInv, D
  <2> QED
    BY <1>1, <2>8, <2>9, <2>12 DEF Kept
<1> QED
  BY <1>4, <1>5

-----------------------------------------------------------------------------
(* Functions begin and end.                                                *)

\* Between functions nothing is left of the last.
LEMMA NothingLeft ==
  ASSUME TypeOK, Shape, open = <<>>, groups = <<>>
  PROVE  asm.branches = <<>> /\ asm.shortcircuits = <<>>
<1>1. Len(<<>>) = 0
  BY EmptySeq
<1>2. /\ Len(asm.branches) = 0 /\ Len(asm.shortcircuits) = 0
      /\ asm.branches \in Seq(Branch) /\ asm.shortcircuits \in Seq(Seq(Nat))
  BY <1>1, Types DEF Shape, NodesOK, GroupsOK
<1> QED
  BY <1>2, EmptySeq

\* Nothing waits where all stacks are empty.
LEMMA NothingWaits ==
  ASSUME NEW m, m.returns = <<>>, \A l \in Labels : m.goto_labels[l].waiting = <<>>
  PROVE  \A a : Waiting(m, <<>>, <<>>, a) = {}
<1>1. Len(<<>>) = 0 /\ 1..0 = {}
  BY EmptySeq
<1>2. \A a : OfReturns(m.returns, a) = {} /\ OfLabels(m.goto_labels, a) = {}
  BY ToSetEmpty DEF OfReturns, OfLabels
<1>3. \A a : /\ OfGroups(m.shortcircuits, <<>>, Len(<<>>), a) = {}
             /\ OfBreaks(m.branches, <<>>, Len(<<>>), a) = {}
             /\ OfConditions(m.branches, <<>>, Len(<<>>), a) = {}
  BY <1>1 DEF OfGroups, OfBreaks, OfConditions
<1> QED
  BY <1>2, <1>3 DEF Waiting

LEMMA StartKeeps ==
  ASSUME JInv, Start
  PROVE  Kept
<1>1. /\ phase = "idle" /\ ~asm.fault /\ phase' = "function"
      /\ asm' = [asm EXCEPT !.code = <<>>, !.goto_labels = NoLabels]
      /\ places' = <<NoPlaces>> /\ labelled' = [l \in Labels |-> Nowhere]
      /\ UNCHANGED <<open, groups>>
  BY DEF Start, asm_func
<1>2. TypeOK /\ Shape /\ open = <<>> /\ groups = <<>> /\ asm.returns = <<>> /\ asm \in Machine
  BY <1>1, Types DEF JInv, Shape, PhaseOK
<1>3. asm.branches = <<>> /\ asm.shortcircuits = <<>>
  BY <1>2, NothingLeft
<1>4. NoLabels \in [Labels -> [position : Int, waiting : Seq(Nat)]]
      /\ \A l \in Labels : NoLabels[l].position = Nowhere /\ NoLabels[l].waiting = <<>>
  <2>1. <<>> \in Seq(Nat)
    BY EmptySeq
  <2> QED
    BY <2>1 DEF NoLabels, Nowhere
<1>5. /\ asm' \in Machine /\ asm'.code = <<>> /\ asm'.goto_labels = NoLabels
      /\ asm'.returns = <<>> /\ asm'.branches = <<>> /\ asm'.shortcircuits = <<>> /\ ~asm'.fault
  <2>1. <<>> \in Seq(Instruction)
    BY EmptySeq
  <2> HIDE DEF NoLabels
  <2> QED
    BY <1>1, <1>2, <1>3, <1>4, <2>1 DEF Machine
<1>6. /\ places' \in Seq(Places) /\ Len(places') = 1 /\ places'[1].end = Nowhere
  <2>1. NoPlaces \in Places /\ NoPlaces.end = Nowhere
    BY DEF NoPlaces, Places, Nowhere
  <2> HIDE DEF NoPlaces
  <2> QED
    BY <1>1, <2>1
<1>7. labelled' \in [Labels -> Int] /\ \A l \in Labels : labelled'[l] = Nowhere
  BY <1>1 DEF Nowhere
<1>8. TypeOK'
  BY <1>1, <1>2, <1>5, <1>6, <1>7 DEF TypeOK
<1>9. Len(<<>>) = 0 /\ 1..0 = {} /\ open' = <<>> /\ groups' = <<>>
  BY <1>1, <1>2, EmptySeq
<1>10. Shape'
  <2>1. NodesOK(asm.branches, open, places)'
    BY <1>5, <1>9 DEF NodesOK
  <2>2. GroupsOK(asm.shortcircuits, groups, open, places)'
    BY <1>5, <1>9 DEF GroupsOK
  <2>3. LabelsOK(asm.goto_labels, labelled)'
    BY <1>4, <1>5, <1>7 DEF LabelsOK
  <2>4. PhaseOK'
    BY <1>1, <1>6 DEF PhaseOK, Function
  <2> QED
    BY <2>1, <2>2, <2>3, <2>4 DEF Shape
<1>11. Sound(asm.code, TableOf(asm, open, groups), places, labelled)'
  <2>1. \A a : Waiting(asm', <<>>, <<>>, a) = {}
    BY <1>4, <1>5, NothingWaits
  <2>2. \A a \in Aim : TableOf(asm', <<>>, <<>>)[a] = {}
    BY <2>1 DEF TableOf
  <2> QED
    BY <1>5, <1>9, <2>2 DEF Sound
<1>12. Arrived(asm.code, places, labelled)'
  BY <1>5, <1>9 DEF Arrived
<1> QED
  BY <1>8, <1>10, <1>11, <1>12 DEF Kept, JInv

LEMMA FuncEndIs ==
  ASSUME NEW m, m \in Machine
  PROVE  LET r == asm_func_end(m)
         IN /\ r \in Machine /\ SameBut({"code", "returns"}, m, r) /\ r.returns = <<>>
            /\ r.code = PatchedCode(m.code, ToSet(m.returns), size(m))
<1> DEFINE p == Patched(m, ToSet(m.returns))
           r == asm_func_end(m)
<1>1. /\ p \in Machine /\ SameBut({"code"}, m, p)
      /\ p.code = PatchedCode(m.code, ToSet(m.returns), size(m))
  BY PatchedIs
<1>2. r = [p EXCEPT !.returns = <<>>]
  BY DEF asm_func_end
<1>3. <<>> \in Seq(Nat)
  BY EmptySeq
<1> HIDE DEF p, r
<1>4. /\ r \in Machine /\ SameBut({"code", "returns"}, m, r) /\ r.returns = <<>> /\ r.code = p.code
  BY <1>1, <1>2, <1>3 DEF Machine, SameBut
<1> QED
  BY <1>1, <1>4 DEF r

LEMMA FinishKeeps ==
  ASSUME JInv, Finish
  PROVE  Kept
<1> DEFINE x == FunctionEnd
           D == TableOf(asm, open, groups)
           E == TableOf(asm', open, groups)
           v == size(asm)
           S == ToSet(asm.returns)
<1>1. /\ Working /\ open = <<>> /\ NoGroup
      /\ asm' = asm_func_end(asm) /\ phase' = "idle"
      /\ places' = [places EXCEPT ![Function]["end"] = v]
      /\ UNCHANGED <<open, groups, labelled>>
  BY DEF Finish
<1>2. /\ TypeOK /\ Shape /\ phase = "function" /\ ~asm.fault
      /\ Sound(asm.code, D, places, labelled)
      /\ D \in Table /\ \A a \in Aim : D[a] = Waiting(asm, open, groups, a)
      /\ asm \in Machine /\ v \in Nat /\ asm.code \in Seq(Instruction) /\ places \in Seq(Places)
      /\ asm.returns \in Seq(Nat) /\ groups \in Seq(Group) /\ Len(places) \in Nat
  BY <1>1, Context, Types
<1>3. groups = <<>>
  <2> SUFFICES ASSUME groups # <<>>
               PROVE  FALSE
    OBVIOUS
  <2>1. Len(open) = 0
    BY <1>1, EmptySeq
  <2>2. Last(groups) = groups[Len(groups)] /\ Len(groups) \in 1..Len(groups) /\ Last(groups) \in Group
    BY <1>2, FrontAndLast
  <2>3. Last(groups).depth <= 0
    BY <1>2, <2>1, <2>2 DEF Shape, GroupsOK
  <2>4. Last(groups).depth # 0
    BY <1>1, <2>1 DEF NoGroup
  <2>5. Last(groups).depth \in Nat
    BY <2>2 DEF Group
  <2> QED
    BY <2>3, <2>4, <2>5
<1>4. /\ Waiting(asm, open, groups, x) = S
      /\ OfLabels(asm.goto_labels, x) = {}
      /\ OfGroups(asm.shortcircuits, groups, Len(groups), x) = {}
      /\ OfBreaks(asm.branches, open, Len(open), x) = {}
      /\ OfConditions(asm.branches, open, Len(open), x) = {}
  BY <1>2, WaitsForEnd
<1>5. /\ asm' \in Machine /\ SameBut({"code", "returns"}, asm, asm') /\ asm'.returns = <<>>
      /\ asm'.code = PatchedCode(asm.code, S, v)
  BY <1>1, <1>2, FuncEndIs
<1>6. E \in Table /\ \A a \in Aim : E[a] = Waiting(asm', open, groups, a)
  BY <1>5, WaitingIsTable
<1>7. x.id = Function /\ x.place = "end" /\ x = [id |-> x.id, place |-> x.place] /\ x \in Aim
  BY AimsAreAims DEF FunctionEnd
<1>8. Function \in 1..Len(places) /\ places[Function]["end"] = Nowhere
  BY <1>2 DEF Shape, PhaseOK, Function
<1>9. S \subseteq Nat
  BY <1>2, ToSetIs
<1>14. x = FunctionEnd
  OBVIOUS
<1> HIDE DEF x, D, E, v, S
<1>10. /\ Sound(asm'.code, Cleared(D, x), places', labelled) /\ Cleared(D, x) \in Table
       /\ Arrived(asm.code, places, labelled) => Arrived(asm'.code, places', labelled)
       /\ \A a \in Aim : Cleared(D, x)[a] = IF a = x THEN {} ELSE D[a]
  <2>1. D[x] = S \cap Nat
    BY <1>2, <1>4, <1>7, <1>9
  <2>2. Reaches(asm.code, D, places, x, v, places', S)
    BY <1>1, <1>2, <1>7, <1>8, <2>1 DEF Reaches
  <2>3. LET d == PatchedCode(asm.code, S, v)
        IN /\ Cleared(D, x) \in Table /\ Sound(d, Cleared(D, x), places', labelled)
           /\ Arrived(asm.code, places, labelled) => Arrived(d, places', labelled)
    BY <1>2, <2>2, ReachedPlace
  <2>4. \A a \in Aim : Cleared(D, x)[a] = IF a = x THEN {} ELSE D[a]
    BY DEF Cleared
  <2> QED
    BY <1>5, <2>3, <2>4
<1>11. E = Cleared(D, x)
  <2>1. ASSUME NEW a \in Aim
        PROVE  E[a] = Cleared(D, x)[a]
    <3>1. E[a] = Waiting(asm', open, groups, a) /\ D[a] = Waiting(asm, open, groups, a)
      BY <1>2, <1>6
    <3>2. CASE a = x
      <4>1. OfReturns(asm'.returns, x) = {}
        BY <1>5, ToSetEmpty DEF OfReturns
      <4>2. Waiting(asm', open, groups, x) = {}
        BY <1>4, <1>5, <4>1 DEF Waiting, SameBut
      <4> QED
        BY <1>7, <1>10, <3>1, <3>2, <4>2
    <3>3. CASE a # x
      <4>1. OfReturns(asm'.returns, a) = {} /\ OfReturns(asm.returns, a) = {}
        BY <1>14, <3>3 DEF OfReturns
      <4>2. Waiting(asm', open, groups, a) = Waiting(asm, open, groups, a)
        BY <1>5, <4>1 DEF Waiting, SameBut
      <4> QED
        BY <1>10, <3>1, <3>3, <4>2
    <3> QED
      BY <3>2, <3>3
  <2> QED
    BY <1>6, <1>10, <2>1, SameFunction
<1>12. places' \in Seq(Places) /\ Len(places') = Len(places)
  <2>1. WithPlace(places, Function, "end", v, places')
    BY <1>1, <1>2, <1>8 DEF WithPlace, PlaceNames
  <2> QED
    BY <2>1, PlacesWith
<1>13. Shape'
  <2>1. Len(<<>>) = 0 /\ 1..0 = {} /\ open' = <<>> /\ groups' = <<>>
    BY <1>1, <1>3, EmptySeq
  <2>2. asm'.branches = <<>> /\ asm'.shortcircuits = <<>>
    BY <1>1, <1>2, <1>3, <1>5, NothingLeft DEF SameBut
  <2>3. NodesOK(asm.branches, open, places)'
    BY <2>1, <2>2 DEF NodesOK
  <2>4. GroupsOK(asm.shortcircuits, groups, open, places)'
    BY <2>1, <2>2 DEF GroupsOK
  <2>5. LabelsOK(asm.goto_labels, labelled)'
    BY <1>1, <1>2, <1>5 DEF Shape, LabelsOK, SameBut
  <2>6. PhaseOK'
    BY <1>1, <1>5, <2>1 DEF PhaseOK
  <2> QED
    BY <2>3, <2>4, <2>5, <2>6 DEF Shape
<1>15. TypeOK'
  BY <1>1, <1>2, <1>5, <1>12 DEF TypeOK
<1> QED
  BY <1>1, <1>10, <1>11, <1>13, <1>15 DEF Kept, JInv, E

LEMMA FirstIsSound ==
  ASSUME Init
  PROVE  JInv /\ Arrived(asm.code, places, labelled)
<1>1. /\ asm = [code |-> <<>>, branches |-> <<>>, shortcircuits |-> <<>>, returns |-> <<>>,
                goto_labels |-> NoLabels, fault |-> FALSE]
      /\ open = <<>> /\ groups = <<>> /\ places = <<>> /\ phase = "idle"
      /\ labelled = [l \in Labels |-> Nowhere]
  BY DEF Init
<1>2. NoLabels \in [Labels -> [position : Int, waiting : Seq(Nat)]]
      /\ \A l \in Labels : NoLabels[l].position = Nowhere /\ NoLabels[l].waiting = <<>>
  <2>1. <<>> \in Seq(Nat)
    BY EmptySeq
  <2> QED
    BY <2>1 DEF NoLabels, Nowhere
<1>3. \A S : <<>> \in Seq(S)
  BY EmptySeq
<1>4. Len(<<>>) = 0 /\ 1..0 = {}
  BY EmptySeq
<1> HIDE DEF NoLabels
<1>5. asm \in Machine
  BY <1>1, <1>2, <1>3 DEF Machine
<1>6. labelled \in [Labels -> Int] /\ \A l \in Labels : labelled[l] = Nowhere
  BY <1>1 DEF Nowhere
<1>7. TypeOK
  BY <1>1, <1>3, <1>5, <1>6 DEF TypeOK
<1>8. Shape
  <2>1. NodesOK(asm.branches, open, places) /\ GroupsOK(asm.shortcircuits, groups, open, places)
    BY <1>1, <1>4 DEF NodesOK, GroupsOK
  <2>2. LabelsOK(asm.goto_labels, labelled)
    BY <1>1, <1>2, <1>6 DEF LabelsOK
  <2>3. PhaseOK
    BY <1>1 DEF PhaseOK
  <2> QED
    BY <2>1, <2>2, <2>3 DEF Shape
<1>9. Sound(asm.code, TableOf(asm, open, groups), places, labelled)
  <2>1. \A a : Waiting(asm, <<>>, <<>>, a) = {}
    BY <1>1, <1>2, NothingWaits
  <2>2. \A a \in Aim : TableOf(asm, <<>>, <<>>)[a] = {}
    BY <2>1 DEF TableOf
  <2> QED
    BY <1>1, <1>4, <2>2 DEF Sound
<1>10. Arrived(asm.code, places, labelled)
  BY <1>1, <1>4 DEF Arrived
<1> QED
  BY <1>7, <1>8, <1>9, <1>10 DEF JInv

-----------------------------------------------------------------------------
(* Nodes that go on to their other branch, and nodes that end.              *)

\* What waits for the places of a condition that is being assembled.
LEMMA AtCondition ==
  ASSUME TypeOK, Shape, open # <<>>, Top.node \notin Loops
  PROVE  LET n == Len(open)
             x == [id |-> Top.id, place |-> "other"]
             y == [id |-> Top.id, place |-> "end"]
         IN /\ x \in Aim /\ y \in Aim /\ x # y /\ x # BreakAim(Top) /\ y # BreakAim(Top)
            /\ Below(asm, open, groups, n - 1, x) = {} /\ Below(asm, open, groups, n - 1, y) = {}
            /\ Aimable(places, x) /\ ~Resumes(x) /\ Aimable(places, y) /\ ~Resumes(y)
            /\ TargetIn(places, labelled, x) = places[Top.id].other
            /\ TargetIn(places, labelled, y) = places[Top.id].end
<1> DEFINE n == Len(open)
           x == [id |-> Top.id, place |-> "other"]
           y == [id |-> Top.id, place |-> "end"]
<1>1. /\ x \in Aim /\ x # NoAim /\ Below(asm, open, groups, n - 1, x) = {}
      /\ x = BreakAim(Top) <=> Top.node \in Loops /\ "other" = "end"
  BY NoneBelow
<1>2. /\ y \in Aim /\ y # NoAim /\ Below(asm, open, groups, n - 1, y) = {}
      /\ y = BreakAim(Top) <=> Top.node \in Loops /\ "end" = "end"
  BY NoneBelow
<1>3. Top.id \in 1..Len(places) /\ Top.id # ByLabel
  BY TopOpen
<1>4. x # BreakAim(Top) /\ y # BreakAim(Top) /\ x # y
  BY <1>1, <1>2
<1>5. Aimable(places, x) /\ ~Resumes(x) /\ Aimable(places, y) /\ ~Resumes(y)
  BY <1>3 DEF Aimable, Resumes
<1>6. /\ TargetIn(places, labelled, x) = places[Top.id].other
      /\ TargetIn(places, labelled, y) = places[Top.id].end
  BY <1>1, <1>2, <1>3 DEF TargetIn
<1> QED
  BY <1>1, <1>2, <1>4, <1>5, <1>6

LEMMA ElseKeeps ==
  ASSUME JInv, Else
  PROVE  Kept
<1> DEFINE n == Len(open)
           x == [id |-> Top.id, place |-> "other"]
           y == [id |-> Top.id, place |-> "end"]
           v == size(asm) + 1
           ins == [op |-> "jmp", to |-> v, aim |-> y]
           D == TableOf(asm, open, groups)
           E == TableOf(asm', open', groups)
           F == Added(D, y, v)
           G == Cleared(F, x)
           top == asm.branches[n]
           S == {top.curr_jump}
           c == Append(asm.code, ins)
<1>1. /\ Working /\ open # <<>> /\ Top.part = "then" /\ Top.node \in {"if", "?:"} /\ Top.node \notin Loops
      /\ asm' = asm_else(asm, y) /\ SetPart("else") /\ UNCHANGED <<groups, labelled, phase>>
      /\ places' = [places EXCEPT ![x.id][x.place] = v]
  BY DEF Else, TopIs, Aimed, Loops, Reached
<1>2. /\ TypeOK /\ Shape /\ phase = "function" /\ ~asm.fault /\ asm \in Machine
      /\ Sound(asm.code, D, places, labelled)
      /\ D \in Table /\ asm.code \in Seq(Instruction) /\ size(asm) \in Nat /\ size(asm) = Len(asm.code)
      /\ v \in Nat /\ v = Len(asm.code) + 1 /\ places \in Seq(Places)
      /\ \A a \in Aim : D[a] = Waiting(asm, open, groups, a)
  BY <1>1, Context, Types
<1>3. /\ n \in Nat \ {0} /\ n \in Nat /\ n - 1 \in Nat /\ n \in 1..n
      /\ Top = open[n] /\ Top \in Node
      /\ Len(asm.branches) = n /\ asm.branches # <<>>
      /\ NodeOK(Top, asm.branches[n], places)
      /\ Top.id \in 1..Len(places) /\ Top.id # ByLabel
      /\ \A k \in 1..(n - 1) : k \in 1..n /\ k # n
  BY <1>1, <1>2, TopOpen
<1>4. /\ open' \in Seq(Node) /\ Len(open') = n
      /\ \A k \in 1..(n - 1) : open'[k] = open[k]
      /\ Top' = open'[n] /\ Top'.part = "else"
      /\ Top'.id = Top.id /\ Top'.node = Top.node /\ Top'.loop = Top.loop
  BY <1>1, <1>2, TopPart
<1>5. /\ x \in Aim /\ y \in Aim /\ x # y /\ x # BreakAim(Top) /\ y # BreakAim(Top)
      /\ Below(asm, open, groups, n - 1, x) = {} /\ Below(asm, open, groups, n - 1, y) = {}
      /\ Aimable(places, x) /\ ~Resumes(x) /\ Aimable(places, y) /\ ~Resumes(y)
      /\ TargetIn(places, labelled, x) = places[Top.id].other
      /\ TargetIn(places, labelled, y) = places[Top.id].end
  BY <1>1, <1>2, AtCondition
<1>6. places[Top.id].other = Nowhere /\ places[Top.id].end = Nowhere
  BY <1>1, <1>3 DEF NodeOK
<1>7. /\ asm' \in Machine /\ SameBut({"code", "branches"}, asm, asm')
      /\ ins \in Instruction /\ asm'.code = PatchedCode(c, S, v)
      /\ Jumping(asm, asm', v)
  <2>1. LET r == asm_else(asm, y)
            jump == asm.branches[Len(asm.branches)].curr_jump
        IN /\ r \in Machine /\ SameBut({"code", "branches"}, asm, r)
           /\ ins \in Instruction
           /\ r.code = PatchedCode(Append(asm.code, ins), {jump}, size(asm) + 1)
           /\ Jumping(asm, r, size(asm) + 1)
    BY <1>2, <1>3, <1>5, ElseIs
  <2> HIDE DEF ins, y
  <2> QED
    BY <1>1, <1>3, <2>1
<1>8. E \in Table /\ \A a \in Aim : E[a] = Waiting(asm', open', groups, a)
  BY <1>7, WaitingIsTable
<1>0. places' = [places EXCEPT ![Top.id]["other"] = v]
  BY <1>1
<1>9. /\ ins.aim = y /\ ins.op # "op" /\ n = Len(open) /\ c = Append(asm.code, ins)
      /\ x.id = Top.id /\ x.place = "other" /\ x = [id |-> x.id, place |-> x.place]
      /\ top = asm.branches[n] /\ S = {top.curr_jump}
  OBVIOUS
<1>10. ConditionAim(open[n]) = x /\ ConditionAim(open'[n]) = y /\ BreakAim(open'[n]) = BreakAim(Top)
  BY <1>1, <1>3, <1>4 DEF ConditionAim, BreakAim
<1> HIDE DEF ins, x, y, v, D, E, n, c, top, S
<1>11. /\ c \in Seq(Instruction) /\ F \in Table /\ Sound(c, F, places, labelled)
       /\ Arrived(asm.code, places, labelled) => Arrived(c, places, labelled)
       /\ \A a \in Aim : F[a] = IF a = y THEN D[a] \cup {v} ELSE D[a]
  <2>1. Waits(asm.code, D, places, labelled, ins)
    BY <1>2, <1>5, <1>6, <1>7, <1>9 DEF Waits
  <2>2. \A a \in Aim : F[a] = IF a = y THEN D[a] \cup {v} ELSE D[a]
    BY DEF Added
  <2>3. LET d == Append(asm.code, ins)
            H == Added(D, ins.aim, Len(asm.code) + 1)
        IN /\ d \in Seq(Instruction) /\ H \in Table /\ Sound(d, H, places, labelled)
           /\ Arrived(asm.code, places, labelled) => Arrived(d, places, labelled)
    BY <2>1, Waited
  <2> QED
    BY <1>2, <1>9, <2>2, <2>3
<1>12. \A a \in Aim : D[a] = (Below(asm, open, groups, n - 1, a)
                                \cup (IF a = BreakAim(Top) THEN ToSet(top.end_stack) \cap Nat ELSE {}))
                               \cup (IF a = x THEN S \cap Nat ELSE {})
  <2> SUFFICES ASSUME NEW a \in Aim
               PROVE  D[a] = (Below(asm, open, groups, n - 1, a)
                                \cup (IF a = BreakAim(Top) THEN ToSet(top.end_stack) \cap Nat ELSE {}))
                               \cup (IF a = x THEN S \cap Nat ELSE {})
    OBVIOUS
  <2>1. Tops(open, n - 1, n)
    BY <1>3, <1>9 DEF Tops, Preceding
  <2>2. Waiting(asm, open, groups, a) =
          Below(asm, open, groups, n - 1, a) \cup OfTop(asm.branches[n], open[n], a)
    BY <2>1, WaitingSplit
  <2>3. OfTop(asm.branches[n], open[n], a) =
          (IF a = BreakAim(Top) THEN ToSet(top.end_stack) \cap Nat ELSE {})
            \cup (IF a = x THEN S \cap Nat ELSE {})
    BY <1>1, <1>3, <1>9, <1>10 DEF OfTop
  <2> QED
    BY <1>2, <2>2, <2>3
<1>13. F[x] = S \cap Nat
  BY <1>5, <1>11, <1>12
<1> HIDE DEF F
<1>14. /\ Sound(asm'.code, G, places', labelled) /\ G \in Table
       /\ Arrived(asm.code, places, labelled) => Arrived(asm'.code, places', labelled)
       /\ \A a \in Aim : G[a] = IF a = x THEN {} ELSE F[a]
  <2>1. Reaches(c, F, places, x, v, places', S)
    BY <1>1, <1>2, <1>3, <1>6, <1>9, <1>11, <1>13 DEF Reaches
  <2>2. LET d == PatchedCode(c, S, v)
        IN /\ Cleared(F, x) \in Table /\ Sound(d, Cleared(F, x), places', labelled)
           /\ Arrived(c, places, labelled) => Arrived(d, places', labelled)
    BY <1>11, <2>1, ReachedPlace
  <2>3. \A a \in Aim : G[a] = IF a = x THEN {} ELSE F[a]
    BY DEF Cleared
  <2> QED
    BY <1>7, <1>11, <2>2, <2>3
<1> HIDE DEF G
<1>15. Agree(asm, open, asm', open', n - 1) /\ SameBreaks(asm, asm', n - 1)
  <2>1. \A k \in 1..(n - 1) : Alike(open[k], open'[k])
    BY <1>4 DEF Alike
  <2>2. \A k \in 1..(n - 1) :
          /\ asm'.branches[k].end_stack = asm.branches[k].end_stack
          /\ asm'.branches[k].branch_start = asm.branches[k].branch_start
          /\ asm'.branches[k].is_loop = asm.branches[k].is_loop
          /\ asm'.branches[k].curr_jump = asm.branches[k].curr_jump
    BY <1>3, <1>7 DEF Jumping
  <2> QED
    BY <1>7, <2>1, <2>2 DEF Agree, SameBreaks, SameBut
<1>16. ASSUME NEW a \in Aim
       PROVE  E[a] = G[a]
  <2>1. Tops(open', n - 1, n)
    BY <1>3, <1>4, <1>9 DEF Tops, Preceding
  <2>2. Waiting(asm', open', groups, a) =
          Below(asm', open', groups, n - 1, a) \cup OfTop(asm'.branches[n], open'[n], a)
    BY <2>1, WaitingSplit
  <2>3. Below(asm', open', groups, n - 1, a) = Below(asm, open, groups, n - 1, a)
    BY <1>15, BelowSame
  <2>4. OfTop(asm'.branches[n], open'[n], a) =
          (IF a = BreakAim(Top) THEN ToSet(top.end_stack) \cap Nat ELSE {})
            \cup (IF a = y THEN {v} ELSE {})
    <3>1. /\ asm'.branches[n].end_stack = top.end_stack
          /\ asm'.branches[n].curr_jump = v
      BY <1>3, <1>7, <1>9 DEF Jumping
    <3>2. open'[n].part # "when"
      BY <1>4
    <3> QED
      BY <1>2, <1>10, <3>1, <3>2 DEF OfTop
  <2>5. /\ E[a] = Waiting(asm', open', groups, a)
        /\ G[a] = IF a = x THEN {} ELSE F[a]
        /\ F[a] = IF a = y THEN D[a] \cup {v} ELSE D[a]
        /\ D[a] = (Below(asm, open, groups, n - 1, a)
                     \cup (IF a = BreakAim(Top) THEN ToSet(top.end_stack) \cap Nat ELSE {}))
                    \cup (IF a = x THEN S \cap Nat ELSE {})
    BY <1>8, <1>11, <1>12, <1>14
  <2> QED
    BY <1>5, <2>2, <2>3, <2>4, <2>5
<1>17. E = G
  BY <1>8, <1>14, <1>16, SameFunction
<1>18. /\ places' \in Seq(Places) /\ Len(places') = Len(places)
       /\ \A i \in 1..Len(places) : i # Top.id => places'[i] = places[i]
       /\ places'[Top.id].end = Nowhere
       /\ places'[Top.id].start = places[Top.id].start
  <2>4. places' = [places EXCEPT ![Top.id]["other"] = v] /\ v \in Int /\ places \in Seq(Places)
    BY <1>0, <1>2
  <2>1. WithPlace(places, Top.id, "other", v, places')
    BY <1>3, <2>4 DEF WithPlace, PlaceNames
  <2>2. \A i \in 1..Len(places) : i # Top.id => places'[i] = places[i]
    BY <1>1, <1>2, <1>9, Types
  <2>3. /\ places' \in Seq(Places) /\ Len(places') = Len(places)
        /\ \A j \in 1..Len(places), q \in PlaceNames :
             places'[j][q] = IF j = Top.id /\ q = "other" THEN v ELSE places[j][q]
    BY <2>1, PlacesWith
  <2> QED
    BY <1>3, <1>6, <2>2, <2>3 DEF PlaceNames
<1>19. Shape'
  <2>1. Around(n - 1)
    BY <1>1, <1>2, <1>3, <1>4, <1>7, <1>9, <1>15, <1>18, Types DEF Around, Jumping
  <2>2. NodeOK(open'[n], asm'.branches[n], places')
    <3>1. /\ asm'.branches[n].branch_start = asm.branches[n].branch_start
          /\ asm'.branches[n].is_loop = asm.branches[n].is_loop
      BY <1>3, <1>7 DEF Jumping
    <3> QED
      BY <1>1, <1>3, <1>4, <1>18, <3>1 DEF NodeOK, Loops
  <2> QED
    BY <1>1, <1>4, <1>9, <1>18, <2>1, <2>2, ShapeTop
<1>20. TypeOK'
  BY <1>1, <1>2, <1>4, <1>7, <1>18 DEF TypeOK, Node
<1> QED
  BY <1>1, <1>14, <1>17, <1>19, <1>20 DEF Kept, JInv, E

\* The node on top has ended, and S is what the branch below gets of its breaks.
Popped(S) ==
  LET n == Len(open)
  IN /\ TypeOK /\ Shape /\ phase = "function" /\ NoGroup /\ open # <<>>
     /\ open' = Front(open) /\ UNCHANGED <<groups, labelled, phase>>
     /\ asm' \in Machine /\ SameBut({"code", "branches", "fault"}, asm, asm')
     /\ places' \in Seq(Places) /\ Len(places') = Len(places)
     /\ \A i \in 1..Len(places) : i # Top.id => places'[i] = places[i]
     /\ Len(asm'.branches) = n - 1
     /\ Top.node \notin Loops /\ n = 1 => S = {}
     /\ \A k \in 1..(n - 1) :
          /\ asm'.branches[k].branch_start = asm.branches[k].branch_start
          /\ asm'.branches[k].is_loop = asm.branches[k].is_loop
          /\ asm'.branches[k].curr_jump = asm.branches[k].curr_jump
          /\ ToSet(asm'.branches[k].end_stack) =
               ToSet(asm.branches[k].end_stack) \cup (IF Top.node \notin Loops /\ k = n - 1 THEN S ELSE {})

LEMMA PoppedIs ==
  ASSUME NEW S, Popped(S)
  PROVE  LET n == Len(open)
         IN /\ Shape' /\ TypeOK'
            /\ \A a \in Aim : TableOf(asm', open', groups')[a] =
                 Below(asm, open, groups, n - 1, a)
                   \cup (IF Top.node \notin Loops /\ a = BreakAim(Top) THEN S \cap Nat ELSE {})
<1> DEFINE n == Len(open)
<1>1. /\ TypeOK /\ Shape /\ phase = "function" /\ NoGroup /\ open # <<>>
      /\ open' = Front(open) /\ UNCHANGED <<groups, labelled, phase>>
      /\ asm' \in Machine /\ SameBut({"code", "branches", "fault"}, asm, asm')
      /\ places' \in Seq(Places) /\ Len(places') = Len(places)
      /\ \A i \in 1..Len(places) : i # Top.id => places'[i] = places[i]
      /\ Len(asm'.branches) = n - 1
  BY DEF Popped
<1>2. /\ n \in Nat \ {0} /\ n \in Nat /\ n - 1 \in Nat /\ Top = open[n]
      /\ open \in Seq(Node) /\ Len(places) \in Nat
  BY <1>1, TopOpen, Types
<1>3. /\ open' \in Seq(Node) /\ Len(open') = n - 1
      /\ \A k \in 1..(n - 1) : open'[k] = open[k]
  BY <1>1, <1>2, FrontAndLast
<1>4. /\ Top.node \notin Loops /\ n = 1 => S = {}
      /\ \A k \in 1..(n - 1) :
           /\ asm'.branches[k].branch_start = asm.branches[k].branch_start
           /\ asm'.branches[k].is_loop = asm.branches[k].is_loop
           /\ asm'.branches[k].curr_jump = asm.branches[k].curr_jump
           /\ ToSet(asm'.branches[k].end_stack) =
                ToSet(asm.branches[k].end_stack) \cup (IF Top.node \notin Loops /\ k = n - 1 THEN S ELSE {})
  BY DEF Popped
<1>5. n = Len(open)
  OBVIOUS
<1> HIDE DEF n
<1>6. Agree(asm, open, asm', open', n - 1)
  <2>1. \A k \in 1..(n - 1) : Alike(open[k], open'[k])
    BY <1>3 DEF Alike
  <2> QED
    BY <1>1, <1>4, <2>1 DEF Agree, SameBut
<1>7. Shape'
  <2>1. Around(n - 1)
    <3>1. n - 1 <= Len(open) /\ n - 1 <= Len(open') /\ Len(open') \in Nat /\ Len(places') >= Len(places)
      BY <1>1, <1>2, <1>3, <1>5
    <3> QED
      BY <1>1, <1>2, <1>3, <1>6, <3>1 DEF Around
  <2> QED
    BY <1>1, <1>3, <1>5, <2>1, ShapePopped
<1>8. TypeOK'
  BY <1>1, <1>3 DEF TypeOK, Node
<1>9. ASSUME NEW a \in Aim
      PROVE  TableOf(asm', open', groups')[a] =
               Below(asm, open, groups, n - 1, a)
                 \cup (IF Top.node \notin Loops /\ a = BreakAim(Top) THEN S \cap Nat ELSE {})
  <2>1. TableOf(asm', open', groups')[a] = Below(asm', open', groups, n - 1, a)
    <3>1. TableOf(asm', open', groups')[a] = Waiting(asm', open', groups', a)
      BY <1>1, WaitingIsTable
    <3> QED
      BY <1>1, <1>3, <3>1 DEF Waiting, Below
  <2>2. CASE Top.node \in Loops
    <3>1. SameBreaks(asm, asm', n - 1)
      BY <1>4, <2>2 DEF SameBreaks
    <3>2. Below(asm', open', groups, n - 1, a) = Below(asm, open, groups, n - 1, a)
      BY <1>6, <3>1, BelowSame
    <3> QED
      BY <2>1, <2>2, <3>2
  <2>3. CASE Top.node \notin Loops
    <3>1. Handing(asm', open', S)
      BY <1>4, <1>5, <1>6, <2>3 DEF Handing
    <3>2. Below(asm', open', groups, Len(open) - 1, a) =
            Below(asm, open, groups, Len(open) - 1, a) \cup (IF a = BreakAim(Top) THEN S \cap Nat ELSE {})
      BY <1>1, <2>3, <3>1, HandedDown
    <3> QED
      BY <1>5, <2>1, <2>3, <3>2
  <2> QED
    BY <2>2, <2>3
<1> QED
  BY <1>5, <1>7, <1>8, <1>9

\* A machine that has failed is of no account, but for its code.
LEMMA FaultEnds ==
  ASSUME TypeOK, asm' \in Machine, asm'.fault, open' \in Seq(Node), places' \in Seq(Places),
         UNCHANGED <<groups, labelled, phase>>
  PROVE  JInv'
BY DEF JInv, TypeOK, Node

LEMMA EndKeeps ==
  ASSUME JInv, End
  PROVE  Kept
<1> DEFINE n == Len(open)
           x == [id |-> Top.id, place |-> "end"]
           v == size(asm)
           D == TableOf(asm, open, groups)
           E == TableOf(asm', open', groups')
           G == Cleared(D, x)
           top == asm.branches[n]
           S == {top.curr_jump}
           B == ToSet(top.end_stack)
<1>1. /\ Working /\ NoGroup /\ open # <<>> /\ Top.part = "else" /\ Top.node \in {"if", "?:"} /\ Top.node \notin Loops
      /\ asm' = asm_end(asm) /\ open' = Front(open) /\ UNCHANGED <<groups, labelled, phase>>
      /\ places' = [places EXCEPT ![x.id][x.place] = v]
  BY DEF End, TopIs, Reached, Loops
<1>2. /\ TypeOK /\ Shape /\ phase = "function" /\ ~asm.fault /\ asm \in Machine
      /\ Sound(asm.code, D, places, labelled)
      /\ D \in Table /\ asm.code \in Seq(Instruction) /\ v \in Nat /\ places \in Seq(Places)
      /\ \A a \in Aim : D[a] = Waiting(asm, open, groups, a)
  BY <1>1, Context, Types
<1>3. /\ n \in Nat \ {0} /\ n \in Nat /\ n - 1 \in Nat
      /\ Top = open[n] /\ Top \in Node
      /\ Len(asm.branches) = n /\ asm.branches # <<>>
      /\ NodeOK(Top, asm.branches[n], places)
      /\ Top.id \in 1..Len(places)
  BY <1>1, <1>2, TopOpen
<1>4. /\ x \in Aim /\ x # BreakAim(Top)
      /\ Below(asm, open, groups, n - 1, x) = {}
  BY <1>1, <1>2, AtCondition
<1>5. places[Top.id].end = Nowhere /\ ~top.is_loop
  BY <1>1, <1>3 DEF NodeOK
<1>6. /\ asm' \in Machine /\ SameBut({"code", "branches", "fault"}, asm, asm')
      /\ asm'.code = PatchedCode(asm.code, S, v)
      /\ ~asm'.fault => Ended(asm, asm')
  <2>1. LET r == asm_end(asm)
            t == asm.branches[Len(asm.branches)]
        IN /\ r \in Machine /\ SameBut({"code", "branches", "fault"}, asm, r)
           /\ r.code = PatchedCode(asm.code, {t.curr_jump}
                                      \cup (IF t.is_loop THEN ToSet(t.end_stack) ELSE {}), size(asm))
           /\ ~r.fault => Ended(asm, r)
    BY <1>2, <1>3, EndIs
  <2>2. S = S \cup {}
    OBVIOUS
  <2> QED
    BY <1>1, <1>3, <1>5, <2>1, <2>2
<1>7. places' = [places EXCEPT ![Top.id]["end"] = v]
  BY <1>1
<1>8. /\ n = Len(open) /\ top = asm.branches[n] /\ S = {top.curr_jump} /\ B = ToSet(top.end_stack)
      /\ x.id = Top.id /\ x.place = "end" /\ x = [id |-> x.id, place |-> x.place]
  OBVIOUS
<1>9. ConditionAim(open[n]) = x
  BY <1>1, <1>3 DEF ConditionAim
<1> HIDE DEF x, v, D, E, n, top, S, B
<1>10. \A a \in Aim : D[a] = (Below(asm, open, groups, n - 1, a)
                                \cup (IF a = BreakAim(Top) THEN B \cap Nat ELSE {}))
                               \cup (IF a = x THEN S \cap Nat ELSE {})
  <2> SUFFICES ASSUME NEW a \in Aim
               PROVE  D[a] = (Below(asm, open, groups, n - 1, a)
                                \cup (IF a = BreakAim(Top) THEN B \cap Nat ELSE {}))
                               \cup (IF a = x THEN S \cap Nat ELSE {})
    OBVIOUS
  <2>1. Tops(open, n - 1, n)
    BY <1>3, <1>8 DEF Tops, Preceding
  <2>2. Waiting(asm, open, groups, a) =
          Below(asm, open, groups, n - 1, a) \cup OfTop(asm.branches[n], open[n], a)
    BY <2>1, WaitingSplit
  <2>3. OfTop(asm.branches[n], open[n], a) =
          (IF a = BreakAim(Top) THEN B \cap Nat ELSE {})
            \cup (IF a = x THEN S \cap Nat ELSE {})
    BY <1>1, <1>3, <1>8, <1>9 DEF OfTop
  <2> QED
    BY <1>2, <2>2, <2>3
<1>11. /\ Sound(asm'.code, G, places', labelled) /\ G \in Table
       /\ Arrived(asm.code, places, labelled) => Arrived(asm'.code, places', labelled)
       /\ \A a \in Aim : G[a] = IF a = x THEN {} ELSE D[a]
  <2>1. D[x] = S \cap Nat
    BY <1>4, <1>10
  <2>2. Reaches(asm.code, D, places, x, v, places', S)
    BY <1>1, <1>2, <1>3, <1>5, <1>8, <2>1 DEF Reaches
  <2>3. LET d == PatchedCode(asm.code, S, v)
        IN /\ Cleared(D, x) \in Table /\ Sound(d, Cleared(D, x), places', labelled)
           /\ Arrived(asm.code, places, labelled) => Arrived(d, places', labelled)
    BY <1>2, <2>2, ReachedPlace
  <2>4. \A a \in Aim : G[a] = IF a = x THEN {} ELSE D[a]
    BY DEF Cleared
  <2> QED
    BY <1>6, <2>3, <2>4
<1> HIDE DEF G
<1>12. /\ places' \in Seq(Places) /\ Len(places') = Len(places)
       /\ \A i \in 1..Len(places) : i # Top.id => places'[i] = places[i]
  <2>1. WithPlace(places, Top.id, "end", v, places')
    <3>1. v \in Int
      BY <1>2
    <3> QED
      BY <1>2, <1>3, <1>7, <3>1 DEF WithPlace, PlaceNames
  <2>2. \A i \in 1..Len(places) : i # Top.id => places'[i] = places[i]
    BY <1>2, <1>7, Types
  <2> QED
    BY <2>1, <2>2, PlacesWith
<1>13. CASE asm'.fault
  <2>1. open' \in Seq(Node)
    BY <1>1, <1>2, Types, FrontAndLast
  <2>2. JInv'
    BY <1>1, <1>2, <1>6, <1>12, <1>13, <2>1, FaultEnds
  <2> QED
    BY <1>1, <1>11, <2>2 DEF Kept
<1>14. CASE ~asm'.fault
  <2>1. Popped(B)
    <3>1. Ended(asm, asm')
      BY <1>6, <1>14
    <3>2. /\ Len(asm'.branches) = n - 1
          /\ n = 1 => top.end_stack = <<>>
          /\ \A k \in 1..(n - 1) :
               /\ asm'.branches[k].branch_start = asm.branches[k].branch_start
               /\ asm'.branches[k].is_loop = asm.branches[k].is_loop
               /\ asm'.branches[k].curr_jump = asm.branches[k].curr_jump
               /\ ToSet(asm'.branches[k].end_stack) =
                    ToSet(asm.branches[k].end_stack) \cup (IF k = n - 1 THEN B ELSE {})
      BY <1>3, <1>5, <1>8, <3>1 DEF Ended
    <3>3. n = 1 => B = {}
      BY <1>8, <3>2, ToSetEmpty
    <3> QED
      BY <1>1, <1>2, <1>6, <1>8, <1>12, <3>2, <3>3 DEF Popped
  <2>2. /\ Shape' /\ TypeOK'
        /\ \A a \in Aim : E[a] =
             Below(asm, open, groups, n - 1, a)
               \cup (IF Top.node \notin Loops /\ a = BreakAim(Top) THEN B \cap Nat ELSE {})
    BY <1>8, <2>1, PoppedIs DEF E
  <2>3. ASSUME NEW a \in Aim
        PROVE  E[a] = G[a]
    <3>1. /\ E[a] = Below(asm, open, groups, n - 1, a) \cup (IF a = BreakAim(Top) THEN B \cap Nat ELSE {})
          /\ G[a] = IF a = x THEN {} ELSE D[a]
          /\ D[a] = (Below(asm, open, groups, n - 1, a)
                       \cup (IF a = BreakAim(Top) THEN B \cap Nat ELSE {}))
                      \cup (IF a = x THEN S \cap Nat ELSE {})
      BY <1>1, <1>10, <1>11, <2>2
    <3> QED
      BY <1>4, <3>1
  <2>4. E = G
    <3>1. E \in Table
      BY <1>6, WaitingIsTable DEF E
    <3> QED
      BY <1>11, <2>3, <3>1, SameFunction
  <2> QED
    BY <1>1, <1>11, <2>2, <2>4 DEF Kept, JInv, E
<1> QED
  BY <1>13, <1>14

\* What IR_goto_start, IR_else and IR_end are together.
LEMMA LoopEndIs ==
  ASSUME NEW m, m \in Machine, m.branches # <<>>, ~m.fault, NEW a, a \in Aim, NEW b, b \in Aim,
         NEW wild, wild \in Nat,
         m.branches[Len(m.branches)].branch_start \in Nat, m.branches[Len(m.branches)].is_loop
  PROVE  LET r == asm_end(asm_else(asm_goto_start(m, a, wild), b))
             top == m.branches[Len(m.branches)]
             v == size(m) + 2
             i == [op |-> "jmp", to |-> top.branch_start, aim |-> a]
             j == [op |-> "jmp", to |-> v, aim |-> b]
         IN /\ i \in Instruction /\ j \in Instruction
            /\ r \in Machine /\ SameBut({"code", "branches", "fault"}, m, r)
            /\ r.code = PatchedCode(Append(Append(m.code, i), j),
                                    {top.curr_jump} \cup ({v} \cup ToSet(top.end_stack)), v)
            /\ ~r.fault => Ended(m, r)
<1> DEFINE s == asm_goto_start(m, a, wild)
           e == asm_else(s, b)
           r == asm_end(e)
           n == Len(m.branches)
           top == m.branches[n]
           start == top.branch_start
           v == size(m) + 2
           i == [op |-> "jmp", to |-> start, aim |-> a]
           j == [op |-> "jmp", to |-> v, aim |-> b]
           c == Append(Append(m.code, i), j)
<1>1. start # Nowhere /\ start \in Nat \cup {Nowhere} /\ size(m) \in Nat /\ m.code \in Seq(Instruction)
  BY MachineFields DEF Nowhere
<1>2. s \in Machine /\ SameBut({"code"}, m, s) /\ i \in Instruction /\ s.code = Append(m.code, i)
  <2>1. LET t == m.branches[Len(m.branches)].branch_start
            ins == [op |-> "jmp", to |-> IF t = Nowhere THEN wild ELSE t, aim |-> a]
            q == asm_goto_start(m, a, wild)
        IN /\ q \in Machine /\ SameBut({"code"}, m, q)
           /\ ins \in Instruction /\ q.code = Append(m.code, ins)
    BY <1>1, GotoStartIs
  <2> QED
    BY <1>1, <2>1
<1>3. s.branches = m.branches /\ s.branches # <<>> /\ ~s.fault /\ size(s) = size(m) + 1
  <2>1. Len(s.code) = Len(m.code) + 1
    BY <1>1, <1>2, AppendProperties
  <2> QED
    BY <1>2, <2>1 DEF SameBut, size
<1>4. size(s) + 1 = v /\ v \in Nat
  BY <1>1, <1>3
<1> HIDE DEF s, i
<1>5. /\ e \in Machine /\ SameBut({"code", "branches"}, s, e) /\ e.branches # <<>>
      /\ j \in Instruction /\ size(e) = v
      /\ e.code = PatchedCode(c, {top.curr_jump}, v)
      /\ Jumping(m, e, v)
  <2>1. LET q == asm_else(s, b)
            ins == [op |-> "jmp", to |-> size(s) + 1, aim |-> b]
            jump == s.branches[Len(s.branches)].curr_jump
        IN /\ q \in Machine /\ SameBut({"code", "branches"}, s, q) /\ q.branches # <<>>
           /\ ins \in Instruction /\ size(q) = size(s) + 1
           /\ q.code = PatchedCode(Append(s.code, ins), {jump}, size(s) + 1)
           /\ Jumping(s, q, size(s) + 1)
    BY <1>2, <1>3, ElseIs
  <2>2. Jumping(s, e, v) => Jumping(m, e, v)
    BY <1>3 DEF Jumping
  <2> HIDE DEF v
  <2> QED
    BY <1>2, <1>3, <1>4, <2>1, <2>2
<1>6. ~e.fault /\ n \in Nat \ {0} /\ Len(e.branches) = n
      /\ e.branches[n].curr_jump = v /\ e.branches[n].end_stack = top.end_stack /\ e.branches[n].is_loop
  <2>1. ~e.fault /\ n \in Nat \ {0} /\ n \in 1..n /\ Len(e.branches) = n
    BY <1>3, <1>5 DEF SameBut, Jumping
  <2> QED
    BY <1>5, <2>1 DEF Jumping
<1>7. c \in Seq(Instruction)
  <2>1. Append(m.code, i) \in Seq(Instruction)
    BY <1>1, <1>2, AppendProperties
  <2> QED
    BY <1>5, <2>1, AppendProperties
<1> HIDE DEF e, j, v, c, n, top
<1>8. /\ r \in Machine /\ SameBut({"code", "branches", "fault"}, e, r)
      /\ r.code = PatchedCode(e.code, {v} \cup ToSet(top.end_stack), v)
      /\ ~r.fault => Ended(e, r)
  <2>1. LET q == asm_end(e)
            k == Len(e.branches)
            t == e.branches[k]
        IN /\ q \in Machine /\ SameBut({"code", "branches", "fault"}, e, q)
           /\ q.code = PatchedCode(e.code, {t.curr_jump}
                                     \cup (IF t.is_loop THEN ToSet(t.end_stack) ELSE {}), size(e))
           /\ ~q.fault => Ended(e, q)
    BY <1>5, <1>6, EndIs
  <2> QED
    BY <1>5, <1>6, <2>1
<1>9. r.code = PatchedCode(c, {top.curr_jump} \cup ({v} \cup ToSet(top.end_stack)), v)
  BY <1>4, <1>5, <1>7, <1>8, PatchedTwice
<1>10. SameBut({"code", "branches", "fault"}, m, r)
  BY <1>2, <1>5, <1>8 DEF SameBut
<1>11. Ended(e, r) => Ended(m, r)
  <2> SUFFICES ASSUME Ended(e, r)
               PROVE  Ended(m, r)
    OBVIOUS
  <2>1. /\ Len(r.branches) = n - 1
        /\ \A k \in 1..(n - 1) :
             /\ r.branches[k].branch_start = e.branches[k].branch_start
             /\ r.branches[k].is_loop = e.branches[k].is_loop
             /\ r.branches[k].curr_jump = e.branches[k].curr_jump
             /\ ToSet(r.branches[k].end_stack) = ToSet(e.branches[k].end_stack) \cup {}
    BY <1>6 DEF Ended
  <2>2. \A k \in 1..(n - 1) :
          /\ e.branches[k].end_stack = m.branches[k].end_stack
          /\ e.branches[k].branch_start = m.branches[k].branch_start
          /\ e.branches[k].is_loop = m.branches[k].is_loop
          /\ e.branches[k].curr_jump = m.branches[k].curr_jump
    <3>1. \A k \in 1..(n - 1) : k \in 1..n /\ k # n
      BY <1>6
    <3> QED
      BY <1>5, <3>1 DEF Jumping, n
  <2>3. top.is_loop /\ n = Len(m.branches) /\ top = m.branches[n]
    BY DEF top, n
  <2>4. \A k \in 1..(n - 1) :
          /\ r.branches[k].branch_start = m.branches[k].branch_start
          /\ r.branches[k].is_loop = m.branches[k].is_loop
          /\ r.branches[k].curr_jump = m.branches[k].curr_jump
          /\ ToSet(r.branches[k].end_stack) = ToSet(m.branches[k].end_stack) \cup {}
    BY <2>1, <2>2
  <2> QED
    BY <2>1, <2>3, <2>4 DEF Ended
<1> QED
  BY <1>2, <1>5, <1>8, <1>9, <1>10, <1>11 DEF i, j, v, c, top, n, r, e, s

LEMMA EndLoopKeeps ==
  ASSUME JInv, EndLoop
  PROVE  Kept
<1> DEFINE n == Len(open)
           x == [id |-> Top.id, place |-> "start"]
           y == [id |-> Top.id, place |-> "end"]
           v == size(asm) + 2
           top == asm.branches[n]
           i == [op |-> "jmp", to |-> top.branch_start, aim |-> x]
           j == [op |-> "jmp", to |-> v, aim |-> y]
           b == Append(asm.code, i)
           c == Append(b, j)
           D == TableOf(asm, open, groups)
           E == TableOf(asm', open', groups')
           F == Added(D, y, v)
           G == Cleared(F, y)
           B == ToSet(top.end_stack)
           S == {top.curr_jump} \cup ({v} \cup B)
<1>0. PICK wild \in 0..size(asm) :
        asm' = asm_end(asm_else(asm_goto_start(asm, x, wild), y))
  BY DEF EndLoop, Aimed
<1>1. /\ Working /\ NoGroup /\ open # <<>> /\ Top.part # "when" /\ Top.node \in Loops
      /\ Top.node = "while" => Top.part = "then"
      /\ open' = Front(open) /\ UNCHANGED <<groups, labelled, phase>>
      /\ places' = [places EXCEPT ![y.id][y.place] = v]
  BY DEF EndLoop, TopIs, Reached, Loops
<1>2. /\ TypeOK /\ Shape /\ phase = "function" /\ ~asm.fault /\ asm \in Machine
      /\ Sound(asm.code, D, places, labelled)
      /\ D \in Table /\ asm.code \in Seq(Instruction) /\ places \in Seq(Places)
      /\ \A a \in Aim : D[a] = Waiting(asm, open, groups, a)
      /\ size(asm) \in Nat /\ size(asm) = Len(asm.code)
  BY <1>1, Context, Types
<1>3. /\ n \in Nat \ {0} /\ n \in Nat /\ n - 1 \in Nat
      /\ Top = open[n] /\ Top \in Node
      /\ Len(asm.branches) = n /\ asm.branches # <<>>
      /\ NodeOK(Top, asm.branches[n], places)
      /\ Top.id \in 1..Len(places) /\ Top.id \in Nat /\ Top.id # ByLabel
  BY <1>1, <1>2, TopOpen
<1>4. /\ y \in Aim /\ y # NoAim /\ y = BreakAim(Top)
      /\ Below(asm, open, groups, n - 1, y) = {}
  <2>1. LET z == [id |-> Top.id, place |-> "end"]
        IN /\ z \in Aim /\ z # NoAim /\ Below(asm, open, groups, Len(open) - 1, z) = {}
           /\ z = BreakAim(Top) <=> Top.node \in Loops /\ "end" = "end"
    BY <1>1, <1>2, NoneBelow
  <2> QED
    BY <1>1, <2>1
<1>5. /\ top.is_loop /\ places[Top.id].end = Nowhere
      /\ top.branch_start = places[Top.id].start /\ places[Top.id].start # Nowhere
      /\ top.branch_start \in Nat
  BY <1>1, <1>3 DEF NodeOK
<1>6. x \in Aim /\ x # NoAim /\ v \in Nat /\ wild \in Nat
  <2>1. Top.id \in Nat /\ Top.id # ByLabel
    BY <1>3
  <2>2. x \in Aim /\ x # NoAim
    BY <2>1, AimsAreAims DEF ByLabel
  <2>3. v \in Nat /\ wild \in Nat
    BY <1>2
  <2> QED
    BY <2>2, <2>3
<1>7. /\ asm' \in Machine /\ SameBut({"code", "branches", "fault"}, asm, asm')
      /\ i \in Instruction /\ j \in Instruction
      /\ asm'.code = PatchedCode(c, S, v)
      /\ ~asm'.fault => Ended(asm, asm')
  <2>1. LET r == asm_end(asm_else(asm_goto_start(asm, x, wild), y))
            t == asm.branches[Len(asm.branches)]
            w == size(asm) + 2
            k == [op |-> "jmp", to |-> t.branch_start, aim |-> x]
            l == [op |-> "jmp", to |-> w, aim |-> y]
        IN /\ k \in Instruction /\ l \in Instruction
           /\ r \in Machine /\ SameBut({"code", "branches", "fault"}, asm, r)
           /\ r.code = PatchedCode(Append(Append(asm.code, k), l),
                                   {t.curr_jump} \cup ({w} \cup ToSet(t.end_stack)), w)
           /\ ~r.fault => Ended(asm, r)
    <3>1. asm.branches[Len(asm.branches)].branch_start \in Nat /\ asm.branches[Len(asm.branches)].is_loop
      BY <1>3, <1>5
    <3> HIDE DEF x, y, top
    <3> QED
      BY <1>2, <1>3, <1>4, <1>6, <3>1, LoopEndIs
  <2> HIDE DEF x, y
  <2> QED
    BY <1>0, <1>3, <2>1
<1>8. /\ n = Len(open) /\ top = asm.branches[n] /\ B = ToSet(top.end_stack)
      /\ S = {top.curr_jump} \cup ({v} \cup B)
      /\ y.id = Top.id /\ y.place = "end" /\ y = [id |-> y.id, place |-> y.place]
      /\ i.aim = x /\ i.to = top.branch_start /\ j.aim = y /\ j.op # "op"
      /\ b = Append(asm.code, i) /\ c = Append(b, j)
  OBVIOUS
<1>9. /\ ConditionAim(open[n]) = y /\ BreakAim(open[n]) = y
      /\ Aimable(places, x) /\ TargetIn(places, labelled, x) = places[Top.id].start
      /\ Aimable(places, y) /\ TargetIn(places, labelled, y) = places[Top.id].end /\ ~Resumes(y)
  BY <1>1, <1>3, <1>4, <1>6 DEF ConditionAim, Aimable, TargetIn, Resumes
<1>10. places' = [places EXCEPT ![Top.id]["end"] = v]
  BY <1>1
<1>11. v = size(asm) + 2
  OBVIOUS
<1> HIDE DEF x, y, v, D, E, n, top, S, B, i, j, b, c
<1>12. /\ b \in Seq(Instruction) /\ Len(b) + 1 = v
       /\ Sound(b, D, places, labelled)
       /\ Arrived(asm.code, places, labelled) => Arrived(b, places, labelled)
  <2>1. KnownTo(i, places, labelled)
    BY <1>5, <1>8, <1>9 DEF KnownTo
  <2>2. KnownEmit(asm.code, D, places, labelled, i, b)
    BY <1>2, <1>5, <1>7, <1>8, <1>9 DEF KnownEmit
  <2>3. b \in Seq(Instruction) /\ Len(b) = Len(asm.code) + 1
    BY <1>2, <1>7, <1>8, AppendProperties
  <2>4. Len(b) + 1 = v
    BY <1>2, <1>11, <2>3
  <2> QED
    BY <2>1, <2>2, <2>3, <2>4, WroteKnown
<1>13. /\ c \in Seq(Instruction) /\ F \in Table /\ Sound(c, F, places, labelled)
       /\ Arrived(b, places, labelled) => Arrived(c, places, labelled)
       /\ \A a \in Aim : F[a] = IF a = y THEN D[a] \cup {v} ELSE D[a]
  <2>1. Waits(b, D, places, labelled, j)
    BY <1>2, <1>5, <1>7, <1>8, <1>9, <1>12 DEF Waits
  <2>2. \A a \in Aim : F[a] = IF a = y THEN D[a] \cup {v} ELSE D[a]
    BY DEF Added
  <2>3. LET d == Append(b, j)
            H == Added(D, j.aim, Len(b) + 1)
        IN /\ d \in Seq(Instruction) /\ H \in Table /\ Sound(d, H, places, labelled)
           /\ Arrived(b, places, labelled) => Arrived(d, places, labelled)
    BY <2>1, Waited
  <2> QED
    BY <1>8, <1>12, <2>2, <2>3
<1>14. \A a \in Aim : D[a] = Below(asm, open, groups, n - 1, a)
                               \cup (IF a = y THEN (B \cup {top.curr_jump}) \cap Nat ELSE {})
  <2> SUFFICES ASSUME NEW a \in Aim
               PROVE  D[a] = Below(asm, open, groups, n - 1, a)
                               \cup (IF a = y THEN (B \cup {top.curr_jump}) \cap Nat ELSE {})
    OBVIOUS
  <2>1. Tops(open, n - 1, n)
    BY <1>3, <1>8 DEF Tops, Preceding
  <2>2. Waiting(asm, open, groups, a) =
          Below(asm, open, groups, n - 1, a) \cup OfTop(asm.branches[n], open[n], a)
    BY <2>1, WaitingSplit
  <2>3. OfTop(asm.branches[n], open[n], a) = IF a = y THEN (B \cup {top.curr_jump}) \cap Nat ELSE {}
    BY <1>1, <1>3, <1>8, <1>9 DEF OfTop
  <2> QED
    BY <1>2, <2>2, <2>3
<1>15. F[y] = S \cap Nat
  <2>1. D[y] = (B \cup {top.curr_jump}) \cap Nat
    BY <1>4, <1>14
  <2> QED
    BY <1>4, <1>6, <1>8, <1>13, <2>1, ZenonT(60)
<1> HIDE DEF F
<1>16. /\ Sound(asm'.code, G, places', labelled) /\ G \in Table
       /\ Arrived(asm.code, places, labelled) => Arrived(asm'.code, places', labelled)
       /\ \A a \in Aim : G[a] = IF a = y THEN {} ELSE F[a]
  <2>1. Reaches(c, F, places, y, v, places', S)
    BY <1>1, <1>2, <1>3, <1>5, <1>6, <1>8, <1>13, <1>15 DEF Reaches
  <2>2. LET d == PatchedCode(c, S, v)
        IN /\ Cleared(F, y) \in Table /\ Sound(d, Cleared(F, y), places', labelled)
           /\ Arrived(c, places, labelled) => Arrived(d, places', labelled)
    BY <1>13, <2>1, ReachedPlace
  <2>3. \A a \in Aim : G[a] = IF a = y THEN {} ELSE F[a]
    BY DEF Cleared
  <2> QED
    BY <1>7, <1>12, <1>13, <2>2, <2>3
<1> HIDE DEF G
<1>17. /\ places' \in Seq(Places) /\ Len(places') = Len(places)
       /\ \A k \in 1..Len(places) : k # Top.id => places'[k] = places[k]
  <2>1. WithPlace(places, Top.id, "end", v, places')
    <3>1. v \in Int
      BY <1>6
    <3> QED
      BY <1>2, <1>3, <1>10, <3>1 DEF WithPlace, PlaceNames
  <2>2. \A k \in 1..Len(places) : k # Top.id => places'[k] = places[k]
    BY <1>2, <1>10, Types
  <2> QED
    BY <2>1, <2>2, PlacesWith
<1>18. CASE asm'.fault
  <2>1. open' \in Seq(Node)
    BY <1>1, <1>2, Types, FrontAndLast
  <2>2. JInv'
    BY <1>1, <1>2, <1>7, <1>17, <1>18, <2>1, FaultEnds
  <2> QED
    BY <1>1, <1>16, <2>2 DEF Kept
<1>19. CASE ~asm'.fault
  <2>1. Popped({})
    <3>1. Ended(asm, asm')
      BY <1>7, <1>19
    <3>2. /\ Len(asm'.branches) = n - 1
          /\ \A k \in 1..(n - 1) :
               /\ asm'.branches[k].branch_start = asm.branches[k].branch_start
               /\ asm'.branches[k].is_loop = asm.branches[k].is_loop
               /\ asm'.branches[k].curr_jump = asm.branches[k].curr_jump
               /\ ToSet(asm'.branches[k].end_stack) = ToSet(asm.branches[k].end_stack) \cup {}
      BY <1>3, <1>5, <1>8, <3>1 DEF Ended
    <3> QED
      BY <1>1, <1>2, <1>7, <1>8, <1>17, <3>2 DEF Popped
  <2>2. /\ Shape' /\ TypeOK'
        /\ \A a \in Aim : E[a] =
             Below(asm, open, groups, n - 1, a)
               \cup (IF Top.node \notin Loops /\ a = BreakAim(Top) THEN {} \cap Nat ELSE {})
    BY <1>8, <2>1, PoppedIs DEF E
  <2>3. ASSUME NEW a \in Aim
        PROVE  E[a] = G[a]
    <3>1. /\ E[a] = Below(asm, open, groups, n - 1, a)
      BY <1>1, <2>2
    <3>2. /\ G[a] = IF a = y THEN {} ELSE F[a]
          /\ F[a] = IF a = y THEN D[a] \cup {v} ELSE D[a]
      BY <1>13, <1>16
    <3>3. D[a] = Below(asm, open, groups, n - 1, a)
                   \cup (IF a = y THEN (B \cup {top.curr_jump}) \cap Nat ELSE {})
      BY <1>14
    <3> QED
      BY <1>4, <3>1, <3>2, <3>3
  <2>4. E = G
    <3>1. E \in Table
      BY <1>7, WaitingIsTable DEF E
    <3> QED
      BY <1>16, <2>3, <3>1, SameFunction
  <2> QED
    BY <1>1, <1>16, <2>2, <2>4 DEF Kept, JInv, E
<1> QED
  BY <1>18, <1>19

\* What asm_then, asm_else, asm_goto_end and asm_end of the if of a do-while are
\* together.
UntilWrites(m, x, y, z, e, r) ==
  LET n == Len(m.branches)
      top == m.branches[n]
      s == size(m)
      i == [op |-> "jz", to |-> s + 1, aim |-> x]
      j == [op |-> "jmp", to |-> s + 2, aim |-> y]
      k == [op |-> "jmp", to |-> s + 3, aim |-> z]
      c == PatchedCode(Append(Append(m.code, i), j), {s + 1}, s + 2)
  IN /\ i \in Instruction /\ j \in Instruction /\ k \in Instruction /\ size(e) = s + 2
     /\ r \in Machine /\ SameBut({"code", "branches", "fault"}, m, r) /\ size(r) = s + 3
     /\ r.code = PatchedCode(Append(c, k), {s + 2}, s + 3)
     /\ ~r.fault =>
          /\ Len(r.branches) = n - 1
          /\ n # 1
          /\ \A h \in 1..(n - 1) :
               /\ r.branches[h].branch_start = m.branches[h].branch_start
               /\ r.branches[h].is_loop = m.branches[h].is_loop
               /\ r.branches[h].curr_jump = m.branches[h].curr_jump
               /\ ToSet(r.branches[h].end_stack) =
                    ToSet(m.branches[h].end_stack)
                      \cup (IF h = n - 1 THEN ToSet(top.end_stack) \cup {s + 3} ELSE {})

Condition(m, x, y, z) ==
  /\ m \in Machine /\ m.branches # <<>> /\ ~m.fault /\ ~m.branches[Len(m.branches)].is_loop
  /\ x \in Aim /\ y \in Aim /\ z \in Aim

LEMMA UntilIs ==
  ASSUME NEW m, NEW x, NEW y, NEW z, Condition(m, x, y, z)
  PROVE  LET e == asm_else(asm_then(m, x), y)
         IN UntilWrites(m, x, y, z, e, asm_end(asm_goto_end(e, z)))
<1> DEFINE t == asm_then(m, x)
           e == asm_else(t, y)
           g == asm_goto_end(e, z)
           r == asm_end(g)
           n == Len(m.branches)
           top == m.branches[n]
           s == size(m)
           i == [op |-> "jz", to |-> s + 1, aim |-> x]
           j == [op |-> "jmp", to |-> s + 2, aim |-> y]
           k == [op |-> "jmp", to |-> s + 3, aim |-> z]
           c == PatchedCode(Append(Append(m.code, i), j), {s + 1}, s + 2)
<1>0. /\ m \in Machine /\ m.branches # <<>> /\ ~m.fault /\ ~m.branches[Len(m.branches)].is_loop
      /\ x \in Aim /\ y \in Aim /\ z \in Aim
  BY DEF Condition
<1>1. s \in Nat /\ s + 1 + 1 = s + 2 /\ s + 2 + 1 = s + 3 /\ s + 2 \in Nat /\ s + 3 \in Nat
  BY <1>0, MachineFields
<1>2. /\ t \in Machine /\ SameBut({"code", "branches"}, m, t) /\ t.branches # <<>>
      /\ i \in Instruction /\ t.code = Append(m.code, i) /\ size(t) = s + 1
      /\ Jumping(m, t, s + 1)
  BY <1>0, ThenIs
<1> HIDE DEF t, i
<1>3. /\ e \in Machine /\ SameBut({"code", "branches"}, t, e) /\ e.branches # <<>>
      /\ j \in Instruction /\ size(e) = s + 2
      /\ e.code = PatchedCode(Append(t.code, j), {t.branches[Len(t.branches)].curr_jump}, s + 2)
      /\ Jumping(t, e, s + 2)
  <2>1. LET q == asm_else(t, y)
            ins == [op |-> "jmp", to |-> size(t) + 1, aim |-> y]
            jump == t.branches[Len(t.branches)].curr_jump
        IN /\ q \in Machine /\ SameBut({"code", "branches"}, t, q) /\ q.branches # <<>>
           /\ ins \in Instruction /\ size(q) = size(t) + 1
           /\ q.code = PatchedCode(Append(t.code, ins), {jump}, size(t) + 1)
           /\ Jumping(t, q, size(t) + 1)
    BY <1>0, <1>2, ElseIs
  <2> HIDE DEF s
  <2> QED
    BY <1>1, <1>2, <2>1
<1>4. /\ n \in Nat \ {0} /\ n \in 1..n /\ Len(t.branches) = n /\ Len(e.branches) = n
      /\ t.branches[n].curr_jump = s + 1 /\ e.branches[n].curr_jump = s + 2
      /\ \A h \in 1..n :
           /\ e.branches[h].end_stack = m.branches[h].end_stack
           /\ e.branches[h].branch_start = m.branches[h].branch_start
           /\ e.branches[h].is_loop = m.branches[h].is_loop
           /\ h # n => e.branches[h].curr_jump = m.branches[h].curr_jump
  <2> HIDE DEF e, s
  <2>1. n \in Nat \ {0} /\ n \in 1..n /\ Len(t.branches) = n /\ Len(e.branches) = n
    BY <1>2, <1>3 DEF Jumping
  <2> QED
    BY <1>2, <1>3, <2>1 DEF Jumping
<1>5. e.code = c
  BY <1>2, <1>3, <1>4
<1>6. e.fault = m.fault /\ e.goto_labels = m.goto_labels /\ e.returns = m.returns
      /\ e.shortcircuits = m.shortcircuits
  BY <1>2, <1>3 DEF SameBut
<1> HIDE DEF e, j, s, c, n
<1>7. /\ g \in Machine /\ SameBut({"code", "branches"}, e, g) /\ size(g) = s + 3
      /\ k \in Instruction /\ g.code = Append(c, k) /\ Len(g.branches) = n
      /\ \A h \in 1..n :
           /\ g.branches[h].branch_start = e.branches[h].branch_start
           /\ g.branches[h].curr_jump = e.branches[h].curr_jump
           /\ g.branches[h].is_loop = e.branches[h].is_loop
           /\ ToSet(g.branches[h].end_stack) =
                ToSet(e.branches[h].end_stack) \cup (IF h = n THEN {s + 3} ELSE {})
  <2>1. LET l == Len(e.branches)
            q == asm_goto_end(e, z)
            ins == [op |-> "jmp", to |-> size(e) + 1, aim |-> z]
        IN /\ q \in Machine /\ SameBut({"code", "branches"}, e, q) /\ size(q) = size(e) + 1
           /\ ins \in Instruction /\ q.code = Append(e.code, ins) /\ Len(q.branches) = l
           /\ \A h \in 1..l :
                /\ q.branches[h].branch_start = e.branches[h].branch_start
                /\ q.branches[h].curr_jump = e.branches[h].curr_jump
                /\ q.branches[h].is_loop = e.branches[h].is_loop
                /\ ToSet(q.branches[h].end_stack) =
                     ToSet(e.branches[h].end_stack) \cup (IF h = l THEN {size(e) + 1} ELSE {})
    BY <1>0, <1>3, GotoEndIs
  <2>2. size(e) = s + 2 /\ size(e) + 1 = s + 3 /\ Len(e.branches) = n /\ e.code = c
    BY <1>1, <1>3, <1>4, <1>5
  <2> HIDE DEF k
  <2>3. k = [op |-> "jmp", to |-> size(e) + 1, aim |-> z]
    BY <2>2 DEF k
  <2> QED
    BY <2>1, <2>2, <2>3
<1>8. /\ g.branches # <<>> /\ ~g.fault
      /\ g.branches[n].curr_jump = s + 2 /\ ~g.branches[n].is_loop
      /\ ToSet(g.branches[n].end_stack) = ToSet(top.end_stack) \cup {s + 3}
  <2>1. g.branches # <<>>
    BY <1>4, <1>7, EmptySeq
  <2>2. ~top.is_loop /\ top = m.branches[n]
    BY <1>0 DEF n
  <2>3. ~g.fault
    BY <1>0, <1>6, <1>7 DEF SameBut
  <2> QED
    BY <1>4, <1>7, <2>1, <2>2, <2>3
<1> HIDE DEF g, k, top
<1>9. /\ r \in Machine /\ SameBut({"code", "branches", "fault"}, g, r) /\ size(r) = s + 3
      /\ r.code = PatchedCode(g.code, {s + 2}, s + 3)
      /\ ~r.fault => Ended(g, r)
  <2>1. LET q == asm_end(g)
            w == g.branches[Len(g.branches)]
        IN /\ q \in Machine /\ SameBut({"code", "branches", "fault"}, g, q)
           /\ q.code = PatchedCode(g.code, {w.curr_jump}
                                     \cup (IF w.is_loop THEN ToSet(w.end_stack) ELSE {}), size(g))
           /\ size(q) = size(g)
           /\ ~q.fault => Ended(g, q)
    BY <1>7, <1>8, EndIs
  <2>2. {s + 2} \cup {} = {s + 2}
    OBVIOUS
  <2> QED
    BY <1>7, <1>8, <2>1, <2>2
<1>10. ASSUME ~r.fault
       PROVE  /\ Len(r.branches) = n - 1
              /\ n # 1
              /\ \A h \in 1..(n - 1) :
                   /\ r.branches[h].branch_start = m.branches[h].branch_start
                   /\ r.branches[h].is_loop = m.branches[h].is_loop
                   /\ r.branches[h].curr_jump = m.branches[h].curr_jump
                   /\ ToSet(r.branches[h].end_stack) =
                        ToSet(m.branches[h].end_stack)
                          \cup (IF h = n - 1 THEN ToSet(top.end_stack) \cup {s + 3} ELSE {})
  <2>1. Ended(g, r)
    BY <1>9, <1>10
  <2>2. /\ Len(r.branches) = n - 1
        /\ n = 1 => g.branches[n].end_stack = <<>>
        /\ \A h \in 1..(n - 1) :
             /\ r.branches[h].branch_start = g.branches[h].branch_start
             /\ r.branches[h].is_loop = g.branches[h].is_loop
             /\ r.branches[h].curr_jump = g.branches[h].curr_jump
             /\ ToSet(r.branches[h].end_stack) =
                  ToSet(g.branches[h].end_stack)
                    \cup (IF h = n - 1 THEN ToSet(g.branches[n].end_stack) ELSE {})
    BY <1>7, <1>8, <2>1 DEF Ended
  <2>3. n # 1
    BY <1>8, <2>2, ToSetEmpty
  <2>4. \A h \in 1..(n - 1) : h \in 1..n /\ h # n
    BY <1>4
  <2>5. \A h \in 1..(n - 1) :
          /\ g.branches[h].branch_start = m.branches[h].branch_start
          /\ g.branches[h].is_loop = m.branches[h].is_loop
          /\ g.branches[h].curr_jump = m.branches[h].curr_jump
          /\ ToSet(g.branches[h].end_stack) = ToSet(m.branches[h].end_stack)
    BY <1>4, <1>7, <2>4, ZenonT(60)
  <2> QED
    BY <1>8, <2>2, <2>3, <2>5
<1>11. SameBut({"code", "branches", "fault"}, m, r)
  BY <1>2, <1>3, <1>7, <1>9 DEF SameBut
<1>12. r.code = PatchedCode(Append(c, k), {s + 2}, s + 3)
  BY <1>7, <1>9
<1> QED
  BY <1>2, <1>3, <1>7, <1>9, <1>10, <1>11, <1>12 DEF UntilWrites, t, e, g, r, n, top, s, i, j, k, c

LEMMA UntilTestedKeeps ==
  ASSUME JInv, UntilTested
  PROVE  Kept
<1> DEFINE n == Len(open)
           x == [id |-> Top.id, place |-> "other"]
           y == [id |-> Top.id, place |-> "end"]
           z == BreakAim(Top)
           s == size(asm)
           u == s + 2
           v == s + 3
           i == [op |-> "jz", to |-> s + 1, aim |-> x]
           j == [op |-> "jmp", to |-> u, aim |-> y]
           k == [op |-> "jmp", to |-> v, aim |-> z]
           b == Append(asm.code, i)
           c == Append(b, j)
           d == PatchedCode(c, {s + 1}, u)
           e == Append(d, k)
           f == PatchedCode(e, {u}, v)
           D == TableOf(asm, open, groups)
           E == TableOf(asm', open', groups')
           D1 == Added(D, x, s + 1)
           D2 == Added(D1, y, u)
           D3 == Cleared(D2, x)
           D4 == Added(D3, z, v)
           D5 == Cleared(D4, y)
           P == [places EXCEPT ![x.id][x.place] = u]
           B == ToSet(asm.branches[n].end_stack)
<1>0. /\ asm' = asm_end(asm_goto_end(asm_else(asm_then(asm, x), y), [id |-> Innermost, place |-> "end"]))
      /\ places' = [places EXCEPT ![Top.id].other = size(asm_else(asm_then(asm, x), y)),
                                  ![Top.id].end = size(asm')]
  BY DEF UntilTested, Aimed
<1>1. /\ Working /\ NoGroup /\ open # <<>> /\ Top.part = "when" /\ Top.node = "until" /\ Top.node \notin Loops
      /\ open' = Front(open) /\ UNCHANGED <<groups, labelled, phase>>
  BY DEF UntilTested, TopIs, Loops
<1>2. /\ TypeOK /\ Shape /\ phase = "function" /\ ~asm.fault /\ asm \in Machine
      /\ Sound(asm.code, D, places, labelled)
      /\ D \in Table /\ asm.code \in Seq(Instruction) /\ places \in Seq(Places)
      /\ \A a \in Aim : D[a] = Waiting(asm, open, groups, a)
      /\ s \in Nat /\ s = Len(asm.code)
  BY <1>1, Context, Types
<1>3. /\ n \in Nat \ {0} /\ n \in Nat /\ n - 1 \in Nat
      /\ Top = open[n] /\ Top \in Node
      /\ Len(asm.branches) = n /\ asm.branches # <<>>
      /\ NodeOK(Top, asm.branches[n], places)
      /\ Top.id \in 1..Len(places) /\ Top.id \in Nat /\ Top.id # ByLabel
  BY <1>1, <1>2, TopOpen
<1>4. /\ x \in Aim /\ y \in Aim /\ x # y /\ x # z /\ y # z
      /\ Below(asm, open, groups, n - 1, x) = {} /\ Below(asm, open, groups, n - 1, y) = {}
      /\ Aimable(places, x) /\ ~Resumes(x) /\ Aimable(places, y) /\ ~Resumes(y)
      /\ TargetIn(places, labelled, x) = places[Top.id].other
      /\ TargetIn(places, labelled, y) = places[Top.id].end
  BY <1>1, <1>2, AtCondition
<1>5. /\ places[Top.id].other = Nowhere /\ places[Top.id].end = Nowhere
      /\ ~asm.branches[n].is_loop /\ Top.loop # NoLoop
  BY <1>1, <1>3 DEF NodeOK
<1>6. /\ z \in Aim /\ Aimable(places, z) /\ TargetIn(places, labelled, z) = Nowhere /\ ~Resumes(z)
  BY <1>1, <1>2, BreakIsOpen
<1>7. z = [id |-> Innermost, place |-> "end"]
  BY <1>1, <1>5 DEF BreakAim, Innermost
<1>8. /\ i \in Instruction /\ j \in Instruction /\ k \in Instruction
      /\ size(asm_else(asm_then(asm, x), y)) = u /\ size(asm') = v
      /\ asm' \in Machine /\ SameBut({"code", "branches", "fault"}, asm, asm')
      /\ asm'.code = f
      /\ ~asm'.fault =>
           /\ Len(asm'.branches) = n - 1
           /\ n # 1
           /\ \A h \in 1..(n - 1) :
                /\ asm'.branches[h].branch_start = asm.branches[h].branch_start
                /\ asm'.branches[h].is_loop = asm.branches[h].is_loop
                /\ asm'.branches[h].curr_jump = asm.branches[h].curr_jump
                /\ ToSet(asm'.branches[h].end_stack) =
                     ToSet(asm.branches[h].end_stack)
                       \cup (IF h = n - 1 THEN B \cup {v} ELSE {})
  <2>1. UntilWrites(asm, x, y, z, asm_else(asm_then(asm, x), y),
                    asm_end(asm_goto_end(asm_else(asm_then(asm, x), y), z)))
    <3>1. ~asm.branches[Len(asm.branches)].is_loop
      BY <1>3, <1>5
    <3>2. asm \in Machine /\ asm.branches # <<>> /\ ~asm.fault
      BY <1>2, <1>3
    <3>3. x \in Aim /\ y \in Aim /\ z \in Aim
      BY <1>4, <1>6
    <3> HIDE DEF x, y, z
    <3>4. Condition(asm, x, y, z)
      BY <3>1, <3>2, <3>3 DEF Condition
    <3> QED
      BY <3>4, UntilIs
  <2>2. asm' = asm_end(asm_goto_end(asm_else(asm_then(asm, x), y), z))
    BY <1>0, <1>7
  <2> HIDE DEF x, y, z
  <2>3. UntilWrites(asm, x, y, z, asm_else(asm_then(asm, x), y), asm')
    BY <2>1, <2>2
  <2> QED
    BY <1>3, <2>3 DEF UntilWrites
<1>9. places' = [P EXCEPT ![Top.id]["end"] = v]
  <2> DEFINE w == size(asm_else(asm_then(asm, x), y))
  <2>1. places' = [places EXCEPT ![Top.id].other = w, ![Top.id].end = size(asm')]
    BY <1>0
  <2>2. w = u /\ size(asm') = v
    BY <1>8
  <2> HIDE DEF w, u, v
  <2>3. places' = [places EXCEPT ![Top.id].other = u, ![Top.id].end = v]
    BY <2>1, <2>2
  <2>4. P = [places EXCEPT ![Top.id]["other"] = u]
    OBVIOUS
  <2> HIDE DEF P
  <2>5. places' = [[places EXCEPT ![Top.id]["other"] = u] EXCEPT ![Top.id]["end"] = v]
    BY <2>3
  <2> QED
    BY <2>4, <2>5
<1>10. /\ n = Len(open) /\ B = ToSet(asm.branches[n].end_stack)
       /\ x.id = Top.id /\ x.place = "other" /\ x = [id |-> x.id, place |-> x.place]
       /\ y.id = Top.id /\ y.place = "end" /\ y = [id |-> y.id, place |-> y.place]
       /\ i.aim = x /\ i.op # "op" /\ j.aim = y /\ j.op # "op" /\ k.aim = z /\ k.op # "op"
       /\ P = [places EXCEPT ![x.id][x.place] = u] /\ z = BreakAim(Top)
  OBVIOUS
<1>11. P = [places EXCEPT ![Top.id]["other"] = u]
  OBVIOUS
<1>12. /\ s + 1 \in Nat /\ u \in Nat /\ v \in Nat
       /\ u = (s + 1) + 1 /\ v = u + 1
  BY <1>2
<1>13. /\ b = Append(asm.code, i) /\ c = Append(b, j) /\ d = PatchedCode(c, {s + 1}, u)
       /\ e = Append(d, k) /\ f = PatchedCode(e, {u}, v)
  OBVIOUS
<1> HIDE DEF n, x, y, z, s, u, v, i, j, k, b, c, d, e, f, D, E, B, P
\* The condition.
<1>14. /\ b \in Seq(Instruction) /\ Len(b) = s + 1 /\ D1 \in Table /\ Sound(b, D1, places, labelled)
       /\ Arrived(asm.code, places, labelled) => Arrived(b, places, labelled)
       /\ \A a \in Aim : D1[a] = IF a = x THEN D[a] \cup {s + 1} ELSE D[a]
  <2>1. Waits(asm.code, D, places, labelled, i)
    BY <1>2, <1>4, <1>5, <1>8, <1>10 DEF Waits
  <2>2. \A a \in Aim : D1[a] = IF a = x THEN D[a] \cup {s + 1} ELSE D[a]
    BY DEF Added
  <2>3. LET g == Append(asm.code, i)
            H == Added(D, i.aim, Len(asm.code) + 1)
        IN /\ g \in Seq(Instruction) /\ Len(g) = Len(asm.code) + 1
           /\ H \in Table /\ Sound(g, H, places, labelled)
           /\ Arrived(asm.code, places, labelled) => Arrived(g, places, labelled)
    BY <2>1, Waited
  <2> QED
    BY <1>2, <1>10, <1>13, <2>2, <2>3
<1> HIDE DEF D1
\* The jump to the end.
<1>15. /\ c \in Seq(Instruction) /\ Len(c) = u /\ D2 \in Table /\ Sound(c, D2, places, labelled)
       /\ Arrived(b, places, labelled) => Arrived(c, places, labelled)
       /\ \A a \in Aim : D2[a] = IF a = y THEN D1[a] \cup {u} ELSE D1[a]
  <2>1. Waits(b, D1, places, labelled, j)
    BY <1>4, <1>5, <1>8, <1>10, <1>14 DEF Waits
  <2>2. \A a \in Aim : D2[a] = IF a = y THEN D1[a] \cup {u} ELSE D1[a]
    BY DEF Added
  <2>3. LET g == Append(b, j)
            H == Added(D1, j.aim, Len(b) + 1)
        IN /\ g \in Seq(Instruction) /\ Len(g) = Len(b) + 1
           /\ H \in Table /\ Sound(g, H, places, labelled)
           /\ Arrived(b, places, labelled) => Arrived(g, places, labelled)
    BY <2>1, Waited
  <2> QED
    BY <1>10, <1>12, <1>13, <1>14, <2>2, <2>3
<1> HIDE DEF D2
\* What waits for these two before.
<1>16. \A a \in Aim : D[a] = Below(asm, open, groups, n - 1, a) \cup (IF a = z THEN B \cap Nat ELSE {})
  <2> SUFFICES ASSUME NEW a \in Aim
               PROVE  D[a] = Below(asm, open, groups, n - 1, a) \cup (IF a = z THEN B \cap Nat ELSE {})
    OBVIOUS
  <2>1. Tops(open, n - 1, n)
    BY <1>3, <1>10 DEF Tops, Preceding
  <2>2. Waiting(asm, open, groups, a) =
          Below(asm, open, groups, n - 1, a) \cup OfTop(asm.branches[n], open[n], a)
    BY <2>1, WaitingSplit
  <2>3. OfTop(asm.branches[n], open[n], a) = IF a = z THEN B \cap Nat ELSE {}
    BY <1>1, <1>3, <1>10 DEF OfTop
  <2> QED
    BY <1>2, <2>2, <2>3
<1>17. D2[x] = {s + 1} \cap Nat /\ D1[y] = {}
  <2>1. D[x] = {} /\ D[y] = {}
    BY <1>4, <1>16
  <2>2. D1[x] = D[x] \cup {s + 1} /\ D1[y] = D[y] /\ D2[x] = D1[x]
    BY <1>4, <1>14, <1>15
  <2> QED
    BY <1>12, <2>1, <2>2
\* The other branch.
<1>18. /\ d \in Seq(Instruction) /\ Len(d) = u /\ D3 \in Table /\ Sound(d, D3, P, labelled)
       /\ Arrived(c, places, labelled) => Arrived(d, P, labelled)
       /\ \A a \in Aim : D3[a] = IF a = x THEN {} ELSE D2[a]
  <2>1. Reaches(c, D2, places, x, u, P, {s + 1})
    BY <1>2, <1>3, <1>5, <1>10, <1>12, <1>15, <1>17 DEF Reaches
  <2>2. LET g == PatchedCode(c, {s + 1}, u)
        IN /\ g \in Seq(Instruction) /\ Len(g) = Len(c)
           /\ Cleared(D2, x) \in Table /\ Sound(g, Cleared(D2, x), P, labelled)
           /\ Arrived(c, places, labelled) => Arrived(g, P, labelled)
    BY <1>15, <2>1, ReachedPlace
  <2>3. \A a \in Aim : D3[a] = IF a = x THEN {} ELSE D2[a]
    BY DEF Cleared
  <2> QED
    BY <1>13, <1>15, <2>2, <2>3
<1> HIDE DEF D3
<1>19. /\ P \in Seq(Places) /\ Len(P) = Len(places)
       /\ \A h \in 1..Len(places) : h # Top.id => P[h] = places[h]
       /\ P[Top.id].end = Nowhere
       /\ \A a \in Aim : Aimable(places, a) =>
            Aimable(P, a) /\ TargetIn(P, labelled, a) = IF a = x THEN u ELSE TargetIn(places, labelled, a)
  <2>1. u \in Int /\ places \in Seq(Places)
    BY <1>2, <1>12
  <2>2. WithPlace(places, Top.id, "other", u, P)
    BY <1>3, <1>11, <2>1 DEF WithPlace, PlaceNames
  <2>3. \A h \in 1..Len(places) : h # Top.id => P[h] = places[h]
    BY <1>2, <1>11, Types
  <2>4. /\ P \in Seq(Places) /\ Len(P) = Len(places)
        /\ \A h \in 1..Len(places), q \in PlaceNames :
             P[h][q] = IF h = Top.id /\ q = "other" THEN u ELSE places[h][q]
    BY <2>2, PlacesWith
  <2>5. P[Top.id].end = Nowhere
    BY <1>3, <1>5, <2>4 DEF PlaceNames
  <2>6. \A L : \A a \in Aim : Aimable(places, a) =>
          Aimable(P, a)
          /\ TargetIn(P, L, a) = IF a = [id |-> Top.id, place |-> "other"] THEN u ELSE TargetIn(places, L, a)
    BY <2>2, TargetWith
  <2>7. x = [id |-> Top.id, place |-> "other"]
    BY <1>10
  <2> QED
    BY <2>3, <2>4, <2>5, <2>6, <2>7
\* The break that is in it.
<1>20. /\ e \in Seq(Instruction) /\ D4 \in Table /\ Sound(e, D4, P, labelled)
       /\ Arrived(d, P, labelled) => Arrived(e, P, labelled)
       /\ \A a \in Aim : D4[a] = IF a = z THEN D3[a] \cup {v} ELSE D3[a]
  <2>1. Aimable(P, z) /\ TargetIn(P, labelled, z) = Nowhere
    BY <1>4, <1>6, <1>19
  <2>2. Waits(d, D3, P, labelled, k)
    BY <1>6, <1>8, <1>10, <1>18, <2>1 DEF Waits
  <2>3. \A a \in Aim : D4[a] = IF a = z THEN D3[a] \cup {v} ELSE D3[a]
    BY DEF Added
  <2>4. LET g == Append(d, k)
            H == Added(D3, k.aim, Len(d) + 1)
        IN /\ g \in Seq(Instruction)
           /\ H \in Table /\ Sound(g, H, P, labelled)
           /\ Arrived(d, P, labelled) => Arrived(g, P, labelled)
    BY <2>2, Waited
  <2> QED
    BY <1>10, <1>12, <1>13, <1>18, <2>3, <2>4
<1> HIDE DEF D4
<1>21. D4[y] = {u} \cap Nat
  <2>1. D4[y] = D3[y] /\ D3[y] = D2[y] /\ D2[y] = D1[y] \cup {u}
    BY <1>4, <1>15, <1>18, <1>20
  <2> QED
    BY <1>12, <1>17, <2>1
\* The end.
<1>22. /\ Sound(asm'.code, D5, places', labelled) /\ D5 \in Table
       /\ Arrived(e, P, labelled) => Arrived(asm'.code, places', labelled)
       /\ \A a \in Aim : D5[a] = IF a = y THEN {} ELSE D4[a]
  <2>1. Reaches(e, D4, P, y, v, places', {u})
    <3>1. places' = [P EXCEPT ![y.id][y.place] = v]
      BY <1>9, <1>10
    <3> QED
      BY <1>3, <1>10, <1>12, <1>19, <1>20, <1>21, <3>1 DEF Reaches
  <2>2. LET g == PatchedCode(e, {u}, v)
        IN /\ Cleared(D4, y) \in Table /\ Sound(g, Cleared(D4, y), places', labelled)
           /\ Arrived(e, P, labelled) => Arrived(g, places', labelled)
    BY <1>20, <2>1, ReachedPlace
  <2>3. \A a \in Aim : D5[a] = IF a = y THEN {} ELSE D4[a]
    BY DEF Cleared
  <2> QED
    BY <1>8, <1>13, <2>2, <2>3
<1> HIDE DEF D5
<1>23. Arrived(asm.code, places, labelled) => Arrived(asm'.code, places', labelled)
  BY <1>14, <1>15, <1>18, <1>20, <1>22
<1>24. /\ places' \in Seq(Places) /\ Len(places') = Len(places)
       /\ \A h \in 1..Len(places) : h # Top.id => places'[h] = places[h]
  <2>1. Top.id \in 1..Len(P) /\ v \in Int /\ P \in Seq(Places)
    BY <1>3, <1>12, <1>19
  <2>2. WithPlace(P, Top.id, "end", v, places')
    BY <1>9, <2>1 DEF WithPlace, PlaceNames
  <2>3. Len(P) \in Nat /\ P \in [1..Len(P) -> Places]
    BY <2>1, LenProperties
  <2>4. \A h \in 1..Len(P) : h # Top.id => places'[h] = P[h]
    BY <1>9, <2>3
  <2> QED
    BY <1>19, <2>2, <2>4, PlacesWith
<1>25. CASE asm'.fault
  <2>1. open' \in Seq(Node)
    BY <1>1, <1>2, Types, FrontAndLast
  <2>2. JInv'
    BY <1>1, <1>2, <1>8, <1>24, <1>25, <2>1, FaultEnds
  <2> QED
    BY <1>1, <1>23, <2>2 DEF Kept
<1>26. CASE ~asm'.fault
  <2>1. Popped(B \cup {v})
    BY <1>1, <1>2, <1>8, <1>10, <1>24, <1>26 DEF Popped
  <2>2. /\ Shape' /\ TypeOK'
        /\ \A a \in Aim : E[a] =
             Below(asm, open, groups, n - 1, a)
               \cup (IF Top.node \notin Loops /\ a = BreakAim(Top) THEN (B \cup {v}) \cap Nat ELSE {})
    BY <1>10, <2>1, PoppedIs DEF E
  <2>3. ASSUME NEW a \in Aim
        PROVE  E[a] = D5[a]
    <3>1. E[a] = Below(asm, open, groups, n - 1, a)
                   \cup (IF a = z THEN (B \cup {v}) \cap Nat ELSE {})
      BY <1>1, <1>10, <2>2
    <3>2. /\ D5[a] = IF a = y THEN {} ELSE D4[a]
          /\ D4[a] = IF a = z THEN D3[a] \cup {v} ELSE D3[a]
          /\ D3[a] = IF a = x THEN {} ELSE D2[a]
      BY <1>18, <1>20, <1>22
    <3>3. /\ D2[a] = IF a = y THEN D1[a] \cup {u} ELSE D1[a]
          /\ D1[a] = IF a = x THEN D[a] \cup {s + 1} ELSE D[a]
      BY <1>14, <1>15
    <3>4. D[a] = Below(asm, open, groups, n - 1, a) \cup (IF a = z THEN B \cap Nat ELSE {})
      BY <1>16
    <3>5. CASE a = x \/ a = y
      BY <1>4, <3>1, <3>2, <3>5
    <3>6. CASE a # x /\ a # y
      BY <1>12, <3>1, <3>2, <3>3, <3>4, <3>6
    <3> QED
      BY <3>5, <3>6
  <2>4. E = D5
    <3>1. E \in Table
      BY <1>8, WaitingIsTable DEF E
    <3> QED
      BY <1>22, <2>3, <3>1, SameFunction
  <2> QED
    BY <1>1, <1>22, <1>23, <2>2, <2>4 DEF Kept, JInv, E
<1> QED
  BY <1>25, <1>26

-----------------------------------------------------------------------------
(* The theorems.                                                           *)

\* Every continue is in the body of a while itself, or in none.
Straightforward == {"inner", "late"} \cap Forms = {}

LEMMA StatementsKeep ==
  ASSUME JInv, Statements
  PROVE  JInv' /\ (Straightforward => Kept)
<1>1. Kept => JInv'
  BY DEF Kept
<1>2. CASE \E node \in {"if", "?:"} \cup Loops : Open(node)
  BY <1>1, <1>2, OpenKeeps
<1>3. CASE Then \/ Else \/ End \/ Resume
  BY <1>1, <1>3, ThenKeeps, ElseKeeps, EndKeeps, ResumeKeeps
<1>4. CASE Until \/ UntilTested
  BY <1>1, <1>4, UntilKeeps, UntilTestedKeeps
<1>5. CASE \E true \in BOOLEAN : UntilConstant(true)
  BY <1>1, <1>5, UntilConstantKeeps
<1>6. CASE EndLoop \/ Break \/ Return
  BY <1>1, <1>6, EndLoopKeeps, BreakKeeps, ReturnKeeps
<1>7. CASE Continue
  BY <1>7, ContinueKeeps DEF Straightforward
<1>8. CASE \E label \in Labels : Goto(label) \/ Label(label)
  BY <1>1, <1>8, GotoKeeps, LabelKeeps
<1> QED
  BY <1>2, <1>3, <1>4, <1>5, <1>6, <1>7, <1>8 DEF Statements

LEMMA NextKeeps ==
  ASSUME JInv, [Next]_vars
  PROVE  JInv' /\ (Straightforward => Kept)
<1>1. Kept => JInv'
  BY DEF Kept
<1>2. CASE Start \/ Finish
  BY <1>1, <1>2, StartKeeps, FinishKeeps
<1>3. CASE Statements
  BY <1>3, StatementsKeep
<1>4. CASE Straight \/ Operator \/ EndGroup
  BY <1>1, <1>4, StraightKeeps, OperatorKeeps, EndGroupKeeps
<1>5. CASE \E op \in {"and", "or"} : BeginGroup(op)
  BY <1>1, <1>5, BeginGroupKeeps
<1>6. CASE UNCHANGED vars
  <2>1. JInv' /\ (Arrived(asm.code, places, labelled) => Arrived(asm.code, places, labelled)')
    BY <1>6 DEF JInv, TypeOK, Shape, PhaseOK, vars
  <2> QED
    BY <2>1 DEF Kept
<1> QED
  BY <1>2, <1>3, <1>4, <1>5, <1>6 DEF Next, Expressions, Crashed

\* The table of what waits is true of the code in every state.
THEOREM JumpsInvariance == Spec => []JInv
<1>1. Init => JInv
  BY FirstIsSound
<1>2. JInv /\ [Next]_vars => JInv'
  BY NextKeeps
<1> QED
  BY <1>1, <1>2, PTL DEF Spec

\* The stacks of the back end hold positions and nothing else, for any labels,
\* any nesting and functions of any length.
THEOREM JumpsTypeCorrect == Spec => []TypeOK
<1>1. JInv => TypeOK
  BY DEF JInv
<1> QED
  BY <1>1, JumpsInvariance, PTL

LEMMA StacksWait ==
  ASSUME TypeOK, Shape
  PROVE  /\ \A p \in ToSet(asm.returns) : \E a \in Aim : p \in TableOf(asm, open, groups)[a]
         /\ \A s \in ToSet(asm.shortcircuits) : \A p \in ToSet(s) :
              \E a \in Aim : p \in TableOf(asm, open, groups)[a]
         /\ \A b \in ToSet(asm.branches) : \A p \in ToSet(b.end_stack) :
              \E a \in Aim : p \in TableOf(asm, open, groups)[a]
<1>1. /\ asm \in Machine /\ open \in Seq(Node)
      /\ Len(asm.branches) = Len(open) /\ Len(asm.shortcircuits) = Len(groups)
      /\ asm.shortcircuits \in Seq(Seq(Nat)) /\ asm.branches \in Seq(Branch) /\ asm.returns \in Seq(Nat)
      /\ \A k \in 1..Len(open) : open[k] \in Node
      /\ \A k \in 1..Len(groups) : groups[k] \in Group
      /\ \A a \in Aim : TableOf(asm, open, groups)[a] = Waiting(asm, open, groups, a)
  BY Types, OpenNodes, WaitingIsTable DEF Shape, GroupsOK
<1>2. ASSUME NEW p \in ToSet(asm.returns)
      PROVE  \E a \in Aim : p \in TableOf(asm, open, groups)[a]
  <2>1. FunctionEnd \in Aim
    BY AimsAreAims
  <2>2. p \in Waiting(asm, open, groups, FunctionEnd)
    BY DEF Waiting, OfReturns
  <2> QED
    BY <1>1, <2>1, <2>2
<1>3. ASSUME NEW s \in ToSet(asm.shortcircuits), NEW p \in ToSet(s)
      PROVE  \E a \in Aim : p \in TableOf(asm, open, groups)[a]
  <2>0. ToSet(asm.shortcircuits) = {asm.shortcircuits[k] : k \in 1..Len(asm.shortcircuits)}
    <3>1. asm.shortcircuits \in Seq(Seq(Nat))
      BY <1>1
    <3> QED
      BY <3>1, ToSetIs
  <2>1. PICK k \in 1..Len(groups) : s = asm.shortcircuits[k]
    BY <1>1, <2>0
  <2> DEFINE a == [id |-> groups[k].id, place |-> "end"]
  <2>2. groups[k].id \in Nat
    BY <1>1 DEF Group
  <2>3. a \in Aim
    BY <2>2, AimsAreAims
  <2>4. p \in Nat
    <3>1. asm.shortcircuits[k] \in Seq(Nat)
      BY <1>1, <2>1
    <3> QED
      BY <2>1, <3>1, ToSetIs
  <2>5. p \in OfGroups(asm.shortcircuits, groups, Len(groups), a)
    BY <2>1, <2>4 DEF OfGroups
  <2> QED
    BY <1>1, <2>3, <2>5 DEF Waiting
<1>4. ASSUME NEW b \in ToSet(asm.branches), NEW p \in ToSet(b.end_stack)
      PROVE  \E a \in Aim : p \in TableOf(asm, open, groups)[a]
  <2>0. ToSet(asm.branches) = {asm.branches[k] : k \in 1..Len(asm.branches)}
    <3>1. asm.branches \in Seq(Branch)
      BY <1>1
    <3> QED
      BY <3>1, ToSetIs
  <2>1. PICK k \in 1..Len(open) : b = asm.branches[k]
    BY <1>1, <2>0
  <2> DEFINE a == BreakAim(open[k])
  <2>2. open[k].loop \in Nat
    BY <1>1 DEF Node
  <2>3. a \in Aim
    BY <2>2, AimsAreAims DEF BreakAim
  <2>4. p \in Nat
    BY <1>1, <2>1, BranchFields
  <2>5. p \in OfBreaks(asm.branches, open, Len(open), a)
    BY <2>1, <2>4 DEF OfBreaks
  <2> QED
    BY <1>1, <2>3, <2>5 DEF Waiting
<1> QED
  BY <1>2, <1>3, <1>4

\* Nothing but jumps of the function itself is ever patched, and nothing is left
\* to be patched into the next.
THEOREM OwnJumpsPatched == Spec => []PatchesOwnJumps
<1>1. JInv => PatchesOwnJumps
  <2> SUFFICES ASSUME JInv, ~asm.fault
               PROVE  /\ phase = "idle" =>
                           asm.branches = <<>> /\ asm.shortcircuits = <<>> /\ asm.returns = <<>>
                      /\ \A p \in ToSet(asm.returns) \cup (UNION {ToSet(s) : s \in ToSet(asm.shortcircuits)})
                                    \cup (UNION {ToSet(b.end_stack) : b \in ToSet(asm.branches)}) :
                           p \in 1..size(asm) /\ asm.code[p].op # "op"
    BY DEF PatchesOwnJumps
  <2>1. TypeOK /\ Shape /\ Sound(asm.code, TableOf(asm, open, groups), places, labelled)
    BY DEF JInv
  <2>2. phase = "idle" => asm.branches = <<>> /\ asm.shortcircuits = <<>> /\ asm.returns = <<>>
    BY <2>1, NothingLeft DEF Shape, PhaseOK
  <2>3. \A a \in Aim : \A p \in TableOf(asm, open, groups)[a] : p \in 1..size(asm) /\ asm.code[p].op # "op"
    BY <2>1 DEF Sound, size
  <2>4. /\ \A p \in ToSet(asm.returns) : \E a \in Aim : p \in TableOf(asm, open, groups)[a]
        /\ \A s \in ToSet(asm.shortcircuits) : \A p \in ToSet(s) :
             \E a \in Aim : p \in TableOf(asm, open, groups)[a]
        /\ \A b \in ToSet(asm.branches) : \A p \in ToSet(b.end_stack) :
             \E a \in Aim : p \in TableOf(asm, open, groups)[a]
    BY <2>1, StacksWait
  <2>5. ASSUME NEW p, p \in ToSet(asm.returns) \/ (\E s \in ToSet(asm.shortcircuits) : p \in ToSet(s))
                       \/ (\E b \in ToSet(asm.branches) : p \in ToSet(b.end_stack))
        PROVE  p \in 1..size(asm) /\ asm.code[p].op # "op"
    <3>1. \E a \in Aim : p \in TableOf(asm, open, groups)[a]
      <4>1. CASE p \in ToSet(asm.returns)
        BY <2>4, <4>1
      <4>2. CASE \E s \in ToSet(asm.shortcircuits) : p \in ToSet(s)
        BY <2>4, <4>2
      <4>3. CASE \E b \in ToSet(asm.branches) : p \in ToSet(b.end_stack)
        BY <2>4, <4>3
      <4> QED
        BY <2>5, <4>1, <4>2, <4>3
    <3> QED
      BY <2>3, <3>1
  <2>6. ASSUME NEW p \in ToSet(asm.returns) \cup (UNION {ToSet(s) : s \in ToSet(asm.shortcircuits)})
                         \cup (UNION {ToSet(b.end_stack) : b \in ToSet(asm.branches)})
        PROVE  p \in 1..size(asm) /\ asm.code[p].op # "op"
    <3>1. \/ p \in ToSet(asm.returns)
          \/ p \in UNION {ToSet(s) : s \in ToSet(asm.shortcircuits)}
          \/ p \in UNION {ToSet(b.end_stack) : b \in ToSet(asm.branches)}
      OBVIOUS
    <3>2. ASSUME p \in UNION {ToSet(s) : s \in ToSet(asm.shortcircuits)}
          PROVE  \E s \in ToSet(asm.shortcircuits) : p \in ToSet(s)
      <4>1. PICK t \in {ToSet(s) : s \in ToSet(asm.shortcircuits)} : p \in t
        BY <3>2
      <4> QED
        BY <4>1
    <3>3. p \in UNION {ToSet(b.end_stack) : b \in ToSet(asm.branches)} => \E b \in ToSet(asm.branches) : p \in ToSet(b.end_stack)
      OBVIOUS
    <3> QED
      BY <2>5, <3>1, <3>2, <3>3
  <2>7. \A p \in ToSet(asm.returns) \cup (UNION {ToSet(s) : s \in ToSet(asm.shortcircuits)})
                    \cup (UNION {ToSet(b.end_stack) : b \in ToSet(asm.branches)}) :
           p \in 1..size(asm) /\ asm.code[p].op # "op"
    BY <2>6, Zenon
  <2> QED
    BY <2>2, <2>7, Zenon
<1> QED
  BY <1>1, JumpsInvariance, PTL

\* As long as every continue is in the body of a while itself, every jump whose
\* place has been assembled goes there.
THEOREM EveryJumpArrives ==
  ASSUME {"inner", "late"} \cap Forms = {}
  PROVE  Spec => []JumpsArrive
<1>1. Straightforward
  BY DEF Straightforward
<1>2. Init => AInv
  BY FirstIsSound DEF AInv
<1>3. AInv /\ [Next]_vars => AInv'
  BY <1>1, NextKeeps DEF AInv, Kept
<1>4. AInv => JumpsArrive
  <2>1. \A a : Target(a) = TargetIn(places, labelled, a)
    BY DEF Target, TargetIn
  <2> QED
    BY <2>1 DEF AInv, Arrived, JumpsArrive, size
<1> QED
  BY <1>2, <1>3, <1>4, PTL DEF Spec

\* The labels that jumps of a finished function are aimed at.
LabelsMet ==
  phase = "idle" => \A i \in 1..size(asm) :
    asm.code[i].aim.id = ByLabel /\ asm.code[i].aim.place \in Labels => labelled[asm.code[i].aim.place] # Nowhere

\* A function that is finished has no jump that was never patched.
FinishedCode ==
  phase = "idle" /\ ~asm.fault => \A i \in 1..size(asm) :
    LET jump == asm.code[i]
    IN jump.aim # NoAim => Target(jump.aim) # Nowhere /\ jump.to = Target(jump.aim)

LEMMA LabelsStayMet ==
  ASSUME JInv, LabelsMet, [Next]_vars
  PROVE  LabelsMet'
<1>1. CASE UNCHANGED vars
  BY <1>1 DEF LabelsMet, vars, size
<1>2. CASE Finish
  <2>1. asm \in Machine /\ asm.code \in Seq(Instruction)
    BY Types DEF JInv
  <2>2. /\ asm' = asm_func_end(asm) /\ labelled' = labelled
        /\ \A i \in 1..size(asm) :
             asm.code[i].aim.id = ByLabel /\ asm.code[i].aim.place \in Labels =>
               labelled[asm.code[i].aim.place] # Nowhere
    BY <1>2 DEF Finish
  <2>3. asm'.code = PatchedCode(asm.code, ToSet(asm.returns), size(asm))
    BY <2>1, <2>2, FuncEndIs
  <2>4. /\ Len(asm.code) \in Nat
        /\ \A i \in 1..Len(asm.code) : asm.code[i] \in Instruction
    BY <2>1, CodeTypes, LenProperties
  <2>5. asm'.code = [i \in 1..Len(asm.code) |->
           IF i \in ToSet(asm.returns) THEN [asm.code[i] EXCEPT !.to = size(asm)] ELSE asm.code[i]]
    BY <2>3 DEF PatchedCode
  <2>6. Len(asm'.code) = Len(asm.code)
    BY <2>4, <2>5
  <2>7. \A i \in 1..Len(asm.code) : asm'.code[i].aim = asm.code[i].aim
    BY <2>4, <2>5 DEF Instruction
  <2> QED
    BY <2>2, <2>6, <2>7 DEF LabelsMet, size
<1>3. CASE Next /\ ~Finish /\ ~UNCHANGED vars
  <2>1. phase' # "idle"
    BY <1>3 DEF Next, Statements, Expressions, Crashed, Start, Open, Then, Else, End, Resume, Until, UntilTested,
                UntilConstant, EndLoop, Break, Continue, Goto, Label, Return, Straight, BeginGroup, Operator,
                EndGroup, InStatements, Working
  <2> QED
    BY <2>1, SMTT(30) DEF LabelsMet
<1> QED
  BY <1>1, <1>2, <1>3

\* Every jump of a function that is finished goes where it is aimed: none has
\* kept the displacement it was written with.
THEOREM FinishedFunctionsAreWhole ==
  ASSUME {"inner", "late"} \cap Forms = {}
  PROVE  Spec => []FinishedCode
<1>1. Straightforward
  BY DEF Straightforward
<1>2. Init => AInv /\ LabelsMet
  <2> SUFFICES ASSUME Init
               PROVE  AInv /\ LabelsMet
    OBVIOUS
  <2>1. size(asm) = 0 /\ 1..0 = {}
    BY EmptySeq DEF Init, size
  <2> QED
    BY <2>1, FirstIsSound DEF AInv, LabelsMet
<1>3. AInv /\ LabelsMet /\ [Next]_vars => AInv' /\ LabelsMet'
  BY <1>1, NextKeeps, LabelsStayMet DEF AInv, Kept
<1>4. AInv /\ LabelsMet => FinishedCode
  <2> SUFFICES ASSUME AInv, LabelsMet, phase = "idle", ~asm.fault, NEW i \in 1..size(asm),
                      asm.code[i].aim # NoAim
               PROVE  Target(asm.code[i].aim) # Nowhere /\ asm.code[i].to = Target(asm.code[i].aim)
    BY DEF FinishedCode
  <2> DEFINE a == asm.code[i].aim
  <2>1. /\ TypeOK /\ Shape /\ Sound(asm.code, TableOf(asm, open, groups), places, labelled)
        /\ Arrived(asm.code, places, labelled)
    BY DEF AInv, JInv
  <2>2. /\ open = <<>> /\ groups = <<>> /\ asm.returns = <<>> /\ asm \in Machine
        /\ asm.code \in Seq(Instruction) /\ i \in 1..Len(asm.code)
    BY <2>1, Types DEF Shape, PhaseOK, size
  <2>3. Target(a) = TargetIn(places, labelled, a) /\ a \in Aim
    BY <2>2, CodeTypes DEF Target, TargetIn
  <2>4. ASSUME Target(a) = Nowhere
        PROVE  FALSE
    <3>1. ~Resumes(a)
      BY <2>1, <2>2, <2>3, <2>4 DEF Arrived
    <3>2. i \in TableOf(asm, open, groups)[a]
      BY <2>1, <2>2, <2>3, <2>4, <3>1 DEF Sound
    <3>3. i \in Waiting(asm, <<>>, <<>>, a)
      BY <2>2, <2>3, <3>2, WaitingIsTable
    <3>4. OfReturns(asm.returns, a) = {}
      BY <2>2, ToSetEmpty DEF OfReturns
    <3>5. Len(<<>>) = 0 /\ 1..0 = {}
      BY EmptySeq
    <3>6. /\ OfGroups(asm.shortcircuits, <<>>, Len(<<>>), a) = {}
          /\ OfBreaks(asm.branches, <<>>, Len(<<>>), a) = {}
          /\ OfConditions(asm.branches, <<>>, Len(<<>>), a) = {}
      BY <3>5 DEF OfGroups, OfBreaks, OfConditions
    <3>7. i \in OfLabels(asm.goto_labels, a)
      BY <3>3, <3>4, <3>6 DEF Waiting
    <3>8. a.id = ByLabel /\ a.place \in Labels
      BY <3>7 DEF OfLabels
    <3>9. labelled[a.place] # Nowhere
      BY <3>8 DEF LabelsMet
    <3>10. Target(a) = labelled[a.place]
      BY <3>8 DEF Target
    <3> QED
      BY <2>4, <3>9, <3>10
  <2> QED
    BY <2>1, <2>2, <2>3, <2>4 DEF Arrived
<1> QED
  BY <1>2, <1>3, <1>4, PTL DEF Spec
=============================================================================
