-------------------------- MODULE BuildTasksProofs --------------------------
(***************************************************************************)
(* Proof that jitc_build keeps the promise of BuildOrder for every set of  *)
(* files and every dependency lists: the depth first search emits a task   *)
(* after all it depends on, so a task is compiled once and after them, and *)
(* the search stops with an error only if no such order exists.            *)
(***************************************************************************)
EXTENDS BuildTasks, SequenceTheorems, WellFoundedInduction, TLAPS

States == {"absent", "unvisited", "visiting", "visited"}

\* Between two builds no task has been visited.
IdleShape ==
  phase = "idle" => frames = <<>> /\ \A f \in Files : state[f] \in {"absent", "unvisited"}

\* The tasks that have been visited are those of out, each of them once and
\* after everything it depends on.
OutSorted ==
  phase # "idle" =>
    /\ \A f \in Files : state[f] = "visited" <=> \E i \in 1..Len(out) : out[i] = f
    /\ \A i \in 1..Len(out) : \A d \in 1..Len(deps[out[i]]) :
         \E j \in 1..(i - 1) : out[j] = deps[out[i]][d]
    /\ \A i, j \in 1..Len(out) : out[i] = out[j] => i = j

\* The calls of jitc_dfs are the tasks being visited, each once; a call has
\* visited the dependencies before its position, and the next is the call above.
ChainOf(fs, st, dp) ==
  /\ \A k \in 1..Len(fs) :
       /\ st[fs[k].task] = "visiting"
       /\ fs[k].next \in 1..(Len(dp[fs[k].task]) + 1)
       /\ \A j \in 1..(fs[k].next - 1) : st[dp[fs[k].task][j]] = "visited"
  /\ \A k \in 1..(Len(fs) - 1) :
       /\ fs[k].next <= Len(dp[fs[k].task])
       /\ dp[fs[k].task][fs[k].next] = fs[k + 1].task
  /\ \A i, j \in 1..Len(fs) : fs[i].task = fs[j].task => i = j
  /\ \A f \in Files : st[f] = "visiting" => \E k \in 1..Len(fs) : fs[k].task = f

Chain == ChainOf(frames, state, deps)

\* Nothing is compiled before everything is sorted, and then it is a prefix.
Compiling ==
  /\ phase = "sort" => count = 0 /\ built = {}
  /\ phase = "compile" =>
       /\ frames = <<>>
       /\ count <= Len(out)
       /\ \A f \in Files : state[f] \in {"absent", "visited"}
       /\ built = {out[j] : j \in 1..count}

SearchTypes ==
  /\ deps \in [Files -> Seq(Files)]
  /\ state \in [Files -> States]
  /\ phase \in {"idle", "sort", "compile"}
  /\ frames \in Seq(Frame)
  /\ out \in Seq(Files)
  /\ count \in Nat

Inv == SearchTypes /\ IdleShape /\ OutSorted /\ Chain /\ Compiling

\* A new context has no tasks and no search.
LEMMA InitInv == Init => Inv
BY DEF Init, Inv, SearchTypes, States, IdleShape, OutSorted, Chain, ChainOf, Compiling

\* A call of the host between two builds, and any return of jitc_build.
LEMMA IdleStep ==
  ASSUME deps' \in [Files -> Seq(Files)], state' \in [Files -> {"absent", "unvisited"}],
         phase' = "idle", frames' = <<>>, out' \in Seq(Files), count' \in Nat
  PROVE  Inv'
BY DEF Inv, SearchTypes, States, IdleShape, OutSorted, Chain, ChainOf, Compiling, Frame

\* Every way jitc_build returns clears the tasks and ends the search.
LEMMA ReturnStep ==
  ASSUME Inv, NEW r, Return(r), out' = out, count' = count
  PROVE  Inv'
BY IdleStep DEF Inv, SearchTypes, Return

\* Appending a task, or failing to, while no build runs.
LEMMA HostStep ==
  ASSUME Inv,
         \/ \E f \in Files, d \in DepLists : AppendTask(f, d)
         \/ AppendFails
  PROVE  Inv'
<1>1. /\ phase = "idle" /\ phase' = "idle" /\ frames' = <<>> /\ out' = <<>> /\ count' = 0
  BY DEF AppendTask, AppendFails, Appending, Inv, IdleShape
<1>2. deps' \in [Files -> Seq(Files)] /\ state' \in [Files -> {"absent", "unvisited"}]
  <2>1. deps \in [Files -> Seq(Files)] /\ state \in [Files -> {"absent", "unvisited"}]
    BY <1>1 DEF Inv, SearchTypes, IdleShape
  <2> QED
    BY <2>1, DepAssumption DEF AppendTask, AppendFails
<1> QED
  BY <1>1, <1>2, IdleStep

\* The call of jitc_build starts an empty search.
LEMMA BuildStep == ASSUME Inv, NEW cb \in BOOLEAN, Build(cb) PROVE Inv'
<1> USE DEF Inv, Build
<1>1. SearchTypes'
  BY DEF SearchTypes
<1>2. OutSorted' /\ Chain' /\ Compiling' /\ IdleShape'
  BY DEF SearchTypes, IdleShape, OutSorted, Chain, ChainOf, Compiling
<1> QED
  BY <1>1, <1>2

\* A new call of jitc_dfs on top of the others, for the dependency they want.
LEMMA EnterStep ==
  ASSUME Inv, phase = "sort", NEW t \in Files, Enter(t),
         frames # <<>> => /\ Top.next <= Len(deps[Top.task])
                          /\ Wanted = t,
         UNCHANGED <<deps, count, built>>
  PROVE  Inv'
<1> USE DEF Inv
<1>1. /\ deps \in [Files -> Seq(Files)] /\ state \in [Files -> States]
      /\ frames \in Seq(Frame) /\ out \in Seq(Files)
      /\ state[t] = "unvisited" /\ state' = [state EXCEPT ![t] = "visiting"]
      /\ frames' = Append(frames, [task |-> t, next |-> 1])
      /\ UNCHANGED <<phase, out>>
  BY DEF SearchTypes, Enter
<1>2. SearchTypes'
  BY <1>1 DEF SearchTypes, States, Frame
<1>3. OutSorted'
  BY <1>1 DEF OutSorted
<1>4. /\ Len(frames') = Len(frames) + 1
      /\ frames'[Len(frames) + 1] = [task |-> t, next |-> 1]
      /\ \A k \in 1..Len(frames) : frames'[k] = frames[k] /\ frames[k].task \in Files
  <2>1. [task |-> t, next |-> 1] \in Frame
    BY DEF Frame
  <2>2. \A k \in 1..Len(frames) : frames[k] \in Frame
    BY <1>1
  <2>3. \A k \in 1..Len(frames) : frames[k].task \in Files
    BY <2>2 DEF Frame
  <2> HIDE DEF Frame
  <2> QED
    BY <1>1, <2>1, <2>3
<1>5. \A k \in 1..Len(frames) : frames[k].task # t
  BY <1>1 DEF Chain, ChainOf
<1>6. Chain'
  <2>1. \A k \in 1..Len(frames') :
          /\ state'[frames'[k].task] = "visiting"
          /\ frames'[k].next \in 1..(Len(deps'[frames'[k].task]) + 1)
          /\ \A j \in 1..(frames'[k].next - 1) : state'[deps'[frames'[k].task][j]] = "visited"
    <3> SUFFICES ASSUME NEW k \in 1..Len(frames')
                 PROVE  /\ state'[frames'[k].task] = "visiting"
                        /\ frames'[k].next \in 1..(Len(deps[frames'[k].task]) + 1)
                        /\ \A j \in 1..(frames'[k].next - 1) :
                             state'[deps[frames'[k].task][j]] = "visited"
      OBVIOUS
    <3>1. CASE k \in 1..Len(frames)
      BY <1>1, <1>4, <1>5, <3>1 DEF Chain, ChainOf
    <3>2. CASE k = Len(frames) + 1
      BY <1>1, <1>4, <3>2
    <3> QED
      BY <1>4, <3>1, <3>2
  <2>2. \A k \in 1..(Len(frames') - 1) :
          /\ frames'[k].next <= Len(deps'[frames'[k].task])
          /\ deps'[frames'[k].task][frames'[k].next] = frames'[k + 1].task
    <3> SUFFICES ASSUME NEW k \in 1..Len(frames)
                 PROVE  /\ frames[k].next <= Len(deps[frames[k].task])
                        /\ deps[frames[k].task][frames[k].next] = frames'[k + 1].task
      BY <1>4
    <3>1. CASE k = Len(frames)
      BY <1>4, <3>1 DEF Top, Wanted
    <3>2. CASE k # Len(frames)
      <4>1. Len(frames) \in Nat /\ k \in 1..(Len(frames) - 1) /\ k + 1 \in 1..Len(frames)
        BY <1>1, <3>2
      <4> QED
        BY <1>4, <4>1 DEF Chain, ChainOf
    <3> QED
      BY <3>1, <3>2
  <2>3. \A i, j \in 1..Len(frames') : frames'[i].task = frames'[j].task => i = j
    <3>1. \A i, j \in 1..Len(frames) : frames[i].task = frames[j].task => i = j
      BY DEF Chain, ChainOf
    <3>2. Len(frames) \in Nat /\ \A k \in 1..Len(frames') : k \in 1..Len(frames) \/ k = Len(frames) + 1
      BY <1>1, <1>4
    <3>3. ASSUME NEW i \in 1..Len(frames'), NEW j \in 1..Len(frames'),
                 frames'[i].task = frames'[j].task
          PROVE  i = j
      <4>1. CASE i \in 1..Len(frames) /\ j \in 1..Len(frames)
        BY <1>4, <3>1, <3>3, <4>1
      <4>2. CASE i = Len(frames) + 1 \/ j = Len(frames) + 1
        BY <1>4, <1>5, <3>2, <3>3, <4>2
      <4> QED
        BY <3>2, <4>1, <4>2
    <3> QED
      BY <3>3
  <2>4. \A f \in Files : state'[f] = "visiting" => \E k \in 1..Len(frames') : frames'[k].task = f
    <3> SUFFICES ASSUME NEW f \in Files, state'[f] = "visiting"
                 PROVE  \E k \in 1..Len(frames') : frames'[k].task = f
      OBVIOUS
    <3>1. CASE f = t
      BY <1>1, <1>4, <3>1
    <3>2. CASE f # t
      <4>1. PICK k \in 1..Len(frames) : frames[k].task = f
        BY <1>1, <3>2 DEF Chain, ChainOf
      <4> QED
        BY <1>4, <4>1
    <3> QED
      BY <3>1, <3>2
  <2> QED
    BY <2>1, <2>2, <2>3, <2>4 DEF Chain, ChainOf
<1>7. Compiling' /\ IdleShape'
  BY <1>1 DEF Compiling, IdleShape
<1> QED
  BY <1>2, <1>3, <1>6, <1>7

\* Advancing changes the position of the top call and nothing else.
LEMMA AdvancedFrames ==
  ASSUME NEW fs \in Seq(Frame), fs # <<>>, NEW n, n = Len(fs)
  PROVE  /\ n \in Nat /\ n >= 1
         /\ \A k \in 1..n : fs[k].task \in Files /\ fs[k].next \in Nat
         /\ Advanced(fs) \in Seq(Frame) /\ Len(Advanced(fs)) = n
         /\ \A k \in 1..n : Advanced(fs)[k].task = fs[k].task
         /\ \A k \in 1..n : k # n => Advanced(fs)[k] = fs[k]
         /\ Advanced(fs)[n].next = fs[n].next + 1
<1> DEFINE top == [fs[n] EXCEPT !.next = @ + 1]
<1>1. n \in Nat /\ n >= 1 /\ n \in 1..Len(fs) /\ \A k \in 1..n : fs[k] \in Frame
  OBVIOUS
<1>2. \A k \in 1..n : fs[k].task \in Files /\ fs[k].next \in Nat
  BY <1>1 DEF Frame
<1>3. top \in Frame /\ top.task = fs[n].task /\ top.next = fs[n].next + 1
  <2>1. fs[n] \in Frame
    BY <1>1
  <2> QED
    BY <2>1 DEF Frame
<1>4. Advanced(fs) = [fs EXCEPT ![n] = top]
  BY DEF Advanced
<1> HIDE DEF top, Frame
<1>5. Advanced(fs) \in Seq(Frame) /\ Len(Advanced(fs)) = n
  BY <1>1, <1>3, <1>4
<1>6. \A k \in 1..n : Advanced(fs)[k] = IF k = n THEN top ELSE fs[k]
  BY <1>1, <1>4
<1> QED
  BY <1>1, <1>2, <1>3, <1>5, <1>6

\* A call goes on to its next dependency once that dependency is visited.
LEMMA AdvanceChain ==
  ASSUME NEW dp \in [Files -> Seq(Files)], NEW st \in [Files -> States],
         NEW fs \in Seq(Frame), fs # <<>>, NEW n, n = Len(fs),
         NEW gs, gs = Advanced(fs),
         ChainOf(fs, st, dp),
         fs[n].next <= Len(dp[fs[n].task]),
         st[dp[fs[n].task][fs[n].next]] = "visited"
  PROVE  gs \in Seq(Frame) /\ ChainOf(gs, st, dp)
<1>1. /\ n \in Nat /\ n >= 1
      /\ \A k \in 1..n : fs[k].task \in Files /\ fs[k].next \in Nat
      /\ gs \in Seq(Frame) /\ Len(gs) = n
      /\ \A k \in 1..n : gs[k].task = fs[k].task
      /\ \A k \in 1..n : k # n => gs[k] = fs[k]
      /\ gs[n].next = fs[n].next + 1
  BY AdvancedFrames
<1>2. /\ \A k \in 1..n :
           /\ st[fs[k].task] = "visiting"
           /\ fs[k].next \in 1..(Len(dp[fs[k].task]) + 1)
           /\ \A j \in 1..(fs[k].next - 1) : st[dp[fs[k].task][j]] = "visited"
      /\ \A k \in 1..(n - 1) :
           /\ fs[k].next <= Len(dp[fs[k].task])
           /\ dp[fs[k].task][fs[k].next] = fs[k + 1].task
      /\ \A i, j \in 1..n : fs[i].task = fs[j].task => i = j
      /\ \A f \in Files : st[f] = "visiting" => \E k \in 1..n : fs[k].task = f
  BY DEF ChainOf
<1>3. ASSUME NEW k \in 1..n
      PROVE  /\ st[gs[k].task] = "visiting"
             /\ gs[k].next \in 1..(Len(dp[gs[k].task]) + 1)
             /\ \A j \in 1..(gs[k].next - 1) : st[dp[gs[k].task][j]] = "visited"
  <2>1. gs[k].task = fs[k].task
    BY <1>1
  <2>2. CASE k # n
    <3>1. gs[k] = fs[k]
      BY <1>1, <2>2
    <3> QED
      BY <1>2, <3>1
  <2>3. CASE k = n
    <3>1. /\ st[fs[n].task] = "visiting"
          /\ fs[n].next \in 1..(Len(dp[fs[n].task]) + 1)
          /\ \A j \in 1..(fs[n].next - 1) : st[dp[fs[n].task][j]] = "visited"
      BY <1>2, <2>3
    <3>2. gs[n].next = fs[n].next + 1 /\ Len(dp[fs[n].task]) \in Nat /\ fs[n].next \in Nat
      BY <1>1
    <3>3. gs[k].next \in 1..(Len(dp[fs[k].task]) + 1)
      BY <2>3, <3>1, <3>2
    <3>4. ASSUME NEW j \in 1..(gs[k].next - 1)
          PROVE  st[dp[fs[k].task][j]] = "visited"
      <4>1. j \in 1..(fs[n].next - 1) \/ j = fs[n].next
        BY <2>3, <3>2
      <4> QED
        BY <2>3, <3>1, <4>1
    <3> QED
      BY <2>1, <2>3, <3>1, <3>3, <3>4
  <2> QED
    BY <2>2, <2>3
<1>4. ASSUME NEW k \in 1..(n - 1)
      PROVE  /\ gs[k].next <= Len(dp[gs[k].task])
             /\ dp[gs[k].task][gs[k].next] = gs[k + 1].task
  <2>1. k \in 1..n /\ k + 1 \in 1..n /\ k # n
    BY <1>1
  <2>2. gs[k] = fs[k] /\ gs[k + 1].task = fs[k + 1].task
    BY <1>1, <2>1
  <2> QED
    BY <1>2, <2>2
<1>5. ASSUME NEW i \in 1..n, NEW j \in 1..n, gs[i].task = gs[j].task
      PROVE  i = j
  <2>1. gs[i].task = fs[i].task /\ gs[j].task = fs[j].task
    BY <1>1
  <2> QED
    BY <1>2, <1>5, <2>1
<1>6. ASSUME NEW f \in Files, st[f] = "visiting"
      PROVE  \E k \in 1..n : gs[k].task = f
  <2>1. PICK k \in 1..n : fs[k].task = f
    BY <1>2, <1>6
  <2>2. gs[k].task = f
    BY <1>1, <2>1
  <2> QED
    BY <2>2
<1>7. Len(gs) = n /\ gs \in Seq(Frame)
  BY <1>1
<1>8. ChainOf(gs, st, dp)
  BY <1>3, <1>4, <1>5, <1>6, <1>7 DEF ChainOf
<1> QED
  BY <1>7, <1>8

\* A dependency that has been visited is skipped.
LEMMA VisitOldStep ==
  ASSUME Inv, VisitOld
  PROVE  Inv'
<1>1. /\ deps \in [Files -> Seq(Files)] /\ state \in [Files -> States]
      /\ frames \in Seq(Frame) /\ frames # <<>> /\ Chain
      /\ state[deps[Top.task][Top.next]] = "visited" /\ Top.next <= Len(deps[Top.task])
      /\ frames' = Advanced(frames) /\ phase = "sort"
      /\ UNCHANGED <<deps, state, phase, out, count, built>>
  BY DEF Inv, SearchTypes, VisitOld, Visiting, Wanted
<1>2. Advanced(frames) \in Seq(Frame) /\ ChainOf(Advanced(frames), state, deps)
  BY <1>1, AdvanceChain DEF Chain, Top
<1>3. SearchTypes' /\ Chain'
  BY <1>1, <1>2 DEF Inv, SearchTypes, Chain
<1>4. OutSorted'
  BY <1>1 DEF Inv, OutSorted
<1>5. IdleShape' /\ Compiling'
  BY <1>1 DEF Inv, IdleShape, Compiling
<1> QED
  BY <1>3, <1>4, <1>5 DEF Inv

\* A call returns: everything its task depends on has been visited.
LEMMA LeaveStep ==
  ASSUME Inv, Leave
  PROVE  Inv'
<1> DEFINE n == Len(frames)
           t == frames[n].task
           rest == SubSeq(frames, 1, n - 1)
<1>1. /\ deps \in [Files -> Seq(Files)] /\ state \in [Files -> States]
      /\ frames \in Seq(Frame) /\ frames # <<>> /\ out \in Seq(Files) /\ count \in Nat
      /\ phase = "sort" /\ Chain /\ OutSorted /\ Compiling
      /\ frames[n].next > Len(deps[t])
      /\ state' = [state EXCEPT ![t] = "visited"]
      /\ out' = Append(out, t)
      /\ frames' = Advanced(rest)
      /\ UNCHANGED <<deps, phase, count, built>>
  BY DEF Inv, SearchTypes, Leave, Top
<1>2. n \in Nat /\ n >= 1 /\ \A k \in 1..n : frames[k] \in Frame
  BY <1>1
<1>3. \A k \in 1..n : frames[k].task \in Files /\ frames[k].next \in Nat
  BY <1>2 DEF Frame
<1>4. /\ \A k \in 1..n :
           /\ state[frames[k].task] = "visiting"
           /\ frames[k].next \in 1..(Len(deps[frames[k].task]) + 1)
           /\ \A j \in 1..(frames[k].next - 1) : state[deps[frames[k].task][j]] = "visited"
      /\ \A k \in 1..(n - 1) :
           /\ frames[k].next <= Len(deps[frames[k].task])
           /\ deps[frames[k].task][frames[k].next] = frames[k + 1].task
      /\ \A i, j \in 1..n : frames[i].task = frames[j].task => i = j
      /\ \A f \in Files : state[f] = "visiting" => \E k \in 1..n : frames[k].task = f
  BY <1>1 DEF Chain, ChainOf
<1>5. t \in Files /\ state[t] = "visiting" /\ Len(deps[t]) \in Nat
      /\ \A j \in 1..Len(deps[t]) : deps[t][j] \in Files /\ state[deps[t][j]] = "visited"
  <2>1. n \in 1..n /\ t \in Files /\ deps[t] \in Seq(Files)
    <3>1. n \in 1..n
      BY <1>2
    <3>2. t \in Files
      BY <1>3, <3>1
    <3> HIDE DEF t
    <3> QED
      BY <1>1, <3>1, <3>2
  <2>2. frames[n].next = Len(deps[t]) + 1
    <3>1. frames[n].next \in 1..(Len(deps[t]) + 1) /\ frames[n].next > Len(deps[t])
      BY <1>1, <1>4, <2>1
    <3>2. Len(deps[t]) \in Nat
      BY <2>1
    <3> HIDE DEF n, t
    <3> QED
      BY <3>1, <3>2
  <2>3. \A j \in 1..Len(deps[t]) : state[deps[t][j]] = "visited"
    BY <1>4, <2>1, <2>2
  <2>4. state[t] = "visiting"
    BY <1>4, <2>1
  <2>5. Len(deps[t]) \in Nat /\ \A j \in 1..Len(deps[t]) : deps[t][j] \in Files
    <3> HIDE DEF t
    <3> QED
      BY <2>1
  <2> HIDE DEF t
  <2> QED
    BY <2>1, <2>3, <2>4, <2>5
<1>6. /\ rest \in Seq(Frame) /\ Len(rest) = n - 1
      /\ \A k \in 1..(n - 1) : rest[k] = frames[k]
  <2>1. n - 1 \in Nat /\ \A k \in 1..(n - 1) : frames[k] \in Frame
    BY <1>2
  <2> HIDE DEF n
  <2> QED
    BY <2>1, SubSeqProperties
<1>7. \A f \in Files : state'[f] = IF f = t THEN "visited" ELSE state[f]
  BY <1>1
<1> HIDE DEF n, t, rest
<1>8. \A k \in 1..(n - 1) : k \in 1..n /\ k # n /\ frames[k].task # t
  <2>1. n \in 1..n /\ frames[n].task = t
    BY <1>2 DEF t
  <2> QED
    BY <1>2, <1>4, <2>1
<1>9. ChainOf(rest, state', deps)
  <2>1. ASSUME NEW k \in 1..(n - 1)
        PROVE  /\ state'[rest[k].task] = "visiting"
               /\ rest[k].next \in 1..(Len(deps[rest[k].task]) + 1)
               /\ \A j \in 1..(rest[k].next - 1) : state'[deps[rest[k].task][j]] = "visited"
    <3>1. rest[k] = frames[k] /\ k \in 1..n /\ frames[k].task \in Files /\ frames[k].task # t
      BY <1>3, <1>6, <1>8
    <3>2. /\ state[frames[k].task] = "visiting"
          /\ frames[k].next \in 1..(Len(deps[frames[k].task]) + 1)
          /\ \A j \in 1..(frames[k].next - 1) : state[deps[frames[k].task][j]] = "visited"
      BY <1>4, <3>1
    <3>3. deps[frames[k].task] \in Seq(Files)
      BY <1>1, <3>1
    <3>4. ASSUME NEW j \in 1..(frames[k].next - 1)
          PROVE  state'[deps[frames[k].task][j]] = "visited"
      <4>1. j \in 1..Len(deps[frames[k].task])
        BY <3>2, <3>3
      <4>2. deps[frames[k].task][j] \in Files
        BY <3>3, <4>1
      <4> QED
        BY <1>7, <3>2, <4>2
    <3> QED
      BY <1>7, <3>1, <3>2, <3>4
  <2>2. ASSUME NEW k \in 1..(n - 2)
        PROVE  /\ rest[k].next <= Len(deps[rest[k].task])
               /\ deps[rest[k].task][rest[k].next] = rest[k + 1].task
    <3>1. k \in 1..(n - 1) /\ k + 1 \in 1..(n - 1)
      BY <1>2
    <3> QED
      BY <1>4, <1>6, <3>1
  <2>3. ASSUME NEW i \in 1..(n - 1), NEW j \in 1..(n - 1), rest[i].task = rest[j].task
        PROVE  i = j
    <3>1. i \in 1..n /\ j \in 1..n
      BY <1>8
    <3>2. frames[i].task = frames[j].task
      BY <1>6, <2>3
    <3> QED
      BY <1>4, <3>1, <3>2
  <2>4. ASSUME NEW f \in Files, state'[f] = "visiting"
        PROVE  \E k \in 1..(n - 1) : rest[k].task = f
    <3>1. f # t /\ state[f] = "visiting"
      BY <1>7, <2>4
    <3>2. PICK k \in 1..n : frames[k].task = f
      BY <1>4, <3>1
    <3>3. k \in 1..(n - 1)
      BY <1>2, <3>1, <3>2 DEF t
    <3> QED
      BY <1>6, <3>2, <3>3
  <2>5. Len(rest) = n - 1 /\ (n - 1) - 1 = n - 2
    BY <1>2, <1>6
  <2> QED
    BY <2>1, <2>2, <2>3, <2>4, <2>5 DEF ChainOf
<1>10. /\ state' \in [Files -> States]
       /\ out' \in Seq(Files) /\ Len(out') = Len(out) + 1 /\ out'[Len(out) + 1] = t
       /\ \A i \in 1..Len(out) : out'[i] = out[i]
  BY <1>1, <1>5 DEF States
<1>11. frames' \in Seq(Frame) /\ Chain'
  <2>1. CASE rest = <<>>
    BY <1>1, <1>6, <1>9, <2>1 DEF Advanced, Chain
  <2>2. CASE rest # <<>>
    <3>1. n - 1 >= 1 /\ n - 1 \in 1..(n - 1) /\ (n - 1) + 1 = n
      BY <1>2, <1>6, <2>2
    <3>2. rest[n - 1] = frames[n - 1]
      BY <1>6, <3>1
    <3>3. /\ frames[n - 1].next <= Len(deps[frames[n - 1].task])
          /\ deps[frames[n - 1].task][frames[n - 1].next] = t
      BY <1>4, <3>1 DEF t
    <3>4. state'[t] = "visited"
      BY <1>5, <1>7
    <3>5. Advanced(rest) \in Seq(Frame) /\ ChainOf(Advanced(rest), state', deps)
      BY <1>1, <1>6, <1>9, <1>10, <2>2, <3>2, <3>3, <3>4, AdvanceChain
    <3> QED
      BY <1>1, <3>5 DEF Chain
  <2> QED
    BY <2>1, <2>2
<1>12. OutSorted'
  <2>1. /\ \A f \in Files : state[f] = "visited" <=> \E i \in 1..Len(out) : out[i] = f
        /\ \A i \in 1..Len(out) : \A d \in 1..Len(deps[out[i]]) :
             \E j \in 1..(i - 1) : out[j] = deps[out[i]][d]
        /\ \A i, j \in 1..Len(out) : out[i] = out[j] => i = j
    BY <1>1 DEF OutSorted
  <2>2. Len(out) \in Nat
    BY <1>1
  <2>3. \A i \in 1..Len(out) : out[i] # t
    BY <1>5, <2>1
  <2>4. ASSUME NEW f \in Files
        PROVE  state'[f] = "visited" <=> \E i \in 1..(Len(out) + 1) : out'[i] = f
    BY <1>7, <1>10, <2>1, <2>2
  <2>5. ASSUME NEW i \in 1..(Len(out) + 1), NEW d \in 1..Len(deps[out'[i]])
        PROVE  \E j \in 1..(i - 1) : out'[j] = deps[out'[i]][d]
    <3>1. CASE i \in 1..Len(out)
      <4>1. PICK j \in 1..(i - 1) : out[j] = deps[out[i]][d]
        BY <1>10, <2>1, <2>5, <3>1
      <4>2. j \in 1..Len(out)
        BY <2>2, <3>1
      <4> QED
        BY <1>10, <3>1, <4>1, <4>2
    <3>2. CASE i = Len(out) + 1
      <4>1. out'[i] = t /\ d \in 1..Len(deps[t])
        BY <1>10, <2>5, <3>2
      <4>2. PICK j \in 1..Len(out) : out[j] = deps[t][d]
        BY <1>5, <2>1, <4>1
      <4> QED
        BY <1>10, <2>2, <3>2, <4>1, <4>2
    <3> QED
      BY <2>2, <3>1, <3>2
  <2>6. ASSUME NEW i \in 1..(Len(out) + 1), NEW j \in 1..(Len(out) + 1), out'[i] = out'[j]
        PROVE  i = j
    BY <1>10, <2>1, <2>2, <2>3, <2>6
  <2>7. deps' = deps /\ Len(out') = Len(out) + 1
    BY <1>1, <1>10
  <2>8. \A f \in Files : state'[f] = "visited" <=> \E i \in 1..Len(out') : out'[i] = f
    BY <2>4, <2>7
  <2>9. \A i \in 1..Len(out') : \A d \in 1..Len(deps'[out'[i]]) :
          \E j \in 1..(i - 1) : out'[j] = deps'[out'[i]][d]
    BY <2>5, <2>7
  <2>10. \A i, j \in 1..Len(out') : out'[i] = out'[j] => i = j
    BY <2>6, <2>7
  <2> QED
    BY <2>8, <2>9, <2>10 DEF OutSorted
<1> QED
  BY <1>1, <1>10, <1>11, <1>12 DEF Inv, SearchTypes, IdleShape, Compiling

-----------------------------------------------------------------------------
(* Invariance and refinement.                                              *)

\* The search ends when every task is visited.
LEMMA SortedStep == ASSUME Inv, Sorted PROVE Inv'
<1>1. SearchTypes' /\ OutSorted' /\ Chain' /\ IdleShape'
  BY DEF Inv, Sorted, SearchTypes, OutSorted, Chain, IdleShape
<1>2. Compiling'
  <2>1. \A f \in Files : state[f] \in {"absent", "visited"}
    BY DEF Inv, SearchTypes, States, Sorted, Tasks
  <2>2. count = 0 /\ built = {} /\ Len(out) \in Nat
    BY DEF Inv, SearchTypes, Sorted, Compiling
  <2> QED
    BY <2>1, <2>2 DEF Sorted, Compiling
<1> QED
  BY <1>1, <1>2 DEF Inv

\* Compiling a sorted task, or failing to.
LEMMA CompileStep == ASSUME Inv, CompileTask PROVE Inv'
<1>1. CASE Return("parse") /\ UNCHANGED <<count, built>>
  BY <1>1, ReturnStep DEF CompileTask
<1>2. CASE /\ count' = count + 1
           /\ built' = built \cup {out[count + 1]}
           /\ UNCHANGED <<deps, state, phase, frames, result>>
  <2>1. /\ phase = "compile" /\ count < Len(out) /\ UNCHANGED <<deps, out, phase, frames, state>>
        /\ count \in Nat /\ Len(out) \in Nat
    BY <1>2 DEF CompileTask, Inv, SearchTypes
  <2>2. built = {out[j] : j \in 1..count}
    BY <2>1 DEF Inv, Compiling
  <2>3. 1..(count + 1) = 1..count \cup {count + 1}
    BY <2>1
  <2>4. built' = {out[j] : j \in 1..(count + 1)}
    BY <1>2, <2>2, <2>3
  <2> QED
    BY <1>2, <2>1, <2>4
       DEF Inv, SearchTypes, OutSorted, Chain, IdleShape, Compiling
<1> QED
  BY <1>1, <1>2 DEF CompileTask

\* No step of the host or of jitc_build breaks the invariant.
LEMMA NextInv == Inv /\ [Next]_vars => Inv'
<1> SUFFICES ASSUME Inv, [Next]_vars PROVE Inv'
  OBVIOUS
<1>1. CASE UNCHANGED vars
  <2>1. UNCHANGED <<deps, state, phase, frames, out, count, built>>
    BY <1>1 DEF vars
  <2>2. SearchTypes' /\ IdleShape' /\ OutSorted'
    BY <2>1 DEF Inv, SearchTypes, IdleShape, OutSorted
  <2>3. Chain' /\ Compiling'
    BY <2>1 DEF Inv, Chain, Compiling
  <2> QED
    BY <2>2, <2>3 DEF Inv
<1>2. CASE \/ \E f \in Files, d \in DepLists : AppendTask(f, d)
           \/ AppendFails
  BY <1>2, HostStep
<1>3. CASE \E cb \in BOOLEAN : Build(cb)
  BY <1>3, BuildStep
<1>4. CASE NextRoot
  <2>1. PICK t \in Tasks : Enter(t)
    BY <1>4 DEF NextRoot
  <2> QED
    BY <1>4, <2>1, EnterStep DEF NextRoot, Tasks
<1>5. CASE VisitNew
  <2>1. /\ phase = "sort" /\ frames # <<>> /\ Top.next <= Len(deps[Top.task]) /\ Enter(Wanted)
        /\ UNCHANGED <<deps, count, built>>
    BY <1>5 DEF VisitNew, Visiting
  <2>2. Wanted \in Files
    <3>1. /\ Len(frames) \in 1..Len(frames) /\ frames[Len(frames)] \in Frame
          /\ Len(frames) \in Nat
      BY <2>1 DEF Inv, SearchTypes
    <3>2. Top.task \in Files
      BY <3>1 DEF Top, Frame
    <3>3. Top.next \in 1..(Len(deps[Top.task]) + 1)
      BY <3>1 DEF Inv, Chain, ChainOf, Top
    <3>4. deps[Top.task] \in Seq(Files)
      BY <3>2 DEF Inv, SearchTypes
    <3>5. Top.next \in 1..Len(deps[Top.task])
      BY <2>1, <3>3, <3>4
    <3> QED
      BY <3>4, <3>5 DEF Wanted
  <2> QED
    BY <2>1, <2>2, EnterStep
<1>6. CASE VisitOld
  BY <1>6, VisitOldStep
<1>7. CASE VisitMissing
  BY <1>7, ReturnStep DEF VisitMissing, Visiting
<1>8. CASE VisitCycle
  BY <1>8, ReturnStep DEF VisitCycle, Visiting
<1>9. CASE Leave
  BY <1>9, LeaveStep
<1>10. CASE Sorted
  BY <1>10, SortedStep
<1>11. CASE CompileTask
  BY <1>11, CompileStep
<1>12. CASE Finish
  BY <1>12, ReturnStep DEF Finish
<1> QED
  BY <1>1, <1>2, <1>3, <1>4, <1>5, <1>6, <1>7, <1>8, <1>9, <1>10, <1>11, <1>12 DEF Next, Sort

\* A nonempty set of positions has a smallest one.
LEMMA SmallestPosition ==
  ASSUME NEW T \in SUBSET Nat, T # {}
  PROVE  \E m \in T : \A k \in T : m <= k
<1> DEFINE R == OpToRel(<, Nat)
<1>1. \A k, m \in Nat : k < m => <<k, m>> \in R
  BY DEF OpToRel
<1>2. IsWellFoundedOn(R, Nat)
  BY NatLessThanWellFounded
<1> HIDE DEF R
<1>3. PICK m \in T : \A k \in T : ~ (<<k, m>> \in R)
  BY <1>2, WFMin
<1>4. \A k \in T : ~ (k < m)
  BY <1>1, <1>3
<1> QED
  BY <1>4

Needs == [f \in Files |-> Elements(deps[f])]

\* Once the search is over, everything a task depends on is a task, and none
\* depends on itself: the task of out with the smallest position among those of
\* a supposed cycle has its dependencies before it.
LEMMA SortedIsOrdered ==
  ASSUME Inv, phase = "compile"
  PROVE  /\ \A f \in Files : f \in Tasks <=> \E i \in 1..Len(out) : out[i] = f
         /\ Abstract!Closed(Tasks, Needs)
         /\ ~Abstract!Cyclic(Tasks, Needs)
<1>1. /\ deps \in [Files -> Seq(Files)] /\ state \in [Files -> States]
      /\ out \in Seq(Files) /\ Len(out) \in Nat
      /\ \A f \in Files : state[f] = "visited" <=> \E i \in 1..Len(out) : out[i] = f
      /\ \A i \in 1..Len(out) : \A d \in 1..Len(deps[out[i]]) :
           \E j \in 1..(i - 1) : out[j] = deps[out[i]][d]
      /\ \A f \in Files : state[f] \in {"absent", "visited"}
  BY DEF Inv, SearchTypes, OutSorted, Compiling
<1>2. \A f \in Files : f \in Tasks <=> \E i \in 1..Len(out) : out[i] = f
  BY <1>1 DEF Tasks
<1>3. ASSUME NEW i \in 1..Len(out), NEW g \in Needs[out[i]]
      PROVE  \E j \in 1..(i - 1) : out[j] = g
  <2>1. out[i] \in Files
    BY <1>1
  <2>2. PICK d \in 1..Len(deps[out[i]]) : g = deps[out[i]][d]
    BY <1>3, <2>1 DEF Needs, Elements
  <2> QED
    BY <1>1, <2>2
<1>4. Abstract!Closed(Tasks, Needs)
  <2> SUFFICES ASSUME NEW f \in Tasks, NEW g \in Needs[f]
               PROVE  g \in Tasks
    BY DEF Abstract!Closed
  <2>1. f \in Files
    BY DEF Tasks
  <2>2. PICK i \in 1..Len(out) : out[i] = f
    BY <1>2, <2>1
  <2>3. PICK j \in 1..(i - 1) : out[j] = g
    BY <1>3, <2>2
  <2>4. j \in 1..Len(out)
    BY <1>1, <2>3
  <2>5. g \in Files
    BY <1>1, <2>3, <2>4
  <2> QED
    BY <1>2, <2>3, <2>4, <2>5
<1>5. ASSUME NEW S \in SUBSET Tasks, S # {}, \A f \in S : Needs[f] \cap S # {}
      PROVE  FALSE
  <2> DEFINE T == {i \in 1..Len(out) : out[i] \in S}
  <2>1. T \in SUBSET Nat
    BY <1>1
  <2>2. T # {}
    BY <1>2, <1>5 DEF Tasks
  <2> HIDE DEF T
  <2>3. PICK m \in T : \A k \in T : m <= k
    BY <2>1, <2>2, SmallestPosition
  <2>4. m \in 1..Len(out) /\ out[m] \in S
    BY DEF T
  <2>5. PICK g \in S : g \in Needs[out[m]]
    BY <1>5, <2>4
  <2>6. PICK j \in 1..(m - 1) : out[j] = g
    BY <1>3, <2>4, <2>5
  <2>7. j \in T /\ j < m
    BY <1>1, <2>4, <2>6 DEF T
  <2> QED
    BY <2>1, <2>3, <2>7
<1> QED
  BY <1>2, <1>4, <1>5 DEF Abstract!Cyclic

\* The dependency that jitc_dfs looks at is one of a task.
LEMMA WantedIsNeeded ==
  ASSUME Inv, Visiting
  PROVE  /\ Len(frames) \in Nat /\ Len(frames) >= 1
         /\ Top.task \in Tasks /\ Wanted \in Files /\ Wanted \in Needs[Top.task]
<1>1. /\ Len(frames) \in Nat /\ Len(frames) >= 1
      /\ frames[Len(frames)] \in Frame
  BY DEF Inv, SearchTypes, Visiting
<1>2. Top.task \in Files /\ Len(frames) \in 1..Len(frames)
  BY <1>1 DEF Top, Frame
<1>3. /\ state[Top.task] = "visiting"
      /\ Top.next \in 1..(Len(deps[Top.task]) + 1)
  BY <1>1, <1>2 DEF Inv, Chain, ChainOf, Top
<1>4. deps[Top.task] \in Seq(Files)
  BY <1>2 DEF Inv, SearchTypes
<1>5. Top.next \in 1..Len(deps[Top.task])
  BY <1>3, <1>4 DEF Visiting
<1> QED
  BY <1>1, <1>2, <1>3, <1>4, <1>5 DEF Wanted, Needs, Elements, Tasks

\* When the dependency is being visited, the calls from it to the top are the
\* tasks of a cycle.
LEMMA VisitingIsCyclic ==
  ASSUME Inv, Visiting, state[Wanted] = "visiting"
  PROVE  Abstract!Cyclic(Tasks, Needs)
<1> DEFINE n == Len(frames)
<1>1. /\ n \in Nat /\ n >= 1
      /\ Top.task \in Tasks /\ Wanted \in Files /\ Wanted \in Needs[Top.task]
  BY WantedIsNeeded
<1>2. PICK first \in 1..n : frames[first].task = Wanted
  BY <1>1 DEF Inv, Chain, ChainOf
<1>3. \A k \in 1..n : frames[k] \in Frame
  BY DEF Inv, SearchTypes
<1> DEFINE S == {frames[k].task : k \in first..n}
<1>4. S \in SUBSET Tasks
  <2>1. ASSUME NEW k \in 1..n
        PROVE  frames[k].task \in Tasks
    <3>1. frames[k].task \in Files
      BY <1>3 DEF Frame
    <3>2. state[frames[k].task] = "visiting"
      BY DEF Inv, Chain, ChainOf
    <3> QED
      BY <3>1, <3>2 DEF Tasks
  <2> HIDE DEF n
  <2> QED
    BY <1>1, <1>2, <2>1
<1>5. ASSUME NEW k \in first..n
      PROVE  Needs[frames[k].task] \cap S # {}
  <2>1. CASE k = n
    <3>1. Wanted \in S
      <4> HIDE DEF n
      <4> QED
        BY <1>1, <1>2
    <3> QED
      BY <1>1, <2>1, <3>1 DEF Top
  <2>2. CASE k # n
    <3>1. k \in 1..(n - 1) /\ k \in 1..n /\ k + 1 \in first..n
      <4> HIDE DEF n
      <4> QED
        BY <1>1, <1>2, <2>2
    <3>2. /\ frames[k].next <= Len(deps[frames[k].task])
          /\ deps[frames[k].task][frames[k].next] = frames[k + 1].task
          /\ frames[k].next \in 1..(Len(deps[frames[k].task]) + 1)
      BY <3>1 DEF Inv, Chain, ChainOf
    <3>3. frames[k].task \in Files
      BY <1>3, <3>1 DEF Frame
    <3>4. deps[frames[k].task] \in Seq(Files)
      BY <3>3 DEF Inv, SearchTypes
    <3>5. frames[k + 1].task \in Needs[frames[k].task]
      <4>1. frames[k].next \in 1..Len(deps[frames[k].task])
        BY <3>2, <3>4
      <4> QED
        BY <3>2, <3>3, <4>1 DEF Needs, Elements
    <3> QED
      BY <3>1, <3>5
  <2> QED
    BY <2>1, <2>2
<1>6. S # {}
  <2> HIDE DEF n
  <2> QED
    BY <1>1, <1>2
<1> HIDE DEF S, n
<1>7. \A f \in S : Needs[f] \cap S # {}
  BY <1>5 DEF S
<1> QED
  BY <1>4, <1>6, <1>7 DEF Abstract!Cyclic

\* However jitc_build returns, the abstract build returns with the same result.
LEMMA ReturnMaps ==
  ASSUME NEW r, phase # "idle", Return(r), UNCHANGED built
  PROVE  Abstract!Return(r)
<1>1. Tasks' = {}
  BY DEF Return, Tasks
<1>2. Needs' = [f \in Files |-> {}]
  <2>1. \A f \in Files : Elements(deps'[f]) = {}
    BY DEF Return, Elements
  <2> QED
    BY <2>1 DEF Needs
<1> QED
  BY <1>1, <1>2 DEF Return, Abstract!Return, Needs

\* Appending and starting a build are the same in both specifications.
LEMMA HostMaps ==
  ASSUME \/ \E f \in Files, d \in DepLists : AppendTask(f, d)
         \/ AppendFails,
         deps \in [Files -> Seq(Files)], state \in [Files -> States]
  PROVE  Abstract!Next
<1>1. CASE AppendFails
  <2>1. Tasks' = Tasks /\ Needs' = Needs
    BY <1>1 DEF AppendFails, Tasks, Needs
  <2>2. Abstract!Reject
    BY <1>1, <2>1 DEF AppendFails, Appending, Abstract!Reject, Needs
  <2> QED
    BY <2>2 DEF Abstract!Next
<1>2. ASSUME NEW f \in Files, NEW d \in DepLists, AppendTask(f, d)
      PROVE  Abstract!Next
  <2>1. Tasks' = Tasks \cup {f} /\ f \notin Tasks
    BY <1>2 DEF AppendTask, Tasks
  <2>2. Needs' = [Needs EXCEPT ![f] = Elements(d)]
    BY <1>2 DEF AppendTask, Needs
  <2>3. Elements(d) \in SUBSET Files
    BY DepAssumption DEF Elements
  <2>4. Abstract!AppendTask(f, Elements(d))
    BY <1>2, <2>1, <2>2 DEF AppendTask, Appending, Abstract!AppendTask, Needs
  <2> QED
    BY <2>3, <2>4 DEF Abstract!Next
<1> QED
  BY <1>1, <1>2

\* Steps of the search do not show.
LEMMA SearchMaps ==
  ASSUME Inv, Sort, phase' = "sort" \/ phase' = "compile"
  PROVE  UNCHANGED Abstract!vars
<1>1. phase = "sort" /\ UNCHANGED <<deps, built, result>>
  BY DEF Sort, NextRoot, VisitNew, VisitOld, VisitMissing, VisitCycle, Leave, Sorted, Enter,
         Visiting, Return
<1>2. Tasks' = Tasks
  <2>1. CASE VisitOld \/ Sorted
    BY <2>1 DEF VisitOld, Sorted, Tasks
  <2>2. CASE Leave
    <3>1. /\ state \in [Files -> States] /\ Len(frames) \in 1..Len(frames)
          /\ state' = [state EXCEPT ![Top.task] = "visited"]
      BY <2>2 DEF Inv, SearchTypes, Leave
    <3>2. state[Top.task] = "visiting"
      BY <3>1 DEF Inv, Chain, ChainOf, Top
    <3> QED
      BY <3>1, <3>2 DEF Tasks
  <2>3. ASSUME NEW t, Enter(t)
        PROVE  Tasks' = Tasks
    BY <2>3 DEF Enter, Tasks, Inv, SearchTypes
  <2>4. CASE NextRoot \/ VisitNew
    BY <2>3, <2>4 DEF NextRoot, VisitNew
  <2>5. ~VisitMissing /\ ~VisitCycle
    BY DEF VisitMissing, VisitCycle, Return
  <2> QED
    BY <2>1, <2>2, <2>4, <2>5 DEF Sort
<1> QED
  BY <1>1, <1>2 DEF Abstract!vars

\* Compiling in the order found is compiling in some order that is allowed.
LEMMA CompileMaps ==
  ASSUME Inv, CompileTask
  PROVE  Abstract!Next
<1> DEFINE f == out[count + 1]
<1>1. /\ phase = "compile" /\ count \in Nat /\ count < Len(out) /\ Len(out) \in Nat
      /\ deps \in [Files -> Seq(Files)] /\ out \in Seq(Files)
      /\ built = {out[j] : j \in 1..count}
      /\ count + 1 \in 1..Len(out) /\ f \in Files
  BY DEF Inv, SearchTypes, CompileTask, Compiling
<1>2. /\ \A i \in 1..Len(out) : \A d \in 1..Len(deps[out[i]]) :
           \E j \in 1..(i - 1) : out[j] = deps[out[i]][d]
      /\ \A i, j \in 1..Len(out) : out[i] = out[j] => i = j
  BY <1>1 DEF Inv, OutSorted
<1>3. /\ \A g \in Files : g \in Tasks <=> \E i \in 1..Len(out) : out[i] = g
      /\ Abstract!Closed(Tasks, Needs) /\ ~Abstract!Cyclic(Tasks, Needs)
  BY <1>1, SortedIsOrdered
<1>4. f \in Tasks \ built
  <2>1. \A j \in 1..count : j \in 1..Len(out) /\ j # count + 1
    BY <1>1
  <2> HIDE DEF f
  <2>2. f = out[count + 1]
    BY DEF f
  <2> QED
    BY <1>1, <1>2, <1>3, <2>1, <2>2
<1>5. Needs[f] \subseteq built
  <2> SUFFICES ASSUME NEW d \in 1..Len(deps[f])
               PROVE  deps[f][d] \in built
    BY <1>1 DEF Needs, Elements
  <2>1. PICK j \in 1..((count + 1) - 1) : out[j] = deps[f][d]
    BY <1>1, <1>2
  <2>2. j \in 1..count
    BY <1>1, <2>1
  <2> QED
    BY <1>1, <2>1, <2>2
<1> HIDE DEF f
<1>6. Abstract!Ready(f)
  BY <1>4, <1>5 DEF Abstract!Ready, Needs
<1>7. CASE built' = built \cup {f} /\ UNCHANGED <<deps, state, phase, result>>
  <2>1. Tasks' = Tasks /\ Needs' = Needs
    BY <1>7 DEF Tasks, Needs
  <2>2. Abstract!Compile(f)
    BY <1>1, <1>3, <1>6, <1>7, <2>1 DEF Abstract!Compile, Needs
  <2> QED
    BY <1>1, <2>2 DEF Abstract!Next
<1>8. CASE Return("parse") /\ UNCHANGED built
  <2>1. Abstract!Broken
    BY <1>1, <1>4, <1>6, <1>8, ReturnMaps DEF Abstract!Broken
  <2> QED
    BY <2>1 DEF Abstract!Next
<1> QED
  BY <1>7, <1>8 DEF CompileTask, f

\* Every step is a step of BuildOrder or does not show.
LEMMA NextMaps == Inv /\ [Next]_vars => [Abstract!Next]_Abstract!vars
<1> SUFFICES ASSUME Inv, [Next]_vars PROVE [Abstract!Next]_Abstract!vars
  OBVIOUS
<1>1. CASE UNCHANGED vars
  <2>1. UNCHANGED <<deps, state, phase, built, result>>
    BY <1>1 DEF vars
  <2>2. Tasks' = Tasks
    BY <2>1 DEF Tasks
  <2> QED
    BY <2>1, <2>2 DEF Abstract!vars
<1>2. CASE \/ \E f \in Files, d \in DepLists : AppendTask(f, d)
           \/ AppendFails
  BY <1>2, HostMaps DEF Inv, SearchTypes
<1>3. CASE \E cb \in BOOLEAN : Build(cb)
  <2>1. Tasks' = Tasks /\ deps' = deps
    BY <1>3 DEF Build, Tasks
  <2>2. Abstract!Build
    BY <1>3, <2>1 DEF Build, Abstract!Build
  <2> QED
    BY <2>2 DEF Abstract!Next
<1>4. CASE Sort /\ (phase' = "sort" \/ phase' = "compile")
  BY <1>4, SearchMaps
<1>5. CASE VisitMissing
  <2>1. Return("missing") /\ phase = "sort" /\ built' = built /\ built = {}
        /\ state[Wanted] = "absent"
    BY <1>5 DEF VisitMissing, Visiting, Inv, Compiling
  <2>2. ~Abstract!Closed(Tasks, Needs)
    <3>1. /\ Top.task \in Tasks /\ Wanted \in Needs[Top.task]
          /\ Wanted \notin Tasks
      BY <1>5, <2>1, WantedIsNeeded DEF VisitMissing, Tasks
    <3> QED
      BY <3>1 DEF Abstract!Closed
  <2>3. Abstract!NoFile
    BY <2>1, <2>2, ReturnMaps DEF Abstract!NoFile, Needs
  <2> QED
    BY <2>3 DEF Abstract!Next
<1>6. CASE VisitCycle
  <2>1. Return("cycle") /\ phase = "sort" /\ built' = built /\ built = {}
    BY <1>6 DEF VisitCycle, Visiting, Inv, Compiling
  <2>2. Abstract!Cyclic(Tasks, Needs)
    BY <1>6, VisitingIsCyclic DEF VisitCycle
  <2>3. Abstract!NoOrder
    BY <2>1, <2>2, ReturnMaps DEF Abstract!NoOrder, Needs
  <2> QED
    BY <2>3 DEF Abstract!Next
<1>7. CASE CompileTask
  BY <1>7, CompileMaps
<1>8. CASE Finish
  <2>1. Return("ok") /\ phase = "compile" /\ built' = built /\ count = Len(out)
    BY <1>8 DEF Finish
  <2>2. built = Tasks
    <3>1. /\ \A g \in Files : g \in Tasks <=> \E i \in 1..Len(out) : out[i] = g
          /\ built = {out[j] : j \in 1..Len(out)}
          /\ \A j \in 1..Len(out) : out[j] \in Files
      BY <2>1, SortedIsOrdered DEF Inv, Compiling, SearchTypes
    <3> QED
      BY <3>1 DEF Tasks
  <2>3. Abstract!Finish
    BY <2>1, <2>2, ReturnMaps DEF Abstract!Finish
  <2> QED
    BY <2>3 DEF Abstract!Next
<1>9. CASE Sort
  <2>1. \/ phase' = "sort" \/ phase' = "compile"
        \/ VisitMissing \/ VisitCycle
    BY <1>9 DEF Sort, NextRoot, VisitNew, VisitOld, Leave, Sorted, Enter, Visiting
  <2> QED
    BY <1>4, <1>5, <1>6, <1>9, <2>1
<1> QED
  BY <1>1, <1>2, <1>3, <1>7, <1>8, <1>9 DEF Next

\* jitc_build implements BuildOrder for all sets of files and all dependency
\* lists: whatever is compiled is compiled once and after its dependencies, and a
\* missing file or a cycle is reported only when there is one.
THEOREM OrderedBuilds == Spec => ImplementsBuildOrder
<1>1. Init => Abstract!Init
  <2> SUFFICES ASSUME Init PROVE Abstract!Init
    OBVIOUS
  <2>1. Tasks = {} /\ Needs = [f \in Files |-> {}]
    BY DEF Init, Tasks, Needs, Elements
  <2> QED
    BY <2>1 DEF Init, Abstract!Init, Needs
<1>2. Inv /\ [Next]_vars => [Abstract!Next]_Abstract!vars
  BY NextMaps
<1> QED
  BY <1>1, <1>2, InitInv, NextInv, PTL DEF Spec, ImplementsBuildOrder, Abstract!Spec

-----------------------------------------------------------------------------
(* The cycle that is reported.                                             *)

\* The calls of jitc_dfs from the task that is met again to the top, and that
\* task once more: each of them depends on the next.
LEMMA CycleIsOne ==
  ASSUME Inv, VisitCycle
  PROVE  /\ path' \in Seq(Files) /\ Len(path') >= 2
         /\ path'[1] = path'[Len(path')]
         /\ \A i \in 1..(Len(path') - 1) : path'[i + 1] \in Elements(deps[path'[i]])
<1> DEFINE n == Len(frames)
           first == CHOOSE i \in 1..n : frames[i].task = Wanted
           m == n - first + 1
           tasks == [i \in 1..m |-> frames[first + i - 1].task]
<1>1. Visiting /\ state[Wanted] = "visiting" /\ path' = tasks \o <<Wanted>>
  BY DEF VisitCycle, Cycle
<1>2. /\ n \in Nat /\ n >= 1
      /\ Top.task \in Tasks /\ Wanted \in Files /\ Wanted \in Needs[Top.task]
  BY <1>1, WantedIsNeeded
<1>3. \E i \in 1..n : frames[i].task = Wanted
  BY <1>1, <1>2 DEF Inv, Chain, ChainOf
<1>4. first \in 1..n /\ frames[first].task = Wanted
  BY <1>3
<1>5. \A k \in 1..n : frames[k].task \in Files
  <2>1. \A k \in 1..n : frames[k] \in Frame
    BY DEF Inv, SearchTypes
  <2> QED
    BY <2>1 DEF Frame
<1>6. ASSUME NEW k \in 1..n
      PROVE  LET next == IF k = n THEN Wanted ELSE frames[k + 1].task
             IN next \in Elements(deps[frames[k].task])
  <2>1. CASE k = n
    BY <1>2, <1>5, <2>1 DEF Top, Needs
  <2>2. CASE k # n
    <3>1. k \in 1..(n - 1)
      <4> HIDE DEF n
      <4> QED
        BY <1>2, <2>2
    <3>2. /\ frames[k].next <= Len(deps[frames[k].task])
          /\ deps[frames[k].task][frames[k].next] = frames[k + 1].task
          /\ frames[k].next \in 1..(Len(deps[frames[k].task]) + 1)
      BY <3>1 DEF Inv, Chain, ChainOf
    <3>3. deps[frames[k].task] \in Seq(Files)
      BY <1>5 DEF Inv, SearchTypes
    <3>4. frames[k].next \in 1..Len(deps[frames[k].task])
      BY <3>2, <3>3
    <3> QED
      BY <2>2, <3>2, <3>4 DEF Elements
  <2> QED
    BY <2>1, <2>2
<1> HIDE DEF n, first
<1>7. m \in Nat /\ m >= 1 /\ \A i \in 1..m : first + i - 1 \in 1..n
  BY <1>2, <1>4
<1>8. tasks \in Seq(Files) /\ Len(tasks) = m
  BY <1>5, <1>7
<1>9. /\ path' \in Seq(Files) /\ Len(path') = m + 1
      /\ \A i \in 1..m : path'[i] = frames[first + i - 1].task
      /\ path'[m + 1] = Wanted
  <2>1. \A i \in 1..m : tasks[i] = frames[first + i - 1].task
    OBVIOUS
  <2> HIDE DEF m, tasks
  <2> QED
    BY <1>1, <1>2, <1>7, <1>8, <2>1, AppendProperties, ConcatProperties
<1>10. first + 1 - 1 = first /\ first + m - 1 = n
  BY <1>2, <1>4
<1>11. ASSUME NEW i \in 1..m
       PROVE  path'[i + 1] \in Elements(deps[path'[i]])
  <2> DEFINE k == first + i - 1
  <2>1. k \in 1..n /\ path'[i] = frames[k].task
    BY <1>7, <1>9
  <2>2. CASE i = m
    BY <1>6, <1>9, <1>10, <2>1, <2>2
  <2>3. CASE i # m
    <3>1. i + 1 \in 1..m /\ first + (i + 1) - 1 = k + 1 /\ k # n
      BY <1>2, <1>4, <1>7, <2>3
    <3>2. path'[i + 1] = frames[k + 1].task
      BY <1>9, <3>1
    <3> QED
      BY <1>6, <2>1, <3>1, <3>2
  <2> QED
    BY <2>2, <2>3
<1>12. path'[1] = Wanted
  BY <1>4, <1>7, <1>9, <1>10
<1> HIDE DEF m
<1> QED
  BY <1>7, <1>9, <1>11, <1>12

-----------------------------------------------------------------------------
(* The callback.                                                           *)

\* One call for every file, made before it is compiled.
Announced ==
  [i \in 1..count |-> [file |-> out[i], total |-> Len(out), done |-> i - 1]]

\* While a build runs it has announced what it has compiled and nothing else.
Following ==
  /\ phase # "idle" => result = "none"
  /\ phase = "sort" => calls = <<>>
  /\ phase = "compile" /\ callback => calls = Announced

OtherTypes ==
  /\ callback \in BOOLEAN
  /\ calls \in Seq(Call)
  /\ path \in Seq(Files)
  /\ built \subseteq Files
  /\ result \in Results

BuildInv == Inv /\ Following /\ OtherTypes /\ FollowsProgress

\* The tasks to compile are files, each in one place.
LEMMA OutDistinct ==
  ASSUME Inv, phase = "compile"
  PROVE  /\ out \in Seq(Files) /\ count \in Nat /\ count <= Len(out) /\ Len(out) \in Nat
         /\ \A i \in 1..Len(out) : out[i] \in Files /\ out[i] # NoFile
         /\ \A i, j \in 1..Len(out) : out[i] = out[j] => i = j
         /\ built = {out[j] : j \in 1..count}
<1>1. out \in Seq(Files) /\ count \in Nat /\ count <= Len(out)
  BY DEF Inv, SearchTypes, Compiling
<1>2. \A i \in 1..Len(out) : out[i] \in Files
  BY <1>1
<1>3. NoFile \notin Files
  BY FilesAssumption DEF NoFile
<1> QED
  BY <1>1, <1>2, <1>3 DEF Inv, OutSorted, Compiling

\* What one more call does to the announcements.
LEMMA CallStep ==
  ASSUME Inv, Following, OtherTypes, phase = "compile",
         NEW f \in Files \cup {NoFile}, calls' = Called(f)
  PROVE  /\ calls' \in Seq(Call)
         /\ callback => /\ Len(calls') = count + 1
                        /\ calls'[count + 1] = [file |-> f, total |-> Len(out), done |-> count]
                        /\ \A i \in 1..count :
                             calls'[i] = [file |-> out[i], total |-> Len(out), done |-> i - 1]
<1> DEFINE call == [file |-> f, total |-> Len(out), done |-> count]
<1>1. call \in Call /\ count \in Nat
  BY OutDistinct DEF Call
<1>2. calls' = IF callback THEN Append(calls, call) ELSE calls
  BY DEF Called
<1> HIDE DEF call
<1>3. calls' \in Seq(Call)
  BY <1>1, <1>2 DEF OtherTypes
<1>4. ASSUME callback
      PROVE  /\ Len(calls') = count + 1
             /\ calls'[count + 1] = call
             /\ \A i \in 1..count :
                  calls'[i] = [file |-> out[i], total |-> Len(out), done |-> i - 1]
  <2>1. calls = Announced /\ calls \in Seq(Call)
    BY <1>4 DEF Following, OtherTypes
  <2>2. Len(calls) = count
    BY <1>1, <2>1, LenProperties DEF Announced
  <2>3. \A i \in 1..count :
          calls[i] = [file |-> out[i], total |-> Len(out), done |-> i - 1]
    BY <2>1 DEF Announced
  <2> QED
    BY <1>1, <1>2, <1>4, <2>1, <2>2, <2>3, AppendProperties
<1> QED
  BY <1>3, <1>4 DEF call

\* A task is announced and compiled, or announced and the build ends.
LEMMA CompileFollows ==
  ASSUME BuildInv, CompileTask
  PROVE  Following' /\ OtherTypes' /\ FollowsProgress'
<1>1. /\ phase = "compile" /\ count < Len(out) /\ calls' = Called(out[count + 1])
      /\ UNCHANGED <<out, callback, path>> /\ result = "none"
  BY DEF CompileTask, BuildInv, Following
<1>2. /\ count \in Nat /\ Len(out) \in Nat /\ count + 1 \in 1..Len(out)
      /\ out[count + 1] \in Files
  BY <1>1, OutDistinct DEF BuildInv
<1>3. /\ calls' \in Seq(Call)
      /\ callback => /\ Len(calls') = count + 1
                     /\ calls'[count + 1] = [file |-> out[count + 1], total |-> Len(out), done |-> count]
                     /\ \A i \in 1..count :
                          calls'[i] = [file |-> out[i], total |-> Len(out), done |-> i - 1]
  BY <1>1, <1>2, CallStep DEF BuildInv
<1>4. callback => calls' = [i \in 1..(count + 1) |->
                             [file |-> out[i], total |-> Len(out), done |-> i - 1]]
  <2> SUFFICES ASSUME callback
               PROVE  calls' = [i \in 1..(count + 1) |->
                                 [file |-> out[i], total |-> Len(out), done |-> i - 1]]
    OBVIOUS
  <2>1. calls' = [i \in 1..(count + 1) |-> calls'[i]]
    BY <1>2, <1>3
  <2>2. ASSUME NEW i \in 1..(count + 1)
        PROVE  calls'[i] = [file |-> out[i], total |-> Len(out), done |-> i - 1]
    <3>1. CASE i \in 1..count
      BY <1>3, <3>1
    <3>2. CASE i = count + 1
      BY <1>2, <1>3, <3>2
    <3> QED
      BY <1>2, <3>1, <3>2
  <2> QED
    BY <2>1, <2>2
<1>5. CASE /\ count' = count + 1
           /\ built' = built \cup {out[count + 1]}
           /\ UNCHANGED <<deps, state, phase, frames, result>>
  <2>1. Following'
    BY <1>1, <1>4, <1>5 DEF Following, Announced
  <2>2. OtherTypes'
    BY <1>1, <1>2, <1>3, <1>5 DEF BuildInv, OtherTypes
  <2> QED
    BY <1>1, <1>5, <2>1, <2>2 DEF FollowsProgress
<1>6. CASE Return("parse") /\ UNCHANGED <<count, built>>
  <2>1. phase' = "idle" /\ result' = "parse"
    BY <1>6 DEF Return
  <2>2. Following' /\ OtherTypes'
    BY <1>1, <1>3, <1>6, <2>1 DEF Following, BuildInv, OtherTypes, Results
  <2>3. FollowsProgress'
    <3> SUFFICES ASSUME callback
                 PROVE  LET last == calls'[Len(calls')]
                            named == {calls'[i].file : i \in 1..Len(calls')}
                        IN /\ calls' # <<>>
                           /\ \A i \in 1..Len(calls') :
                                calls'[i].done = i - 1 /\ calls'[i].total = Len(out)
                           /\ named = built \cup {last.file} /\ last.file \notin built
      BY <1>1, <1>6, <2>1 DEF FollowsProgress
    <3>1. /\ Len(calls') = count + 1 /\ calls' # <<>>
          /\ \A i \in 1..(count + 1) :
               calls'[i].file = out[i] /\ calls'[i].done = i - 1 /\ calls'[i].total = Len(out)
      BY <1>2, <1>3, <1>4
    <3>2. /\ built = {out[j] : j \in 1..count}
          /\ \A i, j \in 1..Len(out) : out[i] = out[j] => i = j
      BY <1>1, OutDistinct DEF BuildInv
    <3>3. 1..(count + 1) = 1..count \cup {count + 1}
      BY <1>2
    <3>4. {calls'[i].file : i \in 1..Len(calls')} = {out[i] : i \in 1..(count + 1)}
      BY <3>1
    <3>5. {out[i] : i \in 1..(count + 1)} = built \cup {out[count + 1]}
      BY <3>2, <3>3
    <3>6. out[count + 1] \notin built
      <4>1. \A j \in 1..count : j \in 1..Len(out) /\ j # count + 1
        BY <1>2
      <4> QED
        BY <1>2, <3>2, <4>1
    <3>7. calls'[count + 1].file = out[count + 1]
      BY <1>2, <3>1
    <3> QED
      BY <3>1, <3>4, <3>5, <3>6, <3>7
  <2> QED
    BY <2>2, <2>3
<1> QED
  BY <1>5, <1>6 DEF CompileTask

\* All is compiled, and the closing call says so.
LEMMA FinishFollows ==
  ASSUME BuildInv, Finish
  PROVE  Following' /\ OtherTypes' /\ FollowsProgress'
<1>1. /\ phase = "compile" /\ count = Len(out) /\ calls' = Called(NoFile)
      /\ UNCHANGED <<out, count, callback, path, built>>
      /\ phase' = "idle" /\ result' = "ok"
  BY DEF Finish, Return
<1>2. count \in Nat
  BY <1>1, OutDistinct DEF BuildInv
<1>3. /\ calls' \in Seq(Call)
      /\ callback => /\ Len(calls') = count + 1
                     /\ calls'[count + 1] = [file |-> NoFile, total |-> Len(out), done |-> count]
                     /\ \A i \in 1..count :
                          calls'[i] = [file |-> out[i], total |-> Len(out), done |-> i - 1]
  BY <1>1, CallStep DEF BuildInv
<1>4. Following' /\ OtherTypes'
  BY <1>1, <1>3 DEF Following, BuildInv, OtherTypes, Results
<1>5. FollowsProgress'
  <2> SUFFICES ASSUME callback
               PROVE  LET last == calls'[Len(calls')]
                          named == {calls'[i].file : i \in 1..Len(calls')}
                      IN /\ calls' # <<>>
                         /\ \A i \in 1..Len(calls') :
                              calls'[i].done = i - 1 /\ calls'[i].total = Len(out)
                         /\ named = built \cup {NoFile} /\ last.file = NoFile
    BY <1>1 DEF FollowsProgress
  <2>1. /\ Len(calls') = count + 1 /\ calls' # <<>>
        /\ \A i \in 1..(count + 1) :
             /\ calls'[i].file = IF i = count + 1 THEN NoFile ELSE out[i]
             /\ calls'[i].done = i - 1 /\ calls'[i].total = Len(out)
    <3>1. Len(calls') = count + 1 /\ calls' # <<>>
      BY <1>2, <1>3
    <3>2. ASSUME NEW i \in 1..(count + 1)
          PROVE  /\ calls'[i].file = IF i = count + 1 THEN NoFile ELSE out[i]
                 /\ calls'[i].done = i - 1 /\ calls'[i].total = Len(out)
      <4>1. CASE i \in 1..count
        <5>1. i # count + 1
          BY <1>2, <4>1
        <5>2. calls'[i] = [file |-> out[i], total |-> Len(out), done |-> i - 1]
          BY <1>3, <4>1
        <5> QED
          BY <5>1, <5>2
      <4>2. CASE i = count + 1
        BY <1>2, <1>3, <4>2
      <4> QED
        BY <1>2, <4>1, <4>2
    <3> QED
      BY <3>1, <3>2
  <2>2. built = {out[j] : j \in 1..count}
    BY <1>1, OutDistinct DEF BuildInv
  <2>3. 1..(count + 1) = 1..count \cup {count + 1} /\ count + 1 \notin 1..count
    BY <1>2
  <2>4. {calls'[i].file : i \in 1..Len(calls')} = built \cup {NoFile}
    <3>1. \A i \in 1..count : calls'[i].file = out[i]
      BY <2>1, <2>3
    <3>2. calls'[count + 1].file = NoFile
      BY <2>1, <2>3
    <3>3. {calls'[i].file : i \in 1..(count + 1)}
            = {calls'[i].file : i \in 1..count} \cup {calls'[count + 1].file}
      BY <2>3
    <3>4. {calls'[i].file : i \in 1..count} = built
      BY <2>2, <3>1
    <3> QED
      BY <2>1, <3>2, <3>3, <3>4
  <2> QED
    BY <1>2, <2>1, <2>4
<1> QED
  BY <1>4, <1>5

\* The other steps: before the first call of a build, or between two builds.
LEMMA StepFollows ==
  ASSUME BuildInv, [Next]_vars
  PROVE  Following' /\ OtherTypes' /\ FollowsProgress'
<1> USE DEF BuildInv
<1>1. CASE UNCHANGED vars
  <2>1. Following' /\ OtherTypes'
    BY <1>1 DEF vars, Following, Announced, OtherTypes
  <2> QED
    BY <1>1, <2>1 DEF vars, FollowsProgress
<1>2. CASE (\E f \in Files, d \in DepLists : AppendTask(f, d)) \/ AppendFails
  <2>1. /\ phase = "idle" /\ phase' = "idle" /\ callback' = FALSE /\ calls' = <<>> /\ path' = <<>>
        /\ built' = {} /\ result' \in {"added", "duplicate", "lex"}
    BY <1>2 DEF AppendTask, AppendFails, Appending
  <2>2. Following'
    BY <2>1 DEF Following
  <2>3. callback' \in BOOLEAN /\ result' \in Results
    BY <2>1 DEF Results
  <2>4. calls' \in Seq(Call) /\ path' \in Seq(Files) /\ built' \subseteq Files
    BY <2>1
  <2> QED
    BY <2>1, <2>2, <2>3, <2>4 DEF OtherTypes, FollowsProgress
<1>3. ASSUME NEW cb \in BOOLEAN, Build(cb)
      PROVE  Following' /\ OtherTypes' /\ FollowsProgress'
  <2>1. /\ phase' = "sort" /\ callback' = cb /\ calls' = <<>> /\ path' = <<>>
        /\ built' = {} /\ result' = "none"
    BY <1>3 DEF Build
  <2> QED
    BY <2>1 DEF Following, OtherTypes, Results, FollowsProgress
<1>4. CASE NextRoot \/ VisitNew \/ VisitOld \/ Leave
  <2>1. phase = "sort" /\ phase' = "sort" /\ UNCHANGED <<callback, calls, path, built, result>>
    BY <1>4 DEF NextRoot, VisitNew, VisitOld, Leave, Visiting, Enter
  <2> QED
    BY <2>1 DEF Following, OtherTypes, FollowsProgress
<1>5. CASE VisitMissing \/ VisitCycle
  <2>1. /\ phase' = "idle" /\ result' \in {"missing", "cycle"}
        /\ UNCHANGED <<callback, calls, built>>
    BY <1>5 DEF VisitMissing, VisitCycle, Visiting, Return
  <2>2. path' \in Seq(Files)
    BY <1>5, CycleIsOne DEF VisitMissing, OtherTypes
  <2> QED
    BY <2>1, <2>2 DEF Following, OtherTypes, Results, FollowsProgress
<1>6. CASE Sorted
  <2>1. /\ phase = "sort" /\ phase' = "compile" /\ UNCHANGED <<callback, calls, path, built, result, count, out>>
    BY <1>6 DEF Sorted
  <2>2. count = 0 /\ calls = <<>> /\ result = "none"
    BY <2>1 DEF Inv, Compiling, Following
  <2>3. Announced' = <<>>
    BY <2>1, <2>2 DEF Announced
  <2> QED
    BY <2>1, <2>2, <2>3 DEF Following, OtherTypes, FollowsProgress
<1>7. CASE CompileTask
  BY <1>7, CompileFollows
<1>8. CASE Finish
  BY <1>8, FinishFollows
<1> QED
  BY <1>1, <1>2, <1>3, <1>4, <1>5, <1>6, <1>7, <1>8 DEF Next, Sort

\* The invariant of jitc_build and of what its callback is told.
THEOREM BuildInvariance == Spec => []BuildInv
<1>1. Init => BuildInv
  <2> SUFFICES ASSUME Init
               PROVE  BuildInv
    OBVIOUS
  <2>1. /\ phase = "idle" /\ callback = FALSE /\ calls = <<>> /\ path = <<>> /\ built = {}
        /\ result = "none"
    BY DEF Init
  <2>2. Following /\ OtherTypes
    <3>1. Following
      BY <2>1 DEF Following
    <3>2. callback \in BOOLEAN /\ result \in Results
      BY <2>1 DEF Results
    <3>3. calls \in Seq(Call) /\ path \in Seq(Files) /\ built \subseteq Files
      BY <2>1
    <3> QED
      BY <3>1, <3>2, <3>3 DEF OtherTypes
  <2>3. FollowsProgress
    BY <2>1 DEF FollowsProgress
  <2> QED
    BY InitInv, <2>2, <2>3 DEF BuildInv
<1>2. BuildInv /\ [Next]_vars => BuildInv'
  BY NextInv, StepFollows DEF BuildInv
<1> QED
  BY <1>1, <1>2, PTL DEF Spec

\* Every variable keeps its type, for any files and dependency lists.
THEOREM BuildTypeCorrect == Spec => []TypeOK
<1>1. BuildInv => TypeOK
  BY DEF BuildInv, Inv, SearchTypes, States, OtherTypes, TypeOK
<1> QED
  BY <1>1, BuildInvariance, PTL

\* A host that is called back hears of exactly the files that are compiled, in
\* their order, and of the one that failed.
THEOREM CallbackFollows == Spec => []FollowsProgress
<1>1. BuildInv => FollowsProgress
  BY DEF BuildInv
<1> QED
  BY <1>1, BuildInvariance, PTL

\* What a cycle error names is a cycle of the dependencies.
THEOREM CycleReported == Spec => ReportedCycle
<1>1. BuildInv /\ [Next]_vars =>
        [result' = "cycle" =>
           /\ Len(path') >= 2
           /\ path'[1] = path'[Len(path')]
           /\ \A i \in 1..(Len(path') - 1) : path'[i + 1] \in Elements(deps[path'[i]])]_vars
  <2> SUFFICES ASSUME BuildInv, Next, result' = "cycle"
               PROVE  VisitCycle
    BY CycleIsOne DEF BuildInv
  <2>1. phase # "idle" => result = "none"
    BY DEF BuildInv, Following
  <2> QED
    BY <2>1 DEF Next, Sort, AppendTask, AppendFails, Build, NextRoot, VisitNew, VisitOld, VisitMissing,
                Leave, Sorted, CompileTask, Finish, Return, Enter, Visiting
<1> QED
  BY <1>1, BuildInvariance, PTL DEF Spec, ReportedCycle
=============================================================================
