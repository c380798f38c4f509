----------------------------- MODULE BuildTasks -----------------------------
(***************************************************************************)
(* Compile tasks of a jitc context: the host appends files, each with the  *)
(* list of files it #depends on, and jitc_build sorts them by a depth      *)
(* first search and compiles them in that order.                           *)
(*                                                                         *)
(* The recursion of jitc_dfs is the stack frames, one record per call:     *)
(* the task and the position in its dependency list.  context->tasks is    *)
(* sorted by file name, so Files are naturals, in the order of the names.  *)
(* Whether the tokens of a task parse is up to the environment; what one   *)
(* parse, compilation and link does is HotReload.                          *)
(***************************************************************************)
EXTENDS Integers, Sequences, FiniteSets

CONSTANTS
  Files,  \* names the host gives to files
  DepLists \* dependency lists that files have

ASSUME FilesAssumption == Files \subseteq Nat
ASSUME DepAssumption == DepLists \subseteq Seq(Files)

VARIABLES
  deps,     \* jitc_build_task_t.dependencies, in the order of the file
  state,    \* jitc_build_task_t.state, "absent" for a file without a task
  phase,    \* "idle", or the part of jitc_build that runs
  frames,   \* calls of jitc_dfs that have not returned
  out,      \* tasks in the order they are to be compiled
  count,    \* tasks of out that have been compiled
  callback, \* jitc_build has been given a callback
  calls,    \* the calls it got in the current or last build
  path,     \* tasks that the last dependency-cycle error named
  built,    \* files compiled by the current or last build
  result    \* what the last call returned: "ok", or the reason of false

vars == <<deps, state, phase, frames, out, count, callback, calls, path, built, result>>

Elements(s) == {s[i] : i \in 1..Len(s)}
Frame == [task : Files, next : Nat]
Tasks == {f \in Files : state[f] # "absent"}

\* A callback without a file ends the build.
NoFile == -1
Call == [file : Files \cup {NoFile}, total : Nat, done : Nat]

Results == {"none", "added", "ok", "lex", "duplicate", "missing", "cycle", "parse"}

Init ==
  /\ deps = [f \in Files |-> <<>>]
  /\ state = [f \in Files |-> "absent"]
  /\ phase = "idle"
  /\ frames = <<>>
  /\ out = <<>>
  /\ count = 0
  /\ callback = FALSE
  /\ calls = <<>>
  /\ path = <<>>
  /\ built = {}
  /\ result = "none"

-----------------------------------------------------------------------------
(* jitc_append_task.                                                       *)

\* What the last build left behind is kept until the next call of the host.
Appending ==
  /\ phase = "idle"
  /\ out' = <<>>
  /\ count' = 0
  /\ callback' = FALSE
  /\ calls' = <<>>
  /\ path' = <<>>
  /\ built' = {}
  /\ UNCHANGED <<phase, frames>>

AppendTask(f, d) ==
  /\ Appending
  /\ state[f] = "absent"
  /\ deps' = [deps EXCEPT ![f] = d]
  /\ state' = [state EXCEPT ![f] = "unvisited"]
  /\ result' = "added"

\* The file has a task already, or does not lex or preprocess.
AppendFails ==
  /\ Appending
  /\ \/ Tasks # {} /\ result' = "duplicate"
     \/ result' = "lex"
  /\ UNCHANGED <<deps, state>>

-----------------------------------------------------------------------------
(* jitc_build: jitc_sort_builds and jitc_dfs.                              *)

Build(cb) ==
  /\ phase = "idle"
  /\ phase' = "sort"
  /\ frames' = <<>>
  /\ out' = <<>>
  /\ count' = 0
  /\ callback' = cb
  /\ calls' = <<>>
  /\ path' = <<>>
  /\ built' = {}
  /\ result' = "none"
  /\ UNCHANGED <<deps, state>>

\* However jitc_build returns, its defer clears context->tasks.
Return(r) ==
  /\ phase' = "idle"
  /\ result' = r
  /\ frames' = <<>>
  /\ state' = [f \in Files |-> "absent"]
  /\ deps' = [f \in Files |-> <<>>]

\* A call of jitc_dfs for a task that is unvisited.
Enter(t) ==
  /\ state[t] = "unvisited"
  /\ state' = [state EXCEPT ![t] = "visiting"]
  /\ frames' = Append(frames, [task |-> t, next |-> 1])
  /\ UNCHANGED <<phase, out, result>>

\* The loop of jitc_sort_builds: the next task, by name, that is unvisited.
NextRoot ==
  /\ phase = "sort"
  /\ frames = <<>>
  /\ \E t \in Tasks :
       /\ \A u \in Tasks : state[u] = "unvisited" => t <= u
       /\ Enter(t)
  /\ UNCHANGED <<deps, callback, path, count, calls, built>>

Top == frames[Len(frames)]
Wanted == deps[Top.task][Top.next]

\* The loop of jitc_dfs over the dependencies of the task on top.
Visiting ==
  /\ phase = "sort"
  /\ frames # <<>>
  /\ Top.next <= Len(deps[Top.task])
  /\ UNCHANGED <<callback, count, calls, built>>

\* Variant: the position in the dependency list is not advanced.
AdvancedNot(fs) == fs

\* The caller's loop goes on to its next dependency.
Advanced(fs) ==
  IF fs = <<>> THEN fs ELSE [fs EXCEPT ![Len(fs)].next = @ + 1]

VisitNew == Visiting /\ Enter(Wanted) /\ UNCHANGED <<deps, path>>

\* Variant: a task that is being visited counts as visited.
VisitOldOrOpen ==
  /\ Visiting
  /\ state[Wanted] \in {"visited", "visiting"}
  /\ frames' = Advanced(frames)
  /\ UNCHANGED <<deps, state, phase, out, path, result>>

VisitOld ==
  /\ Visiting
  /\ state[Wanted] = "visited"
  /\ frames' = Advanced(frames)
  /\ UNCHANGED <<deps, state, phase, out, path, result>>

VisitMissing ==
  /\ Visiting
  /\ state[Wanted] = "absent"
  /\ Return("missing")
  /\ UNCHANGED <<out, path>>

\* Variant: the whole stack is named.
CycleWhole(t) == [i \in 1..Len(frames) |-> frames[i].task] \o <<t>>

\* jitc_dfs_cycle names the stack from the task that is met again to the top,
\* and that task once more.
Cycle(t) ==
  LET first == CHOOSE i \in 1..Len(frames) : frames[i].task = t
  IN [i \in 1..(Len(frames) - first + 1) |-> frames[first + i - 1].task] \o <<t>>

VisitCycle ==
  /\ Visiting
  /\ state[Wanted] = "visiting"
  /\ path' = Cycle(Wanted)
  /\ Return("cycle")
  /\ UNCHANGED out

\* jitc_dfs returns to the call below, or to the loop of jitc_sort_builds.
Leave ==
  /\ phase = "sort"
  /\ frames # <<>>
  /\ Top.next > Len(deps[Top.task])
  /\ state' = [state EXCEPT ![Top.task] = "visited"]
  /\ out' = Append(out, Top.task)
  /\ frames' = Advanced(SubSeq(frames, 1, Len(frames) - 1))
  /\ UNCHANGED <<deps, phase, count, callback, calls, path, built, result>>

Sorted ==
  /\ phase = "sort"
  /\ frames = <<>>
  /\ \A t \in Tasks : state[t] = "visited"
  /\ phase' = "compile"
  /\ UNCHANGED <<deps, state, frames, out, count, callback, calls, path, built, result>>

-----------------------------------------------------------------------------
(* jitc_build: the loop over the sorted tasks.                             *)

\* Variant: the closing call is forgotten.
CalledForFiles(f) ==
  IF callback /\ f # NoFile
  THEN Append(calls, [file |-> f, total |-> Len(out), done |-> count]) ELSE calls

\* Variant: the number of files compiled is that before the last one.
CalledLate(f) ==
  IF callback THEN Append(calls, [file |-> f, total |-> Len(out), done |-> count - 1]) ELSE calls

\* One call of the callback, if there is one.
Called(f) ==
  IF callback THEN Append(calls, [file |-> f, total |-> Len(out), done |-> count]) ELSE calls

CompileTask ==
  /\ phase = "compile"
  /\ count < Len(out)
  /\ calls' = Called(out[count + 1])
  /\ \/ /\ count' = count + 1
        /\ built' = built \cup {out[count + 1]}
        /\ UNCHANGED <<deps, state, phase, frames, result>>
     \/ Return("parse") /\ UNCHANGED <<count, built>>
  /\ UNCHANGED <<out, callback, path>>

Finish ==
  /\ phase = "compile"
  /\ count = Len(out)
  /\ calls' = Called(NoFile)
  /\ Return("ok")
  /\ UNCHANGED <<out, count, callback, path, built>>

Sort ==
  \/ NextRoot
  \/ VisitNew
  \/ VisitOld
  \/ VisitMissing
  \/ VisitCycle
  \/ Leave
  \/ Sorted

Next ==
  \/ \E f \in Files, d \in DepLists : AppendTask(f, d)
  \/ AppendFails
  \/ \E cb \in BOOLEAN : Build(cb)
  \/ Sort
  \/ CompileTask
  \/ Finish

Spec == Init /\ [][Next]_vars

\* jitc_build is one call: it runs until it returns, and the parser is assumed
\* to return as well.
FairSpec == Spec /\ WF_vars(Sort \/ CompileTask \/ Finish)

-----------------------------------------------------------------------------
(* Properties.                                                             *)

TypeOK ==
  /\ deps \in [Files -> Seq(Files)]
  /\ state \in [Files -> {"absent", "unvisited", "visiting", "visited"}]
  /\ phase \in {"idle", "sort", "compile"}
  /\ frames \in Seq(Frame)
  /\ out \in Seq(Files)
  /\ count \in Nat
  /\ callback \in BOOLEAN
  /\ calls \in Seq(Call)
  /\ path \in Seq(Files)
  /\ built \subseteq Files
  /\ result \in Results

\* The tasks that jitc_build works on, seen as the abstract specification does.
Abstract ==
  INSTANCE BuildOrder WITH
    pending <- Tasks,
    needs <- [f \in Files |-> Elements(deps[f])],
    phase <- IF phase = "idle" THEN "idle" ELSE "build"

\* Every task is compiled once and after its dependencies, only complete and
\* acyclic sets of tasks are compiled at all, and every error is a true one.
ImplementsBuildOrder == Abstract!Spec

\* The cycle that the error message spells out is one: each file depends on the
\* next, and the last is the first.
ReportedCycle ==
  [][result' = "cycle" =>
       /\ Len(path') >= 2
       /\ path'[1] = path'[Len(path')]
       /\ \A i \in 1..(Len(path') - 1) : path'[i + 1] \in Elements(deps[path'[i]])]_vars

\* A host that follows a build by its callback knows what happened: the files it
\* heard of are those compiled, in order, and after a parse error the one file
\* more that failed; the closing call comes with success only.
FollowsProgress ==
  phase = "idle" /\ callback /\ result \in {"ok", "parse"} =>
    LET last == calls[Len(calls)]
        named == {calls[i].file : i \in 1..Len(calls)}
    IN /\ calls # <<>>
       /\ \A i \in 1..Len(calls) : calls[i].done = i - 1 /\ calls[i].total = Len(out)
       /\ result = "ok" => named = built \cup {NoFile} /\ last.file = NoFile
       /\ result = "parse" => named = built \cup {last.file} /\ last.file \notin built

\* jitc_build returns, whatever the tasks depend on.
BuildReturns == phase # "idle" ~> phase = "idle"
=============================================================================
