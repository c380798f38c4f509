----------------------------- MODULE BuildOrder -----------------------------
(***************************************************************************)
(* What jitc_build promises a host that has appended compile tasks: every  *)
(* task is compiled exactly once and after all it #depends on, nothing is  *)
(* compiled when no such order exists, and a build that stops early says   *)
(* why.  How an order is found is left open.                               *)
(***************************************************************************)
EXTENDS FiniteSets

CONSTANT Files

VARIABLES
  pending, \* files appended since the last build
  needs,   \* files that each of them depends on
  phase,   \* "idle", or "build" while jitc_build runs
  built,   \* files compiled by the last build
  result   \* what the last call returned

vars == <<pending, needs, phase, built, result>>

Closed(P, N) == \A f \in P : N[f] \subseteq P

\* Some task is its own dependency, directly or not.
Cyclic(P, N) == \E S \in SUBSET P : S # {} /\ \A f \in S : N[f] \cap S # {}

Init ==
  /\ pending = {}
  /\ needs = [f \in Files |-> {}]
  /\ phase = "idle"
  /\ built = {}
  /\ result = "none"

AppendTask(f, D) ==
  /\ phase = "idle"
  /\ f \notin pending
  /\ pending' = pending \cup {f}
  /\ needs' = [needs EXCEPT ![f] = D]
  /\ result' = "added"
  /\ built' = {}
  /\ UNCHANGED phase

Reject ==
  /\ phase = "idle"
  /\ result' \in {"lex", "duplicate"}
  /\ built' = {}
  /\ UNCHANGED <<pending, needs, phase>>

Build ==
  /\ phase = "idle"
  /\ phase' = "build"
  /\ built' = {}
  /\ result' = "none"
  /\ UNCHANGED <<pending, needs>>

Ready(f) == f \in pending \ built /\ needs[f] \subseteq built

Compile(f) ==
  /\ phase = "build"
  /\ Closed(pending, needs) /\ ~Cyclic(pending, needs)
  /\ Ready(f)
  /\ built' = built \cup {f}
  /\ UNCHANGED <<pending, needs, phase, result>>

\* Whatever the outcome, the tasks are gone.
Return(r) ==
  /\ phase = "build"
  /\ phase' = "idle"
  /\ result' = r
  /\ pending' = {}
  /\ needs' = [f \in Files |-> {}]
  /\ UNCHANGED built

Finish == built = pending /\ Return("ok")
NoFile == built = {} /\ ~Closed(pending, needs) /\ Return("missing")
NoOrder == built = {} /\ Cyclic(pending, needs) /\ Return("cycle")
Broken == (\E f \in pending : Ready(f)) /\ Return("parse")

Next ==
  \/ \E f \in Files, D \in SUBSET Files : AppendTask(f, D)
  \/ Reject
  \/ Build
  \/ \E f \in Files : Compile(f)
  \/ Finish \/ NoFile \/ NoOrder \/ Broken

Spec == Init /\ [][Next]_vars
=============================================================================
