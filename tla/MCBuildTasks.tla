---------------------------- MODULE MCBuildTasks ----------------------------
(***************************************************************************)
(* Every dependency graph of a few files, with lists of at most MaxDeps    *)
(* entries: repetitions, files that depend on themselves and files that    *)
(* were never appended are all among them.                                 *)
(***************************************************************************)
EXTENDS BuildTasks

CONSTANT MaxDeps

MCDepLists == UNION {[1..n -> Files] : n \in 0..MaxDeps}
=============================================================================
