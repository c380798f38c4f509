---------------------------- MODULE MCHotReload ----------------------------
(***************************************************************************)
(* Small instances of HotReload: functions f and g, a variable x, a        *)
(* constant c and an enumerator e; host is a symbol of the host program.   *)
(***************************************************************************)
EXTENDS HotReload

CONSTANTS f, g, x, c, e, host

MCKind == [n \in Names |-> CASE n \in {f, g} -> "func"
                             [] n = x        -> "data"
                             [] n = c        -> "const"
                             [] OTHER        -> "enum"]

\* A name is declared extern under its own symbol name...
OwnNames == [n \in Names |-> {n}]

\* ... or under that of any other name or of a host symbol.
AnyAlias == [n \in Names |-> SymbolNames]
=============================================================================
