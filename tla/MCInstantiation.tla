--------------------------- MODULE MCInstantiation ---------------------------
EXTENDS Instantiation, TLC

Uses(t, type, n) == [k \in 1..n |-> [template |-> t, type |-> type]]

\* A body without uses, one that uses both templates and so itself, with two types,
\* and one that fills the ring and makes it grow.
MCBodies == {<<>>, Uses("g", Param, 1) \o Uses("f", "long", 1), Uses("g", "long", 5)}

\* Programs without the forms that break Complete, and programs with all of them.
MCForms == {{}, AllForms}
=============================================================================
