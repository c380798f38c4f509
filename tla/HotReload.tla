----------------------------- MODULE HotReload -----------------------------
(***************************************************************************)
(* The global symbol table of a jitc context and what hot reload does to   *)
(* it: a host hands jitc_parse one unit of source after another, each unit *)
(* declares symbols WHILE it is parsed, its definitions are compiled only  *)
(* once the whole unit has parsed, and jitc_link runs after every compiled *)
(* node and once more at the end.                                          *)
(*                                                                         *)
(* A function is entered through a trampoline that is allocated once and   *)
(* jumps through a cell holding the newest code (ptr) and the address to   *)
(* enter (curr_ptr: that code, or the link-error stub).  A variable has    *)
(* storage that is allocated once.  Both, and the value of an enumerator,  *)
(* share the union jitc_variable_t.ptr, modelled by Pointer below.         *)
(*                                                                         *)
(* A name has one type for good: a declaration with another type makes the *)
(* parse fail, which ParseError covers like every other error.             *)
(***************************************************************************)
EXTENDS Integers, Sequences, FiniteSets

CONSTANTS
  Names,       (* names the units declare at global scope                  *)
  Kind,        (* type of each name: "data", "const", "func" or "enum"     *)
  HostSymbols, (* names dlsym finds in the host program                    *)
  Aliases,     (* Aliases[n]: symbol names extern("...") may give n        *)
  Values,      (* initialisers, enumerator values and function bodies      *)
  Policies,    (* preserve policies the units spell out                    *)
  Forms,       (* source forms the units use beyond plain definitions      *)
  MaxUnit      (* bound: AST nodes of one unit                             *)

Kinds == {"data", "const", "func", "enum"}
AllForms == {"error", "prototype", "extern", "static", "localstatic"}
SymbolNames == Names \cup HostSymbols

ASSUME NamesAssumption == Kind \in [Names -> Kinds]
ASSUME AliasAssumption == Aliases \in [Names -> SUBSET SymbolNames]
ASSUME ValueAssumption == Values \subseteq Nat /\ 0 \in Values
ASSUME UseAssumption ==
  /\ Policies \subseteq {"ifconst", "always", "never"}
  /\ Forms \subseteq AllForms
  /\ MaxUnit \in Nat

VARIABLES
  sym,        (* the global scope: one jitc_variable_t per name            *)
  data,       (* contents of the storage allocated for a variable          *)
  cell,       (* jitc_func_cell_t of each trampoline: newest code, entry   *)
  unresolved, (* context->unresolved_symbol: "none" or "some"              *)
  pc,         (* where jitc_parse is, or how its last call ended           *)
  ast,        (* nodes of the unit that are still to be compiled           *)
  fault,      (* memory the JIT does not own has been written              *)
  held,       (* address the host last got for a name from jitc_get        *)
  known,      (* ghost: symbols declared when a cell's code was compiled   *)
  intent,     (* ghost: policy last spelled out for a name                 *)
  latest      (* ghost: body of the newest definition of a function        *)

vars == <<sym, data, cell, unresolved, pc, ast, fault, held, known, intent, latest>>
ghosts == <<known, intent, latest>>

Null == <<"num", 0>>
\* Values are naturals: these two are none of them.
Stub == -2
None == -1
NotHeld == <<"not held", 0>>

Pointer ==
  ({"jit"} \X Names) \cup ({"host"} \X HostSymbols) \cup ({"num"} \X Values)

Decls == {"absent", "none", "static", "extern", "enum"}

Symbol ==
  [decl : Decls, policy : {"ifconst", "always", "never"}, initial : BOOLEAN,
   link : SymbolNames, ptr : Pointer]

\* A compiled unit is a sequence of these: "decl" allocates, "init" stores an
\* initialiser, "func" compiles a body.
Node == [op : {"decl", "init", "func"}, name : Names, val : Values]

Own(n) == <<"jit", n>>
Functions == {n \in Names : Kind[n] = "func"}
Storage == {n \in Names : Kind[n] \in {"data", "const"}}
Trampolines == {Own(n) : n \in Functions}
Cells == {Own(n) : n \in Storage}

\* Symbols that jitc_link calls and relinks as functions of the program.
Linked(s) == {f \in Functions : s[f].decl \in {"none", "static"} /\ s[f].ptr # Null}

-----------------------------------------------------------------------------
(* jitc_declare_variable at global scope.                                  *)

\* A second declaration "extern" keeps the linkage of the first.
Linkage(prev, d) ==
  IF d = "extern" /\ prev.decl \in {"none", "static"} THEN prev.decl ELSE d

Accepts(prev, d) ==
  \/ prev.decl = "absent"
  \/ prev.decl = "extern" /\ d \in {"none", "static"}
  \/ prev.decl = "none" /\ d = "static"
  \/ prev.decl = "static" /\ d = "none"
  \/ prev.decl = Linkage(prev, d)

\* Variant: the policy an earlier declaration spelled out is not inherited.
ReplacingIfSpelled(n, prev, d, p) ==
  IF prev.decl = Linkage(prev, d) /\ p # "ifconst" THEN p ELSE "never"

\* The policy decides whether this declaration replaces the old one; what is
\* stored stays "ifconst" when neither declaration spells a policy out.
Replacing(n, prev, d, p) ==
  LET inherited == IF p = "ifconst" THEN prev.policy ELSE p
      default == IF Kind[n] \in {"func", "const"} THEN "never" ELSE "always"
  IN IF prev.decl # Linkage(prev, d) THEN "never"
     ELSE IF inherited # "ifconst" THEN inherited ELSE default

Redeclared(n, prev, d, p, v) ==
  [prev EXCEPT
    !.decl = Linkage(prev, d),
    !.policy = IF p = "ifconst" /\ @ = "ifconst" THEN "ifconst" ELSE Replacing(n, prev, d, p),
    !.ptr = IF d = "enum" /\ Replacing(n, prev, d, p) = "never" THEN <<"num", v>> ELSE @]

Declared(n, d, p, l, v) ==
  IF sym[n].decl = "absent"
    THEN [decl |-> d, policy |-> p, initial |-> TRUE, link |-> l, ptr |-> <<"num", v>>]
    ELSE Redeclared(n, sym[n], d, p, v)

SetIntent(n, p) == intent' = IF p = "ifconst" THEN intent ELSE [intent EXCEPT ![n] = p]

-----------------------------------------------------------------------------
(* jitc_link.                                                              *)

\* Variant: dlsym's failure is not noticed.
LookupUnchecked(s, l) ==
  IF l \in Names /\ s[l].decl \in {"none", "enum"} THEN s[l].ptr ELSE <<"host", l>>

\* jitc_get_symbol(.., normal_only), then dlsym.
Lookup(s, l) ==
  IF l \in Names /\ s[l].decl \in {"none", "enum"} THEN s[l].ptr
  ELSE IF l \in HostSymbols THEN <<"host", l>>
  ELSE Null

\* Variant: an extern symbol is looked up again by every link.
BindAgain(s) ==
  [n \in Names |-> IF s[n].decl = "extern"
                     THEN [s[n] EXCEPT !.ptr = Lookup(s, s[n].link)]
                     ELSE s[n]]

\* The first loop: an extern symbol without an address is looked up.
Bind(s) ==
  [n \in Names |-> IF s[n].decl = "extern" /\ s[n].ptr = Null
                     THEN [s[n] EXCEPT !.ptr = Lookup(s, s[n].link)]
                     ELSE s[n]]

\* Variant: only the program's own symbols count.
UnresolvedOwn(s) == {n \in Names : s[n].decl \in {"none", "static"} /\ s[n].ptr = Null}

\* Symbols that make this link leave context->unresolved_symbol set.
Unresolved(s) == {n \in Names : s[n].decl \notin {"absent", "enum"} /\ s[n].ptr = Null}

\* Variant: a function that has been linked is not linked again.
EnterOnce(s, c) ==
  [m \in Names |-> IF c[m].curr \in {None, Stub} /\ \E f \in Linked(s) : s[f].ptr = Own(m)
                     THEN [c[m] EXCEPT !.curr = IF Unresolved(s) = {} THEN c[m].code ELSE Stub]
                     ELSE c[m]]

\* The second loop.  The entry of every linked function: its newest code, or
\* the stub while any symbol at all is unresolved.
Enter(s, c) ==
  [m \in Names |-> IF \E f \in Linked(s) : s[f].ptr = Own(m)
                     THEN [c[m] EXCEPT !.curr = IF Unresolved(s) = {} THEN c[m].code ELSE Stub]
                     ELSE c[m]]

\* A linked function whose pointer is no trampoline of the JIT: relinking it
\* stores through whatever bytes are found there.
Foreign(s) == \E f \in Linked(s) : s[f].ptr \notin Trampolines

\* jitc_link on a table s and cells c.
Link(s, c) ==
  LET b == Bind(s) IN
  IF Foreign(b)
    THEN fault' = TRUE /\ UNCHANGED <<sym, cell, unresolved>>
    ELSE /\ sym' = b
         /\ cell' = Enter(b, c)
         /\ unresolved' = IF Unresolved(b) = {} THEN "none" ELSE "some"
         /\ UNCHANGED fault

-----------------------------------------------------------------------------
Init ==
  /\ sym = [n \in Names |-> [decl |-> "absent", policy |-> "ifconst", initial |-> TRUE,
                             link |-> n, ptr |-> Null]]
  /\ data = [n \in Names |-> 0]
  /\ cell = [n \in Names |-> [code |-> None, curr |-> None]]
  /\ unresolved \in {"none", "some"}  \* jitc_create_context leaves it unset
  /\ pc = "fresh"
  /\ ast = <<>>
  /\ fault = FALSE
  /\ held = [n \in Names |-> NotHeld]
  /\ known = [n \in Names |-> {}]
  /\ intent = [n \in Names |-> "ifconst"]
  /\ latest = [n \in Names |-> None]

Waiting == pc \in {"fresh", "ready", "failed"} /\ ~fault

BeginUnit ==
  /\ Waiting
  /\ pc' = "parse"
  /\ UNCHANGED <<sym, data, cell, unresolved, ast, fault, held, ghosts>>

\* A declaration while the unit is being parsed: the table changes at once,
\* the nodes wait for the end of the unit.
Declare(n, new, nodes) ==
  /\ pc = "parse"
  /\ Len(ast) + Len(nodes) <= MaxUnit
  /\ sym' = [sym EXCEPT ![n] = new]
  /\ ast' = ast \o nodes
  /\ UNCHANGED <<data, cell, unresolved, pc, fault, held, known, latest>>

\* int n;   static int n = v;   preserve int n = v;
DeclareData(n, d, p, init) ==
  /\ n \in Storage
  /\ Accepts(sym[n], d)
  /\ SetIntent(n, p)
  /\ LET decl == [op |-> "decl", name |-> n, val |-> 0] IN
     Declare(n, Declared(n, d, p, n, 0),
             IF init = None THEN <<decl>>
             ELSE <<decl, [op |-> "init", name |-> n, val |-> init]>>)

\* extern int n;   extern("l") int n;
DeclareExtern(n, l, p) ==
  /\ "extern" \in Forms
  /\ n \in Storage
  /\ Accepts(sym[n], "extern")
  /\ SetIntent(n, p)
  /\ Declare(n, Declared(n, "extern", p, l, 0), <<[op |-> "decl", name |-> n, val |-> 0]>>)

\* int n() { v }   -- The AST_Declaration in front of an AST_Function, and that of
\* a prototype, allocates nothing; the link that follows it does nothing that
\* the next one would not do, as no linkage changes while a unit is compiled.
DefineFunction(n, d, p, v) ==
  /\ n \in Functions
  /\ Accepts(sym[n], d)
  /\ SetIntent(n, p)
  /\ Declare(n, Declared(n, d, p, n, 0), <<[op |-> "func", name |-> n, val |-> v]>>)

\* int n();   extern("l") int n();   -- and, with d not "extern", the same in a
\* list of declarators.  Whatever the declaration did, the symbol ends extern.
DeclarePrototype(n, d, l, p) ==
  /\ "prototype" \in Forms
  /\ n \in Functions
  /\ Accepts(sym[n], d)
  /\ SetIntent(n, p)
  /\ Declare(n, [Declared(n, d, p, l, 0) EXCEPT !.decl = "extern"], <<>>)

DeclareEnumerator(n, v) ==
  /\ Kind[n] = "enum"
  /\ Accepts(sym[n], "enum")
  /\ UNCHANGED intent
  /\ Declare(n, Declared(n, "enum", "ifconst", n, v), <<>>)

\* static int n; inside a function body: it is entered in the global scope, is
\* refused when the name is taken, and no node of the unit declares it again.
DeclareLocalStatic(n) ==
  /\ "localstatic" \in Forms
  /\ n \in Storage
  /\ sym[n].decl = "absent"
  /\ UNCHANGED intent
  /\ Declare(n, Declared(n, "static", "ifconst", n, 0), <<>>)

\* Any error of the unit: what it declared so far stays, nothing is compiled
\* and nothing is linked.
ParseError ==
  /\ "error" \in Forms
  /\ pc = "parse"
  /\ pc' = "failed"
  /\ ast' = <<>>
  /\ UNCHANGED <<sym, data, cell, unresolved, fault, held, ghosts>>

EndOfUnit ==
  /\ pc = "parse"
  /\ pc' = "compile"
  /\ UNCHANGED <<sym, data, cell, unresolved, ast, fault, held, ghosts>>

-----------------------------------------------------------------------------
(* jitc_compile, one node at a time.                                       *)

\* A store through an address the JIT does not own ends what can be said.
ForeignWrite == fault' = TRUE /\ UNCHANGED <<sym, data, cell, unresolved>>

Compiling(op) ==
  /\ pc = "compile"
  /\ ~fault
  /\ ast # <<>>
  /\ Head(ast).op = op
  /\ ast' = Tail(ast)
  /\ UNCHANGED <<pc, held, intent>>

\* Storage for a variable that is not extern and has none yet.
Allocated(n) ==
  IF sym[n].decl \in {"none", "static"} /\ sym[n].ptr = Null
    THEN [sym EXCEPT ![n].ptr = Own(n)] ELSE sym

CompileDeclaration ==
  LET n == Head(ast).name IN
  /\ Compiling("decl")
  /\ Link(Allocated(n), cell)
  /\ UNCHANGED <<data, known, latest>>

\* Variant: the default policy keeps nothing.
KeepsOnlyAlways(n) == ~sym[n].initial /\ sym[n].policy = "always"

\* A reload keeps the value of a variable that has been initialised when its
\* policy says so.
Keeps(n) ==
  /\ ~sym[n].initial
  /\ \/ sym[n].policy = "always"
     \/ sym[n].policy = "ifconst" /\ Kind[n] \in {"const", "func"}

CompileInitializer ==
  LET n == Head(ast).name
      p == sym[n].ptr
  IN
  /\ Compiling("init")
  /\ \/ /\ Keeps(n)
        /\ Link(sym, cell)
        /\ UNCHANGED data
     \/ /\ ~Keeps(n)
        /\ p \in Cells
        /\ data' = [data EXCEPT ![p[2]] = Head(ast).val]
        /\ Link([sym EXCEPT ![n].initial = FALSE], cell)
     \/ /\ ~Keeps(n)
        /\ p \notin Cells
        /\ ForeignWrite
  /\ UNCHANGED <<known, latest>>

\* Code for cell m; every symbol declared so far may be named by it.
Compiled(m, v) ==
  /\ known' = [known EXCEPT ![m] = {k \in Names : sym[k].decl # "absent"}]
  /\ UNCHANGED data

CompileFunction ==
  LET n == Head(ast).name
      v == Head(ast).val
      p == sym[n].ptr
      body(m) == [cell EXCEPT ![m].code = v]
      kept == p # Null /\ sym[n].policy = "always"
  IN
  /\ Compiling("func")
  /\ latest' = IF intent[n] = "always" /\ latest[n] # None
                 THEN latest ELSE [latest EXCEPT ![n] = v]
  /\ \/ /\ sym[n].decl = "extern" \/ kept
        /\ Link(sym, cell)
        /\ UNCHANGED <<data, known>>
     \/ /\ sym[n].decl # "extern" /\ ~kept
        /\ p = Null
        /\ Link([sym EXCEPT ![n].ptr = Own(n)], body(n))
        /\ Compiled(n, v)
     \/ /\ sym[n].decl # "extern" /\ ~kept
        /\ p \in Trampolines
        /\ Link(sym, body(p[2]))
        /\ Compiled(p[2], v)
     \/ /\ sym[n].decl # "extern" /\ ~kept
        /\ p # Null /\ p \notin Trampolines
        /\ ForeignWrite
        /\ UNCHANGED known

FinishUnit ==
  /\ pc = "compile"
  /\ ~fault
  /\ ast = <<>>
  /\ pc' = "ready"
  /\ Link(sym, cell)
  /\ UNCHANGED <<data, ast, held, ghosts>>

-----------------------------------------------------------------------------
(* The host between two units.                                             *)

\* jitc_get when it succeeds; when it fails it sets an error and no more.
Get(n) ==
  /\ Waiting
  /\ unresolved = "none"
  /\ sym[n].decl \in {"none", "enum"}
  /\ held' = [held EXCEPT ![n] = sym[n].ptr]
  /\ UNCHANGED <<sym, data, cell, unresolved, pc, ast, fault, ghosts>>

\* The host, or JIT code it calls, stores into a variable.
Poke(n, v) ==
  /\ Waiting
  /\ Kind[n] = "data"
  /\ held[n] \in Cells
  /\ data' = [data EXCEPT ![held[n][2]] = v]
  /\ UNCHANGED <<sym, cell, unresolved, pc, ast, fault, held, ghosts>>

\* After a write to memory it does not own the process may do anything.
Undefined == fault /\ UNCHANGED vars

Linkages == {"none"} \cup ({"static"} \cap Forms)

Parse ==
  \/ BeginUnit
  \/ \E n \in Names, d \in Linkages, p \in Policies, i \in Values \cup {None} :
       DeclareData(n, d, p, i)
  \/ \E n \in Names, p \in Policies : \E l \in Aliases[n] : DeclareExtern(n, l, p)
  \/ \E n \in Names, d \in Linkages, p \in Policies, v \in Values :
       DefineFunction(n, d, p, v)
  \/ \E n \in Names, d \in Linkages \cup {"extern"}, p \in Policies :
       \E l \in Aliases[n] : DeclarePrototype(n, d, l, p)
  \/ \E n \in Names, v \in Values : DeclareEnumerator(n, v)
  \/ \E n \in Names : DeclareLocalStatic(n)
  \/ ParseError
  \/ EndOfUnit

Compile ==
  \/ CompileDeclaration
  \/ CompileInitializer
  \/ CompileFunction
  \/ FinishUnit

Next ==
  \/ Parse
  \/ Compile
  \/ \E n \in Names : Get(n)
  \/ \E n \in Names, v \in Values : Poke(n, v)
  \/ Undefined

Spec == Init /\ [][Next]_vars

-----------------------------------------------------------------------------
(* Properties.                                                             *)

\* Every variable has its type; in particular a pointer of the union is one of
\* trampoline or storage, host address, or small number.
TypeOK ==
  /\ sym \in [Names -> Symbol]
  /\ data \in [Names -> Values]
  /\ cell \in [Names -> [code : Values \cup {None}, curr : Values \cup {None, Stub}]]
  /\ unresolved \in {"none", "some"}
  /\ pc \in {"fresh", "parse", "compile", "ready", "failed"}
  /\ ast \in Seq(Node)
  /\ fault \in BOOLEAN
  /\ held \in [Names -> Pointer \cup {NotHeld}]
  /\ known \in [Names -> SUBSET Names]
  /\ intent \in [Names -> {"ifconst", "always", "never"}]
  /\ latest \in [Names -> Values \cup {None}]

\* Code that can be entered through its trampoline never meets a symbol without
\* an address: whatever was declared when it was compiled has one, whichever
\* later units failed, redeclared things or left symbols unresolved.  This is
\* what the all-or-nothing second loop of jitc_link is for.
CallableIsSafe ==
  \A m \in Functions :
    cell[m].curr \in Values /\ ~fault =>
      \A k \in known[m] : sym[k].decl = "enum" \/ sym[k].ptr # Null

\* Between two units a trampoline enters its newest code or the stub, never code
\* that a reload has already replaced.
EntersNewest ==
  Waiting => \A m \in Functions : cell[m].curr \in {cell[m].code, Stub}

\* No step moves a symbol that has an address: compiled code and the host keep
\* using the address they have.
AddressStable ==
  [][\A n \in Names : sym[n].ptr # Null => sym'[n].ptr = sym[n].ptr]_vars

\* When nothing is unresolved every function that has been defined enters its
\* newest definition, unless the program asked to preserve an older one.
RunsLatest ==
  pc = "ready" /\ ~fault /\ unresolved = "none" =>
    \A f \in Functions :
      latest[f] # None => /\ sym[f].ptr \in Trampolines
                          /\ cell[sym[f].ptr[2]].curr = latest[f]

Preserved(n) ==
  intent[n] = "always" \/ (intent[n] = "ifconst" /\ Kind[n] = "const")

\* Compiling a unit never stores into a variable that has had its initialiser
\* and is preserved (tests/variables/009-preserve.c).
PreservedValue ==
  [][pc = "compile" =>
       \A n \in Storage : ~sym[n].initial /\ Preserved(n) => data'[n] = data[n]]_vars
=============================================================================
