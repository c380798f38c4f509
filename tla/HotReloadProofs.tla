-------------------------- MODULE HotReloadProofs --------------------------
(***************************************************************************)
(* Proofs, for every set of names, types, aliases, values and forms of     *)
(* source, that no reload and no failed parse breaks what the JIT has      *)
(* already compiled: addresses never move, a trampoline enters its newest  *)
(* code or the stub, and code that can be entered has every symbol it may  *)
(* name.  All of it follows from one inductive invariant, Inv.             *)
(***************************************************************************)
EXTENDS HotReload, TLAPS

CellType == [code : Values \cup {None}, curr : Values \cup {None, Stub}]

\* Code is compiled against symbols that have been declared ...
KnownDeclared == \A m \in Names : \A k \in known[m] : sym[k].decl # "absent"

\* ... a name that has not been has no address ...
AbsentIsNull == \A n \in Names : sym[n].decl = "absent" => sym[n].ptr = Null

\* ... an enumerator never carries a policy, so no reload replaces its value ...
EnumeratorShape ==
  \A n \in Names : sym[n].decl = "enum" => Kind[n] = "enum" /\ sym[n].policy = "ifconst"

\* ... and the functions that wait for the compiler are declared as functions.
PendingDeclared ==
  \A i \in 1..Len(ast) :
    ast[i].op = "func" => /\ ast[i].name \in Functions
                          /\ sym[ast[i].name].decl \notin {"absent", "enum"}

\* The trampolines, at every moment between two nodes.
NewestOrStub == ~fault => \A m \in Functions : cell[m].curr \in {cell[m].code, Stub}

Inv ==
  /\ TypeOK
  /\ KnownDeclared
  /\ AbsentIsNull
  /\ EnumeratorShape
  /\ PendingDeclared
  /\ CallableIsSafe
  /\ NewestOrStub

-----------------------------------------------------------------------------
(* The values of Init and of the constants.                                *)

\* The null pointer and the sentinels are what their types say.
LEMMA Sentinels ==
  /\ Null \in Pointer
  /\ NotHeld \notin Pointer
  /\ \A n \in Names : Own(n) \in Pointer /\ Own(n) # Null
  /\ None \notin Values /\ Stub \notin Values
  /\ \A n \in Names : Kind[n] \in Kinds
<1>1. Null \in Pointer
  BY ValueAssumption DEF Null, Pointer
<1>2. NotHeld \notin Pointer
  BY DEF NotHeld, Pointer
<1>3. \A n \in Names : Own(n) \in Pointer /\ Own(n) # Null
  BY DEF Null, Pointer, Own
<1>4. None \notin Values /\ Stub \notin Values
  BY ValueAssumption DEF None, Stub
<1>5. \A n \in Names : Kind[n] \in Kinds
  BY NamesAssumption
<1> QED
  BY <1>1, <1>2, <1>3, <1>4, <1>5

\* A context that has just been created satisfies the invariant.
LEMMA InitInv == Init => Inv
<1> SUFFICES ASSUME Init PROVE Inv
  OBVIOUS
<1>1. TypeOK
  <2>1. sym \in [Names -> Symbol]
    BY Sentinels DEF Init, Symbol, Decls, SymbolNames
  <2>2. data \in [Names -> Values]
    BY ValueAssumption DEF Init
  <2>3. ast \in Seq(Node)
    BY DEF Init
  <2> QED
    BY <2>1, <2>2, <2>3 DEF Init, TypeOK
<1>2. NewestOrStub /\ CallableIsSafe
  BY Sentinels DEF Init, NewestOrStub, CallableIsSafe, Functions
<1> QED
  BY <1>1, <1>2 DEF Init, Inv, KnownDeclared, AbsentIsNull, EnumeratorShape, PendingDeclared

-----------------------------------------------------------------------------
(* Declarations.                                                           *)

\* What a redeclaration does to a symbol: it stays declared, becomes an
\* enumerator only if it was one, and keeps its address.
LEMMA DeclaredSymbol ==
  ASSUME Inv, NEW n \in Names, NEW d \in {"none", "static", "extern", "enum"},
         NEW p \in {"ifconst", "always", "never"}, NEW l \in SymbolNames, NEW v \in Values,
         Accepts(sym[n], d),
         d = "enum" => Kind[n] = "enum" /\ p = "ifconst",
         d # "enum" => v = 0
  PROVE  /\ Declared(n, d, p, l, v) \in Symbol
         /\ Declared(n, d, p, l, v).decl # "absent"
         /\ Declared(n, d, p, l, v).decl = "enum" <=> d = "enum"
         /\ d = "enum" => Declared(n, d, p, l, v).policy = "ifconst"
         /\ sym[n].ptr # Null => Declared(n, d, p, l, v).ptr = sym[n].ptr
         /\ sym[n].decl = "enum" => d = "enum"
<1>1. sym[n] \in Symbol
  BY DEF Inv, TypeOK
<1>2. <<"num", v>> \in Pointer
  BY DEF Pointer
<1>3. CASE sym[n].decl = "absent"
  <2>1. Declared(n, d, p, l, v) =
          [decl |-> d, policy |-> p, initial |-> TRUE, link |-> l, ptr |-> <<"num", v>>]
    BY <1>3 DEF Declared
  <2>2. sym[n].ptr = Null
    BY <1>3 DEF Inv, AbsentIsNull
  <2> QED
    BY <1>2, <1>3, <2>1, <2>2 DEF Symbol, Decls
<1>4. CASE sym[n].decl # "absent"
  <2> DEFINE rep == Replacing(n, sym[n], d, p)
             link == Linkage(sym[n], d)
             new == Redeclared(n, sym[n], d, p, v)
  <2>1. Declared(n, d, p, l, v) = new
    BY <1>4 DEF Declared
  <2>2. rep \in {"ifconst", "always", "never"}
    BY <1>1 DEF Replacing, Symbol
  <2>3. link \in Decls \ {"absent"}
    BY <1>1, <1>4 DEF Linkage, Symbol, Decls
  <2>4. new.decl = link /\ new \in Symbol
    BY <1>1, <1>2, <2>2, <2>3 DEF Redeclared, Symbol
  <2>5. link = "enum" <=> d = "enum"
    BY DEF Linkage
  <2>6. sym[n].decl = "enum" <=> d = "enum"
    BY <1>4 DEF Accepts, Linkage
  <2>7. d # "enum" => new.ptr = sym[n].ptr
    BY <1>1 DEF Redeclared, Symbol
  <2>8. ASSUME d = "enum"
        PROVE  new.policy = "ifconst" /\ new.ptr = sym[n].ptr
    <3>1. sym[n].policy = "ifconst" /\ sym[n].decl = "enum"
      BY <2>6, <2>8 DEF Inv, EnumeratorShape
    <3>2. rep = "always"
      BY <2>8, <3>1 DEF Replacing, Linkage
    <3> QED
      BY <1>1, <2>8, <3>1, <3>2 DEF Redeclared, Symbol
  <2> QED
    BY <2>1, <2>3, <2>4, <2>5, <2>6, <2>7, <2>8
<1> QED
  BY <1>3, <1>4

\* A declaration that keeps the symbol's address preserves the invariant,
\* whatever nodes it leaves for the compiler.
LEMMA DeclareStep ==
  ASSUME Inv, NEW n \in Names, NEW new \in Symbol, NEW nodes \in Seq(Node),
         intent' \in [Names -> {"ifconst", "always", "never"}],
         new.decl # "absent",
         new.decl = "enum" => Kind[n] = "enum" /\ new.policy = "ifconst",
         sym[n].decl = "enum" => new.decl = "enum",
         new.decl = "enum" => sym[n].decl \in {"absent", "enum"},
         sym[n].ptr # Null => new.ptr = sym[n].ptr,
         \A i \in 1..Len(nodes) : nodes[i].op = "func" =>
           nodes[i].name = n /\ n \in Functions /\ new.decl # "enum",
         Declare(n, new, nodes)
  PROVE  Inv' /\ \A k \in Names : sym[k].ptr # Null => sym'[k].ptr = sym[k].ptr
<1> USE DEF Inv, Declare
<1>1. \A k \in Names : sym'[k] = IF k = n THEN new ELSE sym[k]
  BY DEF TypeOK
<1>2. \A k \in Names : sym[k].ptr # Null => sym'[k].ptr = sym[k].ptr
  BY <1>1
<1>3. TypeOK'
  <2>1. sym' \in [Names -> Symbol]
    BY DEF TypeOK
  <2>2. ast' \in Seq(Node)
    BY DEF TypeOK
  <2> QED
    BY <2>1, <2>2 DEF TypeOK
<1>4. KnownDeclared' /\ AbsentIsNull' /\ EnumeratorShape'
  BY <1>1 DEF KnownDeclared, AbsentIsNull, EnumeratorShape, TypeOK
<1>5. PendingDeclared'
  <2> SUFFICES ASSUME NEW i \in 1..Len(ast'), ast'[i].op = "func"
               PROVE  ast'[i].name \in Functions /\ sym'[ast'[i].name].decl \notin {"absent", "enum"}
    BY DEF PendingDeclared
  <2>1. CASE i \in 1..Len(ast)
    <3>1. ast'[i] = ast[i] /\ ast[i].name \in Functions
             /\ sym[ast[i].name].decl \notin {"absent", "enum"}
      BY <2>1 DEF PendingDeclared, TypeOK
    <3> QED
      BY <1>1, <3>1 DEF Functions
  <2>2. CASE i \notin 1..Len(ast)
    <3>1. i - Len(ast) \in 1..Len(nodes) /\ ast'[i] = nodes[i - Len(ast)]
      BY <2>2 DEF TypeOK
    <3> QED
      BY <1>1, <3>1
  <2> QED
    BY <2>1, <2>2
<1>6. CallableIsSafe'
  <2> SUFFICES ASSUME NEW m \in Functions, cell[m].curr \in Values, ~fault, NEW k \in known[m]
               PROVE  sym'[k].decl = "enum" \/ sym'[k].ptr # Null
    BY DEF CallableIsSafe
  <2>1. k \in Names
    BY DEF TypeOK, Functions
  <2>2. sym[k].decl = "enum" \/ sym[k].ptr # Null
    BY DEF CallableIsSafe
  <2> QED
    BY <1>1, <1>2, <2>1, <2>2
<1>7. NewestOrStub'
  BY DEF NewestOrStub
<1> QED
  BY <1>2, <1>3, <1>4, <1>5, <1>6, <1>7

-----------------------------------------------------------------------------
(* Linking.                                                                *)

\* t is s with addresses for some symbols that had none.
Extends(s, t) ==
  \A n \in Names : /\ t[n].decl = s[n].decl
                   /\ t[n].policy = s[n].policy
                   /\ s[n].ptr # Null => t[n].ptr = s[n].ptr
                   /\ s[n].decl = "absent" => t[n].ptr = s[n].ptr

AllResolved(s) == \A n \in Names : s[n].decl \in {"absent", "enum"} \/ s[n].ptr # Null

\* Some function of the program is reached through the trampoline of m.
Reached(s, m) == \E f \in Linked(s) : s[f].ptr = Own(m)

\* Giving out addresses in two rounds is giving them out in one.
LEMMA ExtendsTransitive ==
  ASSUME NEW s, NEW t, NEW u, Extends(s, t), Extends(t, u)
  PROVE  Extends(s, u)
BY DEF Extends

\* Storage or a trampoline for a symbol that has no address extends the table.
LEMMA SetPointer ==
  ASSUME NEW s \in [Names -> Symbol], NEW n \in Names, NEW q \in Pointer,
         s[n].ptr = Null, s[n].decl # "absent"
  PROVE  /\ [s EXCEPT ![n].ptr = q] \in [Names -> Symbol]
         /\ Extends(s, [s EXCEPT ![n].ptr = q])
<1> DEFINE t == [s EXCEPT ![n].ptr = q]
<1>1. s[n] \in Symbol /\ [s[n] EXCEPT !.ptr = q] \in Symbol
  BY DEF Symbol
<1>2. t \in [Names -> Symbol]
  BY <1>1
<1>3. \A k \in Names : t[k] = IF k = n THEN [s[n] EXCEPT !.ptr = q] ELSE s[k]
  OBVIOUS
<1> HIDE DEF t
<1>4. Extends(s, t)
  BY <1>1, <1>3 DEF Extends, Symbol
<1> QED
  BY <1>2, <1>4 DEF t

\* New code for one cell.
LEMMA SetCode ==
  ASSUME NEW c \in [Names -> CellType], NEW m \in Names, NEW v \in Values
  PROVE  [c EXCEPT ![m].code = v] \in [Names -> CellType]
<1>1. c[m] \in CellType /\ [c[m] EXCEPT !.code = v] \in CellType
  BY DEF CellType
<1> QED
  BY <1>1

\* What the host's linker returns is a host address or null.
LEMMA LookupType ==
  ASSUME NEW s \in [Names -> Symbol], NEW l \in SymbolNames
  PROVE  Lookup(s, l) \in Pointer
<1>1. CASE l \in Names /\ s[l].decl \in {"none", "enum"}
  BY <1>1 DEF Lookup, Symbol
<1>2. CASE ~(l \in Names /\ s[l].decl \in {"none", "enum"}) /\ l \in HostSymbols
  BY <1>2 DEF Lookup, Pointer
<1>3. CASE ~(l \in Names /\ s[l].decl \in {"none", "enum"}) /\ l \notin HostSymbols
  BY <1>3, Sentinels DEF Lookup
<1> QED
  BY <1>1, <1>2, <1>3

\* The first loop of jitc_link only gives addresses to symbols without one.
LEMMA BindExtends ==
  ASSUME NEW s \in [Names -> Symbol]
  PROVE  Bind(s) \in [Names -> Symbol] /\ Extends(s, Bind(s))
<1>1. ASSUME NEW n \in Names
      PROVE  [s[n] EXCEPT !.ptr = Lookup(s, s[n].link)] \in Symbol
  BY LookupType DEF Symbol
<1>2. Bind(s) \in [Names -> Symbol]
  BY <1>1 DEF Bind
<1>3. Extends(s, Bind(s))
  BY DEF Bind, Extends, Symbol
<1> QED
  BY <1>2, <1>3

\* A link leaves the newest code alone; a trampoline that a function of the
\* program reaches enters its newest code or the stub, and newest code only when
\* every declared symbol has an address.  The other trampolines keep their entry.
LEMMA LinkStep ==
  ASSUME NEW s \in [Names -> Symbol], NEW c \in [Names -> CellType], TypeOK, Link(s, c)
  PROVE  \/ fault' = TRUE /\ UNCHANGED <<sym, cell, unresolved>>
         \/ /\ sym' \in [Names -> Symbol] /\ Extends(s, sym')
            /\ cell' \in [Names -> CellType]
            /\ unresolved' \in {"none", "some"} /\ fault' \in BOOLEAN
            /\ \A m \in Names :
                 /\ cell'[m].code = c[m].code
                 /\ Reached(sym', m) => \/ cell'[m].curr = Stub
                                        \/ cell'[m].curr = c[m].code /\ AllResolved(sym')
                 /\ ~Reached(sym', m) => cell'[m] = c[m]
<1>1. CASE Foreign(Bind(s))
  BY <1>1 DEF Link
<1>2. CASE ~Foreign(Bind(s))
  <2>1. /\ sym' = Bind(s)
        /\ cell' = Enter(Bind(s), c)
        /\ unresolved' \in {"none", "some"}
        /\ fault' \in BOOLEAN
    BY <1>2 DEF Link, TypeOK
  <2>2. Bind(s) \in [Names -> Symbol] /\ Extends(s, Bind(s))
    BY BindExtends
  <2>3. Unresolved(sym') = {} => AllResolved(sym')
    BY <2>1 DEF Unresolved, AllResolved
  <2>4. ASSUME NEW m \in Names
        PROVE  cell'[m] = IF Reached(sym', m)
                            THEN [c[m] EXCEPT !.curr = IF Unresolved(sym') = {} THEN c[m].code ELSE Stub]
                            ELSE c[m]
    BY <2>1 DEF Enter, Reached
  <2>5. ASSUME NEW m \in Names
        PROVE  /\ cell'[m] \in CellType
               /\ cell'[m].code = c[m].code
               /\ Reached(sym', m) => \/ cell'[m].curr = Stub
                                      \/ cell'[m].curr = c[m].code /\ AllResolved(sym')
               /\ ~Reached(sym', m) => cell'[m] = c[m]
    <3>1. c[m] \in CellType
      OBVIOUS
    <3> QED
      BY <2>3, <2>4, <3>1 DEF CellType
  <2>6. cell' \in [Names -> CellType]
    <3>1. cell' = [m \in Names |-> cell'[m]]
      BY <2>1 DEF Enter
    <3> QED
      BY <2>5, <3>1
  <2> QED
    BY <2>1, <2>2, <2>5, <2>6
<1> QED
  BY <1>1, <1>2

-----------------------------------------------------------------------------
(* Compiling one node.                                                     *)

\* A node whose table s extends the current one and that is followed by a link
\* preserves the invariant, if its code, when it has any, goes to the cell of a
\* trampoline that a function of the program reaches.
LEMMA CompileStep ==
  ASSUME Inv, NEW s \in [Names -> Symbol], NEW c \in [Names -> CellType],
         Extends(sym, s), Link(s, c),
         pc' \in {"fresh", "parse", "compile", "ready", "failed"},
         ast' \in Seq(Node),
         ast' = ast \/ (ast # <<>> /\ ast' = Tail(ast)),
         data' \in [Names -> Values],
         latest' \in [Names -> Values \cup {None}],
         UNCHANGED <<held, intent>>,
         \/ c = cell /\ known' = known
         \/ \E m \in Functions :
              /\ Reached(s, m)
              /\ \A k \in Names \ {m} : c[k] = cell[k]
              /\ known' = [known EXCEPT ![m] = {k \in Names : sym[k].decl # "absent"}]
  PROVE  Inv' /\ \A k \in Names : sym[k].ptr # Null => sym'[k].ptr = sym[k].ptr
<1> USE DEF Inv
<1>1. /\ known' \in [Names -> SUBSET Names]
      /\ \A m \in Names : \A k \in known'[m] : sym[k].decl # "absent"
  <2>1. CASE known' = known
    BY <2>1 DEF TypeOK, KnownDeclared
  <2>2. CASE \E m \in Functions :
               known' = [known EXCEPT ![m] = {k \in Names : sym[k].decl # "absent"}]
    <3>1. PICK m \in Functions :
                 known' = [known EXCEPT ![m] = {k \in Names : sym[k].decl # "absent"}]
      BY <2>2
    <3> QED
      BY <3>1 DEF TypeOK, KnownDeclared
  <2> QED
    BY <2>1, <2>2
<1>2. \A i \in 1..Len(ast') :
        ast'[i].op = "func" => /\ ast'[i].name \in Functions
                               /\ sym[ast'[i].name].decl \notin {"absent", "enum"}
  <2>1. CASE ast' = ast
    BY <2>1 DEF PendingDeclared
  <2>2. CASE ast # <<>> /\ ast' = Tail(ast)
    <3> SUFFICES ASSUME NEW i \in 1..Len(ast'), ast'[i].op = "func"
                 PROVE  /\ ast'[i].name \in Functions
                        /\ sym[ast'[i].name].decl \notin {"absent", "enum"}
      OBVIOUS
    <3>1. i + 1 \in 1..Len(ast) /\ ast'[i] = ast[i + 1]
      BY <2>2 DEF TypeOK
    <3> QED
      BY <3>1 DEF PendingDeclared
  <2> QED
    BY <2>1, <2>2
<1>3. CASE fault' = TRUE /\ UNCHANGED <<sym, cell, unresolved>>
  <2>1. KnownDeclared'
    BY <1>3, <1>1 DEF KnownDeclared
  <2>2. PendingDeclared'
    BY <1>3, <1>2 DEF PendingDeclared
  <2>3. TypeOK'
    BY <1>3, <1>1 DEF TypeOK
  <2> QED
    BY <1>3, <2>1, <2>2, <2>3
       DEF AbsentIsNull, EnumeratorShape, CallableIsSafe, NewestOrStub
<1>4. CASE /\ sym' \in [Names -> Symbol] /\ Extends(s, sym')
           /\ cell' \in [Names -> CellType]
           /\ unresolved' \in {"none", "some"} /\ fault' \in BOOLEAN
           /\ \A m \in Names :
                /\ cell'[m].code = c[m].code
                /\ Reached(sym', m) => \/ cell'[m].curr = Stub
                                       \/ cell'[m].curr = c[m].code /\ AllResolved(sym')
                /\ ~Reached(sym', m) => cell'[m] = c[m]
  <2>1. Extends(sym, sym')
    BY <1>4, ExtendsTransitive
  <2>2. known' \in [Names -> SUBSET Names] /\ KnownDeclared'
    BY <1>1, <2>1 DEF KnownDeclared, Extends
  <2>3. PendingDeclared'
    BY <1>2, <2>1 DEF PendingDeclared, Extends, Functions
  <2>4. TypeOK'
    BY <1>4, <2>2 DEF TypeOK, CellType
  <2>5. AbsentIsNull' /\ EnumeratorShape'
    BY <2>1 DEF AbsentIsNull, EnumeratorShape, Extends
  <2>6. ASSUME NEW m \in Functions, ~Reached(sym', m), ~fault'
        PROVE  cell'[m] = cell[m] /\ known'[m] = known[m] /\ ~fault
    <3>1. ~Reached(s, m)
      BY <1>4, <2>6, Sentinels DEF Reached, Linked, Extends, Functions
    <3>2. ~fault
      BY <2>6 DEF Link
    <3> QED
      BY <1>4, <2>6, <3>1, <3>2 DEF TypeOK, Functions
  <2>7. NewestOrStub'
    BY <1>4, <2>6 DEF NewestOrStub, Functions
  <2>8. CallableIsSafe'
    <3> SUFFICES ASSUME NEW m \in Functions, cell'[m].curr \in Values, ~fault',
                        NEW k \in known'[m]
                 PROVE  sym'[k].decl = "enum" \/ sym'[k].ptr # Null
      BY DEF CallableIsSafe
    <3>1. m \in Names /\ k \in Names
      BY <2>2 DEF Functions
    <3>2. CASE Reached(sym', m)
      <4>1. AllResolved(sym')
        BY <1>4, <3>1, <3>2, Sentinels
      <4>2. sym'[k].decl # "absent"
        BY <2>2, <3>1 DEF KnownDeclared
      <4> QED
        BY <3>1, <4>1, <4>2 DEF AllResolved
    <3>3. CASE ~Reached(sym', m)
      <4>1. sym[k].decl = "enum" \/ sym[k].ptr # Null
        BY <2>6, <3>3 DEF CallableIsSafe
      <4> QED
        BY <2>1, <3>1, <4>1 DEF Extends
    <3> QED
      BY <3>2, <3>3
  <2> QED
    BY <2>1, <2>2, <2>3, <2>4, <2>5, <2>7, <2>8 DEF Extends
<1> QED
  BY <1>3, <1>4, LinkStep

-----------------------------------------------------------------------------
(* Every step.                                                             *)

KeepsAddresses == \A k \in Names : sym[k].ptr # Null => sym'[k].ptr = sym[k].ptr

\* Parsing a unit changes the table at once, but gives up no address in it.
LEMMA ParseKeeps == Inv /\ Parse => Inv' /\ KeepsAddresses
<1> SUFFICES ASSUME Inv, Parse PROVE Inv' /\ KeepsAddresses
  OBVIOUS
<1>1. sym \in [Names -> Symbol] /\ ast \in Seq(Node)
  BY DEF Inv, TypeOK
<1>2. \A d \in Linkages \cup {"extern"} : d \in {"none", "static", "extern"}
  BY DEF Linkages
<1>3. ASSUME NEW n \in Names, NEW p \in Policies, SetIntent(n, p)
      PROVE  intent' \in [Names -> {"ifconst", "always", "never"}]
  BY <1>3, UseAssumption DEF SetIntent, Inv, TypeOK
<1>4. 0 \in Values /\ Policies \subseteq {"ifconst", "always", "never"}
  BY ValueAssumption, UseAssumption
<1>5. \A n \in Names : Aliases[n] \subseteq SymbolNames /\ n \in SymbolNames
  BY AliasAssumption DEF SymbolNames
<1> DEFINE none == <<>>
<1>5a. none \in Seq(Node) /\ \A j \in 1..Len(none) : FALSE
  OBVIOUS
<1>6. CASE BeginUnit \/ ParseError \/ EndOfUnit
  <2>1. /\ UNCHANGED <<sym, data, cell, unresolved, fault, held, known, intent, latest>>
        /\ ast' = ast \/ ast' = <<>>
        /\ pc' \in {"parse", "failed", "compile"}
    BY <1>6 DEF BeginUnit, ParseError, EndOfUnit, ghosts
  <2>2. TypeOK' /\ PendingDeclared'
    <3>1. CASE ast' = ast
      BY <2>1, <3>1 DEF Inv, TypeOK, PendingDeclared
    <3>2. CASE ast' = <<>>
      BY <2>1, <3>2 DEF Inv, TypeOK, PendingDeclared
    <3> QED
      BY <2>1, <3>1, <3>2
  <2> QED
    BY <2>1, <2>2 DEF Inv, KnownDeclared, AbsentIsNull, EnumeratorShape, CallableIsSafe,
                      NewestOrStub, KeepsAddresses
<1>7. ASSUME NEW n \in Names, NEW d \in Linkages, NEW p \in Policies,
             NEW i \in Values \cup {None}, DeclareData(n, d, p, i)
      PROVE  Inv' /\ KeepsAddresses
  <2> DEFINE decl == [op |-> "decl", name |-> n, val |-> 0]
             nodes == IF i = None THEN <<decl>>
                      ELSE <<decl, [op |-> "init", name |-> n, val |-> i]>>
             new == Declared(n, d, p, n, 0)
  <2>1. Declare(n, new, nodes) /\ Accepts(sym[n], d) /\ SetIntent(n, p)
    BY <1>7 DEF DeclareData
  <2>2. nodes \in Seq(Node) /\ \A j \in 1..Len(nodes) : nodes[j].op # "func"
    <3>1. CASE i = None
      BY <1>4, <3>1 DEF Node
    <3>2. CASE i \in Values
      <4> DEFINE init == [op |-> "init", name |-> n, val |-> i]
      <4>1. nodes = <<decl, init>>
        BY <3>2, Sentinels
      <4>2. decl \in Node /\ init \in Node /\ decl.op # "func" /\ init.op # "func"
        BY <1>4, <3>2 DEF Node
      <4> HIDE DEF decl, init, nodes
      <4> QED
        BY <4>1, <4>2
    <3> QED
      BY <3>1, <3>2
  <2>3. /\ new \in Symbol /\ new.decl \notin {"absent", "enum"}
        /\ sym[n].decl # "enum"
        /\ sym[n].ptr # Null => new.ptr = sym[n].ptr
    BY <1>2, <1>4, <1>5, <2>1, DeclaredSymbol
  <2> HIDE DEF new, nodes
  <2> QED
    BY <1>3, <2>1, <2>2, <2>3, DeclareStep DEF KeepsAddresses
<1>8. ASSUME NEW n \in Names, NEW p \in Policies, NEW l \in Aliases[n], DeclareExtern(n, l, p)
      PROVE  Inv' /\ KeepsAddresses
  <2> DEFINE nodes == <<[op |-> "decl", name |-> n, val |-> 0]>>
             new == Declared(n, "extern", p, l, 0)
  <2>1. Declare(n, new, nodes) /\ Accepts(sym[n], "extern") /\ SetIntent(n, p)
    BY <1>8 DEF DeclareExtern
  <2>2. nodes \in Seq(Node) /\ \A j \in 1..Len(nodes) : nodes[j].op # "func"
    BY <1>4 DEF Node
  <2>3. /\ new \in Symbol /\ new.decl \notin {"absent", "enum"}
        /\ sym[n].decl # "enum"
        /\ sym[n].ptr # Null => new.ptr = sym[n].ptr
    BY <1>4, <1>5, <2>1, DeclaredSymbol
  <2> HIDE DEF new, nodes
  <2> QED
    BY <1>3, <2>1, <2>2, <2>3, DeclareStep DEF KeepsAddresses
<1>9. ASSUME NEW n \in Names, NEW d \in Linkages, NEW p \in Policies, NEW v \in Values,
             DefineFunction(n, d, p, v)
      PROVE  Inv' /\ KeepsAddresses
  <2> DEFINE nodes == <<[op |-> "func", name |-> n, val |-> v]>>
             new == Declared(n, d, p, n, 0)
  <2>1. /\ Declare(n, new, nodes) /\ Accepts(sym[n], d) /\ SetIntent(n, p)
        /\ n \in Functions
    BY <1>9 DEF DefineFunction
  <2>2. nodes \in Seq(Node) /\ \A j \in 1..Len(nodes) : nodes[j].name = n
    BY DEF Node
  <2>3. /\ new \in Symbol /\ new.decl \notin {"absent", "enum"}
        /\ sym[n].decl # "enum"
        /\ sym[n].ptr # Null => new.ptr = sym[n].ptr
    BY <1>2, <1>4, <1>5, <2>1, DeclaredSymbol
  <2> HIDE DEF new, nodes
  <2> QED
    BY <1>3, <2>1, <2>2, <2>3, DeclareStep DEF KeepsAddresses
<1>10. ASSUME NEW n \in Names, NEW d \in Linkages \cup {"extern"}, NEW p \in Policies,
              NEW l \in Aliases[n], DeclarePrototype(n, d, l, p)
       PROVE  Inv' /\ KeepsAddresses
  <2> DEFINE dec == Declared(n, d, p, l, 0)
             new == [dec EXCEPT !.decl = "extern"]
  <2>1. Declare(n, new, none) /\ Accepts(sym[n], d) /\ SetIntent(n, p)
    BY <1>10 DEF DeclarePrototype
  <2>2. /\ dec \in Symbol /\ sym[n].decl # "enum"
        /\ sym[n].ptr # Null => dec.ptr = sym[n].ptr
    BY <1>2, <1>4, <1>5, <2>1, DeclaredSymbol
  <2>3. /\ new \in Symbol /\ new.decl = "extern"
        /\ sym[n].ptr # Null => new.ptr = sym[n].ptr
    <3> HIDE DEF dec
    <3> QED
      BY <2>2 DEF Symbol, Decls
  <2> HIDE DEF new, none
  <2> QED
    BY <1>3, <2>1, <2>2, <2>3, <1>5a, DeclareStep DEF KeepsAddresses
<1>11. ASSUME NEW n \in Names, NEW v \in Values, DeclareEnumerator(n, v)
       PROVE  Inv' /\ KeepsAddresses
  <2> DEFINE new == Declared(n, "enum", "ifconst", n, v)
  <2>1. /\ Declare(n, new, none) /\ Accepts(sym[n], "enum") /\ intent' = intent
        /\ Kind[n] = "enum" /\ sym[n].decl \in {"absent", "enum"}
    BY <1>11 DEF DeclareEnumerator, Accepts, Linkage
  <2>2. /\ new \in Symbol /\ new.decl = "enum" /\ new.policy = "ifconst"
        /\ sym[n].ptr # Null => new.ptr = sym[n].ptr
    BY <1>5, <2>1, DeclaredSymbol
  <2>3. intent' \in [Names -> {"ifconst", "always", "never"}]
    BY <2>1 DEF Inv, TypeOK
  <2> HIDE DEF new, none
  <2> QED
    BY <2>1, <2>2, <2>3, <1>5a, DeclareStep DEF KeepsAddresses
<1>12. ASSUME NEW n \in Names, DeclareLocalStatic(n)
       PROVE  Inv' /\ KeepsAddresses
  <2> DEFINE new == Declared(n, "static", "ifconst", n, 0)
  <2>1. /\ Declare(n, new, none) /\ Accepts(sym[n], "static") /\ intent' = intent
    BY <1>12 DEF DeclareLocalStatic, Accepts
  <2>2. /\ new \in Symbol /\ new.decl \notin {"absent", "enum"} /\ sym[n].decl # "enum"
        /\ sym[n].ptr # Null => new.ptr = sym[n].ptr
    BY <1>4, <1>5, <2>1, DeclaredSymbol
  <2>3. intent' \in [Names -> {"ifconst", "always", "never"}]
    BY <2>1 DEF Inv, TypeOK
  <2> HIDE DEF new, none
  <2> QED
    BY <2>1, <2>2, <2>3, <1>5a, DeclareStep DEF KeepsAddresses
<1> QED
  BY <1>6, <1>7, <1>8, <1>9, <1>10, <1>11, <1>12 DEF Parse

\* A node with a link after it, and storage or code for a symbol without any.
LEMMA CompileKeeps == Inv /\ Compile => Inv' /\ KeepsAddresses
<1> SUFFICES ASSUME Inv, Compile PROVE Inv' /\ KeepsAddresses
  OBVIOUS
<1> DEFINE n == Head(ast).name
           v == Head(ast).val
           p == sym[n].ptr
<1>1. /\ sym \in [Names -> Symbol] /\ cell \in [Names -> CellType]
      /\ data \in [Names -> Values] /\ latest \in [Names -> Values \cup {None}]
      /\ ast \in Seq(Node) /\ pc \in {"fresh", "parse", "compile", "ready", "failed"}
      /\ held \in [Names -> Pointer \cup {NotHeld}]
  BY DEF Inv, TypeOK, CellType
<1>2. Extends(sym, sym)
  BY DEF Extends
<1>3. ast # <<>> => Head(ast) \in Node /\ Tail(ast) \in Seq(Node)
  BY <1>1
<1>4. ASSUME NEW op, Compiling(op)
      PROVE  /\ n \in Names /\ v \in Values /\ Head(ast).op = op
             /\ pc' = pc /\ ast' \in Seq(Node) /\ ast # <<>> /\ ast' = Tail(ast)
             /\ UNCHANGED <<held, intent>>
  BY <1>3, <1>4 DEF Compiling, Node
<1>5. CASE CompileDeclaration
  <2>1. Compiling("decl") /\ Link(Allocated(n), cell) /\ UNCHANGED <<data, known, latest>>
    BY <1>5 DEF CompileDeclaration
  <2>2. n \in Names
    BY <1>4, <2>1
  <2>3. Allocated(n) \in [Names -> Symbol] /\ Extends(sym, Allocated(n))
    <3>1. CASE Allocated(n) = sym
      BY <1>1, <1>2, <3>1
    <3>2. CASE Allocated(n) # sym
      <4>1. /\ Allocated(n) = [sym EXCEPT ![n].ptr = Own(n)]
            /\ sym[n].decl \in {"none", "static"} /\ sym[n].ptr = Null
        BY <3>2 DEF Allocated
      <4>2. Own(n) \in Pointer
        BY <2>2, Sentinels
      <4> DEFINE s == [sym EXCEPT ![n].ptr = Own(n)]
      <4>3. sym \in [Names -> Symbol] /\ sym[n].decl # "absent"
        BY <1>1, <4>1
      <4> HIDE DEF n
      <4>4. s \in [Names -> Symbol] /\ Extends(sym, s)
        BY <2>2, <4>1, <4>2, <4>3, SetPointer
      <4> QED
        BY <4>1, <4>4
    <3> QED
      BY <3>1, <3>2
  <2> QED
    BY <1>1, <1>4, <2>1, <2>3, CompileStep DEF KeepsAddresses
<1>6. CASE CompileInitializer
  <2>1. Compiling("init") /\ UNCHANGED <<known, latest>>
    BY <1>6 DEF CompileInitializer
  <2>2. n \in Names /\ v \in Values
    BY <1>4, <2>1
  <2>3. CASE Link(sym, cell) /\ UNCHANGED data
    BY <1>1, <1>2, <1>4, <2>1, <2>3, CompileStep DEF KeepsAddresses
  <2>4. CASE /\ p \in Cells
             /\ data' = [data EXCEPT ![p[2]] = v]
             /\ Link([sym EXCEPT ![n].initial = FALSE], cell)
    <3> DEFINE s == [sym EXCEPT ![n].initial = FALSE]
    <3>1. s \in [Names -> Symbol] /\ Extends(sym, s)
      BY <1>1, <2>2 DEF Symbol, Extends
    <3>2. data' \in [Names -> Values]
      BY <1>1, <2>2, <2>4
    <3> QED
      BY <1>1, <1>4, <2>1, <2>4, <3>1, <3>2, CompileStep DEF KeepsAddresses
  <2>5. CASE ForeignWrite
    <3>1. /\ UNCHANGED <<sym, data, cell, unresolved, held, known, intent, latest, pc>>
          /\ fault' = TRUE /\ ast' \in Seq(Node)
      BY <1>4, <2>1, <2>5 DEF ForeignWrite
    <3>2. PendingDeclared'
      <4>1. ASSUME NEW i \in 1..Len(ast')
            PROVE  i + 1 \in 1..Len(ast) /\ ast'[i] = ast[i + 1]
        BY <1>1, <1>4, <2>1
      <4> QED
        BY <3>1, <4>1 DEF Inv, PendingDeclared
    <3> QED
      BY <3>1, <3>2 DEF Inv, TypeOK, KnownDeclared, AbsentIsNull, EnumeratorShape,
                        CallableIsSafe, NewestOrStub, KeepsAddresses
  <2> QED
    BY <1>6, <2>3, <2>4, <2>5 DEF CompileInitializer
<1>7. CASE CompileFunction
  <2>1. /\ Compiling("func")
        /\ latest' = latest \/ latest' = [latest EXCEPT ![n] = v]
    BY <1>7 DEF CompileFunction
  <2>2. n \in Names /\ v \in Values
    BY <1>4, <2>1
  <2>3. n \in Functions /\ sym[n].decl \notin {"absent", "enum"}
    <3>1. 1 \in 1..Len(ast) /\ ast[1].op = "func" /\ ast[1].name = n
      BY <1>1, <1>4, <2>1
    <3> QED
      BY <3>1 DEF Inv, PendingDeclared
  <2>4. latest' \in [Names -> Values \cup {None}]
    BY <1>1, <2>1, <2>2
  <2>5. ASSUME NEW m \in Names
        PROVE  [cell EXCEPT ![m].code = v] \in [Names -> CellType]
    <3>1. cell \in [Names -> CellType] /\ v \in Values
      BY <1>1, <2>2
    <3> HIDE DEF v
    <3> QED
      BY <3>1, SetCode
  <2>6. sym[n].decl # "extern" => sym[n].decl \in {"none", "static"}
    <3>1. sym[n] \in Symbol
      BY <1>1, <2>2
    <3> HIDE DEF n
    <3> QED
      BY <2>3, <3>1 DEF Symbol, Decls
  <2>7. CASE Link(sym, cell) /\ UNCHANGED <<data, known>>
    BY <1>1, <1>2, <1>4, <2>1, <2>4, <2>7, CompileStep DEF KeepsAddresses
  <2>8. CASE /\ sym[n].decl # "extern" /\ p = Null
             /\ Link([sym EXCEPT ![n].ptr = Own(n)], [cell EXCEPT ![n].code = v])
             /\ Compiled(n, v)
    <3> DEFINE s == [sym EXCEPT ![n].ptr = Own(n)]
               c == [cell EXCEPT ![n].code = v]
    <3>1. s \in [Names -> Symbol] /\ Extends(sym, s)
      <4>1. Own(n) \in Pointer /\ sym[n].ptr = Null /\ sym[n].decl # "absent"
        BY <2>2, <2>3, <2>8, Sentinels
      <4> HIDE DEF n
      <4> QED
        BY <1>1, <2>2, <4>1, SetPointer
    <3>2. Reached(s, n)
      BY <1>1, <2>2, <2>3, <2>6, <2>8, Sentinels DEF Reached, Linked, Symbol, Functions
    <3>3. c \in [Names -> CellType] /\ \A k \in Names \ {n} : c[k] = cell[k]
      BY <1>1, <2>5, <2>2
    <3>4. /\ known' = [known EXCEPT ![n] = {k \in Names : sym[k].decl # "absent"}]
          /\ data' = data
      BY <2>8 DEF Compiled
    <3>5. Link(s, c)
      BY <2>8
    <3> HIDE DEF s, c, n, v
    <3> QED
      BY <1>1, <1>4, <2>1, <2>3, <2>4, <3>1, <3>2, <3>3, <3>4, <3>5, CompileStep
         DEF KeepsAddresses
  <2>9. CASE /\ sym[n].decl # "extern" /\ p \in Trampolines
             /\ Link(sym, [cell EXCEPT ![p[2]].code = v])
             /\ Compiled(p[2], v)
    <3> DEFINE m == p[2]
               c == [cell EXCEPT ![m].code = v]
    <3>1. m \in Functions /\ p = Own(m)
      <4>1. PICK k \in Functions : p = Own(k)
        BY <2>9 DEF Trampolines
      <4>2. Own(k)[2] = k
        BY DEF Own
      <4> QED
        BY <4>1, <4>2
    <3>2. Reached(sym, m)
      BY <2>3, <2>6, <2>9, <3>1, Sentinels DEF Reached, Linked, Functions
    <3>3. c \in [Names -> CellType] /\ \A k \in Names \ {m} : c[k] = cell[k]
      BY <1>1, <2>5, <3>1 DEF Functions
    <3>4. /\ known' = [known EXCEPT ![m] = {k \in Names : sym[k].decl # "absent"}]
          /\ data' = data
      BY <2>9 DEF Compiled
    <3>5. Link(sym, c)
      BY <2>9
    <3> HIDE DEF m, c, n, v, p
    <3> QED
      BY <1>1, <1>2, <1>4, <2>1, <2>4, <3>1, <3>2, <3>3, <3>4, <3>5, CompileStep
         DEF KeepsAddresses
  <2>10. CASE ForeignWrite /\ UNCHANGED known
    <3>1. /\ UNCHANGED <<sym, data, cell, unresolved, held, known, intent, pc>>
          /\ fault' = TRUE /\ ast' \in Seq(Node)
      BY <1>4, <2>1, <2>10 DEF ForeignWrite
    <3>2. PendingDeclared'
      <4>1. ASSUME NEW i \in 1..Len(ast')
            PROVE  i + 1 \in 1..Len(ast) /\ ast'[i] = ast[i + 1]
        BY <1>1, <1>4, <2>1
      <4> QED
        BY <3>1, <4>1 DEF Inv, PendingDeclared
    <3> QED
      BY <2>4, <3>1, <3>2 DEF Inv, TypeOK, KnownDeclared, AbsentIsNull, EnumeratorShape,
                              CallableIsSafe, NewestOrStub, KeepsAddresses
  <2> QED
    BY <1>7, <2>7, <2>8, <2>9, <2>10 DEF CompileFunction
<1>8. CASE FinishUnit
  <2>1. Link(sym, cell) /\ pc' = "ready" /\ UNCHANGED <<data, ast, held, known, intent, latest>>
    BY <1>8 DEF FinishUnit, ghosts
  <2> QED
    BY <1>1, <1>2, <2>1, CompileStep DEF KeepsAddresses
<1> QED
  BY <1>5, <1>6, <1>7, <1>8 DEF Compile

\* The host takes addresses and stores through them.
LEMMA HostKeeps ==
  ASSUME Inv, NEW n \in Names,
         Get(n) \/ (\E v \in Values : Poke(n, v)) \/ Undefined
  PROVE  Inv' /\ KeepsAddresses
<1>1. CASE Get(n)
  <2>1. /\ UNCHANGED <<sym, data, cell, unresolved, pc, ast, fault, known, intent, latest>>
        /\ held' = [held EXCEPT ![n] = sym[n].ptr]
    BY <1>1 DEF Get, ghosts
  <2>2. held' \in [Names -> Pointer \cup {NotHeld}]
    BY <2>1 DEF Inv, TypeOK, Symbol
  <2> QED
    BY <2>1, <2>2 DEF Inv, TypeOK, KnownDeclared, AbsentIsNull, EnumeratorShape,
                      PendingDeclared, CallableIsSafe, NewestOrStub, KeepsAddresses
<1>2. CASE \E v \in Values : Poke(n, v)
  <2>1. PICK v \in Values : Poke(n, v)
    BY <1>2
  <2>2. /\ UNCHANGED <<sym, cell, unresolved, pc, ast, fault, held, known, intent, latest>>
        /\ data' = [data EXCEPT ![held[n][2]] = v]
    BY <2>1 DEF Poke, ghosts
  <2>3. data' \in [Names -> Values]
    BY <2>2 DEF Inv, TypeOK
  <2> QED
    BY <2>2, <2>3 DEF Inv, TypeOK, KnownDeclared, AbsentIsNull, EnumeratorShape,
                      PendingDeclared, CallableIsSafe, NewestOrStub, KeepsAddresses
<1>3. CASE Undefined
  BY <1>3 DEF Undefined, vars, Inv, TypeOK, KnownDeclared, AbsentIsNull, EnumeratorShape,
              PendingDeclared, CallableIsSafe, NewestOrStub, KeepsAddresses
<1> QED
  BY <1>1, <1>2, <1>3

\* No step of the JIT or of the host breaks the invariant or moves a symbol.
LEMMA NextKeeps == Inv /\ [Next]_vars => Inv' /\ KeepsAddresses
<1> SUFFICES ASSUME Inv, [Next]_vars PROVE Inv' /\ KeepsAddresses
  OBVIOUS
<1>1. CASE UNCHANGED vars
  BY <1>1 DEF vars, Inv, TypeOK, KnownDeclared, AbsentIsNull, EnumeratorShape,
              PendingDeclared, CallableIsSafe, NewestOrStub, KeepsAddresses
<1>2. CASE Undefined
  BY <1>1, <1>2 DEF Undefined
<1> QED
  BY <1>1, <1>2, ParseKeeps, CompileKeeps, HostKeeps DEF Next

-----------------------------------------------------------------------------
(* The theorems.                                                           *)

\* The invariant holds in every state a context can reach.
THEOREM Invariance == Spec => []Inv
<1>1. Init => Inv
  BY InitInv
<1>2. Inv /\ [Next]_vars => Inv'
  BY NextKeeps
<1> QED
  BY <1>1, <1>2, PTL DEF Spec

\* Every variable keeps its type (jitc_variable_t's union included), for every
\* set of names and every sequence of units.
THEOREM TypeCorrect == Spec => []TypeOK
BY Invariance, PTL DEF Inv

\* Whatever units are parsed, fail or are reloaded, code that a trampoline
\* enters names only symbols that have an address.
THEOREM CallableSafety == Spec => []CallableIsSafe
BY Invariance, PTL DEF Inv

\* No parse, compilation or link ever moves a symbol.
THEOREM AddressStability == Spec => AddressStable
<1>1. Inv /\ [Next]_vars => [\A n \in Names : sym[n].ptr # Null => sym'[n].ptr = sym[n].ptr]_vars
  BY NextKeeps DEF KeepsAddresses
<1> QED
  BY <1>1, Invariance, PTL DEF Spec, AddressStable

\* Between two units a trampoline enters its newest code or the stub.
THEOREM NewestEntry == Spec => []EntersNewest
<1>1. Inv => EntersNewest
  BY DEF Inv, NewestOrStub, EntersNewest, Waiting
<1> QED
  BY <1>1, Invariance, PTL

-----------------------------------------------------------------------------
(* Reloads without the forms that change what a symbol is: a name whose    *)
(* declarations all say the same linkage keeps its own storage or          *)
(* trampoline, and carries the policy the program last spelled out.        *)

Plain(n) ==
  /\ sym[n].decl \in {"absent", "none"}
  /\ sym[n].decl = "absent" => sym[n].policy = "ifconst"
  /\ sym[n].policy = intent[n]
  /\ sym[n].ptr \in {Null, Own(n)}

\* What a declaration without "static", "extern" and prototypes makes of a name.
DeclaredPlainly(n, p) ==
  /\ sym' = [sym EXCEPT ![n] = Declared(n, "none", p, n, 0)]
  /\ SetIntent(n, p)

\* A first declaration sets the policy and the intent alike; a later one keeps
\* both or spells out both, as the linkage it repeats is the same.
LEMMA DeclaredPlain ==
  ASSUME Inv, NEW n \in Names, NEW p \in Policies, Plain(n), DeclaredPlainly(n, p)
  PROVE  Plain(n)'
<1>1. sym[n] \in Symbol /\ sym'[n] = Declared(n, "none", p, n, 0)
  BY DEF Inv, TypeOK, DeclaredPlainly
<1>2. p \in {"ifconst", "always", "never"}
  BY UseAssumption
<1>3. intent'[n] = IF p = "ifconst" THEN intent[n] ELSE p
  BY DEF Inv, TypeOK, DeclaredPlainly, SetIntent
<1>4. CASE sym[n].decl = "absent"
  <2>1. sym'[n] = [decl |-> "none", policy |-> p, initial |-> TRUE, link |-> n, ptr |-> Null]
    BY <1>1, <1>4 DEF Declared, Null
  <2>2. intent[n] = "ifconst"
    BY <1>4 DEF Plain
  <2> QED
    BY <1>2, <1>3, <2>1, <2>2 DEF Plain
<1>5. CASE sym[n].decl = "none"
  <2> DEFINE rep == Replacing(n, sym[n], "none", p)
             kept == p = "ifconst" /\ sym[n].policy = "ifconst"
  <2>1. Linkage(sym[n], "none") = "none"
    BY DEF Linkage
  <2>2. sym'[n] = Redeclared(n, sym[n], "none", p, 0)
    BY <1>1, <1>5 DEF Declared
  <2>3. ~kept => rep = IF p = "ifconst" THEN sym[n].policy ELSE p
    BY <1>5, <2>1 DEF Replacing
  <2>4. /\ sym'[n].decl = "none"
        /\ sym'[n].policy = IF kept THEN "ifconst" ELSE rep
        /\ sym'[n].ptr = sym[n].ptr
    <3>1. sym'[n] = [sym[n] EXCEPT !.decl = "none",
                                   !.policy = IF kept THEN "ifconst" ELSE rep,
                                   !.ptr = sym[n].ptr]
      BY <2>1, <2>2 DEF Redeclared
    <3> QED
      BY <1>1, <3>1 DEF Symbol
  <2> HIDE DEF rep, kept
  <2>5. sym[n].policy = intent[n] /\ sym[n].ptr \in {Null, Own(n)}
    BY DEF Plain
  <2> QED
    BY <1>2, <1>3, <2>3, <2>4, <2>5 DEF Plain, kept
<1> QED
  BY <1>4, <1>5 DEF Plain

\* A step of the parser leaves a name alone, declares it plainly, or needs a
\* form of its own for it.
LEMMA ParseDeclares ==
  ASSUME Inv, Parse, NEW n \in Names, n \in Functions \cup Storage, "static" \notin Forms,
         n \in Functions => "prototype" \notin Forms,
         n \in Storage => "extern" \notin Forms /\ "localstatic" \notin Forms
  PROVE  \/ sym'[n] = sym[n] /\ intent'[n] = intent[n]
         \/ \E p \in Policies : DeclaredPlainly(n, p)
<1>1. sym \in [Names -> Symbol] /\ intent \in [Names -> {"ifconst", "always", "never"}]
  BY DEF Inv, TypeOK
<1>2. ASSUME NEW k \in Names, NEW new, NEW nodes, NEW p, k # n,
             Declare(k, new, nodes), SetIntent(k, p)
      PROVE  sym'[n] = sym[n] /\ intent'[n] = intent[n]
  BY <1>1, <1>2 DEF Declare, SetIntent
<1>3. CASE BeginUnit \/ ParseError \/ EndOfUnit
  BY <1>3 DEF BeginUnit, ParseError, EndOfUnit, ghosts
<1>4. ASSUME NEW k \in Names, NEW d \in Linkages, NEW p \in Policies,
             NEW i \in Values \cup {None}, DeclareData(k, d, p, i)
      PROVE  \/ sym'[n] = sym[n] /\ intent'[n] = intent[n]
             \/ DeclaredPlainly(n, p)
  <2>1. d = "none"
    BY DEF Linkages
  <2>2. CASE k = n
    BY <1>4, <2>1, <2>2 DEF DeclareData, Declare, DeclaredPlainly
  <2>3. CASE k # n
    BY <1>2, <1>4, <2>3 DEF DeclareData
  <2> QED
    BY <2>2, <2>3
<1>5. ASSUME NEW k \in Names, NEW p \in Policies, NEW l \in Aliases[k], DeclareExtern(k, l, p)
      PROVE  sym'[n] = sym[n] /\ intent'[n] = intent[n]
  BY <1>2, <1>5 DEF DeclareExtern
<1>6. ASSUME NEW k \in Names, NEW d \in Linkages, NEW p \in Policies, NEW v \in Values,
             DefineFunction(k, d, p, v)
      PROVE  \/ sym'[n] = sym[n] /\ intent'[n] = intent[n]
             \/ DeclaredPlainly(n, p)
  <2>1. d = "none"
    BY DEF Linkages
  <2>2. CASE k = n
    BY <1>6, <2>1, <2>2 DEF DefineFunction, Declare, DeclaredPlainly
  <2>3. CASE k # n
    BY <1>2, <1>6, <2>3 DEF DefineFunction
  <2> QED
    BY <2>2, <2>3
<1>7. ASSUME NEW k \in Names, NEW d \in Linkages \cup {"extern"}, NEW p \in Policies,
             NEW l \in Aliases[k], DeclarePrototype(k, d, l, p)
      PROVE  sym'[n] = sym[n] /\ intent'[n] = intent[n]
  BY <1>2, <1>7 DEF DeclarePrototype
<1>8. ASSUME NEW k \in Names, NEW v \in Values, DeclareEnumerator(k, v)
      PROVE  sym'[n] = sym[n] /\ intent'[n] = intent[n]
  <2>1. k # n
    BY <1>8 DEF DeclareEnumerator, Functions, Storage
  <2> QED
    BY <1>1, <1>8, <2>1 DEF DeclareEnumerator, Declare
<1>9. ASSUME NEW k \in Names, DeclareLocalStatic(k)
      PROVE  sym'[n] = sym[n] /\ intent'[n] = intent[n]
  <2>1. k # n
    BY <1>9 DEF DeclareLocalStatic
  <2> QED
    BY <1>1, <1>9, <2>1 DEF DeclareLocalStatic, Declare
<1> QED
  BY <1>3, <1>4, <1>5, <1>6, <1>7, <1>8, <1>9 DEF Parse

\* The parser keeps a plain name plain.
LEMMA ParsePlain ==
  ASSUME Inv, Parse, NEW n \in Names, n \in Functions \cup Storage, "static" \notin Forms,
         n \in Functions => "prototype" \notin Forms,
         n \in Storage => "extern" \notin Forms /\ "localstatic" \notin Forms,
         Plain(n)
  PROVE  Plain(n)' /\ sym'[n].ptr = sym[n].ptr
<1>1. CASE sym'[n] = sym[n] /\ intent'[n] = intent[n]
  BY <1>1 DEF Plain
<1>2. ASSUME NEW p \in Policies, DeclaredPlainly(n, p)
      PROVE  Plain(n)'
  BY <1>2, DeclaredPlain
<1>3. ASSUME NEW p \in Policies, DeclaredPlainly(n, p)
      PROVE  sym'[n].ptr = sym[n].ptr
  <2>1. sym[n] \in Symbol /\ sym'[n] = Declared(n, "none", p, n, 0)
    BY <1>3 DEF Inv, TypeOK, DeclaredPlainly
  <2>2. CASE sym[n].decl = "absent"
    BY <2>1, <2>2 DEF Declared, Null, Inv, AbsentIsNull
  <2>3. CASE sym[n].decl # "absent"
    BY <2>1, <2>3 DEF Declared, Redeclared, Symbol
  <2> QED
    BY <2>2, <2>3
<1> QED
  BY <1>1, <1>2, <1>3, ParseDeclares

\* Storage is allocated and initialised for variables only.
PendingStorage == \A i \in 1..Len(ast) : ast[i].op # "func" => ast[i].name \in Storage

LEMMA PendingStep == Inv /\ PendingStorage /\ [Next]_vars => PendingStorage'
<1> SUFFICES ASSUME Inv, PendingStorage, [Next]_vars PROVE PendingStorage'
  OBVIOUS
<1>1. ast \in Seq(Node)
  BY DEF Inv, TypeOK
<1>2. ASSUME NEW n, NEW new, NEW nodes \in Seq(Node), Declare(n, new, nodes),
             \A j \in 1..Len(nodes) : nodes[j].op # "func" => nodes[j].name \in Storage
      PROVE  PendingStorage'
  <2> SUFFICES ASSUME NEW i \in 1..Len(ast'), ast'[i].op # "func"
               PROVE  ast'[i].name \in Storage
    BY DEF PendingStorage
  <2>1. ast' = ast \o nodes
    BY <1>2 DEF Declare
  <2>2. CASE i \in 1..Len(ast)
    BY <1>1, <1>2, <2>1, <2>2 DEF PendingStorage
  <2>3. CASE i \notin 1..Len(ast)
    <3>1. i - Len(ast) \in 1..Len(nodes) /\ ast'[i] = nodes[i - Len(ast)]
      BY <1>1, <1>2, <2>1, <2>3
    <3> QED
      BY <1>2, <3>1
  <2> QED
    BY <2>2, <2>3
<1>3. ASSUME NEW n, NEW new, Declare(n, new, <<>>)
      PROVE  PendingStorage'
  <2>1. ast' = ast
    BY <1>1, <1>3 DEF Declare
  <2> QED
    BY <2>1 DEF PendingStorage
<1>4. ASSUME NEW n \in Names, NEW d \in Linkages, NEW p \in Policies,
             NEW i \in Values \cup {None}, DeclareData(n, d, p, i)
      PROVE  PendingStorage'
  <2> DEFINE decl == [op |-> "decl", name |-> n, val |-> 0]
             init == [op |-> "init", name |-> n, val |-> i]
             nodes == IF i = None THEN <<decl>> ELSE <<decl, init>>
             new == Declared(n, d, p, n, 0)
  <2>1. Declare(n, new, nodes) /\ n \in Storage
    BY <1>4 DEF DeclareData
  <2>2. decl \in Node /\ decl.name = n
    BY ValueAssumption DEF Node
  <2>3. i # None => init \in Node /\ init.name = n
    BY DEF Node
  <2> HIDE DEF decl, init
  <2>4. nodes \in Seq(Node) /\ \A j \in 1..Len(nodes) : nodes[j].name = n
    BY <2>2, <2>3
  <2> HIDE DEF nodes, new
  <2> QED
    BY <1>2, <2>1, <2>4
<1>5. ASSUME NEW n \in Names, NEW p \in Policies, NEW l \in Aliases[n], DeclareExtern(n, l, p)
      PROVE  PendingStorage'
  <2> DEFINE nodes == <<[op |-> "decl", name |-> n, val |-> 0]>>
             new == Declared(n, "extern", p, l, 0)
  <2>1. Declare(n, new, nodes) /\ n \in Storage
    BY <1>5 DEF DeclareExtern
  <2>2. nodes \in Seq(Node) /\ \A j \in 1..Len(nodes) : nodes[j].name = n
    BY ValueAssumption DEF Node
  <2> HIDE DEF nodes, new
  <2> QED
    BY <1>2, <2>1, <2>2
<1>6. ASSUME NEW n \in Names, NEW d \in Linkages, NEW p \in Policies, NEW v \in Values,
             DefineFunction(n, d, p, v)
      PROVE  PendingStorage'
  <2> DEFINE nodes == <<[op |-> "func", name |-> n, val |-> v]>>
             new == Declared(n, d, p, n, 0)
  <2>1. Declare(n, new, nodes)
    BY <1>6 DEF DefineFunction
  <2>2. nodes \in Seq(Node) /\ \A j \in 1..Len(nodes) : nodes[j].op = "func"
    BY DEF Node
  <2> HIDE DEF nodes, new
  <2> QED
    BY <1>2, <2>1, <2>2
<1>7. CASE ast' = ast
  BY <1>7 DEF PendingStorage
<1>8. CASE ast' = <<>>
  BY <1>8 DEF PendingStorage
<1>9. CASE ast # <<>> /\ ast' = Tail(ast)
  <2>1. ASSUME NEW i \in 1..Len(ast')
        PROVE  i + 1 \in 1..Len(ast) /\ ast'[i] = ast[i + 1]
    BY <1>1, <1>9
  <2> QED
    BY <2>1 DEF PendingStorage
<1>10. CASE Parse
  BY <1>3, <1>4, <1>5, <1>6, <1>7, <1>8, <1>10
     DEF Parse, BeginUnit, ParseError, EndOfUnit, DeclarePrototype, DeclareEnumerator,
         DeclareLocalStatic
<1>11. CASE Compile
  BY <1>7, <1>9, <1>11
     DEF Compile, CompileDeclaration, CompileInitializer, CompileFunction, FinishUnit, Compiling
<1>12. CASE UNCHANGED vars \/ Undefined \/ (\E n \in Names : Get(n))
            \/ (\E n \in Names, v \in Values : Poke(n, v))
  BY <1>7, <1>12 DEF vars, Undefined, Get, Poke
<1> QED
  BY <1>10, <1>11, <1>12 DEF Next

-----------------------------------------------------------------------------
(* The newest definition runs.  Without prototypes and "static", which hand *)
(* functions to extern or take them back, every function is plain, and the *)
(* cell of its trampoline has the body of its newest definition.           *)

CodeIsLatest ==
  \A f \in Functions :
    /\ latest[f] # None <=> sym[f].ptr = Own(f)
    /\ latest[f] # None => cell[f].code = latest[f]

FunctionInv ==
  /\ \A f \in Functions : Plain(f)
  /\ CodeIsLatest
  /\ RunsLatest

\* Two functions have two trampolines.
LEMMA OwnDistinct ==
  /\ \A m, n \in Names : Own(m) = Own(n) => m = n
  /\ \A n \in Names : Own(n)[2] = n
BY DEF Own

\* No link of plain functions meets a pointer that is no trampoline; the links
\* that resolve everything enter the newest code.
LEMMA LinkFunctions ==
  ASSUME NEW s, NEW c \in [Names -> CellType], Link(s, c),
         \A f \in Functions : s[f].decl \in {"absent", "none"} /\ s[f].ptr \in {Null, Own(f)},
         \A f \in Functions : s[f].decl = "absent" => s[f].ptr = Null
  PROVE  /\ UNCHANGED fault
         /\ \A f \in Functions : /\ sym'[f] = s[f]
                                 /\ cell'[f].code = c[f].code
         /\ unresolved' = "none" =>
              \A f \in Functions : sym'[f].ptr = Own(f) => cell'[f].curr = c[f].code
<1> DEFINE b == Bind(s)
<1>1. \A f \in Functions : f \in Names /\ b[f] = s[f]
  BY DEF Bind, Functions
<1> HIDE DEF b
<1>2. ~Foreign(b)
  BY <1>1 DEF Foreign, Linked, Trampolines
<1>3. /\ sym' = b /\ cell' = Enter(b, c) /\ UNCHANGED fault
      /\ unresolved' = IF Unresolved(b) = {} THEN "none" ELSE "some"
  BY <1>2 DEF Link, b
<1>4. ASSUME NEW f \in Functions
      PROVE  /\ cell'[f].code = c[f].code
             /\ unresolved' = "none" /\ sym'[f].ptr = Own(f) => cell'[f].curr = c[f].code
  <2>1. f \in Names /\ c[f] \in CellType
    BY DEF Functions
  <2> DEFINE reached == \E k \in Linked(b) : b[k].ptr = Own(f)
  <2>2. cell'[f] = IF reached
                     THEN [c[f] EXCEPT !.curr = IF Unresolved(b) = {} THEN c[f].code ELSE Stub]
                     ELSE c[f]
    BY <1>3, <2>1 DEF Enter
  <2>3. sym'[f].ptr = Own(f) => reached
    <3>1. Own(f) # Null
      BY <2>1, Sentinels
    <3> QED
      BY <1>1, <1>3, <3>1 DEF Linked
  <2> HIDE DEF reached
  <2>4. cell'[f].code = c[f].code
    BY <2>1, <2>2 DEF CellType
  <2>5. ASSUME unresolved' = "none", sym'[f].ptr = Own(f)
        PROVE  cell'[f].curr = c[f].code
    <3>1. Unresolved(b) = {}
      BY <1>3, <2>5
    <3> QED
      BY <2>1, <2>2, <2>3, <2>5, <3>1 DEF CellType
  <2> QED
    BY <2>4, <2>5
<1> QED
  BY <1>1, <1>3, <1>4

\* A node with its link, seen by the functions: every function keeps what it has,
\* or gets its trampoline and the code of its newest definition at once.
LEMMA CompileFunctions ==
  ASSUME Inv, FunctionInv, NEW s, NEW c \in [Names -> CellType], Link(s, c),
         UNCHANGED intent,
         \A f \in Functions :
           /\ s[f].decl = sym[f].decl /\ s[f].policy = sym[f].policy
           /\ s[f].ptr \in {Null, Own(f)}
           /\ s[f].decl = "absent" => s[f].ptr = Null
           /\ latest'[f] # None <=> s[f].ptr = Own(f)
           /\ latest'[f] # None => c[f].code = latest'[f]
  PROVE  FunctionInv'
<1>1. /\ UNCHANGED fault
      /\ \A f \in Functions : sym'[f] = s[f] /\ cell'[f].code = c[f].code
      /\ unresolved' = "none" =>
           \A f \in Functions : sym'[f].ptr = Own(f) => cell'[f].curr = c[f].code
  BY LinkFunctions DEF FunctionInv, Plain
<1>2. \A f \in Functions : Plain(f)'
  BY <1>1 DEF FunctionInv, Plain
<1>3. CodeIsLatest'
  BY <1>1 DEF CodeIsLatest
<1>4. RunsLatest'
  <2> SUFFICES ASSUME unresolved' = "none", NEW f \in Functions, latest'[f] # None
               PROVE  /\ sym'[f].ptr \in Trampolines
                      /\ cell'[sym'[f].ptr[2]].curr = latest'[f]
    BY DEF RunsLatest
  <2>1. f \in Names /\ sym'[f].ptr = Own(f) /\ c[f].code = latest'[f]
    BY <1>1 DEF Functions
  <2> QED
    BY <1>1, <2>1, OwnDistinct DEF Trampolines
<1> QED
  BY <1>2, <1>3, <1>4 DEF FunctionInv

\* The parser compiles nothing, so the newest definitions stay where they are.
LEMMA ParseFunctions ==
  ASSUME Inv, FunctionInv, Parse, {"prototype", "static"} \cap Forms = {}
  PROVE  FunctionInv'
<1>1. ASSUME NEW f \in Functions
      PROVE  Plain(f)' /\ sym'[f].ptr = sym[f].ptr
  <2>1. f \in Names /\ f \notin Storage
    BY DEF Functions, Storage
  <2> QED
    BY <2>1, ParsePlain DEF FunctionInv
<1>2. UNCHANGED <<cell, latest, unresolved>> /\ pc' # "ready"
  BY DEF Parse, BeginUnit, ParseError, EndOfUnit, DeclareData, DeclareExtern, DefineFunction,
         DeclarePrototype, DeclareEnumerator, DeclareLocalStatic, Declare, ghosts
<1>3. CodeIsLatest'
  BY <1>1, <1>2 DEF FunctionInv, CodeIsLatest
<1>4. RunsLatest'
  BY <1>2 DEF RunsLatest
<1> QED
  BY <1>1, <1>3, <1>4 DEF FunctionInv

\* Compiling a node: its storage is no trampoline, its body goes to the cell of
\* the function that it defines unless the program asked to preserve the old one.
LEMMA CompilerFunctions ==
  ASSUME Inv, FunctionInv, PendingStorage, Compile
  PROVE  FunctionInv'
<1> DEFINE n == Head(ast).name
           v == Head(ast).val
           p == sym[n].ptr
<1>1. /\ sym \in [Names -> Symbol] /\ cell \in [Names -> CellType]
      /\ latest \in [Names -> Values \cup {None}] /\ ast \in Seq(Node)
  BY DEF Inv, TypeOK, CellType
<1>2. ASSUME NEW op, Compiling(op)
      PROVE  /\ n \in Names /\ v \in Values /\ UNCHANGED intent
             /\ op = "func" => n \in Functions
             /\ op # "func" => n \in Storage
             /\ pc' = "compile"
  <2>1. ast # <<>> /\ 1 \in 1..Len(ast) /\ Head(ast) = ast[1] /\ ast[1] \in Node
        /\ ast[1].op = op
    BY <1>1, <1>2 DEF Compiling
  <2> QED
    BY <1>2, <2>1 DEF Compiling, Node, Inv, PendingDeclared, PendingStorage
<1>3. \A f \in Functions : f \in Names /\ f \notin Storage
  BY DEF Functions, Storage
<1>4. \A f \in Functions :
        /\ sym[f].ptr \in {Null, Own(f)}
        /\ sym[f].decl = "absent" => sym[f].ptr = Null
        /\ latest[f] # None <=> sym[f].ptr = Own(f)
        /\ latest[f] # None => cell[f].code = latest[f]
  BY <1>3 DEF FunctionInv, CodeIsLatest, Plain, Inv, AbsentIsNull
<1>5. CASE CompileDeclaration
  <2>1. Compiling("decl") /\ Link(Allocated(n), cell) /\ UNCHANGED latest
    BY <1>5 DEF CompileDeclaration
  <2>2. \A f \in Functions : Allocated(n)[f] = sym[f]
    BY <1>1, <1>2, <1>3, <2>1 DEF Allocated
  <2> QED
    BY <1>1, <1>2, <1>4, <2>1, <2>2, CompileFunctions
<1>6. CASE CompileInitializer
  <2>1. Compiling("init") /\ UNCHANGED latest
    BY <1>6 DEF CompileInitializer
  <2>2. CASE Link(sym, cell)
    BY <1>1, <1>2, <1>4, <2>1, <2>2, CompileFunctions
  <2>3. CASE Link([sym EXCEPT ![n].initial = FALSE], cell)
    <3> DEFINE s == [sym EXCEPT ![n].initial = FALSE]
    <3>1. \A f \in Functions : s[f] = sym[f]
      BY <1>1, <1>2, <1>3, <2>1
    <3>2. Link(s, cell)
      BY <2>3
    <3> HIDE DEF s
    <3> QED
      BY <1>1, <1>2, <1>4, <2>1, <3>1, <3>2, CompileFunctions
  <2>4. CASE ForeignWrite
    <3>1. UNCHANGED <<sym, cell, intent, latest>> /\ fault'
      BY <1>2, <2>1, <2>4 DEF ForeignWrite
    <3> QED
      BY <3>1 DEF FunctionInv, CodeIsLatest, RunsLatest, Plain
  <2> QED
    BY <1>6, <2>2, <2>3, <2>4 DEF CompileInitializer
<1>7. CASE CompileFunction
  <2>1. /\ Compiling("func")
        /\ latest' = IF intent[n] = "always" /\ latest[n] # None
                       THEN latest ELSE [latest EXCEPT ![n] = v]
    BY <1>7 DEF CompileFunction
  <2>2. /\ n \in Functions /\ n \in Names /\ v \in Values /\ v # None
        /\ sym[n].decl = "none" /\ sym[n].policy = intent[n] /\ p \in {Null, Own(n)}
    <3>1. n \in Functions /\ n \in Names /\ v \in Values
      BY <1>2, <2>1
    <3>2. sym[n].decl # "absent"
      <4>1. 1 \in 1..Len(ast) /\ ast[1] = Head(ast) /\ ast[1].op = "func"
        BY <1>1, <2>1 DEF Compiling
      <4> QED
        BY <4>1 DEF Inv, PendingDeclared
    <3> HIDE DEF n
    <3> QED
      BY <3>1, <3>2, Sentinels DEF FunctionInv, Plain
  <2> HIDE DEF n, v
  <2>3. CASE p = Own(n) /\ sym[n].policy = "always"
    <3>1. latest' = latest
      BY <1>4, <2>1, <2>2, <2>3
    <3>2. Link(sym, cell)
      BY <1>7, <2>2, <2>3, Sentinels DEF CompileFunction, n
    <3> QED
      BY <1>1, <1>2, <1>4, <2>1, <3>1, <3>2, CompileFunctions
  <2>4. CASE p = Own(n) /\ sym[n].policy # "always"
    <3> DEFINE c == [cell EXCEPT ![n].code = v]
    <3>1. latest' = [latest EXCEPT ![n] = v]
      BY <2>1, <2>2, <2>4
    <3>2. p \in Trampolines /\ p # Null /\ p[2] = n
      BY <2>2, <2>4, Sentinels, OwnDistinct DEF Trampolines
    <3>3. Link(sym, c)
      BY <1>7, <2>2, <2>4, <3>2 DEF CompileFunction, n, v
    <3>4. c \in [Names -> CellType]
      BY <1>1, <2>2, SetCode
    <3>5. \A f \in Functions :
            /\ latest'[f] = IF f = n THEN v ELSE latest[f]
            /\ c[f].code = IF f = n THEN v ELSE cell[f].code
      BY <1>1, <1>3, <2>2, <3>1 DEF CellType
    <3> HIDE DEF c
    <3> QED
      BY <1>2, <1>4, <2>1, <2>2, <2>4, <3>3, <3>4, <3>5, CompileFunctions
  <2>5. CASE p = Null
    <3> DEFINE s == [sym EXCEPT ![n].ptr = Own(n)]
               c == [cell EXCEPT ![n].code = v]
    <3>1. latest' = [latest EXCEPT ![n] = v]
      BY <1>4, <2>1, <2>2, <2>5, Sentinels
    <3>2. Link(s, c)
      <4>1. /\ sym[n].decl # "extern" /\ ~(p # Null /\ sym[n].policy = "always")
            /\ p \notin Trampolines
        BY <1>3, <2>2, <2>5, Sentinels DEF Trampolines
      <4> QED
        BY <1>7, <2>5, <4>1 DEF CompileFunction, n, v
    <3>3. c \in [Names -> CellType]
      BY <1>1, <2>2, SetCode
    <3>4. \A f \in Functions :
            /\ latest'[f] = IF f = n THEN v ELSE latest[f]
            /\ c[f].code = IF f = n THEN v ELSE cell[f].code
      BY <1>1, <1>3, <2>2, <3>1 DEF CellType
    <3>5. \A f \in Functions :
            /\ s[f].decl = sym[f].decl /\ s[f].policy = sym[f].policy
            /\ s[f].ptr = IF f = n THEN Own(n) ELSE sym[f].ptr
      BY <1>1, <1>3, <2>2 DEF Symbol
    <3> HIDE DEF c, s
    <3> QED
      BY <1>2, <1>4, <2>1, <2>2, <2>5, <3>2, <3>3, <3>4, <3>5, CompileFunctions
  <2> QED
    BY <2>2, <2>3, <2>4, <2>5
<1>8. CASE FinishUnit
  <2>1. Link(sym, cell) /\ UNCHANGED <<intent, latest>>
    BY <1>8 DEF FinishUnit, ghosts
  <2> QED
    BY <1>1, <1>4, <2>1, CompileFunctions
<1> QED
  BY <1>5, <1>6, <1>7, <1>8 DEF Compile

\* Without prototypes and "static", when a unit has been compiled and nothing is
\* unresolved every function enters its newest definition, unless the program
\* asked to preserve an older one: after any number of reloads and failed
\* parses, whatever the other symbols are bound to.
THEOREM NewestDefinitionRuns ==
  ASSUME {"prototype", "static"} \cap Forms = {}
  PROVE  Spec => []RunsLatest
<1>1. Init => FunctionInv /\ PendingStorage
  <2> SUFFICES ASSUME Init PROVE FunctionInv /\ PendingStorage
    OBVIOUS
  <2>1. \A f \in Functions : f \in Names /\ sym[f].ptr = Null /\ Own(f) # Null
    BY Sentinels DEF Init, Functions
  <2> QED
    BY <2>1 DEF Init, FunctionInv, PendingStorage, Plain, CodeIsLatest, RunsLatest, Functions
<1>2. Inv /\ FunctionInv /\ PendingStorage /\ [Next]_vars => FunctionInv'
  <2> SUFFICES ASSUME Inv, FunctionInv, PendingStorage, [Next]_vars PROVE FunctionInv'
    OBVIOUS
  <2>1. CASE Parse
    BY <2>1, ParseFunctions
  <2>2. CASE Compile
    BY <2>2, CompilerFunctions
  <2>3. CASE UNCHANGED <<sym, cell, unresolved, pc, fault, intent, latest>>
    BY <2>3 DEF FunctionInv, CodeIsLatest, RunsLatest, Plain
  <2> QED
    BY <2>1, <2>2, <2>3 DEF Next, Get, Poke, Undefined, vars, ghosts
<1>3. FunctionInv => RunsLatest
  BY DEF FunctionInv
<1> QED
  BY <1>1, <1>2, <1>3, PendingStep, Invariance, PTL DEF Spec

-----------------------------------------------------------------------------
(* Preserved variables.  Where all of the program's variables are plain, an *)
(* initialiser is stored into the storage of its own variable, and the     *)
(* policy in the table is the one the program spelled out.                 *)

StorageInv == \A n \in Storage : Plain(n)

\* A link does not touch plain variables.
LEMMA LinkStorage ==
  ASSUME NEW s, NEW c, Link(s, c), StorageInv, UNCHANGED intent,
         \A n \in Storage :
           /\ s[n].decl = sym[n].decl /\ s[n].policy = sym[n].policy
           /\ s[n].ptr \in {Null, Own(n)}
  PROVE  StorageInv'
<1>1. CASE sym' = Bind(s)
  <2> SUFFICES ASSUME NEW n \in Storage PROVE Plain(n)'
    BY DEF StorageInv
  <2>1. n \in Names /\ Plain(n)
    BY DEF Storage, StorageInv
  <2>2. sym'[n] = s[n]
    BY <1>1, <2>1 DEF Bind, Plain
  <2> QED
    BY <2>1, <2>2 DEF Plain
<1>2. CASE sym' = sym
  BY <1>2 DEF StorageInv, Plain
<1> QED
  BY <1>1, <1>2 DEF Link

\* What every step does to plain variables.
LEMMA StorageStep ==
  ASSUME Inv, PendingStorage, StorageInv, [Next]_vars,
         {"static", "extern", "localstatic"} \cap Forms = {}
  PROVE  StorageInv'
<1> DEFINE n == Head(ast).name
           v == Head(ast).val
<1>1. /\ sym \in [Names -> Symbol] /\ ast \in Seq(Node)
      /\ \A k \in Storage : k \in Names /\ k \notin Functions
      /\ \A k \in Storage : sym[k].ptr \in {Null, Own(k)}
  BY DEF Inv, TypeOK, StorageInv, Plain, Storage, Functions
<1>2. CASE Parse
  BY <1>1, <1>2, ParsePlain DEF StorageInv
<1>3. ASSUME NEW op, Compiling(op)
      PROVE  /\ n \in Names /\ UNCHANGED intent
             /\ op = "func" => n \in Functions
  <2>1. ast # <<>> /\ 1 \in 1..Len(ast) /\ Head(ast) = ast[1] /\ ast[1] \in Node
        /\ ast[1].op = op
    BY <1>1, <1>3 DEF Compiling
  <2> QED
    BY <1>3, <2>1 DEF Compiling, Node, Inv, PendingDeclared
<1>4. CASE CompileDeclaration
  <2>1. Compiling("decl") /\ Link(Allocated(n), cell)
    BY <1>4 DEF CompileDeclaration
  <2>2. n \in Names /\ UNCHANGED intent
    BY <1>3, <2>1
  <2> HIDE DEF n
  <2>3. \A k \in Storage :
          /\ Allocated(n)[k].decl = sym[k].decl /\ Allocated(n)[k].policy = sym[k].policy
          /\ Allocated(n)[k].ptr \in {Null, Own(k)}
    <3>1. CASE Allocated(n) = sym
      BY <1>1, <3>1
    <3>2. CASE Allocated(n) = [sym EXCEPT ![n].ptr = Own(n)]
      BY <1>1, <2>2, <3>2 DEF Symbol
    <3> QED
      BY <3>1, <3>2 DEF Allocated
  <2> QED
    BY <2>1, <2>2, <2>3, LinkStorage
<1>5. CASE CompileInitializer
  <2>1. Compiling("init")
    BY <1>5 DEF CompileInitializer
  <2>2. n \in Names /\ UNCHANGED intent
    BY <1>3, <2>1
  <2>3. CASE Link(sym, cell)
    BY <1>1, <2>2, <2>3, LinkStorage
  <2>4. CASE Link([sym EXCEPT ![n].initial = FALSE], cell)
    <3> DEFINE s == [sym EXCEPT ![n].initial = FALSE]
    <3> HIDE DEF n
    <3>1. \A k \in Storage : /\ s[k].decl = sym[k].decl /\ s[k].policy = sym[k].policy
                             /\ s[k].ptr = sym[k].ptr
      BY <1>1, <2>2 DEF Symbol
    <3>2. Link(s, cell)
      BY <2>4
    <3> HIDE DEF s
    <3> QED
      BY <1>1, <2>2, <3>1, <3>2, LinkStorage
  <2>5. CASE ForeignWrite
    BY <2>2, <2>5 DEF ForeignWrite, StorageInv, Plain
  <2> QED
    BY <1>5, <2>3, <2>4, <2>5 DEF CompileInitializer
<1>6. CASE CompileFunction
  <2>1. Compiling("func")
    BY <1>6 DEF CompileFunction
  <2>2. n \in Functions /\ n \in Names /\ UNCHANGED intent
    BY <1>3, <2>1
  <2>3. ASSUME NEW c, Link(sym, c)
        PROVE  StorageInv'
    BY <1>1, <2>2, <2>3, LinkStorage
  <2>4. ASSUME NEW c, Link([sym EXCEPT ![n].ptr = Own(n)], c)
        PROVE  StorageInv'
    <3> DEFINE s == [sym EXCEPT ![n].ptr = Own(n)]
    <3> HIDE DEF n
    <3>1. \A k \in Storage : s[k] = sym[k]
      BY <1>1, <2>2
    <3>2. Link(s, c)
      BY <2>4
    <3> HIDE DEF s
    <3> QED
      BY <1>1, <2>2, <3>1, <3>2, LinkStorage
  <2>5. CASE ForeignWrite
    BY <2>2, <2>5 DEF ForeignWrite, StorageInv, Plain
  <2> QED
    BY <1>6, <2>3, <2>4, <2>5 DEF CompileFunction
<1>7. CASE FinishUnit
  BY <1>1, <1>7, LinkStorage DEF FinishUnit, ghosts
<1>8. CASE UNCHANGED <<sym, intent>>
  BY <1>8 DEF StorageInv, Plain
<1> QED
  BY <1>2, <1>4, <1>5, <1>6, <1>7, <1>8 DEF Next, Compile, Get, Poke, Undefined, vars, ghosts

\* The store of an initialiser is the only one of the compiler, and it is left
\* out for a variable that is preserved.
LEMMA StoreKeeps ==
  ASSUME Inv, PendingStorage, StorageInv, [Next]_vars, pc = "compile",
         NEW k \in Storage, ~sym[k].initial, Preserved(k)
  PROVE  data'[k] = data[k]
<1>1. CASE CompileInitializer
  <2> DEFINE n == Head(ast).name
             p == sym[n].ptr
  <2>1. n \in Storage /\ n \in Names
    <3>1. ast \in Seq(Node) /\ ast # <<>> /\ Head(ast).op = "init"
      BY <1>1 DEF CompileInitializer, Compiling, Inv, TypeOK
    <3>2. 1 \in 1..Len(ast) /\ ast[1] = Head(ast)
      BY <3>1
    <3> QED
      BY <3>1, <3>2 DEF PendingStorage, Storage
  <2>2. CASE UNCHANGED data
    BY <2>2
  <2>3. CASE ~Keeps(n) /\ p \in Cells /\ data' = [data EXCEPT ![p[2]] = Head(ast).val]
    <3>1. p = Own(n) /\ p[2] = n
      <4>1. p # Null
        BY <2>3, Sentinels DEF Cells, Storage
      <4> QED
        BY <2>1, <4>1, OwnDistinct DEF StorageInv, Plain
    <3>2. n # k
      <4> SUFFICES ASSUME n = k PROVE FALSE
        OBVIOUS
      <4>1. sym[k].policy = intent[k] /\ ~Keeps(k)
        BY <2>3 DEF StorageInv, Plain
      <4> QED
        BY <4>1 DEF Keeps, Preserved
    <3>3. data \in [Names -> Values] /\ k \in Names
      BY DEF Inv, TypeOK, Storage
    <3> HIDE DEF n, p
    <3> QED
      BY <2>1, <2>3, <3>1, <3>2, <3>3
  <2> QED
    BY <1>1, <2>2, <2>3 DEF CompileInitializer, ForeignWrite
<1>2. CASE UNCHANGED data
  BY <1>2
<1> QED
  BY <1>1, <1>2
     DEF Next, Parse, BeginUnit, DeclareData, DeclareExtern, DefineFunction, DeclarePrototype,
         DeclareEnumerator, DeclareLocalStatic, Declare, ParseError, EndOfUnit, Compile,
         CompileDeclaration, CompileFunction, Compiled, ForeignWrite, FinishUnit, Get, Poke,
         Waiting, Undefined, vars, ghosts

\* Without the forms that give a variable another linkage than a plain
\* definition does, compiling a unit never stores into a variable that has had
\* its initialiser and that the program has asked to preserve.
THEOREM PreservedStays ==
  ASSUME {"static", "extern", "localstatic"} \cap Forms = {}
  PROVE  Spec => PreservedValue
<1>1. Init => StorageInv /\ PendingStorage
  BY DEF Init, StorageInv, PendingStorage, Plain, Storage
<1>2. Inv /\ PendingStorage /\ StorageInv /\ [Next]_vars => StorageInv'
  BY StorageStep
<1>3. Inv /\ PendingStorage /\ StorageInv /\ [Next]_vars =>
        [pc = "compile" =>
           \A n \in Storage : ~sym[n].initial /\ Preserved(n) => data'[n] = data[n]]_vars
  BY StoreKeeps
<1> QED
  BY <1>1, <1>2, <1>3, PendingStep, Invariance, PTL DEF Spec, PreservedValue
=============================================================================
