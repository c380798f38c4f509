-------------------------------- MODULE Scopes --------------------------------
(***************************************************************************)
(* Names and scopes: the list of scopes of a context, what the parser      *)
(* pushes, declares and pops as it goes through a program, the names it    *)
(* gives to what is local, and the map in which code generation looks      *)
(* those names up.  Beside them stands what C makes of the same program.   *)
(* Types are left out, and of declarations in functions those that are     *)
(* static or extern: no storage is ever found for them.                    *)
(***************************************************************************)
EXTENDS SortedMap, FiniteSetsExt

CONSTANTS
    Names,         \* identifiers, numbers from 1
    Forms,         \* what the code takes otherwise than C does
    MaxDepth,      \* bound on what is open at once
    MaxScopes,     \* bound on what is opened
    MaxNames,      \* bound on the names in scopes that are open, for one more to be declared
    MaxParameters  \* bound on the names of one list of parameters

ASSUME NamesAssumption == Names \subseteq Nat \ {0} /\ Names # {} /\ IsFiniteSet(Names)

(* "nested": a tag defined among the fields of a struct.  "self": a struct  *)
(* that names itself among its fields where another one has its tag.       *)
AllForms == {"nested", "self"}

ASSUME FormsAssumption == Forms \subseteq AllForms

ASSUME BoundsAssumption == {MaxScopes, MaxNames, MaxParameters} \subseteq Nat /\ MaxDepth \in Nat \ {0}

VARIABLES
    scopes,     \* context->scopes
    id,         \* the counter of jitc_push_scope
    leaves,     \* of each function that is open, what append_to_size_tree finds in it
    env         \* what is open in the program: [kind, tag, names, tags]

vars == <<scopes, id, leaves, env>>

Return == 0
NoTag == 0
Functions == {"function", "lambda", "instance"}
Kinds == Functions \union {"file", "block", "struct", "template"}
--------------------------------------------------------------------------------
(* What C says.  A scope goes by its depth; of a lambda's surroundings it  *)
(* sees those that are not functions' own: the file's.  The braces of a    *)
(* struct are no scope: they hold the parameters of its template, if it    *)
(* is one, and a tag among its fields is declared where the struct is.  A  *)
(* tag is seen from where it appears, in its own fields already.           *)
Here == Len(env)
Kind == Last(env).kind

COpen(kind, names, tag) ==
    env' = Append(env, [kind |-> kind, tag |-> tag, names |-> names, tags |-> {}])

CSeen == {d \in DOMAIN env : d = 1 \/ \A l \in d + 1 .. Here : env[l].kind # "lambda"}

CVariable(n) == LET there == {d \in CSeen : n \in env[d].names}
                IN  IF there = {} THEN 0 ELSE Max(there)

Home(d) == Max({l \in 1 .. d : env[l].kind # "struct"})

CTagged(n) ==
    LET there == {d \in DOMAIN env : n \in env[d].tags}
                 \union {Home(d) : d \in {l \in DOMAIN env : env[l].kind = "struct" /\ env[l].tag = n}}
    IN  IF there = {} THEN 0 ELSE Max(there)

(* The struct that is left has declared its tag. *)
CLeaveStruct == env' = [Front(env) EXCEPT ![Home(Here)].tags = @ \union ({Last(env).tag} \ {NoTag})]
--------------------------------------------------------------------------------
(* The scopes of a context.  A value in them is [type, scope_id] and, to   *)
(* compare it with C, the depth its declaration stands at.                 *)
NoScope == [variables |-> map_new, tagged |-> map_new, func |-> FALSE, scope_id |-> 0]

(* Mutant: a scope is known by its place in the list. *)
ScopeId_place(s, n) == Len(s)

(* The id of the next scope, n having been given to the last one. *)
ScopeId(s, n) == IF s = <<>> THEN 0 ELSE n + 1

jitc_push_scope(s, n) == Append(s, [NoScope EXCEPT !.scope_id = ScopeId(s, n)])

jitc_push_function(s, n) == Append(s, [NoScope EXCEPT !.scope_id = ScopeId(s, n), !.func = TRUE])

jitc_pop_scope(s) == IF Len(s) <= 1 THEN s ELSE Front(s)

(* Mutant: a unit that fails leaves its scopes. *)
PopAll_none(s) == s

PopAll(s) == SubSeq(s, 1, 1)

(* Whether a name may be declared in the last scope: not again, but at the *)
(* end of the file's, if it is declared as the same.                       *)
MayDeclare(s, n, type) ==
    Has(Last(s).variables, n) =>
        Len(s) = 1 /\ map_get_value(map_find(Last(s).variables, n)).type = type

(* Arguments keep their name, as if they were in scope 0. *)
jitc_declare_variable(s, n, type, argument, where) ==
    LET scope == Last(s)
    IN  IF Has(scope.variables, n) THEN s
        ELSE [s EXCEPT ![Len(s)].variables =
                Put(@, n, [type |-> type, where |-> where,
                           scope_id |-> IF argument THEN 0 ELSE scope.scope_id])]

DeclareAll(s, names, type, argument, where) ==
    FoldSet(LAMBDA n, x : jitc_declare_variable(x, n, type, argument, where), s, names)

jitc_declare_tagged_type(s, n, where) ==
    [s EXCEPT ![Len(s)].tagged = IF Has(@, n) THEN SetValue(map_find(@, n), where) ELSE Put(@, n, where)]

(* Mutant: nothing stops at a function. *)
Visible_all(s) == DOMAIN s

(* Behind the scope of a lambda only that of the file is looked at. *)
Visible(s) == {i \in DOMAIN s : i = 1 \/ \A j \in i + 1 .. Len(s) : ~s[j].func}

None == [type |-> "none", where |-> 0, scope_id |-> 0]

jitc_get_variable(s, n) ==
    LET there == {i \in Visible(s) : Has(s[i].variables, n)}
    IN  IF there = {} THEN None ELSE map_get_value(map_find(s[Max(there)].variables, n))

jitc_get_tagged_type_notype(s, n) ==
    LET there == {i \in DOMAIN s : Has(s[i].tagged, n)}
    IN  IF there = {} THEN 0 ELSE map_get_value(map_find(s[Max(there)].tagged, n))

(* The name of what is local carries the id of its scope. *)
jitc_scoped_name(n, scope_id) == scope_id * (Max(Names) + 1) + n
--------------------------------------------------------------------------------
(* The map of names code generation makes for a function: first all that   *)
(* is in the file's scope, then the arguments and the declarations it has. *)
variable_map(globals, list) ==
    LET all == FoldLeft(LAMBDA m, e : Put(m, e.key, e.value.where), map_new, globals.entries)
    IN  FoldLeft(LAMBDA m, leaf : Put(m, leaf.name, leaf.where), all, list)

Leaf(n, scope_id, where) == [name |-> jitc_scoped_name(n, scope_id), where |-> where]

Arguments(names, where) == SetToSeq({Leaf(n, 0, where) : n \in names})
--------------------------------------------------------------------------------
Inside == Len(env) + 1

Room == Cardinality(UNION {{d} \X env[d].names : d \in DOMAIN env}) < MaxNames

InStatements == Kind \in Functions \union {"block"}

Open(kind, names, tag, pushed) ==
    /\ Here < MaxDepth /\ id < MaxScopes
    /\ id' = id + 1 /\ scopes' = pushed
    /\ COpen(kind, names, tag)

(* A function's body: its scope holds "return" and the arguments. *)
Body(s, names) ==
    DeclareAll(jitc_declare_variable(s, Return, "none", FALSE, Inside), names, "none", TRUE, Inside)

(* A unit that fails, wherever it is. *)
Fail == scopes' = PopAll(scopes) /\ leaves' = <<>> /\ env' = SubSeq(env, 1, 1)

ParseError == Here > 1 /\ Fail /\ UNCHANGED id

(* A declaration; of a variable in a function the frame gets a leaf. *)
Declare(n, type) ==
    /\ Room /\ (Kind = "file" \/ InStatements)
    /\ IF MayDeclare(scopes, n, type)
       THEN /\ env' = [env EXCEPT ![Here].names = @ \union {n}]
            /\ scopes' = jitc_declare_variable(scopes, n, type, FALSE, Here)
            /\ leaves' = IF leaves = <<>> \/ type # "none" THEN leaves
                         ELSE [leaves EXCEPT ![Len(leaves)] =
                                  Append(@, Leaf(n, Last(scopes).scope_id, Here))]
       ELSE Fail
    /\ UNCHANGED id

(* The body of a function, which has been declared before. *)
Function(names) ==
    /\ Kind = "file"
    /\ Open("function", names, NoTag, Body(jitc_push_scope(scopes, id), names))
    /\ leaves' = <<Arguments(names, Inside)>>

(* The tokens of a template, with its parameter as a type. *)
Instance(names, parameter) ==
    /\ Kind = "file" /\ parameter \notin names
    /\ Open("instance", names \union {parameter}, NoTag,
            jitc_declare_variable(Body(jitc_push_scope(scopes, id), names), parameter, "typedef", FALSE, Inside))
    /\ leaves' = <<Arguments(names, Inside)>>

(* The arguments of a lambda are declared before its type is known. *)
Lambda(names) ==
    /\ InStatements
    /\ Open("lambda", names, NoTag,
            jitc_declare_variable(DeclareAll(jitc_push_function(scopes, id), names, "none", TRUE, Inside),
                                  Return, "none", FALSE, Inside))
    /\ leaves' = Append(leaves, Arguments(names, Inside))

(* A block, a branch, a loop. *)
Block ==
    /\ InStatements
    /\ Open("block", {}, NoTag, jitc_push_scope(scopes, id))
    /\ UNCHANGED leaves

Types(kind, names, tag) ==
    /\ Open(kind, names, tag, DeclareAll(jitc_push_scope(scopes, id), names, "typedef", FALSE, Inside))
    /\ UNCHANGED leaves

(* The fields of a struct, after its tag, if it has one. *)
Struct(names, tag) ==
    /\ Kind = "struct" /\ tag # NoTag => "nested" \in Forms
    /\ Types("struct", names, tag)

(* The base type of a template. *)
Template(n) == Kind \notin {"struct", "template"} /\ Types("template", {n}, NoTag)

Leave ==
    /\ InStatements
    /\ env' = Front(env) /\ scopes' = jitc_pop_scope(scopes)
    /\ leaves' = IF Kind = "block" THEN leaves ELSE Front(leaves)
    /\ UNCHANGED id

(* Mutant: the tag is declared among the fields. *)
LeftStruct_inside(s, tag, where) ==
    IF tag = NoTag THEN jitc_pop_scope(s) ELSE jitc_pop_scope(jitc_declare_tagged_type(s, tag, where))

LeftStruct(s, tag, where) ==
    IF tag = NoTag THEN jitc_pop_scope(s) ELSE jitc_declare_tagged_type(jitc_pop_scope(s), tag, where)

LeaveStruct ==
    /\ Kind = "struct"
    /\ scopes' = LeftStruct(scopes, Last(env).tag, Home(Here))
    /\ CLeaveStruct
    /\ UNCHANGED <<id, leaves>>

(* The parameters are declared once more, for the declarator. *)
LeaveTemplate(n) ==
    LET again      == DeclareAll(jitc_push_scope(jitc_pop_scope(scopes), id), Last(env).names,
                                 "typedef", FALSE, Here)
        declarator == jitc_pop_scope(again)
    IN  /\ Kind = "template" /\ id < MaxScopes
        /\ id' = id + 1
        /\ IF MayDeclare(declarator, n, "template")
           THEN /\ env' = [Front(env) EXCEPT ![Here - 1].names = @ \union {n}]
                /\ scopes' = jitc_declare_variable(declarator, n, "template", FALSE, Here - 1)
                /\ UNCHANGED leaves
           ELSE Fail

Init == /\ scopes = jitc_push_scope(<<>>, 0) /\ id = 0 /\ leaves = <<>>
        /\ env = <<[kind |-> "file", tag |-> NoTag, names |-> {}, tags |-> {}]>>

Parameters == {names \in SUBSET Names : Cardinality(names) <= MaxParameters}

Next ==
    \/ \E n \in Names, type \in {"none", "typedef"} : Declare(n, type)
    \/ \E names \in Parameters : Function(names)
    \/ \E names \in Parameters, parameter \in Names : Instance(names, parameter)
    \/ \E names \in Parameters : Lambda(names)
    \/ Block \/ Leave
    \/ \E names \in Parameters, tag \in Names \union {NoTag} : Struct(names, tag)
    \/ \E n \in Names : Template(n) \/ LeaveTemplate(n)
    \/ LeaveStruct
    \/ ParseError

Spec == Init /\ [][Next]_vars
--------------------------------------------------------------------------------
(* The kinds of what there is.  Every map that may be searched is in order *)
(* and has a key once, and its cursor is on an entry or NULL, so that a    *)
(* value is never written behind them (map_commit, dynamics.c 214).        *)
TypeOK ==
    /\ id \in Nat
    /\ \A i \in DOMAIN scopes :
          LET s == scopes[i]
          IN  /\ s.func \in BOOLEAN /\ s.scope_id \in 0 .. id
              /\ WellFormed(s.variables) /\ WellFormed(s.tagged)
    /\ \A f \in DOMAIN leaves :
          /\ WellFormed(variable_map(scopes[1].variables, leaves[f]))
          /\ \A l \in DOMAIN leaves[f] : leaves[f][l].where \in 1 .. MaxDepth
    /\ \A d \in DOMAIN env :
          /\ env[d].kind \in Kinds /\ env[d].tag \in Names \union {NoTag}
          /\ env[d].names \subseteq Names /\ env[d].tags \subseteq Names
    /\ Len(leaves) = Cardinality({d \in DOMAIN env : env[d].kind \in Functions})

(* There are as many scopes as the program has left open: whatever fails,  *)
(* the next unit begins in the scope of the file.                          *)
ScopesBalanced == Len(scopes) = Len(env)

(* A name means the declaration it means in C.                             *)
ResolvesAsInC == \A n \in Names : jitc_get_variable(scopes, n).where = CVariable(n)

(* The tags of the structs whose fields are being read. *)
Defining == {env[d].tag : d \in {l \in DOMAIN env : env[l].kind = "struct"}}

(* Whether the program may name a tag here: its own, a struct only without *)
(* another of that tag around it, unless "self" is a form.                 *)
MayName(n) == n \in Defining => "self" \in Forms \/ \A d \in DOMAIN env : n \notin env[d].tags

(* A tag means the struct it means in C, also behind the fields of others. *)
(* Among its own fields there may be none yet; it is looked up by its name *)
(* when it is used.                                                        *)
TagsAsInC ==
    \A n \in Names :
        MayName(n) => LET found == jitc_get_tagged_type_notype(scopes, n)
                      IN  found = CTagged(n) \/ (n \in Defining /\ found = 0)

(* Code generation, which knows only names, finds for a variable what the  *)
(* parser has found: no other declaration in the function has its name.    *)
NamesReachStorage ==
    leaves # <<>> =>
        LET map == variable_map(scopes[1].variables, Last(leaves))
        IN  /\ \A n \in Names :
                  LET var == jitc_get_variable(scopes, n)
                  IN  var.where # 0 /\ var.type = "none" =>
                          map_get_value(map_find(map, jitc_scoped_name(n, var.scope_id))) = var.where
            /\ \A i, j \in DOMAIN Last(leaves) :
                  Last(leaves)[i].name = Last(leaves)[j].name => i = j
================================================================================
