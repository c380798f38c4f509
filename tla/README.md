# A TLA+ model of jitc

jitc is an embeddable just-in-time compiler for C', a dialect of C.  A host
program links the library, creates a context, hands it source (`jitc_parse`, or
`jitc_append_task` and `jitc_build` for several files that depend on each other)
and takes addresses of functions and variables out of it (`jitc_get`).  A later
unit may redefine what an earlier one defined: that is its hot reload.  The
library starts no thread; what makes it hard is state that lives across calls -
the symbol table, trampolines, code and host pointers that outlive the unit they
came from - and that a unit may fail in the middle.

This directory holds modules that model the parts of jitc listed below,
configurations that check them with TLC, and proofs checked with TLAPS.
Paths are relative to the repository.

## Inventory

| component | state it keeps | operations | correct when | modelled by |
| --- | --- | --- | --- | --- |
| global symbol table (`jitc.c` 426-508) | one `jitc_variable_t` per name: linkage, policy, address | declare, redeclare, look up | policies decide what a reload keeps; addresses never move | `HotReload` |
| linker (`jitc.c` 736-779) | extern addresses, entry of each trampoline, `unresolved_symbol` | `jitc_link` after every node | nothing callable meets a symbol without an address | `HotReload` |
| compile driver (`compiler.c` 440-529) | storage, code, trampolines | `jitc_compile` of one node | newest definition runs, preserved values stay | `HotReload` |
| host interface (`jitc.h`, `jitc.c` 709-734, 909-971) | context, last error | create, parse, get, destroy | failures leave a usable context | `HotReload` (parse, get) |
| build tasks (`jitc.c` 973-1067) | `context->tasks`: tokens, dependencies, visit state | append, build (sort, compile, callback) | dependencies first, cycles reported, always returns | `BuildTasks` refining `BuildOrder` |
| preprocessor directives (`preprocessor.c` 449-623) | stack of sections per file, macros, dependencies | one line at a time, nested calls for `#include` | keeps the groups C keeps | `Conditionals` |
| macro expansion (`preprocessor.c` 276-447) | macros in use, two token streams | expand, process_identifier | as C, where C is simple; ends; no macro inside itself | `MacroExpansion` |
| preprocessor expressions (`preprocessor.c` 156-274) | none | precedence climbing | equals the grammar of C | `CExpressions`, `Expressions` |
| lexer (`lexer.c`) | state of the current token, flags of the line | one character at a time | splits as C does | `CLexemes`, `Lexer` |
| parser (`parser.c`) | tokens, scopes, AST | recursive descent | accepts C' | declarations in `HotReload`, scopes in `Scopes`, loops in `Jumps`, templates in `Instantiation`; trees and types not modelled |
| template instantiation (`parser.c` 640-650, 1939-1973) | queue of requests | request, instantiate | every instance once; what code calls is there | `Instantiation` |
| scopes (`jitc.c` 540-573, 785-795) | stack of scopes, mangled names | push, pop, declare, look up | balanced on every path; names mean what they mean in C; code generation finds the same | `SortedMap`, `Scopes` |
| type cache (`jitc.c` 25-408) | types by hash | intern; declare and find tags | one object per type | tags in `Scopes`; interning not modelled: a hash |
| IR assembler (`compiler.c` 198-438) | list of instructions | assemble | jumps end where C has them go; operands reach their operator | `Jumps` (control flow), `OperandStack` (expressions) |
| frame layout (`compiler.c` 81-196) | tree of sizes | lay out | variables that live together do not overlap | `FrameLayout` |
| x86-64 back end (`platform/x86_64.c`) | operand stack; stacks of branches, short circuits and returns; labels | emit in two passes | both passes agree; every jump patched once, in its own function; no operand loses its place | `Jumps`, `OperandStack` |
| calling conventions (`platform/sysv-x86_64.c`, `win-x86_64.c`) | registers used so far | classify and place arguments | caller and callee agree | `CallingConvention`, `OperandStack` (System V) |
| executable memory (`compiler.c` 41-79, `platform/unix.c`) | chunks | allocate, protect | no overlap, never writable and executable | not modelled, see below |
| containers (`dynamics.c`) | lists, stacks, maps, sets, ring queue | add, commit, pop, rollback | as sequences and sets | `RingQueue`, `SortedMap` |
| cleanup macros, debugger support, headers, test runner | - | - | - | not modelled (see PROJECT.json) |

How they interact: `jitc_parse` and `jitc_build` call the lexer, the
preprocessor, the parser, the compile driver for each node and the linker.  The
parser writes the symbol table while it reads the unit; the compile driver reads
it after the whole unit has been read.  Compiled code and the host keep
addresses of trampolines and storage.  The build calls back into the host.

Hard behaviours: sequences of units that each look innocent (redeclarations,
prototypes, changes of linkage, failed units); state left behind by a failure;
addresses held across reloads; dependency graphs with cycles, repetitions and
missing files; nested conditional sections through included files; jumps that
are patched through static stacks long after they were written; a queue that is
worked off while the work adds to it.  PROJECT.json
lists each at its line, with the properties that cover it.

## The modules

### HotReload, MCHotReload, HotReloadProofs

The global scope as a function from names to records (`sym`: `jitc_variable_t`),
storage contents (`data`), the cell of each trampoline (`cell`:
`jitc_func_cell_t`, newest code and address entered), `unresolved`, and the unit
being processed: `pc` is "parse" while declarations change the table, "compile"
while `ast` is worked off, "ready" or "failed" between two calls.

| action | code |
| --- | --- |
| `BeginUnit`, `EndOfUnit`, `ParseError`, `FinishUnit` | `jitc_parse` |
| `DeclareData`, `DeclareExtern`, `DeclarePrototype`, `DefineFunction`, `DeclareEnumerator`, `DeclareLocalStatic` | a declaration in the parser, with the whole of `jitc_declare_variable` |
| `CompileDeclaration`, `CompileInitializer`, `CompileFunction` | one call of `jitc_compile`, each with the `jitc_link` it ends in |
| `Get`, `Poke` | `jitc_get`, and the host's stores through what it got |
| `Undefined` | nothing can be said after a store to memory the JIT does not own |

`jitc_variable_t` holds storage, a trampoline, a host address or an enumerator's
value in one union; `Pointer` keeps these apart so that a confusion of them is
seen.  Three variables are ghosts: `known` (symbols a cell's code may name),
`intent` (policy last spelled out) and `latest` (newest definition).

`Forms` says which forms of source the units use.

| run | names, forms | shows |
| --- | --- | --- |
| hr_full | function and variable; all forms, any alias | types, `CallableIsSafe`, `EntersNewest`, `AddressStable` hold whatever units do |
| hr_reload | function, constant, enumerator; definitions of every policy, failing units | `RunsLatest`, `PreservedValue` |

Bounds: two or three names, a host symbol, two values, units of two or three
nodes.  The number of units is not bounded.  Every rule of the code looks at one
symbol, or at one symbol and the symbol its extern name leads to, or asks
whether any symbol is unresolved; two names give all of these.  A unit of two
nodes puts a declaration and a definition of one name, or definitions of two,
between two links.

`RunsLatest` and `PreservedValue` hold for definitions only; hr_reload leaves out
the forms of source with which the code breaks them.  What the model shows of
those, and of other sequences the properties exclude:

- a prototype after the definition in the same unit makes the symbol extern
  (`parser.c` 1881), and the definition is not compiled: `RunsLatest` fails.  Its
  trampoline may stay on the stub although nothing is unresolved (`jitc.c` 775);
- a preserved variable that is declared again as static changes its linkage, which
  drops the policy (`jitc.c` 455): the initialiser overwrites the value, and
  `PreservedValue` fails;
- a prototype is bound to the host's function of that name by `dlsym`; the
  program's own definition in a later unit then stores through the host's code
  (`compiler.c` 510, `jitc.c` 777): `fault`;
- a variable declared by a unit that fails, or a static variable of a function,
  has no address and is not extern: no function can be called until a unit
  defines that name at global scope;
- after a failed unit `jitc_get` returns the null address of such a symbol as a
  success (`jitc.c` 943);
- `jitc_get` on a new context reads `unresolved_symbol`, which nothing has set.

### BuildOrder, BuildTasks, MCBuildTasks, BuildTasksProofs

`BuildOrder` is the promise: a task is compiled once, after its dependencies;
nothing is compiled if a dependency is missing or there is a cycle; a build that
stops says why.  `BuildTasks` is the code: `frames` is the recursion of
`jitc_dfs` (task and position in its list), `state` the visit state, `out` the
sorted list, `calls` what the callback was told.  `Abstract` is the refinement
mapping, and `ImplementsBuildOrder` is checked and proved.

Bounds: bt_build takes every graph of three files with up to two dependencies
each: repeated, self and missing dependencies, chains and cycles of every length
up to three are among them.  Any number of builds follow each other.

Fairness: `FairSpec` asks only that a build that can take a step takes one.
`jitc_build` is a plain call that runs to its return; that one parse returns is
assumed, and is not shown here.

### Conditionals, ConditionalsProofs

One call of `jitc_preprocess` per open file, each with its `cond_stack`; the
environment chooses the lines and the value of every condition.  The ghost
`tests` records the conditions of a section, and C's rule - keep the first group
whose condition holds - is stated over it, not over the states of the code.  In
the run cond_sections an `#elif` may follow a group that was skipped but not one that
was kept: there the code keeps a second group (`preprocessor.c` 575), which the form
"elifkept" of the model shows.  Nor are the lines of skipped groups that C does not
look at and the code does: it throws at an unknown directive (612) and at a condition
that cannot be computed (559, 571), and follows a wrong pointer at `#elifdef` (601),
also where everything is skipped, and ends the unit.  That is the form "skipped", and
with it SkippedIsInert is violated; the run has these lines wherever C looks at them.
Everything else the preprocessor accepts is in it, with the faults it has: errors
thrown at the null token that ends an expression (a missing `#endif`, an `#elif` after
`#else`) and `#elifdef`.  SkippedIsInert says that a line in a group C skips leaves
macros, text, dependencies and the files around alone and that the unit goes on,
unless C looks at the line as well (`Refused`).  Bounds: two open files, sections two deep, three groups, one
line of text.

### MacroExpansion, MCMacroExpansion, MacroExpansionProofs

`calls` is the unit and the calls of `expand` under way, each with the stream it
reads, the stream it writes and whether this pass has expanded anything; `used` is
`used_macros`, one set for all of them.  A token is a text and the flag `disabled`.

| action | code |
| --- | --- |
| `Copy` | a token that is no macro, or one in use, or disabled (`preprocessor.c` 357) |
| `ExpandObject`, `ExpandFunction` | the arguments put into the body, and the first pass begins |
| `BareName` | the name of a function that no list of arguments follows |
| `ExpandLine`, `ExpandId`, `BareId` | the built-in macros |
| `NextPass`, `Return` | the end of a pass of `expand`: another one, or the result disabled and handed on |
| `Overrun` | the end of a stream inside a list of arguments: a null token |

`MCMacroExpansion` defines the expansion of C by hide sets, as a recursion over the
tokens with arguments expanded before they are put into the body: another algorithm
than that of the code.  `AsInC` says that both give the same tokens for programs in
which functions are called wherever they are named, with the arguments they need, and
arguments name at most objects that lead to no other macro.  What the model shows of
the others:

- the name of a function without arguments counts as expanded, so that a body that
  ends in it is read again for ever (`preprocessor.c` 401): with `#define f(x) x` and
  `#define g f` the line `g` has no end;
- arguments are expanded only after they are in the body, when the macro itself is
  in use: `SQ(SQ(2))` leaves the inner call as it is;
- what an expansion hands on is never expanded again: a name of a function that a
  macro leaves behind is not called by the list of arguments that follows;
- `__ID__` without a list of arguments writes the token that follows it twice; an
  unclosed list swallows the end of the file.

The run `macros` shows `NotInsideItself` for all programs, `AsInC` for 649 of them, and
`ExpansionEnds` for those that call what they name.

Bounds: three macros that name each other and themselves, in one line of up to eight
tokens.  A macro can be in use below two others, and between two passes; a body can
take an argument twice, drop it, hand it to another macro, leave a list open, or end
in a name.  The expansion is deterministic: the programs are the initial states.

Fairness: `FairSpec` asks that the expansion goes on while it can, as a call does.

### Jumps, JumpsProofs

`assemble` writes a flat list of instructions and the back end reads it once and
in order; the model does both in one step.  `asm` is what the back end keeps: the
code written so far and its static stacks, `asm_*` and `push_*`/`pop_*` are its
functions under their own names.  `open` and `groups` are the calls of `assemble`
that are under way.  Where C has each jump go is kept beside the code, as ghosts:
`places` (positions of the parts of every node), `labelled`, and the `aim` of
every instruction.

| action | code |
| --- | --- |
| `Start`, `Finish`, `Return` | the body of a function in `jitc_compile`; `jitc_asm_func`, `_ret`, `_func_end` |
| `Open`, `Then`, `Else`, `End` | `AST_Ternary`, `AST_Branch`, and the beginning of `AST_Loop` |
| `Resume`, `Until`, `UntilTested`, `UntilConstant`, `EndLoop` | the end of `AST_Loop`, with what the parser makes of `for` and `do` |
| `Break`, `Continue`, `Goto`, `Label` | these statements |
| `BeginGroup`, `Operator`, `EndGroup` | a group of `&&` or `\|\|`: `AST_Binary` |
| `Straight` | everything that does not jump |

`Forms` adds kinds of `continue`, and `break` and `continue` outside a loop,
which crash the compiler (`fault`).

| run | forms, kinds | shows |
| --- | --- | --- |
| jumps | stray | every jump ends where C has it go; nothing is left behind for the next function |
| jumps_continue | continue inside an if | finding: its target was never set |

The value that a short circuit
leaves behind is compared as the kind of the last one (`x86_64.c` 1104): with
`long a = 0x100000000`, `a || 0` gives 0.  The model has the jumps of a group
and leaves these widths out.  Not a finding of its own: a `continue` in a `for` skips the last expression of
the loop, and in a `do` the condition (`compiler.c` 377; form "late").  The check
that every label of a `goto` exists is taken at its word by `Finish`; the code
(`parser.c` 1078-1104) does not look into branches, where such a `goto` falls
through.

Bounds: after four instructions a function begins nothing new; nodes two deep
and one group, so that each kind of node is met inside each other and a group in
a condition, or a condition in a group; one label, used before and after it is
placed.  A stack that is used wrongly goes wrong at depth two, where there is
something below the top.  Functions follow each other without bound.

### RingQueue, Instantiation, MCInstantiation, InstantiationProofs

`RingQueue` is the queue of `dynamics.c`, slot by slot: `queue_push`, `queue_peek`
and `queue_pop` map a queue to the next, `Contents` is the sequence that its users
see.  `queue_rollback` is left out, as nobody rolls requests back.

`Instantiation` is what becomes of the uses of templates.  The body of a template
is kept as tokens; of these the model keeps the uses of templates.  `requests` is
`context->instantiation_requests`; `declared` and `code` are the symbols of
instances in the global scope, which stay from unit to unit.  `current` is the
instance whose body is parsed, with the slot that the pointer `request` points to:
`jitc_parse_ast` reads its linkage after the body, when the slot may hold another
request, or the ring may have been freed (`Found`).  Freed memory holds what it
did, or something without a meaning; if it holds anything else, `ReadsFreed` lets
the program go astray, and nothing is said of it any more.  `waiting`, `asked` and
`needed` are ghosts.

| action | code |
| --- | --- |
| `Begin`, `EndOfSource`, `SourceFails`, `EndOfUnit` | `jitc_parse`, with the first loop of `jitc_parse_ast` and `jitc_compile` of the instances |
| `Define`, `Prototype`, `UnfinishedFails` | the declaration of a template: declared first, its tokens stored at the end of the body |
| `UseTemplate` | a use of a template in ordinary code (`parser.c` 640-650) |
| `Skip`, `DeclareExtern`, `Instantiate`, `EndOfBody`, `ReadsFreed` | one turn of the loop over the requests |
| `BodyUse`, `BodyFails` | what the body of an instance does: more requests, or an error |

The run `instances` has two templates with one parameter, two types and three
bodies: one without uses, one that uses both templates, and so itself, with its
parameter and with another type, and one that fills the ring, which has four slots
as in the code, while its own request is being served.  Four definitions and uses
are spread over any number of units: a template is defined, used, redefined and
used again, in one unit or in several with a failure between them.

Fairness: `FairSpec` asks that a unit whose requests are being worked off goes on,
which one call of `jitc_parse_ast` does.  `UnitEnds` is about finitely many types.
A template that uses itself with a pointer to its parameter has no end in the code
either (`parser.c` 1939).

`Complete` holds for programs in which every template has a body and every body
can be parsed.  What the model shows of the others:

- a unit that fails in the body of an instance has declared the instances before
  it and drops their code.  Later units find them and skip them
  (`parser.c` 1943): they stay without code, and `jitc_link` leaves the context
  unresolved for good;
- a template that is used before it has a body, or whose definition ends with the
  file, makes its instances extern; they are never instantiated, also when the
  body comes in a later unit;
- the symbol of a template without a body has no address and is not `Decltype_Extern`
  (the template bit is set): `jitc_link` leaves the context unresolved, and no
  definition can follow, as its linkage differs;
- a template that is redefined does not change the instances that are there: they
  run the old body.

### FrameLayout, CallingConvention, OperandStack, MCOperandStack, OperandStackProofs

These three are the code of expressions.  `FrameLayout` is the tree of sizes that
becomes a stack frame, `CallingConvention` the two loops in `sysv-x86_64.c` that hand
arguments out and the two that take them in.  `OperandStack` composes them: a function
is laid out, begun, and then any sequence of instructions of the intermediate language
follows that keeps to the types.  `asm.items` is the operand stack of the back end; an
operand has the register or slot that `push` gave it, and the ghost `ok` says whether
that place still has its value when the code runs.  Code that writes to a place makes
whatever else is there not `ok`.

| action | code |
| --- | --- |
| `Layout`, `Func`, `FuncEnd` | `get_stack_size`, `jitc_asm_func`, `jitc_asm_func_end` |
| `Leaf`, `Dereference`, `AddressOf` | constants, variables and symbols; `jitc_asm_load`; `jitc_asm_addrof` |
| `Negate`, `Complement`, `LogicNegate`, `Increment`, `Cast` | operators of one operand |
| `Binary`, `Assign` | operators of two, with the order of assembly and `IR_swp` (`compiler.c` 259) |
| `Call` | `jitc_asm_call`: what is saved and restored (`Saved`, `Restored`), where the result goes |
| `Pop`, `Test`, `Truth` | the end of a statement, a condition, a group of `&&` |

`Forms` names the uses that go wrong in the code, which the run leaves out.  What the
model shows of them; each was seen in compiled programs as well:

- "shift": a shift moves its left operand to the place of the result before it has
  read the right one: `a << (b + c)` gives `a << a`; with a global as count the
  program crashes (`x86_64.c` 645);
- "not": `~x` complements the variable `x` itself (`x86_64.c` 666);
- "index": the index behind a pointer to a pointer is read after it was overwritten:
  `*q + *(s + k)` crashes when the sides are swapped;
- "slot": numbers of slots begin at one again and are compared with numbers of
  registers, and temporaries for floats take the slot of a pointer to a float: with
  six arguments waiting, `(-x) - (y + z)` as the first argument of seven gives 0;
- "call": a pointer to a float that waits across a call is saved from a register for
  floats (`sysv-x86_64.c` 223): `k(h(), g)` with a global double `g` passes 0 for `h()`;
- "unnamed": behind a parameter without a name the prologue and the body disagree
  where parameters are (`sysv-x86_64.c` 249);
- "floats": the ninth float is passed in a register for integers
  (`sysv-x86_64.c` 144).

Left out, as it is not a question of places: an expression statement `g.a;` leaves an
operand on the stack for ever, and so does a body that is a bare expression statement, as
in `while (c) i++;` (`compiler.c` 368, `parser.c` 1631), while `FuncEnd` takes the stack
to be empty at the end of a function; struct parameters by value are read wrongly, and pointer
arithmetic on structs of 12 bytes multiplies by 8.

The run `operands` shows, without these forms, that every operand keeps its value until
it is read (`ValuesKept`), that only assignments change variables (`MemoryKept`), that
the counters which choose registers come back (`RegistersFreed`), and that frames,
parameters and arguments agree (`FrameSound`, `ArgumentsArrive`).

Bounds: two registers of each kind, of which a call may change one, and three operands
at a time, so that the third is in a slot; the code has seven registers, and an eighth
operand does the same.  A call has up to two arguments (`MaxArgs`), so that with the
function it takes all three operands or leaves one or two waiting.  Two registers for integer
arguments, one for floats and up to three parameters; a function has at most one variable in each of three blocks.  Any
number of instructions and functions.

### CLexemes, Lexer, MCLexer

`CLexemes` divides a text into lexemes as C does, each as long as it can be, and has C's
numbers and escapes; it is what `Lexer` is measured by, and nothing of it but the classes
of characters and the table of symbols is from the code.  `Lexer` is `jitc_lex`, one step
for one character, with `no_increment` for a character that is read again, and
`try_parse_int`, `try_parse_flt` and the escapes.  Each state of the lexer is an action
or a few: `Blank`, `Begin`, `InvalidCodepoint` (Idle), `Word`, `Number`, `Symbol`,
`Comment`, `MultilineComment`, `LiteralByte`, `EmptyChar`, `StringLiteral`,
`CharLiteral`, `Escape`, `EscapeDigit`, and `Finish`.  The text is chosen while it is
read, so that texts which begin alike share their states.

`TokensAsInC` is stated of texts that the lexer means to read as C does (`Plain`).
`TokensLocated` and `AngledInIncludes` are stated of every text.  What `Plain` leaves out:

- `//` and `/*` take the character behind them unseen: an empty `//` swallows the
  next line, and `/**/` does not end;
- `08` becomes a fraction, `0xp1` is a number, signs of exponents never reach the
  number, `1g` and `1.2.3` are two tokens, a long double and a hexadecimal fraction with
  an `f` are rejected;
- an octal escape of fewer than three digits swallows the character behind it; an
  escape for 0 appends nothing, and `'\000'` then depends on the byte that an earlier
  literal left behind (`behind`); `"\xff"` becomes UTF-8;
- a character constant of several characters, which C has, is rejected;
- a line may end inside a string, `\>` is an escape, `..` is an error, and a comment, a
  string or a character constant without an end is dropped at the end of the file.

Of everything else that C has no lexeme for - a stray `@`, a control character, `''`, a
number of digits or suffixes that do not fit, an escape that is none - `TokensAsInC`
demands an error.  The exclusions are needed: without one of them TLC finds a text that
violates the property, but for `\>`, which no alphabet has, and lines in literals, which
`CLexemes` does not end there.

Bounds: thirteen alphabets of up to seven characters, each about one thing the lexer
has to tell apart, and all texts of four to eight characters over each.  No decision of
the lexer looks further back than the flags of the line and the buffer of one token.
Characters of four bytes in UTF-8 and the table of keywords are left out.

### SortedMap, Scopes, ScopesProofs

`SortedMap` is the map of `dynamics.c`, entry by entry: `map_add` appends and leaves the
array out of order with the cursor at its end, `map_commit` sorts or drops, and `bsearch`
halves whatever is there.  `Scopes` uses it for the variables and the tags of every scope
and for the map of names in which code generation looks variables up.  Beside it stands
what C makes of the same program (`env`): the braces of a struct are no scope there, and
a tag is seen from where it appears.

| action | code |
| --- | --- |
| `Declare` | `jitc_declare_variable`, and the leaf that the frame gets for it |
| `Function`, `Instance`, `Lambda`, `Block` | where the parser pushes a scope, and what it declares in it at once |
| `Struct`, `LeaveStruct` | the scope of a struct's fields (`parser.c` 343), and its tag, declared behind them |
| `Template`, `LeaveTemplate` | the scope of the parameters of a template, pushed twice (`parser.c` 1753, 1777) |
| `Leave` | the end of a body or block |
| `ParseError` | a unit that fails: all scopes but that of the file go (`jitc.c` 924) |

The run `scopes` shows that there are as many scopes as the program has left open,
whatever fails (`ScopesBalanced`); that no map is searched while out of order or written
behind its entries (`TypeOK`); that names mean what they mean in C (`ResolvesAsInC`), and
tags too (`TagsAsInC`), but for the two forms below; and that the mangled name of a
variable leads code generation to the declaration that the parser found
(`NamesReachStorage`).

Bounds: two names, four scopes deep, three scopes after that of the file, one parameter,
and nothing more is declared when there are four names in the scopes that are open: a name
can be hidden twice, a lambda can stand in a block of a function with a name declared in
each and in the file, and two scopes can follow each other where one was.

`Forms` names what the code takes otherwise than C does; with either TLC finds
`TagsAsInC` violated, and the run has neither:

- "nested": a tag that is defined among the fields of a struct is put into the scope of
  the fields and goes with it (`parser.c` 343-376): after `struct A { struct B { int x; }
  b; };` there is no `struct B`.  Enumerators among the fields are lost likewise;
- "self": a struct that names itself among its fields where another one has its tag finds
  the other one, as its own tag is not declared yet (`parser.c` 383): in a block,
  `struct S { struct S *next; }` under another `struct S`.

Where no other struct has the tag, none is found among the fields; the type goes by its
name then and is looked up when it is used, which may be where that name has another
meaning.  Not modelled are `struct S;` alone, unions, which the parser looks for among
the structs (`parser.c` 383 asks for `Type_Struct` whatever it has read), and enums; the
parser keeps the tags of each kind apart, C does not.  A tag in the base type of a
template goes with the parameters; C has no templates to compare that with.

What else goes wrong, and is left out: a static local of a function is given no storage
and leaks into the scope of the file, so that a second `static int n` in another function is
an error; an extern declaration in a block crashes when it is used; a lambda with a name
is declared globally and whether that worked is not looked at; names are resolved a
second time with their prefix stripped (`parser.c` 632).  Two parameters of one name are
taken for one, and a lambda cannot see the locals around it, which is meant.

### CExpressions, Expressions, MCExpressions

`CExpressions` is the grammar of controlling expressions in C: the meaning of a text is
found by trying every way to divide it, and is undefined where C says so.
`Expressions` is `get_operand` and `compute_expression`, which climb through eleven
levels of operators in one loop and compute what they read.  They are a pure algorithm;
the only action, `Longer`, makes the text one token longer, so that every text and every
beginning of it is an input.

`ValueAsInC`: what C takes is taken whole, and computed to its value.  `TakesOnlyC`: what
has been read when an expression is taken is one of C.  The run has numbers of four bits,
in which overflow is near; every two operators between four numbers, in both orders;
`? :` with another operator; and signs, parentheses and `defined` in any order, five or
six tokens long.

The differences from C that these two leave open: names of macros are not expanded, so
that `#define A 1` and `#if A` is false; `0 && 1/0` and the branch of `? :` that is not
taken fail with a division by 0; whatever stands behind a complete expression is ignored;
an operand that is missing at the end of the line makes the error be thrown at a token
that has not been set; the least number divided by -1 traps; all numbers are signed, so
`-1 > 0u` is false; the count of a shift is masked as the processor does.

## What is proved

Every theorem is for all values of the constants; the assumptions are the named
`ASSUME`s on them.  Where a theorem has a hypothesis on `Forms`, it names the forms of
source that the code gets wrong, and TLC finds a violation for each of them when it is
added to the run: the hypotheses cannot be weakened.

`HotReloadProofs` proves, for all names, types, aliases, values and forms:
`TypeCorrect`, `CallableSafety`, `AddressStability`,
`NewestEntry`.  The inductive invariant `Inv` adds to the properties what they
need: code is compiled only against declared symbols (`KnownDeclared`), a symbol
that was never declared has no address (`AbsentIsNull`), an enumerator never gets
a policy that lets a reload replace its value (`EnumeratorShape`), and functions
waiting to be compiled are declared (`PendingDeclared`).  The argument: a
declaration never takes an address away; `jitc_link` only adds addresses
(`BindExtends`); a trampoline is given code only by a link that leaves nothing
unresolved (`LinkStep`), and what was resolved stays resolved.

Two more need hypotheses.  `NewestDefinitionRuns` (`RunsLatest`) is proved without
"prototype" and "static", `PreservedStays` (`PreservedValue`) without "static", "extern"
and "localstatic": those give a symbol another linkage than a plain definition does, and
the code then drops its policy or does not compile it.  `FunctionInv` says at every
point of a unit, also of one that fails later, that functions are plain symbols with the
policy the program spelled out, that one has the address of its trampoline exactly when
a definition of it has been compiled, and that the cell has the code of the newest
(`CodeIsLatest`); a link that resolves everything then enters it.  `StorageInv` says
that variables stay plain likewise, so that an initialiser goes to the storage of its own
variable and the policy it asks for is the one that was spelled out.

`BuildTasksProofs` proves `OrderedBuilds`: `Spec => ImplementsBuildOrder`, for all
sets of files and dependency lists.  The invariant: the calls on the stack form a
chain in which each wants the next (`Chain`), the visited tasks are those of
`out`, without repetition and each after its dependencies (`OutSorted`).  A task
met again while being visited closes a cycle of the chain; and if the search
ends, the positions in `out` rule every cycle out.  `BuildInvariance` adds `Following`,
what the callback has been told so far as a function of how many tasks have been
compiled; from it come `BuildTypeCorrect`, `CallbackFollows` (`FollowsProgress`) and
`CycleReported` (`ReportedCycle`): the cycle that an error names is cut out of the
chain of calls.

`InstantiationProofs` first proves what the operators of the ring do to
`Contents`: `queue_push` appends, growing or not, and `queue_pop` takes the head
off, for every capacity.  With that, for all templates, types, bodies and forms:
`RequestsInOrder`, `CompiledOnce`, `UnitTypeCorrect`.  The invariant `IInv` adds
that what has been parsed or compiled is declared and the instance whose body is
parsed is not - so `Known` stops every second instantiation - and that the slot of
the request that is served holds some request until the ring moves (`SlotKept`).
`InstancesComplete` proves `Complete`.  Its invariant `Plain` says of programs
without the other forms that nothing in them is extern, so that what is declared
is compiled, with the unit or before; and that what a unit has asked for is
declared, waits, or is the instance whose body is parsed.

`MacroExpansionProofs` proves `NoSelfExpansion`: `Spec => []NotInsideItself`, for
every program.  The invariant `Nested` is a fact about any sequence of calls; the
lemmas say what going on with a call, entering one and returning from one do to it.

`ConditionalsProofs` proves `KeepsFirstTrueGroup`, `SkippedIsInert` and
`DecidedFromOutside` for any depth, number of files, groups and names; the first two
under the assumption that no `#elif` follows a group that is kept, the second also
that skipped groups have only lines without the form "skipped", where the code
differs.  `Nesting` says that what is not decided has only expanded groups around it, in
the including files too; `Means` spells out what each of the three states says of the
conditions so far and of what is around.  An Expanded section keeps a witness, an
earlier group or a section around it, which later lines cannot take away: that is why
its state can stand for the whole history.

`JumpsProofs` reads the four kinds of static stack of the back end (returns, branches
with their breaks, short circuits, labels) as one table, `TableOf`: for each place that a
jump can be aimed at, the positions that wait for it.  The invariant `JInv` is `Sound`,
that the table is true of the code - what waits is a jump with that aim, and every jump
whose place is not there waits, but a `continue` - and `Shape`, that the stacks are as
high as the nodes and groups under way and belong to them, one by one.  Every function
of the back end is then one of three steps of the table: an instruction that waits
(`EmittedWaiting`), one that knows where it goes (`EmittedKnown`), or a place that is
set, which patches all that wait for it and nothing else (`Patches`).
`JumpsInvariance`, `JumpsTypeCorrect` and `OwnJumpsPatched` hold for all forms, stray
breaks and lost continues among them.  `EveryJumpArrives` (`JumpsArrive`) and
`FinishedFunctionsAreWhole` (when a function is finished no jump of it is left as it was
written) are for programs whose continues are in the body of a `while` itself (neither
"inner" nor "late"): the code has no list of continues that wait, and where the place of
one is not known yet it never will be.

`OperandStackProofs` is about expressions of any depth with any number of registers,
arguments and operands (the bounds of the run only limit what is added).  `Placed` says
of every height of the operand stack that `Ints`, `Floats` and `Slots` count the
operands up to there, that slots are taken exactly for what is above `NumRegs`
(`Counted`), and that each operand has the place that `push` finds with the counts
below it (`Ordered`).  It is said of every height, not only of the top, because `pop` takes the counters back
to what they were: that is why types of operands may change while they have a place, as
long as the counter they go by does not.  From it: `RegistersComeBack`
(`RegistersFreed`) and `NoPlaceIsShared`, for all forms.  An operand is thus lost only to
an instruction that writes to a place it has popped and still reads, or to a call.
`ValuesStay` (`ValuesKept`) goes through these: where `binaryop` and `bitshift` work for
either order of their operands, which temporaries `increment` and casts take, and that
what `jitc_asm_call` saves covers what a call may change.  It is for programs without
"shift", "index", "slot" and "call", `MemoryStays` (`MemoryKept`) without "not" in
addition; each of the five breaks what it is left out of.  `PoptoIsPop` says that
`popto`, with which the model takes the arguments of a call away at once, is `pop` called so often.

Its second half is about frames and arguments, for any number of parameters, variables of
a block and registers for arguments; a function of the model has up to two blocks
inside its own, but the lemmas (`NestedIsSound`) are for any number of them.  Offsets, classes and registers are
added up with folds, and a fold is a recursive function over its sequence: `FoldExists` and
`StepsOnce` show that there is one such function and no other, and for each operator that
is folded a lemma (`LeavesFolded`, `ParamsFolded`, `ClassesFolded`, `CopiesFolded`,
`TakenFolded`) says what the next entry adds.  The invariant `LaidOut` says that a frame
is one that `Begin` lays out, so that each block is inside one that was opened before it
(`Nested`); what holds of all blocks is shown by induction along that order
(`BlocksBefore`).  `FramesAreSound` (`FrameSound`) is for all forms, parameters without a
name among them: the leaves of a block follow each other (`LeavesFollow`), a block begins
where the leaves of the one around it end (`AroundEnds`), and the frame is as large as the
block that ends last.  It rests on `VariablesAssumption`: the size of what takes room is a
multiple of its alignment, as `jitc_update_struct` and the types of `jitc_typecache_*`
make it.  `EveryArgumentArrives` (`ArgumentsArrive`) is without "unnamed" and "floats":
the caller only looks whether a class is `FLOATING` and takes anything else for an
integer, and `ClassesTell` says that this is right as long as every float has a register.

`ScopesProofs` is about any set of names, any depth and any number of scopes.  What is
written with recursive functions and folds - the search by halves, the map of names, the
declaration of a list - has to be shown to exist first: a recursive function is a CHOOSE,
and says nothing until there is a function as its equation wants it.  `Recursion` shows
that for every definition by recursion along a measure, by an induction over sets of
numbers (`LeastNatural`, `Induction`).  With it `Bsearch` finds a key of an ordered range
if it is there, wherever `Middle` is between the ends; `Qsort` gives a sorted sequence of
the same entries; `PutIs` says of `Put` (`map_add`, `map_commit` and the assignment) what
a map should: the key has the new value and every other key what it had, and the map is
`WellFormed` again.  `AllDeclared` and `MapOfNames` carry this through the folds.

The invariant `Inv` has four parts: `Matches`, that each scope of the parser holds the
names of the scope of C at its depth, with that depth as the place of each (and the tags,
`TagsMatch`, in what is no struct and without the form "nested");
`Numbered`, that ids grow with the depth and none is above the counter; `Placed`, that
functions which are no lambdas stand in the file; and `Stored`, that the leaves of an open
function are those of its arguments and of declarations in it, none under the name of
another.  The last is the one that has to be strengthened: a leaf outlives its scope, so
it is said of a leaf that its name is that of an argument (id 0) or carries an id that has
been given (`IsLocal`), and that if a scope of that id is still open, the name is declared
there; a name that is free in the last scope can then be no leaf's yet.  Ids are never
given twice and `ScopedOnce` says that name and id can be read off the mangled name; that
is all that keeps two variables apart.  From the invariant: `ScopesTypeCorrect` (`TypeOK`),
`ScopesStayBalanced` (`ScopesBalanced`), `NamesResolveAsInC` (`ResolvesAsInC`) and
`EveryNameReachesItsStorage` (`NamesReachStorage`).  `TagsResolveAsInC` (`TagsAsInC`) is
without "nested" and "self": then only structs without a tag stand in structs (`Flat`),
the scopes of fields hold no tags, and the one struct whose tag C sees already and the
parser does not yet is the outermost of those that are open, which `MayName` keeps from
hiding another.

## What is only model-checked

- `BuildReturns`, `UnitEnds` and `ExpansionEnds`: liveness under fairness.
- `AsInC`, `ValueAsInC` and `TakesOnlyC`: their definitions of C are recursive operators,
  which no theorem can reach.
- `TokensAsInC`, likewise; and `TokensLocated` and `AngledInIncludes`, as `Lexer` takes its
  classes of characters from `CLexemes`, whose definition of C is recursive.

Deadlock is checked but where a program really ends: `lexer` (the lexer returns),
`expressions` (texts do not get longer than their shapes) and `scopes` (programs end at
their bounds), where the configuration says so.

## Not modelled

- Executable memory (`compiler.c` 41-79): `make_executable` takes the first chunk with
  room and moves its end; chunks are never given back before the context is.  No sequence
  of calls tells its states apart; what could go wrong is in `mmap` and `mprotect`, whose
  failures the code does not look at.
- The trees of the parser, the types of expressions, casts and constant folding: a
  function of the tokens without state between two calls.  What parsing does to the
  context is in `HotReload`, `Scopes` and `Instantiation`.
- Interning of types: they are found by a 64-bit hash of what they are, and two types
  are one if it collides.
- Structs in code generation (copies, arguments by value, initialisers), the encodings
  of instructions, the Windows calling convention, and the first pass of `jitc_asm_emit`,
  which counts what is on the stack with functions of its own (`stacksize_*`,
  `x86_64.c` 1300-1434) to find the size of the frame.
- `queue_rollback`, lists, stacks and byte writers of `dynamics.c`; cleanup macros,
  debugger support, the bundled headers, the test runner.

Hazards without a property are listed in PROJECT.json, each with the reason.

## Plan

1. Done: `HotReload`, `BuildTasks`, `Conditionals`, `Jumps`, `RingQueue`,
   `Instantiation`, `MacroExpansion`, `SortedMap`, `Scopes`, `FrameLayout`,
   `CallingConvention`, `OperandStack`, `Lexer`, `Expressions`.
2. Open: `TokensLocated` and `AngledInIncludes` hold for every text, but `Lexer` would
   have to take its classes of characters from a module without recursive operators.
3. Static and extern locals in `Scopes`, once the code finds storage for them; struct
   operands in `OperandStack`; a callback of `jitc_build` that appends tasks.
