# A TLA+ model of the k0 compiler

k0 is a subset of Kotlin; the compiler is a single-threaded C program that turns
a `.kt` file into x86-64 assembly and has it assembled and linked. Nothing in it
is concurrent. What is hard about it is state that outlives the function that
sets it: a tree of symbol tables that three passes build and read in different
orders, globals saved and restored around deep recursion
(`currentFunctionSymtab`, `current_break_label`), counters shared by operations
that know nothing of each other (`nextOffset`, `labelcounter`), lists of
instructions that are copied, shared and finally run, types that each pass
determines anew, and a command line of several files whose lexer, lists and
tables are never reset. The properties here are about those.

## The system

| Part | State | Operations | Works with |
|---|---|---|---|
| Lexer, `k0lex.l` | start condition, comment depth, string buffer, line number | one rule per token, `yywrap` | returns tokens to the parser; exits on unsupported keywords |
| Parser, `k0gram.y` | bison's stack, `root` | builds the syntax tree, gives nodes their first types | looks names up in `currentFunctionSymtab` |
| Symbol tables, `symtab.c` | tables, entries, `currentFunctionSymtab`, `error_count` | make, insert, look up, open a function's scope, free | all passes |
| Declarations, `tree.c` (`printsyms`) | the tables; a static list of function tables | first pass: declares names, reports undeclared ones | runs before the checker |
| Checker, `semantics.c` | types and mutable flags of nodes, more scopes and entries | second pass | trusts the scopes the first pass hung on the nodes |
| Code generator, `codegen.c` (`generate_code`) | `code`, `place` of each node, `current_break_label`, `seeded`, string and real tables | third pass, recursive over the tree | `new_temp`, `genlabel`, `gen`, `concat` of `tac.c`; looks names up again |
| Three address code, `tac.c` | lists of instructions, `labelcounter` | `gen`, `copylist`, `append`, `concat` | code generator, assembly writer |
| Assembly writer, `codegen.c` (`write_asm_file`) | pending arguments (`argc`, `args_*`), `frameSize`, `inFunction` | one case per opcode | the file, then `as` and `cc` |
| Driver, `main.c` | globals of all the above, exit code | per file: parse, collect, check, generate, write; then assemble and link | everything |
| Types, `type.c` | none after start | constructors, names | parser, checker, generator |
| Graph and listing output, `graph.c`, `print_*` | none | writes trees and tables | called by the driver on request |

A file goes through `process_file`: parser, `printsyms`, `check_semantics`,
`generate_code`, `write_asm_file`, `finish_and_emit`. A pass with errors is the
last one.

What makes each part right:

* symbol tables: one declaration of a name per scope, a lookup finds the innermost
  one, no slot of the frame given twice, no freed table in use;
* the passes: exactly the right files are accepted, and a name means the same
  variable in each pass, in particular the last, which trusts the others;
* statements: every label once, every branch to a label of its function, `break`
  to the loop it stands in, and all in all the control flow of the text;
* expressions and calls: each operation once and in order, with its own operands
  and arguments, the result where the reader looks for it;
* types and widths: exactly the well typed texts are accepted, the generator takes
  the types the checker meant, and a value arrives whole through moves of 4 and 8
  bytes;
* lists: a list keeps its cells and its instructions while others are built from
  it, no call runs round a cycle;
* driver and lexer: a file is compiled as it would be alone, the exit status tells
  the truth, an executable comes from the file it is named after, and no text keeps
  the compiler busy for ever.

## Modules

| Module | What it is |
|---|---|
| `ScopeMap` | abstract: scopes as a map from names to declarations and slots, without tables, buckets or pointers |
| `SymTab` | `symtab.c`: tables and entries at addresses, hash chains, `insert_symbol`, `insert_method_symbol`, the function case of `printsyms`, `create_function_scope`, `new_temp`, `free_symbol_table`; the tables `process_file` makes and frees, for file after file |
| `SymTabRefinement` | the mapping from `SymTab` to `ScopeMap`, and the lookup as the map's |
| `NameAnalysis` | the three passes over the events of a file that touch names; its scopes are those of `ScopeMap` |
| `NameRules` | what a file means, said of its text alone, and what the passes owe it |
| `Codegen` | statements: what `generate_code` emits before and after each body, with the C call stack as `stack` |
| `CodegenRules` | the successor of each point of the text, and of each point of the code |
| `Expr` | expressions: generation, then each instruction as `write_asm_file` writes it and the machine runs it |
| `ExprRules` | what each operation should get, in which order, and when a call is in another's way |
| `InstrLists` | abstract: for each node, a sequence of instructions; the calls the generator makes |
| `TacList` | `tac.c`: cells with `next` pointers, `gen`, `copylist` and `append` one round at a time, `concat` |
| `TacListRefinement` | the mapping from `TacList` to `InstrLists`, and that lists stand |
| `Values` | types of nodes in parser, checker and generator, and what moves of 4 and 8 bytes make of values |
| `ValueRules` | type and value of each operand and variable, said of the text alone |
| `Driver` | `main.c`, the lexer's modes and ends of file, the statics of the passes, the files written |
| `DriverRules` | what each file means by itself, and what the driver owes it |
| `MCSymTab`, `MCNames`, `MCCodegen`, `MCExpr`, `MCTacList`, `MCValues`, `MCDriver` | instances for TLC |
| `SymTabProofs`, `NameProofs`, `CodegenProofs`, `ExprProofs`, `TacListProofs`, `DriverProofs`, `ValueProofs` | theorems and proofs |
| `Induction` | induction on numbers and the iteration of a function, for the proofs about recursive functions |

`NameAnalysis` builds on `ScopeMap`, which `SymTab` implements, so the scopes of
the passes are those of the tables. `Codegen` and `Expr` treat code as sequences,
which is what `TacList` implements by way of `InstrLists`. `Values` takes up the
expressions of `Expr` where `Expr` leaves their types out, and the two share no state.
`Driver` knows of a program only which kinds of function it has.

### How the models read the code

*The source text is made up as it is read.* `NameAnalysis`, `Codegen`, `Expr` and
`Values` have a variable `prog`, the sequence of events (nodes of the tree, in the order the
recursion visits them); the first pass adds an event of any kind the grammar
permits. A run therefore covers every text up to the bound. `Codegen` splits a
compound statement into what is done before its body and after it, since the C
code calls itself in between. In `Expr` the events are in Polish notation, so
that an operand is just the expression that follows.

*SymTab.* `tables` and `entries` are the heap, by address; a chain is the sequence
of a bucket's entries, head first; `temps` and `file` remember what the C program
forgets. `malloc` may return any address that is not in use, one just freed included.
`process_file` frees the package's table and the global one (main.c:473) and none
of the functions', so the tables of earlier files stay, with a `parent` that is freed
or has become a table of the new file; a walk by such a parent yields `Undefined`, or
what is there now. `insert_method_symbol` and
`DeclareFunction` write to whatever entry a lookup finds after the insert, as the
code does.

*NameAnalysis.* `pass` and `pc` walk the three passes over `prog`; `nest` holds the
open constructs with the scope that is passed down to them, `current` is
`currentFunctionSymtab`, `scopeOf` the `scope` field of a node, `res` remembers
where each name was found in each pass. An uninitialised `leaf->type`, an unset
`param_count` and a read past `param_types` are nondeterministic choices, crash
included where the build may crash.

*Codegen.* Each instruction that does or tests something carries the point of the
text it came from. `genlabels`, `Emit`, `current_break_label` are `genlabel`,
`concat`, and the global. Straight-line code is one instruction. Bodies `{ }` and
a `for` without init or update end in `crashed`, since the code reads a null
pointer. `..<` and `do` have no case in `generate_code` and get the generic
traversal; `continue` gets nothing; `return e` is `e` (k0gram.y:595), and a bare
`return` an O_RET, for which `write_asm_file` writes neither a jump nor a `ret`
(codegen.c:1646): the function goes on with what follows, and is left at its D_END only.

*Expr.* A value is the index of the event that computes it, so no arithmetic is
needed to see a value in the wrong place. `args` is `args_off` up to `argc`;
registers are loaded only for a call and read by the callee by position
(`Register`). `eax` is there because a function's result is whatever its last
instruction left in it: functions in `Silent` end in `return x` or `return 1`, for
which no instruction touches `eax`. `&&`, `||`, `!` and `===` are generated as the code
generates them, which is not at all.

*TacList.* `next` and `instr` are the heap, `code` the field of each tree node,
`call` the local variables of the call that is running: one step per round of the
loop of `append`, one per level of the recursion of `copylist`. The generator hangs a
node's code on its parent by `concat`, and now and then by the pointer itself, so
lists share cells; the model's calls are those of `generate_code`, with each node's
code used at most once as the second argument.

*Values.* A value is the event that computes it. A cell of the frame has two halves
of 4 bytes, so an incomplete copy shows as two halves of different values. Each
operand has three types (the parser's, the checker's, the generator's) and a cell,
or, as a literal string, just a label. `check_type_compatibility`, the checks of
`semantics.c` and the choices of `codegen.c` are operators; the event a check is against
is rejected, and one that follows half a pointer crashes. The frame has the slots of the
parameters, then the locals', then the temporaries'. A variable of the package is read
and written in the function's frame, at whatever slot `Offset` gives it, since the
package's table also counts from 8 and has its functions in it: what the function keeps
there is lost when it is written, and a variable in a temporary's slot can have
anything in it when it is read (`Contents`).

*Driver.* A file is a sequence of pieces, each with an effect of its own on the lexer
or the parser; `text` is made up as it is read. `reading` says which file flex has
in its buffer, since `yyin` is replaced and the buffer is not. `list`, `seeded`,
`strtab` are statics that outlive a file. A use of freed memory (the function list's
head, and the parent of `currentFunctionSymtab`'s table, from the second file on) is a
choice of nothing and an abort. `asm`, `obj`, `exe` are files by name, with the argument they come from.
Opening, assembling and linking may fail at any time.

## Runs

| Run | Bounds | Shows |
|---|---|---|
| `symtab` | 4 tables, 2 entries, 2 names in one of 2 buckets, slots to 24, 1 error, 2 files | chains are exact, names unique per scope, slots disjoint, lookups find the innermost declaration also when a file before has left tables, declarations stand, and the tables implement `ScopeMap` |
| `names` | all eight kinds of event, 2 names, 5 scopes, 5 events, 1 error; with only `var`, `array`, `elem` and `for`, 7 events and no error | exactly the files the text rules admit are accepted (`AcceptsExactly`); a compiled file has every name found by the generator, as the variable the checker saw, or the capture is one of a described shape; crashes only for the described reason |
| `codegen` | all statements, 8 events | labels, branches, break, and the flow of the whole code (`FlowPreserved`) |
| `expr` | 13 kinds of expression, 6 events, 2 argument registers | order, operands, arguments, results |
| `taclist` | 3 nodes, 6 cells | the cells of a list are its own and keep their sequence, to the generator lists are sequences, and every call returns |
| `values` | 5 events, 2 operands at a time, 3 variables of the package (in the slots of a parameter, a local and a temporary), 2 parameters, 2 locals, 3 functions | the checker's verdict, the generator's types, variables, elements and operands through moves of 4 and 8 bytes |
| `driver` | two files of 4 and 2 pieces, `-s` or link | files stand apart, the status is true, executables are fresh, the process ends |
| `names_val`, `names_late`, `names_array`, `break_in_range`, `expr_not` | just enough | what tests of the repository expect and the code does not do; see below |

Why the bounds suffice for what the properties ask. `symtab`: two names in one
bucket give chains of length two; four tables are those of the global scope and the
package, a function's and one more, which is a loop's, a second function's, or that of
a function of the file before, whose parent's address the new file has; entries and
tables of a kind are symmetric and declared so. `names`: a capture or an inconsistency takes a declaration in
the package, one in a function, and a use, all of which fit with events to spare.
`codegen`: eight events hold a loop in a loop with a break on either side of the
inner one, an if with an else inside a loop, or two functions. `expr`: the
shortest program in which an inner call *repairs* the argument list has six
events (`f(x, g() + h(y))`); the same properties held with seven events over a
smaller set of kinds. `ArgRegs` is 6 in the code; with 2 the list overflows
within the bound. `Expr` bounds nothing else, and the counters of the other modules are
bounded by the constants named `Max...`. `taclist`: three nodes are the first two and
the result of a `concat`, or a chain of two; the proofs take it from there. `values`: a write
through one of two names for a cell, then a read through the other, takes four
events, an array that is declared, written and read five; six were tried on smaller
alphabets and showed nothing else. The three variables of the package are one for each
use the function can have for a slot. `driver`: four
pieces hold a comment in a comment or a whole function with a raw string, with an
end of file inside either; two in the second file hold a function after what the
first left. Of a text that fits flex's buffer of 8192 bytes: with a longer one, the
rest of a file after a stray would be lost with it.

Every property of a passing run has a mutant: a definition with a plausible slip
(`...Anyway`, `...KeepsBreak`, `StaleTemp` and so on, marked *Fault* in the modules)
under which the run finds the property violated.

Fairness and liveness. The program is one thread that never waits for another, so
weak fairness of its next step is all the code justifies. `TacList` has it for the
steps within a call (`WF_vars(InCall)`), not for the beginning of one, and
`EveryCallReturns` says that no loop runs round a list for ever, which would be so
if two lists were joined in a circle. `Driver` has it for `Next`, and `Ends` says that
every command line comes to its end: each file of the bound has an end, and a lexer
that skips the end of the file in a comment would not. The other modules state no
fairness: their recursion is over a finite tree, and each step takes them on.

Deadlock is checked everywhere but in `symtab`, where the bounded heap simply runs
out: a stuck state would be an input no action handles. Where the program is done,
the modules have a step that changes nothing.

### Where the code and its tests part

* A `val` can be assigned (`names_val`; tests/errors/sem5.kt).
* A range loop's variable is undeclared unless something else declares it, and a
  function cannot be called before its declaration (`names_late`, whose trace has both,
  as tests/k0/syn_test1.kt does).
* `var a: Array<T>(n) {e}` is a redeclaration of itself (`names_array`;
  tests/k0/sem_test5.kt and sem1.kt).
* `break` in a range loop does not leave it (`break_in_range`; tests/k0/lex_test1.kt).
* `!x` is `x` (`expr_not`; finaltests/boolean.kt). `&&` and `||` are not generated
  either: grammar and generator call the nodes by different names.

`AcceptsExactly` takes the rules of `names_late` and `names_array` as the code has
them: it says that the passes agree on one set of rules, the runs that these rules are
not those of the tests.

Modelled as the code has it, without a run of its own:

* the driver: a stray `*/`, or a character no rule knows, ends the file with a message,
  but what comes before it is compiled and the exit status is 0; so it is before a raw
  string that is not closed;
* calls: a call among the later arguments of a call takes the outer call's arguments
  (`ArgumentsArriveIfUndisturbed` says exactly when); `return e` goes on instead of
  returning, and `return x` returns what `eax` held; the assembly of a bare `return`
  contains no jump;
* types: the sum of two Doubles is an Int to the checker; an array's first value is
  compared the wrong way round; arrays are compatible whatever their elements; a `val`
  without a type gets the parser's guess, and its value is never stored;
* widths: String results, copies of arrays and elements that are not of 4 bytes lose
  a half; an Int is not converted to a Double; Doubles are compared by their low
  halves; `%` of Doubles has no instruction;
* the package: the initial values of its variables are never computed, and the
  variables share slots with those of every function;
* files: raw strings are written without quotes, which `as` refuses; if the `.s` cannot
  be opened, an older one is assembled; `a.b.kt` is written to `a.b.s` and then `a.s`
  is assembled; from the second file on, the head of the list of function tables is
  one that has been freed, and a file with `nextInt` is not seeded again.

## Proofs

`SymTabProofs` proves, for any number of tables, entries, names, buckets and files and
any hash function, that `TypeOK`, `ChainsExact`, `UniqueNames` and
`SlotsDisjoint` are invariants and `FirstDeclarationWins` holds. The last four do not
follow from themselves. The invariant `IInv` adds that chains are sound (an entry in a chain
belongs to that table and bucket, once) and complete (an entry of a table is in the
chain of its name), because `insert_symbol` decides by a walk of one bucket; that no
entry or temporary outlives its table (`HeapClean`), so that a table made at a freed
address starts empty; that `new_temp` finds a table (`CurrentLive`); and, as part of
`SlotsDisjoint`, that every slot lies below `nextOffset`, which makes the next one new.
There is one lemma per operation and a few about
tables (`LookupCurrent`, `PushPreserves`, `TempPreserves`, `StartFilePreserves`). A second
invariant, `Counted`, says that `nEntries` is the number of entries.
Assumptions: `SymTabAssumption` and `NullIsNoBlock`.

It proves under the same conditions that `SymTab` implements `ScopeMap`.
`MappedBindings` says what a bucket walk finds without the bucket: the binding of a
name is the one entry of the table that has it. From there every operation is one step
of the map: `NewScope` (a table just made binds nothing, for
no entry of an earlier table at that address is left), `PushedScope` (a push binds
one name to a slot not in use), `SameScope` (a table nobody wrote to, or of which
only a signature was written, is the same scope) and `FreeRefines` (closing a scope
cuts those inside it off, and a table made at its address later does not take them
up again). Assumptions: also
`NullIsNoBinding`, and `RoomForOne`, a bound on offsets with room for one slot.

It also proves `LookupFindsInnermost`: from every scope in which the passes of a file
look names up, the walk of `lookup_symbol` along `parent`
returns what the innermost enclosing scope binds. What makes it more than the equality
of two walks is the heap: tables of earlier files are still there, pointing to
freed blocks or to tables of this file. `FileInv`, part of `IInv`, says that the tables
of a file have parents in the same file, and that once the file has a function
`currentFunctionSymtab` is one of its tables; `ChainInFile` that the walk therefore meets
no freed block and no table of another file. Both sides are recursive functions
on the tables. The invariant `Nested` gives every open scope a depth greater than that of
the scope around it, so that no walk comes
back to where it was; with finitely many tables (`FiniteHeap`) there is a greatest depth,
and the two walks agree by induction on it. That `lookup_symbol` satisfies its own
equation also for tables whose parents run in a circle, as stale ones may, is `WalkExists`.
Nothing is claimed of lookups before the first function of a file: check_semantics and the
parser then start at a table of the file before (semantics.c:666, k0gram.y:549).

`Induction` makes that possible. The provers cannot instantiate a theorem that has a
predicate as a parameter, but they can with one that has a set: "a set of numbers that
holds 0 and, with each number, the next holds them all" (`InductionOnNat`) follows from
the library's `WFMin` and `NatLessThanWellFounded`, which need no more. A recursive
function is a CHOICE of a solution of its equation; that there is one is an induction
too (`IteratesExist`, `WalkExists`, `MeaningExists`), and then the equation may be used.

`CodegenProofs` proves, for programs of any length and nesting, `TypeOK`,
`LabelsUnique`, `BranchesLand`, `BranchesStayInside` and `BreakGoesToInnermost`. The
invariant says which labels the open constructs still owe: all different, all below
`labelcounter`, none placed; every branch goes to a label placed in its own function
or owed; and for each prefix of the stack, the saved break label is the one that
is right for that prefix. A break then goes to a label that is owed, a label is
placed when its owner is popped, and at the end of a function nothing is owed.

It also proves `FlowPreserved`. Both sides of it are recursive: `Begin` goes through
the text until something is done, `Land` through the code. A second invariant,
`HasLayout`, joins them: there is a `Layout` that gives each event of the text its
depth, the place and the instructions of its code (`Placing`, `Filled`), and each
construct its labels, its else and its end (`Matched`), the constructs still open being
the frames of the stack (`Stacked`). Each action adds one event to the layout; the
lemmas `...Laid` show what `Filled` asks of it, and that of the events before nothing
changes. Of a finished file every construct is closed, and the text's `Close`, `ElseOf`
and `OpenerOf` are the layout's (`CloseIs`, `ElseIs`, `OpenerIs`). Then `AllContinue`
says that from where the code of an event begins control comes to the point `Begin`
gives, by induction from the last event back: where the text goes on elsewhere it goes
on later (`Backward`), and the only branches back are to the head of a loop, whose
test is the next instruction (`SoonBack`). `Soon` counts the instructions on the way,
and they are never more than `Land` allows. Each instruction that stands for
a point of the text is in the stretch of one event (`WhereIs`), and the lemmas
`...Agrees` take the kinds of event one by one. A RET, bare or as the end of a
function, leads on like any other instruction: `Land` stops at END alone, which is
where `write_asm_file` writes the `ret`.
Assumption: `CodegenAssumption`; of it this proof needs that `NULL` is no place.

`ExprProofs` proves, for expressions of any length and nesting, `TypeOK`, two facts
about slots, and four properties of `ExprRules`. `ValuesHeld`: a value, once computed,
is in its slot for the rest of the run, and variables do not change. `OperandsReady`: an
instruction runs after all that compute what it reads. The invariant `IInv` says of the
code that no two instructions write one slot (`Once`), that the writer of a slot comes
before its readers (`Ordered`), and that every slot in use lies below `nextOffset`
(`InstrOK`, `StackOK`); `Joined` is the step: old code followed by code that writes new
slots only. `Room` bounds the slots by the events read.

That these are the values the text asks for needs a second invariant, `Faithful`. `After`
finds the end of an expression by recursion from the left, which says nothing while the
text is read; the proof says the same by a counter of the operands still to come
(`Spans`), and `AfterSpans` that the two agree. `Translated` relates text, stack and
code: what is read after an operator under way are whole operands, as many as it has
places (`Nested`); each place holds, or will hold, the value of the operand of its
number (`PlacesOK`), if that has one; an operator's instruction reads those places
(`OpsOK`); and each operation that is no longer under way has one instruction, in the
order in which the operations end in the text (`WorkOK`). `Ran` says that the
operations done are those of the code run so far, in its order, and that each operator
got its operands. The lemmas `...Translated` and `...Ran` take one action each. From
`Faithful` follow `OperandsArrive`, `ValuesStay` and `EachRunsOnceInOrder`, the last by
a bijection between the places of `done` and the operations of the text.

`ArgumentsArriveIfUndisturbed` (`ArgumentsAreRight`) says of each call exactly when it gets
its own arguments, in both directions, and so needs to know what is in the one list of
arguments at every point of the code. Two invariants more:

* `Arranged`: each instruction was made for an event, a parameter for the argument it
  passes, and the instructions stand in the order in which these events end in the text
  (`Stamped`); every argument of a call that has been read has its parameter. When the
  text is complete (`TidyCode`), a parameter waits at a call exactly if no call ends
  in between, which `QuietArguments`, `WaitsAround`, `OwnWait` and `OthersGone` put
  in terms of which call is inside which argument: that is `Undisturbed`.
* `Passing`: while the code runs, the list holds the first `ArgRegs` of the parameters since
  the last call, in their order (`Waiting`), and what a temporary or `eax` holds, a
  silent call's leftover included, was left there by an instruction already run (`Results`).

An undisturbed call finds its own parameters, all of them and in order (`AllOwn`). The other
direction is the harder one, since a disturbed call could get the right values by chance:
the first value in the list, if it is that of the call's own first argument, cannot have
been passed for a call around it, as all that had been left by then belongs to events that
end before the call begins (`FirstIsOwn`); so the first to wait is its own, and nothing
disturbs it (`OwnFirst`). `LevelExists` and the lemmas after it (`OperandsFill`,
`Laminar`, `BetweenEnds`) are about the text alone: its events are nested or apart.
Assumption: `ExprAssumption`; for the arguments, of it, that no function has more parameters
than there are registers.

`TacListProofs` proves, for any number of cells, nodes and kinds of instruction,
`TypeOK`, `ListsStand` and that `TacList` implements `InstrLists`. The invariant says
that cells in use are allocated (`CellsAllocated`), that an instruction just made, and
a list made by `append` alone, have their cells to themselves (`OwnCells`), and what
holds in the middle of a `copylist` or `append`: the copies so far are apart from
every list (`CopyApart`), say what the original says (`CopySays`) and are linked
(`CopyLinked`). Then a round of a loop is a stutter of `InstrLists`, and the return is
its one step. Assumptions: `TacListAssumption`, `NullIsNoInstr`.

`DriverProofs` proves, for command lines of any length, texts of any length and any
flags, `TypeOK`, `StatusTruthful`, `SuccessIsFresh` and `FilesApart`. The last three do
not follow from themselves. For the first two of them the invariant says that `exit_code`
is 0 as long as no argument has failed (`ExitCounts`), that what was compiled is in the
`.s` of its name until a later argument
of that name is compiled (`AsmFresh`), that the `.o` at the time of linking is the one of
that `.s` (`ObjFresh`), and that without a failure all arguments before this one have
been compiled and have their executables (`AllCompiled`, `ExeFresh`). The case that
makes it more than bookkeeping is `a.kt` followed by `a.b.kt`: the second is linked under
the first one's name, from the first one's `.s`, and `AsmFresh` is what keeps the
executable true. For `FilesApart` the invariant is `Apart`, which compares the compiler
with `Reading`, the fold of `Read` over the text of one file:

* in a file that only clean ones precede, the lexer's mode, comment depth and string
  length and the parser's tokens are those of the text's reading (`InFile`), and
  between the files the lexer is as it was at the start (`Between`);
* only a file with a stray character stays in flex's buffer (`LeftOver`), which is why a
  file after clean ones is read from its own beginning;
* the tokens taken are the beginning of a program (`WellRead`): the parser decides by the
  last token alone, `IsProgram` by the last brace before each token and the number of
  braces, and `AgreesExactly` and `AcceptsPrograms` say that they agree;
* what the passes have made of the file so far is what the text asks for (`InPasses`,
  `InCode`), and `seeded` and `strtab` know of the code of all files (`StaticsKnow`).

`ReadingGrows`, that one piece more is one `Read` more, is an induction over the text.
Assumptions: `DriverAssumption`, `NoneIsNoProgram`.

`ValueProofs` proves, for programs of any length, any functions and any variables,
all the properties of the `values` run: `TypeOK`, `ChecksExactly`, `GeneratorAgrees`,
`VariablesStand` and `OperandsArrive`. The last four compare the compiler with
`Meaning`, the fold of `Advance` over the text, of which `MeaningUnfolds` says that each
event adds one step and `MeaningStays` that a longer text does not change what a
shorter one means. None is inductive. The invariant is `Understood`, which for an
accepted text says how the state and the meaning agree (`Agrees`):

* each variable known to the text has its type in `entries`, and a sound one stands in
  its cell, represented as its type says, in a slot that is no temporary's
  (`VariablesAgree`, `Stands`);
* each operand has the text's type, in the checker and in the generator, or the reason
  why not is one that `known` and `odd` describe (`OperandsAgree`);
* each sound element of an array stands in its 4 bytes, and a sound variable of an array
  type points to one of the arrays made (`ElementsAgree`, `PointsTo`, `ArraysAgree`);
* an operand that is a literal is known to be one (`LiteralAgrees`), which decides what
  an inferred declaration stores.

`Shape` adds what holds of the state alone: how many entries there are, and that the
parser gives no node an array's type. `JudgedExactly` shows, one kind of event after the other, that
the checker's verdict is the text's; the lemmas `...Agreed` that each operation keeps
`Agrees`; the lemmas `...Received` that what it reads is what the text says. Where a
variable is written or declared it is the other variable in the same slot that takes the
care (`CellWritten`): a variable of the package and one of the function may share it, and a
write to one makes the other unsound. Assumption: `ValuesAssumption`. Besides the
types of the parameters, it says that the slots of the package's variables are positive
and differ from each other (their order and the gaps between them, which the package's
functions leave, are free) and that the functions of `Math` take Doubles, as
`add_predefined_symbols` declares them (symtab.c:298-315). Nothing is assumed of how many
variables, parameters and locals there are.

`NameProofs` proves, for files of any length and nesting and any names and scopes,
all the properties of the `names` run. `GeneratorFindsAll`, `SameVariable`,
`CapturesExplained` and `ElementsMutable` compare what different passes found for one
name, long after each other; `AcceptsExactly` and `CrashesExplained` compare what the
passes report with the text. The invariant `IInv` says that there are three functions nothing in the
code keeps: `h`, how many constructs are open after each event, `g`, the function the text
is in then, and a rank for each scope. With them it says:

* the open scopes are a tree under the package's (`Tree`): each has a greater rank than
  the one around it, so that a lookup ends (`AroundEnds`, `Ranked`), and every binding has
  a slot of its scope (`Store`);
* every function has a scope of its own, directly inside the package's, and every loop the
  checker has come to has another (`OwnScopes`); `nest` and `current` are what each pass
  makes of them (`CollectNest`, `CheckNest`, `GenerateNest`) - after the first pass `current`
  is the last function's scope, which is where the checker declares the package's arrays;
* as long as nothing was reported (`Flawless`), every name is bound in its function's scope or
  the package's (`Found`), a declaration is what its scope has for the name (`Stands`), what
  was found in the package is not declared there later (`NoLater`), a name the function
  has after all has one of two causes (`Captures`), and the checker found each name in a
  loop's scope or in the nearer of the other two (`Checked`, `ElementsChecked`, `LoopArrays`);
* the generator finds each name in the nearer of the two (`Generated`, `GeneratedAll`).

The checker goes on declaring while it checks: a range loop gets a scope of its own, for its
variable and for the arrays its body declares, and an array of the package a second entry in
the last function.
That is why `Found` and `Captures` speak of what is bound at any time, and not of what was
bound when the name was met. `DepthIs` and `FunctionIs` connect `h` and `g` with
`Function(i)`, which `NameRules` counts from the text.

`IInv` knows of accepted files only. What becomes of a faulty one as well is in `Judged`,
the other half of the invariant `JInv`:

* in the first pass nothing is reported as long as every event is `Right`, and only then
  (`Clean`): the declaration of a name is the first in its scope, a use comes after one;
* if nothing was reported, a scope has a name exactly if the text declares it there, and
  says of it what the first declaration says (`Bound`), with one exception: an array of
  the package is in the last function's scope too once the checker has come to it (`Stray`);
* in the second pass the open loops are the text's (`LoopNest`), and a loop's scope has the
  loop's variable and the arrays declared directly in the loop so far (`LoopBound`);
* errors have been reported exactly if an event so far is not `Fine`, and then one is
  `Wrong` (`Verdict`), unless some call is of a variable, after which anything may be said.

A text has one `h` and one `g` (`TextOnce`), so that a step that adds nothing to it cannot
change what is wrong with it. `CheckMeans` is the heart of the second pass: the innermost
scope that has the name is that of the declaration `MeansIn` says, through loops that have
it or not, and before or after the arrays in them. `MeaningIs` and `StandsIs` show that
`MeansIn` and `StandsIn`, said with `h` and `g`, are `Meaning` and `ArrayStands` of
`NameRules`, said with counts of events; `LoopOfDepth`, that every depth beyond a function's
body is a loop's, is an induction over the text. Assumptions: `NamesAssumption`, whose
scopes are finitely many because memory is, and `BindingsAssumption`: no binding is `None`.

Only model-checked: `EveryCallReturns` and `Ends`, which are liveness under fairness and
beyond the prover. Every invariant and action property of a passing run is a theorem.

## Not modelled

* The parsing automaton, which bison generates, and the regular expressions of the
  tokens, which flex does; line numbers; the keywords k0 knows and refuses, but for
  one that stands for all.
* Null, nullable and class types, and the names of types.
* The text and the addressing modes of the assembly, and what `as` and
  `cc` do beyond accepting or refusing a file.
* Sizes of fixed arrays (`strtab`, `string_buffer`, names of files), which no test of
  the code compares with anything.
* Listing and graph output, and the labels `assign_first`, `assign_follow` and
  `assign_conditional_labels` hang on nodes, which only the listing reads.
* The index of an element, `--`, and calls in later arguments within `Values` (`Expr` has them).

## Plan

1. A machine with frames: returns in the middle of a function, recursion, and the
   slots of package variables over several functions.
2. Types that may be null (`T?`), which the grammar marks and the checker passes on.
