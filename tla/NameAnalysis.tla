----------------------------- MODULE NameAnalysis -----------------------------
(***************************************************************************)
(* What becomes of the names of one file on its way through the three      *)
(* passes of the compiler: printsyms collects the declarations (tree.c),   *)
(* check_semantics checks the uses (semantics.c), generate_code looks the  *)
(* names up again (codegen.c).  The scopes are those of ScopeMap.          *)
(*                                                                         *)
(* The file is a sequence of events, the nodes of the syntax tree that     *)
(* touch the symbol table, in the order the passes visit them; the first   *)
(* pass makes it up as it goes, within the grammar.  The names are the     *)
(* file's own, none of those add_predefined_symbols puts in the global     *)
(* table, and types are not modelled beyond function, array and other:     *)
(* the file is well typed but for what the names make of it.               *)
(*                                                                         *)
(* Bounds: MaxLen events of the kinds in Kinds, or MaxLoopLen without an   *)
(* error and of the kinds in LoopKinds alone, MaxErrors errors in the      *)
(* first pass, Arities.                                                    *)
(***************************************************************************)
EXTENDS ScopeMap, Sequences

CONSTANTS Package,    \* the scope process_file makes before parsing
          Arities,    \* numbers of parameters and arguments
          Kinds,      \* the events a run looks at
          LoopKinds,  \* those of the longer files
          MaxLen, MaxLoopLen, MaxErrors

ASSUME NamesAssumption ==
    /\ Package \in Scopes /\ IsFiniteSet(Scopes) /\ None \notin Scopes \cup Names
    /\ 0 \in Arities /\ Arities \subseteq Nat /\ MaxErrors \in Nat
    /\ MaxLen \in Nat /\ MaxLoopLen \in Nat /\ MaxLen <= MaxLoopLen

VARIABLES
    prog,      \* the events
    pass,      \* the pass under way, or what became of the file
    pc,        \* events the pass has done
    nest,      \* the open constructs, each with the scope it works in
    current,   \* currentFunctionSymtab
    scopeOf,   \* event -> the scope field of its node
    res        \* pass -> for each event done, the scope its name was found in

vars == <<avars, prog, pass, pc, nest, current, scopeOf, res>>

Passes == {"collect", "check", "generate"}
Ends == {"rejected", "crashed", "exited", "compiled"}

Event == [op : {"fun", "param", "var", "array", "arrayAssign", "assign", "use",
                "call", "elem", "for", "end"},
          name : Names \cup {None}, n : Arities, mut : BOOLEAN]

Declaration == [kind : {"fun", "array", "other"}, n : Arities, mut : BOOLEAN]

\* None is no binding.
ASSUME BindingsAssumption == None \notin [decl : Declaration, slot : Nat]

Declarators == {"var", "array", "arrayAssign"}

Kind(op) == IF op = "fun" THEN "fun" ELSE IF op \in {"array", "arrayAssign"} THEN "array" ELSE "other"

Declares(e) == [kind |-> Kind(e.op), n |-> e.n, mut |-> e.mut]

-----------------------------------------------------------------------------
\* The grammar

Inner == nest[Len(nest)]
Top == Len(nest) = 1
Push(op, s) == Append(nest, [op |-> op, scope |-> s])
Pop == SubSeq(nest, 1, Len(nest) - 1)

\* Parameters the function header being read still lacks.
Lacking ==
    LET open == {i \in DOMAIN prog : prog[i].op = "fun"}
        f == CHOOSE i \in open : \A j \in open : j <= i
    IN  IF open # {} /\ \A i \in f + 1 .. Len(prog) : prog[i].op = "param"
        THEN prog[f].n - (Len(prog) - f)
        ELSE 0

\* Events the file needs after this one to be complete.
Owed == Lacking + Len(nest) - 1

\* Room for an event and those it brings with it.
Structure == {"fun", "param", "end"}
Long(op) == errors = 0 /\ {op} \cup {prog[i].op : i \in DOMAIN prog} \subseteq LoopKinds \cup Structure
Room(op, more) == Len(prog) + Owed + more <= IF Long(op) THEN MaxLoopLen ELSE MaxLen

InBody == ~Top /\ Lacking = 0

Ev(op, n, k, m) == [op |-> op, name |-> n, n |-> k, mut |-> m]

\* Addresses are alike: the next table is the first unused one.
NewScope == LET unused == {s \in Scopes : state[s] = "new"}
            IN  IF unused = {} THEN {} ELSE {CHOOSE s \in unused : TRUE}

-----------------------------------------------------------------------------
\* Pass 1, printsyms

Init ==
    /\ up = [s \in Scopes |-> None]
    /\ state = [s \in Scopes |-> IF s = Package THEN "open" ELSE "new"]
    /\ binds = [s \in Scopes |-> Unbound]
    /\ used = [s \in Scopes |-> {}]
    /\ errors = 0
    /\ prog = <<>> /\ pass = "collect" /\ pc = 0
    /\ nest = <<[op |-> "file", scope |-> Package]>>
    /\ current = None
    /\ scopeOf = [i \in 1 .. MaxLoopLen |-> None]
    /\ res = [p \in Passes |-> <<>>]

Done(home) == pc' = pc + 1 /\ res' = [res EXCEPT ![pass] = Append(@, home)]

Collected(e, home) == prog' = Append(prog, e) /\ Done(home) /\ UNCHANGED pass

Counting == pass = "collect" => errors < MaxErrors

Report == Counting /\ errors' = errors + 1

\* Fault: the slot is not counted.
InsertKeepsCounter(s, n, d) ==
    \/ /\ binds[s][n] = None
       /\ binds' = [binds EXCEPT ![s][n] = [decl |-> d, slot |-> Cardinality(used[s])]]
       /\ UNCHANGED <<up, state, used, errors>>
    \/ Counting /\ Redeclare(s, n)

insert_symbol(s, n, d) ==
    \/ Declare(s, n, d, Cardinality(used[s]))
    \/ Counting /\ Redeclare(s, n)

\* Fault: nothing is reported.
CheckNothing(s, n) == UNCHANGED errors

\* A leaf with an identifier, looked up from scope s.
check_undeclared(s, n) ==
    \/ Home(s, n) # None /\ UNCHANGED errors
    \/ Home(s, n) = None /\ Report

CollectFun(n, k) ==
    LET e == Ev("fun", n, k, FALSE)
    IN  /\ pass = "collect" /\ Top /\ Room("fun", k + 2)
        /\ \E f \in NewScope :
             /\ DeclareWithScope(Package, n, Declares(e), Cardinality(used[Package]), f)
             /\ errors' # errors => Counting
             /\ nest' = Push("fun", f)
             /\ current' = f
             /\ scopeOf' = [scopeOf EXCEPT ![pc + 1] = f]
        /\ Collected(e, Package)

CollectParam(n) ==
    LET e == Ev("param", n, 0, TRUE)
    IN  /\ pass = "collect" /\ Lacking > 0
        /\ insert_symbol(Inner.scope, n, Declares(e))
        /\ Collected(e, Inner.scope)
        /\ UNCHANGED <<nest, current, scopeOf>>

CollectDeclaration(op, n, m) ==
    LET e == Ev(op, n, 0, m)
    IN  /\ pass = "collect" /\ Lacking = 0 /\ Room(op, 1) /\ op \in Kinds
        /\ insert_symbol(Inner.scope, n, Declares(e))
        /\ Collected(e, Inner.scope)
        /\ UNCHANGED <<nest, current, scopeOf>>

\* An assignment declares its target unless the scope itself already has it.
CollectAssign(n) ==
    /\ pass = "collect" /\ InBody /\ Room("assign", 1) /\ "assign" \in Kinds
    /\ \/ Declare(Inner.scope, n, Declares(Ev("var", n, 0, TRUE)), Cardinality(used[Inner.scope]))
       \/ binds[Inner.scope][n] # None /\ UNCHANGED avars
    /\ Collected(Ev("assign", n, 0, FALSE), Inner.scope)
    /\ UNCHANGED <<nest, current, scopeOf>>

\* A use, a call, a write to an element.
CollectName(op, n, k) ==
    /\ pass = "collect" /\ InBody /\ Room(op, 1) /\ op \in Kinds
    /\ check_undeclared(Inner.scope, n)
    /\ Collected(Ev(op, n, k, FALSE), Home(Inner.scope, n))
    /\ UNCHANGED <<up, state, binds, used, nest, current, scopeOf>>

\* A range loop: its variable is a name like another, and opens no scope yet.
CollectFor(n) ==
    /\ pass = "collect" /\ InBody /\ Room("for", 2) /\ "for" \in Kinds
    /\ check_undeclared(Inner.scope, n)
    /\ nest' = Push("for", Inner.scope)
    /\ Collected(Ev("for", n, 0, FALSE), Home(Inner.scope, n))
    /\ UNCHANGED <<up, state, binds, used, current, scopeOf>>

CollectEnd ==
    /\ pass = "collect" /\ InBody
    /\ nest' = Pop
    /\ Collected(Ev("end", None, 0, FALSE), None)
    /\ UNCHANGED <<avars, current, scopeOf>>

-----------------------------------------------------------------------------
\* Between the passes: process_file goes on only without errors, and both
\* later passes start from the scope created last.

\* Fault: errors do not stop the compiler.
NextPassAnyway ==
    /\ pass \in Passes /\ pc = Len(prog) /\ Top /\ prog # <<>>
    /\ \/ /\ pass # "generate"
          /\ pass' = IF pass = "collect" THEN "check" ELSE "generate"
          /\ pc' = 0
          /\ nest' = <<[op |-> "file", scope |-> current]>>
       \/ pass = "generate" /\ pass' = "compiled" /\ UNCHANGED <<pc, nest>>
    /\ UNCHANGED <<avars, prog, current, scopeOf, res>>

NextPass ==
    /\ pass \in Passes /\ pc = Len(prog) /\ Top /\ prog # <<>>
    /\ \/ /\ pass # "generate" /\ errors > 0
          /\ pass' = "rejected" /\ UNCHANGED <<pc, nest>>
       \/ /\ pass # "generate" /\ errors = 0
          /\ pass' = IF pass = "collect" THEN "check" ELSE "generate"
          /\ pc' = 0
          /\ nest' = <<[op |-> "file", scope |-> current]>>
       \/ pass = "generate" /\ pass' = "compiled" /\ UNCHANGED <<pc, nest>>
    /\ UNCHANGED <<avars, prog, current, scopeOf, res>>

-----------------------------------------------------------------------------
\* Pass 2, check_semantics.  The type of an identifier's leaf is never
\* initialised, so a failed lookup is reported or not.

Here(p, ops) == pass = p /\ pc < Len(prog) /\ prog[pc + 1].op \in ops
This == prog[pc + 1]

\* Fault: the function is checked in the scope it stands in.
CheckFunInPlace ==
    /\ Here("check", {"fun"})
    /\ nest' = Push("fun", Inner.scope)
    /\ Done(Home(Inner.scope, This.name))
    /\ UNCHANGED <<avars, prog, pass, current, scopeOf>>

CheckFun ==
    /\ Here("check", {"fun"})
    /\ nest' = Push("fun", scopeOf[pc + 1])
    /\ Done(Home(scopeOf[pc + 1], This.name))
    /\ UNCHANGED <<avars, prog, pass, current, scopeOf>>

CheckEnd ==
    /\ Here("check", {"end"})
    /\ nest' = Pop /\ Done(None)
    /\ UNCHANGED <<avars, prog, pass, current, scopeOf>>

CheckName ==
    /\ Here("check", {"param", "var", "assign", "use"})
    /\ LET home == Home(Inner.scope, This.name)
       IN  /\ errors' \in IF home = None THEN {errors, errors + 1} ELSE {errors}
           /\ Done(home)
    /\ UNCHANGED <<up, state, binds, used, prog, pass, nest, current, scopeOf>>

\* var a: Array<T>(n) {..} is declared a second time here.
CheckArray ==
    /\ Here("check", {"array"})
    /\ IF Inner.scope = None
       THEN pass' = "crashed" /\ UNCHANGED avars
       ELSE insert_symbol(Inner.scope, This.name, Declares(This)) /\ UNCHANGED pass
    /\ Done(Inner.scope)
    /\ UNCHANGED <<prog, nest, current, scopeOf>>

\* var a: Array<T> = Array<T>(n) {..} only when no scope around has the name.
CheckArrayAssign ==
    /\ Here("check", {"arrayAssign"})
    /\ LET home == Home(Inner.scope, This.name)
       IN  /\ IF Inner.scope = None
              THEN pass' = "crashed" /\ UNCHANGED avars
              ELSE /\ IF home = None
                      THEN insert_symbol(Inner.scope, This.name, Declares(This))
                      ELSE UNCHANGED avars
                   /\ UNCHANGED pass
           /\ Done(home)
    /\ UNCHANGED <<prog, nest, current, scopeOf>>

\* Fault: the loop's scope is left empty.
CheckForEmpty ==
    /\ Here("check", {"for"})
    /\ \E s \in NewScope :
         /\ up' = [up EXCEPT ![s] = Inner.scope]
         /\ state' = [state EXCEPT ![s] = "open"]
         /\ nest' = Push("for", s)
         /\ current' = s
         /\ scopeOf' = [scopeOf EXCEPT ![pc + 1] = s]
         /\ Done(s)
    /\ UNCHANGED <<binds, used, errors, prog, pass>>

\* The loop's own scope, with its variable; create_function_scope makes it the
\* current one for good.
CheckFor ==
    /\ Here("check", {"for"})
    /\ \E s \in NewScope :
         /\ up' = [up EXCEPT ![s] = Inner.scope]
         /\ state' = [state EXCEPT ![s] = "open"]
         /\ binds' = [binds EXCEPT ![s][This.name] =
                         [decl |-> Declares(Ev("var", This.name, 0, FALSE)), slot |-> 0]]
         /\ used' = [used EXCEPT ![s] = {0}]
         /\ nest' = Push("for", s)
         /\ current' = s
         /\ scopeOf' = [scopeOf EXCEPT ![pc + 1] = s]
         /\ Done(s)
    /\ UNCHANGED <<errors, prog, pass>>

\* Fault: any array will do.
CheckElemOfVal ==
    /\ Here("check", {"elem"})
    /\ LET home == Home(Inner.scope, This.name)
       IN  /\ IF home # None /\ binds[home][This.name].decl.kind = "array"
              THEN UNCHANGED errors ELSE errors' = errors + 1
           /\ Done(home)
    /\ UNCHANGED <<up, state, binds, used, prog, pass, nest, current, scopeOf>>

\* a[i] = e: a must be a mutable array.
CheckElem ==
    /\ Here("check", {"elem"})
    /\ LET home == Home(Inner.scope, This.name)
           d == binds[home][This.name].decl
       IN  /\ IF home # None /\ d.kind = "array" /\ d.mut
              THEN UNCHANGED errors ELSE errors' = errors + 1
           /\ Done(home)
    /\ UNCHANGED <<up, state, binds, used, prog, pass, nest, current, scopeOf>>

\* A variable's param_count is unset.  Reading past the parameter types the
\* callee has crashes for certain only when it has none.
CheckCall ==
    /\ Here("check", {"call"})
    /\ LET home == Home(Inner.scope, This.name)
           d == binds[home][This.name].decl
       IN  /\ IF home = None THEN errors' = errors + 1 /\ UNCHANGED pass
              ELSE IF d.kind = "fun"
              THEN /\ errors' = IF d.n = This.n THEN errors ELSE errors + 1
                   /\ pass' \in IF This.n <= d.n THEN {pass}
                                ELSE IF d.n = 0 THEN {"crashed"} ELSE {pass, "crashed"}
              ELSE /\ errors' \in {errors, errors + 1}
                   /\ pass' \in IF This.n = 0 THEN {pass} ELSE {pass, "crashed"}
           /\ Done(home)
    /\ UNCHANGED <<up, state, binds, used, prog, nest, current, scopeOf>>

-----------------------------------------------------------------------------
\* Pass 3, generate_code

\* Fault: a loop's scope is entered, for good.
GenerateForInScope ==
    /\ Here("generate", {"for"})
    /\ nest' = Push("for", current)
    /\ current' = scopeOf[pc + 1]
    /\ Done(Home(scopeOf[pc + 1], This.name))
    /\ UNCHANGED <<avars, prog, pass, scopeOf>>

GenerateFun ==
    /\ Here("generate", {"fun"})
    /\ nest' = Push("fun", current)
    /\ current' = scopeOf[pc + 1]
    /\ Done(Home(scopeOf[pc + 1], This.name))
    /\ UNCHANGED <<avars, prog, pass, scopeOf>>

GenerateEnd ==
    /\ Here("generate", {"end"})
    /\ nest' = Pop
    /\ current' = IF Inner.op = "fun" THEN Inner.scope ELSE current
    /\ Done(None)
    /\ UNCHANGED <<avars, prog, pass, scopeOf>>

\* What a lookup that finds nothing leads to: an initialised variable gives up,
\* a callee or an array is dereferenced, new_temp needs a table, the rest is
\* skipped or given a temporary.
Missed(op) ==
    CASE op = "var" -> {"exited", "crashed"}
      [] op \in {"array", "arrayAssign", "call"} -> {"crashed"}
      [] OTHER -> IF current = None THEN {"crashed"} ELSE {pass}

GenerateName ==
    /\ Here("generate", {"param", "var", "array", "arrayAssign", "assign", "use", "call", "elem"})
    /\ LET home == Home(current, This.name)
       IN  /\ pass' \in IF home = None THEN Missed(This.op) ELSE {pass}
           /\ Done(home)
    /\ UNCHANGED <<avars, prog, nest, current, scopeOf>>

\* The loop's variable is looked up in the function's scope, not the loop's.
GenerateFor ==
    /\ Here("generate", {"for"})
    /\ nest' = Push("for", current)
    /\ Done(Home(current, This.name))
    /\ UNCHANGED <<avars, prog, pass, current, scopeOf>>

Finished == pass \in Ends /\ UNCHANGED vars

Next ==
    \/ \E n \in Names, k \in Arities :
          CollectFun(n, k) \/ CollectName("call", n, k)
    \/ \E n \in Names, op \in Declarators, m \in BOOLEAN : CollectDeclaration(op, n, m)
    \/ \E n \in Names, op \in {"use", "elem"} : CollectName(op, n, 0)
    \/ \E n \in Names : CollectParam(n) \/ CollectAssign(n) \/ CollectFor(n)
    \/ CollectEnd
    \/ NextPass
    \/ CheckFun \/ CheckEnd \/ CheckName \/ CheckArray \/ CheckArrayAssign
    \/ CheckFor \/ CheckElem \/ CheckCall
    \/ GenerateFun \/ GenerateEnd \/ GenerateName \/ GenerateFor
    \/ Finished

Spec == Init /\ [][Next]_vars
=============================================================================
