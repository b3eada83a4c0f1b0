------------------------------- MODULE NameRules -------------------------------
(***************************************************************************)
(* What the three passes of NameAnalysis make of a file, said of its text  *)
(* alone, and what they owe each other.                                    *)
(***************************************************************************)
EXTENDS NameAnalysis

\* Scopes, bindings and counters have their types; every binding has a slot of
\* its scope.
TypeOK ==
    /\ state \in [Scopes -> {"new", "open"}]
    /\ up \in [Scopes -> Scopes \cup {None}]
    /\ \A s \in Scopes, n \in Names :
          binds[s][n] # None => binds[s][n].decl \in Declaration /\ binds[s][n].slot \in used[s]
    /\ errors \in Nat
    /\ \A i \in DOMAIN prog : prog[i] \in Event
    /\ pass \in Passes \cup Ends
    /\ pc \in 0 .. Len(prog) /\ Len(prog) <= MaxLoopLen

-----------------------------------------------------------------------------
\* The text: what stands around event i, and what it declares

Events == DOMAIN prog
Last(S) == CHOOSE i \in S : \A j \in S : j <= i
Of(ops) == {i \in Events : prog[i].op \in ops}

Depth(i) == Cardinality({j \in Of({"fun", "for"}) : j < i}) - Cardinality({j \in Of({"end"}) : j < i})

\* The loops and the function open at i.
Open_(i) == {j \in Of({"fun", "for"}) : j < i /\ \A k \in j + 1 .. i : Depth(k) > Depth(j)}
Function(i) == IF Depth(i) = 0 THEN 0 ELSE Last(Of({"fun"}) \cap Open_(i))
Loops(i) == Of({"for"}) \cap Open_(i)

\* Events that declare in the scope of function f (0: the package).
Scope(f) == {i \in Events : Function(i) = f} \cap Of(Declarators \cup {"fun", "param", "assign"})

Of_(S, n) == {i \in S : prog[i].name = n}
Before(S, i) == {j \in S : j < i}

\* A name already declared in its scope may be assigned, not declared.
Unique(i) == Of_(Before(Scope(Function(i)), i), prog[i].name) = {}

\* A name is declared in the function or the package before it is used.
Known(i) == Of_(Before(Scope(Function(i)) \cup Scope(0), i), prog[i].name) # {}

First(S) == CHOOSE i \in S : \A j \in S : i <= j

\* The declaration the checker finds for the name of event i: the loop's
\* variable or an array declared in the loop, from the inside out, then what the
\* function declares anywhere, then the package.
Meaning(i) ==
    LET n == prog[i].name
        hit == {l \in Loops(i) : \/ prog[l].name = n
                                 \/ \E j \in Before(Of_(Of({"array"}), n), i) :
                                       Loops(j) # {} /\ Last(Loops(j)) = l}
        here == Of_(Scope(Function(i)), n)
    IN  IF hit # {}
        THEN IF prog[Last(hit)].name = n THEN Last(hit)
             ELSE First({j \in Of_(Of({"array"}), n) : Loops(j) # {} /\ Last(Loops(j)) = Last(hit)})
        ELSE IF here # {} THEN First(here) ELSE First(Of_(Scope(0), n))

\* A plain array declaration survives its second insertion only inside a loop
\* that does not use its name, or at top level when the last function does not.
ArrayStands(i) ==
    IF Function(i) = 0
    THEN Of({"fun"}) # {} /\ Of_(Scope(Last(Of({"fun"}))), prog[i].name) = {}
    ELSE Loops(i) # {} /\ prog[Last(Loops(i))].name # prog[i].name

HasFunction == Of({"fun"}) # {}
NamesUnique == \A i \in Of(Declarators \cup {"fun", "param"}) : Unique(i)
UsesKnown == \A i \in Of({"use", "elem"}) : Known(i)
LoopVariablesKnown == \A i \in Of({"for"}) : Known(i)
CalleesKnown == \A i \in Of({"call"}) : Known(i)
ArraysStand == \A i \in Of({"array"}) : ArrayStands(i)
ElementsWritable ==
    \A i \in Of({"elem"}) : LET d == prog[Meaning(i)]
                            IN  d.op \in {"array", "arrayAssign"} /\ d.mut
CallsFit == \A i \in Of({"call"}) : prog[Meaning(i)].op = "fun" /\ prog[Meaning(i)].n = prog[i].n

Accepts == /\ HasFunction /\ NamesUnique
           /\ UsesKnown /\ LoopVariablesKnown /\ CalleesKnown
           /\ ArraysStand /\ ElementsWritable /\ CallsFit

\* A call of a variable reads its unset parameter count: no rule covers it.
CallsVariable == \E i \in Of({"call"}) : Known(i) /\ prog[Meaning(i)].op # "fun"

\* The passes end with code for exactly the files the rules accept.  Some of the
\* rules, Known for a callee or a loop's variable and ArrayStands, are the code's and
\* not the tests': LateNamesStand and ArraysMayBeDeclared say what these expect.
AcceptsExactly ==
    pass \in Ends /\ ~CallsVariable => (pass = "compiled" <=> Accepts)

\* The code generator finds every name of a file the checker accepted: no
\* initialiser gives up, no callee or array is a null entry.
GeneratorFindsAll ==
    Of({"fun"}) # {} /\ pass \in {"generate", "compiled", "exited", "crashed"} =>
        \A i \in DOMAIN res.generate : prog[i].op # "end" => res.generate[i] # None

LoopScopes == {scopeOf[l] : l \in Of({"for"})}

\* Inside functions the generator works on the variable the checker checked,
\* unless the checker had it in a loop's own scope, which the generator never
\* enters: then it is the function's or the package's variable of that name.
SameVariable ==
    pass = "compiled" =>
        \A i \in Events : Function(i) # 0 /\ prog[i].op # "end" =>
            \/ res.check[i] = res.generate[i]
            \/ /\ res.check[i] \in LoopScopes
               /\ res.generate[i] \in {Package, scopeOf[Function(i)]}

\* The first pass and the last agree on the variable a name means, except where
\* the function declares the name later on, which captures the earlier use, and
\* in the last function, where the checker declares the package's arrays again.
CapturesExplained ==
    pass = "compiled" =>
        \A i \in Events : Function(i) # 0 /\ prog[i].op # "end" =>
            \/ res.collect[i] = res.generate[i]
            \/ /\ res.generate[i] = scopeOf[Function(i)]
               /\ \/ \E j \in Of_(Scope(Function(i)), prog[i].name) : j > i
                  \/ /\ Function(i) = Last(Of({"fun"}))
                     /\ Of_(Scope(0) \cap Of({"array"}), prog[i].name) # {}

\* An accepted file writes only elements of arrays declared var.
ElementsMutable ==
    pass = "compiled" =>
        \A i \in Of({"elem"}) :
            LET d == binds[res.generate[i]][prog[i].name].decl IN d.kind = "array" /\ d.mut

\* The compiler crashes only on a file without functions, on a call of a
\* variable, and on a call with too many arguments.
CrashesExplained ==
    pass \in {"crashed", "exited"} =>
        \/ Of({"fun"}) = {}
        \/ CallsVariable
        \/ \E i \in Of({"call"}) : Known(i) /\ prog[i].n > prog[Meaning(i)].n

-----------------------------------------------------------------------------
\* What the tests expect

\* A val keeps its value: an assignment in an accepted file writes to a variable
\* declared var (tests/errors/sem5.kt and tests/typechecking.kt expect an error).
ValsKeepTheirValue ==
    pass = "compiled" =>
        \A i \in Of({"assign"}) : binds[res.generate[i]][prog[i].name].decl.mut

\* Wherever it stands, a function of that name and no other thing is declared,
\* with as many parameters as the call has arguments.
CalleesDeclared ==
    \A i \in Of({"call"}) :
        LET named == Of_(Events \ Of({"call", "use", "elem", "end"}), prog[i].name)
        IN  named # {} /\ \A d \in named : prog[d].op = "fun" /\ prog[d].n = prog[i].n

\* A range loop declares its variable, and a function may be called before its
\* declaration: tests/k0/syn_test1.kt does the one in line 36 and the other in line 41.
\* The first pass does not report both in a file that is right otherwise.
LateNamesStand ==
    pass = "rejected" =>
        ~ (/\ HasFunction /\ NamesUnique /\ UsesKnown
           /\ ArraysStand /\ ElementsWritable /\ CalleesDeclared
           /\ \E l \in Of({"for"}), c \in Of({"call"}) :
                 res.collect[l] = None /\ res.collect[c] = None)

\* var a: Array<T>(n) {e} declares a once (tests/k0/sem_test5.kt and sem1.kt
\* declare an array so, in a function and outside any loop).
ArraysMayBeDeclared ==
    pass = "rejected" =>
        ~ (/\ HasFunction /\ NamesUnique /\ UsesKnown /\ LoopVariablesKnown
           /\ CalleesKnown /\ ElementsWritable /\ CallsFit)
=============================================================================
