------------------------------- MODULE ValueRules -------------------------------
(***************************************************************************)
(* What the events of Values mean, said of the text alone: the type and    *)
(* the value of each variable and operand, whether the text is well typed, *)
(* and what can be expected of the compiler.  Of a variable or an operand  *)
(*   known  says that the types the compiler has are the right ones,       *)
(*   sound  that the value is there, in full,                              *)
(*   odd    that the checker may have another type for it.                 *)
(***************************************************************************)
EXTENDS Values

Item(t, v, known, sound, odd) ==
    [type |-> t, value |-> v, known |-> known, sound |-> sound, odd |-> odd]

Assignable(t, u) == t = u \/ (t = "Double" /\ u = "Int")
FullWidth(t) == IF t \in ArrayTypes THEN "pointer" ELSE WidthOf(t)
Numbers == {"Int", "Double"}

LegalOperands(op, l, r) ==
    CASE op = "==" -> TRUE
      [] op = "+" -> "String" \in {l.type, r.type} \/ {l.type, r.type} \subseteq Numbers
      [] op = "<" -> {l.type, r.type} \subseteq Numbers \/ {l.type, r.type} = {"String"}
      [] OTHER -> {l.type, r.type} \subseteq Numbers

\* Strings are added as if they were numbers, and nothing computes % of Doubles.
\* Which instruction is chosen depends on the types of both operands.
Result(op, l, r, at) ==
    LET t == IF op \in Relations THEN "Boolean"
             ELSE IF "String" \in {l.type, r.type} THEN "String"
             ELSE IF "Double" \in {l.type, r.type} THEN "Double" ELSE "Int"
        known == op \in Relations \/ (l.known /\ r.known /\ t # "String")
    IN  Item(t, at, known, known /\ ~(op = "%" /\ t = "Double"),
             op \in Arithmetic /\ (l.odd \/ r.odd \/ t = "Double"))

\* Variables of the package share their cells with whatever the function has in
\* the same slot.  A value written to one takes the place of the other's; one
\* written where the temporaries are may be gone when it is read.
Written(variables, v, item) ==
    [u \in DOMAIN variables |->
        IF u = v THEN [item EXCEPT !.sound = @ /\ Lasting(v)]
        ELSE IF Slot(u) = Slot(v) THEN [variables[u] EXCEPT !.sound = FALSE]
        ELSE variables[u]]

\* Numbers are not converted, and of a pointer to an array only 4 bytes are moved.
Moves(t, item) == item.sound /\ item.type = t /\ t \notin ArrayTypes

\* An element has 4 bytes, whatever its type.
Kept(t, item) == Item(t, item.value, TRUE, Moves(t, item) /\ t \in {"Int", "Boolean"}, FALSE)

\* The next variable, with a value written to its cell.
Added(variables, item) == Written(Append(variables, item), Len(variables) + 1, item)

\* A declared variable; one whose type is inferred from more than a literal has
\* a type the parser guessed, and none is stored where it is declared.
NewVariable(e, item, literal) ==
    IF e.type = "inferred"
    THEN Item(item.type, item.value, literal, FALSE, ~literal)
    ELSE Item(e.type, item.value, TRUE, Moves(e.type, item), FALSE)

\* Variables, operands, legality and doubt before the first event.
Outset ==
    [variables |-> [v \in 1 .. Len(Package) + Len(Parameters) |->
                        IF v <= Len(Package)
                        THEN Item(Package[v], Garbage, TRUE, FALSE, FALSE)
                        ELSE LET k == v - Len(Package)
                             IN  Item(Parameters[k], -k, TRUE, TRUE, FALSE)],
     operands |-> <<>>, elements |-> <<>>, legal |-> TRUE, doubtful |-> FALSE]

\* The same after e, the n-th event; literal if the one before it was one.
Advance(before, e, n, literal) ==
    LET variables == before.variables
        operands == before.operands
        top == operands[Len(operands)]
        left == operands[Len(operands) - 1]
        x == variables[e.var]
        Rest(k) == SubSeq(operands, 1, Len(operands) - k)
        Used(k) == {operands[i] : i \in Len(operands) - k + 1 .. Len(operands)}
        After(vs, os, legal, used) ==
            [before EXCEPT !.variables = vs, !.operands = os, !.legal = legal,
                           !.doubtful = \E item \in used : item.odd]
        Pushes(item) == After(variables, Append(operands, item), TRUE, {})
        Leaves(vs, legal, used) == After(vs, <<>>, legal, used)
    IN  CASE e.kind = "literal" -> Pushes(Item(e.type, n, TRUE, TRUE, FALSE))
          [] e.kind = "name" -> Pushes([x EXCEPT !.odd = @ \/ x.type \in ArrayTypes])
          [] e.kind = "operator" ->
               After(variables, Append(Rest(2), Result(e.op, left, top, n)),
                     LegalOperands(e.op, left, top), {left, top})
          [] e.kind = "call" ->
               LET sig == Signature[e.f]
                   k == Arity(e.f)
               IN  After(variables,
                         Append(Rest(k), Item(sig.result, n, TRUE, sig.result # "String", FALSE)),
                         \A i \in 1 .. k : Assignable(sig.params[i],
                                                      operands[Len(operands) - k + i].type),
                         Used(k))
          [] e.kind = "println" -> Leaves(variables, TRUE, {})
          [] e.kind = "declare" ->
               Leaves(IF e.type = "inferred" THEN Append(variables, NewVariable(e, top, literal))
                      ELSE Added(variables, NewVariable(e, top, literal)),
                      e.type # "inferred" => Assignable(e.type, top.type),
                      IF e.type = "inferred" THEN {} ELSE {top})
          [] e.kind = "assign" ->
               Leaves(Written(variables, e.var,
                              [x EXCEPT !.value = top.value,
                                        !.sound = x.known /\ Moves(x.type, top)]),
                      Assignable(x.type, top.type), {x, top})
          [] e.kind = "increment" ->
               Leaves(Written(variables, e.var,
                              [x EXCEPT !.value = n, !.sound = x.known /\ x.type = "Int"]),
                      x.type \in Numbers, {x})
          [] e.kind = "array" ->
               [Leaves(Added(variables, Item(ArrayOf[e.type], n, TRUE, TRUE, FALSE)),
                       Assignable(e.type, top.type), {top})
                  EXCEPT !.elements = [a \in DOMAIN @ \cup {n} |->
                                         IF a = n THEN Kept(e.type, top) ELSE @[a]],
                         !.doubtful = @ \/ {e.type, top.type} = Numbers]
          [] e.kind = "element" /\ x.type \in ArrayTypes ->
               LET t == ElementOf(x.type)
               IN  [Pushes(IF x.sound THEN before.elements[x.value]
                           ELSE Item(t, Garbage, TRUE, FALSE, FALSE))
                      EXCEPT !.doubtful = x.odd]
          [] e.kind = "store" /\ x.type \in ArrayTypes ->
               [Leaves(variables, Assignable(ElementOf(x.type), top.type), {x, top})
                  EXCEPT !.elements =
                       IF x.sound THEN [@ EXCEPT ![x.value] = Kept(ElementOf(x.type), top)]
                       ELSE [a \in DOMAIN @ |-> [@[a] EXCEPT !.sound = FALSE]]]
          [] OTHER -> Leaves(variables, FALSE, {x})

\* The same after each event of p.
MeaningOf(p) ==
    LET M[n \in 0 .. Len(p)] ==
            IF n = 0 THEN Outset
            ELSE Advance(M[n - 1], p[n], n, n > 1 /\ p[n - 1].kind = "literal")
    IN  M

Meaning == MeaningOf(prog)
Now == Meaning[Len(prog)]

-----------------------------------------------------------------------------

\* The checker accepts exactly the well typed texts, unless the event it judges
\* has an operand or a variable whose type it may have wrong: one inferred from
\* more than a literal, or the sum of Doubles, which it takes for an Int
\* (semantics.c 571-574, tree.c 203-218).
ChecksExactly ==
    LET judged == Now
    IN  judged.doubtful \/ (verdict # "rejected") = judged.legal

\* The generator, which looks types up again or derives them anew, takes for each
\* operand the moves and instructions of its type's width (codegen.c 323-339,
\* 674-676, 697-699).
GeneratorAgrees ==
    LET operands == Now.operands
    IN  verdict = "accepted" =>
            \A i \in DOMAIN nodes :
                operands[i].known => nodes[i].gen = operands[i].type

\* A variable's cell holds the last value the text gave it, in full and in its
\* representation, and so do the elements of arrays, through all moves of 4 and 8
\* bytes and although variables of the package live in the function's frame: unless
\* that value did not arrive, or another variable in the same slot has been written
\* since, or the slot is one the temporaries use.
VariablesStand ==
    LET variables == Now.variables
        elements == Now.elements
    IN  verdict = "accepted" =>
            /\ \A v \in DOMAIN variables :
                LET x == variables[v]
                IN  x.sound => Reads(frame[Slot(v)], FullWidth(x.type)) = x.value
            /\ \A a \in DOMAIN elements :
                elements[a].sound => Reads(Half(heap[a], Empty), "int") = elements[a].value

\* Whether the i-th of the operands used by e, sound by itself, is read as what it
\* is: no number is converted, comparisons are of Ints, and arrays are not printed.
Fits(e, used, i) ==
    LET item == used[i]
        others == {used[j] : j \in DOMAIN used \ {i}}
    IN  CASE e.kind = "operator" /\ e.op \in Relations -> item.type \in {"Int", "Boolean"}
          [] e.kind = "operator" /\ e.op \notin Relations ->
                \/ item.type = "Double"
                \/ /\ item.type = "Int"
                   /\ \A other \in others : other.known /\ other.type # "Double"
          [] e.kind = "call" -> item.type = Signature[e.f].params[i]
          [] OTHER -> item.type \notin ArrayTypes

\* What e gets is what the text before it says, as far as the text can say it.
Arrives(before, e, got) ==
    LET operands == before.operands
        used == SubSeq(operands, Len(operands) - Len(got) + 1, Len(operands))
    IN  IF e.kind \in {"increment", "element", "store"}
        THEN LET x == before.variables[e.var]
             IN  x.sound /\ x.type \in {"Int"} \cup ArrayTypes => got = <<x.value>>
        ELSE \A i \in DOMAIN got : used[i].sound /\ Fits(e, used, i) => got[i] = used[i].value

\* Every operation, call and println gets the values the text says, whole and in
\* the registers it reads, unless an operand did not reach its place or would have
\* to be converted.
OperandsArrive ==
    \A k \in DOMAIN done :
        Arrives(Meaning[done[k].at - 1], prog[done[k].at], done[k].got)
=============================================================================
