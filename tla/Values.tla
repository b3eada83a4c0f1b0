--------------------------------- MODULE Values ---------------------------------
(***************************************************************************)
(* Types of values.  The parser gives nodes a first type (k0gram.y), the   *)
(* checker compares and replaces it (semantics.c), the generator reads it  *)
(* to choose widths and registers (codegen.c), and write_asm_file writes   *)
(* moves of 4 or 8 bytes, which run.  The body of one function is followed *)
(* as it runs, in postfix notation: operands, then what is done with them. *)
(*                                                                         *)
(* A value is the index of the event that computes it, -k being the k-th   *)
(* parameter; Garbage is anything else.  A cell of the frame has two       *)
(* halves of 4 bytes, so that an incomplete copy shows.  A name's type is  *)
(* unset while the first file of a command line is parsed.  A callee is    *)
(* taken to leave its result where its type says; Expr says when it does.  *)
(* Arrays have one element, which stands for each.  Calls in later         *)
(* arguments, branches and nulls are left out.                             *)
(*                                                                         *)
(* Slots of the frame are counted in units of 8 bytes: first those of the  *)
(* parameters, then those of the function's variables, which printsyms     *)
(* gives out before generate_code takes any for temporaries.  A variable   *)
(* of the package has the slot its place in the package's table gives it,  *)
(* whatever the function keeps there.                                      *)
(*                                                                         *)
(* Bounds: MaxLen events, MaxNodes operands at a time.                     *)
(***************************************************************************)
EXTENDS Integers, Sequences

CONSTANTS Package,     \* the types of the variables of the package
          Offset,      \* their slots: its functions are in the same table
          Parameters,  \* the types of the function's parameters
          Locals,      \* how many variables the function declares in all
          Signature,   \* the functions called: params, result, and math if
                       \* generate_code knows them by name
          Literals,    \* the types of the literals used
          Operators,
          Declared,    \* the types declarations name, or "inferred"
          Elements,    \* the types of the elements of arrays
          MaxLen, MaxNodes

Named == {"Int", "Double", "Boolean", "String"}
ArrayOf == [Int |-> "Array<Int>", Double |-> "Array<Double>",
            Boolean |-> "Array<Boolean>", String |-> "Array<String>"]
ArrayTypes == {ArrayOf[t] : t \in Named}
ElementOf(t) == CHOOSE u \in Named : ArrayOf[u] = t

\* None is the type of nothing, which the parser gives to elements.
Type == Named \cup ArrayTypes \cup {"Any", "None"}
Arithmetic == {"+", "-", "%"}
Relations == {"<", "=="}

ASSUME ValuesAssumption ==
    /\ Package \in Seq(Named) /\ Parameters \in Seq(Named)
    /\ Offset \in [1 .. Len(Package) -> Nat \ {0}] /\ Locals \in Nat
    /\ \A i, j \in 1 .. Len(Package) : Offset[i] = Offset[j] => i = j
    /\ Signature \in [DOMAIN Signature ->
                        [params : Seq(Named), result : Named, math : BOOLEAN]]
    /\ \A f \in DOMAIN Signature :
          /\ Signature[f].params # <<>>
          /\ Signature[f].math => \A i \in DOMAIN Signature[f].params :
                                     Signature[f].params[i] = "Double"
    /\ Literals \subseteq Named /\ Elements \subseteq Named
    /\ Operators \subseteq Arithmetic \cup Relations
    /\ Declared \subseteq Named \cup ArrayTypes \cup {"inferred"}
    /\ MaxLen \in Nat /\ MaxNodes \in Nat

VARIABLES
    prog,     \* the events so far
    verdict,  \* of the checker
    entries,  \* the types in the symbol table: Package, Parameters, then the rest
    nodes,    \* the operands at hand
    frame,    \* the cells of the function's variables
    heap,     \* the 4 bytes of the element of each array
    made,     \* how the value of each event is represented
    done      \* what each operation got

vars == <<prog, verdict, entries, nodes, frame, heap, made, done>>

Garbage == 0
Value == -Len(Parameters) .. MaxLen
Width == {"int", "double", "pointer", "none"}
Variable == 1 .. Len(Package) + Len(Parameters) + Locals
Slots == (1 .. Len(Parameters) + Locals) \cup {Offset[i] : i \in 1 .. Len(Package)}
Cell == [low : Value, high : Value]
Unset == "unset"
Node == [parse : Type \cup {Unset}, type : Type, gen : Type, cell : Cell, label : BOOLEAN]

Event == [kind : {"literal"}, type : Literals]
         \cup [kind : {"name", "assign", "increment", "element", "store"}, var : Variable]
         \cup [kind : {"operator"}, op : Operators]
         \cup [kind : {"call"}, f : DOMAIN Signature]
         \cup [kind : {"declare"}, type : Declared] \cup [kind : {"array"}, type : Elements]
         \cup [kind : {"println"}]

-----------------------------------------------------------------------------
\* Types

\* Fault: a Double for an Int as well.
CompatibleBothWays(expected, actual) ==
    /\ Unset \notin {expected, actual}
    /\ \/ "Any" \in {expected, actual} \/ expected = actual
       \/ {expected, actual} \in {{"Int", "Double"}} \cup SUBSET ArrayTypes

\* Arrays are compared without their elements.
check_type_compatibility(expected, actual) ==
    /\ Unset \notin {expected, actual}
    /\ \/ "Any" \in {expected, actual}
       \/ expected = "Double" /\ actual = "Int"
       \/ expected = actual
       \/ {expected, actual} \subseteq ArrayTypes

IsNumeric(t) == check_type_compatibility(t, "Int") \/ check_type_compatibility(t, "Double")
IsString(t) == check_type_compatibility(t, "String")

Top == nodes[Len(nodes)]
Left == nodes[Len(nodes) - 1]
Arity(f) == Len(Signature[f].params)
Argument(f, i) == nodes[Len(nodes) - Arity(f) + i]

\* The type the parser gives an operator's node; == is given none.
ParseType(op) ==
    CASE op \in Arithmetic ->
            IF check_type_compatibility(Left.parse, Top.parse) THEN Left.parse ELSE "Double"
      [] op = "<" -> "Boolean"
      [] OTHER -> Unset

Concatenates(op) == op = "+" /\ (IsString(Left.type) \/ IsString(Top.type))

\* The type the checker gives it.  A Double is compatible with Int from the
\* left, so the sum of two Doubles is an Int.
CheckedType(op) ==
    CASE op \in Relations -> "Boolean"
      [] Concatenates(op) -> "String"
      [] OTHER -> IF /\ check_type_compatibility(Left.type, "Int")
                     /\ check_type_compatibility(Top.type, "Int")
                  THEN "Int" ELSE "Double"

\* Fault: the right operand alone decides.
IsDoubleByRight(op) == op \in Arithmetic /\ Top.gen = "Double"

\* Whether the generator takes the instruction for Doubles, and its type.
IsDouble(op) == op \in Arithmetic /\ "Double" \in {Left.gen, Top.gen}
GeneratedType(op) ==
    IF op \in Relations THEN "Boolean" ELSE IF IsDouble(op) THEN "Double" ELSE "Int"

\* The initial value of an array's elements stands where the expected type should.
InitialFits(element, initial) == check_type_compatibility(initial, element)

OperatorChecks(op) ==
    LET numbers == IsNumeric(Left.type) /\ IsNumeric(Top.type)
    IN  CASE op = "==" -> TRUE
          [] op = "<" -> numbers \/ (IsString(Left.type) /\ IsString(Top.type))
          [] OTHER -> Concatenates(op) \/ numbers

CallChecks(f) ==
    \A i \in 1 .. Arity(f) :
        check_type_compatibility(Signature[f].params[i], Argument(f, i).type)

\* A declaration without a type is not looked at.
DeclarationChecks(t) == t # "inferred" => check_type_compatibility(t, Top.type)

AssignmentChecks(v) == check_type_compatibility(entries[v], Top.type)

IncrementChecks(v) == IsNumeric(entries[v])

ElementChecks(v) == entries[v] \in ArrayTypes

StoreChecks(v) ==
    ElementChecks(v) /\ check_type_compatibility(ElementOf(entries[v]), Top.type)

\* What the checker has nothing to say against.
Checks(e) ==
    CASE e.kind = "operator" -> OperatorChecks(e.op)
      [] e.kind = "call" -> CallChecks(e.f)
      [] e.kind = "declare" -> DeclarationChecks(e.type)
      [] e.kind = "assign" -> AssignmentChecks(e.var)
      [] e.kind = "increment" -> IncrementChecks(e.var)
      [] e.kind = "array" -> InitialFits(e.type, Top.type)
      [] e.kind = "element" -> ElementChecks(e.var)
      [] e.kind = "store" -> StoreChecks(e.var)
      [] OTHER -> TRUE

-----------------------------------------------------------------------------
\* Memory

WidthOf(t) == CASE t = "Double" -> "double" [] t = "String" -> "pointer" [] OTHER -> "int"

\* Variables of the package are R_LOCAL with offsets from 8, like the function's.
Slot(v) == IF v <= Len(Package) THEN Offset[v] ELSE v - Len(Package)

\* Slots after these belong to the temporaries.
Lasting(v) == Slot(v) <= Len(Parameters) + Locals

Whole(value) == [low |-> value, high |-> value]
Half(value, cell) == [low |-> value, high |-> cell.high]
Empty == Whole(Garbage)

\* What there is in a variable's slot: a temporary may have been there.
Contents(v) == {frame[Slot(v)]} \cup IF Lasting(v) THEN {} ELSE {Empty}

Represented(value) ==
    IF value < 0 THEN WidthOf(Parameters[-value])
    ELSE IF value > 0 THEN made[value] ELSE "none"

\* The value an instruction gets that reads a cell as one of width w.
Reads(cell, w) ==
    LET complete == w = "int" \/ cell.low = cell.high
    IN  IF complete /\ Represented(cell.low) = w THEN cell.low ELSE Garbage

\* A string literal has no cell, only a label, which only moves of pointers know.
Operand(node, w) == IF node.label /\ w # "pointer" THEN Garbage ELSE Reads(node.cell, w)

\* Fault: 4 bytes for everything but Doubles.
MovedShort(t, node, old) ==
    LET cell == IF node.label THEN Empty ELSE node.cell
    IN  IF t = "Double" THEN cell ELSE Half(cell.low, old)

\* O_ASN with the flags of a variable of type t: what becomes of its cell.
Moved(t, node, old) ==
    LET cell == IF node.label /\ t # "String" THEN Empty ELSE node.cell
    IN  IF t \in {"Double", "String"} THEN cell ELSE Half(cell.low, old)

\* Fault: the type is still the checker's.
ClassByCheckedType(node) == IF node.label THEN "pointer" ELSE WidthOf(node.type)

\* The registers O_PARM chooses for a node.
Class(node) == IF node.label THEN "pointer" ELSE WidthOf(node.gen)

\* What the callee finds in the register its parameter's type says, the i-th of
\* its class; registers of another class have not been loaded.
Passed(node, t) == IF Class(node) = WidthOf(t) THEN Operand(node, Class(node)) ELSE Garbage

-----------------------------------------------------------------------------

Init ==
    /\ prog = <<>> /\ nodes = <<>> /\ made = <<>> /\ done = <<>>
    /\ verdict = "accepted"
    /\ entries = Package \o Parameters
    /\ heap = [a \in Value |-> Garbage]
    /\ frame = [s \in Slots |->
                  IF s > Len(Parameters) THEN Empty
                  ELSE IF WidthOf(Parameters[s]) = "int" THEN Half(-s, Empty) ELSE Whole(-s)]

Here == Len(prog) + 1
Needs(e) ==
    CASE e.kind \in {"literal", "name", "element", "increment"} -> 0
      [] e.kind \in {"declare", "array", "assign", "store", "println"} -> 1
      [] e.kind = "operator" -> 2
      [] OTHER -> Arity(e.f)

\* The next event.  Statements stand alone; a later argument has no call in it.
Reading(e) ==
    /\ verdict = "accepted" /\ Here <= MaxLen
    /\ Needs(e) <= Len(nodes)
    /\ e.kind \in {"literal", "name", "element"} => Len(nodes) < MaxNodes
    /\ e.kind \in {"name", "assign", "increment", "element", "store"} => e.var <= Len(entries)
    /\ e.kind \in {"declare", "array"} => Len(entries) < Len(Package) + Len(Parameters) + Locals
    /\ e.kind \notin {"literal", "name", "element", "operator", "call"} => Len(nodes) = Needs(e)
    /\ e.kind = "call" => Len(nodes) = Arity(e.f)
    /\ prog' = Append(prog, e)

Accepted(e) == Reading(e) /\ Checks(e)
Runs(e) == Accepted(e) /\ UNCHANGED <<verdict, heap>>

Without(n) == SubSeq(nodes, 1, Len(nodes) - n)
Push(n, node) == nodes' = Append(Without(n), node)
Represents(w) == made' = Append(made, w)
Got(values) == done' = Append(done, [at |-> Here, got |-> values])

Reject(e) ==
    /\ Reading(e) /\ ~Checks(e)
    /\ verdict' = "rejected"
    /\ UNCHANGED <<entries, nodes, frame, heap, made, done>>

Literal(t) ==
    /\ Runs([kind |-> "literal", type |-> t])
    /\ Push(0, [parse |-> t, type |-> t, gen |-> t, label |-> t = "String",
                cell |-> IF WidthOf(t) = "int" THEN Half(Here, Empty) ELSE Whole(Here)])
    /\ Represents(WidthOf(t))
    /\ UNCHANGED <<entries, frame, done>>

Name(v) ==
    /\ Runs([kind |-> "name", var |-> v])
    /\ \E cell \in Contents(v) :
          Push(0, [parse |-> Unset, type |-> entries[v], gen |-> entries[v],
                   cell |-> cell, label |-> FALSE])
    /\ Represents("none")
    /\ UNCHANGED <<entries, frame, done>>

\* % of Doubles has no instruction, and leaves its temporary as it is.
Operator(op) ==
    LET w == IF IsDouble(op) THEN "double" ELSE "int"
        nothing == op = "%" /\ IsDouble(op)
    IN  /\ Runs([kind |-> "operator", op |-> op])
        /\ Push(2, [parse |-> ParseType(op), type |-> CheckedType(op),
                    gen |-> GeneratedType(op), label |-> FALSE,
                    cell |-> IF nothing THEN Empty
                             ELSE IF w = "double" THEN Whole(Here) ELSE Half(Here, Empty)])
        /\ Represents(w)
        /\ IF nothing THEN UNCHANGED done ELSE Got(<<Operand(Left, w), Operand(Top, w)>>)
        /\ UNCHANGED <<entries, frame>>

\* The functions of Math work on the arguments' cells; the others get registers,
\* and their results come back in xmm0 or in the 4 bytes of eax.
Call(f) ==
    LET sig == Signature[f]
        Gets(i) == IF sig.math THEN Operand(Argument(f, i), "double")
                   ELSE Passed(Argument(f, i), sig.params[i])
    IN  /\ Runs([kind |-> "call", f |-> f])
        /\ Got([i \in 1 .. Arity(f) |-> Gets(i)])
        /\ Push(Arity(f), [parse |-> Unset, type |-> sig.result, gen |-> sig.result,
                           label |-> FALSE,
                           cell |-> IF sig.result = "Double" THEN Whole(Here)
                                    ELSE Half(Here, Empty)])
        /\ Represents(WidthOf(sig.result))
        /\ UNCHANGED <<entries, frame>>

Println ==
    /\ Runs([kind |-> "println"])
    /\ Got(<<Operand(Top, Class(Top))>>)
    /\ nodes' = <<>>
    /\ Represents("none")
    /\ UNCHANGED <<entries, frame>>

Declares(t) == entries' = Append(entries, t) /\ nodes' = <<>> /\ Represents("none")

\* val x: T = e
DeclareTyped(t) ==
    LET s == Slot(Len(entries) + 1)
    IN  /\ t # "inferred"
        /\ Runs([kind |-> "declare", type |-> t])
        /\ Declares(t)
        /\ frame' = [frame EXCEPT ![s] = Moved(t, Top, @)]
        /\ UNCHANGED done

\* Fault: no type is no type.
InferredUnset == Top.parse

\* The type printsyms enters for val x = e: the parser's, Any if it has none.
InferredType == IF Top.parse = Unset THEN "Any" ELSE Top.parse

\* val x = e: the node has two children, for which generate_code has no case that
\* stores the value.
DeclareInferred ==
    /\ Runs([kind |-> "declare", type |-> "inferred"])
    /\ Declares(InferredType)
    /\ UNCHANGED <<frame, done>>

Assign(v) ==
    /\ Runs([kind |-> "assign", var |-> v])
    /\ frame' = [frame EXCEPT ![Slot(v)] = Moved(entries[v], Top, @)]
    /\ nodes' = <<>>
    /\ Represents("none")
    /\ UNCHANGED <<entries, done>>

\* x++ adds to 4 bytes, whatever x is.
Increment(v) ==
    /\ Runs([kind |-> "increment", var |-> v])
    /\ \E cell \in Contents(v) :
          /\ Got(<<Reads(cell, "int")>>)
          /\ frame' = [frame EXCEPT ![Slot(v)] = Half(Here, cell)]
    /\ Represents("int")
    /\ UNCHANGED <<entries, nodes>>

\* var a: Array<T> = Array<T>(n) {e}, with 4 bytes for an element.
DeclareArray(t) ==
    /\ Accepted([kind |-> "array", type |-> t])
    /\ entries' = Append(entries, ArrayOf[t])
    /\ frame' = [frame EXCEPT ![Slot(Len(entries) + 1)] = Whole(Here)]
    /\ heap' = [heap EXCEPT ![Here] = Moved("Int", Top, Empty).low]
    /\ nodes' = <<>>
    /\ Represents("pointer")
    /\ UNCHANGED <<verdict, done>>

\* What a variable points to, if all of its 8 bytes are there: an array, or the
\* string of a variable with the same slot.
Pointer(v) == Reads(frame[Slot(v)], "pointer")
IsArray(a) == a > 0 /\ prog[a].kind = "array"

\* A pointer with a wrong half is taken to be no address at all.  A string can be
\* read like an array, but is not to be written.
Crash(e) ==
    /\ Accepted(e)
    /\ \/ e.kind \in {"element", "store"} /\ Pointer(e.var) = Garbage
       \/ e.kind = "store" /\ ~IsArray(Pointer(e.var))
    /\ verdict' = "crashed"
    /\ Got(<<Garbage>>)
    /\ UNCHANGED <<entries, nodes, frame, heap, made>>

\* a[i]
Element(v) ==
    /\ Runs([kind |-> "element", var |-> v])
    /\ Pointer(v) # Garbage
    /\ Got(<<Pointer(v)>>)
    /\ Push(0, [parse |-> "None", type |-> ElementOf(entries[v]), gen |-> ElementOf(entries[v]),
                cell |-> Half(heap[Pointer(v)], Empty), label |-> FALSE])
    /\ Represents("none")
    /\ UNCHANGED <<entries, frame>>

\* a[i] = e
Store(v) ==
    /\ Accepted([kind |-> "store", var |-> v])
    /\ IsArray(Pointer(v))
    /\ Got(<<Pointer(v)>>)
    /\ heap' = [heap EXCEPT ![Pointer(v)] = Moved("Int", Top, Empty).low]
    /\ nodes' = <<>>
    /\ Represents("none")
    /\ UNCHANGED <<verdict, entries, frame>>

Stop == (verdict # "accepted" \/ Len(prog) = MaxLen) /\ UNCHANGED vars

Next ==
    \/ \E t \in Literals : Literal(t)
    \/ \E v \in Variable : Name(v) \/ Assign(v) \/ Increment(v) \/ Element(v) \/ Store(v)
    \/ \E op \in Operators : Operator(op)
    \/ \E f \in DOMAIN Signature : Call(f)
    \/ \E t \in Declared : DeclareTyped(t)
    \/ "inferred" \in Declared /\ DeclareInferred
    \/ \E t \in Elements : DeclareArray(t)
    \/ Println
    \/ \E e \in Event : Reject(e) \/ Crash(e)
    \/ Stop

Spec == Init /\ [][Next]_vars

-----------------------------------------------------------------------------

\* The variables hold values of their kinds, and each operand a cell.
TypeOK ==
    /\ prog \in Seq(Event) /\ Len(prog) <= MaxLen
    /\ verdict \in {"accepted", "rejected", "crashed"}
    /\ entries \in Seq(Type)
    /\ nodes \in Seq(Node) /\ Len(nodes) <= MaxNodes
    /\ frame \in [Slots -> Cell] /\ heap \in [Value -> Value]
    /\ made \in Seq(Width)
    /\ done \in Seq([at : 1 .. MaxLen, got : Seq(Value)])
=============================================================================
