----------------------------- MODULE ValueProofs -----------------------------
(***************************************************************************)
(* What the types of Values and the rules about them are worth for every   *)
(* signature, package, list of parameters and length of program.           *)
(***************************************************************************)
EXTENDS ValueRules, Induction

-----------------------------------------------------------------------------
\* The meaning of a text, event by event

Literally(p, n) == n > 1 /\ p[n - 1].kind = "literal"

\* A meaning that is right for the first k events.
Means(m, p, k) ==
    m = [n \in 0 .. k |-> IF n = 0 THEN Outset
                          ELSE Advance(m[n - 1], p[n], n, Literally(p, n))]

\* Every text has a meaning.
LEMMA MeaningExists == \A p : \A k \in Nat : \E m : Means(m, p, k)
<1> SUFFICES ASSUME NEW p PROVE \A k \in Nat : \E m : Means(m, p, k)
  OBVIOUS
<1> DEFINE Reached == {k \in Nat : \E m : Means(m, p, k)}
<1>1. 0 \in Reached
  <2> DEFINE m == [n \in 0 .. 0 |-> Outset]
  <2>1. Means(m, p, 0)
    BY DEF Means
  <2>2. QED
    BY <2>1
<1>2. ASSUME NEW k \in Nat, k \in Reached PROVE k + 1 \in Reached
  <2>1. PICK m : Means(m, p, k)
    BY <1>2
  <2> DEFINE last == Advance(m[k], p[k + 1], k + 1, Literally(p, k + 1))
             next == [n \in 0 .. k + 1 |-> IF n \in 0 .. k THEN m[n] ELSE last]
  <2>2. \A n \in 0 .. k : m[n] = IF n = 0 THEN Outset
                                 ELSE Advance(m[n - 1], p[n], n, Literally(p, n))
    BY <2>1 DEF Means
  <2>3. ASSUME NEW n \in 0 .. k + 1
        PROVE  next[n] = IF n = 0 THEN Outset
                         ELSE Advance(next[n - 1], p[n], n, Literally(p, n))
    <3>1. CASE n = 0
      BY <2>2, <3>1
    <3>2. CASE n \in 1 .. k
      <4>1. n \in 0 .. k /\ n - 1 \in 0 .. k /\ n # 0
        BY <3>2
      <4>2. next[n] = m[n] /\ next[n - 1] = m[n - 1]
        BY <4>1
      <4>3. QED
        BY <2>2, <4>1, <4>2
    <3>3. CASE n = k + 1
      <4>1. n - 1 = k /\ n \notin 0 .. k /\ n # 0 /\ k \in 0 .. k
        BY <3>3
      <4>2. next[n] = last /\ next[n - 1] = m[k]
        BY <4>1
      <4>3. QED
        BY <3>3, <4>1, <4>2
    <3>4. QED
      BY <3>1, <3>2, <3>3
  <2>4. next = [n \in 0 .. k + 1 |-> next[n]]
    OBVIOUS
  <2> HIDE DEF next
  <2>5. Means(next, p, k + 1)
    BY <2>3, <2>4 DEF Means
  <2>6. QED
    BY <2>5
<1>3. \A k \in Nat : k \in Reached
  <2> HIDE DEF Reached
  <2>1. QED
    BY <1>1, <1>2, InductionOnNat
<1>4. QED
  BY <1>3

\* Each event advances the meaning of what is before it.
LEMMA MeaningUnfolds ==
    ASSUME NEW p, Len(p) \in Nat
    PROVE  /\ MeaningOf(p)[0] = Outset
           /\ \A n \in 1 .. Len(p) :
                 MeaningOf(p)[n] = Advance(MeaningOf(p)[n - 1], p[n], n, Literally(p, n))
<1> DEFINE m == CHOOSE m : m = [n \in 0 .. Len(p) |->
                   IF n = 0 THEN Outset
                   ELSE Advance(m[n - 1], p[n], n, n > 1 /\ p[n - 1].kind = "literal")]
<1>1. PICK some : Means(some, p, Len(p))
  BY MeaningExists
<1>2. m = [n \in 0 .. Len(p) |->
              IF n = 0 THEN Outset
              ELSE Advance(m[n - 1], p[n], n, n > 1 /\ p[n - 1].kind = "literal")]
  <2>1. some = [n \in 0 .. Len(p) |->
                  IF n = 0 THEN Outset
                  ELSE Advance(some[n - 1], p[n], n, n > 1 /\ p[n - 1].kind = "literal")]
    BY <1>1 DEF Means, Literally
  <2>2. QED
    BY <2>1, Zenon
<1>3. MeaningOf(p) = m
  BY DEF MeaningOf
<1> HIDE DEF m
<1>4. m = [n \in 0 .. Len(p) |->
              IF n = 0 THEN Outset ELSE Advance(m[n - 1], p[n], n, Literally(p, n))]
  BY <1>2 DEF Literally
<1>5. QED
  BY <1>3, <1>4

\* What has been said keeps its meaning when more is said.
LEMMA MeaningStays ==
    ASSUME NEW E, NEW p \in Seq(E), NEW e \in E
    PROVE  /\ \A n \in 0 .. Len(p) : MeaningOf(Append(p, e))[n] = MeaningOf(p)[n]
           /\ MeaningOf(Append(p, e))[Len(p) + 1] =
                 Advance(MeaningOf(p)[Len(p)], e, Len(p) + 1, Literally(p, Len(p) + 1))
<1> DEFINE q == Append(p, e)
           Same == {n \in Nat : MeaningOf(q)[n] = MeaningOf(p)[n]}
<1>1. /\ Len(p) \in Nat /\ Len(q) = Len(p) + 1 /\ q[Len(p) + 1] = e
      /\ \A n \in 1 .. Len(p) : q[n] = p[n]
  OBVIOUS
<1> HIDE DEF q
<1>2. \A n \in 1 .. Len(p) + 1 : Literally(q, n) = Literally(p, n)
  <2>1. SUFFICES ASSUME NEW n \in 1 .. Len(p) + 1 PROVE Literally(q, n) = Literally(p, n)
    OBVIOUS
  <2>2. n > 1 => n - 1 \in 1 .. Len(p)
    BY <1>1
  <2>3. n > 1 => q[n - 1] = p[n - 1]
    BY <1>1, <2>2
  <2>4. QED
    BY <2>3 DEF Literally
<1>3. 0 \in Same
  BY <1>1, MeaningUnfolds
<1>4. ASSUME NEW n \in 0 .. Len(p) - 1, n \in Same PROVE n + 1 \in Same
  <2>1. n + 1 \in 1 .. Len(p) /\ n + 1 \in 1 .. Len(q) /\ n + 1 \in 1 .. Len(p) + 1
        /\ (n + 1) - 1 = n /\ n + 1 \in Nat
    BY <1>1
  <2>2. MeaningOf(p)[n + 1] = Advance(MeaningOf(p)[n], p[n + 1], n + 1, Literally(p, n + 1))
    BY <1>1, <2>1, MeaningUnfolds
  <2>3. MeaningOf(q)[n + 1] = Advance(MeaningOf(q)[n], q[n + 1], n + 1, Literally(q, n + 1))
    BY <1>1, <2>1, MeaningUnfolds
  <2>4. QED
    BY <1>1, <1>2, <1>4, <2>1, <2>2, <2>3
<1>5. \A n \in 0 .. Len(p) : n \in Same
  <2> HIDE DEF Same
  <2>1. QED
    BY <1>1, <1>3, <1>4, InductionUpTo
<1>6. MeaningOf(q)[Len(p) + 1] = Advance(MeaningOf(p)[Len(p)], e, Len(p) + 1,
                                         Literally(p, Len(p) + 1))
  <2>1. /\ Len(p) + 1 \in 1 .. Len(q) /\ (Len(p) + 1) - 1 = Len(p) /\ Len(p) \in 0 .. Len(p)
        /\ Len(p) + 1 \in 1 .. Len(p) + 1
    BY <1>1
  <2>2. MeaningOf(q)[Len(p) + 1] =
           Advance(MeaningOf(q)[Len(p)], q[Len(p) + 1], Len(p) + 1, Literally(q, Len(p) + 1))
    <3>1. Len(q) \in Nat
      BY <1>1
    <3>2. \A n \in 1 .. Len(q) :
             MeaningOf(q)[n] = Advance(MeaningOf(q)[n - 1], q[n], n, Literally(q, n))
      BY <3>1, MeaningUnfolds
    <3>3. QED
      BY <2>1, <3>2
  <2>3. MeaningOf(q)[Len(p)] = MeaningOf(p)[Len(p)]
    BY <1>5, <2>1
  <2>4. QED
    BY <1>1, <1>2, <2>1, <2>2, <2>3
<1>7. QED
  BY <1>5, <1>6 DEF q

-----------------------------------------------------------------------------
\* Types, cells and moves

P == Len(Package)
Q == Len(Parameters)

\* What the assumptions say of the lengths and types of the lists.
LEMMA Lists ==
    /\ P \in Nat /\ Q \in Nat /\ Locals \in Nat /\ MaxLen \in Nat /\ MaxNodes \in Nat
    /\ \A v \in 1 .. P : Offset[v] \in Nat \ {0}
    /\ \A v \in 1 .. P : Package[v] \in Named
    /\ \A v \in 1 .. Q : Parameters[v] \in Named
<1>1. Package \in Seq(Named) /\ Parameters \in Seq(Named)
  BY ValuesAssumption DEF ValuesAssumption
<1>2. QED
  BY <1>1, ValuesAssumption DEF ValuesAssumption, P, Q

\* The type of an array tells the type of its elements.
LEMMA ArrayFacts ==
    /\ ArrayTypes = {"Array<Int>", "Array<Double>", "Array<Boolean>", "Array<String>"}
    /\ \A t \in Named : ArrayOf[t] \in ArrayTypes /\ ElementOf(ArrayOf[t]) = t
    /\ \A t \in ArrayTypes : ElementOf(t) \in Named /\ ArrayOf[ElementOf(t)] = t
<1>1. /\ ArrayOf["Int"] = "Array<Int>" /\ ArrayOf["Double"] = "Array<Double>"
      /\ ArrayOf["Boolean"] = "Array<Boolean>" /\ ArrayOf["String"] = "Array<String>"
  BY DEF ArrayOf
<1>2. ArrayTypes = {"Array<Int>", "Array<Double>", "Array<Boolean>", "Array<String>"}
  BY <1>1 DEF ArrayTypes, Named
<1>3. \A t, u \in Named : ArrayOf[t] = ArrayOf[u] => t = u
  BY <1>1 DEF Named
<1>4. \A t \in Named : ArrayOf[t] \in ArrayTypes
  BY DEF ArrayTypes
<1>5. \A t \in ArrayTypes : ElementOf(t) \in Named /\ ArrayOf[ElementOf(t)] = t
  BY DEF ArrayTypes, ElementOf
<1>6. QED
  BY <1>2, <1>3, <1>4, <1>5

\* Every variable has a slot, and only those of the package one of a temporary.
LEMMA SlotFacts ==
    /\ \A v \in Variable : Slot(v) \in Slots
    /\ \A v \in Variable : v > P => Slot(v) = v - P /\ Lasting(v)
<1>1. \A v \in Variable : v \in Int /\ 1 <= v /\ v <= P + Q + Locals
  BY Lists DEF Variable, P, Q
<1>2. \A v : Slot(v) = IF v <= P THEN Offset[v] ELSE v - P
  BY DEF Slot, P
<1>3. Slots = (1 .. Q + Locals) \cup {Offset[i] : i \in 1 .. P}
  BY DEF Slots, P, Q
<1>4. \A v : Lasting(v) <=> Slot(v) <= Q + Locals
  BY DEF Lasting, Q
<1>5. QED
  BY <1>1, <1>2, <1>3, <1>4, Lists

\* A cell is two values.
LEMMA CellFacts ==
    /\ Garbage \in Value /\ Empty \in Cell
    /\ \A x \in Value : Whole(x) \in Cell /\ Whole(x).low = x /\ Whole(x).high = x
    /\ \A x \in Value, c \in Cell :
          Half(x, c) \in Cell /\ Half(x, c).low = x /\ Half(x, c).high = c.high
    /\ \A c \in Cell : c.low \in Value /\ c.high \in Value
<1>1. Garbage \in Value
  BY Lists DEF Garbage, Value, Q
<1>2. QED
  BY <1>1 DEF Empty, Whole, Half, Cell

\* A move leaves a cell, whose upper half is the old one unless 8 bytes are moved.
LEMMA MovedFacts ==
    ASSUME NEW t, NEW node \in Node, NEW old \in Cell
    PROVE  /\ Moved(t, node, old) \in Cell
           /\ t \notin {"Double", "String"} => Moved(t, node, old).high = old.high
<1> DEFINE cell == IF node.label /\ t # "String" THEN Empty ELSE node.cell
<1>1. cell \in Cell
  BY CellFacts DEF Node
<1>2. Moved(t, node, old) = IF t \in {"Double", "String"} THEN cell ELSE Half(cell.low, old)
  BY DEF Moved
<1> HIDE DEF cell
<1>3. QED
  BY <1>1, <1>2, CellFacts

\* What an instruction reads is a value, and a pointer is read only whole.
LEMMA ReadsFacts ==
    ASSUME NEW cell \in Cell, NEW w
    PROVE  /\ Reads(cell, w) \in Value
           /\ Reads(cell, w) # Garbage =>
                 /\ Reads(cell, w) = cell.low
                 /\ Represented(cell.low) = w
                 /\ w # "int" => cell.low = cell.high
  BY CellFacts DEF Reads

\* So is an operand.
LEMMA OperandFacts ==
    ASSUME NEW node \in Node, NEW w
    PROVE  Operand(node, w) \in Value
<1>1. node.cell \in Cell
  BY DEF Node
<1>2. QED
  BY <1>1, ReadsFacts, CellFacts DEF Operand

-----------------------------------------------------------------------------
\* The operands and results of a step

\* Reading takes one event, and there is room for it.
LEMMA ReadingFacts ==
    ASSUME TypeOK, NEW e \in Event, Reading(e)
    PROVE  /\ prog' \in Seq(Event) /\ Len(prog') = Len(prog) + 1 /\ Len(prog') <= MaxLen
           /\ Here \in 1 .. MaxLen /\ Here = Len(prog) + 1 /\ prog' = Append(prog, e)
           /\ Len(prog) \in Nat /\ verdict = "accepted"
           /\ e.kind \in {"declare", "array"} => Len(entries) < P + Q + Locals
<1>1. prog \in Seq(Event) /\ Len(prog) \in Nat
  BY DEF TypeOK
<1>2. /\ prog' = Append(prog, e) /\ Here <= MaxLen /\ verdict = "accepted"
      /\ e.kind \in {"declare", "array"} => Len(entries) < P + Q + Locals
  BY DEF Reading, P, Q
<1>3. QED
  BY <1>1, <1>2, Lists DEF Here

\* What is on the stack after n operands have given way to one.
Pushed(n, node) ==
    /\ nodes' \in Seq(Node)
    /\ Len(nodes') = Len(nodes) - n + 1
    /\ nodes'[Len(nodes) - n + 1] = node
    /\ \A i \in 1 .. Len(nodes) - n : nodes'[i] = nodes[i]

\* Push does that.
LEMMA PushFacts ==
    ASSUME TypeOK, NEW n \in 0 .. Len(nodes), NEW node \in Node, Push(n, node)
    PROVE  Pushed(n, node)
<1>1. nodes \in Seq(Node) /\ Len(nodes) \in Nat
  BY DEF TypeOK
<1>2. PICK rest : rest = SubSeq(nodes, 1, Len(nodes) - n)
  OBVIOUS
<1>3. /\ rest \in Seq(Node) /\ Len(rest) = Len(nodes) - n
      /\ \A i \in 1 .. Len(nodes) - n : rest[i] = nodes[i]
  BY <1>1, <1>2
<1>4. nodes' = Append(rest, node)
  BY <1>2 DEF Push, Without
<1>5. QED
  BY <1>3, <1>4 DEF Pushed

Done == [at : 1 .. MaxLen, got : Seq(Value)]

\* Got notes what this event got.
LEMMA GotFacts ==
    ASSUME TypeOK, Here \in 1 .. MaxLen, NEW values \in Seq(Value), Got(values)
    PROVE  /\ done' \in Seq(Done) /\ Len(done') = Len(done) + 1
           /\ done'[Len(done) + 1] = [at |-> Here, got |-> values]
           /\ \A k \in 1 .. Len(done) : done'[k] = done[k]
<1>1. done \in Seq(Done)
  BY DEF TypeOK, Done
<1>2. [at |-> Here, got |-> values] \in Done
  BY DEF Done
<1>3. PICK new \in Done : new = [at |-> Here, got |-> values]
  BY <1>2
<1>4. done' = Append(done, new)
  BY <1>3 DEF Got
<1>5. QED
  BY <1>1, <1>3, <1>4

-----------------------------------------------------------------------------
\* Type correctness

\* What types alone do not say: the variables of the function have a slot each, and
\* the parser knows of no array.
Roomy == P + Q <= Len(entries) /\ Len(entries) <= P + Q + Locals

Parsed == \A i \in DOMAIN nodes : nodes[i].parse \notin ArrayTypes

Shape == Roomy /\ Parsed

\* The frame after a cell was written to variable v.
WrittenTo(v, cell) ==
    /\ frame' \in [Slots -> Cell]
    /\ frame'[Slot(v)] = cell
    /\ \A s \in Slots : s # Slot(v) => frame'[s] = frame[s]

\* The variables in scope, and the next one, are variables.
LEMMA VariableFacts ==
    ASSUME TypeOK, Roomy
    PROVE  /\ \A v \in DOMAIN entries : v \in Variable /\ v \in Nat
           /\ Len(entries) < P + Q + Locals => Len(entries) + 1 \in Variable
           /\ Len(entries) \in Nat /\ Len(prog) \in Nat /\ DOMAIN entries = 1 .. Len(entries)
<1>1. /\ Len(entries) \in Nat /\ Len(prog) \in Nat /\ Len(prog) <= MaxLen
      /\ DOMAIN entries = 1 .. Len(entries)
  BY DEF TypeOK
<1>2. Variable = 1 .. P + Q + Locals
  BY DEF Variable, P, Q
<1>3. QED
  BY <1>1, <1>2, Lists DEF Roomy

\* EXCEPT writes to a variable's cell.
LEMMA WriteFacts ==
    ASSUME TypeOK, NEW v \in Variable, NEW cell \in Cell,
           frame' = [frame EXCEPT ![Slot(v)] = cell]
    PROVE  WrittenTo(v, cell)
  BY SlotFacts DEF TypeOK, WrittenTo

\* What a variable's slot holds when it is read.
LEMMA ContentsFacts ==
    ASSUME TypeOK, NEW v \in Variable
    PROVE  /\ Contents(v) \subseteq Cell
           /\ Lasting(v) => Contents(v) = {frame[Slot(v)]}
  BY SlotFacts, CellFacts DEF TypeOK, Contents

\* A step that leaves the variables alone.
LEMMA UndisturbedShape ==
    ASSUME Shape, UNCHANGED entries
    PROVE  Roomy'
  BY DEF Shape, Roomy, P, Q

\* A step that declares a variable.
LEMMA DeclaredShape ==
    ASSUME TypeOK, Shape, Len(entries) < P + Q + Locals,
           NEW t \in Type, entries' = Append(entries, t)
    PROVE  Roomy' /\ entries' \in Seq(Type)
<1>1. entries' \in Seq(Type) /\ Len(entries') = Len(entries) + 1 /\ Len(entries) \in Nat
  BY DEF TypeOK
<1>2. QED
  BY <1>1, Lists DEF Shape, Roomy, P, Q

\* The events of the actions are events.
LEMMA EventFacts ==
    /\ \A t \in Literals : [kind |-> "literal", type |-> t] \in Event
    /\ \A v \in Variable, k \in {"name", "assign", "increment", "element", "store"} :
          [kind |-> k, var |-> v] \in Event
    /\ \A op \in Operators : [kind |-> "operator", op |-> op] \in Event
    /\ \A f \in DOMAIN Signature : [kind |-> "call", f |-> f] \in Event
    /\ \A t \in Declared : [kind |-> "declare", type |-> t] \in Event
    /\ \A t \in Elements : [kind |-> "array", type |-> t] \in Event
    /\ [kind |-> "println"] \in Event
  BY DEF Event

\* A signature has parameters and a result.
LEMMA SignatureFacts ==
    ASSUME NEW f \in DOMAIN Signature
    PROVE  /\ Signature[f].params \in Seq(Named) /\ Signature[f].result \in Named
           /\ Signature[f].math \in BOOLEAN
           /\ Arity(f) \in Nat /\ Arity(f) >= 1 /\ DOMAIN Signature[f].params = 1 .. Arity(f)
           /\ Signature[f].math => \A i \in 1 .. Arity(f) : Signature[f].params[i] = "Double"
<1>1. Signature[f] \in [params : Seq(Named), result : Named, math : BOOLEAN]
  BY ValuesAssumption DEF ValuesAssumption
<1>2. Signature[f].params # <<>>
  BY ValuesAssumption DEF ValuesAssumption
<1>3. PICK params \in Seq(Named) : params = Signature[f].params
  BY <1>1
<1>4. Len(params) \in Nat /\ Len(params) >= 1 /\ DOMAIN params = 1 .. Len(params)
  BY <1>2, <1>3
<1>5. Signature[f].math => \A i \in DOMAIN Signature[f].params : Signature[f].params[i] = "Double"
  BY ValuesAssumption DEF ValuesAssumption
<1>6. QED
  BY <1>1, <1>3, <1>4, <1>5 DEF Arity

\* A stack with one operand more, or less some.
LEMMA PushTyped ==
    ASSUME TypeOK, Shape, NEW n \in 0 .. Len(nodes), Len(nodes) - n + 1 <= MaxNodes,
           NEW node \in Node, node.parse \notin ArrayTypes, Push(n, node)
    PROVE  nodes' \in Seq(Node) /\ Len(nodes') <= MaxNodes /\ Parsed'
<1>1. Pushed(n, node)
  BY PushFacts
<1>2. nodes' \in Seq(Node) /\ Len(nodes') = Len(nodes) - n + 1 /\ Len(nodes) \in Nat
      /\ DOMAIN nodes' = 1 .. Len(nodes) - n + 1 /\ DOMAIN nodes = 1 .. Len(nodes)
  BY <1>1 DEF Pushed, TypeOK
<1>3. ASSUME NEW i \in DOMAIN nodes' PROVE nodes'[i].parse \notin ArrayTypes
  <2>1. CASE i = Len(nodes) - n + 1
    BY <1>1, <2>1 DEF Pushed
  <2>2. CASE i \in 1 .. Len(nodes) - n
    BY <1>1, <1>2, <2>2 DEF Pushed, Shape, Parsed
  <2>3. QED
    BY <1>2, <2>1, <2>2
<1>4. QED
  BY <1>2, <1>3 DEF Parsed

\* A statement leaves none.
LEMMA EmptyTyped ==
    ASSUME nodes' = <<>>
    PROVE  nodes' \in Seq(Node) /\ Len(nodes') <= MaxNodes /\ Parsed'
  BY Lists DEF Parsed

\* The note of how a value is represented.
LEMMA RepresentsTyped ==
    ASSUME TypeOK, NEW w \in Width, Represents(w)
    PROVE  made' \in Seq(Width) /\ Len(made') = Len(made) + 1 /\ made'[Len(made) + 1] = w
           /\ \A n \in 1 .. Len(made) : made'[n] = made[n]
  BY DEF TypeOK, Represents

\* WidthOf is one of the widths.
LEMMA WidthFacts == \A t : WidthOf(t) \in Width /\ WidthOf(t) \in {"double", "pointer", "int"}
  BY DEF WidthOf, Width

\* An operand of the stack, and its cell.
LEMMA NodeFacts ==
    ASSUME TypeOK, NEW i \in 1 .. Len(nodes)
    PROVE  /\ nodes[i] \in Node /\ nodes[i].cell \in Cell /\ nodes[i].label \in BOOLEAN
           /\ nodes[i].gen \in Type /\ nodes[i].type \in Type
           /\ nodes[i].parse \in Type \cup {Unset}
<1>1. nodes[i] \in Node
  BY DEF TypeOK
<1>2. QED
  BY <1>1 DEF Node

\* What an array's cell points to, as a value.
LEMMA PointerFacts ==
    ASSUME TypeOK, NEW v \in Variable
    PROVE  Pointer(v) \in Value
<1>1. frame[Slot(v)] \in Cell
  BY SlotFacts DEF TypeOK
<1>2. QED
  BY <1>1, ReadsFacts DEF Pointer

\* An array is the event that made it.
LEMMA ArrayMade ==
    ASSUME TypeOK, NEW a \in Value, IsArray(a)
    PROVE  a # Garbage
  BY Lists DEF IsArray, Garbage, Value, Q

-----------------------------------------------------------------------------
\* One lemma per action

\* A literal.
LEMMA LiteralTyped ==
    ASSUME TypeOK, Shape, NEW t \in Literals, Literal(t)
    PROVE  TypeOK' /\ Shape'
<1> DEFINE e == [kind |-> "literal", type |-> t]
           node == [parse |-> t, type |-> t, gen |-> t, label |-> t = "String",
                    cell |-> IF WidthOf(t) = "int" THEN Half(Here, Empty) ELSE Whole(Here)]
<1>1. /\ Reading(e) /\ UNCHANGED <<verdict, heap, entries, frame, done>>
      /\ Push(0, node) /\ Represents(WidthOf(t)) /\ Len(nodes) < MaxNodes
  BY DEF Literal, Runs, Accepted, Reading
<1>2. /\ prog' \in Seq(Event) /\ Len(prog') = Len(prog) + 1 /\ Len(prog') <= MaxLen
      /\ Here \in 1 .. MaxLen
  BY <1>1, EventFacts, ReadingFacts
<1>3. Here \in Value /\ t \in Named
  BY <1>2, Lists, ValuesAssumption DEF Value, Q, ValuesAssumption
<1>4. node \in Node /\ node.parse \notin ArrayTypes
  BY <1>3, CellFacts, ArrayFacts DEF Node, Type, Named
<1> HIDE DEF node, e
<1>5. nodes' \in Seq(Node) /\ Len(nodes') <= MaxNodes /\ Parsed'
  <2>1. Len(nodes) \in Nat
    BY DEF TypeOK
  <2>2. 0 \in 0 .. Len(nodes) /\ Len(nodes) - 0 + 1 <= MaxNodes
    BY <1>1, <2>1, Lists
  <2>3. QED
    BY <1>1, <1>4, <2>2, PushTyped
<1>6. made' \in Seq(Width)
  BY <1>1, WidthFacts, RepresentsTyped
<1>7. Roomy'
  BY <1>1, UndisturbedShape
<1>8. QED
  BY <1>1, <1>2, <1>5, <1>6, <1>7 DEF TypeOK, Shape

\* A name.
LEMMA NameTyped ==
    ASSUME TypeOK, Shape, NEW v \in Variable, Name(v)
    PROVE  TypeOK' /\ Shape'
<1> DEFINE e == [kind |-> "name", var |-> v]
           node(cell) == [parse |-> Unset, type |-> entries[v], gen |-> entries[v],
                          cell |-> cell, label |-> FALSE]
<1>1. /\ Reading(e) /\ UNCHANGED <<verdict, heap, entries, frame, done>>
      /\ \E cell \in Contents(v) : Push(0, node(cell))
      /\ Represents("none") /\ Len(nodes) < MaxNodes /\ v <= Len(entries)
  BY DEF Name, Runs, Accepted, Reading
<1> PICK cell \in Contents(v) : Push(0, node(cell))
  BY <1>1
<1>2. /\ prog' \in Seq(Event) /\ Len(prog') = Len(prog) + 1 /\ Len(prog') <= MaxLen
  BY <1>1, EventFacts, ReadingFacts
<1>3. v \in DOMAIN entries /\ entries[v] \in Type
  BY <1>1 DEF TypeOK, Variable
<1>4. node(cell) \in Node /\ node(cell).parse \notin ArrayTypes
  <2>1. cell \in Cell
    BY ContentsFacts
  <2>2. QED
    BY <1>3, <2>1, ArrayFacts DEF Node, Unset
<1> HIDE DEF node, e
<1>5. nodes' \in Seq(Node) /\ Len(nodes') <= MaxNodes /\ Parsed'
  <2>1. Len(nodes) \in Nat
    BY DEF TypeOK
  <2>2. 0 \in 0 .. Len(nodes) /\ Len(nodes) - 0 + 1 <= MaxNodes
    BY <1>1, <2>1, Lists
  <2>3. QED
    BY <1>1, <1>4, <2>2, PushTyped
<1>6. made' \in Seq(Width)
  BY <1>1, RepresentsTyped DEF Width
<1>7. Roomy'
  BY <1>1, UndisturbedShape
<1>8. QED
  BY <1>1, <1>2, <1>5, <1>6, <1>7 DEF TypeOK, Shape

\* An operator.
LEMMA OperatorTyped ==
    ASSUME TypeOK, Shape, NEW op \in Operators, Operator(op)
    PROVE  TypeOK' /\ Shape'
<1> DEFINE e == [kind |-> "operator", op |-> op]
           w == IF IsDouble(op) THEN "double" ELSE "int"
           nothing == op = "%" /\ IsDouble(op)
           node == [parse |-> ParseType(op), type |-> CheckedType(op),
                    gen |-> GeneratedType(op), label |-> FALSE,
                    cell |-> IF nothing THEN Empty
                             ELSE IF w = "double" THEN Whole(Here) ELSE Half(Here, Empty)]
           values == <<Operand(Left, w), Operand(Top, w)>>
<1>1. /\ Reading(e) /\ UNCHANGED <<verdict, heap, entries, frame>>
      /\ Push(2, node) /\ Represents(w) /\ 2 <= Len(nodes)
      /\ UNCHANGED done \/ Got(values)
  BY DEF Operator, Runs, Accepted, Reading, Needs
<1>2. /\ prog' \in Seq(Event) /\ Len(prog') = Len(prog) + 1 /\ Len(prog') <= MaxLen
      /\ Here \in 1 .. MaxLen
  BY <1>1, EventFacts, ReadingFacts
<1>3. Here \in Value
  BY <1>2, Lists DEF Value, Q
<1>4. Len(nodes) \in 1 .. Len(nodes) /\ Len(nodes) - 1 \in 1 .. Len(nodes) /\ Len(nodes) \in Nat
      /\ 2 \in 0 .. Len(nodes) /\ Len(nodes) - 2 + 1 <= MaxNodes
  <2>1. Len(nodes) \in Nat /\ Len(nodes) <= MaxNodes
    BY DEF TypeOK
  <2>2. QED
    BY <1>1, <2>1, Lists
<1>5. /\ Left \in Node /\ Top \in Node /\ Left.parse \in Type \cup {Unset}
      /\ Left.parse \notin ArrayTypes
  BY <1>4, NodeFacts DEF Left, Top, Shape, Parsed
<1>6. ParseType(op) \in Type \cup {Unset} /\ ParseType(op) \notin ArrayTypes
  <2>1. ParseType(op) \in {Left.parse, "Double", "Boolean", Unset}
    BY DEF ParseType
  <2>2. QED
    BY <1>5, <2>1, ArrayFacts DEF Type, Named, Unset
<1>7. CheckedType(op) \in Type /\ GeneratedType(op) \in Type
  <2>1. CheckedType(op) \in {"Boolean", "String", "Int", "Double"}
    BY DEF CheckedType
  <2>2. GeneratedType(op) \in {"Boolean", "Double", "Int"}
    BY DEF GeneratedType
  <2>3. QED
    BY <2>1, <2>2 DEF Type, Named
<1>8. node \in Node /\ node.parse \notin ArrayTypes
  BY <1>3, <1>6, <1>7, CellFacts DEF Node
<1>9. values \in Seq(Value)
  <2>1. Operand(Left, w) \in Value /\ Operand(Top, w) \in Value
    BY <1>5, OperandFacts
  <2>2. QED
    BY <2>1
<1>10. w \in Width
  BY DEF Width
<1> HIDE DEF node, e, values, w
<1>11. nodes' \in Seq(Node) /\ Len(nodes') <= MaxNodes /\ Parsed'
  BY <1>1, <1>4, <1>8, PushTyped
<1>12. made' \in Seq(Width)
  BY <1>1, <1>10, RepresentsTyped
<1>13. done' \in Seq(Done)
  <2>1. CASE Got(values)
    BY <1>2, <1>9, <2>1, GotFacts
  <2>2. CASE UNCHANGED done
    BY <2>2 DEF TypeOK, Done
  <2>3. QED
    BY <1>1, <2>1, <2>2
<1>14. Roomy'
  BY <1>1, <1>2, UndisturbedShape
<1>15. QED
  BY <1>1, <1>2, <1>11, <1>12, <1>13, <1>14 DEF TypeOK, Shape, Done

\* A call.
LEMMA CallTyped ==
    ASSUME TypeOK, Shape, NEW f \in DOMAIN Signature, Call(f)
    PROVE  TypeOK' /\ Shape'
<1> DEFINE e == [kind |-> "call", f |-> f]
           sig == Signature[f]
           gets == [i \in 1 .. Arity(f) |->
                       IF sig.math THEN Operand(Argument(f, i), "double")
                       ELSE Passed(Argument(f, i), sig.params[i])]
           node == [parse |-> Unset, type |-> sig.result, gen |-> sig.result, label |-> FALSE,
                    cell |-> IF sig.result = "Double" THEN Whole(Here) ELSE Half(Here, Empty)]
<1>1. /\ Reading(e) /\ UNCHANGED <<verdict, heap, entries, frame>>
      /\ Push(Arity(f), node) /\ Represents(WidthOf(sig.result)) /\ Len(nodes) = Arity(f)
      /\ Got(gets)
  BY DEF Call, Runs, Accepted, Reading
<1>2. /\ prog' \in Seq(Event) /\ Len(prog') = Len(prog) + 1 /\ Len(prog') <= MaxLen
      /\ Here \in 1 .. MaxLen
  BY <1>1, EventFacts, ReadingFacts
<1>3. Here \in Value
  BY <1>2, Lists DEF Value, Q
<1>4. /\ sig.result \in Named /\ Arity(f) \in Nat /\ Arity(f) >= 1
      /\ Len(nodes) <= MaxNodes
  BY SignatureFacts DEF TypeOK
<1>5. node \in Node /\ node.parse \notin ArrayTypes
  BY <1>3, <1>4, CellFacts, ArrayFacts DEF Node, Type, Unset
<1>6. gets \in Seq(Value)
  <2>1. ASSUME NEW i \in 1 .. Arity(f) PROVE gets[i] \in Value
    <3>1. Argument(f, i) \in Node
      <4>1. Len(nodes) - Arity(f) + i = i /\ i \in 1 .. Len(nodes)
        BY <1>1, <1>4
      <4>2. QED
        BY <4>1, NodeFacts DEF Argument
    <3>2. Operand(Argument(f, i), "double") \in Value /\ Passed(Argument(f, i), sig.params[i]) \in Value
      BY <3>1, OperandFacts, CellFacts DEF Passed
    <3>3. QED
      BY <3>2
  <2>2. gets \in [1 .. Arity(f) -> Value]
    BY <2>1
  <2>3. QED
    BY <1>4, <2>2
<1> HIDE DEF node, e, gets
<1>7. nodes' \in Seq(Node) /\ Len(nodes') <= MaxNodes /\ Parsed'
  <2>1. Arity(f) \in 0 .. Len(nodes) /\ Len(nodes) - Arity(f) + 1 <= MaxNodes
    BY <1>1, <1>4, Lists
  <2>2. QED
    BY <1>1, <1>5, <2>1, PushTyped
<1>8. made' \in Seq(Width)
  BY <1>1, WidthFacts, RepresentsTyped
<1>9. done' \in Seq(Done)
  BY <1>1, <1>2, <1>6, GotFacts
<1>10. Roomy'
  BY <1>1, <1>2, UndisturbedShape
<1>11. QED
  BY <1>1, <1>2, <1>7, <1>8, <1>9, <1>10 DEF TypeOK, Shape, Done

\* The topmost operand.
LEMMA TopFacts ==
    ASSUME TypeOK, Len(nodes) >= 1
    PROVE  Top \in Node /\ Top.type \in Type /\ Top.parse \in Type \cup {Unset}
           /\ Len(nodes) \in 1 .. Len(nodes)
<1>1. Len(nodes) \in 1 .. Len(nodes)
  BY DEF TypeOK
<1>2. QED
  BY <1>1, NodeFacts DEF Top

\* println.
LEMMA PrintlnTyped ==
    ASSUME TypeOK, Shape, Println
    PROVE  TypeOK' /\ Shape'
<1> DEFINE e == [kind |-> "println"]
           value == Operand(Top, Class(Top))
<1>1. /\ Reading(e) /\ UNCHANGED <<verdict, heap, entries, frame>>
      /\ nodes' = <<>> /\ Represents("none") /\ Got(<<value>>) /\ Needs(e) <= Len(nodes)
  BY DEF Println, Runs, Accepted, Reading
<1>2. /\ prog' \in Seq(Event) /\ Len(prog') = Len(prog) + 1 /\ Len(prog') <= MaxLen
      /\ Here \in 1 .. MaxLen
  BY <1>1, EventFacts, ReadingFacts
<1>3. value \in Value
  <2>1. 1 <= Len(nodes)
    BY <1>1 DEF Needs
  <2>2. QED
    BY <2>1, TopFacts, OperandFacts
<1> HIDE DEF e, value
<1>4. done' \in Seq(Done)
  <2>1. <<value>> \in Seq(Value)
    BY <1>3
  <2>2. QED
    BY <1>1, <1>2, <2>1, GotFacts
<1>5. made' \in Seq(Width)
  BY <1>1, RepresentsTyped DEF Width
<1>6. nodes' \in Seq(Node) /\ Len(nodes') <= MaxNodes /\ Parsed'
  BY <1>1, EmptyTyped
<1>7. Roomy'
  BY <1>1, UndisturbedShape
<1>8. QED
  BY <1>1, <1>2, <1>4, <1>5, <1>6, <1>7 DEF TypeOK, Shape, Done

\* The cell of a new variable.
LEMMA NewFacts ==
    ASSUME TypeOK, Shape, Len(entries) < P + Q + Locals
    PROVE  /\ Len(entries) + 1 \in Variable /\ Slot(Len(entries) + 1) \in Slots
           /\ Len(entries) + 1 > P + Q /\ Len(entries) + 1 > P /\ Lasting(Len(entries) + 1)
           /\ frame[Slot(Len(entries) + 1)] \in Cell
<1> DEFINE new == Len(entries) + 1
<1>1. new \in Variable /\ Len(entries) \in Nat
  BY VariableFacts DEF Shape
<1>2. new > P + Q /\ new > P
  BY <1>1, Lists DEF Shape, Roomy
<1> HIDE DEF new
<1>3. Slot(new) \in Slots /\ Lasting(new)
  BY <1>1, <1>2, SlotFacts
<1>4. frame[Slot(new)] \in Cell
  BY <1>3 DEF TypeOK
<1>5. QED
  BY <1>1, <1>2, <1>3, <1>4 DEF new

\* A declaration with a type.
LEMMA DeclareTypedTyped ==
    ASSUME TypeOK, Shape, NEW t \in Declared, DeclareTyped(t)
    PROVE  TypeOK' /\ Shape'
<1> DEFINE e == [kind |-> "declare", type |-> t]
           new == Len(entries) + 1
           cell == Moved(t, Top, frame[Slot(new)])
<1>1. /\ Reading(e) /\ UNCHANGED <<verdict, heap, done>> /\ t # "inferred"
      /\ nodes' = <<>> /\ Represents("none") /\ entries' = Append(entries, t)
      /\ frame' = [frame EXCEPT ![Slot(new)] = Moved(t, Top, @)]
      /\ Needs(e) <= Len(nodes)
  BY DEF DeclareTyped, Declares, Runs, Accepted, Reading
<1>2. /\ prog' \in Seq(Event) /\ Len(prog') = Len(prog) + 1 /\ Len(prog') <= MaxLen
      /\ Len(entries) < P + Q + Locals
  <2>1. e \in Event /\ e.kind = "declare"
    BY EventFacts
  <2>2. QED
    BY <1>1, <2>1, ReadingFacts
<1>3. t \in Type /\ t \in Named \cup ArrayTypes
  BY <1>1, ValuesAssumption DEF ValuesAssumption, Type
<1>4. Top \in Node
  <2>1. 1 <= Len(nodes)
    BY <1>1 DEF Needs
  <2>2. QED
    BY <2>1, TopFacts
<1>5. new \in Variable /\ frame[Slot(new)] \in Cell
  BY <1>2, NewFacts
<1>6. cell \in Cell
  BY <1>4, <1>5, MovedFacts
<1>7. frame' = [frame EXCEPT ![Slot(new)] = cell]
  BY <1>1
<1> HIDE DEF e, cell
<1>8. WrittenTo(new, cell)
  BY <1>5, <1>6, <1>7, WriteFacts
<1>9. Roomy' /\ entries' \in Seq(Type)
  BY <1>1, <1>2, <1>3, DeclaredShape
<1>10. made' \in Seq(Width)
  BY <1>1, RepresentsTyped DEF Width
<1>11. nodes' \in Seq(Node) /\ Len(nodes') <= MaxNodes /\ Parsed'
  BY <1>1, EmptyTyped
<1>12. QED
  BY <1>1, <1>2, <1>8, <1>9, <1>10, <1>11 DEF TypeOK, Shape, WrittenTo

\* A declaration without a type, whose variable is no array: only names and
\* elements could give it one, and the parser does not know theirs.
LEMMA DeclareInferredTyped ==
    ASSUME TypeOK, Shape, "inferred" \in Declared, DeclareInferred
    PROVE  TypeOK' /\ Shape'
<1> DEFINE e == [kind |-> "declare", type |-> "inferred"]
           new == Len(entries) + 1
<1>1. /\ Reading(e) /\ UNCHANGED <<verdict, heap, done, frame>>
      /\ nodes' = <<>> /\ Represents("none") /\ entries' = Append(entries, InferredType)
      /\ Needs(e) <= Len(nodes)
  BY DEF DeclareInferred, Declares, Runs, Accepted, Reading
<1>2. /\ prog' \in Seq(Event) /\ Len(prog') = Len(prog) + 1 /\ Len(prog') <= MaxLen
      /\ Len(entries) < P + Q + Locals
  <2>1. e \in Event /\ e.kind = "declare"
    BY EventFacts
  <2>2. QED
    BY <1>1, <2>1, ReadingFacts
<1>3. InferredType \in Type /\ InferredType \notin ArrayTypes
  <2>1. 1 <= Len(nodes)
    BY <1>1 DEF Needs
  <2>2. Top.parse \in Type \cup {Unset} /\ Top.parse \notin ArrayTypes
    <3>1. Len(nodes) \in DOMAIN nodes
      BY <2>1 DEF TypeOK
    <3>2. QED
      BY <2>1, <3>1, TopFacts DEF Shape, Parsed, Top
  <2>3. QED
    BY <2>2, ArrayFacts DEF InferredType, Type
<1> HIDE DEF e
<1>6. Roomy' /\ entries' \in Seq(Type)
  <2>1. PICK t \in Type : t = InferredType
    BY <1>3
  <2>2. entries' = Append(entries, t)
    BY <1>1, <2>1
  <2>3. QED
    BY <1>2, <2>2, DeclaredShape
<1>7. made' \in Seq(Width)
  BY <1>1, RepresentsTyped DEF Width
<1>8. nodes' \in Seq(Node) /\ Len(nodes') <= MaxNodes /\ Parsed'
  BY <1>1, EmptyTyped
<1>9. QED
  BY <1>1, <1>2, <1>6, <1>7, <1>8 DEF TypeOK, Shape

\* An assignment.
LEMMA AssignTyped ==
    ASSUME TypeOK, Shape, NEW v \in Variable, Assign(v)
    PROVE  TypeOK' /\ Shape'
<1> DEFINE e == [kind |-> "assign", var |-> v]
           cell == Moved(entries[v], Top, frame[Slot(v)])
<1>1. /\ Reading(e) /\ UNCHANGED <<verdict, heap, entries, done>>
      /\ nodes' = <<>> /\ Represents("none")
      /\ frame' = [frame EXCEPT ![Slot(v)] = Moved(entries[v], Top, @)]
      /\ Needs(e) <= Len(nodes) /\ v <= Len(entries)
  BY DEF Assign, Runs, Accepted, Reading
<1>2. /\ prog' \in Seq(Event) /\ Len(prog') = Len(prog) + 1 /\ Len(prog') <= MaxLen
  BY <1>1, EventFacts, ReadingFacts
<1>3. Slot(v) \in Slots /\ frame[Slot(v)] \in Cell
  BY SlotFacts DEF TypeOK
<1>4. Top \in Node
  <2>1. 1 <= Len(nodes)
    BY <1>1 DEF Needs
  <2>2. QED
    BY <2>1, TopFacts
<1>5. cell \in Cell
  BY <1>3, <1>4, MovedFacts
<1>6. frame' = [frame EXCEPT ![Slot(v)] = cell]
  BY <1>1
<1> HIDE DEF e, cell
<1>7. WrittenTo(v, cell)
  BY <1>5, <1>6, WriteFacts
<1>8. Roomy'
  BY <1>1, UndisturbedShape
<1>9. made' \in Seq(Width)
  BY <1>1, RepresentsTyped DEF Width
<1>10. nodes' \in Seq(Node) /\ Len(nodes') <= MaxNodes /\ Parsed'
  BY <1>1, EmptyTyped
<1>11. QED
  BY <1>1, <1>2, <1>7, <1>8, <1>9, <1>10 DEF TypeOK, Shape, WrittenTo

\* An increment.
LEMMA IncrementTyped ==
    ASSUME TypeOK, Shape, NEW v \in Variable, Increment(v)
    PROVE  TypeOK' /\ Shape'
<1> DEFINE e == [kind |-> "increment", var |-> v]
<1>1. /\ Reading(e) /\ UNCHANGED <<verdict, heap, entries, nodes>>
      /\ Represents("int") /\ v <= Len(entries)
      /\ \E old \in Contents(v) :
            Got(<<Reads(old, "int")>>) /\ frame' = [frame EXCEPT ![Slot(v)] = Half(Here, old)]
  BY DEF Increment, Runs, Accepted, Reading
<1> PICK old \in Contents(v) :
            Got(<<Reads(old, "int")>>) /\ frame' = [frame EXCEPT ![Slot(v)] = Half(Here, old)]
  BY <1>1
<1> DEFINE cell == Half(Here, old)
           value == Reads(old, "int")
<1>2. /\ prog' \in Seq(Event) /\ Len(prog') = Len(prog) + 1 /\ Len(prog') <= MaxLen
      /\ Here \in 1 .. MaxLen
  BY <1>1, EventFacts, ReadingFacts
<1>3. old \in Cell
  BY ContentsFacts
<1>4. cell \in Cell
  <2>1. Here \in Value
    BY <1>2, Lists DEF Value, Q
  <2>2. QED
    BY <1>3, <2>1, CellFacts
<1>6. value \in Value
  BY <1>3, ReadsFacts
<1>7. frame' = [frame EXCEPT ![Slot(v)] = cell] /\ Got(<<value>>)
  OBVIOUS
<1> HIDE DEF e, cell, value
<1>8. WrittenTo(v, cell)
  BY <1>4, <1>7, WriteFacts
<1>9. Roomy'
  BY <1>1, UndisturbedShape
<1>10. made' \in Seq(Width)
  BY <1>1, RepresentsTyped DEF Width
<1>11. done' \in Seq(Done)
  <2>1. <<value>> \in Seq(Value)
    BY <1>6
  <2>2. QED
    BY <1>2, <1>7, <2>1, GotFacts
<1>12. QED
  BY <1>1, <1>2, <1>8, <1>9, <1>10, <1>11 DEF TypeOK, Shape, WrittenTo, Done, Parsed

\* The declaration of an array, whose cell gets all of a pointer.
LEMMA DeclareArrayTyped ==
    ASSUME TypeOK, Shape, NEW t \in Elements, DeclareArray(t)
    PROVE  TypeOK' /\ Shape'
<1> DEFINE e == [kind |-> "array", type |-> t]
           new == Len(entries) + 1
           value == Moved("Int", Top, Empty).low
<1>1. /\ Reading(e) /\ UNCHANGED <<verdict, done>>
      /\ nodes' = <<>> /\ Represents("pointer") /\ entries' = Append(entries, ArrayOf[t])
      /\ frame' = [frame EXCEPT ![Slot(new)] = Whole(Here)]
      /\ heap' = [heap EXCEPT ![Here] = value]
      /\ Needs(e) <= Len(nodes)
  BY DEF DeclareArray, Accepted, Reading
<1>2. /\ prog' \in Seq(Event) /\ Len(prog') = Len(prog) + 1 /\ Len(prog') <= MaxLen
      /\ Len(entries) < P + Q + Locals /\ Here \in 1 .. MaxLen
  <2>1. e \in Event /\ e.kind = "array"
    BY EventFacts
  <2>2. QED
    BY <1>1, <2>1, ReadingFacts
<1>3. ArrayOf[t] \in Type /\ ArrayOf[t] \in ArrayTypes
  BY ArrayFacts, ValuesAssumption DEF ValuesAssumption, Type
<1>4. value \in Value
  <2>1. 1 <= Len(nodes)
    BY <1>1 DEF Needs
  <2>2. Top \in Node
    BY <2>1, TopFacts
  <2>3. Moved("Int", Top, Empty) \in Cell
    BY <2>2, MovedFacts, CellFacts
  <2>4. QED
    BY <2>3, CellFacts
<1>5. new \in Variable
  BY <1>2, NewFacts
<1>6. Here \in Value /\ Whole(Here) \in Cell
  <2>1. Here \in Value
    BY <1>2, Lists DEF Value, Q
  <2>2. QED
    BY <2>1, CellFacts
<1> HIDE DEF e, value
<1>7. WrittenTo(new, Whole(Here))
  BY <1>1, <1>5, <1>6, WriteFacts
<1>8. Roomy' /\ entries' \in Seq(Type)
  <2>1. PICK type \in Type : type = ArrayOf[t]
    BY <1>3
  <2>2. entries' = Append(entries, type)
    BY <1>1, <2>1
  <2>3. QED
    BY <1>2, <2>2, DeclaredShape
<1>9. heap' \in [Value -> Value]
  BY <1>1, <1>4 DEF TypeOK
<1>10. made' \in Seq(Width)
  BY <1>1, RepresentsTyped DEF Width
<1>11. nodes' \in Seq(Node) /\ Len(nodes') <= MaxNodes /\ Parsed'
  BY <1>1, EmptyTyped
<1>12. QED
  BY <1>1, <1>2, <1>7, <1>8, <1>9, <1>10, <1>11 DEF TypeOK, Shape, WrittenTo

\* An access through a pointer that is no address.
LEMMA CrashTyped ==
    ASSUME TypeOK, Shape, NEW e \in Event, Crash(e)
    PROVE  TypeOK' /\ Shape'
<1>1. /\ Reading(e) /\ UNCHANGED <<entries, nodes, frame, heap, made>>
      /\ verdict' = "crashed" /\ Got(<<Garbage>>)
  BY DEF Crash, Accepted
<1>2. /\ prog' \in Seq(Event) /\ Len(prog') = Len(prog) + 1 /\ Len(prog') <= MaxLen
      /\ Here \in 1 .. MaxLen
  BY <1>1, ReadingFacts
<1>3. done' \in Seq(Done)
  <2>1. <<Garbage>> \in Seq(Value)
    BY CellFacts
  <2>2. QED
    BY <1>1, <1>2, <2>1, GotFacts
<1>4. Roomy'
  BY <1>1, <1>2, UndisturbedShape
<1>5. QED
  BY <1>1, <1>2, <1>3, <1>4 DEF TypeOK, Shape, Done, Parsed

\* A text the checker does not accept.
LEMMA RejectTyped ==
    ASSUME TypeOK, Shape, NEW e \in Event, Reject(e)
    PROVE  TypeOK' /\ Shape'
<1>1. /\ Reading(e) /\ UNCHANGED <<entries, nodes, frame, heap, made, done>>
      /\ verdict' = "rejected"
  BY DEF Reject
<1>2. /\ prog' \in Seq(Event) /\ Len(prog') = Len(prog) + 1 /\ Len(prog') <= MaxLen
  BY <1>1, ReadingFacts
<1>3. Roomy'
  BY <1>1, <1>2, UndisturbedShape
<1>4. QED
  BY <1>1, <1>2, <1>3 DEF TypeOK, Shape, Parsed

\* The element of an array.
LEMMA ElementTyped ==
    ASSUME TypeOK, Shape, NEW v \in Variable, Element(v)
    PROVE  TypeOK' /\ Shape'
<1> DEFINE e == [kind |-> "element", var |-> v]
           node == [parse |-> "None", type |-> ElementOf(entries[v]),
                    gen |-> ElementOf(entries[v]),
                    cell |-> Half(heap[Pointer(v)], Empty), label |-> FALSE]
<1>1. /\ Reading(e) /\ UNCHANGED <<verdict, heap, entries, frame>> /\ Checks(e)
      /\ Push(0, node) /\ Represents("none") /\ Got(<<Pointer(v)>>) /\ Pointer(v) # Garbage
      /\ Len(nodes) < MaxNodes /\ v <= Len(entries)
  BY DEF Element, Runs, Accepted, Reading
<1>2. /\ prog' \in Seq(Event) /\ Len(prog') = Len(prog) + 1 /\ Len(prog') <= MaxLen
      /\ Here \in 1 .. MaxLen
  BY <1>1, EventFacts, ReadingFacts
<1>3. v \in DOMAIN entries /\ entries[v] \in ArrayTypes
  BY <1>1 DEF TypeOK, Variable, Checks, ElementChecks
<1>4. Pointer(v) \in Value
  BY PointerFacts
<1>5. node \in Node /\ node.parse \notin ArrayTypes
  <2>1. ElementOf(entries[v]) \in Type
    BY <1>3, ArrayFacts DEF Type
  <2>2. Half(heap[Pointer(v)], Empty) \in Cell
    BY <1>4, CellFacts DEF TypeOK
  <2>3. "None" \in Type \cup {Unset} /\ "None" \notin ArrayTypes
    BY ArrayFacts DEF Type
  <2>4. QED
    BY <2>1, <2>2, <2>3 DEF Node
<1> HIDE DEF node, e
<1>6. nodes' \in Seq(Node) /\ Len(nodes') <= MaxNodes /\ Parsed'
  <2>1. Len(nodes) \in Nat
    BY DEF TypeOK
  <2>2. 0 \in 0 .. Len(nodes) /\ Len(nodes) - 0 + 1 <= MaxNodes
    BY <1>1, <2>1, Lists
  <2>3. QED
    BY <1>1, <1>5, <2>2, PushTyped
<1>7. made' \in Seq(Width)
  BY <1>1, RepresentsTyped DEF Width
<1>8. done' \in Seq(Done)
  <2>1. <<Pointer(v)>> \in Seq(Value)
    BY <1>4
  <2>2. QED
    BY <1>1, <1>2, <2>1, GotFacts
<1>9. Roomy'
  BY <1>1, <1>2, UndisturbedShape
<1>10. QED
  BY <1>1, <1>2, <1>6, <1>7, <1>8, <1>9 DEF TypeOK, Shape, Done

\* An assignment to one.
LEMMA StoreTyped ==
    ASSUME TypeOK, Shape, NEW v \in Variable, Store(v)
    PROVE  TypeOK' /\ Shape'
<1> DEFINE e == [kind |-> "store", var |-> v]
           value == Moved("Int", Top, Empty).low
<1>1. /\ Reading(e) /\ UNCHANGED <<verdict, entries, frame>> /\ Checks(e)
      /\ nodes' = <<>> /\ Represents("none") /\ Got(<<Pointer(v)>>)
      /\ heap' = [heap EXCEPT ![Pointer(v)] = value]
      /\ Needs(e) <= Len(nodes) /\ v <= Len(entries)
  BY DEF Store, Accepted, Reading
<1>2. /\ prog' \in Seq(Event) /\ Len(prog') = Len(prog) + 1 /\ Len(prog') <= MaxLen
      /\ Here \in 1 .. MaxLen
  BY <1>1, EventFacts, ReadingFacts
<1>3. v \in DOMAIN entries /\ entries[v] \in ArrayTypes
  BY <1>1 DEF TypeOK, Variable, Checks, StoreChecks, ElementChecks
<1>4. Pointer(v) \in Value
  BY PointerFacts
<1>5. value \in Value
  <2>1. 1 <= Len(nodes)
    BY <1>1 DEF Needs
  <2>2. Top \in Node
    BY <2>1, TopFacts
  <2>3. Moved("Int", Top, Empty) \in Cell
    BY <2>2, MovedFacts, CellFacts
  <2>4. QED
    BY <2>3, CellFacts
<1> HIDE DEF e, value
<1>6. heap' \in [Value -> Value]
  BY <1>1, <1>4, <1>5 DEF TypeOK
<1>7. made' \in Seq(Width)
  BY <1>1, RepresentsTyped DEF Width
<1>8. done' \in Seq(Done)
  <2>1. <<Pointer(v)>> \in Seq(Value)
    BY <1>4
  <2>2. QED
    BY <1>1, <1>2, <2>1, GotFacts
<1>9. nodes' \in Seq(Node) /\ Len(nodes') <= MaxNodes /\ Parsed'
  BY <1>1, EmptyTyped
<1>10. Roomy'
  BY <1>1, <1>2, UndisturbedShape
<1>11. QED
  BY <1>1, <1>2, <1>6, <1>7, <1>8, <1>9, <1>10 DEF TypeOK, Shape, Done

\* Before the first event, the parameters are in their cells.
LEMMA InitTyped == Init => TypeOK /\ Shape
<1> SUFFICES ASSUME Init PROVE TypeOK /\ Shape
  OBVIOUS
<1>1. /\ prog = <<>> /\ nodes = <<>> /\ made = <<>> /\ done = <<>> /\ verdict = "accepted"
      /\ entries = Package \o Parameters /\ heap = [a \in Value |-> Garbage]
      /\ frame = [s \in Slots |->
                    IF s > Q THEN Empty
                    ELSE IF WidthOf(Parameters[s]) = "int" THEN Half(-s, Empty) ELSE Whole(-s)]
  BY DEF Init, Q
<1>2. ASSUME NEW s \in Slots
      PROVE  frame[s] \in Cell
  <2>1. s \in Int /\ 1 <= s
    BY Lists DEF Slots, P, Q
  <2>2. s <= Q => -s \in Value
    BY <2>1, Lists DEF Value, Q
  <2>3. frame[s] = IF s > Q THEN Empty
                   ELSE IF WidthOf(Parameters[s]) = "int" THEN Half(-s, Empty) ELSE Whole(-s)
    BY <1>1
  <2>4. CASE s > Q
    BY <2>3, <2>4, CellFacts
  <2>5. CASE s <= Q
    BY <2>1, <2>2, <2>3, <2>5, Lists, CellFacts
  <2>6. QED
    BY <2>1, <2>4, <2>5, Lists
<1>3. /\ Package \in Seq(Named) /\ Parameters \in Seq(Named)
      /\ entries \in Seq(Named) /\ Len(entries) = P + Q /\ DOMAIN entries = 1 .. P + Q
      /\ \A v \in DOMAIN entries : entries[v] \in Named
  <2>1. Package \in Seq(Named) /\ Parameters \in Seq(Named)
    BY ValuesAssumption DEF ValuesAssumption
  <2>2. QED
    BY <1>1, <2>1 DEF P, Q
<1>4. frame \in [Slots -> Cell]
  <2>1. frame = [s \in Slots |-> frame[s]]
    BY <1>1
  <2>2. QED
    BY <1>2, <2>1
<1>5. heap \in [Value -> Value]
  BY <1>1, CellFacts
<1>6. entries \in Seq(Type)
  BY <1>3 DEF Type
<1>7. TypeOK
  BY <1>1, <1>4, <1>5, <1>6, Lists, SMTT(30) DEF TypeOK
<1>8. Roomy /\ Parsed
  BY <1>1, <1>3, Lists DEF Roomy, Parsed
<1>9. QED
  BY <1>7, <1>8 DEF Shape

\* Every step keeps the types.
LEMMA NextTyped == TypeOK /\ Shape /\ [Next]_vars => TypeOK' /\ Shape'
<1> SUFFICES ASSUME TypeOK, Shape, [Next]_vars PROVE TypeOK' /\ Shape'
  OBVIOUS
<1>1. CASE UNCHANGED vars
  BY <1>1 DEF TypeOK, Shape, Roomy, Parsed, P, Q, vars
<1>2. ASSUME NEW t \in Literals, Literal(t) PROVE TypeOK' /\ Shape'
  BY <1>2, LiteralTyped
<1>3. ASSUME NEW v \in Variable,
             Name(v) \/ Assign(v) \/ Increment(v) \/ Element(v) \/ Store(v)
      PROVE  TypeOK' /\ Shape'
  BY <1>3, NameTyped, AssignTyped, IncrementTyped, ElementTyped, StoreTyped
<1>4. ASSUME NEW op \in Operators, Operator(op) PROVE TypeOK' /\ Shape'
  BY <1>4, OperatorTyped
<1>5. ASSUME NEW f \in DOMAIN Signature, Call(f) PROVE TypeOK' /\ Shape'
  BY <1>5, CallTyped
<1>6. ASSUME NEW t \in Declared, DeclareTyped(t) PROVE TypeOK' /\ Shape'
  BY <1>6, DeclareTypedTyped
<1>7. ASSUME "inferred" \in Declared, DeclareInferred PROVE TypeOK' /\ Shape'
  BY <1>7, DeclareInferredTyped
<1>8. ASSUME NEW t \in Elements, DeclareArray(t) PROVE TypeOK' /\ Shape'
  BY <1>8, DeclareArrayTyped
<1>9. ASSUME Println PROVE TypeOK' /\ Shape'
  BY <1>9, PrintlnTyped
<1>10. ASSUME NEW e \in Event, Reject(e) \/ Crash(e) PROVE TypeOK' /\ Shape'
  BY <1>10, RejectTyped, CrashTyped
<1>11. ASSUME Stop PROVE UNCHANGED vars
  BY <1>11 DEF Stop
<1>12. QED
  BY <1>1, <1>2, <1>3, <1>4, <1>5, <1>6, <1>7, <1>8, <1>9, <1>10, <1>11 DEF Next

\* The types hold for every signature and every length of text, whatever slots the
\* package's variables have: each cell holds two values, and no operand is asked for
\* that is not there (codegen.c 444-451, 571-620).
THEOREM ValuesTyped == Spec => []TypeOK
<1>1. Spec => [](TypeOK /\ Shape)
  BY InitTyped, NextTyped, PTL DEF Spec
<1>2. QED
  BY <1>1, PTL

-----------------------------------------------------------------------------
\* What the text means and what the compiler has

Items == [type : Named \cup ArrayTypes, value : Value,
          known : BOOLEAN, sound : BOOLEAN, odd : BOOLEAN]

\* A value that is in a cell in full, for instructions of width w, when reps are the
\* representations of the values computed so far.
Stands(reps, cell, w, value) ==
    /\ value # Garbage /\ value <= Len(reps)
    /\ w = IF value < 0 THEN WidthOf(Parameters[-value]) ELSE reps[value]
    /\ cell.low = value
    /\ w # "int" => cell.high = value

\* A variable is odd when its type is not known, and whoever has an array knows it.
VariableAgrees(reps, x, type, cell) ==
    /\ x.odd = ~x.known
    /\ x.known => type = x.type
    /\ type \in ArrayTypes => x.known
    /\ x.sound => x.known /\ Stands(reps, cell, FullWidth(x.type), x.value)

\* The types of an operand, in the checker and in the generator.
OperandAgrees(reps, x, node) ==
    /\ x.known => node.gen = x.type
    /\ ~x.odd => node.type = x.type
    /\ x.sound => x.known /\ Stands(reps, node.cell, FullWidth(x.type), x.value)
    /\ node.label => x.type = "String"
    /\ x.type \in ArrayTypes => x.odd

\* The elements of an array have types, and room for 4 bytes.
ElementAgrees(reps, x, half) ==
    /\ x.type \in Named /\ x.known /\ ~x.odd
    /\ x.sound => x.type \in {"Int", "Boolean"} /\ Stands(reps, Half(half, Empty), "int", x.value)

\* A variable that points to an array has its elements' type.
PointsTo(x, elements) ==
    x.sound /\ x.type \in ArrayTypes =>
        x.value \in DOMAIN elements /\ x.type = ArrayOf[elements[x.value].type]

Fields == {"variables", "operands", "elements", "legal", "doubtful"}

VariablesAgree(reps, m, types, cells) ==
    /\ m.variables \in Seq(Items) /\ Len(m.variables) = Len(types)
    /\ \A v \in 1 .. Len(types) :
          /\ VariableAgrees(reps, m.variables[v], types[v], cells[Slot(v)])
          /\ PointsTo(m.variables[v], m.elements)
          /\ m.variables[v].sound => Lasting(v)

OperandsAgree(reps, m, stack) ==
    /\ m.operands \in Seq(Items) /\ Len(m.operands) = Len(stack)
    /\ \A i \in 1 .. Len(stack) : OperandAgrees(reps, m.operands[i], stack[i])

ElementsAgree(reps, m, halves) ==
    /\ DOMAIN m.elements \subseteq 1 .. Len(reps)
    /\ \A a \in DOMAIN m.elements :
          m.elements[a] \in Items /\ ElementAgrees(reps, m.elements[a], halves[a])

\* What has elements is an array.
ArraysAgree(m, p) == \A a \in DOMAIN m.elements : p[a].kind = "array"

\* The parser knows the type of what was just read when it is a literal.
LiteralAgrees(m, p, stack) ==
    Literally(p, Len(p) + 1) =>
        Len(stack) >= 1 /\ stack[Len(stack)].parse = m.operands[Len(stack)].type

Agrees ==
    /\ DOMAIN Now = Fields /\ Len(made) = Len(prog)
    /\ VariablesAgree(made, Now, entries, frame)
    /\ OperandsAgree(made, Now, nodes)
    /\ ElementsAgree(made, Now, heap)
    /\ ArraysAgree(Now, prog)
    /\ LiteralAgrees(Now, prog, nodes)

Understood ==
    /\ verdict = "accepted" => Agrees
    /\ ChecksExactly
    /\ OperandsArrive
    /\ \A k \in DOMAIN done : done[k].at <= Len(prog)

\* The fields of an item.
LEMMA ItemFacts ==
    ASSUME NEW t \in Named \cup ArrayTypes, NEW v \in Value,
           NEW known \in BOOLEAN, NEW sound \in BOOLEAN, NEW odd \in BOOLEAN
    PROVE  /\ Item(t, v, known, sound, odd) \in Items
           /\ Item(t, v, known, sound, odd).type = t
           /\ Item(t, v, known, sound, odd).value = v
           /\ Item(t, v, known, sound, odd).known = known
           /\ Item(t, v, known, sound, odd).sound = sound
           /\ Item(t, v, known, sound, odd).odd = odd
  BY DEF Item, Items

\* And of the items the steps change: a name read, a variable written, one whose
\* value is lost, and what is written when it is in the variable's slot.
Read(x) == [x EXCEPT !.odd = @ \/ x.type \in ArrayTypes]
Holding(x, value, sound) == [x EXCEPT !.value = value, !.sound = sound]
Unsound(x) == [x EXCEPT !.sound = FALSE]
Placed(x, v) == [x EXCEPT !.sound = @ /\ Lasting(v)]

\* The kinds of an item's fields.
LEMMA ChangedFacts ==
    ASSUME NEW x \in Items
    PROVE  /\ x.type \in Named \cup ArrayTypes /\ x.value \in Value
           /\ x.known \in BOOLEAN /\ x.sound \in BOOLEAN /\ x.odd \in BOOLEAN
  BY DEF Items

\* Reading a name changes only whether its type is odd.
LEMMA ReadFacts ==
    ASSUME NEW x \in Items
    PROVE  /\ Read(x) \in Items /\ Read(x).type = x.type /\ Read(x).value = x.value
           /\ Read(x).known = x.known /\ Read(x).sound = x.sound
           /\ Read(x).odd = (x.odd \/ x.type \in ArrayTypes)
  BY DEF Items, Read

\* Writing to a variable changes only its value and whether it is sound.
LEMMA HoldingFacts ==
    ASSUME NEW x \in Items, NEW v \in Value, NEW sound \in BOOLEAN
    PROVE  LET y == Holding(x, v, sound)
           IN  /\ y \in Items /\ y.type = x.type /\ y.value = v
               /\ y.known = x.known /\ y.sound = sound /\ y.odd = x.odd
  BY DEF Items, Holding

\* Losing a value changes only whether it is sound.
LEMMA UnsoundFacts ==
    ASSUME NEW x \in Items
    PROVE  /\ Unsound(x) \in Items /\ Unsound(x).type = x.type /\ Unsound(x).value = x.value
           /\ Unsound(x).known = x.known /\ Unsound(x).sound = FALSE /\ Unsound(x).odd = x.odd
  BY DEF Items, Unsound

\* Placing a value changes only whether it is sound.
LEMMA PlacedFacts ==
    ASSUME NEW x \in Items, NEW v
    PROVE  /\ Placed(x, v) \in Items /\ Placed(x, v).type = x.type
           /\ Placed(x, v).value = x.value /\ Placed(x, v).known = x.known
           /\ Placed(x, v).odd = x.odd
           /\ Placed(x, v).sound = (x.sound /\ Lasting(v))
<1>1. Lasting(v) \in BOOLEAN
  BY DEF Lasting
<1>2. QED
  BY <1>1 DEF Items, Placed

\* A value stays where it is when others are computed.
LEMMA StandsStays ==
    ASSUME NEW reps \in Seq(Width), NEW u \in Width, NEW cell, NEW w, NEW value \in Value,
           Stands(reps, cell, w, value)
    PROVE  Stands(Append(reps, u), cell, w, value)
<1>1. value \in Int
  BY Lists DEF Value, Q
<1>2. value > 0 => Append(reps, u)[value] = reps[value]
  BY <1>1 DEF Stands
<1>3. QED
  BY <1>1, <1>2 DEF Stands, Garbage

\* The value just computed.
LEMMA StandsNew ==
    ASSUME NEW reps \in Seq(Width), NEW w \in Width, NEW cell, NEW n, n = Len(reps) + 1,
           cell.low = n, w # "int" => cell.high = n
    PROVE  Stands(Append(reps, w), cell, w, n)
  BY DEF Stands, Garbage

\* What stands in a cell is what an instruction of that width reads.
LEMMA StandsRead ==
    ASSUME NEW cell, NEW w, NEW value \in Value, Stands(made, cell, w, value)
    PROVE  Reads(cell, w) = value /\ value # Garbage
<1>1. value \in Int
  BY Lists DEF Value, Q
<1>2. Represented(value) = w
  BY <1>1 DEF Stands, Represented, Garbage
<1>3. QED
  BY <1>2 DEF Stands, Reads

\* The width of a value of a type that is no array's.
LEMMA FullWidthFacts ==
    /\ \A t \in Named : FullWidth(t) = WidthOf(t) /\ t \notin ArrayTypes
    /\ \A t \in ArrayTypes : FullWidth(t) = "pointer" /\ WidthOf(t) = "int" /\ t \notin Named
    /\ WidthOf("Int") = "int" /\ WidthOf("Boolean") = "int"
    /\ WidthOf("Double") = "double" /\ WidthOf("String") = "pointer"
    /\ Named = {"Int", "Double", "Boolean", "String"}
<1>1. \A t \in Named : t \notin ArrayTypes
  BY ArrayFacts DEF Named
<1>2. QED
  BY <1>1, ArrayFacts DEF FullWidth, WidthOf, Named

-----------------------------------------------------------------------------
\* What each event adds to the meaning

\* An array added, its element changed, and all elements lost.
WithArray(elements, n, x) ==
    [a \in DOMAIN elements \cup {n} |-> IF a = n THEN x ELSE elements[a]]
WithElement(elements, a, x) == [elements EXCEPT ![a] = x]
AllUnsound(elements) == [a \in DOMAIN elements |-> Unsound(elements[a])]

\* What the text says of e after what b says, whether it is legal, and doubtful.
Says(b, e, n, lit, legal, doubtful) ==
    Advance(b, e, n, lit).legal = legal /\ Advance(b, e, n, lit).doubtful = doubtful

Odd(items) == \E item \in items : item.odd

\* The variables, operands and elements after e.
Becomes(m, variables, operands, elements) ==
    /\ DOMAIN m = Fields /\ m.variables = variables
    /\ m.operands = operands /\ m.elements = elements

\* Whether a literal is legal.
LEMMA SaysLiteral ==
    ASSUME NEW b, DOMAIN b = Fields, NEW e, e.kind = "literal", NEW n, NEW lit
    PROVE  Says(b, e, n, lit, TRUE, FALSE)
  BY DEF Advance, Fields, Says

\* A name.
LEMMA SaysName ==
    ASSUME NEW b, DOMAIN b = Fields, NEW e, e.kind = "name", NEW n, NEW lit
    PROVE  Says(b, e, n, lit, TRUE, FALSE)
  BY DEF Advance, Fields, Says

\* println.
LEMMA SaysPrintln ==
    ASSUME NEW b, DOMAIN b = Fields, NEW e, e.kind = "println", NEW n, NEW lit
    PROVE  Says(b, e, n, lit, TRUE, FALSE)
  BY DEF Advance, Fields, Says

\* An operator.
LEMMA SaysOperator ==
    ASSUME NEW b, DOMAIN b = Fields, NEW e, e.kind = "operator", NEW n, NEW lit
    PROVE  LET top == b.operands[Len(b.operands)]
               left == b.operands[Len(b.operands) - 1]
           IN  Says(b, e, n, lit, LegalOperands(e.op, left, top), left.odd \/ top.odd)
  BY DEF Advance, Fields, Says

\* A call.
LEMMA SaysCall ==
    ASSUME NEW b, DOMAIN b = Fields, NEW e, e.kind = "call", NEW n, NEW lit
    PROVE  LET k == Arity(e.f)
               sig == Signature[e.f]
           IN  Says(b, e, n, lit,
                    \A i \in 1 .. k :
                       Assignable(sig.params[i], b.operands[Len(b.operands) - k + i].type),
                    \E i \in Len(b.operands) - k + 1 .. Len(b.operands) : b.operands[i].odd)
  BY DEF Advance, Fields, Says

\* A declaration.
LEMMA SaysDeclare ==
    ASSUME NEW b, DOMAIN b = Fields, NEW e, e.kind = "declare", NEW n, NEW lit
    PROVE  LET top == b.operands[Len(b.operands)]
           IN  Says(b, e, n, lit, e.type # "inferred" => Assignable(e.type, top.type),
                    e.type # "inferred" /\ top.odd)
  BY DEF Advance, Fields, Says

\* An assignment.
LEMMA SaysAssign ==
    ASSUME NEW b, DOMAIN b = Fields, NEW e, e.kind = "assign", NEW n, NEW lit
    PROVE  LET x == b.variables[e.var]
               top == b.operands[Len(b.operands)]
           IN  Says(b, e, n, lit, Assignable(x.type, top.type), x.odd \/ top.odd)
  BY DEF Advance, Fields, Says

\* An increment.
LEMMA SaysIncrement ==
    ASSUME NEW b, DOMAIN b = Fields, NEW e, e.kind = "increment", NEW n, NEW lit
    PROVE  LET x == b.variables[e.var]
           IN  Says(b, e, n, lit, x.type \in Numbers, Odd({x}))
  BY DEF Advance, Fields, Says, Odd

\* The declaration of an array.
LEMMA SaysArray ==
    ASSUME NEW b, DOMAIN b = Fields, NEW e, e.kind = "array", NEW n, NEW lit
    PROVE  LET top == b.operands[Len(b.operands)]
           IN  Says(b, e, n, lit, Assignable(e.type, top.type),
                    top.odd \/ {e.type, top.type} = Numbers)
  BY DEF Advance, Fields, Says

\* The element of an array.
LEMMA SaysElement ==
    ASSUME NEW b, DOMAIN b = Fields, NEW e, e.kind = "element", NEW n, NEW lit
    PROVE  LET x == b.variables[e.var]
           IN  /\ x.type \in ArrayTypes => Says(b, e, n, lit, TRUE, x.odd)
               /\ x.type \notin ArrayTypes => Says(b, e, n, lit, FALSE, Odd({x}))
  BY DEF Advance, Fields, Says, Odd

\* An assignment to one.
LEMMA SaysStore ==
    ASSUME NEW b, DOMAIN b = Fields, NEW e, e.kind = "store", NEW n, NEW lit
    PROVE  LET x == b.variables[e.var]
               top == b.operands[Len(b.operands)]
           IN  /\ x.type \in ArrayTypes =>
                     Says(b, e, n, lit, Assignable(ElementOf(x.type), top.type),
                          x.odd \/ top.odd)
               /\ x.type \notin ArrayTypes => Says(b, e, n, lit, FALSE, Odd({x}))
  BY DEF Advance, Fields, Says, Odd

\* What a literal leaves.
LEMMA AdvanceLiteral ==
    ASSUME NEW b, DOMAIN b = Fields, NEW e, e.kind = "literal", NEW n, NEW lit
    PROVE  Becomes(Advance(b, e, n, lit), b.variables,
                  Append(b.operands, Item(e.type, n, TRUE, TRUE, FALSE)), b.elements)
  BY DEF Advance, Fields, Becomes

\* A name.
LEMMA AdvanceName ==
    ASSUME NEW b, DOMAIN b = Fields, NEW e, e.kind = "name", NEW n, NEW lit
    PROVE  Becomes(Advance(b, e, n, lit), b.variables,
                  Append(b.operands, Read(b.variables[e.var])), b.elements)
  BY DEF Advance, Fields, Becomes, Read

\* An operator.
LEMMA AdvanceOperator ==
    ASSUME NEW b, DOMAIN b = Fields, NEW e, e.kind = "operator", NEW n, NEW lit
    PROVE  LET top == b.operands[Len(b.operands)]
               left == b.operands[Len(b.operands) - 1]
           IN  Becomes(Advance(b, e, n, lit), b.variables,
                      Append(SubSeq(b.operands, 1, Len(b.operands) - 2), Result(e.op, left, top, n)),
                      b.elements)
  BY DEF Advance, Fields, Becomes

\* A call.
LEMMA AdvanceCall ==
    ASSUME NEW b, DOMAIN b = Fields, NEW e, e.kind = "call", NEW n, NEW lit
    PROVE  LET k == Arity(e.f)
               t == Signature[e.f].result
           IN  Becomes(Advance(b, e, n, lit), b.variables,
                      Append(SubSeq(b.operands, 1, Len(b.operands) - k),
                             Item(t, n, TRUE, t # "String", FALSE)),
                      b.elements)
  BY DEF Advance, Fields, Becomes

\* println.
LEMMA AdvancePrintln ==
    ASSUME NEW b, DOMAIN b = Fields, NEW e, e.kind = "println", NEW n, NEW lit
    PROVE  Becomes(Advance(b, e, n, lit), b.variables, <<>>, b.elements)
  BY DEF Advance, Fields, Becomes

\* A declaration.
LEMMA AdvanceDeclare ==
    ASSUME NEW b, DOMAIN b = Fields, NEW e, e.kind = "declare", NEW n, NEW lit
    PROVE  LET top == b.operands[Len(b.operands)]
               x == NewVariable(e, top, lit)
           IN  Becomes(Advance(b, e, n, lit),
                      IF e.type = "inferred" THEN Append(b.variables, x) ELSE Added(b.variables, x),
                      <<>>, b.elements)
  BY DEF Advance, Fields, Becomes

\* An assignment.
LEMMA AdvanceAssign ==
    ASSUME NEW b, DOMAIN b = Fields, NEW e, e.kind = "assign", NEW n, NEW lit
    PROVE  LET x == b.variables[e.var]
               top == b.operands[Len(b.operands)]
           IN  Becomes(Advance(b, e, n, lit),
                      Written(b.variables, e.var,
                              Holding(x, top.value, x.known /\ Moves(x.type, top))),
                      <<>>, b.elements)
  BY DEF Advance, Fields, Becomes, Holding

\* An increment.
LEMMA AdvanceIncrement ==
    ASSUME NEW b, DOMAIN b = Fields, NEW e, e.kind = "increment", NEW n, NEW lit
    PROVE  LET x == b.variables[e.var]
           IN  Becomes(Advance(b, e, n, lit),
                      Written(b.variables, e.var, Holding(x, n, x.known /\ x.type = "Int")),
                      <<>>, b.elements)
  BY DEF Advance, Fields, Becomes, Holding

\* The declaration of an array.
LEMMA AdvanceArray ==
    ASSUME NEW b, DOMAIN b = Fields, NEW e, e.kind = "array", NEW n, NEW lit
    PROVE  LET top == b.operands[Len(b.operands)]
           IN  Becomes(Advance(b, e, n, lit),
                      Added(b.variables, Item(ArrayOf[e.type], n, TRUE, TRUE, FALSE)), <<>>,
                      WithArray(b.elements, n, Kept(e.type, top)))
  BY DEF Advance, Fields, Becomes, WithArray

\* The element of an array.
LEMMA AdvanceElement ==
    ASSUME NEW b, DOMAIN b = Fields, NEW e, e.kind = "element", NEW n, NEW lit
    PROVE  LET x == b.variables[e.var]
           IN  x.type \in ArrayTypes =>
                   Becomes(Advance(b, e, n, lit), b.variables,
                          Append(b.operands, IF x.sound THEN b.elements[x.value]
                                             ELSE Item(ElementOf(x.type), Garbage, TRUE, FALSE, FALSE)),
                          b.elements)
  BY DEF Advance, Fields, Becomes

\* An assignment to one.
LEMMA AdvanceStore ==
    ASSUME NEW b, DOMAIN b = Fields, NEW e, e.kind = "store", NEW n, NEW lit
    PROVE  LET x == b.variables[e.var]
               top == b.operands[Len(b.operands)]
           IN  x.type \in ArrayTypes =>
                   Becomes(Advance(b, e, n, lit), b.variables, <<>>,
                          IF x.sound THEN WithElement(b.elements, x.value, Kept(ElementOf(x.type), top))
                          ELSE AllUnsound(b.elements))
  BY DEF Advance, Fields, Becomes, WithElement, AllUnsound, Unsound

\* An event is one of these.
LEMMA EventCases ==
    ASSUME NEW e \in Event
    PROVE  \/ \E t \in Literals : e = [kind |-> "literal", type |-> t]
           \/ \E v \in Variable, k \in {"name", "assign", "increment", "element", "store"} :
                 e = [kind |-> k, var |-> v]
           \/ \E op \in Operators : e = [kind |-> "operator", op |-> op]
           \/ \E f \in DOMAIN Signature : e = [kind |-> "call", f |-> f]
           \/ \E t \in Declared : e = [kind |-> "declare", type |-> t]
           \/ \E t \in Elements : e = [kind |-> "array", type |-> t]
           \/ e = [kind |-> "println"]
<1>1. CASE e \in [kind : {"literal"}, type : Literals]
  BY <1>1
<1>2. CASE e \in [kind : {"name", "assign", "increment", "element", "store"}, var : Variable]
  <2>1. e = [kind |-> e.kind, var |-> e.var] /\ e.var \in Variable
        /\ e.kind \in {"name", "assign", "increment", "element", "store"}
    BY <1>2
  <2>2. QED
    BY <2>1
<1>3. CASE e \in [kind : {"operator"}, op : Operators]
  BY <1>3
<1>4. CASE e \in [kind : {"call"}, f : DOMAIN Signature]
  BY <1>4
<1>5. CASE e \in [kind : {"declare"}, type : Declared]
  BY <1>5
<1>6. CASE e \in [kind : {"array"}, type : Elements]
  BY <1>6
<1>7. CASE e \in [kind : {"println"}]
  BY <1>7
<1>8. QED
  BY <1>1, <1>2, <1>3, <1>4, <1>5, <1>6, <1>7 DEF Event

\* Only an array has new elements.
LEMMA AdvanceElements ==
    ASSUME NEW b, DOMAIN b = Fields, NEW e \in Event, NEW n, NEW lit
    PROVE  DOMAIN Advance(b, e, n, lit).elements
              = DOMAIN b.elements \cup (IF e.kind = "array" THEN {n} ELSE {})
<1>1. CASE e.kind \in {"literal", "name", "operator", "call", "println", "declare", "assign",
                       "increment"}
  <2>1. Advance(b, e, n, lit).elements = b.elements
    <3>1. CASE e.kind \in {"literal", "name"}
      BY <3>1 DEF Advance, Fields
    <3>2. CASE e.kind \in {"operator", "call"}
      BY <3>2 DEF Advance, Fields
    <3>3. CASE e.kind \in {"println", "declare"}
      BY <3>3 DEF Advance, Fields
    <3>4. CASE e.kind \in {"assign", "increment"}
      BY <3>4 DEF Advance, Fields
    <3>5. QED
      BY <1>1, <3>1, <3>2, <3>3, <3>4
  <2>2. QED
    BY <1>1, <2>1
<1>2. CASE e.kind = "array"
  <2>1. Advance(b, e, n, lit).elements
           = WithArray(b.elements, n, Kept(e.type, b.operands[Len(b.operands)]))
    BY <1>2, AdvanceArray DEF Becomes
  <2>2. QED
    BY <1>2, <2>1 DEF WithArray
<1>3. CASE e.kind = "element"
  <2>1. Advance(b, e, n, lit).elements = b.elements
    BY <1>3 DEF Advance, Fields
  <2>2. QED
    BY <1>3, <2>1
<1>4. CASE e.kind = "store" /\ b.variables[e.var].type \in ArrayTypes
  <2>1. CASE b.variables[e.var].sound
    <3>1. PICK a, x : Advance(b, e, n, lit).elements = WithElement(b.elements, a, x)
      BY <1>4, <2>1, AdvanceStore DEF Becomes
    <3>2. QED
      BY <1>4, <3>1 DEF WithElement
  <2>2. CASE ~b.variables[e.var].sound
    <3>1. Advance(b, e, n, lit).elements = AllUnsound(b.elements)
      BY <1>4, <2>2, AdvanceStore DEF Becomes
    <3>2. QED
      BY <1>4, <3>1 DEF AllUnsound
  <2>3. QED
    BY <2>1, <2>2
<1>5. CASE e.kind = "store" /\ b.variables[e.var].type \notin ArrayTypes
  <2>1. Advance(b, e, n, lit).elements = b.elements
    BY <1>5 DEF Advance, Fields
  <2>2. QED
    BY <1>5, <2>1
<1>6. e.kind \in {"literal", "name", "println", "operator", "call", "declare", "assign",
                  "increment", "array", "element", "store"}
  BY EventCases
<1>7. QED
  BY <1>1, <1>2, <1>3, <1>4, <1>5, <1>6

\* A step that reads e makes of the meaning what e says.
LEMMA StepMeaning ==
    ASSUME TypeOK, NEW e \in Event, Reading(e)
    PROVE  /\ Now' = Advance(Now, e, Here, Literally(prog, Here))
           /\ \A n \in 0 .. Len(prog) : Meaning'[n] = Meaning[n]
           /\ \A n \in 1 .. Len(prog) : prog'[n] = prog[n]
           /\ prog'[Here] = e
<1>1. /\ prog \in Seq(Event) /\ Len(prog) \in Nat /\ prog' = Append(prog, e)
      /\ Len(prog') = Len(prog) + 1 /\ Here = Len(prog) + 1
  BY ReadingFacts DEF TypeOK
<1>2. /\ \A n \in 0 .. Len(prog) : MeaningOf(Append(prog, e))[n] = MeaningOf(prog)[n]
      /\ MeaningOf(Append(prog, e))[Len(prog) + 1] =
            Advance(MeaningOf(prog)[Len(prog)], e, Len(prog) + 1, Literally(prog, Len(prog) + 1))
  BY <1>1, MeaningStays
<1>3. Meaning = MeaningOf(prog) /\ Meaning' = MeaningOf(Append(prog, e))
  BY <1>1 DEF Meaning
<1>4. Now = MeaningOf(prog)[Len(prog)] /\ Now' = MeaningOf(Append(prog, e))[Len(prog) + 1]
  BY <1>1, <1>3 DEF Now
<1>5. QED
  BY <1>1, <1>2, <1>3, <1>4

\* Compatible types, when both are some variable's.
LEMMA CompatibleFacts ==
    /\ \A t \in Named \cup ArrayTypes, u \in Named :
          /\ check_type_compatibility(t, u) = Assignable(t, u)
          /\ {t, u} # Numbers => check_type_compatibility(u, t) = Assignable(t, u)
    /\ \A t \in Named \cup ArrayTypes :
          /\ IsNumeric(t) = (t \in Numbers) /\ IsString(t) = (t = "String")
<1>1. ASSUME NEW t \in Named \cup ArrayTypes, NEW u \in Named \cup ArrayTypes
      PROVE  check_type_compatibility(t, u) =
                ((t = "Double" /\ u = "Int") \/ t = u \/ (t \in ArrayTypes /\ u \in ArrayTypes))
  <2>1. t \notin {Unset, "Any"} /\ u \notin {Unset, "Any"}
    BY ArrayFacts DEF Named, Unset
  <2>2. QED
    BY <2>1 DEF check_type_compatibility
<1>2. \A u \in Named : u \in Named \cup ArrayTypes /\ u \notin ArrayTypes
  BY FullWidthFacts
<1>3. \A t \in Named \cup ArrayTypes, u \in Named :
         check_type_compatibility(t, u) = Assignable(t, u)
  BY <1>1, <1>2 DEF Assignable
<1>4. ASSUME NEW t \in Named \cup ArrayTypes, NEW u \in Named, {t, u} # Numbers
      PROVE  check_type_compatibility(u, t) = Assignable(t, u)
  <2>1. ~(t = "Double" /\ u = "Int") /\ ~(u = "Double" /\ t = "Int")
    BY <1>4 DEF Numbers
  <2>2. QED
    BY <1>1, <1>2, <2>1 DEF Assignable
<1>5. ASSUME NEW t \in Named \cup ArrayTypes
      PROVE  IsNumeric(t) = (t \in Numbers) /\ IsString(t) = (t = "String")
  <2>1. "Int" \in Named /\ "Double" \in Named /\ "String" \in Named
    BY DEF Named
  <2>2. /\ check_type_compatibility(t, "Int") = (t = "Double" \/ t = "Int")
        /\ check_type_compatibility(t, "Double") = (t = "Double")
        /\ check_type_compatibility(t, "String") = (t = "String")
    BY <1>1, <1>2, <2>1
  <2>3. IsNumeric(t) = (t \in Numbers)
    <3>1. IsNumeric(t) = (t = "Double" \/ t = "Int" \/ t = "Double")
      BY <2>2, Zenon DEF IsNumeric
    <3>2. QED
      BY <3>1 DEF Numbers
  <2>4. IsString(t) = (t = "String")
    BY <2>2 DEF IsString
  <2>5. QED
    BY <2>3, <2>4
<1>6. QED
  BY <1>3, <1>4, <1>5

\* The checker has nothing against an operator exactly when it is legal.
LEMMA OperatorJudged ==
    ASSUME NEW op \in Operators, NEW l \in Items, NEW r \in Items,
           l.type \in Named, r.type \in Named, Left.type = l.type, Top.type = r.type
    PROVE  OperatorChecks(op) = LegalOperands(op, l, r)
<1>1. /\ IsNumeric(Left.type) = (l.type \in Numbers) /\ IsString(Left.type) = (l.type = "String")
      /\ IsNumeric(Top.type) = (r.type \in Numbers) /\ IsString(Top.type) = (r.type = "String")
  BY CompatibleFacts
<1>2. Concatenates(op) = (op = "+" /\ (l.type = "String" \/ r.type = "String"))
  BY <1>1 DEF Concatenates
<1>3. /\ ({l.type, r.type} \subseteq Numbers) = (l.type \in Numbers /\ r.type \in Numbers)
      /\ ("String" \in {l.type, r.type}) = (l.type = "String" \/ r.type = "String")
      /\ ({l.type, r.type} \subseteq Numbers \/ {l.type, r.type} = {"String"}) =
            ((l.type \in Numbers /\ r.type \in Numbers)
               \/ (l.type = "String" /\ r.type = "String"))
  OBVIOUS
<1>4. CASE op = "=="
  BY <1>4 DEF OperatorChecks, LegalOperands
<1>5. CASE op = "+"
  BY <1>1, <1>2, <1>3, <1>5 DEF OperatorChecks, LegalOperands
<1>6. CASE op = "<"
  BY <1>1, <1>3, <1>6 DEF OperatorChecks, LegalOperands
<1>7. CASE op \notin {"==", "+", "<"}
  BY <1>1, <1>2, <1>3, <1>7 DEF OperatorChecks, LegalOperands
<1>8. QED
  BY <1>4, <1>5, <1>6, <1>7

\* The operands of a step, and what the text says of them.
LEMMA OperandsOfStep ==
    ASSUME TypeOK, Agrees, NEW i \in 1 .. Len(nodes)
    PROVE  /\ Now.operands[i] \in Items /\ OperandAgrees(made, Now.operands[i], nodes[i])
           /\ Now.operands[i].odd \in BOOLEAN
           /\ Now.operands[i].type \in Named \cup ArrayTypes
           /\ ~Now.operands[i].odd =>
                 Now.operands[i].type \in Named /\ nodes[i].type = Now.operands[i].type
<1>1. Now.operands \in Seq(Items) /\ Len(Now.operands) = Len(nodes)
      /\ OperandAgrees(made, Now.operands[i], nodes[i])
  BY DEF Agrees, OperandsAgree
<1>2. Now.operands[i] \in Items
  BY <1>1
<1>3. QED
  BY <1>1, <1>2, ChangedFacts DEF OperandAgrees

\* The variables of a step.
LEMMA VariablesOfStep ==
    ASSUME TypeOK, Agrees, NEW v \in 1 .. Len(entries)
    PROVE  /\ Now.variables[v] \in Items
           /\ VariableAgrees(made, Now.variables[v], entries[v], frame[Slot(v)])
           /\ PointsTo(Now.variables[v], Now.elements)
           /\ Now.variables[v].odd \in BOOLEAN
           /\ Now.variables[v].type \in Named \cup ArrayTypes
           /\ ~Now.variables[v].odd => entries[v] = Now.variables[v].type
           /\ Now.variables[v].sound => Lasting(v)
<1>1. /\ Now.variables \in Seq(Items) /\ Len(Now.variables) = Len(entries)
      /\ VariableAgrees(made, Now.variables[v], entries[v], frame[Slot(v)])
      /\ PointsTo(Now.variables[v], Now.elements)
      /\ Now.variables[v].sound => Lasting(v)
  BY DEF Agrees, VariablesAgree
<1>2. Now.variables[v] \in Items
  BY <1>1
<1>3. /\ Now.variables[v].odd \in BOOLEAN /\ Now.variables[v].type \in Named \cup ArrayTypes
      /\ ~Now.variables[v].odd => entries[v] = Now.variables[v].type
  BY <1>1, <1>2, ChangedFacts DEF VariableAgrees
<1>4. QED
  BY <1>1, <1>2, <1>3

\* What the checker says of an event, and what the text does.
Judged(e, lit) ==
    LET m == Advance(Now, e, Here, lit)
    IN  m.doubtful \/ Checks(e) = m.legal

\* They are the same, unless there is a doubt.
LEMMA JudgedExactly ==
    ASSUME TypeOK, Shape, Agrees, NEW e \in Event, Reading(e), NEW lit
    PROVE  Judged(e, lit)
<1> DEFINE m == Advance(Now, e, Here, lit)
           k == Len(nodes)
           x == Now.variables[e.var]
           top == Now.operands[Len(Now.operands)]
           left == Now.operands[Len(Now.operands) - 1]
<1>1. DOMAIN Now = Fields /\ Len(Now.operands) = k /\ k \in Nat /\ Needs(e) <= k
  BY DEF Agrees, OperandsAgree, TypeOK, Reading
<1>2. ASSUME k >= 1, ~top.odd
      PROVE  top.type \in Named /\ Top.type = top.type
  <2>1. k \in 1 .. k
    BY <1>1, <1>2
  <2>2. top = Now.operands[k] /\ Top = nodes[k]
    BY <1>1 DEF Top
  <2> HIDE DEF top
  <2>3. QED
    BY <1>2, <2>1, <2>2, OperandsOfStep
<1>3. k >= 1 => top.odd \in BOOLEAN
  BY <1>1, OperandsOfStep
<1>4. CASE e.kind \in {"literal", "name", "println"}
  <2>1. Checks(e)
    BY <1>4 DEF Checks
  <2>2. Says(Now, e, Here, lit, TRUE, FALSE)
    BY <1>1, <1>4, SaysLiteral, SaysName, SaysPrintln
  <2>3. QED
    BY <2>1, <2>2 DEF Judged, Says
<1>5. CASE e.kind = "operator"
  <2> DEFINE op == e.op
  <2>1. op \in Operators
    BY <1>5, EventCases
  <2>2. Says(Now, e, Here, lit, LegalOperands(op, left, top), left.odd \/ top.odd)
    BY <1>1, <1>5, SaysOperator
  <2>3. k - 1 \in 1 .. k /\ k \in 1 .. k /\ k >= 1
    BY <1>1, <1>5 DEF Needs
  <2>4. top = Now.operands[k] /\ left = Now.operands[k - 1] /\ Left = nodes[k - 1]
    BY <1>1 DEF Left
  <2>5. Checks(e) = OperatorChecks(op)
    BY <1>5 DEF Checks
  <2>6. ASSUME ~left.odd, ~top.odd PROVE OperatorChecks(op) = LegalOperands(op, left, top)
    <3>1. top \in Items /\ left \in Items
      BY <2>3, <2>4, OperandsOfStep
    <3>2. top.type \in Named /\ Top.type = top.type
      BY <1>2, <2>3, <2>6
    <3>3. left.type \in Named /\ Left.type = left.type
      BY <2>3, <2>4, <2>6, OperandsOfStep
    <3> HIDE DEF top, left, op
    <3>4. QED
      BY <2>1, <3>1, <3>2, <3>3, OperatorJudged
  <2> HIDE DEF m
  <2>7. m.doubtful \/ Checks(e) = m.legal
    <3>1. CASE left.odd \/ top.odd
      BY <2>2, <3>1 DEF m, Says
    <3>2. CASE ~left.odd /\ ~top.odd
      BY <2>2, <2>5, <2>6, <3>2 DEF m, Says
    <3>3. QED
      BY <3>1, <3>2
  <2>8. QED
    BY <2>7 DEF Judged, m
<1>6. CASE e.kind = "call"
  <2> DEFINE f == e.f
  <2>1. f \in DOMAIN Signature
    BY <1>6, EventCases
  <2>2. Says(Now, e, Here, lit,
             \A i \in 1 .. Arity(f) :
                Assignable(Signature[f].params[i],
                           Now.operands[Len(Now.operands) - Arity(f) + i].type),
             \E i \in Len(Now.operands) - Arity(f) + 1 .. Len(Now.operands) :
                Now.operands[i].odd)
    BY <1>1, <1>6, SaysCall
  <2>3. k = Arity(f)
    BY <1>6 DEF Reading
  <2>4. k - k + 1 = 1 /\ \A i \in 1 .. k : k - k + i = i
    BY <1>1
  <2>5. Checks(e) = \A i \in 1 .. k :
                       check_type_compatibility(Signature[f].params[i], nodes[i].type)
    <3>1. Checks(e) = CallChecks(f)
      BY <1>6 DEF Checks
    <3>2. QED
      BY <2>3, <2>4, <3>1 DEF CallChecks, Argument
  <2>6. /\ m.legal = \A i \in 1 .. k : Assignable(Signature[f].params[i], Now.operands[i].type)
        /\ m.doubtful = \E i \in 1 .. k : Now.operands[i].odd
    BY <1>1, <2>2, <2>3, <2>4 DEF Says
  <2> HIDE DEF m
  <2>7. ASSUME \A i \in 1 .. k : ~Now.operands[i].odd, NEW i \in 1 .. k
        PROVE  check_type_compatibility(Signature[f].params[i], nodes[i].type)
                  = Assignable(Signature[f].params[i], Now.operands[i].type)
    <3>1. Now.operands[i].type \in Named /\ nodes[i].type = Now.operands[i].type
      BY <2>7, OperandsOfStep
    <3>2. Signature[f].params[i] \in Named
      BY <2>1, <2>3, SignatureFacts
    <3>3. QED
      BY <3>1, <3>2, CompatibleFacts
  <2>8. m.doubtful \/ Checks(e) = m.legal
    BY <2>5, <2>6, <2>7
  <2>9. QED
    BY <2>8 DEF Judged, m
<1>7. CASE e.kind = "declare"
  <2> DEFINE t == e.type
  <2>1. t \in Declared
    BY <1>7, EventCases
  <2>2. Says(Now, e, Here, lit, t # "inferred" => Assignable(t, top.type),
             t # "inferred" /\ top.odd)
    BY <1>1, <1>7, SaysDeclare
  <2>3. Checks(e) = (t # "inferred" => check_type_compatibility(t, Top.type))
    BY <1>7 DEF Checks, DeclarationChecks
  <2>4. k >= 1
    BY <1>1, <1>7 DEF Needs
  <2>5. t # "inferred" => t \in Named \cup ArrayTypes
    BY <2>1, ValuesAssumption DEF ValuesAssumption
  <2> HIDE DEF m, top, t
  <2>6. ASSUME ~top.odd, t # "inferred"
        PROVE  check_type_compatibility(t, Top.type) = Assignable(t, top.type)
    BY <1>2, <2>4, <2>5, <2>6, CompatibleFacts
  <2>7. m.doubtful \/ Checks(e) = m.legal
    BY <2>2, <2>3, <2>6 DEF m, Says
  <2>8. QED
    BY <2>7 DEF Judged, m
<1>8. CASE e.kind = "assign"
  <2> DEFINE v == e.var
  <2>1. v \in Variable
    BY <1>8, EventCases
  <2>2. Says(Now, e, Here, lit, Assignable(x.type, top.type), x.odd \/ top.odd)
    BY <1>1, <1>8, SaysAssign
  <2>3. Checks(e) = check_type_compatibility(entries[v], Top.type)
    BY <1>8 DEF Checks, AssignmentChecks
  <2>4. k >= 1 /\ v \in 1 .. Len(entries)
    BY <1>1, <1>8, <2>1 DEF Needs, Reading, Variable, TypeOK
  <2>5. x.type \in Named \cup ArrayTypes /\ (~x.odd => entries[v] = x.type)
    BY <2>1, <2>4, VariablesOfStep
  <2> HIDE DEF m, top, x
  <2>6. ASSUME ~top.odd, ~x.odd PROVE Checks(e) = Assignable(x.type, top.type)
    BY <1>2, <2>3, <2>4, <2>5, <2>6, CompatibleFacts
  <2>7. m.doubtful \/ Checks(e) = m.legal
    BY <2>2, <2>6 DEF m, Says
  <2>8. QED
    BY <2>7 DEF Judged, m
<1>9. CASE e.kind = "increment"
  <2> DEFINE v == e.var
  <2>1. v \in Variable
    BY <1>9, EventCases
  <2>2. v \in 1 .. Len(entries)
    BY <1>9, <2>1 DEF Reading, Variable, TypeOK
  <2>3. x.type \in Named \cup ArrayTypes /\ (~x.odd => entries[v] = x.type)
        /\ x.odd \in BOOLEAN
    BY <2>2, VariablesOfStep
  <2>4. Says(Now, e, Here, lit, x.type \in Numbers, Odd({x}))
    BY <1>1, <1>9, SaysIncrement
  <2>5. Checks(e) = IsNumeric(entries[v])
    BY <1>9 DEF Checks, IncrementChecks
  <2> HIDE DEF m, top, x
  <2>6. ~x.odd => Checks(e) = (x.type \in Numbers)
    BY <2>3, <2>5, CompatibleFacts
  <2>7. m.doubtful \/ Checks(e) = m.legal
    BY <2>3, <2>4, <2>6 DEF m, Says, Odd
  <2>8. QED
    BY <2>7 DEF Judged, m
<1>10. CASE e.kind = "array"
  <2> DEFINE t == e.type
  <2>1. t \in Elements
    BY <1>10, EventCases
  <2>2. Says(Now, e, Here, lit, Assignable(t, top.type), top.odd \/ {t, top.type} = Numbers)
    BY <1>1, <1>10, SaysArray
  <2>3. Checks(e) = check_type_compatibility(Top.type, t)
    BY <1>10 DEF Checks, InitialFits
  <2>4. k >= 1
    BY <1>1, <1>10 DEF Needs
  <2>5. t \in Named
    BY <2>1, ValuesAssumption DEF ValuesAssumption
  <2> HIDE DEF m, top, t
  <2>6. ASSUME ~top.odd, {t, top.type} # Numbers
        PROVE  Checks(e) = Assignable(t, top.type)
    BY <1>2, <2>3, <2>4, <2>5, <2>6, CompatibleFacts
  <2>7. m.doubtful \/ Checks(e) = m.legal
    BY <2>2, <2>6 DEF m, Says
  <2>8. QED
    BY <2>7 DEF Judged, m
<1>11. CASE e.kind \in {"element", "store"}
  <2> DEFINE v == e.var
  <2>1. v \in Variable
    BY <1>11, EventCases
  <2>2. v \in 1 .. Len(entries)
    BY <1>11, <2>1 DEF Reading, Variable, TypeOK
  <2>3. x.type \in Named \cup ArrayTypes /\ (~x.odd => entries[v] = x.type)
        /\ x.odd \in BOOLEAN
    BY <2>2, VariablesOfStep
  <2>4. e.kind = "store" => k >= 1
    BY <1>1 DEF Needs
  <2>5. CASE e.kind = "element"
    <3>1. x.type \in ArrayTypes => Says(Now, e, Here, lit, TRUE, x.odd)
      BY <1>1, <2>5, SaysElement
    <3>2. x.type \notin ArrayTypes => Says(Now, e, Here, lit, FALSE, Odd({x}))
      BY <1>1, <2>5, SaysElement
    <3>3. Checks(e) = (entries[v] \in ArrayTypes)
      BY <2>5 DEF Checks, ElementChecks
    <3> HIDE DEF m, x
    <3>4. CASE x.type \in ArrayTypes
      <4>1. ~x.odd => Checks(e)
        BY <2>3, <3>3, <3>4
      <4>2. m.doubtful = x.odd /\ m.legal = TRUE
        BY <3>1, <3>4 DEF m, Says
      <4>3. Checks(e) \in BOOLEAN
        BY <3>3
      <4>4. m.doubtful \/ Checks(e) = m.legal
        BY <2>3, <4>1, <4>2, <4>3
      <4>5. QED
        BY <4>4 DEF Judged, m
    <3>5. CASE x.type \notin ArrayTypes
      <4>1. ~x.odd => ~Checks(e)
        BY <2>3, <3>3, <3>5
      <4>2. m.doubtful = Odd({x}) /\ m.legal = FALSE
        BY <3>2, <3>5 DEF m, Says
      <4>3. Checks(e) \in BOOLEAN
        BY <3>3
      <4>4. m.doubtful \/ Checks(e) = m.legal
        BY <2>3, <4>1, <4>2, <4>3 DEF Odd
      <4>5. QED
        BY <4>4 DEF Judged, m
    <3>6. QED
      BY <3>4, <3>5
  <2>6. CASE e.kind = "store"
    <3>1. Checks(e) = (/\ entries[v] \in ArrayTypes
                       /\ check_type_compatibility(ElementOf(entries[v]), Top.type))
      BY <2>6 DEF Checks, StoreChecks, ElementChecks
    <3>2. CASE x.type \in ArrayTypes
      <4>1. Says(Now, e, Here, lit, Assignable(ElementOf(x.type), top.type), x.odd \/ top.odd)
        BY <1>1, <2>6, <3>2, SaysStore
      <4>2. ElementOf(x.type) \in Named /\ ElementOf(x.type) \in Named \cup ArrayTypes
        BY <3>2, ArrayFacts
      <4> HIDE DEF m, x, top, v
      <4>3. ASSUME ~x.odd, ~top.odd PROVE Checks(e) = Assignable(ElementOf(x.type), top.type)
        <5>1. entries[v] = x.type /\ top.type \in Named /\ Top.type = top.type
          BY <1>2, <2>3, <2>4, <2>6, <4>3
        <5>2. check_type_compatibility(ElementOf(x.type), top.type)
                 = Assignable(ElementOf(x.type), top.type)
          BY <4>2, <5>1, CompatibleFacts
        <5>3. Checks(e) = check_type_compatibility(ElementOf(x.type), top.type)
          BY <3>1, <3>2, <5>1 DEF check_type_compatibility
        <5>4. QED
          BY <5>2, <5>3
      <4>4. m.doubtful \/ Checks(e) = m.legal
        BY <4>1, <4>3 DEF m, Says
      <4>5. QED
        BY <4>4 DEF Judged, m
    <3>3. CASE x.type \notin ArrayTypes
      <4>1. Says(Now, e, Here, lit, FALSE, Odd({x}))
        BY <1>1, <2>6, <3>3, SaysStore
      <4> HIDE DEF m, x, top
      <4>2. m.doubtful \/ Checks(e) = m.legal
        BY <2>3, <3>1, <3>3, <4>1 DEF m, Says, Odd
      <4>3. QED
        BY <4>2 DEF Judged, m
    <3>4. QED
      BY <3>2, <3>3
  <2>7. QED
    BY <1>11, <2>5, <2>6
<1>12. e.kind \in {"literal", "name", "println", "operator", "call", "declare", "assign",
                   "increment", "array", "element", "store"}
  BY EventCases
<1>13. QED
  BY <1>4, <1>5, <1>6, <1>7, <1>8, <1>9, <1>10, <1>11, <1>12

-----------------------------------------------------------------------------
\* What agreed goes on agreeing

\* Nothing that agrees is disturbed by another value.
LEMMA AgreeStays ==
    ASSUME NEW reps \in Seq(Width), NEW u \in Width, NEW x \in Items
    PROVE  /\ \A node : OperandAgrees(reps, x, node) => OperandAgrees(Append(reps, u), x, node)
           /\ \A t, cell : VariableAgrees(reps, x, t, cell)
                              => VariableAgrees(Append(reps, u), x, t, cell)
           /\ \A half : ElementAgrees(reps, x, half) => ElementAgrees(Append(reps, u), x, half)
<1>1. \A cell, w : Stands(reps, cell, w, x.value) => Stands(Append(reps, u), cell, w, x.value)
  BY ChangedFacts, StandsStays
<1>2. ASSUME NEW node, OperandAgrees(reps, x, node)
      PROVE  OperandAgrees(Append(reps, u), x, node)
  BY <1>1, <1>2 DEF OperandAgrees
<1>3. ASSUME NEW t, NEW cell, VariableAgrees(reps, x, t, cell)
      PROVE  VariableAgrees(Append(reps, u), x, t, cell)
  BY <1>1, <1>3 DEF VariableAgrees
<1>4. ASSUME NEW half, ElementAgrees(reps, x, half)
      PROVE  ElementAgrees(Append(reps, u), x, half)
  BY <1>1, <1>4 DEF ElementAgrees
<1>5. QED
  BY <1>2, <1>3, <1>4

\* What the text says of the operands when n of them have given way to x.
Stacked(os1, os, n, x) ==
    /\ os1 \in Seq(Items) /\ Len(os1) = Len(os) - n + 1
    /\ os1[Len(os) - n + 1] = x
    /\ \A i \in 1 .. Len(os) - n : os1[i] = os[i]

\* The meanings of the events have this form.
LEMMA StackedFacts ==
    ASSUME NEW os \in Seq(Items), NEW x \in Items
    PROVE  /\ \A n \in 0 .. Len(os) :
                 Stacked(Append(SubSeq(os, 1, Len(os) - n), x), os, n, x)
           /\ Stacked(Append(os, x), os, 0, x)
<1>1. ASSUME NEW n \in 0 .. Len(os)
      PROVE  Stacked(Append(SubSeq(os, 1, Len(os) - n), x), os, n, x)
  <2>1. PICK rest : rest = SubSeq(os, 1, Len(os) - n)
    OBVIOUS
  <2>2. /\ rest \in Seq(Items) /\ Len(rest) = Len(os) - n
        /\ \A i \in 1 .. Len(os) - n : rest[i] = os[i]
    BY <2>1
  <2>3. Stacked(Append(rest, x), os, n, x)
    BY <2>2 DEF Stacked
  <2>4. QED
    BY <2>1, <2>3
<1>2. Stacked(Append(os, x), os, 0, x)
  BY DEF Stacked
<1>3. QED
  BY <1>1, <1>2

\* A stack on which n operands have given way to one that agrees.
LEMMA OperandsPushed ==
    ASSUME NEW reps \in Seq(Width), NEW u \in Width, NEW stack \in Seq(Node), NEW m, NEW m1,
           OperandsAgree(reps, m, stack), NEW n \in 0 .. Len(stack),
           NEW x \in Items, Stacked(m1.operands, m.operands, n, x),
           NEW stack1 \in Seq(Node), Len(stack1) = Len(stack) - n + 1,
           \A i \in 1 .. Len(stack) - n : stack1[i] = stack[i],
           OperandAgrees(Append(reps, u), x, stack1[Len(stack) - n + 1])
    PROVE  OperandsAgree(Append(reps, u), m1, stack1)
<1> DEFINE last == Len(stack) - n + 1
<1>1. Len(m.operands) = Len(stack)
  BY DEF OperandsAgree
<1>2. /\ m1.operands \in Seq(Items) /\ Len(m1.operands) = last /\ m1.operands[last] = x
      /\ \A i \in 1 .. Len(stack) - n : m1.operands[i] = m.operands[i]
  BY <1>1 DEF Stacked
<1>3. ASSUME NEW i \in 1 .. Len(stack1)
      PROVE  OperandAgrees(Append(reps, u), m1.operands[i], stack1[i])
  <2>1. CASE i = last
    BY <1>2, <2>1
  <2>2. CASE i # last
    <3>1. i \in 1 .. Len(stack) - n /\ i \in 1 .. Len(stack)
      BY <2>2
    <3>2. m1.operands[i] = m.operands[i] /\ stack1[i] = stack[i]
      BY <1>2, <3>1
    <3>3. m.operands[i] \in Items /\ OperandAgrees(reps, m.operands[i], stack[i])
      BY <3>1 DEF OperandsAgree
    <3>4. QED
      BY <3>2, <3>3, AgreeStays
  <2>3. QED
    BY <2>1, <2>2
<1>4. QED
  BY <1>2, <1>3 DEF OperandsAgree

\* Each array keeps the type of its elements.
TypesKept(elements, elements1) ==
    \A a \in DOMAIN elements : a \in DOMAIN elements1 /\ elements1[a].type = elements[a].type

\* So that what points to one still points to it.
LEMMA PointsStill ==
    ASSUME NEW x, NEW elements, NEW elements1, PointsTo(x, elements),
           TypesKept(elements, elements1)
    PROVE  PointsTo(x, elements1)
  BY DEF PointsTo, TypesKept

\* Variables that nothing was written to.
LEMMA VariablesKept ==
    ASSUME NEW reps \in Seq(Width), NEW u \in Width, NEW m, NEW m1, NEW types, NEW cells,
           Len(types) \in Nat, VariablesAgree(reps, m, types, cells),
           m1.variables = m.variables, TypesKept(m.elements, m1.elements)
    PROVE  VariablesAgree(Append(reps, u), m1, types, cells)
<1>1. ASSUME NEW v \in 1 .. Len(types)
      PROVE  /\ VariableAgrees(Append(reps, u), m.variables[v], types[v], cells[Slot(v)])
             /\ PointsTo(m.variables[v], m1.elements)
             /\ m.variables[v].sound => Lasting(v)
  <2>1. /\ m.variables[v] \in Items /\ PointsTo(m.variables[v], m.elements)
        /\ VariableAgrees(reps, m.variables[v], types[v], cells[Slot(v)])
        /\ m.variables[v].sound => Lasting(v)
    BY DEF VariablesAgree
  <2>2. QED
    BY <2>1, AgreeStays, PointsStill
<1>2. QED
  BY <1>1 DEF VariablesAgree

\* Arrays that nothing was stored in.
LEMMA ElementsKept ==
    ASSUME NEW reps \in Seq(Width), NEW u \in Width, NEW m, NEW m1, NEW halves,
           ElementsAgree(reps, m, halves), m1.elements = m.elements
    PROVE  ElementsAgree(Append(reps, u), m1, halves) /\ TypesKept(m.elements, m1.elements)
<1>1. ASSUME NEW a \in DOMAIN m.elements
      PROVE  ElementAgrees(Append(reps, u), m.elements[a], halves[a])
  BY AgreeStays DEF ElementsAgree
<1>2. DOMAIN m.elements \subseteq 1 .. Len(Append(reps, u))
  <2>1. Len(Append(reps, u)) = Len(reps) + 1 /\ Len(reps) \in Nat
    OBVIOUS
  <2>2. QED
    BY <2>1 DEF ElementsAgree
<1>3. QED
  BY <1>1, <1>2 DEF ElementsAgree, TypesKept

\* The variables after one was written.
LEMMA WrittenFacts ==
    ASSUME NEW vs \in Seq(Items), NEW v \in 1 .. Len(vs), NEW x \in Items
    PROVE  LET ws == Written(vs, v, x)
           IN  /\ ws \in Seq(Items) /\ Len(ws) = Len(vs) /\ ws[v] = Placed(x, v)
               /\ \A u \in 1 .. Len(vs) :
                     /\ u # v /\ Slot(u) = Slot(v) => ws[u] = Unsound(vs[u])
                     /\ u # v /\ Slot(u) # Slot(v) => ws[u] = vs[u]
<1> DEFINE at(u) == IF u = v THEN Placed(x, v)
                    ELSE IF Slot(u) = Slot(v) THEN Unsound(vs[u]) ELSE vs[u]
           ws == [u \in 1 .. Len(vs) |-> at(u)]
<1>1. \A u \in 1 .. Len(vs) : at(u) \in Items
  <2>1. SUFFICES ASSUME NEW u \in 1 .. Len(vs) PROVE at(u) \in Items
    OBVIOUS
  <2>2. vs[u] \in Items
    OBVIOUS
  <2>3. Unsound(vs[u]) \in Items /\ Placed(x, v) \in Items
    BY <2>2, UnsoundFacts, PlacedFacts
  <2>4. QED
    BY <2>2, <2>3
<1>2. ws \in Seq(Items) /\ Len(ws) = Len(vs)
  <2>1. ws \in [1 .. Len(vs) -> Items]
    BY <1>1
  <2> HIDE DEF ws
  <2>2. Len(vs) \in Nat
    OBVIOUS
  <2>3. QED
    BY <2>1, <2>2
<1>3. Written(vs, v, x) = ws
  BY DEF Written, Unsound, Placed
<1>4. QED
  BY <1>2, <1>3

\* A variable that agrees with its type and its cell, points to what it should and
\* is not expected to last among temporaries.
Correct(reps, v, x, type, cell, elements) ==
    VariableAgrees(reps, x, type, cell) /\ PointsTo(x, elements) /\ (x.sound => Lasting(v))

\* The variables and their cells after one was written, declared before or just now.
LEMMA CellWritten ==
    ASSUME TypeOK, NEW u \in Width, Represents(u), NEW vs \in Seq(Items), NEW types,
           NEW elements, NEW m1, TypesKept(elements, m1.elements),
           Len(types) = Len(vs), \A w \in 1 .. Len(vs) : w \in Variable,
           NEW v \in 1 .. Len(vs), NEW x \in Items, NEW cell \in Cell, WrittenTo(v, cell),
           \A w \in 1 .. Len(vs) :
               w # v => Correct(made, w, vs[w], types[w], frame[Slot(w)], elements),
           m1.variables = Written(vs, v, x),
           VariableAgrees(made', x, types[v], cell), PointsTo(x, m1.elements)
    PROVE  VariablesAgree(made', m1, types, frame')
<1> DEFINE ws == m1.variables
<1>1. made \in Seq(Width) /\ made' = Append(made, u)
  BY DEF TypeOK, Represents
<1> HIDE DEF ws
<1>2. /\ ws \in Seq(Items) /\ Len(ws) = Len(vs) /\ ws[v] = Placed(x, v)
      /\ \A w \in 1 .. Len(vs) :
            /\ w # v /\ Slot(w) = Slot(v) => ws[w] = Unsound(vs[w])
            /\ w # v /\ Slot(w) # Slot(v) => ws[w] = vs[w]
  <2>1. ws = Written(vs, v, x)
    BY DEF ws
  <2>2. QED
    BY <2>1, WrittenFacts
<1>3. ASSUME NEW w \in 1 .. Len(vs)
      PROVE  Correct(made', w, ws[w], types[w], frame'[Slot(w)], m1.elements)
  <2>1. w \in Variable /\ vs[w] \in Items
    OBVIOUS
  <2>2. CASE w = v
    <3>1. /\ ws[w].sound = (x.sound /\ Lasting(w)) /\ ws[w].type = x.type
          /\ ws[w].known = x.known /\ ws[w].odd = x.odd /\ ws[w].value = x.value
      BY <1>2, <2>2, PlacedFacts
    <3>2. VariableAgrees(made', ws[w], types[w], cell)
      BY <2>2, <3>1 DEF VariableAgrees
    <3>3. PointsTo(ws[w], m1.elements)
      BY <3>1 DEF PointsTo
    <3>4. frame'[Slot(w)] = cell
      BY <2>2 DEF WrittenTo
    <3>5. QED
      BY <3>1, <3>2, <3>3, <3>4 DEF Correct
  <2>3. CASE w # v /\ Slot(w) = Slot(v)
    <3>1. ws[w] = Unsound(vs[w])
      BY <1>2, <2>3
    <3>2. /\ ws[w].sound = FALSE /\ ws[w].type = vs[w].type /\ ws[w].known = vs[w].known
          /\ ws[w].odd = vs[w].odd
      BY <2>1, <3>1, UnsoundFacts, ZenonT(30)
    <3>3. Correct(made, w, vs[w], types[w], frame[Slot(w)], elements)
      BY <2>3
    <3>4. QED
      BY <3>2, <3>3 DEF Correct, VariableAgrees, PointsTo
  <2>4. CASE w # v /\ Slot(w) # Slot(v)
    <3>1. ws[w] = vs[w]
      BY <1>2, <2>4
    <3>2. frame'[Slot(w)] = frame[Slot(w)]
      BY <2>1, <2>4, SlotFacts DEF WrittenTo
    <3>3. Correct(made, w, vs[w], types[w], frame[Slot(w)], elements)
      BY <2>4
    <3>4. /\ VariableAgrees(made', vs[w], types[w], frame[Slot(w)])
          /\ PointsTo(vs[w], m1.elements)
      BY <1>1, <2>1, <3>3, AgreeStays, PointsStill DEF Correct
    <3>5. QED
      BY <3>1, <3>2, <3>3, <3>4 DEF Correct
  <2>5. QED
    BY <2>2, <2>3, <2>4
<1>4. QED
  BY <1>2, <1>3 DEF VariablesAgree, Correct, ws

\* Those after one in scope was written.
LEMMA VariablesWritten ==
    ASSUME TypeOK, Shape, NEW m, NEW m1, NEW u \in Width, Represents(u), UNCHANGED entries,
           VariablesAgree(made, m, entries, frame), m1.elements = m.elements,
           NEW v \in 1 .. Len(entries), NEW x \in Items, NEW cell \in Cell, WrittenTo(v, cell),
           m1.variables = Written(m.variables, v, x),
           VariableAgrees(made', x, entries[v], cell), PointsTo(x, m.elements)
    PROVE  VariablesAgree(made', m1, entries', frame')
<1>1. m.variables \in Seq(Items) /\ Len(m.variables) = Len(entries)
  BY DEF VariablesAgree
<1>2. \A w \in 1 .. Len(entries) :
         Correct(made, w, m.variables[w], entries[w], frame[Slot(w)], m.elements)
  BY DEF VariablesAgree, Correct
<1>3. \A w \in 1 .. Len(entries) : w \in Variable
  BY VariableFacts DEF Shape
<1>4. TypesKept(m.elements, m1.elements)
  BY DEF TypesKept
<1>5. QED
  BY <1>1, <1>2, <1>3, <1>4, CellWritten

\* Those after another was declared, before anything is written to its cell.
LEMMA VariablesAppended ==
    ASSUME TypeOK, NEW m, NEW t \in Type, entries' = Append(entries, t),
           VariablesAgree(made, m, entries, frame), NEW x \in Items
    PROVE  LET vs == Append(m.variables, x)
           IN  /\ vs \in Seq(Items) /\ Len(vs) = Len(entries) + 1 /\ vs[Len(entries) + 1] = x
               /\ Len(entries') = Len(entries) + 1 /\ entries'[Len(entries) + 1] = t
               /\ \A w \in 1 .. Len(entries) :
                     /\ vs[w] \in Items /\ vs[w] = m.variables[w] /\ entries'[w] = entries[w]
                     /\ Correct(made, w, vs[w], entries'[w], frame[Slot(w)], m.elements)
<1> DEFINE vs == Append(m.variables, x)
<1>1. m.variables \in Seq(Items) /\ Len(m.variables) = Len(entries)
      /\ entries \in Seq(Type) /\ Len(entries) \in Nat
  BY DEF VariablesAgree, TypeOK
<1>2. /\ vs \in Seq(Items) /\ Len(vs) = Len(entries) + 1 /\ vs[Len(entries) + 1] = x
      /\ \A w \in 1 .. Len(entries) : vs[w] \in Items /\ vs[w] = m.variables[w]
  BY <1>1
<1>3. /\ Len(entries') = Len(entries) + 1 /\ entries'[Len(entries) + 1] = t
      /\ \A w \in 1 .. Len(entries) : entries'[w] = entries[w]
  BY <1>1
<1> HIDE DEF vs
<1>4. \A w \in 1 .. Len(entries) :
         Correct(made, w, vs[w], entries'[w], frame[Slot(w)], m.elements)
  BY <1>2, <1>3 DEF VariablesAgree, Correct
<1>5. QED
  BY <1>2, <1>3, <1>4 DEF vs

\* And when its value was written to its cell.
LEMMA VariablesDeclared ==
    ASSUME TypeOK, Shape, Len(entries) < P + Q + Locals,
           NEW m, NEW m1, NEW u \in Width, Represents(u),
           NEW t \in Type, entries' = Append(entries, t),
           VariablesAgree(made, m, entries, frame), TypesKept(m.elements, m1.elements),
           NEW x \in Items, NEW cell \in Cell, WrittenTo(Len(entries) + 1, cell),
           m1.variables = Added(m.variables, x),
           VariableAgrees(made', x, t, cell), PointsTo(x, m1.elements)
    PROVE  VariablesAgree(made', m1, entries', frame')
<1> DEFINE vs == Append(m.variables, x)
           new == Len(entries) + 1
<1>1. /\ vs \in Seq(Items) /\ Len(vs) = new /\ Len(entries') = new /\ entries'[new] = t
      /\ \A w \in 1 .. Len(entries) :
            Correct(made, w, vs[w], entries'[w], frame[Slot(w)], m.elements)
  BY VariablesAppended
<1>2. Len(entries) \in Nat /\ Len(m.variables) = Len(entries)
  BY DEF TypeOK, VariablesAgree
<1>3. m1.variables = Written(vs, new, x)
  BY <1>2 DEF Added
<1> HIDE DEF vs
<1>4. \A w \in 1 .. Len(vs) : w \in Variable
  BY <1>1, <1>2, NewFacts, VariableFacts DEF Shape
<1>5. new \in 1 .. Len(vs) /\ \A w \in 1 .. Len(vs) : w # new => w \in 1 .. Len(entries)
  BY <1>1, <1>2
<1>6. QED
  BY <1>1, <1>3, <1>4, <1>5, CellWritten

\* Or nothing was.
LEMMA VariablesInferred ==
    ASSUME TypeOK, NEW m, NEW m1, NEW u \in Width, Represents(u),
           NEW t \in Type, entries' = Append(entries, t), UNCHANGED frame,
           VariablesAgree(made, m, entries, frame), TypesKept(m.elements, m1.elements),
           NEW x \in Items, m1.variables = Append(m.variables, x),
           \A cell : VariableAgrees(made', x, t, cell), ~x.sound
    PROVE  VariablesAgree(made', m1, entries', frame')
<1> DEFINE vs == m1.variables
           new == Len(entries) + 1
<1>1. /\ vs \in Seq(Items) /\ Len(vs) = new /\ vs[new] = x
      /\ Len(entries') = new /\ entries'[new] = t
      /\ \A w \in 1 .. Len(entries) :
            /\ vs[w] \in Items
            /\ Correct(made, w, vs[w], entries'[w], frame[Slot(w)], m.elements)
  BY VariablesAppended
<1>2. made \in Seq(Width) /\ made' = Append(made, u) /\ Len(entries) \in Nat
  BY DEF TypeOK, Represents
<1> HIDE DEF vs
<1>3. ASSUME NEW w \in 1 .. new
      PROVE  Correct(made', w, vs[w], entries'[w], frame'[Slot(w)], m1.elements)
  <2>1. CASE w = new
    BY <1>1, <2>1 DEF Correct, PointsTo
  <2>2. CASE w # new
    <3>1. w \in 1 .. Len(entries)
      BY <1>2, <2>2
    <3>2. Correct(made, w, vs[w], entries'[w], frame[Slot(w)], m.elements) /\ vs[w] \in Items
      BY <1>1, <3>1
    <3>3. QED
      BY <1>2, <3>2, AgreeStays, PointsStill DEF Correct
  <2>3. QED
    BY <2>1, <2>2
<1>4. QED
  BY <1>1, <1>3 DEF VariablesAgree, Correct, vs

-----------------------------------------------------------------------------
\* Each event keeps the compiler's and the text's account in agreement

\* What every step that runs an event has in common.
LEMMA StepFacts ==
    ASSUME TypeOK, Agrees, NEW e \in Event, Reading(e), NEW u \in Width, Represents(u)
    PROVE  /\ made \in Seq(Width) /\ made' = Append(made, u) /\ made' \in Seq(Width)
           /\ Len(made) = Len(prog) /\ Here = Len(made) + 1 /\ Here \in Value /\ Here \in Nat
           /\ Here \in 1 .. MaxLen /\ Len(made') = Len(prog')
           /\ Now' = Advance(Now, e, Here, Literally(prog, Here)) /\ DOMAIN Now = Fields
           /\ VariablesAgree(made, Now, entries, frame) /\ OperandsAgree(made, Now, nodes)
           /\ ElementsAgree(made, Now, heap)
           /\ Now.variables \in Seq(Items) /\ Now.operands \in Seq(Items)
           /\ Len(Now.variables) = Len(entries) /\ Len(Now.operands) = Len(nodes)
           /\ Len(prog) < MaxLen
<1>1. /\ made \in Seq(Width) /\ Len(made) = Len(prog) /\ DOMAIN Now = Fields
      /\ VariablesAgree(made, Now, entries, frame) /\ OperandsAgree(made, Now, nodes)
      /\ ElementsAgree(made, Now, heap)
  BY DEF TypeOK, Agrees
<1>2. made' = Append(made, u) /\ made' \in Seq(Width) /\ Len(made') = Len(made) + 1
  BY <1>1 DEF Represents
<1>3. Len(prog') = Len(prog) + 1 /\ Here \in 1 .. MaxLen /\ Here = Len(prog) + 1 /\ Len(prog) \in Nat
  BY ReadingFacts
<1>4. Here \in Value
  BY <1>3, Lists DEF Value, Q
<1>5. Now' = Advance(Now, e, Here, Literally(prog, Here))
  BY StepMeaning
<1>6. Len(prog) < MaxLen
  BY <1>3, Lists
<1>7. /\ Now.variables \in Seq(Items) /\ Now.operands \in Seq(Items)
      /\ Len(Now.variables) = Len(entries) /\ Len(Now.operands) = Len(nodes)
  BY <1>1 DEF VariablesAgree, OperandsAgree
<1>8. QED
  BY <1>1, <1>2, <1>3, <1>4, <1>5, <1>6, <1>7

\* What has elements after a step is an array.
LEMMA ArraysAfter ==
    ASSUME TypeOK, Agrees, NEW e \in Event, Reading(e)
    PROVE  ArraysAgree(Now', prog')
<1>1. /\ Now' = Advance(Now, e, Here, Literally(prog, Here)) /\ prog'[Here] = e
      /\ \A n \in 1 .. Len(prog) : prog'[n] = prog[n]
  BY StepMeaning
<1>2. DOMAIN Now = Fields /\ DOMAIN Now.elements \subseteq 1 .. Len(prog)
      /\ \A a \in DOMAIN Now.elements : prog[a].kind = "array"
  BY DEF Agrees, ElementsAgree, ArraysAgree
<1>3. DOMAIN Now'.elements = DOMAIN Now.elements \cup (IF e.kind = "array" THEN {Here} ELSE {})
  BY <1>1, <1>2, AdvanceElements
<1>4. QED
  BY <1>1, <1>2, <1>3 DEF ArraysAgree

\* The parts of the agreement after a step make the whole.
LEMMA AgreesAfter ==
    ASSUME TypeOK, Agrees, NEW e \in Event, Reading(e), NEW u \in Width, Represents(u),
           NEW m1, Now' = m1, DOMAIN m1 = Fields,
           VariablesAgree(made', m1, entries', frame'), OperandsAgree(made', m1, nodes'),
           ElementsAgree(made', m1, heap'),
           e.kind = "literal" =>
               Len(nodes') >= 1 /\ nodes'[Len(nodes')].parse = m1.operands[Len(nodes')].type
    PROVE  Agrees'
<1>1. prog'[Len(prog')] = e
  BY ReadingFacts, StepMeaning
<1>2. LiteralAgrees(m1, prog', nodes')
  <2>1. Len(prog') \in Nat
    BY ReadingFacts
  <2>2. Literally(prog', Len(prog') + 1) => e.kind = "literal"
    BY <1>1, <2>1 DEF Literally
  <2>3. QED
    BY <2>2 DEF LiteralAgrees
<1>3. Len(made') = Len(prog') /\ ArraysAgree(m1, prog')
  BY StepFacts, ArraysAfter
<1>4. QED
  BY <1>2, <1>3 DEF Agrees

\* No operands agree.
LEMMA NoOperands ==
    ASSUME NEW reps, NEW m1, m1.operands = <<>>
    PROVE  OperandsAgree(reps, m1, <<>>)
  BY DEF OperandsAgree

\* The operand that takes the place of n others.
LEMMA OperandsAfter ==
    ASSUME TypeOK, Agrees, NEW e \in Event, Reading(e), NEW u \in Width, Represents(u),
           NEW m1, NEW n \in 0 .. Len(nodes), NEW node \in Node, Push(n, node),
           NEW x \in Items, Stacked(m1.operands, Now.operands, n, x),
           OperandAgrees(made', x, node)
    PROVE  OperandsAgree(made', m1, nodes') /\ Len(nodes') >= 1
           /\ nodes'[Len(nodes')] = node /\ m1.operands[Len(nodes')] = x
<1>1. /\ made \in Seq(Width) /\ made' = Append(made, u) /\ OperandsAgree(made, Now, nodes)
      /\ Len(Now.operands) = Len(nodes)
  BY StepFacts
<1>2. Pushed(n, node)
  BY PushFacts
<1>3. /\ nodes' \in Seq(Node) /\ Len(nodes') = Len(nodes) - n + 1
      /\ nodes'[Len(nodes) - n + 1] = node
      /\ \A i \in 1 .. Len(nodes) - n : nodes'[i] = nodes[i]
  BY <1>2 DEF Pushed
<1>4. nodes \in Seq(Node) /\ Len(nodes) \in Nat
  BY DEF TypeOK
<1>5. OperandAgrees(Append(made, u), x, nodes'[Len(nodes) - n + 1])
  BY <1>1, <1>3
<1>6. OperandsAgree(Append(made, u), m1, nodes')
  BY <1>1, <1>3, <1>4, <1>5, OperandsPushed
<1>7. m1.operands[Len(nodes')] = x
  BY <1>1, <1>3 DEF Stacked
<1>8. QED
  BY <1>1, <1>3, <1>4, <1>6, <1>7

\* A step that leaves variables, their cells and the arrays alone.
LEMMA RestStays ==
    ASSUME TypeOK, Agrees, NEW e \in Event, Reading(e), NEW u \in Width, Represents(u),
           UNCHANGED <<entries, frame, heap>>,
           NEW m1, m1.variables = Now.variables, m1.elements = Now.elements
    PROVE  VariablesAgree(made', m1, entries', frame') /\ ElementsAgree(made', m1, heap')
<1>1. /\ made \in Seq(Width) /\ made' = Append(made, u)
      /\ VariablesAgree(made, Now, entries, frame) /\ ElementsAgree(made, Now, heap)
  BY StepFacts
<1>2. Len(entries) \in Nat
  BY DEF TypeOK
<1>3. ElementsAgree(made', m1, heap) /\ TypesKept(Now.elements, m1.elements)
  BY <1>1, ElementsKept
<1>4. VariablesAgree(made', m1, entries, frame)
  BY <1>1, <1>2, <1>3, VariablesKept
<1>5. QED
  BY <1>3, <1>4

\* A step that pushes an operand, once that is known to agree.
LEMMA PushAgreed ==
    ASSUME TypeOK, Agrees, NEW e \in Event, Reading(e), NEW u \in Width, Represents(u),
           UNCHANGED <<entries, frame, heap>>,
           NEW n \in 0 .. Len(nodes), NEW node \in Node, Push(n, node),
           NEW x \in Items, OperandAgrees(made', x, node),
           NEW os1, Stacked(os1, Now.operands, n, x),
           Becomes(Advance(Now, e, Here, Literally(prog, Here)), Now.variables, os1, Now.elements),
           e.kind = "literal" => node.parse = x.type
    PROVE  Agrees'
<1>1. PICK m1 : m1 = Now'
  OBVIOUS
<1>2. Becomes(m1, Now.variables, os1, Now.elements)
  BY <1>1, StepFacts
<1>3. /\ DOMAIN m1 = Fields /\ m1.variables = Now.variables /\ m1.elements = Now.elements
      /\ Stacked(m1.operands, Now.operands, n, x)
  BY <1>2 DEF Becomes
<1>4. OperandsAgree(made', m1, nodes') /\ Len(nodes') >= 1
      /\ nodes'[Len(nodes')] = node /\ m1.operands[Len(nodes')] = x
  BY <1>3, OperandsAfter
<1>5. VariablesAgree(made', m1, entries', frame') /\ ElementsAgree(made', m1, heap')
  BY <1>3, RestStays
<1>6. QED
  BY <1>1, <1>3, <1>4, <1>5, AgreesAfter

\* A literal is there, in the width of its type; the one of a string is a label.
LEMMA LiteralAgreed ==
    ASSUME TypeOK, Shape, Agrees, NEW t \in Literals, Literal(t)
    PROVE  Agrees'
<1> DEFINE e == [kind |-> "literal", type |-> t]
           cell == IF WidthOf(t) = "int" THEN Half(Here, Empty) ELSE Whole(Here)
           node == [parse |-> t, type |-> t, gen |-> t, label |-> t = "String", cell |-> cell]
           x == Item(t, Here, TRUE, TRUE, FALSE)
<1>1. e \in Event /\ e.kind = "literal" /\ e.type = t /\ Reading(e)
  BY EventFacts DEF Literal, Runs, Accepted
<1>2. /\ t \in Named /\ t \in Type /\ t \in Named \cup ArrayTypes /\ t \notin ArrayTypes
      /\ FullWidth(t) = WidthOf(t)
  BY ValuesAssumption, FullWidthFacts DEF ValuesAssumption, Type
<1>3. Push(0, node) /\ Represents(WidthOf(t)) /\ UNCHANGED <<entries, frame, heap>>
  BY DEF Literal, Runs
<1>4. WidthOf(t) \in Width
  BY WidthFacts
<1>5. /\ made \in Seq(Width) /\ made' = Append(made, WidthOf(t)) /\ Here = Len(made) + 1
      /\ Here \in Value /\ DOMAIN Now = Fields
      /\ Now' = Advance(Now, e, Here, Literally(prog, Here)) /\ Now.operands \in Seq(Items)
  BY <1>1, <1>3, <1>4, StepFacts
<1>6. cell \in Cell /\ cell.low = Here /\ (WidthOf(t) # "int" => cell.high = Here)
  BY <1>5, CellFacts
<1>7. /\ x \in Items /\ x.type = t /\ x.value = Here /\ x.known = TRUE /\ x.sound = TRUE
      /\ x.odd = FALSE
  BY <1>2, <1>5, ItemFacts, ZenonT(30)
<1> HIDE DEF cell, x
<1>8. /\ node \in Node /\ node.parse = t /\ node.type = t /\ node.gen = t
      /\ node.label = (t = "String") /\ node.cell = cell
  BY <1>2, <1>6 DEF Node
<1>9. Stands(made', cell, WidthOf(t), Here)
  BY <1>4, <1>5, <1>6, StandsNew
<1> HIDE DEF node, e
<1>10. OperandAgrees(made', x, node)
  BY <1>2, <1>7, <1>8, <1>9 DEF OperandAgrees
<1>11. 0 \in 0 .. Len(nodes)
  BY DEF TypeOK
<1>12. /\ Becomes(Advance(Now, e, Here, Literally(prog, Here)), Now.variables,
                  Append(Now.operands, x), Now.elements)
       /\ Stacked(Append(Now.operands, x), Now.operands, 0, x)
  BY <1>1, <1>5, <1>7, AdvanceLiteral, StackedFacts DEF x
<1>13. QED
  BY <1>1, <1>3, <1>4, <1>7, <1>8, <1>10, <1>11, <1>12, PushAgreed

\* A name is what its variable is, but the checker may take an array for another.
LEMMA NameAgreed ==
    ASSUME TypeOK, Shape, Agrees, NEW v \in Variable, Name(v)
    PROVE  Agrees'
<1> DEFINE e == [kind |-> "name", var |-> v]
           nodeOf(c) == [parse |-> Unset, type |-> entries[v], gen |-> entries[v],
                         cell |-> c, label |-> FALSE]
<1> PICK cell \in Contents(v) : Push(0, nodeOf(cell))
  BY DEF Name
<1> DEFINE node == nodeOf(cell)
<1>1. e \in Event /\ e.kind = "name" /\ e.var = v /\ Reading(e)
  BY EventFacts DEF Name, Runs, Accepted
<1>2. Push(0, node) /\ Represents("none") /\ UNCHANGED <<entries, frame, heap>>
      /\ v <= Len(entries) /\ "none" \in Width
  BY DEF Name, Runs, Accepted, Reading, Width
<1>3. v \in 1 .. Len(entries) /\ entries[v] \in Type /\ frame[Slot(v)] \in Cell
  BY <1>2, SlotFacts DEF TypeOK, Variable
<1>4. /\ made \in Seq(Width) /\ made' = Append(made, "none") /\ DOMAIN Now = Fields
      /\ Now.operands \in Seq(Items)
  BY <1>1, <1>2, StepFacts
<1>5. /\ node \in Node /\ node.type = entries[v] /\ node.gen = entries[v]
      /\ node.label = FALSE /\ node.cell = cell
      /\ Lasting(v) => cell = frame[Slot(v)]
  <2>1. cell \in Cell /\ (Lasting(v) => cell = frame[Slot(v)])
    BY ContentsFacts
  <2>2. QED
    BY <1>3, <2>1 DEF Node, Unset
<1> HIDE DEF node, e
<1>6. PICK x : x = Now.variables[v]
  OBVIOUS
<1>7. x \in Items /\ VariableAgrees(made, x, entries[v], frame[Slot(v)])
      /\ (x.sound => Lasting(v))
  BY <1>3, <1>6, VariablesOfStep
<1>8. VariableAgrees(made', x, entries[v], frame[Slot(v)])
  BY <1>2, <1>4, <1>7, AgreeStays
<1>9. PICK y : y = Read(x)
  OBVIOUS
<1>10. /\ y \in Items /\ y.type = x.type /\ y.value = x.value /\ y.known = x.known
       /\ y.sound = x.sound /\ y.odd = (x.odd \/ x.type \in ArrayTypes)
  BY <1>7, <1>9, ReadFacts
<1>11. OperandAgrees(made', y, node)
  <2>1. y.sound => node.cell = frame[Slot(v)]
    BY <1>5, <1>7, <1>10
  <2>2. QED
    BY <1>5, <1>8, <1>10, <2>1 DEF OperandAgrees, VariableAgrees
<1>12. 0 \in 0 .. Len(nodes)
  BY DEF TypeOK
<1>13. /\ Becomes(Advance(Now, e, Here, Literally(prog, Here)), Now.variables,
                  Append(Now.operands, y), Now.elements)
       /\ Stacked(Append(Now.operands, y), Now.operands, 0, y)
  BY <1>1, <1>4, <1>6, <1>9, <1>10, AdvanceName, StackedFacts
<1>14. QED
  BY <1>1, <1>2, <1>5, <1>10, <1>11, <1>12, <1>13, PushAgreed

\* An operator's result, field by field.
IsResult(x, op, l, r, n) ==
    /\ x \in Items /\ x.value = n /\ x.type \in Named
    /\ op \in Relations => x.type = "Boolean" /\ x.known /\ x.sound /\ ~x.odd
    /\ op \notin Relations =>
          /\ x.type = IF "String" \in {l.type, r.type} THEN "String"
                      ELSE IF "Double" \in {l.type, r.type} THEN "Double" ELSE "Int"
          /\ x.known = (l.known /\ r.known /\ x.type # "String")
          /\ x.sound = (x.known /\ ~(op = "%" /\ x.type = "Double"))
          /\ x.odd = (l.odd \/ r.odd \/ x.type = "Double")

\* The item an operator makes has the fields IsResult names.
LEMMA ResultFacts ==
    ASSUME NEW op \in Arithmetic \cup Relations, NEW l \in Items, NEW r \in Items, NEW n \in Value
    PROVE  IsResult(Result(op, l, r, n), op, l, r, n)
<1> DEFINE t == IF op \in Relations THEN "Boolean"
                ELSE IF "String" \in {l.type, r.type} THEN "String"
                ELSE IF "Double" \in {l.type, r.type} THEN "Double" ELSE "Int"
           known == op \in Relations \/ (l.known /\ r.known /\ t # "String")
           sound == known /\ ~(op = "%" /\ t = "Double")
           odd == op \in Arithmetic /\ (l.odd \/ r.odd \/ t = "Double")
<1>1. t \in Named
  BY DEF Named
<1>2. known \in BOOLEAN /\ sound \in BOOLEAN /\ odd \in BOOLEAN
  BY ChangedFacts
<1>3. Result(op, l, r, n) = Item(t, n, known, sound, odd)
  BY DEF Result
<1>4. /\ op \in Relations => t = "Boolean" /\ known /\ sound /\ ~odd
      /\ op \notin Relations =>
            /\ t = IF "String" \in {l.type, r.type} THEN "String"
                   ELSE IF "Double" \in {l.type, r.type} THEN "Double" ELSE "Int"
            /\ known = (l.known /\ r.known /\ t # "String")
            /\ odd = (l.odd \/ r.odd \/ t = "Double")
  BY DEF Arithmetic, Relations
<1>5. sound = (known /\ ~(op = "%" /\ t = "Double"))
  OBVIOUS
<1> HIDE DEF t, known, sound, odd
<1>6. PICK x : x = Item(t, n, known, sound, odd)
  OBVIOUS
<1>7. /\ x \in Items /\ x.type = t /\ x.value = n /\ x.known = known /\ x.sound = sound
      /\ x.odd = odd
  BY <1>1, <1>2, <1>6, ItemFacts
<1>8. QED
  BY <1>1, <1>3, <1>4, <1>5, <1>6, <1>7 DEF IsResult

\* What an operator is accepted for is what the text computes.
LEMMA OperatorTypes ==
    ASSUME NEW op \in Operators, NEW l \in Items, NEW r \in Items, NEW n,
           OperandAgrees(made, l, Left), OperandAgrees(made, r, Top), OperatorChecks(op),
           NEW x, IsResult(x, op, l, r, n)
    PROVE  /\ x.known => GeneratedType(op) = x.type /\ IsDouble(op) = (x.type = "Double")
           /\ ~x.odd => CheckedType(op) = x.type
<1>1. op \in Arithmetic \cup Relations
  BY ValuesAssumption DEF ValuesAssumption
<1>2. /\ op \in Relations => x.type = "Boolean" /\ x.known /\ x.sound /\ ~x.odd
      /\ op \notin Relations =>
            /\ x.type = IF "String" \in {l.type, r.type} THEN "String"
                        ELSE IF "Double" \in {l.type, r.type} THEN "Double" ELSE "Int"
            /\ x.known = (l.known /\ r.known /\ x.type # "String")
            /\ x.odd = (l.odd \/ r.odd \/ x.type = "Double")
  BY DEF IsResult
<1>3. /\ l.known \in BOOLEAN /\ r.known \in BOOLEAN /\ l.odd \in BOOLEAN /\ r.odd \in BOOLEAN
      /\ l.type \in Named \cup ArrayTypes /\ r.type \in Named \cup ArrayTypes
  BY ChangedFacts
<1>4. /\ l.known => Left.gen = l.type
      /\ r.known => Top.gen = r.type
      /\ ~l.odd => Left.type = l.type /\ l.type \in Named
      /\ ~r.odd => Top.type = r.type /\ r.type \in Named
  BY <1>3 DEF OperandAgrees
<1>5. CASE op \in Relations
  <2>1. GeneratedType(op) = "Boolean" /\ CheckedType(op) = "Boolean"
    BY <1>5 DEF GeneratedType, CheckedType, Relations, Concatenates
  <2>2. ~IsDouble(op)
    BY <1>5 DEF IsDouble, Arithmetic, Relations
  <2>3. IsDouble(op) = (x.type = "Double")
    BY <1>2, <1>5, <2>2 DEF IsDouble
  <2>4. QED
    BY <1>2, <1>5, <2>1, <2>3
<1>6. CASE op \notin Relations
  <2>1. op \in Arithmetic
    BY <1>1, <1>6
  <2>2. ASSUME x.known
        PROVE  GeneratedType(op) = x.type /\ IsDouble(op) = (x.type = "Double")
    <3>1. Left.gen = l.type /\ Top.gen = r.type /\ "String" \notin {l.type, r.type}
      BY <1>2, <1>3, <1>4, <1>6, <2>2
    <3>2. IsDouble(op) = ("Double" \in {l.type, r.type})
      BY <2>1, <3>1 DEF IsDouble
    <3>3. x.type = IF "Double" \in {l.type, r.type} THEN "Double" ELSE "Int"
      BY <1>2, <1>6, <3>1
    <3>4. GeneratedType(op) = IF IsDouble(op) THEN "Double" ELSE "Int"
      BY <1>6 DEF GeneratedType
    <3>5. ("Double" \in {l.type, r.type}) = (x.type = "Double")
      BY <3>3
    <3>6. QED
      BY <3>2, <3>3, <3>4, <3>5
  <2>3. ASSUME ~x.odd
        PROVE  CheckedType(op) = x.type
    <3>1. ~l.odd /\ ~r.odd /\ x.type # "Double"
      BY <1>2, <1>3, <1>6, <2>3
    <3>2. Left.type = l.type /\ l.type \in Named /\ Top.type = r.type /\ r.type \in Named
      BY <1>4, <3>1
    <3>3. LegalOperands(op, l, r)
      BY <3>2, OperatorJudged
    <3>4. /\ IsString(Left.type) = (l.type = "String") /\ IsString(Top.type) = (r.type = "String")
      BY <3>2, CompatibleFacts
    <3>5. Concatenates(op) = (op = "+" /\ "String" \in {l.type, r.type})
      BY <3>4 DEF Concatenates
    <3>6. CASE "String" \in {l.type, r.type}
      <4>1. op = "+"
        BY <1>6, <3>3, <3>6 DEF LegalOperands, Numbers, Relations
      <4>2. QED
        BY <1>2, <1>6, <3>5, <3>6, <4>1 DEF CheckedType
    <3>7. CASE "String" \notin {l.type, r.type}
      <4>1. {l.type, r.type} \subseteq Numbers
        BY <1>6, <3>3, <3>7 DEF LegalOperands, Relations
      <4>2. l.type = "Int" /\ r.type = "Int" /\ x.type = "Int"
        BY <1>2, <1>6, <3>1, <3>7, <4>1 DEF Numbers
      <4>3. check_type_compatibility("Int", "Int")
        BY DEF check_type_compatibility, Unset
      <4>4. QED
        BY <1>6, <3>2, <3>5, <3>7, <4>2, <4>3 DEF CheckedType
    <3>8. QED
      BY <3>6, <3>7
  <2>4. QED
    BY <2>2, <2>3
<1>7. QED
  BY <1>5, <1>6

\* The operands of an operator, and what the text says of them.
LEMMA OperandsOfOperator ==
    ASSUME TypeOK, Agrees, Len(nodes) >= 2
    PROVE  LET l == Now.operands[Len(Now.operands) - 1]
               r == Now.operands[Len(Now.operands)]
           IN  /\ l \in Items /\ OperandAgrees(made, l, Left) /\ Left \in Node
               /\ r \in Items /\ OperandAgrees(made, r, Top) /\ Top \in Node
<1>1. Len(Now.operands) = Len(nodes) /\ Len(nodes) \in Nat
  BY DEF Agrees, OperandsAgree, TypeOK
<1>2. Len(nodes) \in 1 .. Len(nodes) /\ Len(nodes) - 1 \in 1 .. Len(nodes)
  BY <1>1
<1>3. QED
  BY <1>1, <1>2, OperandsOfStep, NodeFacts DEF Left, Top

\* An operator leaves its result in the width the types of its operands ask for.
LEMMA OperatorAgreed ==
    ASSUME TypeOK, Shape, Agrees, NEW op \in Operators, Operator(op)
    PROVE  Agrees'
<1> DEFINE e == [kind |-> "operator", op |-> op]
           w == IF IsDouble(op) THEN "double" ELSE "int"
           nothing == op = "%" /\ IsDouble(op)
           cell == IF nothing THEN Empty
                   ELSE IF w = "double" THEN Whole(Here) ELSE Half(Here, Empty)
           node == [parse |-> ParseType(op), type |-> CheckedType(op),
                    gen |-> GeneratedType(op), label |-> FALSE, cell |-> cell]
           l == Now.operands[Len(Now.operands) - 1]
           r == Now.operands[Len(Now.operands)]
<1>1. e \in Event /\ e.kind = "operator" /\ e.op = op /\ Reading(e)
  BY EventFacts DEF Operator, Runs, Accepted
<1>2. /\ Push(2, node) /\ Represents(w) /\ UNCHANGED <<entries, frame, heap>> /\ Checks(e)
      /\ Len(nodes) >= 2 /\ w \in Width
  BY DEF Operator, Runs, Accepted, Reading, Needs, Width
<1>3. OperatorChecks(op)
  BY <1>1, <1>2 DEF Checks
<1>4. /\ made \in Seq(Width) /\ made' = Append(made, w) /\ DOMAIN Now = Fields
      /\ Now.operands \in Seq(Items) /\ Here \in Value /\ Here = Len(made) + 1
      /\ Len(Now.operands) = Len(nodes)
  BY <1>1, <1>2, StepFacts
<1>5. /\ l \in Items /\ OperandAgrees(made, l, Left) /\ Left \in Node
      /\ r \in Items /\ OperandAgrees(made, r, Top) /\ Top \in Node
  BY <1>2, OperandsOfOperator
<1> HIDE DEF l, r
<1>6. PICK x : x = Result(op, l, r, Here)
  OBVIOUS
<1>7. IsResult(x, op, l, r, Here) /\ op \in Arithmetic \cup Relations
  BY <1>4, <1>5, <1>6, ResultFacts, ValuesAssumption DEF ValuesAssumption
<1>8. /\ x.known => GeneratedType(op) = x.type /\ IsDouble(op) = (x.type = "Double")
      /\ ~x.odd => CheckedType(op) = x.type
  BY <1>3, <1>5, <1>7, OperatorTypes
<1>9. /\ x \in Items /\ x.value = Here /\ x.type \in Named /\ x.type \notin ArrayTypes
      /\ x.sound => x.known /\ ~(op = "%" /\ x.type = "Double") /\ x.type # "String"
  BY <1>7, FullWidthFacts, ChangedFacts DEF IsResult, Arithmetic, Relations
<1>10. cell \in Cell /\ (~nothing => cell.low = Here /\ (w # "int" => cell.high = Here))
  BY <1>4, CellFacts
<1>11. ParseType(op) \in Type \cup {Unset} /\ CheckedType(op) \in Type /\ GeneratedType(op) \in Type
  <2>1. Len(nodes) - 1 \in 1 .. Len(nodes)
    BY <1>2 DEF TypeOK
  <2>2. ParseType(op) \in {Left.parse, "Double", "Boolean", Unset}
    BY DEF ParseType
  <2>3. CheckedType(op) \in {"Boolean", "String", "Int", "Double"}
        /\ GeneratedType(op) \in {"Boolean", "Double", "Int"}
    BY DEF CheckedType, GeneratedType
  <2>4. QED
    BY <1>5, <2>2, <2>3 DEF Node, Type, Named
<1>12. x.sound => FullWidth(x.type) = w /\ ~nothing
  BY <1>8, <1>9, FullWidthFacts
<1> HIDE DEF cell, w, nothing
<1>13. /\ node \in Node /\ node.type = CheckedType(op) /\ node.gen = GeneratedType(op)
       /\ node.label = FALSE /\ node.cell = cell
  BY <1>10, <1>11 DEF Node
<1> HIDE DEF node, e
<1>14. x.sound => Stands(made', cell, w, Here)
  BY <1>2, <1>4, <1>10, <1>12, StandsNew
<1>15. OperandAgrees(made', x, node)
  BY <1>8, <1>9, <1>12, <1>13, <1>14 DEF OperandAgrees
<1>16. 2 \in 0 .. Len(nodes) /\ 2 \in 0 .. Len(Now.operands)
  BY <1>2, <1>4 DEF TypeOK
<1> DEFINE os1 == Append(SubSeq(Now.operands, 1, Len(Now.operands) - 2), x)
<1>17. Becomes(Advance(Now, e, Here, Literally(prog, Here)), Now.variables, os1, Now.elements)
  BY <1>1, <1>4, <1>6, AdvanceOperator DEF l, r
<1>18. Stacked(os1, Now.operands, 2, x)
  BY <1>4, <1>9, <1>16, StackedFacts
<1> HIDE DEF os1
<1>19. QED
  BY <1>1, <1>2, <1>9, <1>13, <1>15, <1>16, <1>17, <1>18, PushAgreed

\* A call leaves its result in xmm0 or in the 4 bytes of eax, too few for a String.
LEMMA CallAgreed ==
    ASSUME TypeOK, Shape, Agrees, NEW f \in DOMAIN Signature, Call(f)
    PROVE  Agrees'
<1> DEFINE e == [kind |-> "call", f |-> f]
           t == Signature[f].result
           k == Arity(f)
           cell == IF t = "Double" THEN Whole(Here) ELSE Half(Here, Empty)
           node == [parse |-> Unset, type |-> t, gen |-> t, label |-> FALSE, cell |-> cell]
           x == Item(t, Here, TRUE, t # "String", FALSE)
<1>1. e \in Event /\ e.kind = "call" /\ e.f = f /\ Reading(e)
  BY EventFacts DEF Call, Runs, Accepted
<1>2. Push(k, node) /\ Represents(WidthOf(t)) /\ UNCHANGED <<entries, frame, heap>>
  BY DEF Call, Runs
<1>3. k \in Nat /\ k = Len(nodes) /\ t \in Named /\ t \in Type /\ t \in Named \cup ArrayTypes
  BY <1>1, SignatureFacts DEF Reading, Type
<1>4. WidthOf(t) \in Width /\ FullWidth(t) = WidthOf(t) /\ t \notin ArrayTypes
  BY <1>3, WidthFacts, FullWidthFacts
<1>5. /\ made \in Seq(Width) /\ made' = Append(made, WidthOf(t)) /\ DOMAIN Now = Fields
      /\ Now.operands \in Seq(Items) /\ Here \in Value /\ Here = Len(made) + 1
      /\ Len(Now.operands) = Len(nodes)
  BY <1>1, <1>2, <1>4, StepFacts
<1>6. cell \in Cell /\ cell.low = Here /\ (t = "Double" => cell.high = Here)
  BY <1>5, CellFacts
<1>7. /\ x \in Items /\ x.type = t /\ x.value = Here /\ x.known = TRUE
      /\ x.sound = (t # "String") /\ x.odd = FALSE
  <2> HIDE DEF t
  <2>1. CASE t = "String"
    <3>1. x = Item(t, Here, TRUE, FALSE, FALSE)
      BY <2>1
    <3> HIDE DEF x
    <3>2. QED
      BY <1>3, <1>5, <2>1, <3>1, ItemFacts, ZenonT(30)
  <2>2. CASE t # "String"
    <3>1. x = Item(t, Here, TRUE, TRUE, FALSE)
      BY <2>2
    <3> HIDE DEF x
    <3>2. QED
      BY <1>3, <1>5, <2>2, <3>1, ItemFacts, ZenonT(30)
  <2>3. QED
    BY <2>1, <2>2
<1> HIDE DEF cell, x
<1>8. /\ node \in Node /\ node.type = t /\ node.gen = t
      /\ node.label = FALSE /\ node.cell = cell
  BY <1>3, <1>6 DEF Node
<1>9. t # "String" /\ WidthOf(t) # "int" => t = "Double"
  BY <1>3, FullWidthFacts
<1>10. x.sound => Stands(made', cell, WidthOf(t), Here)
  BY <1>4, <1>5, <1>6, <1>7, <1>9, StandsNew
<1> HIDE DEF node, e, t, k
<1>11. OperandAgrees(made', x, node)
  BY <1>4, <1>7, <1>8, <1>10 DEF OperandAgrees
<1>12. k \in 0 .. Len(nodes) /\ k \in 0 .. Len(Now.operands)
  BY <1>3, <1>5
<1> DEFINE os1 == Append(SubSeq(Now.operands, 1, Len(Now.operands) - k), x)
<1>13. Becomes(Advance(Now, e, Here, Literally(prog, Here)), Now.variables, os1, Now.elements)
  BY <1>1, <1>5, AdvanceCall DEF x, t, k
<1>14. Stacked(os1, Now.operands, k, x)
  BY <1>5, <1>7, <1>12, StackedFacts
<1> HIDE DEF os1
<1>15. QED
  BY <1>1, <1>2, <1>4, <1>7, <1>8, <1>11, <1>12, <1>13, <1>14, PushAgreed

\* A step that leaves no operand, once variables and arrays are known to agree.
LEMMA StatementAgreed ==
    ASSUME TypeOK, Agrees, NEW e \in Event, Reading(e), NEW u \in Width, Represents(u),
           e.kind # "literal", nodes' = <<>>, NEW vs, NEW es,
           Becomes(Advance(Now, e, Here, Literally(prog, Here)), vs, <<>>, es),
           NEW m1, m1 = Now',
           VariablesAgree(made', m1, entries', frame'), ElementsAgree(made', m1, heap')
    PROVE  Agrees'
<1>1. Becomes(m1, vs, <<>>, es)
  BY StepFacts
<1>2. DOMAIN m1 = Fields /\ m1.operands = <<>>
  BY <1>1 DEF Becomes
<1>3. OperandsAgree(made', m1, nodes')
  BY <1>2, NoOperands
<1>4. QED
  BY <1>2, <1>3, AgreesAfter

\* println leaves nothing.
LEMMA PrintlnAgreed ==
    ASSUME TypeOK, Shape, Agrees, Println
    PROVE  Agrees'
<1> DEFINE e == [kind |-> "println"]
<1>1. e \in Event /\ e.kind = "println" /\ Reading(e)
  BY EventFacts DEF Println, Runs, Accepted
<1>2. Represents("none") /\ UNCHANGED <<entries, frame, heap>> /\ nodes' = <<>> /\ "none" \in Width
  BY DEF Println, Runs, Width
<1> HIDE DEF e
<1>3. DOMAIN Now = Fields /\ Now' = Advance(Now, e, Here, Literally(prog, Here))
  BY <1>1, <1>2, StepFacts
<1>4. Becomes(Advance(Now, e, Here, Literally(prog, Here)), Now.variables, <<>>, Now.elements)
  BY <1>1, <1>3, AdvancePrintln
<1>5. PICK m1 : m1 = Now'
  OBVIOUS
<1>6. m1.variables = Now.variables /\ m1.elements = Now.elements
  BY <1>3, <1>4, <1>5 DEF Becomes
<1>7. VariablesAgree(made', m1, entries', frame') /\ ElementsAgree(made', m1, heap')
  BY <1>1, <1>2, <1>6, RestStays
<1>8. QED
  BY <1>1, <1>2, <1>4, <1>5, <1>7, StatementAgreed

\* The operand a statement takes.
LEMMA OperandOfStatement ==
    ASSUME TypeOK, Agrees, Len(nodes) >= 1
    PROVE  LET r == Now.operands[Len(Now.operands)]
           IN  /\ r \in Items /\ OperandAgrees(made, r, Top) /\ Top \in Node
               /\ r.value \in Value /\ r.type \in Named \cup ArrayTypes
<1>1. Len(Now.operands) = Len(nodes) /\ Len(nodes) \in 1 .. Len(nodes)
  BY DEF Agrees, OperandsAgree, TypeOK
<1>2. QED
  BY <1>1, OperandsOfStep, NodeFacts, ChangedFacts DEF Top

\* A move of the variable's type brings all of the value, when it is of that type.
LEMMA MovedStands ==
    ASSUME NEW reps, NEW r \in Items, NEW node \in Node, OperandAgrees(reps, r, node),
           NEW old, NEW t, Moves(t, r)
    PROVE  t \in Named /\ Stands(reps, Moved(t, node, old), FullWidth(t), r.value)
<1> DEFINE cell == IF node.label /\ t # "String" THEN Empty ELSE node.cell
<1>1. r.sound /\ r.type = t /\ t \in Named /\ t \notin ArrayTypes
  BY ChangedFacts DEF Moves
<1>2. Stands(reps, node.cell, FullWidth(t), r.value) /\ (node.label => t = "String")
  BY <1>1 DEF OperandAgrees
<1>3. cell = node.cell
  BY <1>2
<1>4. Moved(t, node, old) = IF t \in {"Double", "String"} THEN cell ELSE Half(cell.low, old)
  BY DEF Moved
<1> HIDE DEF cell
<1>5. CASE t \in {"Double", "String"}
  BY <1>1, <1>2, <1>3, <1>4, <1>5
<1>6. CASE t \notin {"Double", "String"}
  <2>1. FullWidth(t) = "int"
    BY <1>1, <1>6, FullWidthFacts
  <2>2. Half(cell.low, old).low = cell.low
    BY DEF Half
  <2>3. PICK c : c = Moved(t, node, old)
    OBVIOUS
  <2>4. c.low = node.cell.low
    BY <1>3, <1>4, <1>6, <2>2, <2>3
  <2>5. Stands(reps, c, "int", r.value)
    BY <1>2, <2>1, <2>4 DEF Stands
  <2>6. QED
    BY <1>1, <2>1, <2>3, <2>5
<1>7. QED
  BY <1>1, <1>5, <1>6

\* A variable that gets a value by a move of its type.
LEMMA MovedAgrees ==
    ASSUME NEW reps \in Seq(Width), NEW u \in Width, NEW r \in Items, NEW node \in Node,
           OperandAgrees(reps, r, node), NEW old, NEW t, NEW x \in Items, x.value = r.value,
           x.odd = ~x.known, x.known => t = x.type, t \in ArrayTypes => x.known,
           x.sound => x.known /\ Moves(t, r)
    PROVE  /\ VariableAgrees(Append(reps, u), x, t, Moved(t, node, old))
           /\ \A elements : PointsTo(x, elements)
<1>1. ASSUME x.sound
      PROVE  t \in Named /\ t = x.type /\ t \notin ArrayTypes
             /\ Stands(Append(reps, u), Moved(t, node, old), FullWidth(t), x.value)
  <2>1. Moves(t, r) /\ t = x.type
    BY <1>1
  <2>2. t \in Named /\ Stands(reps, Moved(t, node, old), FullWidth(t), r.value)
    BY <2>1, MovedStands
  <2>3. t \notin ArrayTypes /\ r.value \in Value
    BY <2>1, ChangedFacts DEF Moves
  <2>4. Stands(Append(reps, u), Moved(t, node, old), FullWidth(t), r.value)
    BY <2>2, <2>3, StandsStays
  <2>5. QED
    BY <2>1, <2>2, <2>3, <2>4
<1>2. QED
  BY <1>1 DEF VariableAgrees, PointsTo

\* The item of a declared variable, field by field.
IsNew(x, e, r, lit) ==
    /\ x \in Items /\ x.value = r.value /\ x.odd = ~x.known
    /\ x.type = IF e.type = "inferred" THEN r.type ELSE e.type
    /\ x.known => e.type # "inferred" \/ lit
    /\ e.type # "inferred" => x.known
    /\ x.sound => x.known /\ e.type # "inferred" /\ Moves(e.type, r)

\* The item of a declaration has the fields IsNew names.
LEMMA NewVariableFacts ==
    ASSUME NEW e, NEW r \in Items, NEW lit \in BOOLEAN,
           e.type # "inferred" => e.type \in Named \cup ArrayTypes
    PROVE  IsNew(NewVariable(e, r, lit), e, r, lit)
<1>1. r.type \in Named \cup ArrayTypes /\ r.value \in Value
  BY ChangedFacts
<1>2. PICK x : x = NewVariable(e, r, lit)
  OBVIOUS
<1>3. CASE e.type = "inferred"
  <2>1. CASE lit
    <3>1. x = Item(r.type, r.value, TRUE, FALSE, FALSE)
      BY <1>2, <1>3, <2>1 DEF NewVariable
    <3>2. /\ x \in Items /\ x.type = r.type /\ x.value = r.value
          /\ x.known = TRUE /\ x.sound = FALSE /\ x.odd = FALSE
      BY <1>1, <3>1 DEF Item, Items
    <3>3. QED
      BY <1>2, <1>3, <2>1, <3>2 DEF IsNew
  <2>2. CASE ~lit
    <3>1. x = Item(r.type, r.value, FALSE, FALSE, TRUE)
      BY <1>2, <1>3, <2>2 DEF NewVariable
    <3>2. /\ x \in Items /\ x.type = r.type /\ x.value = r.value
          /\ x.known = FALSE /\ x.sound = FALSE /\ x.odd = TRUE
      BY <1>1, <3>1 DEF Item, Items
    <3>3. QED
      BY <1>2, <1>3, <3>2 DEF IsNew
  <2>3. QED
    BY <2>1, <2>2
<1>4. CASE e.type # "inferred"
  <2>1. CASE Moves(e.type, r)
    <3>1. x = Item(e.type, r.value, TRUE, TRUE, FALSE)
      BY <1>2, <1>4, <2>1 DEF NewVariable, Moves
    <3>2. /\ x \in Items /\ x.type = e.type /\ x.value = r.value
          /\ x.known = TRUE /\ x.sound = TRUE /\ x.odd = FALSE
      BY <1>1, <1>4, <3>1 DEF Item, Items
    <3>3. QED
      BY <1>2, <1>4, <2>1, <3>2 DEF IsNew
  <2>2. CASE ~Moves(e.type, r)
    <3>1. x = Item(e.type, r.value, TRUE, FALSE, FALSE)
      BY <1>2, <1>4, <2>2 DEF NewVariable, Moves
    <3>2. /\ x \in Items /\ x.type = e.type /\ x.value = r.value
          /\ x.known = TRUE /\ x.sound = FALSE /\ x.odd = FALSE
      BY <1>1, <1>4, <3>1 DEF Item, Items
    <3>3. QED
      BY <1>2, <1>4, <3>2 DEF IsNew
  <2>3. QED
    BY <2>1, <2>2
<1>5. QED
  BY <1>3, <1>4

\* A declaration with a type.
LEMMA DeclareTypedAgreed ==
    ASSUME TypeOK, Shape, Agrees, NEW t \in Declared, DeclareTyped(t)
    PROVE  Agrees'
<1> DEFINE e == [kind |-> "declare", type |-> t]
           new == Len(entries) + 1
<1>1. e \in Event /\ e.kind = "declare" /\ e.type = t /\ Reading(e)
  BY EventFacts DEF DeclareTyped, Runs, Accepted
<1>2. /\ nodes' = <<>> /\ Represents("none") /\ entries' = Append(entries, t) /\ UNCHANGED heap
      /\ frame' = [frame EXCEPT ![Slot(new)] = Moved(t, Top, @)]
      /\ Len(nodes) >= 1 /\ t # "inferred" /\ "none" \in Width
  BY DEF DeclareTyped, Declares, Runs, Accepted, Reading, Needs, Width
<1>3. t \in Type /\ t \in Named \cup ArrayTypes
  BY <1>2, ValuesAssumption DEF ValuesAssumption, Type
<1>4. /\ made \in Seq(Width) /\ made' = Append(made, "none") /\ DOMAIN Now = Fields
      /\ VariablesAgree(made, Now, entries, frame) /\ ElementsAgree(made, Now, heap)
      /\ Now' = Advance(Now, e, Here, Literally(prog, Here))
      /\ Len(entries) < P + Q + Locals
  BY <1>1, <1>2, StepFacts, ReadingFacts
<1>5. new \in Variable /\ frame[Slot(new)] \in Cell
  BY <1>4, NewFacts
<1>6. PICK r : r = Now.operands[Len(Now.operands)]
  OBVIOUS
<1>7. r \in Items /\ OperandAgrees(made, r, Top) /\ Top \in Node
  BY <1>2, <1>6, OperandOfStatement
<1> DEFINE cell == Moved(t, Top, frame[Slot(new)])
<1>8. cell \in Cell /\ frame' = [frame EXCEPT ![Slot(new)] = cell]
  BY <1>2, <1>5, <1>7, MovedFacts
<1>9. WrittenTo(new, cell)
  BY <1>5, <1>8, WriteFacts
<1> HIDE DEF e
<1>10. PICK lit \in BOOLEAN : lit = Literally(prog, Here)
  BY DEF Literally
<1>11. PICK x : x = NewVariable(e, r, lit)
  OBVIOUS
<1>12. IsNew(x, e, r, lit)
  BY <1>1, <1>3, <1>7, <1>11, NewVariableFacts
<1>13. /\ x \in Items /\ x.value = r.value /\ x.odd = ~x.known /\ x.type = t /\ x.known
       /\ x.sound => x.known /\ Moves(t, r)
  BY <1>1, <1>2, <1>12 DEF IsNew
<1>14. VariableAgrees(made', x, t, cell) /\ \A elements : PointsTo(x, elements)
  BY <1>2, <1>4, <1>7, <1>13, MovedAgrees
<1> HIDE DEF cell
<1>15. PICK m1 : m1 = Now'
  OBVIOUS
<1>16. Becomes(Advance(Now, e, Here, Literally(prog, Here)), Added(Now.variables, x), <<>>,
               Now.elements)
  BY <1>1, <1>2, <1>4, <1>6, <1>10, <1>11, AdvanceDeclare
<1>17. m1.variables = Added(Now.variables, x) /\ m1.elements = Now.elements
  BY <1>4, <1>15, <1>16 DEF Becomes
<1>18. ElementsAgree(made', m1, heap') /\ TypesKept(Now.elements, m1.elements)
  BY <1>2, <1>4, <1>17, ElementsKept
<1>19. PointsTo(x, m1.elements)
  BY <1>14
<1>20. VariablesAgree(made', m1, entries', frame')
  BY <1>2, <1>3, <1>4, <1>8, <1>9, <1>13, <1>14, <1>17, <1>18, <1>19, VariablesDeclared
<1>21. QED
  BY <1>1, <1>2, <1>15, <1>16, <1>18, <1>20, StatementAgreed

\* A declaration without one: its type is right when a literal gave it.
LEMMA DeclareInferredAgreed ==
    ASSUME TypeOK, Shape, Agrees, "inferred" \in Declared, DeclareInferred
    PROVE  Agrees'
<1> DEFINE e == [kind |-> "declare", type |-> "inferred"]
<1>1. e \in Event /\ e.kind = "declare" /\ e.type = "inferred" /\ Reading(e)
  BY EventFacts DEF DeclareInferred, Runs, Accepted
<1>2. /\ nodes' = <<>> /\ Represents("none") /\ entries' = Append(entries, InferredType)
      /\ UNCHANGED <<heap, frame>> /\ Len(nodes) >= 1 /\ "none" \in Width
  BY DEF DeclareInferred, Declares, Runs, Accepted, Reading, Needs, Width
<1>3. /\ made \in Seq(Width) /\ made' = Append(made, "none") /\ DOMAIN Now = Fields
      /\ VariablesAgree(made, Now, entries, frame) /\ ElementsAgree(made, Now, heap)
      /\ Now' = Advance(Now, e, Here, Literally(prog, Here))
      /\ Len(Now.operands) = Len(nodes) /\ Here = Len(prog) + 1
  BY <1>1, <1>2, StepFacts DEF Here
<1>4. PICK r : r = Now.operands[Len(Now.operands)]
  OBVIOUS
<1>5. r \in Items /\ OperandAgrees(made, r, Top) /\ Top \in Node /\ r.type \in Named \cup ArrayTypes
  BY <1>2, <1>4, OperandOfStatement
<1>6. Top.parse \in Type \cup {Unset} /\ Top.parse \notin ArrayTypes
  <2>1. Len(nodes) \in DOMAIN nodes
    BY <1>2 DEF TypeOK
  <2>2. QED
    BY <1>2, <2>1, TopFacts DEF Shape, Parsed, Top
<1>7. InferredType \in Type /\ InferredType \notin ArrayTypes
  BY <1>6, ArrayFacts DEF InferredType, Type
<1>8. PICK lit \in BOOLEAN : lit = Literally(prog, Here)
  BY DEF Literally
<1>9. lit => InferredType = r.type
  <2>1. SUFFICES ASSUME lit PROVE InferredType = r.type
    OBVIOUS
  <2>2. Literally(prog, Len(prog) + 1)
    BY <1>3, <1>8, <2>1
  <2>3. nodes[Len(nodes)].parse = Now.operands[Len(nodes)].type
    BY <2>2 DEF Agrees, LiteralAgrees
  <2>4. Top.parse = r.type
    BY <1>3, <1>4, <2>3 DEF Top
  <2>5. r.type # Unset
    BY <1>5, ArrayFacts DEF Named, Unset
  <2>6. QED
    BY <2>4, <2>5 DEF InferredType
<1> HIDE DEF e
<1>10. PICK x : x = NewVariable(e, r, lit)
  OBVIOUS
<1>11. IsNew(x, e, r, lit)
  BY <1>1, <1>5, <1>10, NewVariableFacts
<1>12. /\ x \in Items /\ x.odd = ~x.known /\ x.type = r.type /\ (x.known => lit) /\ ~x.sound
  BY <1>1, <1>11 DEF IsNew
<1>13. PICK t \in Type : t = InferredType
  BY <1>7
<1>14. \A cell : VariableAgrees(made', x, t, cell)
  BY <1>7, <1>9, <1>12, <1>13 DEF VariableAgrees
<1>15. PICK m1 : m1 = Now'
  OBVIOUS
<1>16. Becomes(Advance(Now, e, Here, Literally(prog, Here)), Append(Now.variables, x), <<>>,
               Now.elements)
  BY <1>1, <1>3, <1>4, <1>8, <1>10, AdvanceDeclare
<1>17. m1.variables = Append(Now.variables, x) /\ m1.elements = Now.elements
  BY <1>3, <1>15, <1>16 DEF Becomes
<1>18. ElementsAgree(made', m1, heap') /\ TypesKept(Now.elements, m1.elements)
  BY <1>2, <1>3, <1>17, ElementsKept
<1>19. VariablesAgree(made', m1, entries', frame')
  BY <1>2, <1>3, <1>12, <1>13, <1>14, <1>17, <1>18, VariablesInferred
<1>20. QED
  BY <1>1, <1>2, <1>15, <1>16, <1>18, <1>19, StatementAgreed

\* Variables and cells after one was written.
LEMMA WriteAgreed ==
    ASSUME TypeOK, Shape, Agrees, NEW e \in Event, Reading(e), e.kind # "literal",
           NEW u \in Width, Represents(u), UNCHANGED <<entries, heap>>, nodes' = <<>>,
           NEW v \in 1 .. Len(entries), NEW cell \in Cell, WrittenTo(v, cell), NEW y \in Items,
           Becomes(Advance(Now, e, Here, Literally(prog, Here)), Written(Now.variables, v, y),
                   <<>>, Now.elements),
           VariableAgrees(made', y, entries[v], cell), PointsTo(y, Now.elements)
    PROVE  Agrees'
<1>1. /\ made \in Seq(Width) /\ made' = Append(made, u)
      /\ VariablesAgree(made, Now, entries, frame) /\ ElementsAgree(made, Now, heap)
      /\ Now' = Advance(Now, e, Here, Literally(prog, Here))
  BY StepFacts
<1>2. PICK m1 : m1 = Now'
  OBVIOUS
<1>3. Becomes(m1, Written(Now.variables, v, y), <<>>, Now.elements)
  BY <1>1, <1>2
<1>4. m1.variables = Written(Now.variables, v, y) /\ m1.elements = Now.elements
  BY <1>3 DEF Becomes
<1>5. ElementsAgree(made', m1, heap')
  BY <1>1, <1>4, ElementsKept
<1>6. VariablesAgree(made', m1, entries', frame')
  BY <1>1, <1>4, VariablesWritten
<1>7. QED
  BY <1>2, <1>5, <1>6, StatementAgreed

\* An assignment.
LEMMA AssignAgreed ==
    ASSUME TypeOK, Shape, Agrees, NEW v \in Variable, Assign(v)
    PROVE  Agrees'
<1> DEFINE e == [kind |-> "assign", var |-> v]
           t == entries[v]
           cell == Moved(t, Top, frame[Slot(v)])
<1>1. e \in Event /\ e.kind = "assign" /\ e.var = v /\ Reading(e)
  BY EventFacts DEF Assign, Runs, Accepted
<1>2. /\ nodes' = <<>> /\ Represents("none") /\ UNCHANGED <<entries, heap>>
      /\ frame' = [frame EXCEPT ![Slot(v)] = Moved(t, Top, @)]
      /\ Len(nodes) >= 1 /\ v <= Len(entries) /\ "none" \in Width
  BY DEF Assign, Runs, Accepted, Reading, Needs, Width
<1>3. v \in 1 .. Len(entries) /\ frame[Slot(v)] \in Cell
  BY <1>2, SlotFacts DEF TypeOK, Variable
<1>4. made \in Seq(Width) /\ made' = Append(made, "none") /\ DOMAIN Now = Fields
  BY <1>1, <1>2, StepFacts
<1>5. PICK r : r = Now.operands[Len(Now.operands)]
  OBVIOUS
<1>6. /\ r \in Items /\ OperandAgrees(made, r, Top) /\ Top \in Node /\ r.value \in Value
  BY <1>2, <1>5, OperandOfStatement
<1>7. cell \in Cell /\ frame' = [frame EXCEPT ![Slot(v)] = cell]
  BY <1>2, <1>3, <1>6, MovedFacts
<1>8. WrittenTo(v, cell)
  BY <1>7, WriteFacts
<1>9. PICK x : x = Now.variables[v]
  OBVIOUS
<1>10. x \in Items /\ VariableAgrees(made, x, t, frame[Slot(v)])
  BY <1>3, <1>9, VariablesOfStep
<1> HIDE DEF e
<1>11. PICK y : y = Holding(x, r.value, x.known /\ Moves(x.type, r))
  OBVIOUS
<1>12. /\ y \in Items /\ y.value = r.value /\ y.type = x.type /\ y.known = x.known
       /\ y.odd = x.odd /\ (y.sound => x.known /\ Moves(x.type, r))
  <2>1. CASE x.known /\ Moves(x.type, r)
    <3>1. y = Holding(x, r.value, TRUE)
      BY <1>11, <2>1, ChangedFacts DEF Moves
    <3>2. QED
      BY <1>6, <1>10, <2>1, <3>1, HoldingFacts
  <2>2. CASE ~(x.known /\ Moves(x.type, r))
    <3>1. y = Holding(x, r.value, FALSE)
      BY <1>11, <2>2, ChangedFacts DEF Moves
    <3>2. QED
      BY <1>6, <1>10, <2>2, <3>1, HoldingFacts
  <2>3. QED
    BY <2>1, <2>2
<1>13. /\ y.odd = ~y.known /\ (y.known => t = y.type) /\ (t \in ArrayTypes => y.known)
       /\ y.sound => y.known /\ Moves(t, r)
  BY <1>10, <1>12 DEF VariableAgrees
<1>14. VariableAgrees(made', y, t, cell) /\ \A elements : PointsTo(y, elements)
  BY <1>2, <1>4, <1>6, <1>12, <1>13, MovedAgrees
<1>15. Becomes(Advance(Now, e, Here, Literally(prog, Here)), Written(Now.variables, v, y),
               <<>>, Now.elements)
  BY <1>1, <1>4, <1>5, <1>9, <1>11, AdvanceAssign
<1> HIDE DEF cell, t
<1>16. VariableAgrees(made', y, entries[v], cell)
  BY <1>14 DEF t
<1>17. QED
  BY <1>1, <1>2, <1>3, <1>7, <1>8, <1>12, <1>14, <1>15, <1>16, WriteAgreed

\* An increment, which is right for an Int.
LEMMA IncrementAgreed ==
    ASSUME TypeOK, Shape, Agrees, NEW v \in Variable, Increment(v)
    PROVE  Agrees'
<1> DEFINE e == [kind |-> "increment", var |-> v]
           t == entries[v]
<1> PICK old \in Contents(v) : frame' = [frame EXCEPT ![Slot(v)] = Half(Here, old)]
  BY DEF Increment
<1> DEFINE cell == Half(Here, old)
<1>1. e \in Event /\ e.kind = "increment" /\ e.var = v /\ Reading(e)
  BY EventFacts DEF Increment, Runs, Accepted
<1>2. /\ Represents("int") /\ UNCHANGED <<entries, heap, nodes>>
      /\ Len(nodes) = 0 /\ v <= Len(entries) /\ "int" \in Width
  BY DEF Increment, Runs, Accepted, Reading, Needs, Width
<1>3. v \in 1 .. Len(entries) /\ old \in Cell /\ nodes' = <<>>
  BY <1>2, ContentsFacts DEF TypeOK, Variable
<1>4. /\ made \in Seq(Width) /\ made' = Append(made, "int") /\ DOMAIN Now = Fields
      /\ Here \in Value /\ Here = Len(made) + 1
  BY <1>1, <1>2, StepFacts
<1>5. cell \in Cell /\ frame' = [frame EXCEPT ![Slot(v)] = cell] /\ cell.low = Here
  BY <1>2, <1>3, <1>4, CellFacts
<1>6. WrittenTo(v, cell)
  BY <1>5, WriteFacts
<1>7. PICK x : x = Now.variables[v]
  OBVIOUS
<1>8. x \in Items /\ VariableAgrees(made, x, t, frame[Slot(v)])
  BY <1>3, <1>7, VariablesOfStep
<1> HIDE DEF e
<1>9. PICK y : y = Holding(x, Here, x.known /\ x.type = "Int")
  OBVIOUS
<1>10. /\ y \in Items /\ y.value = Here /\ y.type = x.type /\ y.known = x.known
       /\ y.odd = x.odd /\ (y.sound => x.known /\ x.type = "Int")
  <2>1. CASE x.known /\ x.type = "Int"
    <3>1. y = Holding(x, Here, TRUE)
      BY <1>9, <2>1
    <3>2. QED
      BY <1>4, <1>8, <2>1, <3>1, HoldingFacts
  <2>2. CASE ~(x.known /\ x.type = "Int")
    <3>1. y = Holding(x, Here, FALSE)
      BY <1>9, <2>2
    <3>2. QED
      BY <1>4, <1>8, <2>2, <3>1, HoldingFacts
  <2>3. QED
    BY <2>1, <2>2
<1>11. Stands(made', cell, "int", Here)
  BY <1>2, <1>4, <1>5, StandsNew
<1>12. FullWidth("Int") = "int" /\ "Int" \notin ArrayTypes
  BY FullWidthFacts
<1>13. VariableAgrees(made', y, t, cell) /\ \A elements : PointsTo(y, elements)
  BY <1>8, <1>10, <1>11, <1>12 DEF VariableAgrees, PointsTo
<1>14. Becomes(Advance(Now, e, Here, Literally(prog, Here)), Written(Now.variables, v, y),
               <<>>, Now.elements)
  BY <1>1, <1>4, <1>7, <1>9, AdvanceIncrement
<1> HIDE DEF cell, t
<1>15. VariableAgrees(made', y, entries[v], cell)
  BY <1>13 DEF t
<1>16. QED
  BY <1>1, <1>2, <1>3, <1>5, <1>6, <1>10, <1>13, <1>14, <1>15, WriteAgreed

\* An element keeps what fits in 4 bytes.
LEMMA KeptAgrees ==
    ASSUME NEW reps \in Seq(Width), NEW u \in Width, NEW r \in Items, NEW node \in Node,
           OperandAgrees(reps, r, node), NEW t \in Named
    PROVE  /\ Kept(t, r) \in Items /\ Kept(t, r).type = t
           /\ ElementAgrees(Append(reps, u), Kept(t, r), Moved("Int", node, Empty).low)
<1>1. PICK y : y = Kept(t, r)
  OBVIOUS
<1>2. PICK half : half = Moved("Int", node, Empty).low
  OBVIOUS
<1>3. /\ r.value \in Value /\ r.sound \in BOOLEAN /\ r.type \in Named \cup ArrayTypes
      /\ t \in Named \cup ArrayTypes
  BY ChangedFacts
<1>4. CASE Moves(t, r) /\ t \in {"Int", "Boolean"}
  <2>1. y = Item(t, r.value, TRUE, TRUE, FALSE)
    BY <1>1, <1>4 DEF Kept, Moves
  <2>2. /\ y \in Items /\ y.type = t /\ y.value = r.value
        /\ y.known = TRUE /\ y.sound = TRUE /\ y.odd = FALSE
    BY <1>3, <2>1, ItemFacts, ZenonT(30)
  <2>3. FullWidth(t) = "int" /\ t \notin {"Double", "String"}
    BY <1>4, FullWidthFacts
  <2>4. r.sound /\ r.type = t
    BY <1>4 DEF Moves
  <2>5. Stands(reps, node.cell, "int", r.value) /\ (node.label => t = "String")
    BY <2>3, <2>4 DEF OperandAgrees
  <2>6. half = node.cell.low
    BY <1>2, <2>3, <2>5 DEF Moved, Half
  <2>7. PICK c : c = Half(half, Empty)
    OBVIOUS
  <2>8. c.low = half
    BY <2>7 DEF Half
  <2>9. Stands(reps, c, "int", r.value)
    BY <2>5, <2>6, <2>8 DEF Stands
  <2>10. Stands(Append(reps, u), c, "int", r.value)
    BY <1>3, <2>9, StandsStays
  <2>11. ElementAgrees(Append(reps, u), y, half)
    BY <1>4, <2>2, <2>7, <2>10 DEF ElementAgrees
  <2>12. QED
    BY <1>1, <1>2, <2>2, <2>11
<1>5. CASE ~(Moves(t, r) /\ t \in {"Int", "Boolean"})
  <2>1. y = Item(t, r.value, TRUE, FALSE, FALSE)
    BY <1>1, <1>5 DEF Kept, Moves
  <2>2. /\ y \in Items /\ y.type = t /\ y.value = r.value
        /\ y.known = TRUE /\ y.sound = FALSE /\ y.odd = FALSE
    BY <1>3, <2>1 DEF Item, Items
  <2>3. ElementAgrees(Append(reps, u), y, half)
    BY <2>2 DEF ElementAgrees
  <2>4. QED
    BY <1>1, <1>2, <2>2, <2>3
<1>6. QED
  BY <1>4, <1>5

\* The declaration of an array.
LEMMA DeclareArrayAgreed ==
    ASSUME TypeOK, Shape, Agrees, NEW t \in Elements, DeclareArray(t)
    PROVE  Agrees'
<1> DEFINE e == [kind |-> "array", type |-> t]
           new == Len(entries) + 1
           cell == Whole(Here)
           half == Moved("Int", Top, Empty).low
<1>1. e \in Event /\ e.kind = "array" /\ e.type = t /\ Reading(e)
  BY EventFacts DEF DeclareArray, Accepted
<1>2. /\ nodes' = <<>> /\ Represents("pointer") /\ entries' = Append(entries, ArrayOf[t])
      /\ frame' = [frame EXCEPT ![Slot(new)] = cell]
      /\ heap' = [heap EXCEPT ![Here] = half]
      /\ Len(nodes) >= 1 /\ "pointer" \in Width
  BY DEF DeclareArray, Accepted, Reading, Needs, Width
<1>3. /\ made \in Seq(Width) /\ made' = Append(made, "pointer") /\ DOMAIN Now = Fields
      /\ VariablesAgree(made, Now, entries, frame) /\ ElementsAgree(made, Now, heap)
      /\ Here \in Value /\ Here = Len(made) + 1 /\ Here \in 1 .. MaxLen
      /\ Now' = Advance(Now, e, Here, Literally(prog, Here)) /\ Len(made) \in Nat
      /\ Len(entries) < P + Q + Locals
  BY <1>1, <1>2, StepFacts, ReadingFacts
<1>4. t \in Named /\ ArrayOf[t] \in ArrayTypes /\ ArrayOf[t] \in Type
  BY ArrayFacts, ValuesAssumption DEF ValuesAssumption, Type
<1>5. new \in Variable /\ cell \in Cell /\ cell.low = Here /\ cell.high = Here
  BY <1>3, NewFacts, CellFacts
<1>6. WrittenTo(new, cell)
  BY <1>2, <1>5, WriteFacts
<1>7. PICK r : r = Now.operands[Len(Now.operands)]
  OBVIOUS
<1>8. r \in Items /\ OperandAgrees(made, r, Top) /\ Top \in Node
  BY <1>2, <1>7, OperandOfStatement
<1>9. PICK y : y = Kept(t, r)
  OBVIOUS
<1>10. y \in Items /\ y.type = t /\ ElementAgrees(made', y, half)
  BY <1>2, <1>3, <1>4, <1>8, <1>9, KeptAgrees
<1>11. PICK at \in Named \cup ArrayTypes : at = ArrayOf[t]
  BY <1>4
<1>12. PICK x : x = Item(at, Here, TRUE, TRUE, FALSE)
  OBVIOUS
<1>13. /\ x \in Items /\ x.type = at /\ x.value = Here
       /\ x.known = TRUE /\ x.sound = TRUE /\ x.odd = FALSE
  BY <1>3, <1>12, ItemFacts, ZenonT(30)
<1> HIDE DEF e, cell, half
<1>14. VariableAgrees(made', x, at, cell)
  <2>1. Stands(made', cell, "pointer", Here)
    BY <1>2, <1>3, <1>5, StandsNew
  <2>2. FullWidth(at) = "pointer"
    BY <1>4, <1>11, FullWidthFacts
  <2>3. QED
    BY <1>13, <2>1, <2>2 DEF VariableAgrees
<1> DEFINE es == Now.elements
<1>15. DOMAIN es \subseteq 1 .. Len(made)
       /\ \A a \in DOMAIN es : es[a] \in Items /\ ElementAgrees(made, es[a], heap[a])
  BY <1>3 DEF ElementsAgree
<1> HIDE DEF es
<1>16. PICK es1 : es1 = WithArray(es, Here, y)
  OBVIOUS
<1>17. /\ DOMAIN es1 = DOMAIN es \cup {Here} /\ es1[Here] = y
       /\ \A a \in DOMAIN es : a # Here /\ es1[a] = es[a]
  BY <1>3, <1>15, <1>16 DEF WithArray
<1>18. TypesKept(es, es1)
  BY <1>17 DEF TypesKept
<1>19. PointsTo(x, es1)
  BY <1>10, <1>11, <1>13, <1>17 DEF PointsTo
<1>20. PICK m1 : m1 = Now'
  OBVIOUS
<1>21. Becomes(Advance(Now, e, Here, Literally(prog, Here)), Added(Now.variables, x), <<>>, es1)
  BY <1>1, <1>3, <1>7, <1>9, <1>11, <1>12, <1>16, AdvanceArray DEF es
<1>22. m1.variables = Added(Now.variables, x) /\ m1.elements = es1
  BY <1>3, <1>20, <1>21 DEF Becomes
<1>23. VariablesAgree(made', m1, entries', frame')
  <2>1. TypesKept(Now.elements, m1.elements) /\ PointsTo(x, m1.elements)
    BY <1>18, <1>19, <1>22 DEF es
  <2>2. at \in Type /\ entries' = Append(entries, at)
    BY <1>2, <1>4, <1>11
  <2>3. QED
    BY <1>2, <1>3, <1>5, <1>6, <1>13, <1>14, <1>22, <2>1, <2>2, VariablesDeclared
<1>24. ElementsAgree(made', m1, heap')
  <2>1. heap'[Here] = half /\ \A a \in 1 .. MaxLen : a # Here => heap'[a] = heap[a]
    <3>1. heap \in [Value -> Value] /\ \A a \in 1 .. MaxLen : a \in Value
      BY Lists DEF TypeOK, Value, Q
    <3>2. QED
      BY <1>2, <1>3, <3>1
  <2>2. Len(made') = Len(made) + 1
    BY <1>3
  <2>3. \A a \in 1 .. Len(made) : a \in 1 .. MaxLen
    BY <1>3, Lists
  <2>4. ASSUME NEW a \in DOMAIN es1
        PROVE  es1[a] \in Items /\ ElementAgrees(made', es1[a], heap'[a])
    <3>1. CASE a = Here
      BY <1>10, <1>17, <2>1, <3>1
    <3>2. CASE a # Here
      <4>1. a \in DOMAIN es /\ es1[a] = es[a]
        BY <1>17, <3>2
      <4>2. heap'[a] = heap[a]
        BY <1>15, <2>1, <2>3, <3>2, <4>1
      <4>3. QED
        BY <1>2, <1>3, <1>15, <4>1, <4>2, AgreeStays
    <3>3. QED
      BY <3>1, <3>2
  <2>5. DOMAIN es1 \subseteq 1 .. Len(made')
    BY <1>3, <1>15, <1>17, <2>2
  <2>6. QED
    BY <1>22, <2>4, <2>5 DEF ElementsAgree
<1>25. QED
  BY <1>1, <1>2, <1>20, <1>21, <1>23, <1>24, StatementAgreed

\* The variable of an access: what the checker lets pass is an array, and a pointer
\* that the text expects is there.
LEMMA AccessFacts ==
    ASSUME TypeOK, Shape, Agrees, NEW v \in 1 .. Len(entries), ElementChecks(v),
           NEW x, x = Now.variables[v]
    PROVE  /\ x \in Items /\ x.type = entries[v] /\ x.type \in ArrayTypes /\ x.known /\ ~x.odd
           /\ entries[v] \in ArrayTypes /\ ElementOf(x.type) \in Named
           /\ x.sound => /\ Pointer(v) = x.value /\ Pointer(v) # Garbage
                         /\ x.value \in DOMAIN Now.elements
                         /\ Now.elements[x.value].type = ElementOf(x.type)
                         /\ Now.elements[x.value] \in Items
                         /\ ElementAgrees(made, Now.elements[x.value], heap[x.value])
<1>1. /\ x \in Items /\ VariableAgrees(made, x, entries[v], frame[Slot(v)])
      /\ PointsTo(x, Now.elements) /\ x.odd \in BOOLEAN /\ x.known \in BOOLEAN /\ x.value \in Value
  BY VariablesOfStep, ChangedFacts
<1>2. entries[v] \in ArrayTypes
  BY DEF ElementChecks
<1>3. x.known /\ ~x.odd /\ x.type = entries[v]
  BY <1>1, <1>2 DEF VariableAgrees
<1>4. ElementOf(x.type) \in Named
  BY <1>2, <1>3, ArrayFacts
<1>5. ElementsAgree(made, Now, heap)
  BY DEF Agrees
<1>6. ASSUME x.sound
      PROVE  /\ Pointer(v) = x.value /\ Pointer(v) # Garbage
             /\ x.value \in DOMAIN Now.elements
             /\ Now.elements[x.value].type = ElementOf(x.type)
             /\ Now.elements[x.value] \in Items
             /\ ElementAgrees(made, Now.elements[x.value], heap[x.value])
  <2>1. FullWidth(x.type) = "pointer"
    BY <1>2, <1>3, FullWidthFacts
  <2>2. Stands(made, frame[Slot(v)], "pointer", x.value)
    BY <1>1, <1>6, <2>1 DEF VariableAgrees
  <2>3. Pointer(v) = x.value /\ Pointer(v) # Garbage
    BY <1>1, <2>2, StandsRead DEF Pointer
  <2>4. x.value \in DOMAIN Now.elements /\ x.type = ArrayOf[Now.elements[x.value].type]
    BY <1>1, <1>2, <1>3, <1>6 DEF PointsTo
  <2>5. PICK y : y = Now.elements[x.value]
    OBVIOUS
  <2>6. y \in Items /\ ElementAgrees(made, y, heap[x.value])
    BY <1>5, <2>4, <2>5 DEF ElementsAgree
  <2>7. y.type \in Named
    BY <2>6 DEF ElementAgrees
  <2>8. ElementOf(x.type) = y.type
    BY <2>4, <2>5, <2>7, ArrayFacts
  <2>9. QED
    BY <2>3, <2>4, <2>5, <2>6, <2>8
<1>7. QED
  BY <1>1, <1>2, <1>3, <1>4, <1>6

\* The element of an array.
LEMMA ElementAgreed ==
    ASSUME TypeOK, Shape, Agrees, NEW v \in Variable, Element(v)
    PROVE  Agrees'
<1> DEFINE e == [kind |-> "element", var |-> v]
           t == ElementOf(entries[v])
           cell == Half(heap[Pointer(v)], Empty)
           node == [parse |-> "None", type |-> t, gen |-> t, cell |-> cell, label |-> FALSE]
<1>1. e \in Event /\ e.kind = "element" /\ e.var = v /\ Reading(e)
  BY EventFacts DEF Element, Runs, Accepted
<1>2. /\ Push(0, node) /\ Represents("none") /\ UNCHANGED <<entries, frame, heap>>
      /\ Pointer(v) # Garbage /\ v <= Len(entries) /\ "none" \in Width /\ Checks(e)
  BY DEF Element, Runs, Accepted, Reading, Width
<1>3. v \in 1 .. Len(entries) /\ ElementChecks(v)
  BY <1>1, <1>2 DEF TypeOK, Variable, Checks
<1>4. /\ made \in Seq(Width) /\ made' = Append(made, "none") /\ DOMAIN Now = Fields
      /\ Now.operands \in Seq(Items)
  BY <1>1, <1>2, StepFacts
<1>5. PICK x : x = Now.variables[v]
  OBVIOUS
<1>6. /\ x \in Items /\ x.type = entries[v] /\ x.type \in ArrayTypes /\ t \in Named
      /\ x.sound => /\ Pointer(v) = x.value
                    /\ Now.elements[x.value].type = t /\ Now.elements[x.value] \in Items
                    /\ ElementAgrees(made, Now.elements[x.value], heap[x.value])
  BY <1>3, <1>5, AccessFacts
<1>7. cell \in Cell
  <2>1. heap[Pointer(v)] \in Value
    BY PointerFacts DEF TypeOK
  <2>2. QED
    BY <2>1, CellFacts
<1> HIDE DEF cell, e
<1>8. /\ node \in Node /\ node.type = t /\ node.gen = t
      /\ node.label = FALSE /\ node.cell = cell
  BY <1>6, <1>7 DEF Node, Type
<1> HIDE DEF node, t
<1>9. PICK y : y = IF x.sound THEN Now.elements[x.value]
                   ELSE Item(ElementOf(x.type), Garbage, TRUE, FALSE, FALSE)
  OBVIOUS
<1>10. y \in Items /\ OperandAgrees(made', y, node)
  <2>1. CASE x.sound
    <3>1. /\ y.type = t /\ y \in Items /\ Pointer(v) = x.value
          /\ ElementAgrees(made, y, heap[x.value])
      BY <1>6, <1>9, <2>1
    <3>2. ElementAgrees(made', y, heap[x.value])
      BY <1>2, <1>4, <3>1, AgreeStays
    <3>3. /\ y.known /\ ~y.odd
          /\ y.sound => y.type \in {"Int", "Boolean"} /\ Stands(made', cell, "int", y.value)
      BY <3>1, <3>2 DEF ElementAgrees, cell
    <3>4. y.sound => FullWidth(y.type) = "int"
      BY <3>3, FullWidthFacts
    <3>5. y.type \notin ArrayTypes
      BY <1>6, <3>1, FullWidthFacts
    <3>6. QED
      BY <1>8, <3>1, <3>3, <3>4, <3>5 DEF OperandAgrees
  <2>2. CASE ~x.sound
    <3>1. y = Item(t, Garbage, TRUE, FALSE, FALSE)
      BY <1>6, <1>9, <2>2 DEF t
    <3>2. t \in Named \cup ArrayTypes /\ Garbage \in Value
      BY <1>6, CellFacts
    <3>3. /\ y \in Items /\ y.type = t
          /\ y.known = TRUE /\ y.sound = FALSE /\ y.odd = FALSE
      BY <3>1, <3>2, ItemFacts
    <3>4. y.type \notin ArrayTypes
      BY <1>6, <3>3, FullWidthFacts
    <3>5. QED
      BY <1>8, <3>3, <3>4 DEF OperandAgrees
  <2>3. QED
    BY <2>1, <2>2
<1>11. 0 \in 0 .. Len(nodes)
  BY DEF TypeOK
<1>12. Becomes(Advance(Now, e, Here, Literally(prog, Here)), Now.variables,
               Append(Now.operands, y), Now.elements)
  BY <1>1, <1>4, <1>5, <1>6, <1>9, AdvanceElement
<1>13. Stacked(Append(Now.operands, y), Now.operands, 0, y)
  BY <1>4, <1>10, StackedFacts
<1>14. QED
  BY <1>1, <1>2, <1>8, <1>10, <1>11, <1>12, <1>13, PushAgreed

\* An assignment to one.
LEMMA StoreAgreed ==
    ASSUME TypeOK, Shape, Agrees, NEW v \in Variable, Store(v)
    PROVE  Agrees'
<1> DEFINE e == [kind |-> "store", var |-> v]
           half == Moved("Int", Top, Empty).low
           es == Now.elements
<1>1. e \in Event /\ e.kind = "store" /\ e.var = v /\ Reading(e)
  BY EventFacts DEF Store, Accepted
<1>2. /\ nodes' = <<>> /\ Represents("none") /\ UNCHANGED <<entries, frame>>
      /\ heap' = [heap EXCEPT ![Pointer(v)] = half]
      /\ v <= Len(entries) /\ "none" \in Width /\ Checks(e) /\ Len(nodes) >= 1
  BY DEF Store, Accepted, Reading, Needs, Width
<1>3. v \in 1 .. Len(entries) /\ ElementChecks(v)
  BY <1>1, <1>2 DEF TypeOK, Variable, Checks, StoreChecks
<1>4. /\ made \in Seq(Width) /\ made' = Append(made, "none") /\ DOMAIN Now = Fields
      /\ VariablesAgree(made, Now, entries, frame) /\ ElementsAgree(made, Now, heap)
      /\ Now' = Advance(Now, e, Here, Literally(prog, Here)) /\ Len(made) \in Nat
      /\ Len(prog) < MaxLen /\ Len(made) = Len(prog)
  BY <1>1, <1>2, StepFacts
<1>5. PICK x : x = Now.variables[v]
  OBVIOUS
<1>6. /\ x \in Items /\ x.type = entries[v] /\ x.type \in ArrayTypes
      /\ entries[v] \in ArrayTypes /\ ElementOf(x.type) \in Named
      /\ x.sound => /\ Pointer(v) = x.value /\ x.value \in DOMAIN es
                    /\ es[x.value].type = ElementOf(x.type)
  BY <1>3, <1>5, AccessFacts
<1>7. PICK r : r = Now.operands[Len(Now.operands)]
  OBVIOUS
<1>8. r \in Items /\ OperandAgrees(made, r, Top) /\ Top \in Node
  BY <1>2, <1>7, OperandOfStatement
<1>9. PICK t \in Named : t = ElementOf(x.type)
  BY <1>6
<1>10. PICK y : y = Kept(t, r)
  OBVIOUS
<1> HIDE DEF e, half
<1>11. y \in Items /\ y.type = t /\ ElementAgrees(made', y, half)
  BY <1>2, <1>4, <1>8, <1>10, KeptAgrees DEF half
<1>12. DOMAIN es \subseteq 1 .. Len(made)
       /\ \A a \in DOMAIN es : es[a] \in Items /\ ElementAgrees(made, es[a], heap[a])
  BY <1>4 DEF ElementsAgree
<1>13. Pointer(v) \in Value /\ \A a \in 1 .. MaxLen : a \in Value
  BY PointerFacts, Lists DEF Value, Q
<1>14. \A a \in 1 .. MaxLen : heap'[a] = IF a = Pointer(v) THEN half ELSE heap[a]
  BY <1>2, <1>13 DEF TypeOK
<1>15. \A a \in DOMAIN es : a \in 1 .. MaxLen
  <2>1. \A a \in 1 .. Len(made) : a \in 1 .. MaxLen
    BY <1>4, Lists
  <2>2. QED
    BY <1>12, <2>1
<1>16. Len(made') = Len(made) + 1
  BY <1>4
<1>17. DOMAIN es \subseteq 1 .. Len(made')
  BY <1>4, <1>12, <1>16
<1> HIDE DEF es
<1>18. PICK es1 : es1 = IF x.sound THEN WithElement(es, x.value, y) ELSE AllUnsound(es)
  OBVIOUS
<1>19. /\ DOMAIN es1 = DOMAIN es
       /\ \A a \in DOMAIN es : /\ es1[a] \in Items /\ es1[a].type = es[a].type
                               /\ ElementAgrees(made', es1[a], heap'[a])
  <2>1. CASE x.sound
    <3>1. Pointer(v) = x.value /\ x.value \in DOMAIN es /\ es[x.value].type = t
      BY <1>6, <1>9, <2>1
    <3>2. /\ DOMAIN es1 = DOMAIN es /\ es1[x.value] = y
          /\ \A a \in DOMAIN es : a # x.value => es1[a] = es[a]
      BY <1>18, <2>1, <3>1 DEF WithElement
    <3>3. ASSUME NEW a \in DOMAIN es
          PROVE  es1[a] \in Items /\ es1[a].type = es[a].type
                 /\ ElementAgrees(made', es1[a], heap'[a])
      <4>1. CASE a = x.value
        <5>1. heap'[a] = half
          BY <1>14, <1>15, <3>1, <4>1
        <5>2. QED
          BY <1>11, <3>1, <3>2, <4>1, <5>1
      <4>2. CASE a # x.value
        <5>1. heap'[a] = heap[a] /\ es1[a] = es[a]
          BY <1>14, <1>15, <3>1, <3>2, <4>2
        <5>2. QED
          BY <1>2, <1>4, <1>12, <5>1, AgreeStays
      <4>3. QED
        BY <4>1, <4>2
    <3>4. QED
      BY <3>2, <3>3
  <2>2. CASE ~x.sound
    <3>1. DOMAIN es1 = DOMAIN es /\ \A a \in DOMAIN es : es1[a] = Unsound(es[a])
      BY <1>18, <2>2 DEF AllUnsound
    <3>2. ASSUME NEW a \in DOMAIN es
          PROVE  es1[a] \in Items /\ es1[a].type = es[a].type
                 /\ ElementAgrees(made', es1[a], heap'[a])
      <4>1. PICK z \in Items : z = es[a] /\ ElementAgrees(made, z, heap[a])
        BY <1>12
      <4>2. PICK z1 : z1 = es1[a]
        OBVIOUS
      <4>3. z1 = Unsound(z)
        BY <3>1, <4>1, <4>2
      <4>4. /\ z1 \in Items /\ z1.type = z.type /\ z1.known = z.known
            /\ z1.sound = FALSE /\ z1.odd = z.odd
        BY <4>3, UnsoundFacts
      <4>5. ElementAgrees(made', z1, heap'[a])
        BY <4>1, <4>4 DEF ElementAgrees
      <4>6. QED
        BY <4>1, <4>2, <4>4, <4>5
    <3>3. QED
      BY <3>1, <3>2
  <2>3. QED
    BY <2>1, <2>2
<1>20. PICK m1 : m1 = Now'
  OBVIOUS
<1>21. Becomes(Advance(Now, e, Here, Literally(prog, Here)), Now.variables, <<>>, es1)
  BY <1>1, <1>4, <1>5, <1>6, <1>7, <1>9, <1>10, <1>18, AdvanceStore DEF es
<1>22. m1.variables = Now.variables /\ m1.elements = es1
  BY <1>4, <1>20, <1>21 DEF Becomes
<1>23. ElementsAgree(made', m1, heap')
  BY <1>17, <1>19, <1>22 DEF ElementsAgree
<1>24. VariablesAgree(made', m1, entries', frame')
  <2>1. TypesKept(Now.elements, m1.elements)
    BY <1>19, <1>22 DEF TypesKept, es
  <2>2. Len(entries) \in Nat
    BY DEF TypeOK
  <2>3. VariablesAgree(made', m1, entries, frame)
    BY <1>2, <1>4, <1>22, <2>1, <2>2, VariablesKept
  <2>4. QED
    BY <1>2, <2>3
<1>25. QED
  BY <1>1, <1>2, <1>20, <1>21, <1>23, <1>24, StatementAgreed

-----------------------------------------------------------------------------
\* What operations get

\* What this event gets is what it should.
Received(e) ==
    UNCHANGED done \/ \E got \in Seq(Value) : Got(got) /\ Arrives(Now, e, got)

\* What all events up to now got.
Bounded == \A k \in DOMAIN done : done[k].at <= Len(prog)

\* What events got before stays right when one more is read and gets what it should.
LEMMA ArriveStep ==
    ASSUME TypeOK, OperandsArrive, Bounded, NEW e \in Event, Reading(e), Received(e)
    PROVE  OperandsArrive' /\ Bounded'
<1>1. /\ \A n \in 0 .. Len(prog) : Meaning'[n] = Meaning[n]
      /\ \A n \in 1 .. Len(prog) : prog'[n] = prog[n]
      /\ prog'[Here] = e
  BY StepMeaning
<1>2. /\ Len(prog') = Len(prog) + 1 /\ Here = Len(prog) + 1 /\ Len(prog) \in Nat
      /\ Here \in 1 .. MaxLen
  BY ReadingFacts
<1>3. /\ done \in Seq(Done) /\ Len(done) \in Nat /\ DOMAIN done = 1 .. Len(done)
      /\ \A k \in DOMAIN done : done[k].at \in 1 .. MaxLen
  <2>1. done \in Seq(Done)
    BY DEF TypeOK, Done
  <2>2. \A d \in Done : d.at \in 1 .. MaxLen
    BY DEF Done
  <2>3. QED
    BY <2>1, <2>2
<1>4. ASSUME NEW k \in DOMAIN done
      PROVE  /\ Arrives(Meaning'[done[k].at - 1], prog'[done[k].at], done[k].got)
             /\ done[k].at <= Len(prog')
  <2>1. Arrives(Meaning[done[k].at - 1], prog[done[k].at], done[k].got)
    BY DEF OperandsArrive
  <2>2. done[k].at \in 1 .. Len(prog) /\ done[k].at - 1 \in 0 .. Len(prog)
        /\ done[k].at <= Len(prog')
    BY <1>2, <1>3, Lists DEF Bounded
  <2>3. QED
    BY <1>1, <2>1, <2>2
<1>5. CASE UNCHANGED done
  BY <1>4, <1>5 DEF OperandsArrive, Bounded
<1>6. CASE ~UNCHANGED done
  <2>1. PICK got \in Seq(Value) : Got(got) /\ Arrives(Now, e, got)
    BY <1>6 DEF Received
  <2>2. /\ done' \in Seq(Done) /\ Len(done') = Len(done) + 1
        /\ done'[Len(done) + 1] = [at |-> Here, got |-> got]
        /\ \A k \in 1 .. Len(done) : done'[k] = done[k]
    BY <1>2, <2>1, GotFacts
  <2>3. ASSUME NEW k \in DOMAIN done'
        PROVE  /\ Arrives(Meaning'[done'[k].at - 1], prog'[done'[k].at], done'[k].got)
               /\ done'[k].at <= Len(prog')
    <3>1. CASE k \in DOMAIN done
      BY <1>3, <1>4, <2>2, <3>1
    <3>2. CASE k \notin DOMAIN done
      <4>1. k = Len(done) + 1
        BY <1>3, <2>2, <3>2
      <4>2. done'[k].at = Here /\ done'[k].got = got
        BY <2>2, <4>1
      <4>3. Meaning'[Here - 1] = Now
        BY <1>1, <1>2 DEF Now
      <4>4. QED
        BY <1>1, <1>2, <2>1, <4>2, <4>3
    <3>3. QED
      BY <3>1, <3>2
  <2>4. QED
    BY <2>3 DEF OperandsArrive, Bounded
<1>7. QED
  BY <1>5, <1>6

\* Whether what is read of the operands is what it should be.
LEMMA ArrivesFrom ==
    ASSUME NEW e, e.kind \notin {"increment", "element", "store"}, NEW b,
           b.operands \in Seq(Items), NEW got \in Seq(Value), Len(got) <= Len(b.operands),
           \A used \in Seq(Items) :
              /\ Len(used) = Len(got)
              /\ \A i \in 1 .. Len(got) : used[i] = b.operands[Len(b.operands) - Len(got) + i]
              => \A i \in 1 .. Len(got) : used[i].sound /\ Fits(e, used, i)
                                             => got[i] = used[i].value
    PROVE  Arrives(b, e, got)
<1>1. PICK os \in Seq(Items) : os = b.operands
  OBVIOUS
<1>2. PICK used : used = SubSeq(os, Len(os) - Len(got) + 1, Len(os))
  OBVIOUS
<1>3. Len(got) \in Nat /\ Len(os) \in Nat /\ Len(got) <= Len(os) /\ DOMAIN got = 1 .. Len(got)
  BY <1>1
<1>4. /\ used \in Seq(Items) /\ Len(used) = Len(got)
      /\ \A i \in 1 .. Len(got) : used[i] = os[Len(os) - Len(got) + i]
  BY <1>2, <1>3
<1>5. \A i \in 1 .. Len(got) : used[i].sound /\ Fits(e, used, i) => got[i] = used[i].value
  BY <1>1, <1>4
<1>6. QED
  BY <1>1, <1>2, <1>3, <1>5 DEF Arrives

\* What stands is what an instruction of the type's width gets.
LEMMA OperandStands ==
    ASSUME NEW x \in Items, NEW node, OperandAgrees(made, x, node), x.sound
    PROVE  /\ Operand(node, FullWidth(x.type)) = x.value
           /\ node.gen = x.type
           /\ x.type \in Named => Class(node) = FullWidth(x.type)
<1>1. /\ x.known /\ Stands(made, node.cell, FullWidth(x.type), x.value)
      /\ (node.label => x.type = "String") /\ node.gen = x.type /\ x.value \in Value
  BY ChangedFacts DEF OperandAgrees
<1>2. Reads(node.cell, FullWidth(x.type)) = x.value
  BY <1>1, StandsRead
<1>3. x.type = "String" => FullWidth(x.type) = "pointer"
  BY FullWidthFacts
<1>4. Operand(node, FullWidth(x.type)) = x.value
  BY <1>1, <1>2, <1>3 DEF Operand
<1>5. x.type \in Named => Class(node) = FullWidth(x.type)
  BY <1>1, <1>3, FullWidthFacts DEF Class
<1>6. QED
  BY <1>1, <1>4, <1>5

\* An operator gets its operands, when its instruction is for their types.
LEMMA OperatorReceived ==
    ASSUME TypeOK, Shape, Agrees, NEW op \in Operators, Operator(op)
    PROVE  Received([kind |-> "operator", op |-> op])
<1> DEFINE e == [kind |-> "operator", op |-> op]
           w == IF IsDouble(op) THEN "double" ELSE "int"
           l == Now.operands[Len(Now.operands) - 1]
           r == Now.operands[Len(Now.operands)]
<1>1. e.kind = "operator" /\ e.op = op /\ Reading(e)
  BY DEF Operator, Runs, Accepted
<1>2. /\ UNCHANGED done \/ Got(<<Operand(Left, w), Operand(Top, w)>>)
      /\ Len(nodes) >= 2 /\ op \in Arithmetic \cup Relations
  BY ValuesAssumption DEF Operator, Runs, Accepted, Reading, Needs, ValuesAssumption
<1>3. /\ l \in Items /\ OperandAgrees(made, l, Left) /\ Left \in Node
      /\ r \in Items /\ OperandAgrees(made, r, Top) /\ Top \in Node
  BY <1>2, OperandsOfOperator
<1>4. Now.operands \in Seq(Items) /\ Len(Now.operands) = Len(nodes) /\ Len(nodes) \in Nat
  BY DEF Agrees, OperandsAgree, TypeOK
<1> HIDE DEF l, r, e
<1>5. /\ l.sound => /\ Operand(Left, FullWidth(l.type)) = l.value /\ Left.gen = l.type
                    /\ l.known
      /\ r.sound => /\ Operand(Top, FullWidth(r.type)) = r.value /\ Top.gen = r.type
                    /\ r.known
      /\ l.known => Left.gen = l.type
      /\ r.known => Top.gen = r.type
  BY <1>3, OperandStands DEF OperandAgrees
<1>6. IsDouble(op) = (op \in Arithmetic /\ (Left.gen = "Double" \/ Top.gen = "Double"))
  BY DEF IsDouble
<1>7. /\ FullWidth("Double") = "double" /\ FullWidth("Int") = "int"
      /\ FullWidth("Boolean") = "int"
  BY FullWidthFacts
<1>8. ASSUME NEW x, NEW y, NEW node, x.sound,
             \/ x = l /\ y = r /\ node = Left
             \/ x = r /\ y = l /\ node = Top,
             \/ op \in Relations /\ x.type \in {"Int", "Boolean"}
             \/ op \notin Relations
                /\ (x.type = "Double" \/ (x.type = "Int" /\ y.known /\ y.type # "Double"))
      PROVE  Operand(node, w) = x.value
  <2>1. Operand(node, FullWidth(x.type)) = x.value
    BY <1>5, <1>8
  <2>2. CASE op \in Relations
    <3>1. ~IsDouble(op)
      BY <1>6, <2>2 DEF Arithmetic, Relations
    <3>2. QED
      BY <1>7, <1>8, <2>1, <2>2, <3>1
  <2>3. CASE op \notin Relations
    <3>1. op \in Arithmetic
      BY <1>2, <2>3
    <3>2. CASE x.type = "Double"
      <4>1. IsDouble(op)
        BY <1>5, <1>6, <1>8, <3>1, <3>2
      <4>2. QED
        BY <1>7, <2>1, <3>2, <4>1
    <3>3. CASE x.type = "Int" /\ y.known /\ y.type # "Double"
      <4>1. ~IsDouble(op)
        BY <1>5, <1>6, <1>8, <3>3
      <4>2. QED
        BY <1>7, <2>1, <3>3, <4>1
    <3>4. QED
      BY <1>8, <2>3, <3>2, <3>3
  <2>4. QED
    BY <2>2, <2>3
<1> HIDE DEF w
<1>9. Operand(Left, w) \in Value /\ Operand(Top, w) \in Value
  BY <1>3, OperandFacts
<1>10. PICK got \in Seq(Value) : got = <<Operand(Left, w), Operand(Top, w)>>
  <2>1. <<Operand(Left, w), Operand(Top, w)>> \in Seq(Value)
    BY <1>9
  <2>2. QED
    BY <2>1, Zenon
<1>11. Len(got) = 2 /\ got[1] = Operand(Left, w) /\ got[2] = Operand(Top, w)
  BY <1>10
<1>12. ASSUME NEW used \in Seq(Items), Len(used) = Len(got),
              \A i \in 1 .. Len(got) : used[i] = Now.operands[Len(Now.operands) - Len(got) + i],
              NEW i \in 1 .. Len(got), used[i].sound, Fits(e, used, i)
       PROVE  got[i] = used[i].value
  <2>1. DOMAIN used = {1, 2} /\ i \in {1, 2}
    BY <1>11, <1>12
  <2>2. used[1] = l /\ used[2] = r
    <3>1. 1 \in 1 .. Len(got) /\ 2 \in 1 .. Len(got)
      BY <1>11
    <3>2. Len(Now.operands) - Len(got) + 1 = Len(Now.operands) - 1
          /\ Len(Now.operands) - Len(got) + 2 = Len(Now.operands)
      BY <1>4, <1>11
    <3>3. QED
      BY <1>12, <3>1, <3>2 DEF l, r
  <2>3. PICK j \in {1, 2} : j # i /\ {used[k] : k \in DOMAIN used \ {i}} = {used[j]}
    <3>1. CASE i = 1
      <4>1. DOMAIN used \ {i} = {2}
        BY <2>1, <3>1
      <4>2. QED
        BY <3>1, <4>1
    <3>2. CASE i = 2
      <4>1. DOMAIN used \ {i} = {1}
        BY <2>1, <3>2
      <4>2. QED
        BY <3>2, <4>1
    <3>3. QED
      BY <2>1, <3>1, <3>2
  <2>4. \/ op \in Relations /\ used[i].type \in {"Int", "Boolean"}
        \/ op \notin Relations
           /\ \/ used[i].type = "Double"
              \/ used[i].type = "Int" /\ used[j].known /\ used[j].type # "Double"
    BY <1>1, <1>12, <2>3 DEF Fits
  <2>5. CASE i = 1
    <3>1. used[i] = l /\ used[j] = r /\ got[i] = Operand(Left, w)
      BY <1>11, <2>2, <2>3, <2>5
    <3>2. QED
      BY <1>8, <1>12, <2>4, <3>1
  <2>6. CASE i = 2
    <3>1. used[i] = r /\ used[j] = l /\ got[i] = Operand(Top, w)
      BY <1>11, <2>2, <2>3, <2>6
    <3>2. QED
      BY <1>8, <1>12, <2>4, <3>1
  <2>7. QED
    BY <2>1, <2>5, <2>6
<1>13. Len(got) <= Len(Now.operands)
  BY <1>2, <1>4, <1>11
<1>14. Arrives(Now, e, got)
  BY <1>1, <1>4, <1>12, <1>13, ArrivesFrom
<1>15. UNCHANGED done \/ Got(got)
  BY <1>2, <1>10
<1>16. QED
  BY <1>14, <1>15 DEF Received, e

\* A call gets the arguments that have its parameters' types.
LEMMA CallReceived ==
    ASSUME TypeOK, Shape, Agrees, NEW f \in DOMAIN Signature, Call(f)
    PROVE  Received([kind |-> "call", f |-> f])
<1> DEFINE e == [kind |-> "call", f |-> f]
           sig == Signature[f]
           k == Arity(f)
           os == Now.operands
           Gets(i) == IF sig.math THEN Operand(Argument(f, i), "double")
                      ELSE Passed(Argument(f, i), sig.params[i])
           gets == [i \in 1 .. k |-> Gets(i)]
<1>1. e.kind = "call" /\ e.f = f /\ Reading(e)
  BY DEF Call, Runs, Accepted
<1>2. Got(gets) /\ Len(nodes) = k
  BY <1>1 DEF Call, Reading
<1>3. /\ k \in Nat /\ k >= 1 /\ DOMAIN sig.params = 1 .. k
      /\ sig.params \in Seq(Named)
      /\ sig.math => \A i \in 1 .. k : sig.params[i] = "Double"
  BY SignatureFacts
<1>4. os \in Seq(Items) /\ Len(os) = k
  BY <1>2 DEF Agrees, OperandsAgree
<1> HIDE DEF e, os
<1>5. ASSUME NEW i \in 1 .. k
      PROVE  /\ os[i] \in Items /\ OperandAgrees(made, os[i], Argument(f, i))
             /\ Argument(f, i) \in Node
  <2>1. Argument(f, i) = nodes[i] /\ i \in 1 .. Len(nodes)
    BY <1>2, <1>3 DEF Argument
  <2>2. QED
    BY <2>1, OperandsOfStep, NodeFacts DEF os
<1>6. \A i \in 1 .. k : Gets(i) \in Value
  BY <1>5, OperandFacts, CellFacts DEF Passed
<1>7. ASSUME NEW i \in 1 .. k, os[i].sound, os[i].type = sig.params[i]
      PROVE  Gets(i) = os[i].value
  <2>1. PICK x \in Items : x = os[i] /\ OperandAgrees(made, x, Argument(f, i))
    BY <1>5
  <2>2. /\ Operand(Argument(f, i), FullWidth(x.type)) = x.value
        /\ x.type \in Named => Class(Argument(f, i)) = FullWidth(x.type)
    BY <1>7, <2>1, OperandStands
  <2>3. x.type \in Named /\ FullWidth(x.type) = WidthOf(x.type) /\ x.type = sig.params[i]
    BY <1>3, <1>7, <2>1, FullWidthFacts
  <2>4. CASE sig.math
    <3>1. FullWidth(x.type) = "double"
      BY <1>3, <2>3, <2>4, FullWidthFacts
    <3>2. QED
      BY <2>1, <2>2, <2>4, <3>1
  <2>5. CASE ~sig.math
    <3>1. Passed(Argument(f, i), sig.params[i]) = x.value
      BY <2>2, <2>3 DEF Passed
    <3>2. QED
      BY <2>1, <2>5, <3>1
  <2>6. QED
    BY <2>4, <2>5
<1> HIDE DEF Gets
<1>8. PICK got \in Seq(Value) : got = gets
  <2>1. gets \in [1 .. k -> Value]
    BY <1>6
  <2>2. gets \in Seq(Value)
    BY <1>3, <2>1
  <2>3. QED
    BY <2>2, Zenon
<1>9. Len(got) = k /\ \A i \in 1 .. k : got[i] = Gets(i)
  BY <1>3, <1>8
<1> HIDE DEF gets
<1>10. ASSUME NEW used \in Seq(Items), Len(used) = Len(got),
              \A i \in 1 .. Len(got) : used[i] = os[Len(os) - Len(got) + i],
              NEW i \in 1 .. Len(got), used[i].sound, Fits(e, used, i)
       PROVE  got[i] = used[i].value
  <2>1. used[i] = os[i] /\ i \in 1 .. k
    BY <1>3, <1>4, <1>9, <1>10
  <2>2. used[i].type = sig.params[i]
    BY <1>1, <1>10 DEF Fits
  <2>3. QED
    BY <1>7, <1>9, <1>10, <2>1, <2>2
<1>11. Arrives(Now, e, got)
  <2>1. Len(got) <= Len(os)
    BY <1>3, <1>4, <1>9
  <2>2. QED
    BY <1>1, <1>4, <1>10, <2>1, ArrivesFrom DEF os
<1>12. Got(got)
  BY <1>2, <1>8
<1>13. QED
  BY <1>11, <1>12 DEF Received, e

\* println gets what it prints.
LEMMA PrintlnReceived ==
    ASSUME TypeOK, Shape, Agrees, Println
    PROVE  Received([kind |-> "println"])
<1> DEFINE e == [kind |-> "println"]
           os == Now.operands
           value == Operand(Top, Class(Top))
<1>1. e.kind = "println" /\ Reading(e) /\ Got(<<value>>) /\ Len(nodes) = 1
  BY DEF Println, Runs, Accepted, Reading, Needs
<1>2. os \in Seq(Items) /\ Len(os) = 1
  BY <1>1 DEF Agrees, OperandsAgree
<1>3. PICK x : x = Now.operands[Len(Now.operands)]
  OBVIOUS
<1>4. x \in Items /\ OperandAgrees(made, x, Top) /\ Top \in Node /\ x.type \in Named \cup ArrayTypes
  BY <1>1, <1>3, OperandOfStatement
<1>5. x.sound /\ x.type \notin ArrayTypes => value = x.value
  BY <1>4, OperandStands
<1>6. value \in Value
  BY <1>4, OperandFacts
<1> HIDE DEF value, e
<1>7. PICK got \in Seq(Value) : got = <<value>>
  <2>1. <<value>> \in Seq(Value)
    BY <1>6
  <2>2. QED
    BY <2>1, Zenon
<1>8. Len(got) = 1 /\ got[1] = value
  BY <1>7
<1>9. os[1] = x
  BY <1>2, <1>3
<1> HIDE DEF os
<1>10. ASSUME NEW used \in Seq(Items), Len(used) = Len(got),
              \A i \in 1 .. Len(got) : used[i] = os[Len(os) - Len(got) + i],
              NEW i \in 1 .. Len(got), used[i].sound, Fits(e, used, i)
       PROVE  got[i] = used[i].value
  <2>1. i = 1 /\ used[i] = x
    BY <1>2, <1>8, <1>9, <1>10
  <2>2. used[i].type \notin ArrayTypes
    BY <1>1, <1>10 DEF Fits
  <2>3. QED
    BY <1>5, <1>8, <1>10, <2>1, <2>2
<1>11. Arrives(Now, e, got)
  <2>1. Len(got) <= Len(os)
    BY <1>2, <1>8
  <2>2. QED
    BY <1>1, <1>2, <1>10, <2>1, ArrivesFrom DEF os
<1>12. Got(got)
  BY <1>1, <1>7
<1>13. QED
  BY <1>11, <1>12 DEF Received, e

\* What a variable's cell is read for.
LEMMA ArrivesIn ==
    ASSUME NEW e, e.kind \in {"increment", "element", "store"}, NEW got, NEW b,
           LET x == b.variables[e.var]
           IN  x.sound /\ x.type \in {"Int"} \cup ArrayTypes => got = <<x.value>>
    PROVE  Arrives(b, e, got)
  BY DEF Arrives

\* An increment gets the value of an Int; arrays have been rejected.
LEMMA IncrementReceived ==
    ASSUME TypeOK, Shape, Agrees, NEW v \in Variable, Increment(v)
    PROVE  Received([kind |-> "increment", var |-> v])
<1> DEFINE e == [kind |-> "increment", var |-> v]
<1> PICK cell \in Contents(v) : Got(<<Reads(cell, "int")>>)
  BY DEF Increment
<1> DEFINE value == Reads(cell, "int")
<1>1. e.kind = "increment" /\ e.var = v /\ Got(<<value>>) /\ v <= Len(entries) /\ Checks(e)
  BY DEF Increment, Runs, Accepted, Reading
<1>2. v \in 1 .. Len(entries) /\ cell \in Cell /\ (Lasting(v) => cell = frame[Slot(v)])
  BY <1>1, ContentsFacts DEF TypeOK, Variable
<1>3. value \in Value
  BY <1>2, ReadsFacts
<1>4. PICK x : x = Now.variables[v]
  OBVIOUS
<1>5. /\ x \in Items /\ VariableAgrees(made, x, entries[v], frame[Slot(v)])
      /\ x.value \in Value /\ (x.sound => Lasting(v))
  BY <1>2, <1>4, VariablesOfStep, ChangedFacts
<1>6. IsNumeric(entries[v])
  BY <1>1 DEF Checks, IncrementChecks
<1>7. ASSUME x.sound, x.type \in {"Int"} \cup ArrayTypes
      PROVE  value = x.value
  <2>1. entries[v] = x.type /\ Stands(made, cell, FullWidth(x.type), x.value)
    BY <1>2, <1>5, <1>7 DEF VariableAgrees
  <2>2. x.type \in Numbers
    <3>1. PICK t \in Named \cup ArrayTypes : t = x.type
      BY <1>5, ChangedFacts
    <3>2. IsNumeric(t)
      BY <1>6, <2>1, <3>1
    <3>3. QED
      BY <3>1, <3>2, CompatibleFacts
  <2>3. x.type = "Int" /\ FullWidth(x.type) = "int"
    BY <1>7, <2>2, FullWidthFacts DEF Numbers
  <2>4. QED
    BY <1>5, <2>1, <2>3, StandsRead
<1> HIDE DEF value, e
<1>8. Arrives(Now, e, <<value>>)
  BY <1>1, <1>4, <1>7, ArrivesIn
<1>9. <<value>> \in Seq(Value)
  BY <1>3
<1>10. QED
  BY <1>1, <1>8, <1>9 DEF Received, e

\* An access gets the array's pointer.
LEMMA AccessReceived ==
    ASSUME TypeOK, Shape, Agrees, NEW e \in Event, e.kind \in {"element", "store"},
           Accepted(e), Got(<<Pointer(e.var)>>)
    PROVE  Received(e)
<1> DEFINE v == e.var
           value == Pointer(v)
<1>1. v \in Variable /\ v <= Len(entries) /\ Checks(e)
  BY EventCases DEF Accepted, Reading
<1>2. v \in 1 .. Len(entries) /\ ElementChecks(v) /\ frame[Slot(v)] \in Cell
  BY <1>1, SlotFacts DEF TypeOK, Variable, Checks, StoreChecks
<1>3. PICK x : x = Now.variables[v]
  OBVIOUS
<1>4. x.sound => value = x.value
  BY <1>2, <1>3, AccessFacts
<1>5. value \in Value
  BY <1>2, ReadsFacts DEF Pointer
<1> HIDE DEF value
<1>6. Arrives(Now, e, <<value>>)
  BY <1>3, <1>4, ArrivesIn
<1>7. <<value>> \in Seq(Value)
  BY <1>5
<1>8. QED
  BY <1>6, <1>7 DEF Received, value

\* And what crashes has been promised nothing: what a sound variable points to is an
\* array.
LEMMA CrashReceived ==
    ASSUME TypeOK, Shape, Agrees, NEW e \in Event, Crash(e)
    PROVE  Received(e)
<1> DEFINE v == e.var
<1>1. /\ Accepted(e) /\ e.kind \in {"element", "store"} /\ Got(<<Garbage>>)
      /\ Pointer(v) = Garbage \/ ~IsArray(Pointer(v))
  BY DEF Crash
<1>2. CASE Pointer(v) = Garbage
  BY <1>1, <1>2, AccessReceived
<1>3. CASE ~IsArray(Pointer(v))
  <2>1. v \in Variable /\ v <= Len(entries) /\ Checks(e)
    BY <1>1, EventCases DEF Accepted, Reading
  <2>2. v \in 1 .. Len(entries) /\ ElementChecks(v)
    BY <1>1, <2>1 DEF TypeOK, Variable, Checks, StoreChecks
  <2>3. PICK x : x = Now.variables[v]
    OBVIOUS
  <2>4. x.sound => Pointer(v) = x.value /\ x.value \in DOMAIN Now.elements
    BY <2>2, <2>3, AccessFacts
  <2>5. \A a \in DOMAIN Now.elements : IsArray(a)
    <3>1. DOMAIN Now.elements \subseteq 1 .. Len(made)
          /\ \A a \in DOMAIN Now.elements : prog[a].kind = "array"
      BY DEF Agrees, ElementsAgree, ArraysAgree
    <3>2. Len(made) \in Nat
      BY DEF TypeOK
    <3>3. QED
      BY <3>1, <3>2 DEF IsArray
  <2>6. ~x.sound
    BY <1>3, <2>4, <2>5
  <2>7. Arrives(Now, e, <<Garbage>>)
    BY <1>1, <2>3, <2>6, ArrivesIn
  <2>8. <<Garbage>> \in Seq(Value)
    BY CellFacts
  <2>9. QED
    BY <1>1, <2>7, <2>8 DEF Received
<1>4. QED
  BY <1>1, <1>2, <1>3

-----------------------------------------------------------------------------
\* The invariant

\* What Checks says is a truth value.
LEMMA ChecksFacts ==
    ASSUME NEW e
    PROVE  Checks(e) \in BOOLEAN
<1>1. \A t, u : check_type_compatibility(t, u) \in BOOLEAN
  BY DEF check_type_compatibility
<1>2. \A t : IsNumeric(t) \in BOOLEAN /\ IsString(t) \in BOOLEAN
  BY <1>1 DEF IsNumeric, IsString
<1>3. \A op : OperatorChecks(op) \in BOOLEAN
  <2>1. \A op : Concatenates(op) \in BOOLEAN
    BY DEF Concatenates
  <2>2. QED
    BY <1>2, <2>1 DEF OperatorChecks
<1>4. \A f : CallChecks(f) \in BOOLEAN
  BY DEF CallChecks
<1>5. \A t : DeclarationChecks(t) \in BOOLEAN
  BY DEF DeclarationChecks
<1>6. \A v : /\ AssignmentChecks(v) \in BOOLEAN /\ IncrementChecks(v) \in BOOLEAN
            /\ ElementChecks(v) \in BOOLEAN /\ StoreChecks(v) \in BOOLEAN
  BY <1>1, <1>2 DEF AssignmentChecks, IncrementChecks, ElementChecks, StoreChecks
<1>7. \A t, u : InitialFits(t, u) \in BOOLEAN
  BY <1>1 DEF InitialFits
<1>8. QED
  BY <1>3, <1>4, <1>5, <1>6, <1>7 DEF Checks

\* The checker's verdict is the text's.
LEMMA JudgedAfter ==
    ASSUME TypeOK, Shape, Agrees, NEW e \in Event, Reading(e),
           Checks(e) = (verdict' # "rejected")
    PROVE  ChecksExactly'
<1>1. Now' = Advance(Now, e, Here, Literally(prog, Here))
  BY StepMeaning
<1>2. Judged(e, Literally(prog, Here))
  BY JudgedExactly
<1>3. Now'.doubtful \/ Checks(e) = Now'.legal
  BY <1>1, <1>2 DEF Judged
<1>4. QED
  BY <1>3 DEF ChecksExactly

\* A step that runs an event, or crashes, or rejects it.
LEMMA UnderstoodAfter ==
    ASSUME TypeOK, Shape, Understood, NEW e \in Event, Reading(e),
           Checks(e) = (verdict' # "rejected"), verdict' = "accepted" => Agrees',
           Received(e)
    PROVE  Understood'
<1>1. Agrees /\ OperandsArrive /\ Bounded
  BY ReadingFacts DEF Understood, Bounded
<1>2. ChecksExactly'
  BY <1>1, JudgedAfter
<1>3. OperandsArrive' /\ Bounded'
  BY <1>1, ArriveStep
<1>4. QED
  BY <1>2, <1>3 DEF Understood, Bounded

\* A step that accepts an event.
LEMMA AcceptedAfter ==
    ASSUME TypeOK, Shape, Understood, NEW e \in Event, Accepted(e), verdict' # "rejected",
           Agrees => Received(e), Agrees /\ verdict' = "accepted" => Agrees'
    PROVE  Understood'
<1>1. Reading(e) /\ Checks(e)
  BY DEF Accepted
<1>2. Agrees
  BY <1>1, ReadingFacts DEF Understood
<1>3. Checks(e) = (verdict' # "rejected")
  BY <1>1, ChecksFacts
<1>4. QED
  BY <1>1, <1>2, <1>3, UnderstoodAfter

\* A step that rejects one.
LEMMA RejectedAfter ==
    ASSUME TypeOK, Shape, Understood, NEW e \in Event, Reject(e)
    PROVE  Understood'
<1>1. Reading(e) /\ ~Checks(e) /\ verdict' = "rejected" /\ UNCHANGED done
  BY DEF Reject
<1>2. Received(e)
  BY <1>1 DEF Received
<1>3. Checks(e) = (verdict' # "rejected")
  BY <1>1, ChecksFacts
<1>4. QED
  BY <1>1, <1>2, <1>3, UnderstoodAfter

\* A step that changes nothing.
LEMMA UnchangedAfter ==
    ASSUME Understood, UNCHANGED vars
    PROVE  Understood'
<1>1. Meaning' = Meaning /\ Now' = Now
  BY DEF vars, Meaning, Now
<1>2. Agrees => Agrees'
  BY <1>1 DEF Agrees, vars
<1>3. ChecksExactly'
  BY <1>1 DEF Understood, ChecksExactly, vars
<1>4. OperandsArrive'
  BY <1>1 DEF Understood, OperandsArrive, vars
<1>5. QED
  BY <1>2, <1>3, <1>4 DEF Understood, vars

\* Before the first event the parameters hold their values.
LEMMA InitAgrees == Init => Agrees
<1> SUFFICES ASSUME Init PROVE Agrees
  OBVIOUS
<1>1. /\ prog = <<>> /\ nodes = <<>> /\ made = <<>> /\ entries = Package \o Parameters
      /\ frame = [s \in Slots |->
                    IF s > Q THEN Empty
                    ELSE IF WidthOf(Parameters[s]) = "int" THEN Half(-s, Empty) ELSE Whole(-s)]
  BY DEF Init, Q
<1>2. Now = Outset
  BY <1>1, MeaningUnfolds DEF Now, Meaning
<1>3. PICK vs : vs = Outset.variables
  OBVIOUS
<1>4. /\ vs = [v \in 1 .. P + Q |-> IF v <= P THEN Item(Package[v], Garbage, TRUE, FALSE, FALSE)
                                    ELSE Item(Parameters[v - P], -(v - P), TRUE, TRUE, FALSE)]
      /\ DOMAIN Outset = Fields /\ Outset.operands = <<>> /\ Outset.elements = <<>>
  BY <1>3 DEF Outset, Fields, P, Q
<1>5. Package \in Seq(Named) /\ Parameters \in Seq(Named)
  BY ValuesAssumption DEF ValuesAssumption
<1>6. /\ Len(entries) = P + Q
      /\ \A v \in 1 .. P + Q : entries[v] = IF v <= P THEN Package[v] ELSE Parameters[v - P]
  BY <1>1, <1>5 DEF P, Q
<1>7. ASSUME NEW v \in 1 .. P + Q
      PROVE  /\ vs[v] \in Items /\ vs[v].type \in Named
             /\ VariableAgrees(<<>>, vs[v], entries[v], frame[Slot(v)])
             /\ (vs[v].sound => Lasting(v))
  <2>1. v \in Variable
    BY Lists DEF Variable, P, Q
  <2>2. CASE v <= P
    <3>1. PICK t \in Named \cup ArrayTypes : t = Package[v] /\ t \in Named
      BY <2>2, Lists
    <3>2. vs[v] = Item(t, Garbage, TRUE, FALSE, FALSE)
      BY <1>4, <2>2, <3>1
    <3>3. PICK x : x = vs[v]
      OBVIOUS
    <3>4. /\ x \in Items /\ x.type = t /\ x.known = TRUE /\ x.sound = FALSE /\ x.odd = FALSE
      BY <3>2, <3>3, CellFacts DEF Item, Items
    <3>5. entries[v] = t
      BY <1>6, <2>2, <3>1
    <3>6. VariableAgrees(<<>>, x, t, frame[Slot(v)])
      BY <3>4 DEF VariableAgrees
    <3>7. QED
      BY <3>1, <3>3, <3>4, <3>5, <3>6
  <2>3. CASE ~(v <= P)
    <3> DEFINE s == v - P
    <3>1. Slot(v) = s /\ Lasting(v) /\ s \in 1 .. Q /\ s \in Slots /\ -s \in Value
      BY <2>1, <2>3, SlotFacts, Lists DEF Value, Slots, Q
    <3>2. PICK t \in Named \cup ArrayTypes : t = Parameters[s] /\ t \in Named
      BY <3>1, Lists
    <3> HIDE DEF s
    <3>3. vs[v] = Item(t, -s, TRUE, TRUE, FALSE)
      BY <1>4, <2>3, <3>1, <3>2 DEF s
    <3>4. PICK x : x = vs[v]
      OBVIOUS
    <3>5. /\ x \in Items /\ x.type = t /\ x.value = -s
          /\ x.known = TRUE /\ x.sound = TRUE /\ x.odd = FALSE
      BY <3>1, <3>3, <3>4 DEF Item, Items
    <3>6. entries[v] = t
      BY <1>6, <2>3, <3>2 DEF s
    <3>7. PICK cell : cell = frame[Slot(v)]
      OBVIOUS
    <3>8. cell = IF WidthOf(t) = "int" THEN Half(-s, Empty) ELSE Whole(-s)
      BY <1>1, <3>1, <3>2, <3>7, Lists
    <3>9. cell.low = -s /\ (WidthOf(t) # "int" => cell.high = -s)
      BY <3>1, <3>8, CellFacts
    <3>10. FullWidth(t) = WidthOf(t)
      BY <3>2, FullWidthFacts
    <3>11. Stands(<<>>, cell, FullWidth(t), -s)
      <4>1. s \in Int /\ s >= 1 /\ -s < 0 /\ -(-s) = s
        BY <3>1, Lists
      <4>2. Parameters[-(-s)] = t
        BY <3>2, <4>1
      <4>3. Len(<<>>) = 0
        OBVIOUS
      <4>4. QED
        BY <3>9, <3>10, <4>1, <4>2, <4>3 DEF Stands, Garbage
    <3>12. VariableAgrees(<<>>, x, t, cell)
      BY <3>5, <3>11 DEF VariableAgrees
    <3>13. QED
      BY <3>1, <3>2, <3>4, <3>5, <3>6, <3>7, <3>12
  <2>4. QED
    BY <2>2, <2>3
<1>8. \A v \in 1 .. P + Q : PointsTo(vs[v], Outset.elements)
  BY <1>7, FullWidthFacts DEF PointsTo
<1>9. vs \in Seq(Items) /\ Len(vs) = P + Q
  <2>1. P + Q \in Nat
    BY Lists
  <2>2. vs \in [1 .. P + Q -> Items]
    BY <1>4, <1>7
  <2>3. QED
    BY <2>1, <2>2
<1>10. VariablesAgree(made, Now, entries, frame)
  BY <1>1, <1>2, <1>3, <1>6, <1>7, <1>8, <1>9 DEF VariablesAgree
<1>11. OperandsAgree(made, Now, nodes)
  BY <1>1, <1>2, <1>4, NoOperands
<1>12. ElementsAgree(made, Now, heap)
  BY <1>2, <1>4 DEF ElementsAgree
<1>13. LiteralAgrees(Now, prog, nodes) /\ ArraysAgree(Now, prog)
  BY <1>1, <1>2, <1>4 DEF LiteralAgrees, Literally, ArraysAgree
<1>14. QED
  BY <1>1, <1>2, <1>4, <1>10, <1>11, <1>12, <1>13 DEF Agrees

\* Of the empty text all is understood.
LEMMA InitUnderstood == Init => Understood
<1> SUFFICES ASSUME Init PROVE Understood
  OBVIOUS
<1>1. Agrees
  BY InitAgrees
<1>2. Now = Outset
  BY MeaningUnfolds DEF Now, Meaning, Init
<1>3. ChecksExactly
  BY <1>2 DEF ChecksExactly, Outset, Init
<1>4. QED
  BY <1>1, <1>3 DEF Understood, OperandsArrive, Init

\* Every step keeps the account the text gives and what the compiler has together.
LEMMA NextUnderstood == TypeOK /\ Shape /\ Understood /\ [Next]_vars => Understood'
<1> SUFFICES ASSUME TypeOK, Shape, Understood, [Next]_vars PROVE Understood'
  OBVIOUS
<1>1. CASE UNCHANGED vars
  BY <1>1, UnchangedAfter
<1>2. ASSUME NEW t \in Literals, Literal(t) PROVE Understood'
  <2>1. PICK e \in Event : e = [kind |-> "literal", type |-> t]
    BY EventFacts
  <2>2. Accepted(e) /\ UNCHANGED <<verdict, done>> /\ verdict = "accepted"
    BY <1>2, <2>1 DEF Literal, Runs, Accepted, Reading
  <2>3. Received(e)
    BY <2>2 DEF Received
  <2>4. QED
    BY <1>2, <2>2, <2>3, LiteralAgreed, AcceptedAfter
<1>3. ASSUME NEW v \in Variable, Name(v) PROVE Understood'
  <2>1. PICK e \in Event : e = [kind |-> "name", var |-> v]
    BY EventFacts
  <2>2. Accepted(e) /\ UNCHANGED <<verdict, done>> /\ verdict = "accepted"
    BY <1>3, <2>1 DEF Name, Runs, Accepted, Reading
  <2>3. Received(e)
    BY <2>2 DEF Received
  <2>4. QED
    BY <1>3, <2>2, <2>3, NameAgreed, AcceptedAfter
<1>4. ASSUME NEW v \in Variable, Assign(v) PROVE Understood'
  <2>1. PICK e \in Event : e = [kind |-> "assign", var |-> v]
    BY EventFacts
  <2>2. Accepted(e) /\ UNCHANGED <<verdict, done>> /\ verdict = "accepted"
    BY <1>4, <2>1 DEF Assign, Runs, Accepted, Reading
  <2>3. Received(e)
    BY <2>2 DEF Received
  <2>4. QED
    BY <1>4, <2>2, <2>3, AssignAgreed, AcceptedAfter
<1>5. ASSUME NEW v \in Variable, Increment(v) PROVE Understood'
  <2>1. PICK e \in Event : e = [kind |-> "increment", var |-> v]
    BY EventFacts
  <2>2. Accepted(e) /\ UNCHANGED verdict /\ verdict = "accepted"
    BY <1>5, <2>1 DEF Increment, Runs, Accepted, Reading
  <2>3. Agrees => Received(e)
    BY <1>5, <2>1, IncrementReceived
  <2>4. QED
    BY <1>5, <2>2, <2>3, IncrementAgreed, AcceptedAfter
<1>6. ASSUME NEW v \in Variable, Element(v) PROVE Understood'
  <2>1. PICK e \in Event : e = [kind |-> "element", var |-> v]
    BY EventFacts
  <2>2. /\ Accepted(e) /\ UNCHANGED verdict /\ verdict = "accepted"
        /\ e.kind = "element" /\ Got(<<Pointer(e.var)>>)
    BY <1>6, <2>1 DEF Element, Runs, Accepted, Reading
  <2>3. Agrees => Received(e)
    BY <2>2, AccessReceived
  <2>4. QED
    BY <1>6, <2>2, <2>3, ElementAgreed, AcceptedAfter
<1>7. ASSUME NEW v \in Variable, Store(v) PROVE Understood'
  <2>1. PICK e \in Event : e = [kind |-> "store", var |-> v]
    BY EventFacts
  <2>2. /\ Accepted(e) /\ UNCHANGED verdict /\ verdict = "accepted"
        /\ e.kind = "store" /\ Got(<<Pointer(e.var)>>)
    BY <1>7, <2>1 DEF Store, Accepted, Reading
  <2>3. Agrees => Received(e)
    BY <2>2, AccessReceived
  <2>4. QED
    BY <1>7, <2>2, <2>3, StoreAgreed, AcceptedAfter
<1>8. ASSUME NEW op \in Operators, Operator(op) PROVE Understood'
  <2>1. PICK e \in Event : e = [kind |-> "operator", op |-> op]
    BY EventFacts
  <2>2. Accepted(e) /\ UNCHANGED verdict /\ verdict = "accepted"
    BY <1>8, <2>1 DEF Operator, Runs, Accepted, Reading
  <2>3. Agrees => Received(e)
    BY <1>8, <2>1, OperatorReceived
  <2>4. QED
    BY <1>8, <2>2, <2>3, OperatorAgreed, AcceptedAfter
<1>9. ASSUME NEW f \in DOMAIN Signature, Call(f) PROVE Understood'
  <2>1. PICK e \in Event : e = [kind |-> "call", f |-> f]
    BY EventFacts
  <2>2. Accepted(e) /\ UNCHANGED verdict /\ verdict = "accepted"
    BY <1>9, <2>1 DEF Call, Runs, Accepted, Reading
  <2>3. Agrees => Received(e)
    BY <1>9, <2>1, CallReceived
  <2>4. QED
    BY <1>9, <2>2, <2>3, CallAgreed, AcceptedAfter
<1>10. ASSUME NEW t \in Declared, DeclareTyped(t) PROVE Understood'
  <2>1. PICK e \in Event : e = [kind |-> "declare", type |-> t]
    BY EventFacts
  <2>2. Accepted(e) /\ UNCHANGED <<verdict, done>> /\ verdict = "accepted"
    BY <1>10, <2>1 DEF DeclareTyped, Runs, Accepted, Reading
  <2>3. Received(e)
    BY <2>2 DEF Received
  <2>4. QED
    BY <1>10, <2>2, <2>3, DeclareTypedAgreed, AcceptedAfter
<1>11. ASSUME "inferred" \in Declared, DeclareInferred PROVE Understood'
  <2>1. PICK e \in Event : e = [kind |-> "declare", type |-> "inferred"]
    BY <1>11, EventFacts
  <2>2. Accepted(e) /\ UNCHANGED <<verdict, done>> /\ verdict = "accepted"
    BY <1>11, <2>1 DEF DeclareInferred, Runs, Accepted, Reading
  <2>3. Received(e)
    BY <2>2 DEF Received
  <2>4. QED
    BY <1>11, <2>2, <2>3, DeclareInferredAgreed, AcceptedAfter
<1>12. ASSUME NEW t \in Elements, DeclareArray(t) PROVE Understood'
  <2>1. PICK e \in Event : e = [kind |-> "array", type |-> t]
    BY EventFacts
  <2>2. Accepted(e) /\ UNCHANGED <<verdict, done>> /\ verdict = "accepted"
    BY <1>12, <2>1 DEF DeclareArray, Accepted, Reading
  <2>3. Received(e)
    BY <2>2 DEF Received
  <2>4. QED
    BY <1>12, <2>2, <2>3, DeclareArrayAgreed, AcceptedAfter
<1>13. ASSUME Println PROVE Understood'
  <2>1. PICK e \in Event : e = [kind |-> "println"]
    BY EventFacts
  <2>2. Accepted(e) /\ UNCHANGED verdict /\ verdict = "accepted"
    BY <1>13, <2>1 DEF Println, Runs, Accepted, Reading
  <2>3. Agrees => Received(e)
    BY <1>13, <2>1, PrintlnReceived
  <2>4. QED
    BY <1>13, <2>2, <2>3, PrintlnAgreed, AcceptedAfter
<1>14. ASSUME NEW e \in Event, Reject(e) PROVE Understood'
  BY <1>14, RejectedAfter
<1>15. ASSUME NEW e \in Event, Crash(e) PROVE Understood'
  <2>1. Accepted(e) /\ verdict' = "crashed"
    BY <1>15 DEF Crash
  <2>2. Agrees => Received(e)
    BY <1>15, CrashReceived
  <2>3. QED
    BY <2>1, <2>2, AcceptedAfter
<1>16. ASSUME Stop PROVE UNCHANGED vars
  BY <1>16 DEF Stop
<1>17. QED
  BY <1>1, <1>2, <1>3, <1>4, <1>5, <1>6, <1>7, <1>8, <1>9, <1>10, <1>11, <1>12, <1>13, <1>14,
     <1>15, <1>16 DEF Next

\* Whatever the text, the checker's types, the generator's and those of the text's
\* own meaning stay together, and so do the values and the cells that hold them.
LEMMA AlwaysUnderstood == Spec => [](TypeOK /\ Shape /\ Understood)
<1>1. Init => TypeOK /\ Shape /\ Understood
  BY InitTyped, InitUnderstood
<1>2. TypeOK /\ Shape /\ Understood /\ [Next]_vars => TypeOK' /\ Shape' /\ Understood'
  BY NextTyped, NextUnderstood
<1>3. QED
  BY <1>1, <1>2, PTL DEF Spec

\* The checker accepts exactly the well typed texts, unless an operand's type is one
\* it may have wrong, for every signature and every text (semantics.c 126-145,
\* 539-603, tree.c 203-218).
THEOREM CheckerExact == Spec => []ChecksExactly
<1>1. TypeOK /\ Shape /\ Understood => ChecksExactly
  BY DEF Understood
<1>2. QED
  BY <1>1, AlwaysUnderstood, PTL

\* The generator takes the width of the type the text gives an operand, whenever the
\* types it is derived from are the right ones (codegen.c 323-339, 674-676, 697-699).
THEOREM GeneratorRight == Spec => []GeneratorAgrees
<1>1. ASSUME TypeOK, Understood, verdict = "accepted", NEW i \in DOMAIN nodes,
             Now.operands[i].known
      PROVE  nodes[i].gen = Now.operands[i].type
  <2>1. Agrees /\ i \in 1 .. Len(nodes)
    BY <1>1 DEF Understood, TypeOK
  <2>2. QED
    BY <1>1, <2>1, OperandsOfStep DEF OperandAgrees
<1>2. TypeOK /\ Shape /\ Understood => GeneratorAgrees
  BY <1>1 DEF GeneratorAgrees
<1>3. QED
  BY <1>2, AlwaysUnderstood, PTL

\* A variable's cell and an array's element hold the last value the text gave them,
\* in full, unless that value did not arrive, the other variable of a shared cell has
\* been written since, or the cell is among the temporaries': for all lengths of text,
\* all types of the package's variables and the function's parameters, and whatever
\* slots the variables of the package have (symtab.c 75-86, codegen.c 1689-1742).
THEOREM ValuesKept == Spec => []VariablesStand
<1>1. ASSUME TypeOK, Understood, verdict = "accepted"
      PROVE  /\ \A v \in DOMAIN Now.variables :
                   Now.variables[v].sound =>
                      Reads(frame[Slot(v)], FullWidth(Now.variables[v].type))
                         = Now.variables[v].value
             /\ \A a \in DOMAIN Now.elements :
                   Now.elements[a].sound =>
                      Reads(Half(heap[a], Empty), "int") = Now.elements[a].value
  <2>1. Agrees
    BY <1>1 DEF Understood
  <2>2. Now.variables \in Seq(Items) /\ Len(Now.variables) = Len(entries)
        /\ ElementsAgree(made, Now, heap)
    BY <2>1 DEF Agrees, VariablesAgree
  <2>3. ASSUME NEW v \in DOMAIN Now.variables, Now.variables[v].sound
        PROVE  Reads(frame[Slot(v)], FullWidth(Now.variables[v].type)) = Now.variables[v].value
    <3>1. v \in 1 .. Len(entries)
      BY <2>2, <2>3
    <3>2. PICK x : x = Now.variables[v]
      OBVIOUS
    <3>3. x \in Items /\ VariableAgrees(made, x, entries[v], frame[Slot(v)]) /\ x.value \in Value
      BY <1>1, <2>1, <3>1, <3>2, VariablesOfStep, ChangedFacts
    <3>4. Stands(made, frame[Slot(v)], FullWidth(x.type), x.value)
      BY <2>3, <3>2, <3>3 DEF VariableAgrees
    <3>5. QED
      BY <3>2, <3>3, <3>4, StandsRead
  <2>4. ASSUME NEW a \in DOMAIN Now.elements, Now.elements[a].sound
        PROVE  Reads(Half(heap[a], Empty), "int") = Now.elements[a].value
    <3>1. PICK x : x = Now.elements[a]
      OBVIOUS
    <3>2. x \in Items /\ ElementAgrees(made, x, heap[a]) /\ x.value \in Value
      BY <2>2, <3>1, ChangedFacts DEF ElementsAgree
    <3>3. Stands(made, Half(heap[a], Empty), "int", x.value)
      BY <2>4, <3>1, <3>2 DEF ElementAgrees
    <3>4. QED
      BY <3>1, <3>2, <3>3, StandsRead
  <2>5. QED
    BY <2>3, <2>4
<1>2. TypeOK /\ Shape /\ Understood => VariablesStand
  BY <1>1 DEF VariablesStand
<1>3. QED
  BY <1>2, AlwaysUnderstood, PTL

\* Every operation, call and println gets the values the text says, in the registers
\* it reads, unless an operand did not reach its place or would have to be
\* converted (codegen.c 1599-1625, 1789-1876).
THEOREM OperandsReach == Spec => []OperandsArrive
<1>1. TypeOK /\ Shape /\ Understood => OperandsArrive
  BY DEF Understood
<1>2. QED
  BY <1>1, AlwaysUnderstood, PTL
=============================================================================
