------------------------------ MODULE ExprProofs ------------------------------
(***************************************************************************)
(* For expressions of any length and nesting: the code made for them keeps *)
(* every value in a slot of its own, from the instruction that computes it *)
(* to the end of the run, and reads no slot before its value is there      *)
(* (IInv).  It does what the text says: each operation once, in the order  *)
(* of the text, with the values of its own operands (Faithful).  The text  *)
(* is in Polish notation, and a counter of the operands still to come says *)
(* where an expression of it ends (Spans).                                 *)
(***************************************************************************)
EXTENDS ExprRules, Induction, FiniteSetTheorems

Frame == [at : 1 .. MaxLen, places : Seq(Slots)]

\* An instruction of the text pr, made before slot top was given out.
InstrOK(c, pr, top) ==
    /\ c.at \in DOMAIN pr /\ c.dest < top
    /\ c.dest # 0 => MaxLen < c.dest
    /\ c.dest # 0 <=> c.op \in {"ASN", "OP", "RAND"} \/ (c.op = "CALL" /\ pr[c.at] \in Functions)
    /\ \A j \in DOMAIN c.src : c.src[j] < top
    /\ c.op = "OP" => Len(c.src) = 2
    /\ c.op = "PARM" => Len(c.src) = 1

InstrsOK(c, pr, top) == \A i \in DOMAIN c : InstrOK(c[i], pr, top)

\* No two instructions write one slot; slot 0 is nobody's.
Once(c) == \A i, j \in DOMAIN c : c[i].dest = c[j].dest /\ c[i].dest # 0 => i = j

\* The instruction that writes a slot comes before those that read it.
Ordered(c) == \A i, k \in DOMAIN c : \A j \in DOMAIN c[i].src :
                 c[k].dest = c[i].src[j] /\ c[k].dest # 0 => k < i

CodeOK(c, pr, top) == InstrsOK(c, pr, top) /\ Once(c) /\ Ordered(c)

\* The expressions under way are of the text read so far, and so are their operands.
StackOK(st, pr, top) ==
    \A n \in DOMAIN st : /\ st[n].at \in DOMAIN pr
                         /\ \A j \in DOMAIN st[n].places : st[n].places[j] < top

\* Every event takes one slot at most, when its code is made.
Room == nextOffset + Len(stack) <= MaxLen + 1 + Len(prog)

\* What an instruction leaves in its slot is its value, but for the call of a
\* silent function, after which the caller stores what was in eax.
Computes(c) == c.dest # 0 /\ ~(c.op = "CALL" /\ prog[c.at] \in Silent)

\* A value, once computed, is in its slot from then on, and no variable changes.
ValuesHeld ==
    /\ \A s \in 0 .. MaxLen : mem[s] = s
    /\ \A k \in 1 .. pc - 1 : Computes(code[k]) => mem[code[k].dest] = code[k].at

\* When an instruction runs, each slot it reads holds what the one instruction
\* that writes the slot computed.
OperandsReady ==
    pc \in DOMAIN code =>
        \A j \in DOMAIN code[pc].src, k \in DOMAIN code :
            code[k].dest = code[pc].src[j] /\ Computes(code[k])
            => mem[code[k].dest] = code[k].at

IInv ==
    /\ TypeOK
    /\ CodeOK(code, prog, nextOffset)
    /\ StackOK(stack, prog, nextOffset)
    /\ Room
    /\ ValuesHeld

-----------------------------------------------------------------------------
\* Lemmas on lists of instructions

\* The places of two lists put together.
LEMMA ConcatFacts ==
    ASSUME NEW S, NEW a \in Seq(S), NEW b \in Seq(S)
    PROVE  /\ a \o b \in Seq(S) /\ DOMAIN (a \o b) = 1 .. Len(a) + Len(b)
           /\ \A i \in DOMAIN (a \o b) :
                 \/ i \in DOMAIN a /\ i <= Len(a) /\ (a \o b)[i] = a[i]
                 \/ Len(a) < i /\ i - Len(a) \in DOMAIN b /\ (a \o b)[i] = b[i - Len(a)]
  OBVIOUS

\* The fields of an instruction.
LEMMA InstrTyped ==
    ASSUME NEW c \in Instr
    PROVE  /\ c.at \in 0 .. MaxLen /\ c.dest \in Slots /\ c.dest \in Int /\ c.src \in Seq(Slots)
           /\ \A j \in DOMAIN c.src : c.src[j] \in Slots /\ c.src[j] \in Int
<1>1. c.at \in 0 .. MaxLen /\ c.dest \in Slots /\ c.src \in Seq(Slots)
  BY DEF Instr
<1>2. \A j \in DOMAIN c.src : c.src[j] \in Slots
  BY <1>1
<1>3. \A s \in Slots : s \in Int
  BY DEF Slots
<1>4. QED
  BY <1>1, <1>2, <1>3

\* Code stays well formed when the text grows and slots are given out.
LEMMA Longer ==
    ASSUME NEW c \in Seq(Instr), NEW pr, NEW q, NEW low \in Int, NEW top \in Int,
           CodeOK(c, pr, low), low <= top,
           DOMAIN pr \subseteq DOMAIN q, \A i \in DOMAIN pr : q[i] = pr[i]
    PROVE  CodeOK(c, q, top)
<1> SUFFICES ASSUME NEW i \in DOMAIN c PROVE InstrOK(c[i], q, top)
  BY DEF CodeOK, InstrsOK
<1>1. InstrOK(c[i], pr, low)
  BY DEF CodeOK, InstrsOK
<1>2. c[i] \in Instr
  OBVIOUS
<1>3. c[i].dest \in Int /\ \A j \in DOMAIN c[i].src : c[i].src[j] \in Int
  BY <1>2, InstrTyped
<1>4. QED
  BY <1>1, <1>3 DEF InstrOK

\* Old code, then new code that writes new slots only.
LEMMA Joined ==
    ASSUME NEW a \in Seq(Instr), NEW b \in Seq(Instr), NEW pr,
           NEW low \in Int, NEW top \in Int, low <= top,
           CodeOK(a, pr, low), CodeOK(b, pr, top),
           \A i \in DOMAIN b : b[i].dest = 0 \/ low <= b[i].dest
    PROVE  a \o b \in Seq(Instr) /\ CodeOK(a \o b, pr, top)
<1> DEFINE c == a \o b
<1>1. /\ c \in Seq(Instr)
      /\ \A i \in DOMAIN c : \/ i \in DOMAIN a /\ i <= Len(a) /\ c[i] = a[i]
                             \/ Len(a) < i /\ i - Len(a) \in DOMAIN b /\ c[i] = b[i - Len(a)]
  BY ConcatFacts
<1>2. CodeOK(a, pr, top)
  BY Longer
<1>3. /\ \A i \in DOMAIN a : a[i].dest \in Int /\ a[i].dest < low
      /\ \A i \in DOMAIN b : b[i].dest \in Int
      /\ \A i \in DOMAIN a : \A j \in DOMAIN a[i].src : a[i].src[j] \in Int /\ a[i].src[j] < low
      /\ Len(a) \in Int /\ DOMAIN c \subseteq Int /\ DOMAIN a \subseteq Int
  <2>1. \A x \in Instr : x.dest \in Int /\ \A j \in DOMAIN x.src : x.src[j] \in Int
    BY InstrTyped
  <2>2. /\ \A i \in DOMAIN a : a[i] \in Instr
        /\ \A i \in DOMAIN b : b[i] \in Instr
    OBVIOUS
  <2>3. \A i \in DOMAIN a : InstrOK(a[i], pr, low)
    BY DEF CodeOK, InstrsOK
  <2>4. QED
    BY <1>1, <2>1, <2>2, <2>3 DEF InstrOK
<1> HIDE DEF c
<1>4. InstrsOK(c, pr, top)
  BY <1>1, <1>2 DEF CodeOK, InstrsOK
<1>5. Once(c)
  <2> SUFFICES ASSUME NEW i \in DOMAIN c, NEW k \in DOMAIN c, c[i].dest = c[k].dest, c[i].dest # 0
               PROVE  i = k
    BY DEF Once
  <2>1. CASE i \in DOMAIN a /\ c[i] = a[i] /\ k \in DOMAIN a /\ c[k] = a[k]
    BY <2>1 DEF CodeOK, Once
  <2>2. ASSUME i - Len(a) \in DOMAIN b, c[i] = b[i - Len(a)],
               k - Len(a) \in DOMAIN b, c[k] = b[k - Len(a)]
        PROVE  i = k
    <3>1. i - Len(a) = k - Len(a)
      BY <2>2 DEF CodeOK, Once
    <3>2. QED
      BY <1>3, <3>1
  <2>3. \A x \in DOMAIN a, y \in DOMAIN b : a[x].dest # b[y].dest \/ a[x].dest = 0
    BY <1>3
  <2>4. QED
    BY <1>1, <2>1, <2>2, <2>3
<1>6. Ordered(c)
  <2> SUFFICES ASSUME NEW i \in DOMAIN c, NEW k \in DOMAIN c, NEW j \in DOMAIN c[i].src,
                      c[k].dest = c[i].src[j], c[k].dest # 0
               PROVE  k < i
    BY DEF Ordered
  <2>1. CASE i \in DOMAIN a /\ c[i] = a[i] /\ k \in DOMAIN a /\ c[k] = a[k]
    BY <2>1 DEF CodeOK, Ordered
  <2>2. \A x \in DOMAIN a, y \in DOMAIN b : \A z \in DOMAIN a[x].src :
           b[y].dest # a[x].src[z] \/ b[y].dest = 0
    BY <1>3
  <2>3. ASSUME i - Len(a) \in DOMAIN b, c[i] = b[i - Len(a)],
               k - Len(a) \in DOMAIN b, c[k] = b[k - Len(a)]
        PROVE  k < i
    <3>1. k - Len(a) < i - Len(a)
      BY <2>3 DEF CodeOK, Ordered
    <3>2. QED
      BY <1>3, <3>1
  <2>4. CASE Len(a) < i /\ k <= Len(a)
    BY <1>3, <2>4
  <2>5. QED
    BY <1>1, <2>1, <2>2, <2>3, <2>4
<1>7. QED
  BY <1>1, <1>4, <1>5, <1>6 DEF CodeOK, c

\* No code, and a single instruction that reads nothing it writes.
LEMMA NoCode ==
    ASSUME NEW pr, NEW top
    PROVE  <<>> \in Seq(Instr) /\ DOMAIN <<>> = {} /\ CodeOK(<<>>, pr, top)
  BY DEF CodeOK, InstrsOK, Once, Ordered

\* One instruction that does not read the slot it writes.
LEMMA OneInstr ==
    ASSUME NEW c \in Instr, NEW pr, NEW top, InstrOK(c, pr, top),
           \A j \in DOMAIN c.src : c.src[j] # c.dest \/ c.dest = 0
    PROVE  <<c>> \in Seq(Instr) /\ CodeOK(<<c>>, pr, top)
<1>1. <<c>> \in Seq(Instr) /\ DOMAIN <<c>> = {1} /\ <<c>>[1] = c
  OBVIOUS
<1>2. QED
  BY <1>1 DEF CodeOK, InstrsOK, Once, Ordered

-----------------------------------------------------------------------------
\* Generating

\* What a list of frames becomes when the last one gets an operand.
LEMMA PlaceAdded ==
    ASSUME NEW rest \in Seq(Frame), rest # <<>>, NEW p \in Slots,
           NEW pr, NEW q, NEW low \in Int, NEW top \in Int, low <= top, p < top,
           StackOK(rest, pr, low), DOMAIN pr \subseteq DOMAIN q
    PROVE  LET around == rest[Len(rest)]
               st == [rest EXCEPT ![Len(rest)] =
                        [at |-> around.at, places |-> Append(around.places, p)]]
           IN  st \in Seq(Frame) /\ Len(st) = Len(rest) /\ StackOK(st, q, top)
<1> DEFINE around == rest[Len(rest)]
           new == [at |-> around.at, places |-> Append(around.places, p)]
           st == [rest EXCEPT ![Len(rest)] = new]
<1>1. Len(rest) \in DOMAIN rest /\ around \in Frame
  OBVIOUS
<1>2. around.places \in Seq(Slots) /\ around.at \in 1 .. MaxLen
  BY <1>1 DEF Frame
<1>3. Append(around.places, p) \in Seq(Slots)
  BY <1>2
<1>4. new \in Frame
  BY <1>2, <1>3 DEF Frame
<1>5. \A n \in DOMAIN rest : /\ rest[n].at \in DOMAIN q
                            /\ \A j \in DOMAIN rest[n].places : rest[n].places[j] < top
  <2> SUFFICES ASSUME NEW n \in DOMAIN rest
               PROVE  /\ rest[n].at \in DOMAIN q
                      /\ \A j \in DOMAIN rest[n].places : rest[n].places[j] < top
    OBVIOUS
  <2>1. rest[n] \in Frame
    OBVIOUS
  <2>2. rest[n].places \in Seq(Slots)
    BY <2>1 DEF Frame
  <2>3. \A j \in DOMAIN rest[n].places : rest[n].places[j] \in Slots
    BY <2>2
  <2>4. \A s \in Slots : s \in Int
    BY DEF Slots
  <2>5. QED
    BY <2>3, <2>4 DEF StackOK
<1>6. new.at \in DOMAIN q /\ \A j \in DOMAIN new.places : new.places[j] < top
  <2>1. \A j \in DOMAIN around.places : around.places[j] < top
    BY <1>1, <1>5
  <2>2. QED
    BY <1>1, <1>2, <1>5, <2>1
<1>7. /\ st \in Seq(Frame) /\ Len(st) = Len(rest) /\ DOMAIN st = DOMAIN rest
      /\ st[Len(rest)] = new /\ \A n \in DOMAIN rest : n # Len(rest) => st[n] = rest[n]
  BY <1>1, <1>4
<1> HIDE DEF st, new
<1>8. StackOK(st, q, top)
  BY <1>5, <1>6, <1>7 DEF StackOK
<1>9. QED
  BY <1>7, <1>8 DEF st, new

\* What the step after an event or an operator keeps, and what its new code is.
Extends(q) == DOMAIN prog \subseteq DOMAIN q /\ \A i \in DOMAIN prog : q[i] = prog[i]

\* The code an expression yields is put behind the rest, its value passed on.
LEMMA YieldFacts ==
    ASSUME IInv, NEW rest \in Seq(Frame), StackOK(rest, prog, nextOffset), Extends(prog'),
           nextOffset' \in Int, nextOffset <= nextOffset',
           NEW p \in Slots, p < nextOffset',
           NEW is \in Seq(Instr), CodeOK(is, prog', nextOffset'),
           \A i \in DOMAIN is : is[i].dest = 0 \/ nextOffset <= is[i].dest,
           0 < nextOffset', MaxLen \in Nat,
           Yield(rest, p, is)
    PROVE  /\ stack' \in Seq(Frame) /\ Len(stack') = Len(rest)
           /\ StackOK(stack', prog', nextOffset')
           /\ roots' \in Seq(Slots)
           /\ code' \in Seq(Instr) /\ CodeOK(code', prog', nextOffset')
<1>1. code \in Seq(Instr) /\ roots \in Seq(Slots) /\ nextOffset \in Int
      /\ CodeOK(code, prog, nextOffset)
  BY DEF IInv, TypeOK
<1>2. CodeOK(code, prog', nextOffset)
  BY <1>1, Longer DEF Extends
<1>3. code \o is \in Seq(Instr) /\ CodeOK(code \o is, prog', nextOffset')
  BY <1>1, <1>2, Joined
<1>4. CASE rest = <<>>
  <2>1. stack' = <<>> /\ roots' = Append(roots, p) /\ code' = code \o is
    BY <1>4 DEF Yield, concat
  <2>2. QED
    BY <1>1, <1>3, <1>4, <2>1 DEF StackOK
<1>5. CASE rest # <<>>
  <2> DEFINE around == rest[Len(rest)]
             mark == Do("PARM", around.at, 0, <<p>>)
             parm == IF Called(prog'[around.at]) THEN <<mark>> ELSE <<>>
  <2>1. /\ stack' = [rest EXCEPT ![Len(rest)] =
                        [at |-> around.at, places |-> Append(around.places, p)]]
        /\ code' = (code \o is) \o parm /\ roots' = roots
    BY <1>5 DEF Yield, concat
  <2>2. stack' \in Seq(Frame) /\ Len(stack') = Len(rest) /\ StackOK(stack', prog', nextOffset')
    BY <1>1, <1>5, <2>1, PlaceAdded DEF Extends
  <2>3. around \in Frame /\ around.at \in DOMAIN prog'
    BY <1>5 DEF StackOK, Extends
  <2>4. around.at \in 0 .. MaxLen /\ 0 \in Slots
    BY <2>3 DEF Frame, Slots
  <2>5. mark \in Instr
    <3>1. <<p>> \in Seq(Slots)
      OBVIOUS
    <3>2. QED
      BY <2>4, <3>1 DEF Instr, Do
  <2>6. InstrOK(mark, prog', nextOffset') /\ mark.dest = 0
    BY <2>3 DEF InstrOK, Do
  <2>7. /\ parm \in Seq(Instr) /\ CodeOK(parm, prog', nextOffset')
        /\ \A i \in DOMAIN parm : parm[i].dest = 0
    <3> HIDE DEF mark
    <3>1. CASE Called(prog'[around.at])
      <4>1. parm = <<mark>> /\ DOMAIN <<mark>> = {1} /\ <<mark>>[1] = mark
        BY <3>1
      <4>2. <<mark>> \in Seq(Instr) /\ CodeOK(<<mark>>, prog', nextOffset')
        BY <2>5, <2>6, OneInstr
      <4>3. QED
        BY <2>6, <4>1, <4>2
    <3>2. CASE ~Called(prog'[around.at])
      BY <3>2, NoCode
    <3>3. QED
      BY <3>1, <3>2
  <2> HIDE DEF parm
  <2>8. code' \in Seq(Instr) /\ CodeOK(code', prog', nextOffset')
    <3> DEFINE old == code \o is
               top == nextOffset'
               q == prog'
    <3>1. old \in Seq(Instr) /\ CodeOK(old, q, top) /\ top \in Int /\ top <= top
      BY <1>3
    <3>2. code' = old \o parm
      BY <2>1
    <3> HIDE DEF old, top, q
    <3>3. CodeOK(parm, q, top)
      BY <2>7 DEF q, top
    <3>4. old \o parm \in Seq(Instr) /\ CodeOK(old \o parm, q, top)
      BY <2>7, <3>1, <3>3, Joined
    <3>5. QED
      BY <3>2, <3>4 DEF q, top
  <2>9. QED
    BY <1>1, <2>1, <2>2, <2>8
<1>6. QED
  BY <1>4, <1>5

\* What a generating step must keep for the invariant to hold after it.
LEMMA GenerateInv ==
    ASSUME IInv, pc = 0, UNCHANGED runVars, seeded' \in BOOLEAN,
           prog' \in Seq(Kinds), Len(prog') <= MaxLen,
           stack' \in Seq(Frame), StackOK(stack', prog', nextOffset'),
           roots' \in Seq(Slots), code' \in Seq(Instr), CodeOK(code', prog', nextOffset'),
           nextOffset' \in Int, nextOffset <= nextOffset',
           nextOffset' + Len(stack') <= MaxLen + 1 + Len(prog')
    PROVE  IInv'
<1>1. /\ MaxLen \in Nat /\ nextOffset \in Int /\ MaxLen + 1 <= nextOffset
      /\ Len(stack') \in Nat /\ Len(prog') \in Nat
  BY ExprAssumption, SMTT(30) DEF ExprAssumption, IInv, TypeOK
<1>2. nextOffset' \in MaxLen + 1 .. 2 * MaxLen + 1
  BY <1>1
<1>3. pc' = 0 /\ pc' \in 0 .. Len(code') + 1 /\ mem' = mem
  BY DEF runVars
<1>4. TypeOK'
  BY <1>2, <1>3 DEF IInv, TypeOK, runVars, Frame
<1>5. ValuesHeld'
  BY <1>1, <1>3 DEF IInv, ValuesHeld
<1>6. QED
  BY <1>4, <1>5 DEF IInv, Room

\* The same for a step that yields a value.
LEMMA YieldInv ==
    ASSUME IInv, pc = 0, UNCHANGED runVars, seeded' \in BOOLEAN,
           prog' \in Seq(Kinds), Len(prog') <= MaxLen, Extends(prog'),
           NEW rest \in Seq(Frame), StackOK(rest, prog, nextOffset),
           nextOffset' \in {nextOffset, nextOffset + 1},
           NEW p \in Slots, p < nextOffset',
           NEW is \in Seq(Instr), CodeOK(is, prog', nextOffset'),
           \A i \in DOMAIN is : is[i].dest = 0 \/ nextOffset <= is[i].dest,
           nextOffset' + Len(rest) <= MaxLen + 1 + Len(prog'),
           Yield(rest, p, is)
    PROVE  IInv'
<1>1. MaxLen \in Nat /\ nextOffset \in Int /\ MaxLen + 1 <= nextOffset
  BY ExprAssumption DEF ExprAssumption, IInv, TypeOK
<1>2. nextOffset' \in Int /\ nextOffset <= nextOffset' /\ 0 < nextOffset'
  BY <1>1
<1>3. /\ stack' \in Seq(Frame) /\ Len(stack') = Len(rest)
      /\ StackOK(stack', prog', nextOffset')
      /\ roots' \in Seq(Slots)
      /\ code' \in Seq(Instr) /\ CodeOK(code', prog', nextOffset')
  BY <1>1, <1>2, YieldFacts
<1>4. QED
  BY <1>2, <1>3, GenerateInv

\* Reading an event makes the text longer by it.
LEMMA ReadFacts ==
    ASSUME IInv, NEW kind, Reads(kind)
    PROVE  /\ pc = 0 /\ prog' \in Seq(Kinds) /\ Len(prog') = Len(prog) + 1 /\ Len(prog') <= MaxLen
           /\ Extends(prog') /\ Here \in DOMAIN prog' /\ Here \in 1 .. MaxLen
           /\ prog'[Here] = kind /\ kind \in Kinds
           /\ stack \in Seq(Frame) /\ StackOK(stack, prog, nextOffset)
           /\ nextOffset + Len(stack) <= MaxLen + Len(prog') /\ nextOffset \in Slots \ {0}
           /\ MaxLen < nextOffset /\ Len(stack) \in Nat /\ MaxLen \in Nat /\ seeded \in BOOLEAN
<1>1. /\ MaxLen \in Nat /\ prog \in Seq(Kinds) /\ nextOffset \in MaxLen + 1 .. 2 * MaxLen + 1
      /\ stack \in Seq(Frame) /\ seeded \in BOOLEAN
  BY ExprAssumption DEF ExprAssumption, IInv, TypeOK, Frame
<1>2. pc = 0 /\ kind \in Kinds /\ Len(prog) < MaxLen /\ prog' = Append(prog, kind)
  BY DEF Reads, Generating
<1>3. /\ prog' \in Seq(Kinds) /\ Len(prog') = Len(prog) + 1 /\ Len(prog) \in Nat
      /\ prog'[Len(prog) + 1] = kind /\ \A i \in DOMAIN prog : prog'[i] = prog[i]
      /\ DOMAIN prog = 1 .. Len(prog) /\ DOMAIN prog' = 1 .. Len(prog) + 1
  BY <1>1, <1>2
<1>4. Extends(prog') /\ Here \in DOMAIN prog' /\ Here \in 1 .. MaxLen /\ prog'[Here] = kind
  BY <1>1, <1>2, <1>3 DEF Extends, Here
<1>5. Room /\ Len(stack) \in Nat
  BY <1>1 DEF IInv
<1>6. nextOffset + Len(stack) <= MaxLen + Len(prog') /\ nextOffset \in Slots \ {0}
  BY <1>1, <1>2, <1>3, <1>5 DEF Room, Slots
<1>7. QED
  BY <1>1, <1>2, <1>3, <1>4, <1>5, <1>6 DEF IInv

\* A list without its last element.
LEMMA FrontFacts ==
    ASSUME NEW st \in Seq(Frame), st # <<>>, NEW f, f = SubSeq(st, 1, Len(st) - 1)
    PROVE  /\ f \in Seq(Frame) /\ Len(f) = Len(st) - 1 /\ Len(f) \in Nat
           /\ DOMAIN f \subseteq DOMAIN st /\ \A n \in DOMAIN f : f[n] = st[n]
           /\ Len(st) \in DOMAIN st /\ st[Len(st)] \in Frame
<1>1. Len(st) \in Nat /\ Len(st) >= 1 /\ DOMAIN st = 1 .. Len(st) /\ st[Len(st)] \in Frame
  OBVIOUS
<1>2. f \in Seq(Frame) /\ Len(f) = Len(st) - 1 /\ DOMAIN f = 1 .. Len(st) - 1
  BY <1>1
<1>3. \A n \in 1 .. Len(st) - 1 : f[n] = st[n]
  BY <1>1
<1>4. QED
  BY <1>1, <1>2, <1>3

\* Closing an expression takes it off the stack.
LEMMA CloseFacts ==
    ASSUME IInv, NEW kinds, Closes(kinds)
    PROVE  /\ pc = 0 /\ prog' \in Seq(Kinds) /\ prog' = prog /\ Len(prog') <= MaxLen
           /\ Extends(prog')
           /\ Pop \in Seq(Frame) /\ StackOK(Pop, prog, nextOffset)
           /\ Inner \in Frame /\ Inner.at \in DOMAIN prog' /\ Inner.at \in 0 .. MaxLen
           /\ prog[Inner.at] \in kinds /\ Inner.places \in Seq(Slots)
           /\ Len(Inner.places) = Operands(prog[Inner.at])
           /\ \A j \in DOMAIN Inner.places : Inner.places[j] < nextOffset
           /\ nextOffset + 1 + Len(Pop) <= MaxLen + 1 + Len(prog') /\ nextOffset \in Slots \ {0}
           /\ MaxLen < nextOffset /\ Len(Pop) \in Nat /\ MaxLen \in Nat /\ seeded \in BOOLEAN
<1>1. /\ MaxLen \in Nat /\ prog \in Seq(Kinds) /\ nextOffset \in MaxLen + 1 .. 2 * MaxLen + 1
      /\ stack \in Seq(Frame) /\ seeded \in BOOLEAN /\ Len(prog) <= MaxLen
      /\ StackOK(stack, prog, nextOffset) /\ Room
  BY ExprAssumption DEF ExprAssumption, IInv, TypeOK, Frame
<1>2. /\ pc = 0 /\ stack # <<>> /\ prog[Inner.at] \in kinds /\ prog' = prog
      /\ Len(Inner.places) = Operands(prog[Inner.at])
  BY DEF Closes, Generating
<1>3. /\ Pop \in Seq(Frame) /\ Len(Pop) = Len(stack) - 1 /\ Len(Pop) \in Nat
      /\ DOMAIN Pop \subseteq DOMAIN stack /\ \A n \in DOMAIN Pop : Pop[n] = stack[n]
      /\ Len(stack) \in DOMAIN stack /\ Inner \in Frame
  BY <1>1, <1>2, FrontFacts DEF Pop, Inner
<1>4. StackOK(Pop, prog, nextOffset)
  BY <1>1, <1>3 DEF StackOK
<1>5. /\ Inner.at \in DOMAIN prog /\ Inner.at \in 1 .. MaxLen /\ Inner.places \in Seq(Slots)
      /\ \A j \in DOMAIN Inner.places : Inner.places[j] < nextOffset
  BY <1>1, <1>3 DEF StackOK, Inner, Frame
<1>6. nextOffset + 1 + Len(Pop) <= MaxLen + 1 + Len(prog) /\ nextOffset \in Slots \ {0}
  BY <1>1, <1>3 DEF Room, Slots
<1>7. Inner.at \in 0 .. MaxLen /\ MaxLen < nextOffset
  BY <1>1, <1>5
<1>8. Extends(prog')
  BY <1>2 DEF Extends
<1>9. QED
  BY <1>1, <1>2, <1>3, <1>4, <1>5, <1>6, <1>7, <1>8

\* An instruction without operands that writes the next slot.
LEMMA Leaf ==
    ASSUME NEW op \in {"ASN", "RAND"}, NEW at \in 0 .. MaxLen, NEW s \in Slots, NEW pr,
           MaxLen \in Nat, MaxLen < s, at \in DOMAIN pr
    PROVE  /\ Do(op, at, s, <<>>) \in Instr /\ Do(op, at, s, <<>>).dest = s
           /\ <<Do(op, at, s, <<>>)>> \in Seq(Instr)
           /\ CodeOK(<<Do(op, at, s, <<>>)>>, pr, s + 1)
<1> DEFINE c == Do(op, at, s, <<>>)
<1>1. c \in Instr /\ c.dest = s /\ c.src = <<>> /\ c.at = at /\ c.op = op
  BY DEF Do, Instr
<1>2. s \in Int
  BY DEF Slots
<1> HIDE DEF c
<1>3. InstrOK(c, pr, s + 1)
  BY <1>1, <1>2 DEF InstrOK
<1>4. <<c>> \in Seq(Instr) /\ CodeOK(<<c>>, pr, s + 1)
  BY <1>1, <1>3, OneInstr
<1>5. QED
  BY <1>1, <1>4 DEF c

\* A name yields the place of its variable, and no code.
LEMMA NameInv == IInv /\ Name => IInv'
<1> SUFFICES ASSUME IInv, Name PROVE IInv'
  OBVIOUS
<1> DEFINE is == <<>>
<1>1. Reads("name") /\ Yield(stack, Here, is) /\ UNCHANGED <<nextOffset, seeded, runVars>>
  BY DEF Name
<1>2. /\ pc = 0 /\ prog' \in Seq(Kinds) /\ Len(prog') <= MaxLen /\ Extends(prog')
      /\ stack \in Seq(Frame) /\ StackOK(stack, prog, nextOffset)
      /\ nextOffset + Len(stack) <= MaxLen + Len(prog') /\ Here \in 1 .. MaxLen
      /\ MaxLen < nextOffset /\ nextOffset \in Slots /\ MaxLen \in Nat /\ seeded \in BOOLEAN
      /\ Len(stack) \in Nat
  BY <1>1, ReadFacts
<1>3. Here \in Slots /\ Here < nextOffset /\ nextOffset \in Int /\ Len(prog') \in Nat
  BY <1>2 DEF Slots
<1>4. nextOffset' + Len(stack) <= MaxLen + 1 + Len(prog')
  BY <1>1, <1>2, <1>3
<1>5. is \in Seq(Instr) /\ DOMAIN is = {} /\ CodeOK(is, prog', nextOffset')
  BY NoCode
<1> HIDE DEF is
<1>6. QED
  BY <1>1, <1>2, <1>3, <1>4, <1>5, YieldInv

\* A literal is assigned to the next slot.
LEMMA LiteralInv == IInv /\ Literal => IInv'
<1> SUFFICES ASSUME IInv, Literal PROVE IInv'
  OBVIOUS
<1> DEFINE is == <<Do("ASN", Here, nextOffset, <<>>)>>
<1>1. /\ Reads("literal") /\ Yield(stack, nextOffset, is)
      /\ nextOffset' = nextOffset + 1 /\ UNCHANGED <<seeded, runVars>>
  BY DEF Literal, new_temp
<1>2. /\ pc = 0 /\ prog' \in Seq(Kinds) /\ Len(prog') <= MaxLen /\ Extends(prog')
      /\ stack \in Seq(Frame) /\ StackOK(stack, prog, nextOffset)
      /\ nextOffset + Len(stack) <= MaxLen + Len(prog') /\ Here \in 1 .. MaxLen
      /\ Here \in DOMAIN prog'
      /\ MaxLen < nextOffset /\ nextOffset \in Slots /\ MaxLen \in Nat /\ seeded \in BOOLEAN
      /\ Len(stack) \in Nat
  BY <1>1, ReadFacts
<1>3. Here \in 0 .. MaxLen /\ nextOffset \in Int /\ Len(prog') \in Nat
  BY <1>2 DEF Slots
<1>4. /\ is \in Seq(Instr) /\ CodeOK(is, prog', nextOffset')
      /\ \A i \in DOMAIN is : nextOffset <= is[i].dest
  <2>1. /\ is \in Seq(Instr) /\ CodeOK(is, prog', nextOffset + 1)
        /\ Do("ASN", Here, nextOffset, <<>>).dest = nextOffset
    BY <1>2, <1>3, Leaf
  <2>2. QED
    BY <1>1, <1>3, <2>1
<1>5. nextOffset' + Len(stack) <= MaxLen + 1 + Len(prog') /\ nextOffset < nextOffset'
  BY <1>1, <1>2, <1>3
<1> HIDE DEF is
<1>6. QED
  BY <1>1, <1>2, <1>4, <1>5, YieldInv

\* So is a random number, after the call that seeds the first one.
LEMMA RandomInv == IInv /\ Random => IInv'
<1> SUFFICES ASSUME IInv, Random PROVE IInv'
  OBVIOUS
<1> DEFINE rand == Do("RAND", Here, nextOffset, <<>>)
           srand == Do("SRAND", Here, 0, <<>>)
           is == IF seeded THEN <<rand>> ELSE <<srand, rand>>
<1>1. /\ Reads("random") /\ Yield(stack, nextOffset, is)
      /\ nextOffset' = nextOffset + 1 /\ seeded' = TRUE /\ UNCHANGED runVars
  BY DEF Random, new_temp
<1>2. /\ pc = 0 /\ prog' \in Seq(Kinds) /\ Len(prog') <= MaxLen /\ Extends(prog')
      /\ stack \in Seq(Frame) /\ StackOK(stack, prog, nextOffset)
      /\ nextOffset + Len(stack) <= MaxLen + Len(prog') /\ Here \in 1 .. MaxLen
      /\ Here \in DOMAIN prog'
      /\ MaxLen < nextOffset /\ nextOffset \in Slots /\ MaxLen \in Nat
      /\ Len(stack) \in Nat
  BY <1>1, ReadFacts
<1>3. Here \in 0 .. MaxLen /\ nextOffset \in Int /\ Len(prog') \in Nat
  BY <1>2 DEF Slots
<1>4. /\ rand \in Instr /\ rand.dest = nextOffset
      /\ <<rand>> \in Seq(Instr) /\ CodeOK(<<rand>>, prog', nextOffset')
  BY <1>1, <1>2, <1>3, Leaf
<1>5. srand \in Instr /\ srand.dest = 0 /\ InstrOK(srand, prog', nextOffset') /\ srand.src = <<>>
  BY <1>1, <1>2, <1>3 DEF Do, Instr, Slots, InstrOK
<1>6. InstrOK(rand, prog', nextOffset') /\ rand.src = <<>>
  <2>1. rand.src = <<>> /\ <<rand>>[1] = rand /\ 1 \in DOMAIN <<rand>>
    BY DEF Do
  <2>2. QED
    BY <1>4, <2>1 DEF CodeOK, InstrsOK
<1> HIDE DEF rand, srand
<1>7. \A i \in DOMAIN <<rand>> : <<rand>>[i].dest = 0 \/ nextOffset <= <<rand>>[i].dest
  BY <1>3, <1>4
<1>8. <<srand, rand>> \in Seq(Instr) /\ CodeOK(<<srand, rand>>, prog', nextOffset')
  <2>1. /\ <<srand, rand>> \in Seq(Instr) /\ DOMAIN <<srand, rand>> = {1, 2}
        /\ <<srand, rand>>[1] = srand /\ <<srand, rand>>[2] = rand
    BY <1>4, <1>5
  <2>2. QED
    BY <1>4, <1>5, <1>6, <2>1 DEF CodeOK, InstrsOK, Once, Ordered
<1>9. /\ is \in Seq(Instr) /\ CodeOK(is, prog', nextOffset')
      /\ \A i \in DOMAIN is : is[i].dest = 0 \/ nextOffset <= is[i].dest
  <2>1. CASE seeded
    BY <1>4, <1>7, <2>1
  <2>2. CASE ~seeded
    <3>1. is = <<srand, rand>>
      BY <2>2
    <3>2. \A i \in DOMAIN <<srand, rand>> :
             <<srand, rand>>[i].dest = 0 \/ nextOffset <= <<srand, rand>>[i].dest
      BY <1>3, <1>4, <1>5
    <3>3. QED
      BY <1>8, <3>1, <3>2
  <2>3. QED
    BY <2>1, <2>2
<1>10. nextOffset' + Len(stack) <= MaxLen + 1 + Len(prog') /\ nextOffset < nextOffset'
  BY <1>1, <1>2, <1>3
<1> HIDE DEF is
<1>11. QED
  BY <1>1, <1>2, <1>9, <1>10, YieldInv

\* An operator or a call waits on the stack for its operands.
LEMMA OpenInv == ASSUME IInv, NEW kind, Open(kind) PROVE IInv'
<1> DEFINE f == [at |-> Here, places |-> <<>>]
<1>1. /\ Reads(kind) /\ stack' = Append(stack, f)
      /\ UNCHANGED <<code, roots, nextOffset, seeded, runVars>>
  BY DEF Open
<1>2. /\ pc = 0 /\ prog' \in Seq(Kinds) /\ Len(prog') <= MaxLen /\ Extends(prog')
      /\ stack \in Seq(Frame) /\ StackOK(stack, prog, nextOffset)
      /\ nextOffset + Len(stack) <= MaxLen + Len(prog') /\ Here \in 1 .. MaxLen
      /\ Here \in DOMAIN prog' /\ nextOffset \in Slots /\ MaxLen \in Nat /\ seeded \in BOOLEAN
      /\ Len(stack) \in Nat
  BY <1>1, ReadFacts
<1>3. nextOffset \in Int /\ Len(prog') \in Nat
  BY <1>2 DEF Slots
<1>4. f \in Frame /\ f.at \in DOMAIN prog' /\ DOMAIN f.places = {}
  <2>1. <<>> \in Seq(Slots)
    OBVIOUS
  <2>2. QED
    BY <1>2, <2>1 DEF Frame
<1> HIDE DEF f
<1>5. /\ stack' \in Seq(Frame) /\ Len(stack') = Len(stack) + 1
      /\ \A n \in DOMAIN stack' : \/ n \in DOMAIN stack /\ stack'[n] = stack[n]
                                \/ stack'[n] = f
  BY <1>1, <1>2, <1>4
<1>6. StackOK(stack', prog', nextOffset')
  BY <1>1, <1>2, <1>4, <1>5 DEF StackOK, Extends
<1>7. /\ roots' \in Seq(Slots) /\ code' \in Seq(Instr) /\ CodeOK(code', prog', nextOffset')
      /\ nextOffset' = nextOffset
  <2>1. roots \in Seq(Slots) /\ code \in Seq(Instr) /\ CodeOK(code, prog, nextOffset)
    BY DEF IInv, TypeOK
  <2>2. CodeOK(code, prog', nextOffset)
    BY <1>2, <1>3, <2>1, Longer DEF Extends
  <2>3. QED
    BY <1>1, <2>1, <2>2
<1>8. nextOffset' + Len(stack') <= MaxLen + 1 + Len(prog')
  BY <1>2, <1>3, <1>5, <1>7
<1>9. QED
  BY <1>1, <1>2, <1>3, <1>5, <1>6, <1>7, <1>8, GenerateInv

\* One new instruction for the expression closed, its operands read, its value
\* in the next slot.
LEMMA ResultInv ==
    ASSUME IInv, NEW kinds, Closes(kinds), NEW op \in {"OP", "CALL"},
           NEW src \in Seq(Slots), \A j \in DOMAIN src : src[j] < nextOffset,
           op = "OP" => Len(src) = 2,
           op = "CALL" => prog[Inner.at] \in Functions,
           nextOffset' = nextOffset + 1, UNCHANGED <<seeded, runVars>>,
           Yield(Pop, nextOffset, <<Do(op, Inner.at, nextOffset, src)>>)
    PROVE  IInv'
<1> DEFINE c == Do(op, Inner.at, nextOffset, src)
           is == <<c>>
<1>1. /\ pc = 0 /\ prog' \in Seq(Kinds) /\ Len(prog') <= MaxLen /\ Extends(prog')
      /\ Pop \in Seq(Frame) /\ StackOK(Pop, prog, nextOffset) /\ prog' = prog
      /\ Inner.at \in DOMAIN prog' /\ Inner.at \in 0 .. MaxLen
      /\ nextOffset + 1 + Len(Pop) <= MaxLen + 1 + Len(prog') /\ nextOffset \in Slots \ {0}
      /\ MaxLen < nextOffset /\ Len(Pop) \in Nat /\ MaxLen \in Nat /\ seeded \in BOOLEAN
  BY CloseFacts
<1>2. nextOffset \in Int /\ Len(prog') \in Nat
  BY <1>1 DEF Slots
<1>3. /\ c \in Instr /\ c.dest = nextOffset /\ c.src = src /\ c.at = Inner.at /\ c.op = op
  BY <1>1 DEF Do, Instr
<1> HIDE DEF c
<1>4. \A j \in DOMAIN src : src[j] \in Int
  <2>1. \A j \in DOMAIN src : src[j] \in Slots
    OBVIOUS
  <2>2. \A s \in Slots : s \in Int
    BY DEF Slots
  <2>3. QED
    BY <2>1, <2>2
<1>5. InstrOK(c, prog', nextOffset')
  BY <1>1, <1>2, <1>3, <1>4 DEF InstrOK
<1>6. is \in Seq(Instr) /\ CodeOK(is, prog', nextOffset')
  BY <1>2, <1>3, <1>4, <1>5, OneInstr
<1>7. \A i \in DOMAIN is : nextOffset <= is[i].dest
  BY <1>2, <1>3
<1>8. nextOffset' + Len(Pop) <= MaxLen + 1 + Len(prog') /\ nextOffset < nextOffset'
  BY <1>1, <1>2
<1>9. Yield(Pop, nextOffset, is)
  BY DEF c
<1> HIDE DEF is
<1>10. seeded' \in BOOLEAN
  BY <1>1
<1>11. QED
  BY <1>1, <1>6, <1>7, <1>8, <1>9, <1>10, YieldInv

\* Two operands for the operators and functions of two.
LEMMA TwoOperands ==
    ASSUME NEW kind \in Numeric \cup Compared
    PROVE  Operands(kind) = 2
<1>1. kind \notin Functions
  BY ExprAssumption DEF ExprAssumption
<1>2. QED
  BY <1>1 DEF Operands, Leaves, Numeric, Compared

\* An operator reads its two operands.
LEMMA BinaryInv == IInv /\ Binary => IInv'
<1> SUFFICES ASSUME IInv, Binary PROVE IInv'
  OBVIOUS
<1> DEFINE kinds == Numeric \cup (Compared \ {"identical"})
<1>1. /\ Closes(kinds) /\ nextOffset' = nextOffset + 1 /\ UNCHANGED <<seeded, runVars>>
      /\ Yield(Pop, nextOffset, <<Do("OP", Inner.at, nextOffset, Inner.places)>>)
  BY DEF Binary, new_temp
<1>2. /\ prog[Inner.at] \in kinds /\ Inner.places \in Seq(Slots)
      /\ Len(Inner.places) = Operands(prog[Inner.at])
      /\ \A j \in DOMAIN Inner.places : Inner.places[j] < nextOffset
  BY <1>1, CloseFacts
<1>3. Len(Inner.places) = 2
  BY <1>2, TwoOperands
<1>4. QED
  BY <1>1, <1>2, <1>3, ResultInv

\* A call reads nothing itself: its arguments were passed one by one.
LEMMA FunctionCallInv == IInv /\ FunctionCall => IInv'
<1> SUFFICES ASSUME IInv, FunctionCall PROVE IInv'
  OBVIOUS
<1>1. /\ Closes(Functions) /\ nextOffset' = nextOffset + 1 /\ UNCHANGED <<seeded, runVars>>
      /\ Yield(Pop, nextOffset, <<Do("CALL", Inner.at, nextOffset, <<>>)>>)
  BY DEF FunctionCall, new_temp
<1>2. prog[Inner.at] \in Functions
  BY <1>1 DEF Closes
<1> DEFINE src == <<>>
<1>3. src \in Seq(Slots) /\ DOMAIN src = {}
  OBVIOUS
<1>4. Yield(Pop, nextOffset, <<Do("CALL", Inner.at, nextOffset, src)>>)
  BY <1>1
<1> HIDE DEF src
<1>5. QED
  BY <1>1, <1>2, <1>3, <1>4, ResultInv

\* === takes a slot that no instruction writes, && and || take none, and ! has
\* that of its operand.
LEMMA NoResultInv ==
    ASSUME IInv, NEW kinds, Closes(kinds), NEW p \in Slots, p < nextOffset',
           nextOffset' \in {nextOffset, nextOffset + 1}, UNCHANGED <<seeded, runVars>>,
           Yield(Pop, p, <<>>)
    PROVE  IInv'
<1> DEFINE is == <<>>
<1>1. /\ pc = 0 /\ prog' \in Seq(Kinds) /\ Len(prog') <= MaxLen /\ Extends(prog')
      /\ Pop \in Seq(Frame) /\ StackOK(Pop, prog, nextOffset)
      /\ nextOffset + 1 + Len(Pop) <= MaxLen + 1 + Len(prog') /\ nextOffset \in Slots \ {0}
      /\ MaxLen < nextOffset /\ Len(Pop) \in Nat /\ MaxLen \in Nat /\ seeded \in BOOLEAN
  BY CloseFacts
<1>2. is \in Seq(Instr) /\ DOMAIN is = {} /\ CodeOK(is, prog', nextOffset')
  BY NoCode
<1>3. nextOffset \in Int /\ Len(prog') \in Nat
  BY <1>1 DEF Slots
<1>4. nextOffset' + Len(Pop) <= MaxLen + 1 + Len(prog')
  BY <1>1, <1>3
<1>5. Yield(Pop, p, is)
  OBVIOUS
<1> HIDE DEF is
<1>6. seeded' \in BOOLEAN
  BY <1>1
<1>7. QED
  BY <1>1, <1>2, <1>4, <1>5, <1>6, YieldInv

\* The operators for which there is no code.
LEMMA CodelessInv == IInv /\ (Identical \/ Conjunction \/ Negation) => IInv'
<1> SUFFICES ASSUME IInv, Identical \/ Conjunction \/ Negation PROVE IInv'
  OBVIOUS
<1>1. CASE Identical
  <2>1. /\ Closes({"identical"}) /\ nextOffset' = nextOffset + 1
        /\ UNCHANGED <<seeded, runVars>> /\ Yield(Pop, nextOffset, <<>>)
    BY <1>1 DEF Identical, new_temp
  <2>2. nextOffset \in Slots /\ nextOffset < nextOffset'
    BY <2>1, CloseFacts DEF Slots
  <2>3. QED
    BY <2>1, <2>2, NoResultInv
<1>2. CASE Conjunction
  <2>1. /\ Closes({"and", "or"}) /\ nextOffset' = nextOffset
        /\ UNCHANGED <<seeded, runVars>> /\ Yield(Pop, 0, <<>>)
    BY <1>2 DEF Conjunction
  <2>2. 0 \in Slots /\ 0 < nextOffset'
    BY <2>1, CloseFacts DEF Slots
  <2>3. QED
    BY <2>1, <2>2, NoResultInv
<1>3. CASE Negation
  <2>1. /\ Closes({"not"}) /\ nextOffset' = nextOffset
        /\ UNCHANGED <<seeded, runVars>> /\ Yield(Pop, Inner.places[1], <<>>)
    BY <1>3 DEF Negation
  <2>2. "not" \notin Functions
    BY ExprAssumption DEF ExprAssumption, Logical
  <2>3. Operands("not") = 1
    BY <2>2 DEF Operands, Leaves
  <2>4. /\ Inner.places \in Seq(Slots) /\ Len(Inner.places) = 1
        /\ \A j \in DOMAIN Inner.places : Inner.places[j] < nextOffset
    <3>1. /\ prog[Inner.at] \in {"not"} /\ Inner.places \in Seq(Slots)
          /\ Len(Inner.places) = Operands(prog[Inner.at])
          /\ \A j \in DOMAIN Inner.places : Inner.places[j] < nextOffset
      BY <2>1, CloseFacts
    <3>2. prog[Inner.at] = "not"
      BY <3>1
    <3>3. QED
      BY <2>3, <3>1, <3>2
  <2>5. Inner.places[1] \in Slots /\ Inner.places[1] < nextOffset'
    BY <2>1, <2>4
  <2>6. QED
    BY <2>1, <2>5, NoResultInv
<1>4. QED
  BY <1>1, <1>2, <1>3

\* println is called, and nothing kept.
LEMMA PrintlnInv == IInv /\ Println => IInv'
<1> SUFFICES ASSUME IInv, Println PROVE IInv'
  OBVIOUS
<1> DEFINE c == Do("CALL", Inner.at, 0, <<>>)
           is == <<c>>
<1>1. /\ Closes({"println"}) /\ nextOffset' = nextOffset
      /\ UNCHANGED <<seeded, runVars>> /\ Yield(Pop, 0, is)
  BY DEF Println
<1>2. /\ pc = 0 /\ prog' \in Seq(Kinds) /\ Len(prog') <= MaxLen /\ Extends(prog')
      /\ Pop \in Seq(Frame) /\ StackOK(Pop, prog, nextOffset) /\ prog' = prog
      /\ Inner.at \in DOMAIN prog' /\ Inner.at \in 0 .. MaxLen /\ prog[Inner.at] = "println"
      /\ nextOffset + 1 + Len(Pop) <= MaxLen + 1 + Len(prog') /\ nextOffset \in Slots \ {0}
      /\ MaxLen < nextOffset /\ Len(Pop) \in Nat /\ MaxLen \in Nat /\ seeded \in BOOLEAN
  BY <1>1, CloseFacts
<1>3. "println" \notin Functions
  BY ExprAssumption DEF ExprAssumption
<1>4. nextOffset \in Int /\ 0 < nextOffset /\ 0 \in Slots /\ Len(prog') \in Nat
  BY <1>2 DEF Slots
<1>5. c \in Instr /\ c.dest = 0 /\ c.src = <<>> /\ c.at = Inner.at /\ c.op = "CALL"
  BY <1>2, <1>4 DEF Do, Instr
<1> HIDE DEF c
<1>6. InstrOK(c, prog', nextOffset')
  BY <1>1, <1>2, <1>3, <1>4, <1>5 DEF InstrOK
<1>7. is \in Seq(Instr) /\ CodeOK(is, prog', nextOffset') /\ \A i \in DOMAIN is : is[i].dest = 0
  BY <1>5, <1>6, OneInstr
<1> HIDE DEF is
<1>8. nextOffset' + Len(Pop) <= MaxLen + 1 + Len(prog') /\ seeded' \in BOOLEAN /\ 0 < nextOffset'
  BY <1>1, <1>2, <1>4
<1>9. QED
  BY <1>1, <1>2, <1>4, <1>7, <1>8, YieldInv

-----------------------------------------------------------------------------
\* Running

\* The instruction being run, in the state before it.
LEMMA RunFacts ==
    ASSUME IInv, NEW op, Runs(op)
    PROVE  /\ UNCHANGED genVars /\ pc' = pc + 1 /\ pc \in 1 .. Len(code) /\ pc \in DOMAIN code
           /\ Instruction.op = op /\ Instruction \in Instr /\ InstrOK(Instruction, prog, nextOffset)
           /\ Instruction.at \in 1 .. MaxLen /\ Instruction.at \in Value
           /\ Instruction.at \in DOMAIN prog
           /\ Instruction.dest \in Slots /\ Instruction.src \in Seq(Slots)
<1>1. /\ UNCHANGED genVars /\ pc' = pc + 1 /\ pc \in DOMAIN code /\ code[pc].op = op
      /\ code \in Seq(Instr) /\ CodeOK(code, prog, nextOffset)
      /\ prog \in Seq(Kinds) /\ Len(prog) <= MaxLen /\ MaxLen \in Nat
  BY ExprAssumption DEF ExprAssumption, Runs, IInv, TypeOK
<1>2. code[pc] \in Instr /\ InstrOK(code[pc], prog, nextOffset) /\ pc \in 1 .. Len(code)
  BY <1>1 DEF CodeOK, InstrsOK
<1>3. code[pc].dest \in Slots /\ code[pc].src \in Seq(Slots)
  BY <1>2, InstrTyped
<1>4. code[pc].at \in DOMAIN prog /\ code[pc].at \in 1 .. MaxLen /\ code[pc].at \in Value
  BY <1>1, <1>2 DEF InstrOK, Value
<1>5. QED
  BY <1>1, <1>2, <1>3, <1>4 DEF Instruction

\* An instruction that stores: its slot holds its value, and it is nobody else's.
LEMMA StoreHolds ==
    ASSUME IInv, pc \in 1 .. Len(code), pc' = pc + 1, UNCHANGED genVars,
           Instruction.dest \in Slots, Instruction.dest # 0,
           NEW v \in Value, Stores(Instruction.dest, v), Computes(Instruction) => v = Instruction.at
    PROVE  mem' \in [Slots -> Value] /\ ValuesHeld'
<1> DEFINE c == code[pc]
<1>1. /\ code' = code /\ prog' = prog /\ mem \in [Slots -> Value] /\ MaxLen \in Nat
      /\ code \in Seq(Instr) /\ CodeOK(code, prog, nextOffset) /\ ValuesHeld
      /\ c.dest \in Slots /\ c.dest # 0 /\ mem' = [mem EXCEPT ![c.dest] = v]
      /\ Computes(c) => v = c.at
  BY ExprAssumption DEF ExprAssumption, IInv, TypeOK, genVars, Instruction, Stores
<1>2. pc \in DOMAIN code /\ InstrOK(c, prog, nextOffset)
  BY <1>1 DEF CodeOK, InstrsOK
<1>3. MaxLen < c.dest /\ c.dest \in Int
  BY <1>1, <1>2 DEF InstrOK, Slots
<1>4. mem' \in [Slots -> Value] /\ mem'[c.dest] = v /\ \A s \in Slots : s # c.dest => mem'[s] = mem[s]
  BY <1>1
<1> HIDE DEF c
<1>5. \A s \in 0 .. MaxLen : mem'[s] = s
  <2> SUFFICES ASSUME NEW s \in 0 .. MaxLen PROVE mem'[s] = s
    OBVIOUS
  <2>1. s \in Slots /\ s # c.dest
    BY <1>1, <1>3 DEF Slots
  <2>2. QED
    BY <1>1, <1>4, <2>1 DEF ValuesHeld
<1>6. \A k \in 1 .. pc' - 1 : (Computes(code[k]))' => mem'[code[k].dest] = code[k].at
  <2> SUFFICES ASSUME NEW k \in 1 .. pc, Computes(code[k])
               PROVE  mem'[code[k].dest] = code[k].at
    BY <1>1 DEF Computes
  <2>1. CASE k = pc
    BY <1>1, <1>4, <2>1 DEF c
  <2>2. CASE k # pc
    <3>1. k \in 1 .. pc - 1 /\ k \in DOMAIN code /\ code[k] \in Instr
      BY <1>1, <2>2
    <3>2. code[k].dest \in Slots
      BY <3>1, InstrTyped
    <3>3. code[k].dest # c.dest
      BY <1>1, <1>2, <2>2, <3>1 DEF CodeOK, Once, Computes, c
    <3>4. mem[code[k].dest] = code[k].at
      BY <1>1, <3>1 DEF ValuesHeld
    <3>5. QED
      BY <1>4, <3>2, <3>3, <3>4
  <2>3. QED
    BY <2>1, <2>2
<1>7. QED
  BY <1>1, <1>4, <1>5, <1>6 DEF ValuesHeld

\* One that stores nothing.
LEMMA SkipHolds ==
    ASSUME IInv, pc \in 1 .. Len(code), pc' = pc + 1, UNCHANGED genVars,
           Instruction.dest = 0, mem' = mem
    PROVE  mem' \in [Slots -> Value] /\ ValuesHeld'
<1>1. /\ code' = code /\ prog' = prog /\ mem \in [Slots -> Value] /\ ValuesHeld
      /\ code[pc].dest = 0
  BY DEF IInv, TypeOK, genVars, Instruction
<1>2. \A k \in 1 .. pc' - 1 : (Computes(code[k]))' => mem'[code[k].dest] = code[k].at
  <2> SUFFICES ASSUME NEW k \in 1 .. pc, Computes(code[k])
               PROVE  mem'[code[k].dest] = code[k].at
    BY <1>1 DEF Computes
  <2>1. k \in 1 .. pc - 1
    BY <1>1 DEF Computes
  <2>2. QED
    BY <1>1, <2>1 DEF ValuesHeld
<1>3. QED
  BY <1>1, <1>2 DEF ValuesHeld

\* What else an instruction must keep.
LEMMA RunInv ==
    ASSUME IInv, pc \in 1 .. Len(code), pc' = pc + 1, UNCHANGED genVars,
           mem' \in [Slots -> Value] /\ ValuesHeld',
           args' \in Seq(Slots), Len(args') <= ArgRegs, eax' \in Value,
           done' \in Seq([at : 1 .. MaxLen, args : Seq(Value)])
    PROVE  IInv'
<1>1. code' = code /\ pc' \in 0 .. Len(code') + 1
  BY DEF genVars, IInv, TypeOK
<1>2. TypeOK'
  BY <1>1 DEF IInv, TypeOK, genVars
<1>3. QED
  BY <1>2 DEF IInv, Room, genVars

\* A new entry of the trace.
LEMMA DidTyped ==
    ASSUME IInv, Instruction.at \in 1 .. MaxLen, NEW values \in Seq(Value), Did(values)
    PROVE  done' \in Seq([at : 1 .. MaxLen, args : Seq(Value)])
<1> DEFINE r == [at |-> Instruction.at, args |-> values]
<1>1. r \in [at : 1 .. MaxLen, args : Seq(Value)]
  OBVIOUS
<1>2. done' = Append(done, r) /\ done \in Seq([at : 1 .. MaxLen, args : Seq(Value)])
  BY DEF Did, IInv, TypeOK
<1> HIDE DEF r
<1>3. QED
  BY <1>1, <1>2

\* The types that a run keeps by leaving things alone.
LEMMA Kept ==
    ASSUME IInv
    PROVE  /\ args \in Seq(Slots) /\ Len(args) <= ArgRegs /\ eax \in Value
           /\ done \in Seq([at : 1 .. MaxLen, args : Seq(Value)])
           /\ mem \in [Slots -> Value] /\ Garbage \in Value /\ MaxLen \in Nat
           /\ ArgRegs \in Nat \ {0} /\ <<>> \in Seq(Slots) /\ Len(<<>>) = 0
           /\ \A i \in 1 .. ArgRegs : Register(i) \in Value
<1>1. /\ args \in Seq(Slots) /\ Len(args) <= ArgRegs /\ eax \in Value
      /\ done \in Seq([at : 1 .. MaxLen, args : Seq(Value)])
      /\ mem \in [Slots -> Value] /\ MaxLen \in Nat /\ ArgRegs \in Nat \ {0}
  BY ExprAssumption DEF ExprAssumption, IInv, TypeOK
<1>2. Garbage \in Value /\ <<>> \in Seq(Slots) /\ Len(<<>>) = 0
  BY <1>1 DEF Garbage, Value
<1>3. ASSUME NEW i \in 1 .. ArgRegs PROVE Register(i) \in Value
  <2>1. CASE i <= Len(args)
    <3>1. args[i] \in Slots
      BY <1>1, <2>1
    <3>2. QED
      BY <1>1, <2>1, <3>1 DEF Register
  <2>2. CASE ~(i <= Len(args))
    BY <1>2, <2>2 DEF Register
  <2>3. QED
    BY <2>1, <2>2
<1>4. QED
  BY <1>1, <1>2, <1>3

\* The code is complete when it is written and run.
LEMMA StartInv == IInv /\ Start => IInv'
<1> SUFFICES ASSUME IInv, Start PROVE IInv'
  OBVIOUS
<1>1. pc' = 1 /\ args' = <<>> /\ UNCHANGED <<genVars, mem, eax, done>>
  BY DEF Start
<1>2. code' = code /\ pc' \in 0 .. Len(code') + 1
  BY <1>1 DEF genVars, IInv, TypeOK
<1>3. ArgRegs \in Nat /\ MaxLen \in Nat
  BY ExprAssumption DEF ExprAssumption
<1>4. TypeOK'
  BY <1>1, <1>2, <1>3 DEF IInv, TypeOK, genVars
<1>5. ValuesHeld'
  BY <1>1 DEF IInv, ValuesHeld
<1>6. QED
  BY <1>1, <1>4, <1>5 DEF IInv, Room, genVars

\* Constants and random numbers go to their slots.
LEMMA LeafRuns == IInv /\ (Asn \/ Rand) => IInv'
<1> SUFFICES ASSUME IInv, Asn \/ Rand PROVE IInv'
  OBVIOUS
<1>1. PICK op \in {"ASN", "RAND"} : Runs(op)
  BY DEF Asn, Rand
<1>2. /\ UNCHANGED genVars /\ pc' = pc + 1 /\ pc \in 1 .. Len(code) /\ Instruction.op = op
      /\ InstrOK(Instruction, prog, nextOffset)
      /\ Instruction.at \in 1 .. MaxLen /\ Instruction.at \in Value /\ Instruction.dest \in Slots
  BY <1>1, RunFacts
<1>3. Instruction.dest # 0
  BY <1>1, <1>2 DEF InstrOK
<1>4. Stores(Instruction.dest, Instruction.at) /\ args' = args /\ eax' \in Value
  BY <1>2, Kept DEF Asn, Rand
<1>5. mem' \in [Slots -> Value] /\ ValuesHeld'
  BY <1>2, <1>3, <1>4, StoreHolds
<1>6. done' \in Seq([at : 1 .. MaxLen, args : Seq(Value)])
  <2>1. CASE Asn
    BY <2>1, Kept DEF Asn
  <2>2. CASE Rand
    <3> DEFINE values == <<>>
    <3>1. Did(values) /\ values \in Seq(Value)
      BY <2>2 DEF Rand
    <3> HIDE DEF values
    <3>2. QED
      BY <1>2, <3>1, DidTyped
  <2>3. QED
    BY <2>1, <2>2
<1>7. QED
  BY <1>2, <1>4, <1>5, <1>6, Kept, RunInv

\* An operator stores its result.
LEMMA OpRuns == IInv /\ Op => IInv'
<1> SUFFICES ASSUME IInv, Op PROVE IInv'
  OBVIOUS
<1> DEFINE values == <<mem[Instruction.src[1]], mem[Instruction.src[2]]>>
<1>1. /\ Runs("OP") /\ Stores(Instruction.dest, Instruction.at) /\ Did(values)
      /\ eax' \in {eax, Instruction.at} /\ args' = args
  BY DEF Op
<1>2. /\ UNCHANGED genVars /\ pc' = pc + 1 /\ pc \in 1 .. Len(code) /\ Instruction.op = "OP"
      /\ InstrOK(Instruction, prog, nextOffset)
      /\ Instruction.at \in 1 .. MaxLen /\ Instruction.at \in Value /\ Instruction.dest \in Slots
      /\ Instruction.src \in Seq(Slots)
  BY <1>1, RunFacts
<1>3. Instruction.dest # 0 /\ Len(Instruction.src) = 2
  BY <1>2 DEF InstrOK
<1>4. Instruction.src[1] \in Slots /\ Instruction.src[2] \in Slots
  BY <1>2, <1>3
<1>5. values \in Seq(Value)
  <2>1. mem[Instruction.src[1]] \in Value /\ mem[Instruction.src[2]] \in Value
    BY <1>4, Kept
  <2>2. QED
    BY <2>1
<1> HIDE DEF values
<1>6. done' \in Seq([at : 1 .. MaxLen, args : Seq(Value)])
  BY <1>1, <1>2, <1>5, DidTyped
<1>7. mem' \in [Slots -> Value] /\ ValuesHeld'
  BY <1>1, <1>2, <1>3, StoreHolds
<1>8. args' \in Seq(Slots) /\ Len(args') <= ArgRegs /\ eax' \in Value
  BY <1>1, <1>2, Kept
<1>9. QED
  BY <1>2, <1>6, <1>7, <1>8, RunInv

\* A parameter is noted, if there is a register for it.
LEMMA ParmRuns == IInv /\ Parm => IInv'
<1> SUFFICES ASSUME IInv, Parm PROVE IInv'
  OBVIOUS
<1>1. /\ Runs("PARM") /\ UNCHANGED <<mem, eax, done>>
      /\ args' = IF Len(args) < ArgRegs THEN Append(args, Instruction.src[1]) ELSE args
  BY DEF Parm
<1>2. /\ UNCHANGED genVars /\ pc' = pc + 1 /\ pc \in 1 .. Len(code) /\ Instruction.op = "PARM"
      /\ InstrOK(Instruction, prog, nextOffset) /\ Instruction.src \in Seq(Slots)
  BY <1>1, RunFacts
<1>3. Instruction.dest = 0 /\ Len(Instruction.src) = 1
  BY <1>2 DEF InstrOK
<1>4. Instruction.src[1] \in Slots
  BY <1>2, <1>3
<1>5. args' \in Seq(Slots) /\ Len(args') <= ArgRegs
  BY <1>1, <1>4, Kept
<1>6. mem' \in [Slots -> Value] /\ ValuesHeld'
  BY <1>1, <1>2, <1>3, SkipHolds
<1>7. QED
  BY <1>1, <1>2, <1>5, <1>6, Kept, RunInv

\* A call stores what the callee left in eax, and forgets the arguments.
LEMMA CallRuns == IInv /\ Call => IInv'
<1> SUFFICES ASSUME IInv, Call PROVE IInv'
  OBVIOUS
<1> DEFINE f == prog[Instruction.at]
           values == [i \in 1 .. Arity[f] |-> Register(i)]
<1>1. /\ Runs("CALL") /\ f \in Functions /\ Did(values)
      /\ eax' = Result /\ Stores(Instruction.dest, Result) /\ args' = <<>>
  BY DEF Call
<1>2. /\ UNCHANGED genVars /\ pc' = pc + 1 /\ pc \in 1 .. Len(code) /\ Instruction.op = "CALL"
      /\ InstrOK(Instruction, prog, nextOffset)
      /\ Instruction.at \in 1 .. MaxLen /\ Instruction.at \in Value /\ Instruction.dest \in Slots
  BY <1>1, RunFacts
<1>3. Instruction.dest # 0
  BY <1>1, <1>2 DEF InstrOK
<1>4. values \in Seq(Value)
  <2>1. Arity[f] \in 0 .. ArgRegs /\ ArgRegs \in Nat
    BY <1>1, ExprAssumption DEF ExprAssumption
  <2>2. Arity[f] \in Nat /\ \A i \in 1 .. Arity[f] : Register(i) \in Value
    BY <2>1, Kept
  <2> DEFINE n == Arity[f]
  <2> HIDE DEF n
  <2>3. [i \in 1 .. n |-> Register(i)] \in Seq(Value)
    BY <2>2 DEF n
  <2>4. QED
    BY <2>3 DEF n
<1> HIDE DEF values
<1>5. done' \in Seq([at : 1 .. MaxLen, args : Seq(Value)])
  BY <1>1, <1>2, <1>4, DidTyped
<1>6. Result \in Value /\ (Computes(Instruction) => Result = Instruction.at)
  BY <1>2, Kept DEF Result, Computes
<1>7. mem' \in [Slots -> Value] /\ ValuesHeld'
  BY <1>1, <1>2, <1>3, <1>6, StoreHolds
<1>8. QED
  BY <1>1, <1>2, <1>5, <1>6, <1>7, Kept, RunInv

\* printf and srand store nothing.
LEMMA OutsideRuns == IInv /\ (CallPrintln \/ Srand) => IInv'
<1> SUFFICES ASSUME IInv, CallPrintln \/ Srand PROVE IInv'
  OBVIOUS
<1>1. CASE CallPrintln
  <2>1. /\ Runs("CALL") /\ prog[Instruction.at] = "println" /\ Did(<<Register(1)>>)
        /\ eax' = Garbage /\ args' = <<>> /\ mem' = mem
    BY <1>1 DEF CallPrintln
  <2>2. /\ UNCHANGED genVars /\ pc' = pc + 1 /\ pc \in 1 .. Len(code) /\ Instruction.op = "CALL"
        /\ InstrOK(Instruction, prog, nextOffset) /\ Instruction.at \in 1 .. MaxLen
    BY <2>1, RunFacts
  <2>3. "println" \notin Functions
    BY ExprAssumption DEF ExprAssumption
  <2>4. Instruction.dest = 0
    BY <2>1, <2>2, <2>3 DEF InstrOK
  <2>5. <<Register(1)>> \in Seq(Value)
    BY Kept
  <2>6. done' \in Seq([at : 1 .. MaxLen, args : Seq(Value)])
    BY <2>1, <2>2, <2>5, DidTyped
  <2>7. mem' \in [Slots -> Value] /\ ValuesHeld'
    BY <2>1, <2>2, <2>4, SkipHolds
  <2>8. QED
    BY <2>1, <2>2, <2>6, <2>7, Kept, RunInv
<1>2. CASE Srand
  <2>1. Runs("SRAND") /\ eax' = Garbage /\ UNCHANGED <<args, mem, done>>
    BY <1>2 DEF Srand
  <2>2. /\ UNCHANGED genVars /\ pc' = pc + 1 /\ pc \in 1 .. Len(code) /\ Instruction.op = "SRAND"
        /\ InstrOK(Instruction, prog, nextOffset)
    BY <2>1, RunFacts
  <2>3. Instruction.dest = 0
    BY <2>2 DEF InstrOK
  <2>4. mem' \in [Slots -> Value] /\ ValuesHeld'
    BY <2>1, <2>2, <2>3, SkipHolds
  <2>5. QED
    BY <2>1, <2>2, <2>4, Kept, RunInv
<1>3. QED
  BY <1>1, <1>2

-----------------------------------------------------------------------------
\* The theorems about slots

\* Before the first event the frame holds the variables, and there is no code.
LEMMA InitInv == Init => IInv
<1> SUFFICES ASSUME Init PROVE IInv
  OBVIOUS
<1>1. MaxLen \in Nat \ {0} /\ ArgRegs \in Nat
  BY ExprAssumption DEF ExprAssumption
<1>2. mem \in [Slots -> Value] /\ \A s \in 0 .. MaxLen : mem[s] = s
  BY <1>1 DEF Init, Slots, Value, Garbage
<1>3. TypeOK
  <2>1. /\ prog = <<>> /\ stack = <<>> /\ code = <<>> /\ roots = <<>> /\ args = <<>>
        /\ done = <<>> /\ pc = 0 /\ eax = 0 /\ nextOffset = MaxLen + 1 /\ seeded = FALSE
    BY DEF Init, Garbage
  <2>2. nextOffset \in MaxLen + 1 .. 2 * MaxLen + 1 /\ eax \in Value
    BY <1>1, <2>1 DEF Value
  <2>3. /\ Len(<<>>) = 0 /\ <<>> \in Seq(Kinds) /\ <<>> \in Seq(Instr) /\ <<>> \in Seq(Slots)
        /\ <<>> \in Seq([at : 1 .. MaxLen, places : Seq(Slots)])
        /\ <<>> \in Seq([at : 1 .. MaxLen, args : Seq(Value)])
    OBVIOUS
  <2>4. pc \in 0 .. Len(code) + 1 /\ Len(prog) <= MaxLen /\ Len(args) <= ArgRegs
    BY <1>1, <2>1, <2>3
  <2>5. seeded \in BOOLEAN
    BY <2>1
  <2>6. QED
    BY <1>2, <2>1, <2>2, <2>3, <2>4, <2>5 DEF TypeOK
<1>4. CodeOK(code, prog, nextOffset) /\ StackOK(stack, prog, nextOffset)
  BY NoCode DEF Init, StackOK
<1>5. Room /\ ValuesHeld
  BY <1>1, <1>2 DEF Init, Room, ValuesHeld
<1>6. QED
  BY <1>3, <1>4, <1>5 DEF IInv

\* Every step of generating and of running keeps the invariant.
LEMMA NextInv == IInv /\ [Next]_vars => IInv'
<1> SUFFICES ASSUME IInv, [Next]_vars PROVE IInv'
  OBVIOUS
<1>1. CASE UNCHANGED vars
  BY <1>1 DEF vars, genVars, runVars, IInv, TypeOK, Room, ValuesHeld, Computes
<1>2. CASE Stop
  BY <1>1, <1>2 DEF Stop
<1>3. QED
  BY <1>1, <1>2, NameInv, LiteralInv, RandomInv, OpenInv, BinaryInv, CodelessInv, FunctionCallInv,
     PrintlnInv, StartInv, LeafRuns, OpRuns, ParmRuns, CallRuns, OutsideRuns DEF Next

\* The invariant holds for every program of expressions.
LEMMA Invariance == Spec => []IInv
  BY InitInv, NextInv, PTL DEF Spec

\* Text, stack, code, arguments and memory keep their types; no more slots are
\* given out than the text has events, and never more than six arguments wait.
THEOREM TypeCorrect == Spec => []TypeOK
  BY Invariance, PTL DEF IInv

\* Every value stays in the slot it was computed into, whatever runs after it:
\* no two instructions of a function write one temporary (new_temp), and none
\* writes a variable.
THEOREM ValuesAreHeld == Spec => []ValuesHeld
  BY Invariance, PTL DEF IInv

\* No instruction runs before those that compute what it reads: generate_code
\* puts the code of the operands in front, however deep they are nested.
THEOREM OperandsAreReady == Spec => []OperandsReady
<1>1. IInv => OperandsReady
  <2> SUFFICES ASSUME IInv, pc \in DOMAIN code, NEW j \in DOMAIN code[pc].src,
                      NEW k \in DOMAIN code,
                      code[k].dest = code[pc].src[j], Computes(code[k])
               PROVE  mem[code[k].dest] = code[k].at
    BY DEF OperandsReady
  <2>1. k < pc
    BY DEF IInv, CodeOK, Ordered, Computes
  <2>2. k \in 1 .. pc - 1
    BY <2>1 DEF IInv, TypeOK
  <2>3. QED
    BY <2>2 DEF IInv, ValuesHeld
<1>2. QED
  BY Invariance, <1>1, PTL

-----------------------------------------------------------------------------
\* The text

\* Every kind has a number of operands.
LEMMA OperandsTyped == \A kind \in Kinds : Operands(kind) \in Nat
<1>1. \A f \in Functions : Arity[f] \in Nat
  BY ExprAssumption DEF ExprAssumption
<1>2. QED
  BY <1>1 DEF Operands

\* One more step of After, from what is known behind event i.
OneAfter(g, i) ==
    [n \in Nat |-> IF n = 0 \/ i > Len(prog) THEN i ELSE g[i + 1][n - 1 + Operands(prog[i])]]

\* g is After from event low on.
AfterFrom(g, low) == \A i \in 1 .. MaxLen + 1 : low <= i => g[i] = OneAfter(g, i)

\* What is behind event i goes by what is behind the next.
LEMMA OneAfterGoesBy ==
    ASSUME NEW g, NEW h, NEW i \in Nat, i <= Len(prog) => g[i + 1] = h[i + 1],
           prog \in Seq(Kinds)
    PROVE  OneAfter(g, i) = OneAfter(h, i)
<1>1. CASE i > Len(prog)
  BY <1>1 DEF OneAfter
<1>2. CASE ~(i > Len(prog))
  BY <1>2 DEF OneAfter
<1>3. QED
  BY <1>1, <1>2

\* There is such a function as After describes.
LEMMA AfterUnfolds ==
    ASSUME prog \in Seq(Kinds), Len(prog) <= MaxLen
    PROVE  \A i \in 1 .. MaxLen + 1 : After[i] = OneAfter(After, i)
<1>1. MaxLen \in Nat /\ Len(prog) \in Nat
  BY ExprAssumption DEF ExprAssumption
<1> DEFINE Known == {k \in Nat : \E g : AfterFrom(g, MaxLen + 1 - k)}
<1>2. 0 \in Known
  <2> DEFINE g == [i \in 1 .. MaxLen + 1 |-> OneAfter(<<>>, i)]
  <2>1. \A i \in 1 .. MaxLen + 1 : g[i] = OneAfter(<<>>, i)
    OBVIOUS
  <2> HIDE DEF g
  <2>2. ASSUME NEW i \in 1 .. MaxLen + 1, MaxLen + 1 - 0 <= i PROVE g[i] = OneAfter(g, i)
    <3>1. ~(i <= Len(prog)) /\ i \in Nat
      BY <1>1, <2>2
    <3>2. QED
      BY <2>1, <3>1, OneAfterGoesBy
  <2>3. AfterFrom(g, MaxLen + 1 - 0)
    BY <2>2 DEF AfterFrom
  <2>4. QED
    BY <2>3
<1>3. ASSUME NEW k \in Nat, k \in Known PROVE k + 1 \in Known
  <2>1. PICK g : AfterFrom(g, MaxLen + 1 - k)
    BY <1>3
  <2> DEFINE h == [i \in 1 .. MaxLen + 1 |-> OneAfter(g, i)]
  <2>2. \A i \in 1 .. MaxLen + 1 : h[i] = OneAfter(g, i)
    OBVIOUS
  <2> HIDE DEF h
  <2>3. ASSUME NEW i \in 1 .. MaxLen + 1, MaxLen + 1 - (k + 1) <= i
        PROVE  h[i] = OneAfter(h, i)
    <3>1. i <= Len(prog) => i + 1 \in 1 .. MaxLen + 1 /\ MaxLen + 1 - k <= i + 1
      BY <1>1, <2>3
    <3>2. i <= Len(prog) => g[i + 1] = h[i + 1]
      BY <2>1, <2>2, <3>1 DEF AfterFrom
    <3>3. OneAfter(g, i) = OneAfter(h, i)
      BY <3>2, OneAfterGoesBy
    <3>4. QED
      BY <2>2, <3>3
  <2>4. AfterFrom(h, MaxLen + 1 - (k + 1))
    BY <2>3 DEF AfterFrom
  <2>5. QED
    BY <2>4
<1>4. MaxLen \in Known
  <2> HIDE DEF Known
  <2>1. \A k \in Nat : k \in Known
    BY <1>2, <1>3, InductionOnNat
  <2>2. QED
    BY <1>1, <2>1
<1>5. PICK g : AfterFrom(g, 1)
  BY <1>1, <1>4
<1> DEFINE h == [i \in 1 .. MaxLen + 1 |-> OneAfter(g, i)]
<1>6. \A i \in 1 .. MaxLen + 1 : h[i] = OneAfter(g, i)
  OBVIOUS
<1>7. ASSUME NEW i \in 1 .. MaxLen + 1 PROVE OneAfter(g, i) = OneAfter(h, i)
  <2> HIDE DEF h
  <2>1. i <= Len(prog) => i + 1 \in 1 .. MaxLen + 1
    BY <1>1
  <2>2. i <= Len(prog) => g[i + 1] = h[i + 1]
    BY <1>5, <1>6, <2>1 DEF AfterFrom
  <2>3. QED
    BY <2>2, OneAfterGoesBy
<1>8. h = [i \in 1 .. MaxLen + 1 |-> OneAfter(h, i)]
  <2>1. \A i \in 1 .. MaxLen + 1 : h[i] = OneAfter(h, i)
    BY <1>6, <1>7
  <2>2. h = [i \in 1 .. MaxLen + 1 |-> h[i]]
    OBVIOUS
  <2> HIDE DEF h
  <2>3. QED
    BY <2>1, <2>2
<1> HIDE DEF h
<1>9. \E f : f = [i \in 1 .. MaxLen + 1 |-> OneAfter(f, i)]
  BY <1>8
<1>10. After = [i \in 1 .. MaxLen + 1 |-> OneAfter(After, i)]
  BY <1>9, Zenon DEF After, OneAfter
<1>11. \A i \in 1 .. MaxLen + 1 : [j \in 1 .. MaxLen + 1 |-> OneAfter(After, j)][i] = OneAfter(After, i)
  OBVIOUS
<1>12. QED
  BY <1>10, <1>11, Zenon

\* left counts the expressions still to come before each event from i to e.
Counts(left, pr, i, n, e) ==
    /\ left \in [i .. e -> Nat]
    /\ left[i] = n /\ left[e] = 0
    /\ \A k \in i .. e - 1 : left[k] # 0 /\ left[k + 1] = left[k] - 1 + Operands(pr[k])

\* The n expressions that begin at event i of the text pr end before event e.
Spans(pr, i, n, e) == i <= e /\ \E left : Counts(left, pr, i, n, e)

\* No expression has no event.
LEMMA SpansNone == ASSUME NEW pr, NEW i \in Nat PROVE Spans(pr, i, 0, i)
<1> DEFINE left == [k \in i .. i |-> 0]
<1>1. i \in i .. i /\ i .. i - 1 = {}
  OBVIOUS
<1>2. left \in [i .. i -> Nat] /\ left[i] = 0
  BY <1>1
<1> HIDE DEF left
<1>3. Counts(left, pr, i, 0, i)
  BY <1>1, <1>2 DEF Counts
<1>4. QED
  BY <1>3 DEF Spans

\* An operator and its operands are one expression.
LEMMA SpansOne ==
    ASSUME NEW pr, NEW i \in Nat, NEW e \in Nat, NEW n \in Nat, n = Operands(pr[i]),
           Spans(pr, i + 1, n, e)
    PROVE  Spans(pr, i, 1, e)
<1>1. PICK rest : Counts(rest, pr, i + 1, n, e)
  BY DEF Spans
<1> DEFINE left == [k \in i .. e |-> IF k = i THEN 1 ELSE rest[k]]
<1>2. i + 1 <= e /\ \A k \in i .. e : k = i \/ k \in i + 1 .. e
  BY DEF Spans
<1>3. /\ left \in [i .. e -> Nat] /\ left[i] = 1
      /\ \A k \in i + 1 .. e : left[k] = rest[k]
  BY <1>1, <1>2 DEF Counts
<1> HIDE DEF left
<1>4. left[e] = 0 /\ left[i + 1] = n
  BY <1>1, <1>2, <1>3 DEF Counts
<1>5. ASSUME NEW k \in i .. e - 1 PROVE left[k] # 0 /\ left[k + 1] = left[k] - 1 + Operands(pr[k])
  <2>1. CASE k = i
    BY <1>3, <1>4, <2>1
  <2>2. CASE k # i
    <3>1. k \in i + 1 .. e - 1 /\ k \in i + 1 .. e /\ k + 1 \in i + 1 .. e
      BY <2>2
    <3>2. QED
      BY <1>1, <1>3, <3>1 DEF Counts
  <2>3. QED
    BY <2>1, <2>2
<1>6. Counts(left, pr, i, 1, e)
  BY <1>3, <1>4, <1>5 DEF Counts
<1>7. QED
  BY <1>2, <1>6 DEF Spans

\* Expressions, then more expressions.
LEMMA SpansJoin ==
    ASSUME NEW pr, NEW i \in Nat, NEW m \in Nat, NEW e \in Nat, NEW a \in Nat, NEW b \in Nat,
           \A k \in i .. m - 1 : Operands(pr[k]) \in Nat,
           Spans(pr, i, a, m), Spans(pr, m, b, e)
    PROVE  Spans(pr, i, a + b, e)
<1>1. PICK f : Counts(f, pr, i, a, m)
  BY DEF Spans
<1>2. PICK g : Counts(g, pr, m, b, e)
  BY DEF Spans
<1> DEFINE left == [k \in i .. e |-> IF k < m THEN f[k] + b ELSE g[k]]
<1>3. /\ i <= m /\ m <= e
      /\ \A k \in i .. e : k < m => k \in i .. m
      /\ \A k \in i .. e : ~(k < m) => k \in m .. e
  BY DEF Spans
<1>4. /\ \A k \in i .. m : f[k] \in Nat
      /\ \A k \in m .. e : g[k] \in Nat
      /\ f[i] = a /\ f[m] = 0 /\ g[m] = b /\ g[e] = 0
  BY <1>1, <1>2 DEF Counts
<1>5. left \in [i .. e -> Nat]
  BY <1>3, <1>4
<1>6. /\ \A k \in i .. m : left[k] = f[k] + b
      /\ \A k \in m .. e : left[k] = g[k]
  BY <1>3, <1>4
<1> HIDE DEF left
<1>7. left[i] = a + b /\ left[e] = 0
  BY <1>3, <1>4, <1>6
<1>8. ASSUME NEW k \in i .. e - 1 PROVE left[k] # 0 /\ left[k + 1] = left[k] - 1 + Operands(pr[k])
  <2>1. CASE k < m
    <3>1. k \in i .. m - 1 /\ k \in i .. m /\ k + 1 \in i .. m
      BY <2>1
    <3>2. f[k] # 0 /\ f[k + 1] = f[k] - 1 + Operands(pr[k]) /\ Operands(pr[k]) \in Nat
      BY <1>1, <3>1 DEF Counts
    <3>3. left[k] = f[k] + b /\ left[k + 1] = f[k + 1] + b /\ f[k] \in Nat
      BY <1>4, <1>6, <3>1
    <3>4. QED
      BY <3>2, <3>3
  <2>2. CASE ~(k < m)
    <3>1. k \in m .. e - 1 /\ k \in m .. e /\ k + 1 \in m .. e
      BY <2>2
    <3>2. QED
      BY <1>2, <1>6, <3>1 DEF Counts
  <2>3. QED
    BY <2>1, <2>2
<1>9. Counts(left, pr, i, a + b, e)
  BY <1>5, <1>7, <1>8 DEF Counts
<1>10. QED
  BY <1>3, <1>9 DEF Spans

\* A longer text does not change what has been read.
LEMMA SpansLonger ==
    ASSUME NEW pr, NEW q, NEW i \in Nat, NEW n, NEW e \in Nat, Spans(pr, i, n, e),
           \A k \in i .. e - 1 : q[k] = pr[k]
    PROVE  Spans(q, i, n, e)
  BY DEF Spans, Counts

\* After finds the end of what has been read.
LEMMA AfterSpans ==
    ASSUME prog \in Seq(Kinds), Len(prog) <= MaxLen, NEW i \in Nat \ {0}, NEW n \in Nat, NEW e \in Nat,
           Spans(prog, i, n, e), e <= Len(prog) + 1
    PROVE  After[i][n] = e
<1>1. MaxLen \in Nat /\ Len(prog) \in Nat
  BY ExprAssumption DEF ExprAssumption
<1>2. PICK left : Counts(left, prog, i, n, e)
  BY DEF Spans
<1>3. i <= e
  BY DEF Spans
<1> DEFINE Found == {d \in 0 .. e - i : After[e - d][left[e - d]] = e}
<1>4. \A k \in i .. e : k \in 1 .. MaxLen + 1 /\ left[k] \in Nat
  BY <1>1, <1>2 DEF Counts
<1>5. \A k \in i .. e : After[k][left[k]] =
         IF left[k] = 0 \/ k > Len(prog) THEN k ELSE After[k + 1][left[k] - 1 + Operands(prog[k])]
  <2> SUFFICES ASSUME NEW k \in i .. e
               PROVE  After[k][left[k]] = IF left[k] = 0 \/ k > Len(prog) THEN k
                                          ELSE After[k + 1][left[k] - 1 + Operands(prog[k])]
    OBVIOUS
  <2>1. After[k] = OneAfter(After, k)
    BY <1>4, AfterUnfolds
  <2>2. QED
    BY <1>4, <2>1 DEF OneAfter
<1>6. 0 \in Found
  <2>1. e \in i .. e /\ left[e] = 0 /\ 0 \in 0 .. e - i /\ e - 0 = e
    BY <1>2, <1>3 DEF Counts
  <2>2. QED
    BY <1>5, <2>1
<1>7. ASSUME NEW d \in 0 .. (e - i) - 1, d \in Found PROVE d + 1 \in Found
  <2>1. /\ e - (d + 1) \in i .. e - 1 /\ e - (d + 1) \in i .. e /\ (e - (d + 1)) + 1 = e - d
        /\ d + 1 \in 0 .. e - i /\ ~(e - (d + 1) > Len(prog))
    BY <1>1, <1>3
  <2> DEFINE k == e - (d + 1)
  <2>2. left[k] # 0 /\ left[k + 1] = left[k] - 1 + Operands(prog[k]) /\ k + 1 = e - d
    BY <1>2, <2>1 DEF Counts
  <2>3. After[k][left[k]] = After[k + 1][left[k + 1]]
    BY <1>5, <2>1, <2>2
  <2>4. QED
    BY <1>7, <2>1, <2>2, <2>3
<1>8. e - i \in Found
  <2> HIDE DEF Found
  <2>1. e - i \in Nat /\ e - i \in 0 .. e - i
    BY <1>3
  <2>2. \A d \in 0 .. e - i : d \in Found
    BY <1>6, <1>7, <2>1, InductionUpTo
  <2>3. QED
    BY <2>1, <2>2
<1>9. e - (e - i) = i /\ left[i] = n
  BY <1>2 DEF Counts
<1>10. QED
  BY <1>8, <1>9

-----------------------------------------------------------------------------
\* The code that a text asks for

\* Event o, being generated next, is the next operand of the innermost expression
\* under way, that of the next one, and so on out to the statement.
Nested(st, rts, pr, o) ==
    /\ \A n \in DOMAIN st : /\ Spans(pr, st[n].at + 1, Len(st[n].places),
                                     IF n = Len(st) THEN o ELSE st[n + 1].at)
                            /\ st[n].at < o
                            /\ \A m \in DOMAIN st : n < m => st[n].at < st[m].at
    /\ Spans(pr, 1, Len(rts), IF st = <<>> THEN o ELSE st[1].at)

\* An instruction that leaves its own value in its slot.
Makes(pr, x) == x.dest # 0 /\ ~(x.op = "CALL" /\ pr[x.at] \in Silent)

\* The value of event o, if it has one, is or will be in place p.
Placed(pr, c, o, p) ==
    pr[o] \notin {"identical"} \cup Logical \cup Silent \cup {"println"} =>
        \/ pr[o] = "name" /\ p = o
        \/ \E k \in DOMAIN c : Makes(pr, c[k]) /\ c[k].dest = p /\ c[k].at = o

\* p is the place of the expression after n from event i.
Holds(pr, c, i, n, p) == \E o \in DOMAIN pr : Spans(pr, i, n, o) /\ Placed(pr, c, o, p)

PlacesOK(st, rts, c, pr) ==
    /\ \A n \in DOMAIN st : \A j \in DOMAIN st[n].places :
          Holds(pr, c, st[n].at + 1, j - 1, st[n].places[j])
    /\ \A j \in DOMAIN rts : Holds(pr, c, 1, j - 1, rts[j])

\* An instruction is of the kind its event asks for, and an operator's reads its
\* operands.
Asked(pr, c, x) ==
    /\ x.op = "RAND" => pr[x.at] = "random"
    /\ x.op = "CALL" => Called(pr[x.at])
    /\ x.op = "OP" => /\ pr[x.at] \in Numeric \cup (Compared \ {"identical"})
                      /\ \A j \in 1 .. 2 : Holds(pr, c, x.at + 1, j - 1, x.src[j])

OpsOK(c, pr) == \A k \in DOMAIN c : Asked(pr, c, c[k])

\* An operation of the text, and an instruction that runs one.
Works(kind) == kind \notin {"name", "literal", "identical"} \cup Logical
Doing(x) == x.op \in {"OP", "CALL", "RAND"}

\* The events under way.
Under(st) == {st[n].at : n \in DOMAIN st}

\* Event o and its operands end before event h, and before or within what is under way.
Closed(under, pr, o, e, h) ==
    Spans(pr, o, 1, e) /\ e <= h /\ \A a \in under : a < o \/ e <= a

EndsSooner(pr, a, b) ==
    \E e, f \in 1 .. Len(pr) + 1 : /\ Spans(pr, a, 1, e) /\ Spans(pr, b, 1, f)
                                   /\ e < f \/ (e = f /\ b < a)

\* What is not under way any more has its instruction, in the order of the ends.
WorkOK(under, c, pr, h) ==
    /\ \A k \in DOMAIN c : Doing(c[k]) => \E e \in Nat : Closed(under, pr, c[k].at, e, h)
    /\ \A o \in DOMAIN pr : Works(pr[o]) => \/ o \in under
                                            \/ \E k \in DOMAIN c : Doing(c[k]) /\ c[k].at = o
    /\ \A k, m \in DOMAIN c : Doing(c[k]) /\ Doing(c[m]) /\ k < m => EndsSooner(pr, c[k].at, c[m].at)

Translated ==
    /\ Nested(stack, roots, prog, Here)
    /\ PlacesOK(stack, roots, code, prog)
    /\ OpsOK(code, prog)
    /\ WorkOK(Under(stack), code, prog, Here)

\* The operations done are those of the code before p: number n ran as instruction w[n].
Traces(w, dn, c, p) ==
    /\ w \in [DOMAIN dn -> 1 .. p - 1]
    /\ \A n \in DOMAIN dn : Doing(c[w[n]]) /\ c[w[n]].at = dn[n].at
    /\ \A m, n \in DOMAIN dn : m < n => w[m] < w[n]
    /\ \A k \in 1 .. p - 1 : Doing(c[k]) => \E n \in DOMAIN dn : w[n] = k

\* The entry of an operator: it got the values of its operands, if they have one.
Fed(pr, r) ==
    pr[r.at] \in Numeric \cup Compared =>
        /\ Len(r.args) = 2
        /\ \A j \in 1 .. 2 : \E o \in DOMAIN pr :
              /\ Spans(pr, r.at + 1, j - 1, o)
              /\ pr[o] \notin {"identical"} \cup Logical \cup Silent \cup {"println"} => r.args[j] = o

Ran ==
    /\ pc = 0 => done = <<>>
    /\ pc # 0 => stack = <<>>
    /\ \E w : Traces(w, done, code, pc)
    /\ \A n \in DOMAIN done : Fed(prog, done[n])

\* The invariant of what the code does for the text.
Faithful == Translated /\ Ran

\* t begins with s.
Begins(s, t) == DOMAIN s \subseteq DOMAIN t /\ \A i \in DOMAIN s : t[i] = s[i]

\* What is in its place stays there when the text and the code grow.
LEMMA HoldsLonger ==
    ASSUME NEW pr \in Seq(Kinds), NEW q \in Seq(Kinds), Begins(pr, q),
           NEW c, NEW d, Begins(c, d), \A k \in DOMAIN c : c[k].at \in DOMAIN pr,
           NEW i \in Nat \ {0}, NEW n, NEW p, Holds(pr, c, i, n, p)
    PROVE  Holds(q, d, i, n, p)
<1>1. PICK o \in DOMAIN pr : Spans(pr, i, n, o) /\ Placed(pr, c, o, p)
  BY DEF Holds
<1>2. o \in DOMAIN q /\ o \in Nat /\ q[o] = pr[o] /\ DOMAIN pr = 1 .. Len(pr) /\ Len(pr) \in Nat
  BY <1>1 DEF Begins
<1>3. \A k \in i .. o - 1 : q[k] = pr[k]
  <2>1. \A k \in i .. o - 1 : k \in DOMAIN pr
    BY <1>1, <1>2
  <2>2. QED
    BY <2>1 DEF Begins
<1>4. Spans(q, i, n, o)
  BY <1>1, <1>2, <1>3, SpansLonger
<1>5. Placed(q, d, o, p)
  <2>1. \A k \in DOMAIN c : k \in DOMAIN d /\ d[k] = c[k] /\ q[c[k].at] = pr[c[k].at]
    BY DEF Begins
  <2>2. QED
    BY <1>1, <1>2, <2>1 DEF Placed, Makes
<1>6. QED
  BY <1>2, <1>4, <1>5 DEF Holds

\* A value in place p is passed to the expression around, or is that of a statement.
Passed(rest, rts, p, st, rs) ==
    IF rest = <<>> THEN st = <<>> /\ rs = Append(rts, p)
    ELSE LET around == rest[Len(rest)]
         IN  /\ rs = rts
             /\ st = [rest EXCEPT ![Len(rest)] =
                        [at |-> around.at, places |-> Append(around.places, p)]]

\* What is different then.
Added(rest, rts, p, st, rs) ==
    /\ rs = rts /\ DOMAIN st = DOMAIN rest /\ Len(st) = Len(rest) /\ st # <<>>
    /\ Len(rest) \in DOMAIN rest /\ DOMAIN rest = 1 .. Len(rest) /\ Len(rest) \in Nat
    /\ \A n \in DOMAIN rest : st[n].at = rest[n].at /\ rest[n].at \in 1 .. MaxLen
    /\ \A n \in DOMAIN rest : n # Len(rest) => st[n].places = rest[n].places
    /\ \A n \in DOMAIN rest : rest[n].places \in Seq(Slots)
    /\ st[Len(rest)].places = Append(rest[Len(rest)].places, p)

\* A value passed on is the last operand of the expression around.
LEMMA PassedFacts ==
    ASSUME NEW rest \in Seq(Frame), rest # <<>>, NEW rts, NEW p \in Slots, NEW st, NEW rs,
           Passed(rest, rts, p, st, rs)
    PROVE  Added(rest, rts, p, st, rs)
<1> DEFINE around == rest[Len(rest)]
           new == [at |-> around.at, places |-> Append(around.places, p)]
<1>1. rs = rts /\ st = [rest EXCEPT ![Len(rest)] = new]
  BY DEF Passed
<1>2. new.at = around.at /\ new.places = Append(around.places, p)
  OBVIOUS
<1>3. \A n \in DOMAIN rest : rest[n].at \in 1 .. MaxLen /\ rest[n].places \in Seq(Slots)
  <2>1. \A n \in DOMAIN rest : rest[n] \in Frame
    OBVIOUS
  <2>2. QED
    BY <2>1 DEF Frame
<1> HIDE DEF new
<1>4. /\ DOMAIN st = DOMAIN rest /\ Len(rest) \in DOMAIN rest /\ DOMAIN rest = 1 .. Len(rest)
      /\ Len(rest) \in Nat /\ st[Len(rest)] = new
      /\ \A n \in DOMAIN rest : n # Len(rest) => st[n] = rest[n]
  BY <1>1
<1>5. Len(st) = Len(rest) /\ st # <<>>
  BY <1>1, <1>4
<1>6. QED
  BY <1>1, <1>2, <1>3, <1>4, <1>5 DEF Added

\* Then the next event is the next operand.
LEMMA NestedYield ==
    ASSUME MaxLen \in Nat, NEW rest \in Seq(Frame), NEW rts \in Seq(Slots), NEW pr,
           NEW o \in Nat \ {0}, NEW e \in Nat, o < e,
           Nested(rest, rts, pr, o), Spans(pr, o, 1, e),
           \A k \in 1 .. o - 1 : Operands(pr[k]) \in Nat,
           NEW p \in Slots, NEW st, NEW rs, Passed(rest, rts, p, st, rs)
    PROVE  Nested(st, rs, pr, e)
<1>1. CASE rest = <<>>
  <2>1. Spans(pr, 1, Len(rts), o) /\ Len(rts) \in Nat
    BY <1>1 DEF Nested
  <2>2. Spans(pr, 1, Len(rts) + 1, e)
    BY <2>1, SpansJoin
  <2>3. st = <<>> /\ Len(rs) = Len(rts) + 1
    BY <1>1 DEF Passed
  <2>4. QED
    BY <2>2, <2>3 DEF Nested
<1>2. CASE rest # <<>>
  <2> DEFINE last == Len(rest)
             i == rest[last].at + 1
             n == Len(rest[last].places)
  <2>1. /\ rs = rts /\ DOMAIN st = DOMAIN rest /\ Len(st) = last /\ st # <<>>
        /\ last \in DOMAIN rest /\ DOMAIN rest = 1 .. last /\ last \in Nat
        /\ \A m \in DOMAIN rest : st[m].at = rest[m].at /\ rest[m].at \in 1 .. MaxLen
        /\ \A m \in DOMAIN rest : m # last => st[m].places = rest[m].places
        /\ \A m \in DOMAIN rest : rest[m].places \in Seq(Slots)
        /\ st[last].places = Append(rest[last].places, p)
    <3>1. Added(rest, rts, p, st, rs)
      BY <1>2, PassedFacts
    <3>2. QED
      BY <3>1, Zenon DEF Added, last
  <2>2. i \in Nat \ {0} /\ n \in Nat /\ Len(st[last].places) = n + 1
    <3>1. rest[last].places \in Seq(Slots) /\ rest[last].at \in 1 .. MaxLen
      BY <2>1
    <3>2. QED
      BY <2>1, <3>1
  <2>3. Spans(pr, i, n, o)
    BY <2>1 DEF Nested
  <2>4. \A k \in i .. o - 1 : Operands(pr[k]) \in Nat
    BY <2>2
  <2>5. Spans(pr, i, n + 1, e)
    BY <2>2, <2>3, <2>4, SpansJoin
  <2>6. \A m \in DOMAIN rest : rest[m].at < e
    BY <2>1 DEF Nested
  <2>7. ASSUME NEW m \in DOMAIN st
        PROVE  Spans(pr, st[m].at + 1, Len(st[m].places), IF m = Len(st) THEN e ELSE st[m + 1].at)
    <3>1. CASE m = last
      BY <2>1, <2>2, <2>5, <3>1
    <3>2. CASE m # last
      <4>1. m + 1 \in DOMAIN rest /\ m \in DOMAIN rest
        BY <2>1, <3>2
      <4>2. Spans(pr, rest[m].at + 1, Len(rest[m].places), rest[m + 1].at)
        BY <3>2, <4>1 DEF Nested
      <4>3. QED
        BY <2>1, <3>2, <4>1, <4>2
    <3>3. QED
      BY <3>1, <3>2
  <2>8. Spans(pr, 1, Len(rs), st[1].at)
    <3>1. 1 \in DOMAIN rest
      BY <2>1
    <3>2. Spans(pr, 1, Len(rts), rest[1].at)
      BY <1>2 DEF Nested
    <3>3. QED
      BY <2>1, <3>1, <3>2
  <2>9. \A m, k \in DOMAIN st : m < k => st[m].at < st[k].at
    BY <2>1 DEF Nested
  <2>10. QED
    BY <2>1, <2>6, <2>7, <2>8, <2>9 DEF Nested
<1>3. QED
  BY <1>1, <1>2

\* The code d is c, what an expression yields, and at most a parameter.
Written(c, d, is) ==
    /\ Begins(c, d) /\ DOMAIN c = 1 .. Len(c) /\ Len(c) \in Nat
    /\ DOMAIN d \subseteq Nat \ {0}
    /\ \A x \in DOMAIN is : x \in Nat \ {0} /\ Len(c) + x \in DOMAIN d /\ d[Len(c) + x] = is[x]
    /\ \A k \in DOMAIN d : \/ k \in DOMAIN c
                           \/ \E x \in DOMAIN is : k = Len(c) + x
                           \/ d[k].op = "PARM"

\* A list with one element more.
OneMore(a, x, d) ==
    /\ DOMAIN d = 1 .. Len(a) + 1 /\ DOMAIN a = 1 .. Len(a) /\ Len(a) \in Nat
    /\ d[Len(a) + 1] = x /\ \A k \in DOMAIN a : d[k] = a[k]

\* That is what Append makes.
LEMMA LongerByOne ==
    ASSUME NEW S, NEW a \in Seq(S), NEW x \in S
    PROVE  OneMore(a, x, Append(a, x))
  BY DEF OneMore

\* Yield writes the code and passes the value on.
LEMMA YieldWrites ==
    ASSUME MaxLen \in Nat, code \in Seq(Instr), NEW rest \in Seq(Frame), NEW p \in Slots,
           NEW is \in Seq(Instr), Yield(rest, p, is)
    PROVE  Written(code, code', is) /\ Passed(rest, roots, p, stack', roots')
<1>1. Passed(rest, roots, p, stack', roots')
  BY DEF Yield, Passed
<1> DEFINE old == code \o is
<1>2. /\ old \in Seq(Instr) /\ Len(old) = Len(code) + Len(is) /\ Len(code) \in Nat /\ Len(is) \in Nat
      /\ DOMAIN code = 1 .. Len(code) /\ DOMAIN is = 1 .. Len(is) /\ DOMAIN old = 1 .. Len(code) + Len(is)
      /\ \A k \in DOMAIN code : old[k] = code[k]
      /\ \A x \in DOMAIN is : Len(code) + x \in DOMAIN old /\ old[Len(code) + x] = is[x]
      /\ \A k \in DOMAIN old : k \in DOMAIN code \/ \E x \in DOMAIN is : k = Len(code) + x
  <2>1. /\ old \in Seq(Instr) /\ Len(old) = Len(code) + Len(is) /\ Len(code) \in Nat /\ Len(is) \in Nat
        /\ DOMAIN code = 1 .. Len(code) /\ DOMAIN is = 1 .. Len(is)
    OBVIOUS
  <2>2. DOMAIN old = 1 .. Len(code) + Len(is)
    BY <2>1
  <2>3. \A k \in 1 .. Len(code) + Len(is) : old[k] = IF k <= Len(code) THEN code[k] ELSE is[k - Len(code)]
    OBVIOUS
  <2> HIDE DEF old
  <2>4. ASSUME NEW x \in DOMAIN is PROVE Len(code) + x \in DOMAIN old /\ old[Len(code) + x] = is[x]
    <3>1. Len(code) + x \in 1 .. Len(code) + Len(is) /\ ~(Len(code) + x <= Len(code))
          /\ (Len(code) + x) - Len(code) = x
      BY <2>1
    <3>2. QED
      BY <2>2, <2>3, <3>1
  <2>5. ASSUME NEW k \in DOMAIN old PROVE k \in DOMAIN code \/ \E x \in DOMAIN is : k = Len(code) + x
    <3>1. k \in DOMAIN code \/ (k - Len(code) \in DOMAIN is /\ k = Len(code) + (k - Len(code)))
      BY <2>1, <2>2
    <3>2. QED
      BY <3>1
  <2>6. \A k \in DOMAIN code : old[k] = code[k]
    BY <2>1, <2>2, <2>3
  <2>7. QED
    BY <2>1, <2>2, <2>4, <2>5, <2>6
<1> HIDE DEF old
<1>3. DOMAIN code \subseteq DOMAIN old /\ DOMAIN old \subseteq Nat \ {0} /\ DOMAIN is \subseteq Nat \ {0}
  BY <1>2
<1>4. ASSUME NEW d, DOMAIN old \subseteq DOMAIN d, DOMAIN d \subseteq Nat \ {0},
             \A k \in DOMAIN old : d[k] = old[k],
             \A k \in DOMAIN d : k \in DOMAIN old \/ d[k].op = "PARM"
      PROVE  Written(code, d, is)
  <2>1. Begins(code, d)
    BY <1>2, <1>3, <1>4 DEF Begins
  <2>2. ASSUME NEW x \in DOMAIN is
        PROVE  x \in Nat \ {0} /\ Len(code) + x \in DOMAIN d /\ d[Len(code) + x] = is[x]
    <3>1. Len(code) + x \in DOMAIN old /\ old[Len(code) + x] = is[x] /\ x \in Nat \ {0}
      BY <1>2, <1>3
    <3>2. QED
      BY <1>4, <3>1
  <2>3. ASSUME NEW k \in DOMAIN d
        PROVE  k \in DOMAIN code \/ (\E x \in DOMAIN is : k = Len(code) + x) \/ d[k].op = "PARM"
    BY <1>2, <1>4
  <2>4. QED
    BY <1>2, <1>4, <2>1, <2>2, <2>3 DEF Written
<1>5. CASE rest = <<>>
  <2>1. code' = old
    BY <1>5 DEF Yield, concat, old
  <2>2. QED
    BY <1>1, <1>3, <1>4, <2>1
<1>6. CASE rest # <<>>
  <2> DEFINE around == rest[Len(rest)]
             parm == Do("PARM", around.at, 0, <<p>>)
  <2>1. code' = old \o (IF Called(prog'[around.at]) THEN <<parm>> ELSE <<>>)
    BY <1>6 DEF Yield, concat, old
  <2>2. parm.op = "PARM" /\ parm \in Instr
    <3>1. around \in Frame /\ <<p>> \in Seq(Slots) /\ 0 \in Slots
      BY <1>6 DEF Slots
    <3>2. around.at \in 0 .. MaxLen
      BY <3>1 DEF Frame
    <3>3. QED
      BY <3>1, <3>2 DEF Instr, Do
  <2> HIDE DEF parm
  <2>3. CASE Called(prog'[around.at])
    <3>1. code' = old \o <<parm>>
      BY <2>1, <2>3
    <3>2. code' = Append(old, parm)
      BY <1>2, <2>2, <3>1
    <3>3. OneMore(old, parm, code')
      BY <1>2, <2>2, <3>2, LongerByOne
    <3>4. /\ DOMAIN old \subseteq DOMAIN code' /\ DOMAIN code' \subseteq Nat \ {0}
          /\ \A k \in DOMAIN code' : k \in DOMAIN old \/ k = Len(old) + 1
      BY <3>3 DEF OneMore
    <3>5. code'[Len(old) + 1] = parm /\ \A k \in DOMAIN old : code'[k] = old[k]
      BY <3>3 DEF OneMore
    <3>6. QED
      BY <1>1, <1>4, <2>2, <3>4, <3>5
  <2>4. CASE ~Called(prog'[around.at])
    <3>1. code' = old \o <<>>
      BY <2>1, <2>4
    <3>2. code' = old
      BY <1>2, <3>1
    <3>3. QED
      BY <1>1, <1>3, <1>4, <3>2
  <2>5. QED
    BY <2>3, <2>4
<1>7. QED
  BY <1>5, <1>6

\* The places are right with the new one.
LEMMA PlacesYield ==
    ASSUME MaxLen \in Nat, NEW rest \in Seq(Frame), NEW rts \in Seq(Slots),
           NEW pr \in Seq(Kinds), NEW q \in Seq(Kinds), Begins(pr, q),
           NEW c, NEW d, Begins(c, d), \A k \in DOMAIN c : c[k].at \in DOMAIN pr,
           PlacesOK(rest, rts, c, pr),
           NEW o \in DOMAIN q, NEW p \in Slots, Nested(rest, rts, q, o), Placed(q, d, o, p),
           NEW st, NEW rs, Passed(rest, rts, p, st, rs)
    PROVE  PlacesOK(st, rs, d, q)
<1>1. \A i \in Nat \ {0} : \A n, s : Holds(pr, c, i, n, s) => Holds(q, d, i, n, s)
  BY HoldsLonger
<1>2. CASE rest = <<>>
  <2>1. Spans(q, 1, Len(rts), o) /\ st = <<>> /\ rs = Append(rts, p) /\ Len(rts) \in Nat
    BY <1>2 DEF Nested, Passed
  <2>2. Holds(q, d, 1, (Len(rts) + 1) - 1, p)
    BY <2>1 DEF Holds
  <2>3. ASSUME NEW j \in DOMAIN rs PROVE Holds(q, d, 1, j - 1, rs[j])
    <3>1. CASE j = Len(rts) + 1
      BY <2>1, <2>2, <3>1
    <3>2. CASE j # Len(rts) + 1
      <4>1. j \in DOMAIN rts /\ rs[j] = rts[j]
        BY <2>1, <3>2
      <4>2. QED
        BY <1>1, <4>1 DEF PlacesOK
    <3>3. QED
      BY <3>1, <3>2
  <2>4. QED
    BY <2>1, <2>3 DEF PlacesOK
<1>3. CASE rest # <<>>
  <2> DEFINE last == Len(rest)
             old == rest[last].places
  <2>1. Added(rest, rts, p, st, rs)
    BY <1>3, PassedFacts
  <2>2. /\ last \in DOMAIN rest /\ DOMAIN st = DOMAIN rest /\ rs = rts /\ old \in Seq(Slots)
        /\ st[last].places = Append(old, p)
        /\ \A n \in DOMAIN rest : st[n].at = rest[n].at /\ rest[n].at + 1 \in Nat \ {0}
        /\ \A n \in DOMAIN rest : n # last => st[n].places = rest[n].places
    <3>1. \A a \in 1 .. MaxLen : a + 1 \in Nat \ {0}
      OBVIOUS
    <3>2. QED
      BY <2>1, <3>1, Zenon DEF Added, last
  <2>3. Spans(q, rest[last].at + 1, Len(old), o)
    BY <2>2 DEF Nested
  <2>4. Holds(q, d, rest[last].at + 1, (Len(old) + 1) - 1, p)
    <3>1. (Len(old) + 1) - 1 = Len(old)
      BY <2>2
    <3>2. QED
      BY <2>3, <3>1 DEF Holds
  <2> HIDE DEF old, last
  <2>5. ASSUME NEW n \in DOMAIN st, NEW j \in DOMAIN st[n].places
        PROVE  Holds(q, d, st[n].at + 1, j - 1, st[n].places[j])
    <3>1. CASE n = last
      <4>1. CASE j = Len(old) + 1
        BY <2>2, <2>4, <3>1, <4>1
      <4>2. CASE j # Len(old) + 1
        <5>1. j \in DOMAIN old /\ st[n].places[j] = old[j]
          <6>1. st[n].places = Append(old, p) /\ old \in Seq(Slots) /\ j \in DOMAIN st[n].places
            BY <2>2, <2>5, <3>1
          <6>2. QED
            BY <4>2, <6>1
        <5>2. Holds(pr, c, rest[last].at + 1, j - 1, old[j])
          BY <2>2, <5>1 DEF PlacesOK, old
        <5>3. QED
          BY <1>1, <2>2, <3>1, <5>1, <5>2
      <4>3. QED
        BY <4>1, <4>2
    <3>2. CASE n # last
      <4>1. n \in DOMAIN rest /\ st[n].places = rest[n].places /\ st[n].at = rest[n].at
            /\ rest[n].at + 1 \in Nat \ {0}
        BY <2>2, <3>2
      <4>2. Holds(pr, c, rest[n].at + 1, j - 1, rest[n].places[j])
        BY <2>5, <4>1 DEF PlacesOK
      <4>3. QED
        BY <1>1, <4>1, <4>2
    <3>3. QED
      BY <3>1, <3>2
  <2>6. \A j \in DOMAIN rs : Holds(q, d, 1, j - 1, rs[j])
    BY <1>1, <2>2 DEF PlacesOK
  <2>7. QED
    BY <2>5, <2>6 DEF PlacesOK
<1>4. QED
  BY <1>2, <1>3

\* The instructions are right with the new ones.
LEMMA OpsWritten ==
    ASSUME NEW pr \in Seq(Kinds), NEW q \in Seq(Kinds), Begins(pr, q),
           NEW c, NEW d, NEW is, Written(c, d, is), \A k \in DOMAIN c : c[k].at \in DOMAIN pr,
           OpsOK(c, pr), \A x \in DOMAIN is : Asked(q, d, is[x])
    PROVE  OpsOK(d, q)
<1> SUFFICES ASSUME NEW k \in DOMAIN d PROVE Asked(q, d, d[k])
  BY DEF OpsOK
<1>1. CASE k \in DOMAIN c
  <2> DEFINE x == c[k]
  <2>1. x.at \in DOMAIN pr /\ x.at + 1 \in Nat \ {0} /\ q[x.at] = pr[x.at] /\ d[k] = x
    BY <1>1 DEF Written, Begins
  <2>2. Asked(pr, c, x)
    BY <1>1 DEF OpsOK
  <2> HIDE DEF x
  <2>3. \A n, s : Holds(pr, c, x.at + 1, n, s) => Holds(q, d, x.at + 1, n, s)
    BY <2>1, HoldsLonger, SMTT(30) DEF Written
  <2>4. QED
    BY <2>1, <2>2, <2>3 DEF Asked
<1>2. CASE \E x \in DOMAIN is : k = Len(c) + x
  BY <1>2 DEF Written
<1>3. CASE d[k].op = "PARM"
  BY <1>3 DEF Asked
<1>4. QED
  BY <1>1, <1>2, <1>3 DEF Written

\* What has been read is read in a longer text too.
LEMMA ClosedLonger ==
    ASSUME NEW pr \in Seq(Kinds), NEW q \in Seq(Kinds), Begins(pr, q), NEW a \in DOMAIN pr,
           NEW e \in Nat, Spans(pr, a, 1, e), e <= Len(pr) + 1
    PROVE  Spans(q, a, 1, e) /\ a < e /\ e \in 1 .. Len(q) + 1 /\ e \in 1 .. Len(pr) + 1
<1>1. /\ DOMAIN pr = 1 .. Len(pr) /\ Len(pr) \in Nat /\ a \in Nat \ {0}
      /\ DOMAIN q = 1 .. Len(q) /\ Len(q) \in Nat
  OBVIOUS
<1>2. \A k \in a .. e - 1 : k \in DOMAIN pr
  BY <1>1
<1>3. \A k \in a .. e - 1 : q[k] = pr[k]
  BY <1>2 DEF Begins
<1>4. Spans(q, a, 1, e)
  BY <1>1, <1>3, SpansLonger
<1>5. a < e
  <2>1. PICK left : Counts(left, pr, a, 1, e)
    BY DEF Spans
  <2>2. left[a] = 1 /\ left[e] = 0 /\ a <= e
    BY <2>1 DEF Counts, Spans
  <2>3. a # e
    BY <2>2
  <2>4. QED
    BY <1>1, <2>2, <2>3
<1>6. Len(pr) <= Len(q)
  <2>1. CASE Len(pr) = 0
    BY <1>1, <2>1
  <2>2. CASE Len(pr) # 0
    <3>1. Len(pr) \in DOMAIN q
      BY <1>1, <2>2 DEF Begins
    <3>2. QED
      BY <1>1, <3>1
  <2>3. QED
    BY <2>1, <2>2
<1>7. QED
  BY <1>1, <1>4, <1>5, <1>6

\* Event o of the text q, which ends before e, is finished: u was under way, now it is v.
Ends(u, v, pr, q, o, e) ==
    /\ v \subseteq u /\ u \subseteq v \cup {o} /\ \A a \in v : a < o
    /\ DOMAIN q \subseteq DOMAIN pr \cup {o}
    /\ Spans(q, o, 1, e) /\ e = Len(q) + 1
    /\ \A a \in DOMAIN pr, f \in Nat : Closed(u, pr, a, f, Len(pr) + 1) => f < e \/ (f = e /\ o < a)

\* The code is does event o once, if there is anything to do.
DoneOnce(is, q, o) ==
    /\ \A x \in DOMAIN is : Doing(is[x]) => is[x].at = o
    /\ \A x, y \in DOMAIN is : Doing(is[x]) /\ Doing(is[y]) => x = y
    /\ Works(q[o]) => \E x \in DOMAIN is : Doing(is[x])

\* The operations are in order with the new one.
LEMMA WorkWritten ==
    ASSUME NEW pr \in Seq(Kinds), NEW q \in Seq(Kinds), Begins(pr, q),
           NEW c, NEW d, NEW is, Written(c, d, is), \A k \in DOMAIN c : c[k].at \in DOMAIN pr,
           NEW u, NEW v, WorkOK(u, c, pr, Len(pr) + 1),
           NEW o \in DOMAIN q, NEW e \in Nat, Ends(u, v, pr, q, o, e), DoneOnce(is, q, o)
    PROVE  WorkOK(v, d, q, e)
<1>0. /\ Spans(q, o, 1, e) /\ e = Len(q) + 1 /\ v \subseteq u /\ u \subseteq v \cup {o}
      /\ \A a \in v : a < o
      /\ DOMAIN q \subseteq DOMAIN pr \cup {o}
      /\ \A x \in DOMAIN is : Doing(is[x]) => is[x].at = o
      /\ \A x, y \in DOMAIN is : Doing(is[x]) /\ Doing(is[y]) => x = y
      /\ Works(q[o]) => \E x \in DOMAIN is : Doing(is[x])
      /\ \A a \in DOMAIN pr, f \in Nat :
            Closed(u, pr, a, f, Len(pr) + 1) => f < e \/ (f = e /\ o < a)
  BY DEF Ends, DoneOnce
<1>1. /\ DOMAIN c = 1 .. Len(c) /\ Len(c) \in Nat /\ DOMAIN d \subseteq Nat \ {0}
      /\ \A k \in DOMAIN c : k \in DOMAIN d /\ d[k] = c[k] /\ c[k].at \in DOMAIN pr
      /\ \A x \in DOMAIN is : x \in Nat \ {0} /\ Len(c) + x \in DOMAIN d /\ d[Len(c) + x] = is[x]
  BY DEF Written, Begins
<1>2. ASSUME NEW k \in DOMAIN d, Doing(d[k])
      PROVE  \/ k \in DOMAIN c /\ d[k] = c[k] /\ Doing(c[k])
             \/ \E x \in DOMAIN is : k = Len(c) + x /\ d[k] = is[x] /\ Doing(is[x]) /\ d[k].at = o
  <2>1. d[k].op # "PARM"
    BY <1>2 DEF Doing
  <2>2. k \in DOMAIN c \/ \E x \in DOMAIN is : k = Len(c) + x
    BY <2>1 DEF Written
  <2>3. QED
    BY <1>0, <1>1, <1>2, <2>2
<1>3. ASSUME NEW k \in DOMAIN c, Doing(c[k])
      PROVE  \E f \in Nat : /\ Closed(u, pr, c[k].at, f, Len(pr) + 1)
                            /\ Spans(q, c[k].at, 1, f) /\ f \in 1 .. Len(q) + 1
                            /\ f < e \/ (f = e /\ o < c[k].at)
  <2>1. PICK f \in Nat : Closed(u, pr, c[k].at, f, Len(pr) + 1)
    BY <1>3 DEF WorkOK
  <2>2. Spans(q, c[k].at, 1, f) /\ f \in 1 .. Len(q) + 1
    BY <1>1, <2>1, ClosedLonger DEF Closed
  <2>3. f < e \/ (f = e /\ o < c[k].at)
    BY <1>0, <1>1, <2>1
  <2>4. QED
    BY <2>1, <2>2, <2>3
<1>4. Closed(v, q, o, e, e)
  BY <1>0 DEF Closed
<1>5. e \in 1 .. Len(q) + 1
  <2>1. Len(q) \in Nat
    OBVIOUS
  <2>2. QED
    BY <1>0, <2>1
<1>6. ASSUME NEW k \in DOMAIN d, Doing(d[k]) PROVE \E f \in Nat : Closed(v, q, d[k].at, f, e)
  <2>1. CASE k \in DOMAIN c /\ d[k] = c[k] /\ Doing(c[k])
    <3>1. PICK f \in Nat : /\ Closed(u, pr, c[k].at, f, Len(pr) + 1)
                           /\ Spans(q, c[k].at, 1, f) /\ f \in 1 .. Len(q) + 1
      BY <1>3, <2>1
    <3>2. f <= e /\ \A a \in v : a < c[k].at \/ f <= a
      BY <1>0, <3>1 DEF Closed
    <3>3. QED
      BY <2>1, <3>1, <3>2 DEF Closed
  <2>2. CASE d[k].at = o
    BY <1>4, <2>2
  <2>3. QED
    BY <1>2, <1>6, <2>1, <2>2
<1>7. ASSUME NEW a \in DOMAIN q, Works(q[a])
      PROVE  a \in v \/ \E k \in DOMAIN d : Doing(d[k]) /\ d[k].at = a
  <2>1. CASE a = o
    <3>1. PICK x \in DOMAIN is : Doing(is[x])
      BY <1>0, <1>7, <2>1
    <3>2. QED
      BY <1>0, <1>1, <2>1, <3>1
  <2>2. CASE a # o
    <3>1. a \in DOMAIN pr /\ q[a] = pr[a]
      BY <1>0, <2>2 DEF Begins
    <3>2. a \in u \/ \E k \in DOMAIN c : Doing(c[k]) /\ c[k].at = a
      BY <1>7, <3>1 DEF WorkOK
    <3>3. QED
      BY <1>0, <1>1, <2>2, <3>2
  <2>3. QED
    BY <2>1, <2>2
<1>8. ASSUME NEW k \in DOMAIN d, NEW m \in DOMAIN d, Doing(d[k]), Doing(d[m]), k < m
      PROVE  EndsSooner(q, d[k].at, d[m].at)
  <2>1. CASE k \in DOMAIN c /\ m \in DOMAIN c
    <3>1. Doing(c[k]) /\ Doing(c[m]) /\ d[k] = c[k] /\ d[m] = c[m]
      BY <1>1, <1>8, <2>1
    <3>2. PICK f, g \in 1 .. Len(pr) + 1 : /\ Spans(pr, c[k].at, 1, f) /\ Spans(pr, c[m].at, 1, g)
                                           /\ f < g \/ (f = g /\ c[m].at < c[k].at)
      BY <1>8, <2>1, <3>1 DEF WorkOK, EndsSooner
    <3>3. f \in Nat /\ g \in Nat /\ f <= Len(pr) + 1 /\ g <= Len(pr) + 1
      OBVIOUS
    <3>4. /\ Spans(q, c[k].at, 1, f) /\ f \in 1 .. Len(q) + 1
          /\ Spans(q, c[m].at, 1, g) /\ g \in 1 .. Len(q) + 1
      BY <1>1, <2>1, <3>2, <3>3, ClosedLonger
    <3>5. QED
      BY <3>1, <3>2, <3>4 DEF EndsSooner
  <2>2. CASE k \in DOMAIN c /\ m \notin DOMAIN c
    <3>1. d[m].at = o /\ Doing(c[k]) /\ d[k] = c[k]
      BY <1>1, <1>2, <1>8, <2>2
    <3>2. PICK f \in Nat : /\ Spans(q, c[k].at, 1, f) /\ f \in 1 .. Len(q) + 1
                           /\ f < e \/ (f = e /\ o < c[k].at)
      BY <1>3, <2>2, <3>1
    <3>3. QED
      BY <1>0, <1>5, <3>1, <3>2 DEF EndsSooner
  <2>3. CASE k \notin DOMAIN c
    <3>1. PICK x \in DOMAIN is : k = Len(c) + x /\ Doing(is[x])
      BY <1>2, <1>8, <2>3
    <3>2. m \notin DOMAIN c
      BY <1>1, <1>8, <3>1
    <3>3. PICK y \in DOMAIN is : m = Len(c) + y /\ Doing(is[y])
      BY <1>2, <1>8, <3>2
    <3>4. x = y
      BY <1>0, <3>1, <3>3
    <3>5. QED
      BY <1>1, <1>8, <3>1, <3>3, <3>4
  <2>4. QED
    BY <2>1, <2>2, <2>3
<1>9. QED
  BY <1>6, <1>7, <1>8 DEF WorkOK

\* Event o is the next to be finished, rest what is under way around it, q the text.
Ready(rest, o, q) ==
    /\ rest \in Seq(Frame) /\ o \in DOMAIN q /\ DOMAIN q \subseteq DOMAIN prog \cup {o}
    /\ q \in Seq(Kinds) /\ Begins(prog, q)
    /\ Nested(rest, roots, q, o) /\ PlacesOK(rest, roots, code, prog)
    /\ Under(rest) \subseteq Under(stack) /\ Under(stack) \subseteq Under(rest) \cup {o}
    /\ Spans(q, o, 1, Len(q) + 1)
    /\ \A a \in DOMAIN prog, f \in Nat :
          Closed(Under(stack), prog, a, f, Here) => f < Len(q) + 1 \/ (f = Len(q) + 1 /\ o < a)

\* The instructions of event o, and the place of its value, in code d.
Serves(is, p, o, q, d) ==
    /\ Placed(q, d, o, p)
    /\ \A x \in DOMAIN is : Asked(q, d, is[x])
    /\ DoneOnce(is, q, o)

\* What is under way is the same after a value is passed on.
LEMMA UnderYield ==
    ASSUME NEW rest \in Seq(Frame), NEW rts, NEW p \in Slots, NEW st, NEW rs,
           Passed(rest, rts, p, st, rs)
    PROVE  Under(st) = Under(rest)
<1>1. CASE rest = <<>>
  BY <1>1 DEF Passed, Under
<1>2. CASE rest # <<>>
  <2>1. Added(rest, rts, p, st, rs)
    BY <1>2, PassedFacts
  <2>2. DOMAIN st = DOMAIN rest /\ \A n \in DOMAIN rest : st[n].at = rest[n].at
    BY <2>1 DEF Added
  <2>3. QED
    BY <2>2 DEF Under
<1>3. QED
  BY <1>1, <1>2

\* The types the proofs about the text need.
LEMMA TextTyped ==
    ASSUME IInv
    PROVE  /\ MaxLen \in Nat /\ prog \in Seq(Kinds) /\ Len(prog) \in Nat /\ Len(prog) <= MaxLen
           /\ Here = Len(prog) + 1 /\ DOMAIN prog = 1 .. Len(prog)
           /\ stack \in Seq(Frame) /\ roots \in Seq(Slots) /\ code \in Seq(Instr)
           /\ \A k \in DOMAIN code : code[k].at \in DOMAIN prog
           /\ \A n \in DOMAIN stack : stack[n].at \in 1 .. MaxLen /\ stack[n].at \in DOMAIN prog
<1>1. /\ MaxLen \in Nat /\ prog \in Seq(Kinds) /\ Len(prog) \in Nat /\ Len(prog) <= MaxLen
      /\ Here = Len(prog) + 1 /\ DOMAIN prog = 1 .. Len(prog)
      /\ stack \in Seq(Frame) /\ roots \in Seq(Slots) /\ code \in Seq(Instr)
  BY ExprAssumption DEF ExprAssumption, IInv, TypeOK, Frame, Here
<1>2. \A k \in DOMAIN code : code[k].at \in DOMAIN prog
  BY DEF IInv, CodeOK, InstrsOK, InstrOK
<1>3. \A n \in DOMAIN stack : stack[n] \in Frame /\ stack[n].at \in DOMAIN prog
  BY <1>1 DEF IInv, StackOK
<1>4. QED
  BY <1>1, <1>2, <1>3 DEF Frame

\* When an expression yields its value, text and code still agree.
LEMMA TranslatedYield ==
    ASSUME IInv, Translated, prog' \in Seq(Kinds), NEW rest, NEW o, Ready(rest, o, prog'),
           NEW p \in Slots, NEW is \in Seq(Instr), Yield(rest, p, is),
           Serves(is, p, o, prog', code')
    PROVE  Translated'
<1> DEFINE q == prog'
           e == Len(q) + 1
<1>1. /\ MaxLen \in Nat /\ prog \in Seq(Kinds) /\ Here = Len(prog) + 1
      /\ roots \in Seq(Slots) /\ code \in Seq(Instr)
      /\ \A k \in DOMAIN code : code[k].at \in DOMAIN prog
  BY TextTyped
<1>2. /\ rest \in Seq(Frame) /\ o \in DOMAIN q /\ q \in Seq(Kinds) /\ Begins(prog, q)
      /\ Nested(rest, roots, q, o) /\ PlacesOK(rest, roots, code, prog)
      /\ Spans(q, o, 1, e)
  BY DEF Ready
<1>3. Written(code, code', is) /\ Passed(rest, roots, p, stack', roots')
  BY <1>1, <1>2, YieldWrites
<1>4. e \in Nat /\ o \in Nat \ {0} /\ e <= Len(q) + 1 /\ Here' = e /\ DOMAIN q = 1 .. Len(q)
  BY <1>2 DEF Here
<1>5. o < e /\ Begins(code, code')
  <2>1. Begins(q, q)
    BY DEF Begins
  <2>2. QED
    BY <1>2, <1>3, <1>4, <2>1, ClosedLonger DEF Written
<1>6. \A k \in 1 .. o - 1 : Operands(q[k]) \in Nat
  <2>1. \A k \in 1 .. o - 1 : k \in DOMAIN q
    BY <1>2, <1>4
  <2>2. \A k \in DOMAIN q : q[k] \in Kinds
    BY <1>2
  <2>3. QED
    BY <2>1, <2>2, OperandsTyped
<1>7. Under(stack') = Under(rest) /\ \A a \in Under(rest) : a < o
  <2>1. Under(stack') = Under(rest)
    <3> DEFINE st == stack'
               rs == roots'
    <3>1. Passed(rest, roots, p, st, rs)
      BY <1>3
    <3> HIDE DEF st, rs
    <3>2. Under(st) = Under(rest)
      BY <1>2, <3>1, UnderYield
    <3>3. QED
      BY <3>2 DEF st
  <2>2. \A n \in DOMAIN rest : rest[n].at < o
    BY <1>2 DEF Nested
  <2>3. QED
    BY <2>1, <2>2 DEF Under
<1> HIDE DEF q, e
<1>8. Nested(stack', roots', q, e)
  BY <1>1, <1>2, <1>3, <1>4, <1>5, <1>6, NestedYield
<1>9. /\ Placed(q, code', o, p) /\ \A x \in DOMAIN is : Asked(q, code', is[x])
  BY DEF Serves, q
<1>10. PlacesOK(stack', roots', code', q)
  BY <1>1, <1>2, <1>3, <1>5, <1>9, PlacesYield
<1>11. OpsOK(code', q)
  BY <1>1, <1>2, <1>3, <1>9, OpsWritten DEF Translated
<1>12. WorkOK(Under(stack'), code', q, e)
  <2> DEFINE u == Under(stack)
             v == Under(rest)
             d == code'
  <2>1. /\ prog \in Seq(Kinds) /\ q \in Seq(Kinds) /\ Begins(prog, q) /\ Written(code, d, is)
        /\ \A k \in DOMAIN code : code[k].at \in DOMAIN prog
        /\ o \in DOMAIN q /\ e \in Nat
    BY <1>1, <1>2, <1>3, <1>4
  <2>2. WorkOK(u, code, prog, Len(prog) + 1)
    BY <1>1 DEF Translated
  <2>3. Ends(u, v, prog, q, o, e)
    <3>1. /\ v \subseteq u /\ u \subseteq v \cup {o} /\ DOMAIN q \subseteq DOMAIN prog \cup {o}
          /\ \A a \in DOMAIN prog, f \in Nat :
                Closed(u, prog, a, f, Len(prog) + 1) => f < e \/ (f = e /\ o < a)
      BY <1>1 DEF Ready, q, e
    <3>2. e = Len(q) + 1 /\ Spans(q, o, 1, e) /\ \A a \in v : a < o
      BY <1>2, <1>7 DEF e
    <3> HIDE DEF u, v
    <3>3. QED
      BY <3>1, <3>2 DEF Ends
  <2>4. DoneOnce(is, q, o)
    BY DEF Serves, q
  <2> HIDE DEF u, v, d
  <2>6. WorkOK(v, d, q, e)
    BY <2>1, <2>2, <2>3, <2>4, WorkWritten
  <2>7. QED
    BY <1>7, <2>6 DEF v, d
<1>13. QED
  BY <1>4, <1>8, <1>10, <1>11, <1>12 DEF Translated, q

\* What is nested in the text is so in a longer one.
LEMMA NestedLonger ==
    ASSUME MaxLen \in Nat, NEW pr \in Seq(Kinds), NEW q \in Seq(Kinds), Begins(pr, q),
           NEW st \in Seq(Frame), NEW rts \in Seq(Slots), NEW o \in Nat \ {0}, o <= Len(pr) + 1,
           Nested(st, rts, pr, o)
    PROVE  Nested(st, rts, q, o)
<1>1. \A n \in DOMAIN st : st[n].at \in 1 .. MaxLen
  <2>1. \A n \in DOMAIN st : st[n] \in Frame
    OBVIOUS
  <2>2. QED
    BY <2>1 DEF Frame
<1>2. ASSUME NEW i \in Nat \ {0}, NEW n, NEW e \in Nat, e <= o, Spans(pr, i, n, e)
      PROVE  Spans(q, i, n, e)
  <2>1. \A k \in i .. e - 1 : k \in DOMAIN pr
    BY <1>2
  <2>2. \A k \in i .. e - 1 : q[k] = pr[k]
    BY <2>1 DEF Begins
  <2>3. QED
    BY <1>2, <2>2, SpansLonger
<1>3. ASSUME NEW n \in DOMAIN st
      PROVE  Spans(q, st[n].at + 1, Len(st[n].places), IF n = Len(st) THEN o ELSE st[n + 1].at)
  <2> DEFINE e == IF n = Len(st) THEN o ELSE st[n + 1].at
  <2>1. Spans(pr, st[n].at + 1, Len(st[n].places), e)
    BY DEF Nested
  <2>2. e \in Nat /\ e <= o
    <3>1. CASE n = Len(st)
      BY <3>1
    <3>2. CASE n # Len(st)
      <4>1. n + 1 \in DOMAIN st
        BY <3>2
      <4>2. st[n + 1].at \in 1 .. MaxLen /\ st[n + 1].at < o
        BY <1>1, <4>1 DEF Nested
      <4>3. QED
        BY <3>2, <4>2
    <3>3. QED
      BY <3>1, <3>2
  <2>3. st[n].at + 1 \in Nat \ {0}
    BY <1>1
  <2> HIDE DEF e
  <2>4. Spans(q, st[n].at + 1, Len(st[n].places), e)
    BY <1>2, <2>1, <2>2, <2>3
  <2>5. QED
    BY <2>4 DEF e
<1>4. Spans(q, 1, Len(rts), IF st = <<>> THEN o ELSE st[1].at)
  <2> DEFINE e == IF st = <<>> THEN o ELSE st[1].at
  <2>1. Spans(pr, 1, Len(rts), e)
    BY DEF Nested
  <2>2. e \in Nat /\ e <= o
    <3>1. CASE st = <<>>
      BY <3>1
    <3>2. CASE st # <<>>
      <4>1. 1 \in DOMAIN st
        BY <3>2
      <4>2. st[1].at \in 1 .. MaxLen /\ st[1].at < o
        BY <1>1, <4>1 DEF Nested
      <4>3. QED
        BY <3>2, <4>2
    <3>3. QED
      BY <3>1, <3>2
  <2> HIDE DEF e
  <2>3. Spans(q, 1, Len(rts), e)
    BY <1>2, <2>1, <2>2
  <2>4. QED
    BY <2>3 DEF e
<1>5. QED
  BY <1>3, <1>4 DEF Nested

\* A leaf is finished as soon as it is read.
LEMMA LeafReady ==
    ASSUME IInv, Translated, NEW kind \in Leaves, Reads(kind)
    PROVE  Ready(stack, Here, prog') /\ prog'[Here] = kind /\ prog' \in Seq(Kinds)
<1>1. /\ MaxLen \in Nat /\ prog \in Seq(Kinds) /\ Len(prog) \in Nat /\ Here = Len(prog) + 1
      /\ DOMAIN prog = 1 .. Len(prog) /\ stack \in Seq(Frame) /\ roots \in Seq(Slots)
  BY TextTyped
<1>2. /\ prog' \in Seq(Kinds) /\ Len(prog') = Len(prog) + 1 /\ prog'[Here] = kind
      /\ Begins(prog, prog') /\ Here \in DOMAIN prog' /\ DOMAIN prog' = 1 .. Len(prog')
  BY <1>1, ReadFacts DEF Extends, Begins
<1>3. Nested(stack, roots, prog', Here)
  <2>1. Nested(stack, roots, prog, Here)
    BY DEF Translated
  <2>2. Here \in Nat \ {0} /\ Here <= Len(prog) + 1
    BY <1>1
  <2>3. QED
    BY <1>1, <1>2, <2>1, <2>2, NestedLonger
<1>4. Spans(prog', Here, 1, Len(prog') + 1)
  <2>1. kind \notin Functions
    BY ExprAssumption DEF ExprAssumption
  <2>2. Operands(prog'[Here]) = 0
    <3>1. Operands(kind) = 0
      <4>1. kind \notin {"not", "println"}
        BY DEF Leaves
      <4>2. QED
        BY <2>1, <4>1 DEF Operands
    <3>2. QED
      BY <1>2, <3>1
  <2>3. Here \in Nat /\ Here + 1 \in Nat /\ Len(prog') + 1 = Here + 1
    BY <1>1, <1>2
  <2>4. Spans(prog', Here + 1, 0, Here + 1)
    BY <2>3, SpansNone
  <2>5. Spans(prog', Here, 1, Here + 1)
    BY <2>2, <2>3, <2>4, SpansOne
  <2>6. QED
    BY <2>3, <2>5
<1>5. \A f \in Nat : f <= Here => f < Len(prog') + 1
  BY <1>1, <1>2
<1>6. DOMAIN prog' \subseteq DOMAIN prog \cup {Here}
  BY <1>1, <1>2
<1>7. QED
  BY <1>1, <1>2, <1>3, <1>4, <1>5, <1>6 DEF Ready, Translated, Closed

\* An operator is finished with its last operand.
LEMMA CloseReady ==
    ASSUME IInv, Translated, NEW kinds, Closes(kinds)
    PROVE  /\ Ready(Pop, Inner.at, prog') /\ prog' = prog /\ prog' \in Seq(Kinds)
           /\ \A j \in 1 .. Len(Inner.places) :
                 Holds(prog, code, Inner.at + 1, j - 1, Inner.places[j])
<1>1. /\ MaxLen \in Nat /\ prog \in Seq(Kinds) /\ Len(prog) \in Nat /\ Here = Len(prog) + 1
      /\ DOMAIN prog = 1 .. Len(prog) /\ stack \in Seq(Frame) /\ roots \in Seq(Slots)
      /\ \A n \in DOMAIN stack : stack[n].at \in 1 .. MaxLen /\ stack[n].at \in DOMAIN prog
  BY TextTyped
<1>2. /\ stack # <<>> /\ prog' = prog /\ Len(Inner.places) = Operands(prog[Inner.at])
  BY DEF Closes
<1>3. /\ Pop \in Seq(Frame) /\ Len(Pop) = Len(stack) - 1 /\ Len(Pop) \in Nat
      /\ DOMAIN Pop \subseteq DOMAIN stack /\ \A n \in DOMAIN Pop : Pop[n] = stack[n]
      /\ Len(stack) \in DOMAIN stack /\ Inner = stack[Len(stack)] /\ Inner \in Frame
  BY <1>1, <1>2, FrontFacts DEF Pop, Inner
<1>4. /\ DOMAIN Pop = 1 .. Len(Pop) /\ DOMAIN stack = 1 .. Len(Pop) + 1 /\ Len(stack) = Len(Pop) + 1
      /\ Inner.at \in DOMAIN prog /\ Inner.places \in Seq(Slots) /\ Inner.at \in 1 .. MaxLen
      /\ Len(Inner.places) \in Nat /\ DOMAIN Inner.places = 1 .. Len(Inner.places)
  <2>1. Inner.at \in 1 .. MaxLen /\ Inner.places \in Seq(Slots)
    BY <1>3 DEF Frame
  <2>2. Len(Inner.places) \in Nat /\ DOMAIN Inner.places = 1 .. Len(Inner.places)
    BY <2>1
  <2>3. Inner.at \in DOMAIN prog
    BY <1>1, <1>3
  <2>4. DOMAIN Pop = 1 .. Len(Pop)
    BY <1>3
  <2>5. DOMAIN stack = 1 .. Len(stack) /\ Len(stack) \in Nat
    BY <1>1
  <2>6. Len(stack) = Len(Pop) + 1
    BY <1>3, <2>5
  <2>7. QED
    BY <2>1, <2>2, <2>3, <2>4, <2>5, <2>6
<1>5. Nested(stack, roots, prog, Here) /\ PlacesOK(stack, roots, code, prog)
  BY DEF Translated
<1>6. Nested(Pop, roots, prog, Inner.at)
  <2>1. ASSUME NEW n \in DOMAIN Pop
        PROVE  /\ Spans(prog, Pop[n].at + 1, Len(Pop[n].places),
                        IF n = Len(Pop) THEN Inner.at ELSE Pop[n + 1].at)
               /\ Pop[n].at < Inner.at
               /\ \A m \in DOMAIN Pop : n < m => Pop[n].at < Pop[m].at
    <3>1. n \in DOMAIN stack /\ n # Len(stack) /\ n + 1 \in DOMAIN stack /\ n < Len(stack)
          /\ (n = Len(Pop) => n + 1 = Len(stack)) /\ (n # Len(Pop) => n + 1 \in DOMAIN Pop)
      BY <1>4
    <3>2. Spans(prog, stack[n].at + 1, Len(stack[n].places), stack[n + 1].at)
      BY <1>5, <3>1 DEF Nested
    <3>3. stack[n + 1].at = IF n = Len(Pop) THEN Inner.at ELSE Pop[n + 1].at
      BY <1>3, <3>1
    <3>4. Pop[n].at < Inner.at /\ \A m \in DOMAIN Pop : n < m => Pop[n].at < Pop[m].at
      BY <1>3, <1>5, <3>1 DEF Nested
    <3>5. QED
      BY <1>3, <3>2, <3>3, <3>4
  <2>2. Spans(prog, 1, Len(roots), IF Pop = <<>> THEN Inner.at ELSE Pop[1].at)
    <3>1. Spans(prog, 1, Len(roots), stack[1].at)
      BY <1>2, <1>5 DEF Nested
    <3>2. stack[1].at = IF Pop = <<>> THEN Inner.at ELSE Pop[1].at
      <4>1. CASE Pop = <<>>
        BY <1>3, <1>4, <4>1
      <4>2. CASE Pop # <<>>
        <5>1. 1 \in DOMAIN Pop
          BY <1>3, <1>4, <4>2
        <5>2. QED
          BY <1>3, <4>2, <5>1
      <4>3. QED
        BY <4>1, <4>2
    <3>3. QED
      BY <3>1, <3>2
  <2>3. QED
    BY <2>1, <2>2 DEF Nested
<1>7. PlacesOK(Pop, roots, code, prog)
  BY <1>3, <1>5 DEF PlacesOK
<1>8. Under(Pop) \subseteq Under(stack) /\ Under(stack) \subseteq Under(Pop) \cup {Inner.at}
  <2>1. \A n \in DOMAIN stack : n \in DOMAIN Pop \/ n = Len(stack)
    BY <1>4
  <2>2. QED
    BY <1>3, <2>1 DEF Under
<1>9. Spans(prog, Inner.at, 1, Len(prog) + 1)
  <2>1. Spans(prog, Inner.at + 1, Len(Inner.places), Here)
    BY <1>3, <1>5 DEF Nested
  <2>2. Inner.at \in Nat /\ Here \in Nat
    BY <1>1, <1>4
  <2>3. QED
    BY <1>1, <1>2, <1>4, <2>1, <2>2, SpansOne
<1>10. ASSUME NEW a \in DOMAIN prog, NEW f \in Nat, Closed(Under(stack), prog, a, f, Here)
       PROVE  f < Len(prog) + 1 \/ (f = Len(prog) + 1 /\ Inner.at < a)
  <2>1. f <= Here /\ (Inner.at < a \/ f <= Inner.at)
    BY <1>3, <1>10 DEF Closed, Under
  <2>2. Inner.at < Here
    BY <1>1, <1>4
  <2>3. QED
    BY <1>1, <1>4, <2>1, <2>2
<1>11. \A j \in 1 .. Len(Inner.places) : Holds(prog, code, Inner.at + 1, j - 1, Inner.places[j])
  BY <1>3, <1>4, <1>5 DEF PlacesOK
<1>12. Begins(prog, prog)
  BY DEF Begins
<1>13. QED
  BY <1>1, <1>2, <1>3, <1>4, <1>6, <1>7, <1>8, <1>9, <1>10, <1>11, <1>12 DEF Ready

\* No code is enough for an event that does nothing, if its value is in place.
LEMMA NoneServes ==
    ASSUME NEW q, NEW d, NEW o, NEW p, ~Works(q[o]), Placed(q, d, o, p)
    PROVE  Serves(<<>>, p, o, q, d)
<1>1. DOMAIN <<>> = {}
  OBVIOUS
<1>2. QED
  BY <1>1 DEF Serves, DoneOnce

\* What a new instruction makes is in its place.
LEMMA PlacedBy ==
    ASSUME NEW c, NEW d, NEW is, Written(c, d, is), NEW x \in DOMAIN is, NEW q, Makes(q, is[x])
    PROVE  Placed(q, d, is[x].at, is[x].dest)
<1>1. Len(c) + x \in DOMAIN d /\ d[Len(c) + x] = is[x]
  BY DEF Written
<1>2. QED
  BY <1>1 DEF Placed

\* One instruction for an event.
LEMMA OneServes ==
    ASSUME NEW c, NEW d, NEW new, Written(c, d, <<new>>), NEW q, NEW o, NEW p,
           new.at = o, new.dest = p, Asked(q, d, new), Doing(new) \/ ~Works(q[o]),
           Makes(q, new) \/ Placed(q, d, o, p)
    PROVE  Serves(<<new>>, p, o, q, d)
<1> DEFINE is == <<new>>
<1>1. DOMAIN is = {1} /\ is[1] = new
  OBVIOUS
<1>2. Written(c, d, is)
  OBVIOUS
<1> HIDE DEF is
<1>3. Placed(q, d, o, p)
  <2>1. CASE Makes(q, new)
    <3>1. 1 \in DOMAIN is /\ Makes(q, is[1])
      BY <1>1, <2>1
    <3>2. Placed(q, d, is[1].at, is[1].dest)
      BY <1>2, <3>1, PlacedBy
    <3>3. QED
      BY <1>1, <3>2
  <2>2. QED
    BY <2>1
<1>4. /\ \A x \in DOMAIN is : Asked(q, d, is[x])
      /\ \A x \in DOMAIN is : Doing(is[x]) => is[x].at = o
      /\ \A x, y \in DOMAIN is : Doing(is[x]) /\ Doing(is[y]) => x = y
      /\ Works(q[o]) => \E x \in DOMAIN is : Doing(is[x])
  BY <1>1
<1>5. Serves(is, p, o, q, d)
  BY <1>3, <1>4 DEF Serves, DoneOnce
<1>6. QED
  BY <1>5 DEF is

\* A name.
LEMMA NameTranslated == IInv /\ Translated /\ Name => Translated'
<1> SUFFICES ASSUME IInv, Translated, Name PROVE Translated'
  OBVIOUS
<1> DEFINE is == <<>>
<1>1. Reads("name") /\ Yield(stack, Here, is)
  BY DEF Name
<1>2. Ready(stack, Here, prog') /\ prog'[Here] = "name" /\ prog' \in Seq(Kinds)
  BY <1>1, LeafReady DEF Leaves
<1>3. Here \in 1 .. MaxLen /\ MaxLen \in Nat
  BY <1>1, ReadFacts
<1>4. Here \in Slots
  BY <1>3 DEF Slots
<1>5. is \in Seq(Instr)
  OBVIOUS
<1>6. Placed(prog', code', Here, Here) /\ ~Works(prog'[Here])
  BY <1>2 DEF Placed, Works
<1>7. Serves(is, Here, Here, prog', code')
  BY <1>6, NoneServes
<1> HIDE DEF is
<1>8. QED
  BY <1>1, <1>2, <1>4, <1>5, <1>7, TranslatedYield

\* A leaf whose value is in the next slot.
LEMMA LeafCode ==
    ASSUME IInv, Translated, NEW kind \in Leaves, Reads(kind), NEW is \in Seq(Instr),
           NEW o, o = Here, NEW p, p = nextOffset, Yield(stack, p, is),
           Written(code, code', is) => Serves(is, p, o, prog', code')
    PROVE  Translated'
<1>1. Ready(stack, o, prog') /\ prog' \in Seq(Kinds)
  BY LeafReady
<1>2. p \in Slots /\ MaxLen \in Nat /\ stack \in Seq(Frame)
  BY ReadFacts
<1>3. code \in Seq(Instr)
  BY TextTyped
<1>4. Written(code, code', is)
  BY <1>2, <1>3, YieldWrites
<1>5. QED
  BY <1>1, <1>2, <1>4, TranslatedYield

\* A literal.
LEMMA LiteralTranslated == IInv /\ Translated /\ Literal => Translated'
<1> SUFFICES ASSUME IInv, Translated, Literal PROVE Translated'
  OBVIOUS
<1> DEFINE c == Do("ASN", Here, nextOffset, <<>>)
           is == <<c>>
           o == Here
           p == nextOffset
<1>1. Reads("literal") /\ Yield(stack, p, is)
  BY DEF Literal, new_temp
<1>2. /\ prog'[o] = "literal" /\ o \in DOMAIN prog' /\ o \in 0 .. MaxLen /\ MaxLen \in Nat
      /\ p \in Slots \ {0} /\ MaxLen < p
  BY <1>1, ReadFacts
<1>3. c \in Instr /\ is \in Seq(Instr)
  BY <1>2, Leaf
<1>4. c.op = "ASN" /\ c.at = o /\ c.dest = p
  BY DEF Do
<1> HIDE DEF c, o, p
<1>5. Asked(prog', code', c) /\ ~Works(prog'[o]) /\ Makes(prog', c)
  BY <1>2, <1>4 DEF Asked, Works, Makes
<1>6. Written(code, code', is) => Serves(is, p, o, prog', code')
  BY <1>4, <1>5, OneServes
<1> HIDE DEF is
<1>7. QED
  BY <1>1, <1>3, <1>6, LeafCode DEF o, p, Leaves

\* A random number, seeded or not.
LEMMA RandomTranslated == IInv /\ Translated /\ Random => Translated'
<1> SUFFICES ASSUME IInv, Translated, Random PROVE Translated'
  OBVIOUS
<1> DEFINE rand == Do("RAND", Here, nextOffset, <<>>)
           srand == Do("SRAND", Here, 0, <<>>)
           is == IF seeded THEN <<rand>> ELSE <<srand, rand>>
           o == Here
           p == nextOffset
<1>1. Reads("random") /\ Yield(stack, p, is)
  BY DEF Random, new_temp
<1>2. /\ prog'[o] = "random" /\ o \in DOMAIN prog' /\ o \in 0 .. MaxLen /\ MaxLen \in Nat
      /\ p \in Slots \ {0} /\ MaxLen < p /\ seeded \in BOOLEAN /\ 0 \in Slots
  BY <1>1, ReadFacts DEF Slots
<1>3. rand \in Instr
  BY <1>2, Leaf
<1>4. srand \in Instr
  BY <1>2 DEF Do, Instr
<1>5. rand.op = "RAND" /\ rand.at = o /\ rand.dest = p /\ srand.op = "SRAND" /\ srand.dest = 0
  BY DEF Do
<1> HIDE DEF rand, srand, o, p
<1>6. Asked(prog', code', rand) /\ Makes(prog', rand) /\ Asked(prog', code', srand)
      /\ Doing(rand) /\ ~Doing(srand)
  BY <1>2, <1>5 DEF Asked, Makes, Doing
<1>7. CASE seeded
  <2>1. is = <<rand>> /\ is \in Seq(Instr)
    BY <1>3, <1>7
  <2>2. Written(code, code', <<rand>>) => Serves(<<rand>>, p, o, prog', code')
    BY <1>5, <1>6, OneServes
  <2>3. Written(code, code', is) => Serves(is, p, o, prog', code')
    BY <2>1, <2>2
  <2> HIDE DEF is
  <2>4. QED
    BY <1>1, <2>1, <2>3, LeafCode DEF o, p, Leaves
<1>8. CASE ~seeded
  <2>1. is = <<srand, rand>> /\ is \in Seq(Instr)
    BY <1>3, <1>4, <1>8
  <2>2. DOMAIN is = {1, 2} /\ is[1] = srand /\ is[2] = rand
    BY <2>1
  <2> HIDE DEF is
  <2>3. ASSUME Written(code, code', is) PROVE Serves(is, p, o, prog', code')
    <3>1. Placed(prog', code', o, p)
      <4>1. 2 \in DOMAIN is /\ Makes(prog', is[2])
        BY <1>6, <2>2
      <4>2. Placed(prog', code', is[2].at, is[2].dest)
        BY <2>3, <4>1, PlacedBy
      <4>3. QED
        BY <1>5, <2>2, <4>2
    <3>2. /\ \A x \in DOMAIN is : Asked(prog', code', is[x])
          /\ \A x \in DOMAIN is : Doing(is[x]) => is[x].at = o
          /\ \A x, y \in DOMAIN is : Doing(is[x]) /\ Doing(is[y]) => x = y
          /\ \E x \in DOMAIN is : Doing(is[x])
      BY <1>5, <1>6, <2>2
    <3>3. QED
      BY <3>1, <3>2 DEF Serves, DoneOnce
  <2>4. QED
    BY <1>1, <2>1, <2>3, LeafCode DEF o, p, Leaves
<1>9. QED
  BY <1>7, <1>8

\* An expression closed, with its code.
LEMMA CloseCode ==
    ASSUME IInv, Translated, NEW kinds, Closes(kinds), NEW is \in Seq(Instr),
           NEW o, o = Inner.at, NEW p \in Slots, Yield(Pop, p, is),
           Written(code, code', is) => Serves(is, p, o, prog, code')
    PROVE  Translated'
<1>1. Ready(Pop, o, prog') /\ prog' = prog /\ prog' \in Seq(Kinds)
  BY CloseReady
<1>2. MaxLen \in Nat /\ Pop \in Seq(Frame)
  BY CloseFacts
<1>3. code \in Seq(Instr)
  BY TextTyped
<1>4. Written(code, code', is)
  BY <1>2, <1>3, YieldWrites
<1>5. Serves(is, p, o, prog', code')
  BY <1>1, <1>4
<1>6. QED
  BY <1>1, <1>5, TranslatedYield

\* An operator reads its operands from where they are.
LEMMA BinaryTranslated == IInv /\ Translated /\ Binary => Translated'
<1> SUFFICES ASSUME IInv, Translated, Binary PROVE Translated'
  OBVIOUS
<1> DEFINE c == Do("OP", Inner.at, nextOffset, Inner.places)
           is == <<c>>
           o == Inner.at
           p == nextOffset
           kinds == Numeric \cup (Compared \ {"identical"})
<1>1. Closes(kinds) /\ Yield(Pop, p, is)
  BY DEF Binary, new_temp
<1>2. /\ prog[o] \in kinds /\ o \in DOMAIN prog /\ o \in 0 .. MaxLen /\ MaxLen \in Nat
      /\ p \in Slots \ {0} /\ Inner.places \in Seq(Slots)
      /\ Len(Inner.places) = Operands(prog[o]) /\ prog \in Seq(Kinds)
  BY <1>1, CloseFacts, TextTyped
<1>3. Len(Inner.places) = 2
  BY <1>2, TwoOperands
<1>4. \A j \in 1 .. 2 : Holds(prog, code, o + 1, j - 1, Inner.places[j])
  BY <1>1, <1>3, CloseReady
<1>5. c \in Instr /\ c.op = "OP" /\ c.at = o /\ c.dest = p /\ c.src = Inner.places
  BY <1>2 DEF Do, Instr
<1>6. is \in Seq(Instr)
  BY <1>5
<1> HIDE DEF c, o, p, kinds
<1>7. ASSUME Written(code, code', is) PROVE Asked(prog, code', c)
  <2>1. Begins(code, code') /\ Begins(prog, prog) /\ \A k \in DOMAIN code : code[k].at \in DOMAIN prog
    BY <1>7, TextTyped DEF Written, Begins
  <2>2. o + 1 \in Nat \ {0}
    BY <1>2
  <2>3. \A j \in 1 .. 2 : Holds(prog, code', o + 1, j - 1, Inner.places[j])
    BY <1>2, <1>4, <2>1, <2>2, HoldsLonger
  <2>4. QED
    BY <1>2, <1>5, <2>3 DEF Asked, kinds
<1>8. Doing(c) /\ Makes(prog, c)
  BY <1>2, <1>5 DEF Doing, Makes
<1>9. Written(code, code', is) => Serves(is, p, o, prog, code')
  BY <1>5, <1>7, <1>8, OneServes
<1> HIDE DEF is
<1>10. QED
  BY <1>1, <1>2, <1>6, <1>9, CloseCode DEF o

\* A call, of a function or of println: what it does is done, and the value of a
\* function that returns one is in its slot.
LEMMA CallTranslated ==
    ASSUME IInv, Translated, NEW kinds, Closes(kinds), NEW p \in Slots,
           Called(prog[Inner.at]), p # 0 \/ prog[Inner.at] = "println",
           Yield(Pop, p, <<Do("CALL", Inner.at, p, <<>>)>>)
    PROVE  Translated'
<1> DEFINE c == Do("CALL", Inner.at, p, <<>>)
           is == <<c>>
           o == Inner.at
<1>1. Yield(Pop, p, is)
  OBVIOUS
<1>2. o \in 0 .. MaxLen /\ MaxLen \in Nat
  BY CloseFacts
<1>3. c \in Instr /\ c.op = "CALL" /\ c.at = o /\ c.dest = p
  BY <1>2 DEF Do, Instr
<1>4. is \in Seq(Instr)
  BY <1>3
<1>5. Called(prog[o]) /\ (p # 0 \/ prog[o] = "println")
  OBVIOUS
<1> HIDE DEF c, o
<1>6. Asked(prog, code', c) /\ Doing(c)
  BY <1>3, <1>5 DEF Asked, Doing
<1>7. Makes(prog, c) \/ Placed(prog, code', o, p)
  BY <1>3, <1>5 DEF Makes, Placed
<1>8. Written(code, code', is) => Serves(is, p, o, prog, code')
  BY <1>3, <1>6, <1>7, OneServes
<1> HIDE DEF is
<1>9. QED
  BY <1>1, <1>4, <1>8, CloseCode DEF o

\* The operators without code have no value where the text says, and do nothing.
LEMMA CodelessTranslated ==
    ASSUME IInv, Translated, NEW kinds \in SUBSET ({"identical"} \cup Logical), Closes(kinds),
           NEW p \in Slots, Yield(Pop, p, <<>>)
    PROVE  Translated'
<1> DEFINE is == <<>>
           o == Inner.at
<1>1. Yield(Pop, p, is) /\ is \in Seq(Instr)
  OBVIOUS
<1>2. prog[o] \in {"identical"} \cup Logical
  BY DEF Closes
<1> HIDE DEF o
<1>3. Placed(prog, code', o, p) /\ ~Works(prog[o])
  BY <1>2 DEF Placed, Works
<1>4. Serves(is, p, o, prog, code')
  BY <1>3, NoneServes
<1> HIDE DEF is
<1>5. QED
  BY <1>1, <1>4, CloseCode DEF o

\* A list without new code is written, too.
LEMMA NothingWritten == ASSUME code \in Seq(Instr) PROVE Written(code, code, <<>>)
<1>1. DOMAIN code = 1 .. Len(code) /\ Len(code) \in Nat /\ DOMAIN <<>> = {}
  OBVIOUS
<1>2. DOMAIN code \subseteq Nat \ {0}
  BY <1>1
<1>3. QED
  BY <1>1, <1>2 DEF Written, Begins

\* An event more under way.
LEMMA WorkOpened ==
    ASSUME NEW pr \in Seq(Kinds), NEW q \in Seq(Kinds), Begins(pr, q), NEW h \in Nat, h = Len(pr) + 1,
           DOMAIN q = DOMAIN pr \cup {h}, Len(q) = h,
           NEW c, \A k \in DOMAIN c : c[k].at \in DOMAIN pr,
           NEW u, WorkOK(u, c, pr, h)
    PROVE  WorkOK(u \cup {h}, c, q, h + 1)
<1>1. ASSUME NEW k \in DOMAIN c, Doing(c[k])
      PROVE  \E e \in Nat : Closed(u \cup {h}, q, c[k].at, e, h + 1)
  <2>1. PICK e \in Nat : Closed(u, pr, c[k].at, e, h)
    BY <1>1 DEF WorkOK
  <2>2. Spans(pr, c[k].at, 1, e) /\ e <= h /\ \A a \in u : a < c[k].at \/ e <= a
    BY <2>1 DEF Closed
  <2>3. Spans(q, c[k].at, 1, e)
    BY <2>2, ClosedLonger
  <2>4. e <= h + 1
    BY <2>2
  <2>5. QED
    BY <2>2, <2>3, <2>4 DEF Closed
<1>2. ASSUME NEW o \in DOMAIN q, Works(q[o])
      PROVE  o \in u \cup {h} \/ \E k \in DOMAIN c : Doing(c[k]) /\ c[k].at = o
  <2>1. CASE o \in DOMAIN pr
    <3>1. Works(pr[o])
      BY <1>2, <2>1 DEF Begins
    <3>2. QED
      BY <2>1, <3>1 DEF WorkOK
  <2>2. QED
    BY <2>1
<1>3. ASSUME NEW k \in DOMAIN c, NEW m \in DOMAIN c, Doing(c[k]), Doing(c[m]), k < m
      PROVE  EndsSooner(q, c[k].at, c[m].at)
  <2>1. PICK f, g \in 1 .. Len(pr) + 1 : /\ Spans(pr, c[k].at, 1, f) /\ Spans(pr, c[m].at, 1, g)
                                         /\ f < g \/ (f = g /\ c[m].at < c[k].at)
    BY <1>3 DEF WorkOK, EndsSooner
  <2>2. f \in Nat /\ g \in Nat /\ f <= Len(pr) + 1 /\ g <= Len(pr) + 1
    OBVIOUS
  <2>3. /\ Spans(q, c[k].at, 1, f) /\ f \in 1 .. Len(q) + 1
        /\ Spans(q, c[m].at, 1, g) /\ g \in 1 .. Len(q) + 1
    BY <2>1, <2>2, ClosedLonger
  <2>4. QED
    BY <2>1, <2>3 DEF EndsSooner
<1>4. QED
  BY <1>1, <1>2, <1>3 DEF WorkOK

\* An operator or call is under way, without an operand yet.
LEMMA OpenTranslated == ASSUME IInv, Translated, NEW kind, Open(kind) PROVE Translated'
<1> DEFINE f == [at |-> Here, places |-> <<>>]
           q == prog'
           st == stack'
           h == Here
<1>1. /\ Reads(kind) /\ st = Append(stack, f) /\ UNCHANGED <<code, roots>>
  BY DEF Open
<1>2. /\ q \in Seq(Kinds) /\ Len(q) = Len(prog) + 1 /\ Begins(prog, q) /\ h \in 1 .. MaxLen
  BY <1>1, ReadFacts DEF Extends, Begins
<1>3. /\ MaxLen \in Nat /\ prog \in Seq(Kinds) /\ Len(prog) \in Nat /\ h = Len(prog) + 1
      /\ DOMAIN prog = 1 .. Len(prog)
      /\ stack \in Seq(Frame) /\ roots \in Seq(Slots) /\ code \in Seq(Instr)
      /\ \A k \in DOMAIN code : code[k].at \in DOMAIN prog
      /\ \A n \in DOMAIN stack : stack[n].at \in 1 .. MaxLen
  BY TextTyped
<1>4. Len(q) = h /\ Here' = h + 1 /\ h \in Nat \ {0} /\ DOMAIN q = DOMAIN prog \cup {h}
  BY <1>2, <1>3 DEF Here
<1>5. f \in Frame /\ f.at = h /\ f.places = <<>> /\ Len(<<>>) = 0 /\ DOMAIN <<>> = {}
  <2>1. <<>> \in Seq(Slots) /\ Len(<<>>) = 0 /\ DOMAIN <<>> = {}
    OBVIOUS
  <2>2. QED
    BY <1>2, <2>1 DEF Frame
<1> HIDE DEF f, h
<1>6. OneMore(stack, f, st)
  BY <1>1, <1>3, <1>5, LongerByOne
<1>7. /\ DOMAIN st = 1 .. Len(stack) + 1 /\ DOMAIN stack = 1 .. Len(stack) /\ Len(stack) \in Nat
      /\ st[Len(stack) + 1] = f /\ \A n \in DOMAIN stack : st[n] = stack[n]
  BY <1>6, Zenon DEF OneMore
<1>8. Len(st) = Len(stack) + 1 /\ st # <<>>
  BY <1>1, <1>3, <1>5
<1> HIDE DEF q, st
<1>9. Nested(stack, roots, q, h)
  <2>1. Nested(stack, roots, prog, h)
    BY DEF Translated, h
  <2>2. h <= Len(prog) + 1
    BY <1>3
  <2>3. QED
    BY <1>2, <1>3, <1>4, <2>1, <2>2, NestedLonger
<1>10. Nested(st, roots, q, h + 1)
  <2>1. ASSUME NEW n \in DOMAIN st
        PROVE  /\ Spans(q, st[n].at + 1, Len(st[n].places), IF n = Len(st) THEN h + 1 ELSE st[n + 1].at)
               /\ st[n].at < h + 1
               /\ \A m \in DOMAIN st : n < m => st[n].at < st[m].at
    <3>1. CASE n = Len(stack) + 1
      <4>1. Spans(q, h + 1, 0, h + 1)
        BY <1>4, SpansNone
      <4>2. QED
        BY <1>4, <1>5, <1>7, <1>8, <3>1, <4>1
    <3>2. CASE n # Len(stack) + 1
      <4>1. n \in DOMAIN stack /\ n # Len(st) /\ n + 1 \in DOMAIN st /\ st[n] = stack[n]
        BY <1>7, <1>8, <3>2
      <4>2. Spans(q, stack[n].at + 1, Len(stack[n].places),
                  IF n = Len(stack) THEN h ELSE stack[n + 1].at)
        BY <1>9, <4>1 DEF Nested
      <4>3. st[n + 1].at = IF n = Len(stack) THEN h ELSE stack[n + 1].at
        <5>1. CASE n = Len(stack)
          BY <1>5, <1>7, <5>1
        <5>2. CASE n # Len(stack)
          <6>1. n + 1 \in DOMAIN stack
            BY <1>7, <4>1, <5>2
          <6>2. QED
            BY <1>7, <5>2, <6>1
        <5>3. QED
          BY <5>1, <5>2
      <4>4. stack[n].at < h /\ \A m \in DOMAIN stack : n < m => stack[n].at < stack[m].at
        BY <1>9, <4>1 DEF Nested
      <4>5. \A m \in DOMAIN st : n < m => stack[n].at < st[m].at
        BY <1>5, <1>7, <4>4
      <4>6. stack[n].at < h + 1
        BY <1>3, <1>4, <4>1, <4>4
      <4>7. QED
        BY <4>1, <4>2, <4>3, <4>5, <4>6
    <3>3. QED
      BY <3>1, <3>2
  <2>2. Spans(q, 1, Len(roots), st[1].at)
    <3>1. Spans(q, 1, Len(roots), IF stack = <<>> THEN h ELSE stack[1].at)
      BY <1>9 DEF Nested
    <3>2. st[1].at = IF stack = <<>> THEN h ELSE stack[1].at
      <4>1. CASE stack = <<>>
        BY <1>5, <1>7, <4>1
      <4>2. CASE stack # <<>>
        <5>1. 1 \in DOMAIN stack
          BY <1>3, <4>2
        <5>2. QED
          BY <1>7, <4>2, <5>1
      <4>3. QED
        BY <4>1, <4>2
    <3>3. QED
      BY <3>1, <3>2
  <2>3. QED
    BY <1>8, <2>1, <2>2 DEF Nested
<1>11. PlacesOK(st, roots, code, q)
  <2>1. PlacesOK(stack, roots, code, prog) /\ Begins(code, code)
    BY DEF Translated, Begins
  <2>2. \A i \in Nat \ {0} : \A n, s : Holds(prog, code, i, n, s) => Holds(q, code, i, n, s)
    BY <1>2, <1>3, <2>1, HoldsLonger
  <2>3. ASSUME NEW n \in DOMAIN st, NEW j \in DOMAIN st[n].places
        PROVE  Holds(q, code, st[n].at + 1, j - 1, st[n].places[j])
    <3>1. n \in DOMAIN stack /\ st[n] = stack[n]
      BY <1>5, <1>7, <2>3
    <3>2. stack[n].at + 1 \in Nat \ {0}
      BY <1>3, <3>1
    <3>3. QED
      BY <2>1, <2>2, <2>3, <3>1, <3>2 DEF PlacesOK
  <2>4. QED
    BY <2>1, <2>2, <2>3 DEF PlacesOK
<1>12. OpsOK(code, q)
  <2> DEFINE is == <<>>
  <2>1. Written(code, code, is) /\ DOMAIN is = {}
    BY <1>3, NothingWritten
  <2> HIDE DEF is
  <2>2. OpsOK(code, prog)
    BY DEF Translated
  <2>3. QED
    BY <1>2, <1>3, <2>1, <2>2, OpsWritten
<1>13. WorkOK(Under(st), code, q, h + 1)
  <2>1. WorkOK(Under(stack), code, prog, h)
    BY DEF Translated, h
  <2>2. WorkOK(Under(stack) \cup {h}, code, q, h + 1)
    BY <1>2, <1>3, <1>4, <2>1, WorkOpened
  <2>3. Under(st) = Under(stack) \cup {h}
    BY <1>5, <1>7 DEF Under
  <2>4. QED
    BY <2>2, <2>3
<1>14. QED
  BY <1>1, <1>4, <1>10, <1>11, <1>12, <1>13 DEF Translated, q, st

\* Every generating step keeps text and code in agreement.
Generates ==
    \/ Name \/ Literal \/ Random
    \/ \E kind \in Kinds : Open(kind)
    \/ Binary \/ Identical \/ Conjunction \/ Negation \/ FunctionCall \/ Println

\* Reading and generating.
LEMMA GeneratesTranslated == ASSUME IInv, Translated, Generates PROVE Translated'
<1>1. CASE Identical
  <2>1. Closes({"identical"}) /\ Yield(Pop, nextOffset, <<>>)
    BY <1>1 DEF Identical, new_temp
  <2>2. nextOffset \in Slots
    BY <2>1, CloseFacts
  <2>3. QED
    BY <2>1, <2>2, CodelessTranslated
<1>2. CASE Conjunction
  <2>1. Closes({"and", "or"}) /\ Yield(Pop, 0, <<>>)
    BY <1>2 DEF Conjunction
  <2>2. 0 \in Slots /\ {"and", "or"} \in SUBSET ({"identical"} \cup Logical)
    BY <2>1, CloseFacts DEF Slots, Logical
  <2>3. QED
    BY <2>1, <2>2, CodelessTranslated
<1>3. CASE Negation
  <2>1. Closes({"not"}) /\ Yield(Pop, Inner.places[1], <<>>)
    BY <1>3 DEF Negation
  <2>2. "not" \notin Functions
    BY ExprAssumption DEF ExprAssumption, Logical
  <2>3. Operands("not") = 1
    BY <2>2 DEF Operands, Leaves
  <2>4. /\ prog[Inner.at] \in {"not"} /\ Inner.places \in Seq(Slots)
        /\ Len(Inner.places) = Operands(prog[Inner.at])
    BY <2>1, CloseFacts
  <2>5. prog[Inner.at] = "not"
    BY <2>4
  <2>6. Inner.places[1] \in Slots
    BY <2>3, <2>4, <2>5
  <2>7. {"not"} \in SUBSET ({"identical"} \cup Logical)
    BY DEF Logical
  <2>8. QED
    BY <2>1, <2>6, <2>7, CodelessTranslated
<1>4. CASE FunctionCall
  <2>1. Closes(Functions) /\ Yield(Pop, nextOffset, <<Do("CALL", Inner.at, nextOffset, <<>>)>>)
    BY <1>4 DEF FunctionCall, new_temp
  <2>2. nextOffset \in Slots \ {0} /\ prog[Inner.at] \in Functions
    BY <2>1, CloseFacts
  <2>3. QED
    BY <2>1, <2>2, CallTranslated DEF Called
<1>5. CASE Println
  <2>1. Closes({"println"}) /\ Yield(Pop, 0, <<Do("CALL", Inner.at, 0, <<>>)>>)
    BY <1>5 DEF Println
  <2>2. 0 \in Slots /\ prog[Inner.at] \in {"println"}
    BY <2>1, CloseFacts DEF Slots
  <2>3. QED
    BY <2>1, <2>2, CallTranslated DEF Called
<1>6. QED
  BY <1>1, <1>2, <1>3, <1>4, <1>5, NameTranslated, LiteralTranslated, RandomTranslated,
     OpenTranslated, BinaryTranslated DEF Generates

-----------------------------------------------------------------------------
\* What the run does of it

\* Nothing has run.
LEMMA TracesNone == ASSUME NEW c, NEW p \in {0, 1} PROVE \E w : Traces(w, <<>>, c, p)
<1> DEFINE w == [n \in {} |-> 0]
<1>1. DOMAIN <<>> = {} /\ 1 .. p - 1 = {} /\ w \in [{} -> {}]
  OBVIOUS
<1> HIDE DEF w
<1>2. Traces(w, <<>>, c, p)
  BY <1>1 DEF Traces
<1>3. QED
  BY <1>2

\* An instruction that leaves no trace.
LEMMA TracesSkip ==
    ASSUME NEW dn, NEW c, NEW p \in Nat \ {0}, NEW w, Traces(w, dn, c, p), ~Doing(c[p])
    PROVE  Traces(w, dn, c, p + 1)
<1>1. \A k \in 1 .. (p + 1) - 1 : k \in 1 .. p - 1 \/ k = p
  OBVIOUS
<1>2. 1 .. p - 1 \subseteq 1 .. (p + 1) - 1
  OBVIOUS
<1>3. w \in [DOMAIN dn -> 1 .. (p + 1) - 1]
  BY <1>2 DEF Traces
<1>4. QED
  BY <1>1, <1>3 DEF Traces

\* One that does.
LEMMA TracesDid ==
    ASSUME NEW S, NEW dn \in Seq(S), NEW r \in S, NEW c, NEW p \in Nat \ {0},
           NEW w, Traces(w, dn, c, p), Doing(c[p]), r.at = c[p].at
    PROVE  \E v : Traces(v, Append(dn, r), c, p + 1)
<1> DEFINE d == Append(dn, r)
           v == [n \in DOMAIN d |-> IF n \in DOMAIN dn THEN w[n] ELSE p]
<1>1. OneMore(dn, r, d)
  BY LongerByOne
<1> HIDE DEF d
<1>2. /\ DOMAIN d = 1 .. Len(dn) + 1 /\ DOMAIN dn = 1 .. Len(dn) /\ Len(dn) \in Nat
      /\ d[Len(dn) + 1] = r /\ \A n \in DOMAIN dn : d[n] = dn[n]
  BY <1>1, Zenon DEF OneMore
<1>3. /\ \A n \in DOMAIN dn : v[n] = w[n] /\ w[n] \in 1 .. p - 1
      /\ v[Len(dn) + 1] = p /\ DOMAIN v = DOMAIN d
      /\ \A n \in DOMAIN d : n \in DOMAIN dn \/ n = Len(dn) + 1
      /\ Len(dn) + 1 \in DOMAIN d
  BY <1>2 DEF Traces
<1>4. v \in [DOMAIN d -> 1 .. (p + 1) - 1]
  <2>1. \A n \in DOMAIN d : v[n] \in 1 .. (p + 1) - 1
    <3>1. p \in 1 .. (p + 1) - 1 /\ 1 .. p - 1 \subseteq 1 .. (p + 1) - 1
      OBVIOUS
    <3> HIDE DEF v
    <3>2. QED
      BY <1>3, <3>1
  <2>2. v = [n \in DOMAIN d |-> v[n]]
    OBVIOUS
  <2> HIDE DEF v
  <2>3. QED
    BY <2>1, <2>2
<1> HIDE DEF v
<1>5. \A n \in DOMAIN d : Doing(c[v[n]]) /\ c[v[n]].at = d[n].at
  BY <1>2, <1>3 DEF Traces
<1>6. \A m, n \in DOMAIN d : m < n => v[m] < v[n]
  <2> SUFFICES ASSUME NEW m \in DOMAIN d, NEW n \in DOMAIN d, m < n PROVE v[m] < v[n]
    OBVIOUS
  <2>1. m \in DOMAIN dn
    BY <1>2
  <2>2. CASE n \in DOMAIN dn
    BY <1>3, <2>1, <2>2 DEF Traces
  <2>3. CASE n = Len(dn) + 1
    BY <1>3, <2>1, <2>3
  <2>4. QED
    BY <1>3, <2>2, <2>3
<1>7. \A k \in 1 .. (p + 1) - 1 : Doing(c[k]) => \E n \in DOMAIN d : v[n] = k
  <2> SUFFICES ASSUME NEW k \in 1 .. (p + 1) - 1, Doing(c[k]) PROVE \E n \in DOMAIN d : v[n] = k
    OBVIOUS
  <2>1. CASE k = p
    BY <1>3, <2>1
  <2>2. CASE k # p
    <3>1. k \in 1 .. p - 1
      BY <2>2
    <3>2. PICK n \in DOMAIN dn : w[n] = k
      BY <3>1 DEF Traces
    <3>3. n \in DOMAIN d
      BY <1>2
    <3>4. QED
      BY <1>3, <3>2, <3>3
  <2>3. QED
    BY <2>1, <2>2
<1>8. Traces(v, d, c, p + 1)
  BY <1>4, <1>5, <1>6, <1>7 DEF Traces
<1>9. QED
  BY <1>8 DEF d

\* An instruction that does nothing the text asks for.
LEMMA SkipRan ==
    ASSUME IInv, Ran, NEW op, Runs(op), op \notin {"OP", "CALL", "RAND"}, done' = done
    PROVE  Ran'
<1>1. /\ UNCHANGED genVars /\ pc' = pc + 1 /\ pc \in 1 .. Len(code) /\ Instruction.op = op
  BY RunFacts
<1>2. code' = code /\ prog' = prog /\ stack' = stack /\ pc \in Nat \ {0} /\ pc' # 0
  BY <1>1 DEF genVars, IInv, TypeOK
<1>3. ~Doing(code[pc])
  BY <1>1 DEF Doing, Instruction
<1>4. PICK w : Traces(w, done, code, pc)
  BY DEF Ran
<1>5. Traces(w, done, code, pc + 1)
  BY <1>2, <1>3, <1>4, TracesSkip
<1>6. QED
  BY <1>1, <1>2, <1>5 DEF Ran

\* One that does.
LEMMA DidRan ==
    ASSUME IInv, Ran, NEW op \in {"OP", "CALL", "RAND"}, Runs(op),
           NEW values \in Seq(Value), Did(values), NEW r,
           r = [at |-> Instruction.at, args |-> values], Fed(prog, r)
    PROVE  Ran'
<1> DEFINE S == [at : 1 .. MaxLen, args : Seq(Value)]
<1>1. /\ UNCHANGED genVars /\ pc' = pc + 1 /\ pc \in 1 .. Len(code) /\ Instruction.op = op
      /\ Instruction.at \in 1 .. MaxLen
  BY RunFacts
<1>2. code' = code /\ prog' = prog /\ stack' = stack /\ pc \in Nat \ {0} /\ pc' # 0
      /\ done \in Seq(S) /\ done' = Append(done, r)
  BY <1>1 DEF genVars, IInv, TypeOK, Did
<1>3. Doing(code[pc]) /\ r.at = code[pc].at /\ r \in S
  BY <1>1 DEF Doing, Instruction
<1>4. PICK w : Traces(w, done, code, pc)
  BY DEF Ran
<1> HIDE DEF S
<1>5. \E v : Traces(v, done', code, pc + 1)
  BY <1>2, <1>3, <1>4, TracesDid
<1>6. OneMore(done, r, done')
  BY <1>2, <1>3, LongerByOne
<1>7. \A n \in DOMAIN done' : Fed(prog, done'[n])
  BY <1>6 DEF OneMore, Ran
<1>8. QED
  BY <1>1, <1>2, <1>5, <1>7 DEF Ran

\* A value is in its place when what makes it has run.
LEMMA ValueInPlace ==
    ASSUME IInv, NEW o \in DOMAIN prog, NEW p, Placed(prog, code, o, p),
           \A k \in DOMAIN code : code[k].dest = p /\ p # 0 => k < pc,
           prog[o] \notin {"identical"} \cup Logical \cup Silent \cup {"println"}
    PROVE  mem[p] = o
<1>1. CASE prog[o] = "name" /\ p = o
  <2>1. o \in 0 .. MaxLen
    BY TextTyped
  <2>2. QED
    BY <1>1, <2>1 DEF IInv, ValuesHeld
<1>2. CASE \E k \in DOMAIN code : Makes(prog, code[k]) /\ code[k].dest = p /\ code[k].at = o
  <2>1. PICK k \in DOMAIN code : Makes(prog, code[k]) /\ code[k].dest = p /\ code[k].at = o
    BY <1>2
  <2>2. Computes(code[k]) /\ k < pc
    BY <2>1 DEF Makes, Computes
  <2>3. code \in Seq(Instr) /\ pc \in Nat
    BY DEF IInv, TypeOK
  <2>4. k \in 1 .. pc - 1
    BY <2>2, <2>3
  <2>5. QED
    BY <2>1, <2>2, <2>4 DEF IInv, ValuesHeld
<1>3. QED
  BY <1>1, <1>2 DEF Placed

\* An operator gets the values of its operands.
LEMMA OpRan == IInv /\ Translated /\ Ran /\ Op => Ran'
<1> SUFFICES ASSUME IInv, Translated, Ran, Op PROVE Ran'
  OBVIOUS
<1> DEFINE c == Instruction
           values == <<mem[c.src[1]], mem[c.src[2]]>>
           r == [at |-> Instruction.at, args |-> values]
<1>1. Runs("OP") /\ Did(values)
  BY DEF Op
<1>2. /\ pc \in DOMAIN code /\ c.op = "OP" /\ InstrOK(c, prog, nextOffset)
      /\ c.src \in Seq(Slots) /\ c.at \in DOMAIN prog
  BY <1>1, RunFacts
<1>3. Len(c.src) = 2 /\ DOMAIN c.src = 1 .. 2
  BY <1>2 DEF InstrOK
<1>4. values \in Seq(Value) /\ Len(values) = 2 /\ \A j \in 1 .. 2 : values[j] = mem[c.src[j]]
  <2>1. c.src[1] \in Slots /\ c.src[2] \in Slots
    BY <1>2, <1>3
  <2>2. mem[c.src[1]] \in Value /\ mem[c.src[2]] \in Value
    BY <2>1, Kept
  <2>3. QED
    BY <2>2
<1>5. Asked(prog, code, c)
  BY <1>2 DEF Translated, OpsOK, Instruction
<1>6. ASSUME NEW j \in 1 .. 2
      PROVE  \E o \in DOMAIN prog :
                /\ Spans(prog, c.at + 1, j - 1, o)
                /\ prog[o] \notin {"identical"} \cup Logical \cup Silent \cup {"println"} => values[j] = o
  <2>1. Holds(prog, code, c.at + 1, j - 1, c.src[j])
    BY <1>2, <1>5 DEF Asked
  <2>2. PICK o \in DOMAIN prog : Spans(prog, c.at + 1, j - 1, o) /\ Placed(prog, code, o, c.src[j])
    BY <2>1 DEF Holds
  <2>3. \A k \in DOMAIN code : code[k].dest = c.src[j] /\ c.src[j] # 0 => k < pc
    BY <1>2, <1>3 DEF IInv, CodeOK, Ordered, Instruction
  <2>4. prog[o] \notin {"identical"} \cup Logical \cup Silent \cup {"println"} => mem[c.src[j]] = o
    BY <2>2, <2>3, ValueInPlace
  <2>5. QED
    BY <1>4, <2>2, <2>4
<1>7. r.at = c.at /\ r.args = values
  OBVIOUS
<1> HIDE DEF c, values
<1>8. Fed(prog, r)
  BY <1>4, <1>6, <1>7 DEF Fed
<1> HIDE DEF r
<1>9. QED
  BY <1>1, <1>4, <1>8, DidRan DEF r

\* Calls and random numbers are no operators.
LEMMA NotFed ==
    ASSUME IInv, Translated, NEW op \in {"CALL", "RAND"}, Runs(op), NEW values
    PROVE  Fed(prog, [at |-> Instruction.at, args |-> values])
<1> DEFINE r == [at |-> Instruction.at, args |-> values]
<1>1. /\ pc \in DOMAIN code /\ Instruction.op = op
  BY RunFacts
<1>2. Asked(prog, code, Instruction)
  BY <1>1 DEF Translated, OpsOK, Instruction
<1>3. Called(prog[Instruction.at]) \/ prog[Instruction.at] = "random"
  BY <1>1, <1>2 DEF Asked
<1>4. Functions \cap (Numeric \cup Compared) = {}
  BY ExprAssumption DEF ExprAssumption
<1>5. prog[Instruction.at] \notin Numeric \cup Compared
  BY <1>3, <1>4 DEF Called, Numeric, Compared
<1>6. r.at = Instruction.at
  OBVIOUS
<1> HIDE DEF r
<1>7. Fed(prog, r)
  BY <1>5, <1>6 DEF Fed
<1>8. QED
  BY <1>7 DEF r

\* A call of a function.
LEMMA CallRan == IInv /\ Translated /\ Ran /\ Call => Ran'
<1> SUFFICES ASSUME IInv, Translated, Ran, Call PROVE Ran'
  OBVIOUS
<1> DEFINE f == prog[Instruction.at]
           values == [i \in 1 .. Arity[f] |-> Register(i)]
           r == [at |-> Instruction.at, args |-> values]
<1>1. Runs("CALL") /\ f \in Functions /\ Did(values)
  BY DEF Call
<1>2. values \in Seq(Value)
  <2>1. Arity[f] \in 0 .. ArgRegs /\ ArgRegs \in Nat
    BY <1>1, ExprAssumption DEF ExprAssumption
  <2>2. Arity[f] \in Nat /\ \A i \in 1 .. Arity[f] : Register(i) \in Value
    <3> HIDE DEF f
    <3>1. Arity[f] \in Nat /\ \A i \in 1 .. Arity[f] : i \in 1 .. ArgRegs
      BY <2>1
    <3>2. QED
      BY <3>1, Kept
  <2> DEFINE n == Arity[f]
  <2> HIDE DEF n
  <2>3. [i \in 1 .. n |-> Register(i)] \in Seq(Value)
    BY <2>2 DEF n
  <2>4. QED
    BY <2>3 DEF n
<1> HIDE DEF values
<1>3. Fed(prog, r)
  BY <1>1, NotFed
<1> HIDE DEF r
<1>4. QED
  BY <1>1, <1>2, <1>3, DidRan DEF r

\* println, and a random number.
LEMMA OthersRan == IInv /\ Translated /\ Ran /\ (CallPrintln \/ Rand) => Ran'
<1> SUFFICES ASSUME IInv, Translated, Ran, CallPrintln \/ Rand PROVE Ran'
  OBVIOUS
<1>1. CASE CallPrintln
  <2> DEFINE values == <<Register(1)>>
             r == [at |-> Instruction.at, args |-> values]
  <2>1. Runs("CALL") /\ Did(values)
    BY <1>1 DEF CallPrintln
  <2>2. values \in Seq(Value)
    BY Kept
  <2> HIDE DEF values
  <2>3. Fed(prog, r)
    BY <2>1, NotFed
  <2> HIDE DEF r
  <2>4. QED
    BY <2>1, <2>2, <2>3, DidRan DEF r
<1>2. CASE Rand
  <2> DEFINE values == <<>>
             r == [at |-> Instruction.at, args |-> values]
  <2>1. Runs("RAND") /\ Did(values)
    BY <1>2 DEF Rand
  <2>2. values \in Seq(Value)
    OBVIOUS
  <2> HIDE DEF values
  <2>3. Fed(prog, r)
    BY <2>1, NotFed
  <2> HIDE DEF r
  <2>4. QED
    BY <2>1, <2>2, <2>3, DidRan DEF r
<1>3. QED
  BY <1>1, <1>2

\* Generating leaves nothing done; then the code is complete.
LEMMA IdleRan ==
    ASSUME IInv, Ran, Generates \/ Start
    PROVE  Ran'
<1>1. CASE Start
  <2>1. pc = 0 /\ pc' = 1 /\ stack' = <<>> /\ done' = done
    BY <1>1 DEF Start, Generating, genVars
  <2>2. done' = <<>>
    BY <2>1 DEF Ran
  <2>3. \E w : Traces(w, done', code', pc')
    BY <2>1, <2>2, TracesNone
  <2>4. DOMAIN <<>> = {}
    OBVIOUS
  <2>5. QED
    BY <2>1, <2>2, <2>3, <2>4 DEF Ran
<1>2. CASE Generates
  <2>1. pc = 0 /\ UNCHANGED runVars
    BY <1>2 DEF Generates, Name, Literal, Random, Open, Binary, Identical, Conjunction, Negation,
                FunctionCall, Println, Reads, Closes, Generating
  <2>2. done' = <<>> /\ pc' = 0
    BY <2>1 DEF Ran, runVars
  <2>3. \E w : Traces(w, done', code', pc')
    BY <2>2, TracesNone
  <2>4. DOMAIN <<>> = {}
    OBVIOUS
  <2>5. QED
    BY <2>2, <2>3, <2>4 DEF Ran
<1>3. QED
  BY <1>1, <1>2

\* At first there is no text and no code.
LEMMA FaithfulInit == Init => Faithful
<1> SUFFICES ASSUME Init PROVE Faithful
  OBVIOUS
<1> DEFINE none == <<>>
<1>1. /\ prog = none /\ stack = none /\ code = none /\ roots = none /\ done = none /\ pc = 0
  BY DEF Init
<1>2. DOMAIN none = {} /\ Len(none) = 0 /\ none = <<>>
  OBVIOUS
<1> HIDE DEF none
<1>3. Here = 1
  BY <1>1, <1>2 DEF Here
<1>4. Nested(stack, roots, prog, Here)
  <2>1. Spans(prog, 1, 0, 1)
    BY SpansNone
  <2>2. QED
    BY <1>1, <1>2, <1>3, <2>1 DEF Nested
<1>5. PlacesOK(stack, roots, code, prog) /\ OpsOK(code, prog) /\ WorkOK(Under(stack), code, prog, Here)
  BY <1>1, <1>2 DEF PlacesOK, OpsOK, WorkOK
<1>6. Ran
  <2>1. \E w : Traces(w, done, code, pc)
    BY <1>1, <1>2, TracesNone
  <2>2. QED
    BY <1>1, <1>2, <2>1 DEF Ran
<1>7. QED
  BY <1>4, <1>5, <1>6 DEF Faithful, Translated

\* Every step keeps text, code and run in agreement.
LEMMA FaithfulNext == IInv /\ Faithful /\ [Next]_vars => Faithful'
<1> SUFFICES ASSUME IInv, Faithful, [Next]_vars PROVE Faithful'
  OBVIOUS
<1>1. Translated /\ Ran
  BY DEF Faithful
<1>2. ASSUME UNCHANGED genVars PROVE Translated'
  <2>1. prog' = prog /\ stack' = stack /\ roots' = roots /\ code' = code
    BY <1>2 DEF genVars
  <2>2. Here' = Here
    BY <2>1 DEF Here
  <2>3. QED
    BY <1>1, <2>1, <2>2 DEF Translated
<1>3. CASE Generates
  BY <1>1, <1>3, GeneratesTranslated, IdleRan DEF Faithful
<1>4. CASE Start
  <2>1. Translated'
    BY <1>2, <1>4 DEF Start
  <2>2. QED
    BY <1>1, <1>4, <2>1, IdleRan DEF Faithful
<1>5. CASE Asn \/ Parm \/ Srand
  <2>1. PICK op \in {"ASN", "PARM", "SRAND"} : Runs(op)
    BY <1>5 DEF Asn, Parm, Srand
  <2>2. done' = done
    BY <1>5 DEF Asn, Parm, Srand
  <2>3. op \notin {"OP", "CALL", "RAND"}
    OBVIOUS
  <2>4. Ran' /\ UNCHANGED genVars
    BY <1>1, <2>1, <2>2, <2>3, SkipRan, RunFacts
  <2>5. QED
    BY <1>2, <2>4 DEF Faithful
<1>6. CASE Op \/ Call \/ CallPrintln \/ Rand
  <2>1. PICK op \in {"OP", "CALL", "RAND"} : Runs(op)
    BY <1>6 DEF Op, Call, CallPrintln, Rand
  <2>2. UNCHANGED genVars
    BY <2>1, RunFacts
  <2>3. Ran'
    BY <1>1, <1>6, OpRan, CallRan, OthersRan
  <2>4. QED
    BY <1>2, <2>2, <2>3 DEF Faithful
<1>7. CASE UNCHANGED vars
  <2>1. UNCHANGED genVars /\ pc' = pc /\ done' = done /\ code' = code /\ stack' = stack /\ prog' = prog
    BY <1>7 DEF vars, genVars, runVars
  <2>2. Ran'
    BY <1>1, <2>1 DEF Ran
  <2>3. QED
    BY <1>2, <2>1, <2>2 DEF Faithful
<1>8. CASE Stop
  BY <1>7, <1>8 DEF Stop
<1>9. QED
  BY <1>3, <1>4, <1>5, <1>6, <1>7, <1>8 DEF Next, Generates

\* Text, code and run agree for every program of expressions.
LEMMA Faithfulness == Spec => []Faithful
<1>1. (IInv /\ Faithful) /\ [Next]_vars => (IInv /\ Faithful)'
  BY NextInv, FaithfulNext
<1>2. Init => IInv /\ Faithful
  BY InitInv, FaithfulInit
<1>3. QED
  BY <1>1, <1>2, PTL DEF Spec

-----------------------------------------------------------------------------
\* The theorems about the text

\* An entry of the trace is an event that was generated.
LEMMA DoneFacts ==
    ASSUME IInv, Ran
    PROVE  /\ \E w : Traces(w, done, code, pc)
           /\ \A w : Traces(w, done, code, pc) => \A n \in DOMAIN done : w[n] \in DOMAIN code
           /\ \A n \in DOMAIN done : done[n].at \in DOMAIN prog /\ done[n].args \in Seq(Value)
           /\ DOMAIN done = 1 .. Len(done) /\ Len(done) \in Nat
<1>1. code \in Seq(Instr) /\ pc \in 0 .. Len(code) + 1
      /\ done \in Seq([at : 1 .. MaxLen, args : Seq(Value)])
  BY DEF IInv, TypeOK
<1>2. 1 .. pc - 1 \subseteq DOMAIN code
  BY <1>1
<1>3. \A w : Traces(w, done, code, pc) => \A n \in DOMAIN done : w[n] \in DOMAIN code
  BY <1>2 DEF Traces
<1>4. PICK w : Traces(w, done, code, pc)
  BY DEF Ran
<1>5. \A n \in DOMAIN done : done[n].at \in DOMAIN prog
  BY <1>3, <1>4, TextTyped DEF Traces
<1>6. \A n \in DOMAIN done : done[n].args \in Seq(Value)
  <2>1. \A n \in DOMAIN done : done[n] \in [at : 1 .. MaxLen, args : Seq(Value)]
    <3> DEFINE S == [at : 1 .. MaxLen, args : Seq(Value)]
    <3>1. done \in Seq(S)
      BY <1>1
    <3> HIDE DEF S
    <3>2. \A n \in DOMAIN done : done[n] \in S
      BY <3>1
    <3>3. QED
      BY <3>2 DEF S
  <2>2. QED
    BY <2>1
<1>7. DOMAIN done = 1 .. Len(done) /\ Len(done) \in Nat
  BY <1>1
<1>8. QED
  BY <1>3, <1>4, <1>5, <1>6, <1>7

\* An operator of the text gets the values of its operands, wherever they have
\* one: no temporary is taken twice, or written between the operand's code and
\* the operator's, however deep the two are nested.
THEOREM EveryOperandArrives == Spec => []OperandsArrive
<1>1. ASSUME IInv, Faithful PROVE OperandsArrive
  <2> SUFFICES ASSUME NEW n \in DOMAIN done, prog[done[n].at] \in Numeric \cup Compared,
                      SoundOperands(done[n].at)
               PROVE  done[n].args = Expected(done[n].at)
    BY DEF OperandsArrive
  <2> DEFINE i == done[n].at
             values == done[n].args
  <2>1. i \in DOMAIN prog /\ values \in Seq(Value) /\ prog[i] \in Numeric \cup Compared
    BY <1>1, DoneFacts DEF Faithful
  <2>2. prog \in Seq(Kinds) /\ Len(prog) <= MaxLen /\ Len(prog) \in Nat /\ DOMAIN prog = 1 .. Len(prog)
    BY <1>1, TextTyped
  <2>3. Operands(prog[i]) = 2
    BY <2>1, TwoOperands
  <2>4. /\ Len(values) = 2
        /\ \A j \in 1 .. 2 : \E o \in DOMAIN prog :
              /\ Spans(prog, i + 1, j - 1, o)
              /\ prog[o] \notin {"identical"} \cup Logical \cup Silent \cup {"println"} => values[j] = o
    BY <1>1, <2>1 DEF Faithful, Ran, Fed
  <2>5. \A j \in 1 .. 2 : Sound(Operand(i, j))
    BY <2>3 DEF SoundOperands
  <2> HIDE DEF i, values
  <2>6. ASSUME NEW j \in 1 .. 2 PROVE values[j] = Operand(i, j)
    <3>1. PICK o \in DOMAIN prog :
              /\ Spans(prog, i + 1, j - 1, o)
              /\ prog[o] \notin {"identical"} \cup Logical \cup Silent \cup {"println"} => values[j] = o
      BY <2>4
    <3>2. i + 1 \in Nat \ {0} /\ j - 1 \in Nat /\ o \in Nat /\ o <= Len(prog) + 1
      BY <2>1, <2>2
    <3>3. Operand(i, j) = o
      BY <2>2, <3>1, <3>2, AfterSpans DEF Operand
    <3>4. QED
      BY <2>5, <3>1, <3>3 DEF Sound
  <2>7. values = Expected(i)
    <3>1. DOMAIN values = 1 .. 2 /\ values = [j \in 1 .. 2 |-> values[j]]
      BY <2>1, <2>4
    <3>2. Expected(i) = [j \in 1 .. 2 |-> Operand(i, j)]
      BY <2>3 DEF Expected
    <3>3. QED
      BY <2>6, <3>1, <3>2
  <2>8. QED
    BY <2>7 DEF i, values
<1>2. QED
  BY <1>1, Invariance, Faithfulness, PTL

\* When the code has run, the value of every statement that has one is in the
\* place that its code was given, and no later statement has taken that.
THEOREM StatementsKeepValues == Spec => []ValuesStay
<1>1. ASSUME IInv, Faithful PROVE ValuesStay
  <2> SUFFICES ASSUME Finished, NEW n \in DOMAIN roots, Sound(After[1][n - 1])
               PROVE  mem[roots[n]] = After[1][n - 1]
    BY DEF ValuesStay
  <2>1. /\ prog \in Seq(Kinds) /\ Len(prog) <= MaxLen /\ Len(prog) \in Nat
        /\ DOMAIN prog = 1 .. Len(prog) /\ roots \in Seq(Slots) /\ code \in Seq(Instr)
    BY <1>1, TextTyped
  <2>2. PICK o \in DOMAIN prog : Spans(prog, 1, n - 1, o) /\ Placed(prog, code, o, roots[n])
    BY <1>1 DEF Faithful, Translated, PlacesOK, Holds
  <2>3. n - 1 \in Nat /\ o \in Nat /\ o <= Len(prog) + 1
    BY <2>1
  <2>4. After[1][n - 1] = o
    BY <2>1, <2>2, <2>3, AfterSpans
  <2>5. \A k \in DOMAIN code : k < pc
    BY <2>1 DEF Finished
  <2>6. QED
    BY <1>1, <2>2, <2>4, <2>5, ValueInPlace DEF Sound
<1>2. QED
  BY <1>1, Invariance, Faithfulness, PTL

\* The trace of a run that has ended: every operation of the text is in it, and
\* those that end sooner come first.
LEMMA DoneInOrder ==
    ASSUME IInv, Faithful, Finished
    PROVE  /\ {done[n].at : n \in DOMAIN done} = Working
           /\ \A m, n \in DOMAIN done : m < n => Sooner(done[m].at, done[n].at)
<1>1. /\ prog \in Seq(Kinds) /\ Len(prog) <= MaxLen /\ Len(prog) \in Nat /\ DOMAIN prog = 1 .. Len(prog)
      /\ code \in Seq(Instr)
  BY TextTyped
<1>2. pc = Len(code) + 1 /\ Len(code) \in Nat /\ DOMAIN code = 1 .. Len(code) /\ 1 .. pc - 1 = DOMAIN code
  BY <1>1 DEF Finished
<1>3. stack = <<>> /\ WorkOK({}, code, prog, Here)
  <2>1. stack = <<>>
    BY <1>2 DEF Faithful, Ran
  <2>2. Under(stack) = {}
    BY <2>1 DEF Under
  <2>3. QED
    BY <2>1, <2>2 DEF Faithful, Translated
<1>4. PICK w : Traces(w, done, code, pc)
  BY DEF Faithful, Ran
<1>5. \A n \in DOMAIN done : /\ w[n] \in DOMAIN code /\ Doing(code[w[n]])
                            /\ code[w[n]].at = done[n].at /\ done[n].at \in DOMAIN prog
  BY <1>4, DoneFacts DEF Faithful, Traces
<1>6. \A o \in DOMAIN prog : o \in Working <=> Works(prog[o])
  BY DEF Working, Works, Events
<1>7. ASSUME NEW n \in DOMAIN done PROVE done[n].at \in Working
  <2> DEFINE x == code[w[n]]
  <2>1. Asked(prog, code, x) /\ Doing(x) /\ x.at = done[n].at /\ x.at \in DOMAIN prog
    BY <1>5 DEF Faithful, Translated, OpsOK
  <2> HIDE DEF x
  <2>2. \/ prog[x.at] = "random" \/ Called(prog[x.at])
        \/ prog[x.at] \in Numeric \cup (Compared \ {"identical"})
    BY <2>1 DEF Asked, Doing
  <2>3. Functions \cap (Leaves \cup Compared \cup Logical) = {}
    BY ExprAssumption DEF ExprAssumption
  <2>4. Works(prog[x.at])
    BY <2>2, <2>3 DEF Works, Called, Leaves, Numeric, Compared, Logical
  <2>5. QED
    BY <1>6, <2>1, <2>4
<1>8. ASSUME NEW o \in Working PROVE \E n \in DOMAIN done : done[n].at = o
  <2>1. o \in DOMAIN prog /\ Works(prog[o])
    BY <1>6 DEF Working, Events
  <2>2. PICK k \in DOMAIN code : Doing(code[k]) /\ code[k].at = o
    BY <1>3, <2>1 DEF WorkOK
  <2>3. PICK n \in DOMAIN done : w[n] = k
    BY <1>2, <1>4, <2>2 DEF Traces
  <2>4. QED
    BY <1>5, <2>2, <2>3
<1>9. ASSUME NEW m \in DOMAIN done, NEW n \in DOMAIN done, m < n
      PROVE  Sooner(done[m].at, done[n].at)
  <2> DEFINE a == done[m].at
             b == done[n].at
  <2>1. a \in Nat \ {0} /\ b \in Nat \ {0}
    BY <1>1, <1>5
  <2>2. w[m] < w[n]
    BY <1>4, <1>9 DEF Traces
  <2>3. EndsSooner(prog, a, b)
    BY <1>3, <1>5, <2>2 DEF WorkOK
  <2> HIDE DEF a, b
  <2>4. PICK e, f \in 1 .. Len(prog) + 1 : /\ Spans(prog, a, 1, e) /\ Spans(prog, b, 1, f)
                                           /\ e < f \/ (e = f /\ b < a)
    BY <2>3 DEF EndsSooner
  <2>5. e \in Nat /\ f \in Nat /\ e <= Len(prog) + 1 /\ f <= Len(prog) + 1
    BY <1>1
  <2>6. Past(a) = e /\ Past(b) = f
    BY <1>1, <2>1, <2>4, <2>5, AfterSpans DEF Past
  <2>7. Sooner(a, b)
    BY <2>4, <2>6 DEF Sooner
  <2>8. QED
    BY <2>7 DEF a, b
<1>10. QED
  BY <1>7, <1>8, <1>9

\* Each operation and call of the text runs exactly once, operands first and
\* from left to right, whatever the nesting.
THEOREM WorkIsDoneInOrder == Spec => []EachRunsOnceInOrder
<1>1. ASSUME IInv, Faithful, Finished PROVE Len(done) = Cardinality(Working)
  <2> DEFINE g == [n \in 1 .. Len(done) |-> done[n].at]
  <2>1. DOMAIN done = 1 .. Len(done) /\ Len(done) \in Nat /\ \A n \in DOMAIN done : done[n].at \in Int
    BY <1>1, DoneFacts, TextTyped DEF Faithful
  <2>2. \A m, n \in DOMAIN done : m < n => done[m].at # done[n].at
    <3> SUFFICES ASSUME NEW m \in DOMAIN done, NEW n \in DOMAIN done, m < n,
                        done[m].at = done[n].at
                 PROVE  FALSE
      OBVIOUS
    <3> DEFINE a == done[m].at
    <3>1. Sooner(a, a) /\ a \in DOMAIN prog
      BY <1>1, DoneInOrder, DoneFacts DEF Faithful
    <3>2. a \in Nat \ {0} /\ prog \in Seq(Kinds) /\ Len(prog) <= MaxLen
      BY <1>1, <3>1, TextTyped
    <3> HIDE DEF a
    <3>3. Past(a) \in Int
      <4>1. PICK k \in DOMAIN code : Doing(code[k]) /\ code[k].at = a
        BY <1>1, DoneFacts DEF Faithful, Ran, Traces, a
      <4>2. PICK e \in Nat : Closed(Under(stack), prog, a, e, Here)
        BY <1>1, <4>1 DEF Faithful, Translated, WorkOK
      <4>3. e <= Len(prog) + 1 /\ Spans(prog, a, 1, e)
        BY <4>2 DEF Closed, Here
      <4>4. QED
        BY <3>2, <4>3, AfterSpans DEF Past
    <3>4. QED
      BY <3>1, <3>2, <3>3 DEF Sooner
  <2>3. \A m, n \in 1 .. Len(done) : g[m] = g[n] => m = n
    BY <2>1, <2>2
  <2>4. {done[n].at : n \in DOMAIN done} = Working
    BY <1>1, DoneInOrder
  <2>5. g \in [1 .. Len(done) -> Working] /\ DOMAIN g = 1 .. Len(done)
    BY <2>1, <2>4
  <2>6. \A o \in Working : \E n \in 1 .. Len(done) : g[n] = o
    BY <2>1, <2>4
  <2> HIDE DEF g
  <2>7. g \in Bijection(1 .. Len(done), Working)
    BY <2>3, <2>5, <2>6 DEF Bijection, Injection, Surjection, IsInjective
  <2>8. ExistsBijection(1 .. Len(done), Working)
    BY <2>7 DEF ExistsBijection
  <2>9. QED
    BY <2>1, <2>8, FS_CountingElements
<1>2. ASSUME IInv, Faithful PROVE EachRunsOnceInOrder
  BY <1>1, <1>2, DoneInOrder DEF EachRunsOnceInOrder
<1>3. QED
  BY <1>2, Invariance, Faithfulness, PTL

-----------------------------------------------------------------------------
\* How deep the text is: where events and their operands end

\* The level of the text before event k: it rises with every operand that an event
\* wants, and falls by one with every event.
Level(lv, pr) ==
    /\ lv \in [1 .. Len(pr) + 1 -> Int]
    /\ \A k \in 1 .. Len(pr) : lv[k + 1] = lv[k] - 1 + Operands(pr[k])

\* Between i and e the level falls by n, and not sooner.
Falls(lv, i, n, e) ==
    i <= e /\ lv[e] = lv[i] - n /\ \A k \in i .. e - 1 : lv[i] - n < lv[k]

\* Every text has levels.
LEMMA LevelExists == ASSUME NEW pr \in Seq(Kinds) PROVE \E lv : Level(lv, pr)
<1> DEFINE Part(lv, m) == /\ lv \in [1 .. m + 1 -> Int]
                          /\ \A k \in 1 .. m : lv[k + 1] = lv[k] - 1 + Operands(pr[k])
           Known == {m \in 0 .. Len(pr) : \E lv : Part(lv, m)}
<1>0. Len(pr) \in Nat /\ \A k \in 1 .. Len(pr) : Operands(pr[k]) \in Nat
  <2>1. \A k \in 1 .. Len(pr) : pr[k] \in Kinds
    OBVIOUS
  <2>2. QED
    BY <2>1, OperandsTyped
<1>1. 0 \in Known
  <2> DEFINE lv == [k \in 1 .. 0 + 1 |-> 0]
  <2>1. Part(lv, 0)
    OBVIOUS
  <2> HIDE DEF lv
  <2>2. QED
    BY <1>0, <2>1
<1>2. ASSUME NEW m \in 0 .. Len(pr) - 1, m \in Known PROVE m + 1 \in Known
  <2>1. PICK lv : Part(lv, m)
    BY <1>2
  <2> DEFINE v == lv[m + 1] - 1 + Operands(pr[m + 1])
             next == [k \in 1 .. (m + 1) + 1 |-> IF k \in 1 .. m + 1 THEN lv[k] ELSE v]
  <2>2. m + 1 \in 1 .. Len(pr) /\ m + 1 \in 0 .. Len(pr)
    BY <1>0
  <2>3. v \in Int /\ \A k \in 1 .. m + 1 : lv[k] \in Int
    BY <1>0, <2>1, <2>2
  <2> HIDE DEF v
  <2>4. next \in [1 .. (m + 1) + 1 -> Int]
    BY <2>3
  <2>5. /\ \A k \in 1 .. m + 1 : next[k] = lv[k]
        /\ next[(m + 1) + 1] = v
    BY <2>2
  <2> HIDE DEF next
  <2>6. ASSUME NEW k \in 1 .. m + 1 PROVE next[k + 1] = next[k] - 1 + Operands(pr[k])
    <3>1. CASE k = m + 1
      BY <2>5, <3>1 DEF v
    <3>2. CASE k # m + 1
      <4>1. k \in 1 .. m /\ k + 1 \in 1 .. m + 1
        BY <3>2
      <4>2. QED
        BY <2>1, <2>5, <4>1
    <3>3. QED
      BY <3>1, <3>2
  <2>7. Part(next, m + 1)
    BY <2>4, <2>6
  <2> HIDE DEF Part
  <2>8. QED
    BY <2>2, <2>7
<1>3. Len(pr) \in Known
  <2> HIDE DEF Known
  <2>1. \A m \in 0 .. Len(pr) : m \in Known
    BY <1>0, <1>1, <1>2, InductionUpTo
  <2>2. QED
    BY <1>0, <2>1
<1>4. QED
  BY <1>3 DEF Level

\* Levels are numbers, and fall by one at most.
LEMMA LevelTyped ==
    ASSUME NEW pr \in Seq(Kinds), NEW lv, Level(lv, pr)
    PROVE  /\ Len(pr) \in Nat /\ DOMAIN pr = 1 .. Len(pr)
           /\ \A k \in 1 .. Len(pr) + 1 : lv[k] \in Int
           /\ \A k \in 1 .. Len(pr) : /\ Operands(pr[k]) \in Nat
                                      /\ lv[k + 1] = lv[k] - 1 + Operands(pr[k])
<1>1. \A k \in 1 .. Len(pr) : pr[k] \in Kinds
  OBVIOUS
<1>2. QED
  BY <1>1, OperandsTyped DEF Level

\* What has been counted of the text is what its levels say.
LEMMA SpansFalls ==
    ASSUME NEW pr \in Seq(Kinds), NEW lv, Level(lv, pr), NEW i \in Nat \ {0}, NEW n \in Nat,
           NEW e \in Nat, e <= Len(pr) + 1
    PROVE  Spans(pr, i, n, e) <=> Falls(lv, i, n, e)
<1>1. /\ Len(pr) \in Nat
      /\ \A k \in 1 .. Len(pr) + 1 : lv[k] \in Int
      /\ \A k \in 1 .. Len(pr) : Operands(pr[k]) \in Nat /\ lv[k + 1] = lv[k] - 1 + Operands(pr[k])
  BY LevelTyped
<1>2. \A k \in i .. e - 1 : k \in 1 .. Len(pr) /\ k \in 1 .. Len(pr) + 1 /\ k + 1 \in 1 .. Len(pr) + 1
  BY <1>1
<1>3. ASSUME Spans(pr, i, n, e) PROVE Falls(lv, i, n, e)
  <2>1. PICK left : Counts(left, pr, i, n, e)
    BY <1>3 DEF Spans
  <2>2. i <= e /\ \A k \in i .. e : left[k] \in Nat
    BY <1>3, <2>1 DEF Spans, Counts
  <2> DEFINE Same == {d \in 0 .. e - i : lv[i + d] - lv[i] = left[i + d] - n}
  <2>3. 0 \in Same
    <3>1. left[i + 0] = n /\ lv[i + 0] = lv[i] /\ lv[i] \in Int /\ 0 \in 0 .. e - i
      BY <1>1, <2>1, <2>2 DEF Counts
    <3>2. QED
      BY <3>1
  <2>4. ASSUME NEW d \in 0 .. (e - i) - 1, d \in Same PROVE d + 1 \in Same
    <3>1. i + d \in i .. e - 1 /\ i + (d + 1) = (i + d) + 1 /\ d + 1 \in 0 .. e - i
          /\ i + d \in i .. e /\ (i + d) + 1 \in i .. e
      BY <2>2
    <3>2. left[i + (d + 1)] = left[i + d] - 1 + Operands(pr[i + d])
      BY <2>1, <3>1 DEF Counts
    <3>3. lv[i + (d + 1)] = lv[i + d] - 1 + Operands(pr[i + d]) /\ Operands(pr[i + d]) \in Nat
      BY <1>1, <1>2, <3>1
    <3>4. lv[i + d] \in Int /\ lv[i] \in Int /\ left[i + d] \in Nat
      BY <1>1, <1>2, <2>2, <3>1
    <3>5. lv[i + d] - lv[i] = left[i + d] - n
      BY <2>4
    <3> DEFINE a == lv[i]
               b == lv[i + d]
               l == left[i + d]
               m == Operands(pr[i + d])
    <3>6. a \in Int /\ b \in Int /\ l \in Nat /\ m \in Nat /\ b - a = l - n
      BY <3>3, <3>4, <3>5
    <3>7. left[i + (d + 1)] = l - 1 + m /\ lv[i + (d + 1)] = b - 1 + m
      BY <3>2, <3>3
    <3> HIDE DEF a, b, l, m
    <3>8. (b - 1 + m) - a = (l - 1 + m) - n
      BY <3>6
    <3>9. lv[i + (d + 1)] - a = left[i + (d + 1)] - n
      BY <3>7, <3>8
    <3>10. QED
      BY <3>1, <3>9 DEF a
  <2>5. \A d \in 0 .. e - i : lv[i + d] - lv[i] = left[i + d] - n
    <3>1. e - i \in Nat
      BY <2>2
    <3> HIDE DEF Same
    <3>2. \A d \in 0 .. e - i : d \in Same
      BY <2>3, <2>4, <3>1, InductionUpTo
    <3>3. QED
      BY <3>2 DEF Same
  <2>6. \A k \in i .. e : lv[k] - lv[i] = left[k] - n /\ lv[k] \in Int /\ lv[i] \in Int
    <3> SUFFICES ASSUME NEW k \in i .. e
                 PROVE  lv[k] - lv[i] = left[k] - n /\ lv[k] \in Int /\ lv[i] \in Int
      OBVIOUS
    <3>1. k - i \in 0 .. e - i /\ i + (k - i) = k /\ k \in 1 .. Len(pr) + 1 /\ i \in 1 .. Len(pr) + 1
      BY <1>1, <2>2
    <3>2. QED
      BY <1>1, <2>5, <3>1
  <2>7. lv[e] = lv[i] - n
    <3>1. e \in i .. e /\ left[e] = 0
      BY <2>1, <2>2 DEF Counts
    <3>2. QED
      BY <2>6, <3>1
  <2>8. \A k \in i .. e - 1 : lv[i] - n < lv[k]
    <3> SUFFICES ASSUME NEW k \in i .. e - 1 PROVE lv[i] - n < lv[k]
      OBVIOUS
    <3>1. k \in i .. e /\ left[k] # 0
      BY <2>1 DEF Counts
    <3>2. left[k] \in Nat /\ lv[k] - lv[i] = left[k] - n /\ lv[k] \in Int /\ lv[i] \in Int
      BY <2>2, <2>6, <3>1
    <3> DEFINE a == lv[k]
               b == lv[i]
               c == left[k]
    <3>3. c \in Nat /\ c # 0 /\ a - b = c - n /\ a \in Int /\ b \in Int
      BY <3>1, <3>2
    <3> HIDE DEF a, b, c
    <3>4. b - n < a
      BY <3>3
    <3>5. QED
      BY <3>4 DEF a, b
  <2>9. QED
    BY <2>2, <2>7, <2>8 DEF Falls
<1>4. ASSUME Falls(lv, i, n, e) PROVE Spans(pr, i, n, e)
  <2> DEFINE left == [k \in i .. e |-> lv[k] - (lv[i] - n)]
  <2>1. i <= e /\ lv[e] = lv[i] - n /\ \A k \in i .. e - 1 : lv[i] - n < lv[k]
    BY <1>4 DEF Falls
  <2>2. /\ lv[i] \in Int /\ e \in i .. e /\ i \in i .. e
        /\ \A k \in i .. e : lv[k] \in Int /\ (k = e \/ k \in i .. e - 1)
    BY <1>1, <2>1
  <2>3. \A k \in i .. e : lv[k] - (lv[i] - n) \in Nat
    <3> SUFFICES ASSUME NEW k \in i .. e PROVE lv[k] - (lv[i] - n) \in Nat
      OBVIOUS
    <3> DEFINE a == lv[k]
               b == lv[i]
    <3>1. a \in Int /\ b \in Int /\ (a = b - n \/ b - n < a)
      BY <2>1, <2>2
    <3> HIDE DEF a, b
    <3>2. a - (b - n) \in Nat
      BY <3>1
    <3>3. QED
      BY <3>2 DEF a, b
  <2>4. left \in [i .. e -> Nat] /\ \A k \in i .. e : left[k] = lv[k] - (lv[i] - n)
    BY <2>3
  <2> HIDE DEF left
  <2>5. left[i] = n /\ left[e] = 0
    BY <2>1, <2>2, <2>4
  <2>6. ASSUME NEW k \in i .. e - 1 PROVE left[k] # 0 /\ left[k + 1] = left[k] - 1 + Operands(pr[k])
    <3>1. k \in i .. e /\ k + 1 \in i .. e
      OBVIOUS
    <3>2. lv[k + 1] = lv[k] - 1 + Operands(pr[k]) /\ Operands(pr[k]) \in Nat
      BY <1>1, <1>2
    <3>3. left[k] = lv[k] - (lv[i] - n) /\ left[k + 1] = lv[k + 1] - (lv[i] - n)
      BY <2>4, <3>1
    <3> DEFINE a == lv[k]
               b == lv[i]
               m == Operands(pr[k])
    <3>4. a \in Int /\ b \in Int /\ m \in Nat /\ b - n < a
      BY <2>1, <2>2, <3>1, <3>2
    <3>5. left[k] = a - (b - n) /\ left[k + 1] = (a - 1 + m) - (b - n)
      BY <3>2, <3>3
    <3> HIDE DEF a, b, m
    <3>6. a - (b - n) # 0 /\ (a - 1 + m) - (b - n) = (a - (b - n)) - 1 + m
      BY <3>4
    <3>7. left[k] # 0 /\ left[k + 1] = left[k] - 1 + m
      BY <3>5, <3>6
    <3>8. QED
      BY <3>7 DEF m
  <2>7. Counts(left, pr, i, n, e)
    BY <2>4, <2>5, <2>6 DEF Counts
  <2>8. QED
    BY <2>1, <2>7 DEF Spans
<1>5. QED
  BY <1>3, <1>4

\* An expression ends once.
LEMMA SpansEnd ==
    ASSUME NEW pr \in Seq(Kinds), NEW i \in Nat \ {0}, NEW n \in Nat,
           NEW e \in Nat, e <= Len(pr) + 1, NEW f \in Nat, f <= Len(pr) + 1,
           Spans(pr, i, n, e), Spans(pr, i, n, f)
    PROVE  e = f
<1>1. PICK lv : Level(lv, pr)
  BY LevelExists
<1>2. Falls(lv, i, n, e) /\ Falls(lv, i, n, f) /\ \A k \in 1 .. Len(pr) + 1 : lv[k] \in Int
  BY <1>1, SpansFalls, LevelTyped
<1>3. lv[i] \in Int /\ lv[i] - n \in Int /\ ~(lv[i] - n < lv[i] - n)
  BY <1>2 DEF Falls
<1>4. ~(e < f) /\ ~(f < e)
  BY <1>2, <1>3 DEF Falls
<1>5. QED
  BY <1>4

\* More expressions end later.
LEMMA SpansMore ==
    ASSUME NEW pr \in Seq(Kinds), NEW i \in Nat \ {0}, NEW n \in Nat, NEW m \in Nat, n < m,
           NEW e \in Nat, e <= Len(pr) + 1, NEW f \in Nat, f <= Len(pr) + 1,
           Spans(pr, i, n, e), Spans(pr, i, m, f)
    PROVE  e < f /\ Spans(pr, e, m - n, f)
<1>1. PICK lv : Level(lv, pr)
  BY LevelExists
<1>2. Falls(lv, i, n, e) /\ Falls(lv, i, m, f) /\ \A k \in 1 .. Len(pr) + 1 : lv[k] \in Int
  BY <1>1, SpansFalls, LevelTyped
<1>3. /\ i <= e /\ i <= f /\ Len(pr) \in Nat
      /\ lv[e] = lv[i] - n /\ lv[f] = lv[i] - m /\ \A k \in i .. f - 1 : lv[i] - m < lv[k]
      /\ \A k \in i .. e - 1 : lv[i] - n < lv[k]
  BY <1>2 DEF Falls
<1> DEFINE a == lv[i]
           b == lv[e]
           c == lv[f]
<1>4. a \in Int /\ b = a - n /\ c = a - m
  BY <1>2, <1>3
<1>5. f < e => a - n < c
  BY <1>3
<1>6. e # f
  <2>1. b # c
    <3> HIDE DEF a, b, c
    <3>1. QED
      BY <1>4
  <2>2. QED
    BY <2>1
<1>7. e < f
  <2> HIDE DEF a, b, c
  <2>1. ~(f < e)
    BY <1>4, <1>5
  <2>2. QED
    BY <1>6, <2>1
<1>8. Falls(lv, e, m - n, f)
  <2>1. b - (m - n) = a - m
    <3> HIDE DEF a, b, c
    <3>1. QED
      BY <1>4
  <2>2. \A k \in e .. f - 1 : a - m < lv[k]
    BY <1>3
  <2>3. c = b - (m - n) /\ \A k \in e .. f - 1 : b - (m - n) < lv[k]
    <3> HIDE DEF a, b, c
    <3>1. QED
      BY <1>4, <2>1, <2>2
  <2>4. QED
    BY <1>7, <2>3 DEF Falls
<1>9. e \in Nat \ {0} /\ m - n \in Nat
  BY <1>3
<1>10. QED
  BY <1>1, <1>7, <1>8, <1>9, SpansFalls

\* What is before an operand is not within another expression that has it as an operand.
LEMMA OneParent ==
    ASSUME NEW pr \in Seq(Kinds), NEW x \in Nat, x <= Len(pr) + 1,
           NEW i \in Nat \ {0}, NEW m \in Nat, Spans(pr, i, m, x),
           NEW b \in Nat, i <= b, NEW n \in Nat, n < Operands(pr[b]), Spans(pr, b + 1, n, x)
    PROVE  FALSE
<1>1. PICK lv : Level(lv, pr)
  BY LevelExists
<1>2. /\ Len(pr) \in Nat /\ \A k \in 1 .. Len(pr) + 1 : lv[k] \in Int
      /\ \A k \in 1 .. Len(pr) : Operands(pr[k]) \in Nat /\ lv[k + 1] = lv[k] - 1 + Operands(pr[k])
  BY <1>1, LevelTyped
<1>3. b + 1 \in Nat \ {0}
  OBVIOUS
<1>4. Falls(lv, i, m, x) /\ Falls(lv, b + 1, n, x)
  BY <1>1, <1>3, SpansFalls
<1>5. b \in i .. x - 1 /\ b \in 1 .. Len(pr) /\ b \in 1 .. Len(pr) + 1 /\ x \in 1 .. Len(pr) + 1
  BY <1>2, <1>4 DEF Falls
<1> DEFINE lb == lv[b]
           lx == lv[x]
           ob == Operands(pr[b])
<1>6. lb \in Int /\ lx \in Int /\ ob \in Nat
  BY <1>2, <1>5
<1>7. lx < lb
  BY <1>4, <1>5 DEF Falls
<1>8. lx = (lb - 1 + ob) - n
  BY <1>2, <1>4, <1>5 DEF Falls
<1>9. n < ob
  OBVIOUS
<1> HIDE DEF lb, lx, ob
<1>10. QED
  BY <1>6, <1>7, <1>8, <1>9

\* Every operand of an expression is somewhere in it.
LEMMA OperandsWithin ==
    ASSUME NEW pr \in Seq(Kinds), NEW o \in DOMAIN pr, NEW e \in Nat, e <= Len(pr) + 1,
           Spans(pr, o, 1, e), NEW j \in 0 .. Operands(pr[o])
    PROVE  \E x \in o + 1 .. e : Spans(pr, o + 1, j, x) /\ (x = e => j = Operands(pr[o]))
<1>1. PICK lv : Level(lv, pr)
  BY LevelExists
<1>2. /\ Len(pr) \in Nat /\ DOMAIN pr = 1 .. Len(pr) /\ \A k \in 1 .. Len(pr) + 1 : lv[k] \in Int
      /\ \A k \in 1 .. Len(pr) : Operands(pr[k]) \in Nat /\ lv[k + 1] = lv[k] - 1 + Operands(pr[k])
  BY <1>1, LevelTyped
<1>3. o \in Nat \ {0} /\ Falls(lv, o, 1, e)
  BY <1>1, <1>2, SpansFalls
<1> DEFINE a == lv[o]
           n == Operands(pr[o])
           goal == lv[o + 1] - j
<1>4. a \in Int /\ n \in Nat /\ lv[o + 1] = a - 1 + n /\ lv[e] = a - 1 /\ j \in Nat /\ j <= n /\ o <= e
  BY <1>2, <1>3 DEF Falls
<1>5. goal \in Int /\ lv[e] <= goal /\ o + 1 <= e /\ (goal = lv[e] => j = n)
  <2>1. goal = (a - 1 + n) - j
    BY <1>4
  <2>2. o # e
    <3>1. o = e => a = a - 1
      BY <1>4
    <3> HIDE DEF a
    <3>2. QED
      BY <1>4, <3>1
  <2> HIDE DEF a, n, goal
  <2>3. goal \in Int /\ lv[e] <= goal /\ (goal = lv[e] => j = n)
    BY <1>4, <2>1
  <2>4. QED
    BY <1>3, <1>4, <2>2, <2>3
<1> DEFINE Low == {k \in o + 1 .. e : lv[k] <= goal}
<1>6. PICK x \in Low : \A k \in Low : x <= k
  <2>1. Low \subseteq Nat /\ e \in Low
    BY <1>3, <1>5
  <2> HIDE DEF Low
  <2>2. QED
    BY <2>1, LeastNatural
<1>7. x \in o + 1 .. e /\ lv[x] <= goal
  OBVIOUS
<1>8. \A k \in o + 1 .. x - 1 : goal < lv[k]
  <2> SUFFICES ASSUME NEW k \in o + 1 .. x - 1 PROVE goal < lv[k]
    OBVIOUS
  <2>1. k \in o + 1 .. e /\ k \notin Low /\ k \in 1 .. Len(pr) + 1
    BY <1>2, <1>3, <1>6, <1>7
  <2>2. ~(lv[k] <= goal) /\ lv[k] \in Int
    BY <1>2, <2>1
  <2> HIDE DEF goal
  <2>3. QED
    BY <1>5, <2>2
<1>9. lv[x] = goal
  <2>1. CASE x = o + 1
    <3>1. goal = lv[x] - j /\ lv[x] \in Int
      BY <1>2, <2>1
    <3> HIDE DEF goal
    <3>2. QED
      BY <1>4, <1>5, <1>7, <3>1
  <2>2. CASE x # o + 1
    <3>1. x - 1 \in o + 1 .. x - 1 /\ x - 1 \in 1 .. Len(pr) /\ x \in 1 .. Len(pr) + 1
          /\ (x - 1) + 1 = x /\ x - 1 \in 1 .. Len(pr) + 1
      BY <1>2, <1>3, <1>7, <2>2
    <3>2. goal < lv[x - 1]
      BY <1>8, <3>1
    <3>3. lv[x] = lv[x - 1] - 1 + Operands(pr[x - 1]) /\ Operands(pr[x - 1]) \in Nat
      BY <1>2, <3>1
    <3>4. lv[x] \in Int /\ lv[x - 1] \in Int
      BY <1>2, <3>1
    <3> DEFINE u == lv[x]
               v == lv[x - 1]
               m == Operands(pr[x - 1])
    <3>5. u \in Int /\ v \in Int /\ m \in Nat /\ u = v - 1 + m /\ goal < v /\ u <= goal
      BY <1>7, <3>2, <3>3, <3>4
    <3> HIDE DEF u, v, m, goal
    <3>6. u = goal
      BY <1>5, <3>5
    <3>7. QED
      BY <3>6 DEF u
  <2>3. QED
    BY <2>1, <2>2
<1>10. Falls(lv, o + 1, j, x)
  BY <1>7, <1>8, <1>9 DEF Falls
<1>11. x = e => j = n
  BY <1>5, <1>9
<1>12. x \in Nat /\ o + 1 \in Nat \ {0} /\ x <= Len(pr) + 1
  BY <1>2, <1>3, <1>7
<1>13. Spans(pr, o + 1, j, x)
  BY <1>1, <1>4, <1>10, <1>12, SpansFalls
<1>14. QED
  BY <1>7, <1>11, <1>13

\* What ends after an operand of o and before o begins after the operand.
LEMMA BetweenEnds ==
    ASSUME NEW pr \in Seq(Kinds), NEW o \in DOMAIN pr, NEW k \in DOMAIN pr,
           NEW e \in 1 .. Len(pr) + 1, NEW f \in 1 .. Len(pr) + 1, Spans(pr, o, 1, e), Spans(pr, k, 1, f),
           NEW j \in Nat, NEW x \in 1 .. Len(pr) + 1, NEW y \in 1 .. Len(pr) + 1,
           Spans(pr, o + 1, j, x), Spans(pr, o + 1, j + 1, y),
           y < f \/ (y = f /\ k < x), f < e \/ (f = e /\ o < k)
    PROVE  y <= k /\ k < e
<1>1. PICK lv : Level(lv, pr)
  BY LevelExists
<1>2. /\ Len(pr) \in Nat /\ DOMAIN pr = 1 .. Len(pr) /\ \A i \in 1 .. Len(pr) + 1 : lv[i] \in Int
      /\ o \in Nat \ {0} /\ k \in Nat \ {0} /\ o + 1 \in Nat \ {0} /\ j + 1 \in Nat
      /\ e \in Nat /\ f \in Nat /\ x \in Nat /\ y \in Nat
      /\ e <= Len(pr) + 1 /\ f <= Len(pr) + 1 /\ x <= Len(pr) + 1 /\ y <= Len(pr) + 1
  BY <1>1, LevelTyped
<1>3. Falls(lv, o, 1, e) /\ Falls(lv, k, 1, f) /\ Falls(lv, o + 1, j, x) /\ Falls(lv, o + 1, j + 1, y)
  BY <1>1, <1>2, SpansFalls
<1> DEFINE lo == lv[o]
           lk == lv[k]
           le == lv[e]
           lf == lv[f]
           lx == lv[x]
           ly == lv[y]
           first == lv[o + 1]
<1>4. /\ lo \in Int /\ lk \in Int /\ le = lo - 1 /\ lf = lk - 1 /\ first \in Int
      /\ lx = first - j /\ ly = first - (j + 1)
      /\ o <= e /\ k <= f /\ o + 1 <= x /\ o + 1 <= y
  <2>1. o + 1 \in 1 .. Len(pr) + 1 /\ o \in 1 .. Len(pr) + 1 /\ k \in 1 .. Len(pr) + 1
    BY <1>2
  <2>2. QED
    BY <1>2, <1>3, <2>1 DEF Falls
<1>5. k # f
  <2>1. k = f => lk = lk - 1
    BY <1>4
  <2> HIDE DEF lk
  <2>2. QED
    BY <1>4, <2>1
<1>6. /\ (o + 1 <= k /\ k < y => first - (j + 1) < lk)
      /\ (o + 1 <= k /\ k < x => first - j < lk)
      /\ (k <= y /\ y < f => lk - 1 < ly)
      /\ (k <= o /\ o < f => lk - 1 < lo)
      /\ (o <= f /\ f < e => lo - 1 < lf)
  <2>1. /\ (o + 1 <= k /\ k < y => k \in o + 1 .. y - 1)
        /\ (o + 1 <= k /\ k < x => k \in o + 1 .. x - 1)
        /\ (k <= y /\ y < f => y \in k .. f - 1)
        /\ (k <= o /\ o < f => o \in k .. f - 1)
        /\ (o <= f /\ f < e => f \in o .. e - 1)
    BY <1>2
  <2>2. QED
    BY <1>3, <2>1 DEF Falls
<1> HIDE DEF lo, lk, le, lf, lx, ly, first
<1>7. k < e
  BY <1>2, <1>4, <1>5
<1>8. ASSUME k < y PROVE FALSE
  <2>1. CASE o < k
    <3>1. first - (j + 1) < lk
      BY <1>2, <1>6, <1>8, <2>1
    <3>2. ~(y < f)
      BY <1>2, <1>4, <1>6, <1>8, <3>1
    <3>3. y = f /\ k < x
      BY <3>2
    <3>4. ly = lf
      BY <3>3 DEF ly, lf
    <3>5. first - j < lk
      BY <1>2, <1>6, <2>1, <3>3
    <3>6. QED
      BY <1>2, <1>4, <3>4, <3>5
  <2>2. CASE o = k
    <3>1. e = f
      BY <1>2, <2>2, SpansEnd
    <3>2. QED
      BY <1>2, <2>2, <3>1
  <2>3. CASE k < o
    <3>1. o < f
      BY <1>2, <1>4
    <3>2. lk - 1 < lo
      BY <1>2, <1>6, <2>3, <3>1
    <3>3. ~(f < e)
      BY <1>2, <1>4, <1>6, <3>1, <3>2
    <3>4. QED
      BY <1>2, <2>3, <3>3
  <2>4. QED
    BY <1>2, <2>1, <2>2, <2>3
<1>9. QED
  BY <1>2, <1>7, <1>8

\* The operands of o, one after the other, fill it up to its end.
Filled(o, e) ==
    /\ Past(o) = e /\ o < e /\ Operands(prog[o]) \in Nat
    /\ \A j \in 1 .. Operands(prog[o]) + 1 :
          Operand(o, j) \in o + 1 .. e /\ Spans(prog, o + 1, j - 1, Operand(o, j))
    /\ Operand(o, Operands(prog[o]) + 1) = e
    /\ \A j \in 1 .. Operands(prog[o]) :
          /\ Operand(o, j) \in DOMAIN prog /\ Operand(o, j) < Operand(o, j + 1)
          /\ Spans(prog, Operand(o, j), 1, Operand(o, j + 1))
          /\ Past(Operand(o, j)) = Operand(o, j + 1)
    /\ \A j, m \in 1 .. Operands(prog[o]) + 1 : j < m => Operand(o, j) < Operand(o, m)

\* After finds the operands.
LEMMA OperandsFill ==
    ASSUME prog \in Seq(Kinds), Len(prog) <= MaxLen, NEW o \in DOMAIN prog,
           NEW e \in Nat, e <= Len(prog) + 1, Spans(prog, o, 1, e)
    PROVE  Filled(o, e)
<1> DEFINE n == Operands(prog[o])
<1>1. Len(prog) \in Nat /\ DOMAIN prog = 1 .. Len(prog) /\ n \in Nat /\ o \in Nat \ {0}
      /\ o + 1 \in Nat \ {0} /\ Begins(prog, prog)
  <2>1. prog[o] \in Kinds /\ Begins(prog, prog)
    BY DEF Begins
  <2>2. QED
    BY <2>1, OperandsTyped
<1>2. Past(o) = e /\ o < e
  <2>1. Past(o) = e
    BY <1>1, AfterSpans DEF Past
  <2>2. QED
    BY <1>1, <2>1, ClosedLonger
<1>3. ASSUME NEW j \in 1 .. n + 1
      PROVE  /\ Operand(o, j) \in o + 1 .. e /\ Spans(prog, o + 1, j - 1, Operand(o, j))
             /\ (Operand(o, j) = e => j = n + 1)
  <2>1. j - 1 \in 0 .. n /\ j - 1 \in Nat
    BY <1>1
  <2>2. PICK x \in o + 1 .. e : Spans(prog, o + 1, j - 1, x) /\ (x = e => j - 1 = n)
    BY <2>1, OperandsWithin
  <2>3. x \in Nat /\ x <= Len(prog) + 1
    BY <1>1, <2>2
  <2>4. Operand(o, j) = x
    BY <1>1, <2>1, <2>2, <2>3, AfterSpans DEF Operand
  <2>5. x = e => j = n + 1
    BY <1>1, <2>2
  <2>6. QED
    BY <2>2, <2>4, <2>5
<1> HIDE DEF n
<1>4. ASSUME NEW j \in 1 .. n + 1, NEW m \in 1 .. n + 1, j < m
      PROVE  /\ Operand(o, j) < Operand(o, m)
             /\ Spans(prog, Operand(o, j), (m - 1) - (j - 1), Operand(o, m))
  <2>1. /\ Operand(o, j) \in Nat /\ Operand(o, j) <= Len(prog) + 1
        /\ Operand(o, m) \in Nat /\ Operand(o, m) <= Len(prog) + 1
        /\ Spans(prog, o + 1, j - 1, Operand(o, j)) /\ Spans(prog, o + 1, m - 1, Operand(o, m))
    BY <1>1, <1>3
  <2>2. j - 1 \in Nat /\ m - 1 \in Nat /\ j - 1 < m - 1
    BY <1>1, <1>4
  <2>3. QED
    BY <1>1, <2>1, <2>2, SpansMore
<1>5. Operand(o, n + 1) = e
  <2>1. Spans(prog, o + 1, n, Operand(o, n + 1)) /\ Operand(o, n + 1) \in Nat
        /\ Operand(o, n + 1) <= Len(prog) + 1
    <3>1. n + 1 \in 1 .. n + 1 /\ (n + 1) - 1 = n
      BY <1>1
    <3>2. Operand(o, n + 1) \in o + 1 .. e /\ Spans(prog, o + 1, (n + 1) - 1, Operand(o, n + 1))
      BY <1>3, <3>1
    <3>3. QED
      BY <1>1, <3>1, <3>2
  <2>2. Spans(prog, o, 1, Operand(o, n + 1))
    BY <1>1, <2>1, SpansOne DEF n
  <2>3. QED
    BY <1>1, <2>1, <2>2, SpansEnd
<1>6. ASSUME NEW j \in 1 .. n
      PROVE  /\ Operand(o, j) \in DOMAIN prog /\ Operand(o, j) < Operand(o, j + 1)
             /\ Spans(prog, Operand(o, j), 1, Operand(o, j + 1))
             /\ Past(Operand(o, j)) = Operand(o, j + 1)
  <2>1. j \in 1 .. n + 1 /\ j + 1 \in 1 .. n + 1 /\ j < j + 1 /\ ((j + 1) - 1) - (j - 1) = 1
    BY <1>1
  <2>2. /\ Operand(o, j) < Operand(o, j + 1)
        /\ Spans(prog, Operand(o, j), ((j + 1) - 1) - (j - 1), Operand(o, j + 1))
    BY <1>4, <2>1
  <2>3. Operand(o, j) \in o + 1 .. e /\ Operand(o, j + 1) \in o + 1 .. e
    BY <1>3, <2>1
  <2>4. /\ Operand(o, j) \in DOMAIN prog /\ Operand(o, j) \in Nat \ {0}
        /\ Operand(o, j + 1) \in Nat /\ Operand(o, j + 1) <= Len(prog) + 1
    BY <1>1, <2>2, <2>3
  <2>5. Spans(prog, Operand(o, j), 1, Operand(o, j + 1))
    BY <2>1, <2>2
  <2>6. QED
    BY <2>2, <2>4, <2>5, AfterSpans DEF Past
<1>7. QED
  BY <1>1, <1>2, <1>3, <1>4, <1>5, <1>6 DEF Filled, n

\* Every event behind operand j of o, and within o, is in some operand.
LEMMA WithinOperand ==
    ASSUME NEW o, NEW e \in Nat, Filled(o, e), o \in Nat, NEW j \in 1 .. Operands(prog[o]) + 1,
           NEW k \in Nat, Operand(o, j) <= k, k < e
    PROVE  \E m \in j .. Operands(prog[o]) : Inside(k, Operand(o, m))
<1> DEFINE n == Operands(prog[o])
           Later == {m \in 1 .. n + 1 : k < Operand(o, m)}
<1>1. /\ n \in Nat /\ Operand(o, n + 1) = e
      /\ \A m \in 1 .. n + 1 : Operand(o, m) \in o + 1 .. e
      /\ \A m \in 1 .. n : Past(Operand(o, m)) = Operand(o, m + 1)
      /\ \A i, m \in 1 .. n + 1 : i < m => Operand(o, i) < Operand(o, m)
  BY DEF Filled
<1> HIDE DEF n
<1>2. PICK m \in Later : \A i \in Later : m <= i
  <2>1. Later \subseteq Nat /\ n + 1 \in Later
    BY <1>1
  <2> HIDE DEF Later
  <2>2. QED
    BY <2>1, LeastNatural
<1>3. m \in 1 .. n + 1 /\ k < Operand(o, m) /\ j \in 1 .. n + 1
  BY DEF n
<1>4. j < m
  <2> DEFINE a == Operand(o, j)
             b == Operand(o, m)
  <2>1. a \in Nat /\ b \in Nat /\ a <= k /\ k < b /\ (m < j => b < a) /\ (m = j => a = b)
    BY <1>1, <1>3
  <2> HIDE DEF a, b
  <2>2. QED
    BY <1>3, <2>1
<1>5. m - 1 \in j .. n /\ m - 1 \in 1 .. n + 1 /\ m - 1 \in 1 .. n /\ (m - 1) + 1 = m /\ ~(m <= m - 1)
  BY <1>1, <1>3, <1>4
<1>6. Operand(o, m - 1) <= k
  <2>1. m - 1 \notin Later /\ Operand(o, m - 1) \in Nat
    BY <1>1, <1>2, <1>5
  <2>2. ~(k < Operand(o, m - 1))
    BY <1>5, <2>1
  <2>3. QED
    BY <2>1, <2>2
<1>7. Past(Operand(o, m - 1)) = Operand(o, m)
  BY <1>1, <1>5
<1>8. Inside(k, Operand(o, m - 1))
  BY <1>3, <1>6, <1>7 DEF Inside
<1>9. QED
  BY <1>5, <1>8 DEF n

\* Event x is an argument of the call o.
ArgumentOf(pr, o, x) ==
    Called(pr[o]) /\ \E j \in 1 .. Operands(pr[o]) : Spans(pr, o + 1, j - 1, x)

\* Instruction y, made when event x was finished, is x's own or passes it as an argument.
Fits(pr, c, y, x) ==
    IF y.op = "PARM"
    THEN /\ ArgumentOf(pr, y.at, x) /\ Placed(pr, c, x, y.src[1])
         /\ y.src[1] <= MaxLen => \E e \in 1 .. Len(pr) + 1 : Spans(pr, x, 1, e) /\ y.src[1] < e
    ELSE y.at = x

\* Instruction k was made when event by[k] was finished, in the order of the ends, the
\* parameter last; every argument that is finished is passed.
Stamped(by, under, pr, c) ==
    /\ by \in [DOMAIN c -> DOMAIN pr]
    /\ \A k \in DOMAIN c : /\ \E e \in Nat : Closed(under, pr, by[k], e, Len(pr) + 1)
                           /\ Fits(pr, c, c[k], by[k])
    /\ \A k, m \in DOMAIN c : k < m => \/ EndsSooner(pr, by[k], by[m])
                                       \/ by[k] = by[m] /\ c[k].op # "PARM"
    /\ \A o, x \in DOMAIN pr : ArgumentOf(pr, o, x) =>
          \/ x \in under
          \/ \E k \in DOMAIN c : c[k].op = "PARM" /\ c[k].at = o /\ by[k] = x

\* The expressions rest can take one operand more.
Taking(rest, q) ==
    \A n \in DOMAIN rest : /\ Len(rest[n].places) < Operands(q[rest[n].at])
                           /\ \A j \in DOMAIN rest[n].places :
                                 rest[n].places[j] <= MaxLen => rest[n].places[j] <= Len(q)

\* So can those under way, but for the innermost, which may have all.
Wanting(st, pr) ==
    \A n \in DOMAIN st : /\ Len(st[n].places) <= Operands(pr[st[n].at])
                         /\ n # Len(st) => Len(st[n].places) < Operands(pr[st[n].at])
                         /\ \A j \in DOMAIN st[n].places :
                               st[n].places[j] <= MaxLen => st[n].places[j] <= Len(pr)

\* There is a stamp for the code: each instruction is of an event, in the order of the ends.
Arranged == Wanting(stack, prog) /\ \E by : Stamped(by, Under(stack), prog, code)

\* The value of the expression finished is an argument of the innermost around it.
Asks(rest, q) == rest # <<>> /\ Called(q[rest[Len(rest)].at])

\* The code is, and its parameter if there is one, are what d has after c.
Parms(rest, p, q, c, d, is) ==
    LET n == Len(c) + Len(is) + 1
        parm == Do("PARM", rest[Len(rest)].at, 0, <<p>>)
    IN  /\ Len(is) \in Nat /\ DOMAIN is = 1 .. Len(is)
        /\ \A k \in DOMAIN d : \/ k \in DOMAIN c
                               \/ \E x \in DOMAIN is : k = Len(c) + x
                               \/ k = n /\ d[k] = parm /\ Asks(rest, q)
        /\ Asks(rest, q) => n \in DOMAIN d /\ d[n] = parm

\* Yield writes that parameter, behind the code.
LEMMA YieldPasses ==
    ASSUME MaxLen \in Nat, code \in Seq(Instr), NEW rest \in Seq(Frame), NEW p \in Slots,
           NEW is \in Seq(Instr), Yield(rest, p, is)
    PROVE  Parms(rest, p, prog', code, code', is)
<1> DEFINE old == code \o is
           around == rest[Len(rest)]
           parm == Do("PARM", around.at, 0, <<p>>)
           n == Len(code) + Len(is) + 1
<1>1. /\ old \in Seq(Instr) /\ Len(old) = Len(code) + Len(is) /\ Len(code) \in Nat /\ Len(is) \in Nat
      /\ DOMAIN code = 1 .. Len(code) /\ DOMAIN is = 1 .. Len(is)
      /\ DOMAIN old = 1 .. Len(code) + Len(is)
  OBVIOUS
<1> HIDE DEF old
<1>2. ASSUME NEW k \in DOMAIN old PROVE k \in DOMAIN code \/ \E x \in DOMAIN is : k = Len(code) + x
  <2>1. k \in DOMAIN code \/ (k - Len(code) \in DOMAIN is /\ k = Len(code) + (k - Len(code)))
    BY <1>1
  <2>2. QED
    BY <2>1
<1>3. CASE ~Asks(rest, prog')
  <2>1. code' = old
    <3>1. CASE rest = <<>>
      BY <3>1 DEF Yield, concat, old
    <3>2. CASE rest # <<>>
      <4>1. code' = old \o <<>>
        BY <1>3, <3>2 DEF Yield, concat, old, Asks
      <4>2. QED
        BY <1>1, <4>1
    <3>3. QED
      BY <3>1, <3>2
  <2>2. QED
    BY <1>1, <1>2, <1>3, <2>1 DEF Parms
<1>4. CASE Asks(rest, prog')
  <2>1. rest # <<>>
    BY <1>4 DEF Asks
  <2>2. code' = old \o <<parm>>
    BY <1>4, <2>1 DEF Yield, concat, old, Asks
  <2>3. parm \in Instr
    <3>1. around \in Frame /\ <<p>> \in Seq(Slots) /\ 0 \in Slots
      BY <2>1 DEF Slots
    <3>2. around.at \in 0 .. MaxLen
      BY <3>1 DEF Frame
    <3>3. QED
      BY <3>1, <3>2 DEF Instr, Do
  <2> HIDE DEF parm
  <2>4. code' = Append(old, parm)
    BY <1>1, <2>2, <2>3
  <2>5. OneMore(old, parm, code')
    BY <1>1, <2>3, <2>4, LongerByOne
  <2>6. DOMAIN code' = 1 .. n /\ code'[n] = parm /\ n \in DOMAIN code'
    BY <1>1, <2>5 DEF OneMore
  <2>7. \A k \in DOMAIN code' : k \in DOMAIN old \/ k = n
    <3>1. n \in Nat /\ n - 1 = Len(code) + Len(is)
      BY <1>1
    <3> HIDE DEF n
    <3>2. \A k \in 1 .. n : k \in 1 .. n - 1 \/ k = n
      BY <3>1
    <3>3. QED
      BY <1>1, <2>6, <3>1, <3>2
  <2>8. \A k \in DOMAIN code' : \/ k \in DOMAIN code
                                \/ \E x \in DOMAIN is : k = Len(code) + x
                                \/ k = n /\ code'[k] = parm
    BY <1>2, <2>6, <2>7
  <2> HIDE DEF n
  <2>9. QED
    BY <1>1, <1>4, <2>6, <2>8 DEF Parms, parm, n
<1>5. QED
  BY <1>3, <1>4

\* Arguments are the same in a longer text.
LEMMA ArgumentLonger ==
    ASSUME NEW pr \in Seq(Kinds), NEW q \in Seq(Kinds), Begins(pr, q),
           NEW o \in DOMAIN q, NEW x \in DOMAIN pr
    PROVE  /\ ArgumentOf(q, o, x) => o \in DOMAIN pr /\ ArgumentOf(pr, o, x)
           /\ o \in DOMAIN pr /\ ArgumentOf(pr, o, x) => ArgumentOf(q, o, x)
<1>1. DOMAIN pr = 1 .. Len(pr) /\ Len(pr) \in Nat /\ o \in Nat /\ x \in Nat /\ o + 1 \in Nat
  OBVIOUS
<1>2. \A k \in o + 1 .. x - 1 : q[k] = pr[k]
  <2>1. \A k \in o + 1 .. x - 1 : k \in DOMAIN pr
    BY <1>1
  <2>2. QED
    BY <2>1 DEF Begins
<1>3. \A n : Spans(q, o + 1, n, x) <=> Spans(pr, o + 1, n, x)
  <2>1. \A k \in o + 1 .. x - 1 : pr[k] = q[k]
    BY <1>2
  <2>2. QED
    BY <1>1, <1>2, <2>1, SpansLonger
<1>4. ASSUME ArgumentOf(q, o, x) PROVE o \in DOMAIN pr
  <2>1. o + 1 <= x
    BY <1>4 DEF ArgumentOf, Spans
  <2>2. QED
    BY <1>1, <2>1
<1>5. o \in DOMAIN pr => q[o] = pr[o]
  BY DEF Begins
<1>6. QED
  BY <1>3, <1>4, <1>5 DEF ArgumentOf

\* Values stay in their places.
LEMMA PlacedLonger ==
    ASSUME NEW pr, NEW q, Begins(pr, q), NEW c, NEW d, Begins(c, d),
           \A k \in DOMAIN c : c[k].at \in DOMAIN pr, NEW o \in DOMAIN pr, NEW p, Placed(pr, c, o, p)
    PROVE  Placed(q, d, o, p)
<1>1. \A k \in DOMAIN c : k \in DOMAIN d /\ d[k] = c[k] /\ q[c[k].at] = pr[c[k].at]
  BY DEF Begins
<1>2. q[o] = pr[o]
  BY DEF Begins
<1>3. QED
  BY <1>1, <1>2 DEF Placed, Makes

\* What fits goes on to.
LEMMA FitsLonger ==
    ASSUME NEW pr \in Seq(Kinds), NEW q \in Seq(Kinds), Begins(pr, q),
           NEW c, NEW d, Begins(c, d), \A k \in DOMAIN c : c[k].at \in DOMAIN pr,
           NEW y, y.at \in DOMAIN pr, NEW x \in DOMAIN pr, Fits(pr, c, y, x)
    PROVE  Fits(q, d, y, x)
<1>1. CASE y.op # "PARM"
  BY <1>1 DEF Fits
<1>2. CASE y.op = "PARM"
  <2>1. /\ ArgumentOf(pr, y.at, x) /\ Placed(pr, c, x, y.src[1])
        /\ y.src[1] <= MaxLen => \E e \in 1 .. Len(pr) + 1 : Spans(pr, x, 1, e) /\ y.src[1] < e
    BY <1>2 DEF Fits
  <2>2. ArgumentOf(q, y.at, x)
    <3>1. y.at \in DOMAIN q
      BY DEF Begins
    <3>2. QED
      BY <2>1, <3>1, ArgumentLonger
  <2>3. Placed(q, d, x, y.src[1])
    BY <2>1, PlacedLonger
  <2>4. ASSUME y.src[1] <= MaxLen PROVE \E e \in 1 .. Len(q) + 1 : Spans(q, x, 1, e) /\ y.src[1] < e
    <3>1. PICK e \in 1 .. Len(pr) + 1 : Spans(pr, x, 1, e) /\ y.src[1] < e
      BY <2>1, <2>4
    <3>2. e \in Nat /\ e <= Len(pr) + 1
      OBVIOUS
    <3>3. Spans(q, x, 1, e) /\ e \in 1 .. Len(q) + 1
      BY <3>1, <3>2, ClosedLonger
    <3>4. QED
      BY <3>1, <3>3
  <2>5. QED
    BY <1>2, <2>2, <2>3, <2>4 DEF Fits
<1>3. QED
  BY <1>1, <1>2

\* What ends sooner goes on to.
LEMMA SoonerLonger ==
    ASSUME NEW pr \in Seq(Kinds), NEW q \in Seq(Kinds), Begins(pr, q),
           NEW a \in DOMAIN pr, NEW b \in DOMAIN pr, EndsSooner(pr, a, b)
    PROVE  EndsSooner(q, a, b)
<1>1. PICK e, f \in 1 .. Len(pr) + 1 : /\ Spans(pr, a, 1, e) /\ Spans(pr, b, 1, f)
                                       /\ e < f \/ (e = f /\ b < a)
  BY DEF EndsSooner
<1>2. e \in Nat /\ f \in Nat /\ e <= Len(pr) + 1 /\ f <= Len(pr) + 1
  OBVIOUS
<1>3. Spans(q, a, 1, e) /\ e \in 1 .. Len(q) + 1 /\ Spans(q, b, 1, f) /\ f \in 1 .. Len(q) + 1
  BY <1>1, <1>2, ClosedLonger
<1>4. QED
  BY <1>1, <1>3 DEF EndsSooner

\* The instructions of an event carry its stamp.
LEMMA StampWritten ==
    ASSUME NEW pr \in Seq(Kinds), NEW q \in Seq(Kinds), Begins(pr, q),
           NEW c, NEW d, NEW is, Written(c, d, is), \A k \in DOMAIN c : c[k].at \in DOMAIN pr,
           NEW rest, NEW p, Parms(rest, p, q, c, d, is),
           NEW u, NEW v, NEW by, Stamped(by, u, pr, c),
           NEW o \in DOMAIN q, NEW e \in Nat, Ends(u, v, pr, q, o, e),
           \A x \in DOMAIN is : is[x].op # "PARM" /\ is[x].at = o,
           Placed(q, d, o, p), p <= MaxLen => p < e,
           Asks(rest, q) => ArgumentOf(q, rest[Len(rest)].at, o),
           \A a \in DOMAIN q : ArgumentOf(q, a, o) => Asks(rest, q) /\ a = rest[Len(rest)].at
    PROVE  \E stamp : Stamped(stamp, v, q, d)
<1> DEFINE stamp == [k \in DOMAIN d |-> IF k \in DOMAIN c THEN by[k] ELSE o]
           n == Len(c) + Len(is) + 1
           around == rest[Len(rest)]
           parm == Do("PARM", around.at, 0, <<p>>)
<1>1. /\ Spans(q, o, 1, e) /\ e = Len(q) + 1 /\ v \subseteq u /\ u \subseteq v \cup {o}
      /\ \A a \in v : a < o
      /\ DOMAIN q \subseteq DOMAIN pr \cup {o}
      /\ \A a \in DOMAIN pr, f \in Nat :
            Closed(u, pr, a, f, Len(pr) + 1) => f < e \/ (f = e /\ o < a)
  BY DEF Ends
<1>2. /\ DOMAIN c = 1 .. Len(c) /\ Len(c) \in Nat /\ DOMAIN d \subseteq Nat \ {0}
      /\ \A k \in DOMAIN c : k \in DOMAIN d /\ d[k] = c[k] /\ c[k].at \in DOMAIN pr
      /\ \A x \in DOMAIN is : x \in Nat \ {0} /\ Len(c) + x \in DOMAIN d /\ d[Len(c) + x] = is[x]
      /\ Begins(c, d)
  BY DEF Written, Begins
<1>3. /\ Len(is) \in Nat /\ DOMAIN is = 1 .. Len(is)
      /\ \A k \in DOMAIN d : \/ k \in DOMAIN c
                             \/ \E x \in DOMAIN is : k = Len(c) + x
                             \/ k = n /\ d[k] = parm /\ Asks(rest, q)
      /\ Asks(rest, q) => n \in DOMAIN d /\ d[n] = parm
  BY DEF Parms
<1>4. parm.op = "PARM" /\ parm.at = around.at /\ parm.src = <<p>> /\ <<p>>[1] = p
  BY DEF Do
<1>5. /\ by \in [DOMAIN c -> DOMAIN pr]
      /\ \A k \in DOMAIN c : /\ \E f \in Nat : Closed(u, pr, by[k], f, Len(pr) + 1)
                             /\ Fits(pr, c, c[k], by[k])
      /\ \A k, m \in DOMAIN c : k < m => \/ EndsSooner(pr, by[k], by[m])
                                         \/ by[k] = by[m] /\ c[k].op # "PARM"
      /\ \A a, x \in DOMAIN pr : ArgumentOf(pr, a, x) =>
            x \in u \/ \E k \in DOMAIN c : c[k].op = "PARM" /\ c[k].at = a /\ by[k] = x
  BY DEF Stamped
<1>6. /\ \A k \in DOMAIN c : stamp[k] = by[k] /\ by[k] \in DOMAIN pr /\ by[k] \in DOMAIN q
      /\ \A k \in DOMAIN d : k \notin DOMAIN c => stamp[k] = o
      /\ DOMAIN pr \subseteq DOMAIN q /\ \A a \in DOMAIN pr : q[a] = pr[a]
  BY <1>2, <1>5 DEF Begins
<1>7. stamp \in [DOMAIN d -> DOMAIN q]
  BY <1>5, <1>6
<1> HIDE DEF stamp, parm, around
<1>8. e \in 1 .. Len(q) + 1 /\ Len(q) \in Nat
  BY <1>1
<1>9. ASSUME NEW k \in DOMAIN d, k \notin DOMAIN c
      PROVE  \/ \E x \in DOMAIN is : k = Len(c) + x /\ d[k] = is[x] /\ d[k].op # "PARM" /\ d[k].at = o
             \/ k = n /\ d[k] = parm /\ Asks(rest, q)
  BY <1>2, <1>3, <1>9
<1>10. ASSUME NEW k \in DOMAIN c
       PROVE  /\ EndsSooner(q, by[k], o)
              /\ \E f \in Nat : Closed(v, q, by[k], f, Len(q) + 1)
  <2>1. PICK f \in Nat : Closed(u, pr, by[k], f, Len(pr) + 1)
    BY <1>5
  <2>2. f <= Len(pr) + 1 /\ Spans(pr, by[k], 1, f) /\ \A a \in u : a < by[k] \/ f <= a
    BY <2>1 DEF Closed
  <2>3. Spans(q, by[k], 1, f) /\ f \in 1 .. Len(q) + 1
    BY <1>6, <2>2, ClosedLonger
  <2>4. f < e \/ (f = e /\ o < by[k])
    BY <1>1, <1>6, <2>1
  <2>5. EndsSooner(q, by[k], o)
    BY <1>1, <1>8, <2>3, <2>4 DEF EndsSooner
  <2>6. f <= Len(q) + 1
    BY <1>8, <2>3
  <2>7. Closed(v, q, by[k], f, Len(q) + 1)
    BY <1>1, <2>2, <2>3, <2>6 DEF Closed
  <2>8. QED
    BY <2>5, <2>7
<1>11. Closed(v, q, o, e, Len(q) + 1)
  BY <1>1 DEF Closed
<1>12. ASSUME NEW k \in DOMAIN d
       PROVE  /\ \E f \in Nat : Closed(v, q, stamp[k], f, Len(q) + 1)
              /\ Fits(q, d, d[k], stamp[k])
  <2>1. CASE k \in DOMAIN c
    <3>1. Fits(pr, c, c[k], by[k]) /\ c[k].at \in DOMAIN pr /\ by[k] \in DOMAIN pr
      BY <1>2, <1>5, <1>6, <2>1
    <3>2. Fits(q, d, c[k], by[k])
      BY <1>2, <3>1, FitsLonger
    <3>3. QED
      BY <1>2, <1>6, <1>10, <2>1, <3>2
  <2>2. CASE k \notin DOMAIN c /\ d[k].op # "PARM" /\ d[k].at = o
    BY <1>6, <1>11, <2>2 DEF Fits
  <2>3. CASE k \notin DOMAIN c /\ d[k] = parm /\ Asks(rest, q)
    <3>1. ArgumentOf(q, parm.at, o) /\ Placed(q, d, o, parm.src[1])
      BY <1>4, <2>3 DEF around
    <3>2. parm.src[1] <= MaxLen => \E f \in 1 .. Len(q) + 1 : Spans(q, o, 1, f) /\ parm.src[1] < f
      BY <1>1, <1>4, <1>8
    <3>3. Fits(q, d, parm, o)
      BY <1>4, <3>1, <3>2 DEF Fits
    <3>4. QED
      BY <1>6, <1>11, <2>3, <3>3
  <2>4. QED
    BY <1>9, <2>1, <2>2, <2>3
<1>13. ASSUME NEW k \in DOMAIN d, NEW m \in DOMAIN d, k < m
       PROVE  EndsSooner(q, stamp[k], stamp[m]) \/ (stamp[k] = stamp[m] /\ d[k].op # "PARM")
  <2>1. CASE k \in DOMAIN c /\ m \in DOMAIN c
    <3>1. EndsSooner(pr, by[k], by[m]) \/ (by[k] = by[m] /\ c[k].op # "PARM")
      BY <1>5, <1>13, <2>1
    <3>2. EndsSooner(pr, by[k], by[m]) => EndsSooner(q, by[k], by[m])
      BY <1>6, <2>1, SoonerLonger
    <3>3. QED
      BY <1>2, <1>6, <2>1, <3>1, <3>2
  <2>2. CASE k \in DOMAIN c /\ m \notin DOMAIN c
    BY <1>6, <1>10, <2>2
  <2>3. CASE k \notin DOMAIN c
    <3>1. k \in Nat /\ m \in Nat /\ m \notin DOMAIN c
      <4>1. k \in Nat /\ m \in Nat /\ k > Len(c)
        BY <1>2, <2>3
      <4>2. QED
        BY <1>2, <1>13, <4>1
    <3>2. stamp[k] = o /\ stamp[m] = o
      BY <1>6, <2>3, <3>1
    <3>3. k # n
      <4>1. \A x \in DOMAIN is : Len(c) + x < n
        BY <1>2, <1>3
      <4>2. m <= n
        BY <1>2, <1>3, <3>1, <4>1
      <4>3. QED
        BY <1>13, <3>1, <4>2
    <3>4. d[k].op # "PARM"
      BY <1>9, <2>3, <3>3
    <3>5. QED
      BY <3>2, <3>4
  <2>4. QED
    BY <2>1, <2>2, <2>3
<1>14. ASSUME NEW a \in DOMAIN q, NEW x \in DOMAIN q, ArgumentOf(q, a, x)
       PROVE  x \in v \/ \E k \in DOMAIN d : d[k].op = "PARM" /\ d[k].at = a /\ stamp[k] = x
  <2>1. CASE x = o
    <3>1. Asks(rest, q) /\ a = around.at
      BY <1>14, <2>1 DEF around
    <3>2. n \in DOMAIN d /\ d[n] = parm
      BY <1>3, <3>1
    <3>3. n \notin DOMAIN c
      BY <1>2, <1>3
    <3>4. QED
      BY <1>4, <1>6, <2>1, <3>1, <3>2, <3>3
  <2>2. CASE x # o
    <3>1. x \in DOMAIN pr
      BY <1>1, <2>2
    <3>2. a \in DOMAIN pr /\ ArgumentOf(pr, a, x)
      BY <1>14, <3>1, ArgumentLonger
    <3>3. x \in u \/ \E k \in DOMAIN c : c[k].op = "PARM" /\ c[k].at = a /\ by[k] = x
      BY <1>5, <3>1, <3>2
    <3>4. QED
      BY <1>1, <1>2, <1>6, <2>2, <3>3
  <2>3. QED
    BY <2>1, <2>2
<1>15. Stamped(stamp, v, q, d)
  BY <1>7, <1>12, <1>13, <1>14 DEF Stamped
<1>16. QED
  BY <1>15

-----------------------------------------------------------------------------
\* Whose argument an expression under way is

\* The next operand is one of the innermost expression under way and of no other.
LEMMA ParentOfNext ==
    ASSUME MaxLen \in Nat, NEW q \in Seq(Kinds), NEW rest \in Seq(Frame), NEW rts \in Seq(Slots),
           NEW o \in DOMAIN q, Nested(rest, rts, q, o), Taking(rest, q)
    PROVE  /\ Asks(rest, q) => ArgumentOf(q, rest[Len(rest)].at, o)
           /\ \A a \in DOMAIN q : ArgumentOf(q, a, o) => Asks(rest, q) /\ a = rest[Len(rest)].at
<1> DEFINE m == Len(rest)
           r == rest[m].at
           n == Len(rest[m].places)
<1>1. /\ DOMAIN q = 1 .. Len(q) /\ Len(q) \in Nat /\ o \in Nat \ {0} /\ o <= Len(q) + 1
      /\ Len(rts) \in Nat
  OBVIOUS
<1>2. ASSUME rest # <<>>
      PROVE  r \in Nat \ {0} /\ n \in Nat /\ Spans(q, r + 1, n, o) /\ r < o /\ r \in DOMAIN q
             /\ n < Operands(q[r])
  <2>1. m \in DOMAIN rest /\ rest[m] \in Frame
    BY <1>2
  <2>2. r \in Nat \ {0} /\ n \in Nat
    BY <2>1 DEF Frame
  <2>3. Spans(q, r + 1, n, o) /\ r < o
    BY <2>1 DEF Nested
  <2>4. n < Operands(q[r])
    BY <2>1 DEF Taking
  <2>5. r \in DOMAIN q
    BY <1>1, <2>2, <2>3
  <2>6. QED
    BY <2>2, <2>3, <2>4, <2>5
<1>3. \A k \in DOMAIN q : Operands(q[k]) \in Nat
  <2>1. \A k \in DOMAIN q : q[k] \in Kinds
    OBVIOUS
  <2>2. QED
    BY <2>1, OperandsTyped
<1> HIDE DEF r, n
<1>4. ASSUME Asks(rest, q) PROVE ArgumentOf(q, r, o)
  <2>1. rest # <<>> /\ Called(q[r])
    BY <1>4 DEF Asks, r
  <2>2. n + 1 \in 1 .. Operands(q[r]) /\ (n + 1) - 1 = n
    BY <1>2, <1>3, <2>1
  <2>3. QED
    BY <1>2, <2>1, <2>2 DEF ArgumentOf
<1>5. ASSUME NEW a \in DOMAIN q, ArgumentOf(q, a, o) PROVE Asks(rest, q) /\ a = r
  <2>1. PICK j \in 1 .. Operands(q[a]) : Spans(q, a + 1, j - 1, o)
    BY <1>5 DEF ArgumentOf
  <2>2. /\ j - 1 \in Nat /\ j - 1 < Operands(q[a]) /\ a \in Nat \ {0} /\ a + 1 \in Nat \ {0}
        /\ 1 \in Nat \ {0} /\ 1 <= a
    BY <1>1, <1>3
  <2>3. rest # <<>>
    <3>1. SUFFICES ASSUME rest = <<>> PROVE FALSE
      OBVIOUS
    <3>2. Spans(q, 1, Len(rts), o)
      BY <3>1 DEF Nested
    <3>3. QED
      BY <1>1, <2>1, <2>2, <3>2, OneParent
  <2>4. a = r
    <3>1. CASE r < a
      <4>1. r + 1 \in Nat \ {0} /\ r + 1 <= a
        BY <1>2, <2>2, <2>3, <3>1
      <4>2. QED
        BY <1>1, <1>2, <2>1, <2>2, <2>3, <4>1, OneParent
    <3>2. CASE a < r
      <4>1. a + 1 <= r /\ r \in Nat
        BY <1>2, <2>2, <2>3, <3>2
      <4>2. QED
        BY <1>1, <1>2, <2>1, <2>2, <2>3, <4>1, OneParent
    <3>3. QED
      BY <1>2, <2>2, <2>3, <3>1, <3>2
  <2>5. QED
    BY <1>5, <2>3, <2>4 DEF Asks, ArgumentOf, r
<1>6. QED
  BY <1>4, <1>5 DEF r

\* The expressions around can take the operand.
LEMMA WantingYield ==
    ASSUME MaxLen \in Nat, NEW q \in Seq(Kinds), NEW rest \in Seq(Frame), NEW rts, NEW st, NEW rs,
           NEW p \in Slots, Passed(rest, rts, p, st, rs), Taking(rest, q),
           p <= MaxLen => p <= Len(q), \A n \in DOMAIN rest : rest[n].at \in DOMAIN q
    PROVE  Wanting(st, q)
<1>1. CASE rest = <<>>
  <2>1. st = <<>> /\ DOMAIN <<>> = {}
    BY <1>1 DEF Passed
  <2>2. QED
    BY <2>1 DEF Wanting
<1>2. CASE rest # <<>>
  <2>1. Added(rest, rts, p, st, rs)
    BY <1>2, PassedFacts
  <2> SUFFICES ASSUME NEW n \in DOMAIN st
               PROVE  /\ Len(st[n].places) <= Operands(q[st[n].at])
                      /\ n # Len(st) => Len(st[n].places) < Operands(q[st[n].at])
                      /\ \A j \in DOMAIN st[n].places :
                            st[n].places[j] <= MaxLen => st[n].places[j] <= Len(q)
    BY DEF Wanting
  <2>2. /\ n \in DOMAIN rest /\ st[n].at = rest[n].at /\ rest[n].places \in Seq(Slots)
        /\ Len(st) = Len(rest)
    BY <2>1 DEF Added
  <2> DEFINE ps == rest[n].places
             w == Operands(q[rest[n].at])
  <2>3. Len(ps) \in Nat /\ w \in Nat
    <3>1. q[rest[n].at] \in Kinds
      BY <2>2
    <3>2. QED
      BY <2>2, <3>1, OperandsTyped
  <2>4. Len(ps) < w /\ \A j \in DOMAIN ps : ps[j] <= MaxLen => ps[j] <= Len(q)
    BY <2>2 DEF Taking
  <2>5. ps \in Seq(Slots)
    BY <2>2
  <2>6. CASE n # Len(rest)
    <3>1. st[n].places = ps
      BY <2>1, <2>2, <2>6 DEF Added
    <3> HIDE DEF ps, w
    <3>2. Len(ps) <= w
      BY <2>3, <2>4
    <3>3. QED
      BY <2>2, <2>4, <3>1, <3>2 DEF w
  <2>7. CASE n = Len(rest)
    <3>1. st[n].places = Append(ps, p)
      BY <2>1, <2>7 DEF Added
    <3> HIDE DEF ps, w
    <3> DEFINE qs == Append(ps, p)
    <3>2. Len(qs) = Len(ps) + 1 /\ OneMore(ps, p, qs)
      BY <2>5, LongerByOne
    <3>3. Len(qs) <= w
      BY <2>3, <2>4, <3>2
    <3>4. \A j \in DOMAIN qs : j \in DOMAIN ps \/ j = Len(ps) + 1
      BY <3>2 DEF OneMore
    <3>5. \A j \in DOMAIN qs : qs[j] <= MaxLen => qs[j] <= Len(q)
      BY <2>4, <3>2, <3>4 DEF OneMore
    <3> HIDE DEF qs
    <3>6. QED
      BY <2>2, <2>7, <3>1, <3>3, <3>5 DEF w, qs
  <2>8. QED
    BY <2>6, <2>7
<1>3. QED
  BY <1>1, <1>2

\* The value of the operand passed on is in its place.
LEMMA PlacedYield ==
    ASSUME MaxLen \in Nat, NEW q \in Seq(Kinds), NEW rest \in Seq(Frame), NEW rts \in Seq(Slots),
           NEW p \in Slots, NEW st, NEW rs, Passed(rest, rts, p, st, rs),
           NEW o \in DOMAIN q, Nested(rest, rts, q, o), NEW d, PlacesOK(st, rs, d, q)
    PROVE  Placed(q, d, o, p)
<1>1. DOMAIN q = 1 .. Len(q) /\ Len(q) \in Nat /\ o \in Nat /\ o <= Len(q) + 1
  OBVIOUS
<1>2. ASSUME NEW i \in Nat \ {0}, NEW n \in Nat, Spans(q, i, n, o), Holds(q, d, i, n, p)
      PROVE  Placed(q, d, o, p)
  <2>1. PICK x \in DOMAIN q : Spans(q, i, n, x) /\ Placed(q, d, x, p)
    BY <1>2 DEF Holds
  <2>2. x \in Nat /\ x <= Len(q) + 1
    BY <1>1
  <2>3. x = o
    BY <1>1, <1>2, <2>1, <2>2, SpansEnd
  <2>4. QED
    BY <2>1, <2>3
<1>3. CASE rest = <<>>
  <2>1. Spans(q, 1, Len(rts), o) /\ rs = Append(rts, p)
    BY <1>3 DEF Nested, Passed
  <2>2. Len(rts) \in Nat /\ Len(rts) + 1 \in DOMAIN rs /\ rs[Len(rts) + 1] = p
    BY <2>1
  <2>3. Holds(q, d, 1, (Len(rts) + 1) - 1, p)
    BY <2>2 DEF PlacesOK
  <2>4. (Len(rts) + 1) - 1 = Len(rts)
    BY <2>2
  <2>5. QED
    BY <1>2, <2>1, <2>2, <2>3, <2>4
<1>4. CASE rest # <<>>
  <2> DEFINE m == Len(rest)
             ps == rest[m].places
             i == rest[m].at + 1
  <2>1. Added(rest, rts, p, st, rs)
    BY <1>4, PassedFacts
  <2>2. /\ m \in DOMAIN rest /\ m \in DOMAIN st /\ st[m].at = rest[m].at /\ rest[m].at \in 1 .. MaxLen
        /\ ps \in Seq(Slots) /\ st[m].places = Append(ps, p)
    BY <2>1 DEF Added
  <2>3. /\ Len(ps) \in Nat /\ Len(ps) + 1 \in DOMAIN Append(ps, p)
        /\ Append(ps, p)[Len(ps) + 1] = p /\ (Len(ps) + 1) - 1 = Len(ps)
    BY <2>2
  <2>4. Spans(q, i, Len(ps), o)
    BY <2>2 DEF Nested
  <2>5. i \in Nat \ {0}
    BY <2>2
  <2> HIDE DEF m, ps
  <2>6. Holds(q, d, st[m].at + 1, (Len(ps) + 1) - 1, st[m].places[Len(ps) + 1])
    BY <2>2, <2>3 DEF PlacesOK
  <2>7. Holds(q, d, i, Len(ps), p)
    BY <2>2, <2>3, <2>6
  <2>8. QED
    BY <1>2, <2>3, <2>4, <2>5, <2>7
<1>5. QED
  BY <1>3, <1>4

\* The code is keeps to event o, and its value is where it has been read.
Keeps(is, p, o, q) ==
    /\ \A x \in DOMAIN is : is[x].op # "PARM" /\ is[x].at = o
    /\ p <= MaxLen => p <= Len(q)

\* When an expression yields its value, the parameters stay in order.
LEMMA ArrangedYield ==
    ASSUME IInv, Translated, Translated', Arranged, prog' \in Seq(Kinds), NEW rest, NEW o,
           Ready(rest, o, prog'), Taking(rest, prog'), NEW p \in Slots, NEW is \in Seq(Instr),
           Yield(rest, p, is), Keeps(is, p, o, prog')
    PROVE  Arranged'
<1> DEFINE q == prog'
           d == code'
           st == stack'
           rs == roots'
           e == Len(q) + 1
           u == Under(stack)
           v == Under(rest)
<1>1. /\ MaxLen \in Nat /\ prog \in Seq(Kinds) /\ Here = Len(prog) + 1
      /\ roots \in Seq(Slots) /\ code \in Seq(Instr)
      /\ \A k \in DOMAIN code : code[k].at \in DOMAIN prog
      /\ \A n \in DOMAIN stack : stack[n].at \in DOMAIN prog
  BY TextTyped
<1>2. /\ rest \in Seq(Frame) /\ o \in DOMAIN q /\ q \in Seq(Kinds) /\ Begins(prog, q)
      /\ Nested(rest, roots, q, o) /\ Spans(q, o, 1, e)
      /\ v \subseteq u /\ u \subseteq v \cup {o} /\ DOMAIN q \subseteq DOMAIN prog \cup {o}
      /\ \A a \in DOMAIN prog, f \in Nat :
            Closed(u, prog, a, f, Len(prog) + 1) => f < e \/ (f = e /\ o < a)
  BY <1>1 DEF Ready
<1>3. Written(code, d, is) /\ Passed(rest, roots, p, st, rs) /\ Parms(rest, p, q, code, d, is)
  BY <1>1, <1>2, YieldWrites, YieldPasses
<1>4. e \in Nat /\ e = Len(q) + 1
  BY <1>2
<1>5. PlacesOK(st, rs, d, q)
  BY DEF Translated
<1>6. /\ \A x \in DOMAIN is : is[x].op # "PARM" /\ is[x].at = o
      /\ p <= MaxLen => p <= Len(q)
  BY DEF Keeps
<1>7. PICK by : Stamped(by, u, prog, code)
  BY DEF Arranged
<1>8. Taking(rest, q)
  OBVIOUS
<1>9. \A n \in DOMAIN rest : rest[n].at \in v
  BY DEF Under
<1>10. \A n \in DOMAIN rest : rest[n].at \in DOMAIN q
  <2>1. u \subseteq DOMAIN prog
    BY <1>1 DEF Under
  <2>2. QED
    BY <1>2, <1>9, <2>1 DEF Begins
<1>11. \A a \in v : a < o
  BY <1>2 DEF Nested, Under
<1> HIDE DEF q, d, st, rs, e, u, v
<1>12. Placed(q, d, o, p)
  BY <1>1, <1>2, <1>3, <1>5, PlacedYield
<1>13. /\ Asks(rest, q) => ArgumentOf(q, rest[Len(rest)].at, o)
       /\ \A a \in DOMAIN q : ArgumentOf(q, a, o) => Asks(rest, q) /\ a = rest[Len(rest)].at
  BY <1>1, <1>2, <1>8, ParentOfNext
<1>14. Ends(u, v, prog, q, o, e)
  BY <1>2, <1>4, <1>11 DEF Ends
<1>15. p <= MaxLen => p < e
  <2>1. p \in Nat /\ Len(q) \in Nat
    BY <1>1, <1>2 DEF Slots
  <2>2. QED
    BY <1>4, <1>6, <2>1
<1>16. \E stamp : Stamped(stamp, v, q, d)
  <2>1. /\ prog \in Seq(Kinds) /\ q \in Seq(Kinds) /\ Begins(prog, q) /\ o \in DOMAIN q /\ e \in Nat
        /\ \A k \in DOMAIN code : code[k].at \in DOMAIN prog
    BY <1>1, <1>2, <1>4
  <2>2. Written(code, d, is) /\ Parms(rest, p, q, code, d, is)
    BY <1>3
  <2> HIDE DEF Keeps, Arranged, Translated, Ready, Taking
  <2>3. QED
    BY <1>6, <1>7, <1>12, <1>13, <1>14, <1>15, <2>1, <2>2, StampWritten, SMTT(30)
<1>17. Wanting(st, q)
  <2>1. p <= MaxLen => p <= Len(q)
    BY <1>6
  <2>2. Passed(rest, roots, p, st, rs)
    BY <1>3
  <2>3. MaxLen \in Nat /\ q \in Seq(Kinds) /\ rest \in Seq(Frame)
    BY <1>1, <1>2
  <2>4. QED
    BY <1>8, <1>10, <2>1, <2>2, <2>3, WantingYield
<1>18. Under(st) = v
  BY <1>2, <1>3, UnderYield DEF v
<1>19. Wanting(st, q) /\ \E stamp : Stamped(stamp, Under(st), q, d)
  BY <1>16, <1>17, <1>18
<1>20. QED
  BY <1>19 DEF Arranged, st, q, d

\* A leaf.
LEMMA LeafArranged ==
    ASSUME IInv, Translated, Translated', Arranged, NEW kind \in Leaves, Reads(kind),
           NEW p \in Slots, NEW is \in Seq(Instr), Yield(stack, p, is), Keeps(is, p, Here, prog')
    PROVE  Arranged'
<1>1. Ready(stack, Here, prog') /\ prog' \in Seq(Kinds)
  BY LeafReady
<1>2. /\ Len(prog') = Len(prog) + 1 /\ \A i \in DOMAIN prog : prog'[i] = prog[i]
  BY ReadFacts DEF Extends
<1>3. /\ \A n \in DOMAIN stack : stack[n] \in Frame /\ stack[n].at \in DOMAIN prog
      /\ Len(prog) \in Nat /\ prog \in Seq(Kinds) /\ stack \in Seq(Frame)
  BY TextTyped
<1>4. ASSUME NEW n \in DOMAIN stack
      PROVE  /\ Len(stack[n].places) < Operands(prog'[stack[n].at])
             /\ \A j \in DOMAIN stack[n].places :
                   stack[n].places[j] <= MaxLen => stack[n].places[j] <= Len(prog')
  <2> DEFINE ps == stack[n].places
  <2>1. prog'[stack[n].at] = prog[stack[n].at]
    BY <1>2, <1>3
  <2>2. stack # <<>>
    BY <1>3
  <2>3. Len(ps) < Operands(prog[stack[n].at])
    BY <2>2 DEF Reads, Inner, Arranged, Wanting
  <2>4. \A j \in DOMAIN ps : ps[j] <= MaxLen => ps[j] <= Len(prog)
    BY DEF Arranged, Wanting
  <2>5. \A j \in DOMAIN ps : ps[j] \in Int
    <3>1. ps \in Seq(Slots)
      BY <1>3 DEF Frame
    <3>2. \A j \in DOMAIN ps : ps[j] \in Slots
      BY <3>1
    <3>3. QED
      BY <3>2 DEF Slots
  <2>6. \A j \in DOMAIN ps : ps[j] <= MaxLen => ps[j] <= Len(prog')
    BY <1>2, <1>3, <2>4, <2>5
  <2>7. QED
    BY <2>1, <2>3, <2>6
<1>5. Taking(stack, prog')
  BY <1>4 DEF Taking
<1>6. QED
  BY <1>1, <1>5, ArrangedYield

\* An expression with all its operands.
LEMMA CloseArranged ==
    ASSUME IInv, Translated, Translated', Arranged, NEW kinds, Closes(kinds),
           NEW p \in Slots, NEW is \in Seq(Instr), Yield(Pop, p, is), Keeps(is, p, Inner.at, prog)
    PROVE  Arranged'
<1>1. Ready(Pop, Inner.at, prog') /\ prog' = prog /\ prog' \in Seq(Kinds)
  BY CloseReady
<1>2. stack \in Seq(Frame) /\ stack # <<>>
  BY TextTyped DEF Closes
<1>3. /\ DOMAIN Pop \subseteq DOMAIN stack /\ \A n \in DOMAIN Pop : Pop[n] = stack[n]
      /\ Pop \in Seq(Frame) /\ Len(Pop) = Len(stack) - 1
  BY <1>2, FrontFacts DEF Pop
<1>4. \A n \in DOMAIN Pop : n # Len(stack)
  BY <1>2, <1>3
<1>5. Taking(Pop, prog')
  BY <1>1, <1>3, <1>4 DEF Taking, Arranged, Wanting
<1>6. QED
  BY <1>1, <1>5, ArrangedYield

\* An operator is opened: its event is under way.
LEMMA StampOpened ==
    ASSUME NEW pr \in Seq(Kinds), NEW q \in Seq(Kinds), Begins(pr, q), NEW h \in Nat, h = Len(pr) + 1,
           DOMAIN q = DOMAIN pr \cup {h}, Len(q) = h,
           NEW c, \A k \in DOMAIN c : c[k].at \in DOMAIN pr,
           NEW u, NEW by, Stamped(by, u, pr, c)
    PROVE  Stamped(by, u \cup {h}, q, c)
<1>1. /\ by \in [DOMAIN c -> DOMAIN pr]
      /\ \A k \in DOMAIN c : /\ \E f \in Nat : Closed(u, pr, by[k], f, Len(pr) + 1)
                             /\ Fits(pr, c, c[k], by[k])
      /\ \A k, m \in DOMAIN c : k < m => \/ EndsSooner(pr, by[k], by[m])
                                         \/ by[k] = by[m] /\ c[k].op # "PARM"
      /\ \A a, x \in DOMAIN pr : ArgumentOf(pr, a, x) =>
            x \in u \/ \E k \in DOMAIN c : c[k].op = "PARM" /\ c[k].at = a /\ by[k] = x
  BY DEF Stamped
<1>2. by \in [DOMAIN c -> DOMAIN q] /\ \A k \in DOMAIN c : by[k] \in DOMAIN pr
  BY <1>1
<1>3. ASSUME NEW k \in DOMAIN c
      PROVE  /\ \E f \in Nat : Closed(u \cup {h}, q, by[k], f, Len(q) + 1)
             /\ Fits(q, c, c[k], by[k])
  <2>1. PICK e \in Nat : Closed(u, pr, by[k], e, h)
    BY <1>1
  <2>2. Spans(pr, by[k], 1, e) /\ e <= h /\ \A a \in u : a < by[k] \/ e <= a
    BY <2>1 DEF Closed
  <2>3. Spans(q, by[k], 1, e)
    BY <1>2, <2>2, ClosedLonger
  <2>4. e <= Len(q) + 1
    BY <2>2
  <2>5. Closed(u \cup {h}, q, by[k], e, Len(q) + 1)
    BY <2>2, <2>3, <2>4 DEF Closed
  <2>6. Begins(c, c) /\ c[k].at \in DOMAIN pr
    BY DEF Begins
  <2>7. Fits(q, c, c[k], by[k])
    BY <1>1, <1>2, <2>6, FitsLonger
  <2>8. QED
    BY <2>5, <2>7
<1>4. ASSUME NEW k \in DOMAIN c, NEW m \in DOMAIN c, k < m
      PROVE  EndsSooner(q, by[k], by[m]) \/ (by[k] = by[m] /\ c[k].op # "PARM")
  <2>1. EndsSooner(pr, by[k], by[m]) => EndsSooner(q, by[k], by[m])
    BY <1>2, SoonerLonger
  <2>2. QED
    BY <1>1, <1>4, <2>1
<1>5. ASSUME NEW a \in DOMAIN q, NEW x \in DOMAIN q, ArgumentOf(q, a, x)
      PROVE  x \in u \cup {h} \/ \E k \in DOMAIN c : c[k].op = "PARM" /\ c[k].at = a /\ by[k] = x
  <2>1. CASE x = h
    BY <2>1
  <2>2. CASE x # h
    <3>1. x \in DOMAIN pr
      BY <2>2
    <3>2. a \in DOMAIN pr /\ ArgumentOf(pr, a, x)
      BY <1>5, <3>1, ArgumentLonger
    <3>3. QED
      BY <1>1, <3>1, <3>2
  <2>3. QED
    BY <2>1, <2>2
<1>6. QED
  BY <1>2, <1>3, <1>4, <1>5 DEF Stamped

\* Then the one around it has an operand to come, and is not the innermost any more.
LEMMA OpenArranged ==
    ASSUME IInv, Translated, Arranged, NEW kind, Open(kind) PROVE Arranged'
<1> DEFINE f == [at |-> Here, places |-> <<>>]
           q == prog'
           st == stack'
           h == Here
<1>1. /\ Reads(kind) /\ st = Append(stack, f) /\ code' = code
  BY DEF Open
<1>2. /\ q \in Seq(Kinds) /\ Len(q) = Len(prog) + 1 /\ Begins(prog, q) /\ h \in 1 .. MaxLen
  BY <1>1, ReadFacts DEF Extends, Begins
<1>3. /\ MaxLen \in Nat /\ prog \in Seq(Kinds) /\ Len(prog) \in Nat /\ h = Len(prog) + 1
      /\ DOMAIN prog = 1 .. Len(prog) /\ stack \in Seq(Frame)
      /\ \A k \in DOMAIN code : code[k].at \in DOMAIN prog
      /\ \A n \in DOMAIN stack : stack[n].at \in DOMAIN prog
  BY TextTyped
<1>4. Len(q) = h /\ h \in Nat \ {0} /\ DOMAIN q = DOMAIN prog \cup {h}
  BY <1>2, <1>3
<1>5. f \in Frame /\ f.at = h /\ f.places = <<>> /\ Len(<<>>) = 0 /\ DOMAIN <<>> = {}
  <2>1. <<>> \in Seq(Slots) /\ Len(<<>>) = 0 /\ DOMAIN <<>> = {}
    OBVIOUS
  <2>2. QED
    BY <1>2, <2>1 DEF Frame
<1> HIDE DEF f, h
<1>6. OneMore(stack, f, st) /\ Len(st) = Len(stack) + 1
  BY <1>1, <1>3, <1>5, LongerByOne
<1>7. /\ DOMAIN st = 1 .. Len(stack) + 1 /\ DOMAIN stack = 1 .. Len(stack) /\ Len(stack) \in Nat
      /\ st[Len(stack) + 1] = f /\ \A n \in DOMAIN stack : st[n] = stack[n]
  BY <1>6, Zenon DEF OneMore
<1> HIDE DEF q, st
<1>8. PICK by : Stamped(by, Under(stack), prog, code)
  BY DEF Arranged
<1>9. Stamped(by, Under(stack) \cup {h}, q, code)
  BY <1>2, <1>3, <1>4, <1>8, StampOpened
<1>10. Under(st) = Under(stack) \cup {h}
  BY <1>5, <1>7 DEF Under
<1>11. ASSUME NEW n \in DOMAIN st
       PROVE  /\ Len(st[n].places) <= Operands(q[st[n].at])
              /\ n # Len(st) => Len(st[n].places) < Operands(q[st[n].at])
              /\ \A j \in DOMAIN st[n].places : st[n].places[j] <= MaxLen => st[n].places[j] <= Len(q)
  <2>1. CASE n = Len(stack) + 1
    <3>1. st[n] = f /\ q[h] \in Kinds
      BY <1>2, <1>4, <1>7, <2>1
    <3>2. Operands(q[h]) \in Nat
      BY <3>1, OperandsTyped
    <3>3. 0 <= Operands(q[h])
      BY <3>2
    <3>4. QED
      BY <1>5, <1>6, <2>1, <3>1, <3>3
  <2>2. CASE n # Len(stack) + 1
    <3>1. n \in DOMAIN stack /\ st[n] = stack[n] /\ stack # <<>>
      BY <1>3, <1>7, <2>2
    <3> DEFINE ps == stack[n].places
               w == Operands(prog[stack[n].at])
    <3>2. q[stack[n].at] = prog[stack[n].at]
      BY <1>2, <1>3, <3>1 DEF Begins
    <3>3. Len(ps) < w
      BY <1>1, <3>1 DEF Reads, Inner, Arranged, Wanting
    <3>4. \A j \in DOMAIN ps : ps[j] <= MaxLen => ps[j] <= Len(prog)
      BY <3>1 DEF Arranged, Wanting
    <3>5. ps \in Seq(Slots) /\ w \in Nat
      <4>1. stack[n] \in Frame /\ prog[stack[n].at] \in Kinds
        BY <1>3, <3>1
      <4>2. QED
        BY <4>1, OperandsTyped DEF Frame
    <3>6. \A j \in DOMAIN ps : ps[j] \in Int
      <4>1. \A j \in DOMAIN ps : ps[j] \in Slots
        BY <3>5
      <4>2. QED
        BY <4>1 DEF Slots
    <3>7. Len(ps) \in Nat
      BY <3>5
    <3> HIDE DEF ps, w
    <3>8. (\A j \in DOMAIN ps : ps[j] <= MaxLen => ps[j] <= Len(q)) /\ Len(ps) <= w
      BY <1>2, <1>3, <3>3, <3>4, <3>5, <3>6, <3>7
    <3>9. QED
      BY <3>1, <3>2, <3>3, <3>8 DEF ps, w
  <2>3. QED
    BY <2>1, <2>2
<1>12. Wanting(st, q)
  BY <1>11 DEF Wanting
<1>13. QED
  BY <1>1, <1>9, <1>10, <1>12 DEF Arranged, q, st

\* No code, or one instruction, keeps to its event.
LEMMA NoneKeeps ==
    ASSUME NEW p, NEW o, NEW q, p <= MaxLen => p <= Len(q) PROVE Keeps(<<>>, p, o, q)
<1>1. DOMAIN <<>> = {}
  OBVIOUS
<1>2. QED
  BY <1>1 DEF Keeps

\* One instruction that leaves the event's value does.
LEMMA OneKeeps ==
    ASSUME NEW p, NEW o, NEW q, p <= MaxLen => p <= Len(q),
           NEW op \in {"ASN", "OP", "CALL", "RAND"}, NEW dest, NEW src
    PROVE  Keeps(<<Do(op, o, dest, src)>>, p, o, q)
<1> DEFINE c == Do(op, o, dest, src)
           is == <<c>>
<1>1. c.op = op /\ c.at = o /\ op # "PARM"
  BY DEF Do
<1> HIDE DEF c
<1>2. DOMAIN is = {1} /\ is[1] = c
  OBVIOUS
<1> HIDE DEF is
<1>3. Keeps(is, p, o, q)
  BY <1>1, <1>2 DEF Keeps
<1>4. QED
  BY <1>3 DEF is, c

\* Every generating step keeps the parameters in order.
LEMMA GeneratesArranged == ASSUME IInv, Translated, Arranged, Generates PROVE Arranged'
<1> DEFINE p == nextOffset
<1>1. Translated'
  BY GeneratesTranslated
<1>2. <<>> \in Seq(Instr)
  OBVIOUS
<1>3. CASE Name
  <2>1. Reads("name") /\ Yield(stack, Here, <<>>) /\ "name" \in Leaves
    BY <1>3 DEF Name, Leaves
  <2>2. /\ Here \in 1 .. MaxLen /\ MaxLen \in Nat /\ prog' \in Seq(Kinds) /\ Len(prog') = Len(prog) + 1
    BY <2>1, ReadFacts
  <2>3. Here \in Slots /\ Here <= Len(prog')
    BY <2>2 DEF Slots, Here
  <2>4. Keeps(<<>>, Here, Here, prog')
    BY <2>3, NoneKeeps
  <2>5. QED
    BY <1>1, <1>2, <2>1, <2>3, <2>4, LeafArranged
<1>4. CASE Literal
  <2> DEFINE c == Do("ASN", Here, p, <<>>)
  <2>1. Reads("literal") /\ Yield(stack, p, <<c>>) /\ "literal" \in Leaves
    BY <1>4 DEF Literal, Leaves, new_temp
  <2>2. /\ Here \in 0 .. MaxLen /\ MaxLen \in Nat /\ p \in Slots \ {0} /\ MaxLen < p
        /\ Here \in DOMAIN prog'
    BY <2>1, ReadFacts
  <2>3. ~(p <= MaxLen)
    BY <2>2 DEF Slots
  <2>4. Keeps(<<c>>, p, Here, prog')
    BY <2>3, OneKeeps
  <2>5. <<c>> \in Seq(Instr)
    BY <2>2, Leaf
  <2> HIDE DEF p, c
  <2>6. QED
    BY <1>1, <2>1, <2>2, <2>4, <2>5, LeafArranged
<1>5. CASE Random
  <2> DEFINE rand == Do("RAND", Here, p, <<>>)
             srand == Do("SRAND", Here, 0, <<>>)
             is == IF seeded THEN <<rand>> ELSE <<srand, rand>>
  <2>1. Reads("random") /\ Yield(stack, p, is) /\ "random" \in Leaves
    BY <1>5 DEF Random, Leaves, new_temp
  <2>2. /\ Here \in 0 .. MaxLen /\ MaxLen \in Nat /\ p \in Slots \ {0} /\ MaxLen < p
        /\ Here \in DOMAIN prog' /\ 0 \in Slots
    BY <2>1, ReadFacts DEF Slots
  <2>3. ~(p <= MaxLen)
    BY <2>2 DEF Slots
  <2>4. rand \in Instr /\ srand \in Instr
    BY <2>2, Leaf DEF Do, Instr
  <2>5. rand.op # "PARM" /\ srand.op # "PARM" /\ rand.at = Here /\ srand.at = Here
    BY DEF Do
  <2> HIDE DEF rand, srand
  <2>6. is \in Seq(Instr) /\ \A x \in DOMAIN is : is[x] \in {rand, srand}
    BY <2>4
  <2> HIDE DEF is, p
  <2>7. Keeps(is, p, Here, prog')
    BY <2>3, <2>5, <2>6 DEF Keeps
  <2>8. QED
    BY <1>1, <2>1, <2>2, <2>6, <2>7, LeafArranged
<1>6. ASSUME NEW kinds, Closes(kinds)
      PROVE  /\ p \in Slots \ {0} /\ MaxLen < p /\ ~(p <= MaxLen) /\ Inner.at \in 0 .. MaxLen
             /\ Inner.places \in Seq(Slots) /\ MaxLen \in Nat /\ 0 \in Slots /\ prog \in Seq(Kinds)
             /\ Len(Inner.places) = Operands(prog[Inner.at])
  <2>1. /\ p \in Slots \ {0} /\ MaxLen < p /\ Inner.at \in 0 .. MaxLen /\ Inner.places \in Seq(Slots)
        /\ MaxLen \in Nat /\ prog \in Seq(Kinds) /\ Len(Inner.places) = Operands(prog[Inner.at])
    BY <1>6, CloseFacts, TextTyped
  <2>2. ~(p <= MaxLen) /\ 0 \in Slots
    BY <2>1 DEF Slots
  <2>3. QED
    BY <2>1, <2>2
<1>7. ASSUME NEW kinds, Closes(kinds), NEW op \in {"OP", "CALL"}, NEW s \in Slots,
             NEW src \in Seq(Slots), s <= MaxLen => s <= Len(prog), Yield(Pop, s, <<Do(op, Inner.at, s, src)>>)
      PROVE  Arranged'
  <2> DEFINE c == Do(op, Inner.at, s, src)
  <2>1. c \in Instr
    BY <1>6, <1>7 DEF Do, Instr
  <2>2. Keeps(<<c>>, s, Inner.at, prog)
    BY <1>7, OneKeeps
  <2> HIDE DEF c
  <2>3. <<c>> \in Seq(Instr)
    BY <2>1
  <2>4. Yield(Pop, s, <<c>>)
    BY <1>7 DEF c
  <2>5. QED
    BY <1>1, <1>7, <2>2, <2>3, <2>4, CloseArranged
<1>8. ASSUME NEW kinds, Closes(kinds), NEW s \in Slots, s <= MaxLen => s <= Len(prog), Yield(Pop, s, <<>>)
      PROVE  Arranged'
  <2>1. Keeps(<<>>, s, Inner.at, prog)
    BY <1>8, NoneKeeps
  <2>2. QED
    BY <1>1, <1>2, <1>8, <2>1, CloseArranged
<1>9. CASE Binary
  <2>1. /\ Closes(Numeric \cup (Compared \ {"identical"}))
        /\ Yield(Pop, p, <<Do("OP", Inner.at, p, Inner.places)>>)
    BY <1>9 DEF Binary, new_temp
  <2>2. QED
    BY <1>6, <1>7, <2>1
<1>10. CASE Identical
  <2>1. Closes({"identical"}) /\ Yield(Pop, p, <<>>)
    BY <1>10 DEF Identical, new_temp
  <2>2. QED
    BY <1>6, <1>8, <2>1
<1>11. CASE Conjunction
  <2>1. Closes({"and", "or"}) /\ Yield(Pop, 0, <<>>)
    BY <1>11 DEF Conjunction
  <2>2. 0 \in Slots /\ 0 <= Len(prog)
    BY <1>6, <2>1
  <2>3. QED
    BY <1>8, <2>1, <2>2
<1>12. CASE Negation
  <2>1. Closes({"not"}) /\ Yield(Pop, Inner.places[1], <<>>)
    BY <1>12 DEF Negation
  <2>2. "not" \notin Functions
    BY ExprAssumption DEF ExprAssumption, Logical
  <2>3. Operands("not") = 1
    BY <2>2 DEF Operands, Leaves
  <2>4. prog[Inner.at] = "not"
    BY <2>1, CloseFacts
  <2>5. Inner.places \in Seq(Slots) /\ Len(Inner.places) = 1
    BY <1>6, <2>1, <2>3, <2>4
  <2>6. Inner.places[1] \in Slots /\ 1 \in DOMAIN Inner.places
    BY <2>5
  <2>7. stack # <<>> /\ stack \in Seq(Frame)
    BY <2>1, TextTyped DEF Closes
  <2>8. Inner.places[1] <= MaxLen => Inner.places[1] <= Len(prog)
    BY <2>6, <2>7 DEF Arranged, Wanting, Inner
  <2>9. QED
    BY <1>8, <2>1, <2>6, <2>8
<1>13. CASE FunctionCall
  <2>1. Closes(Functions) /\ Yield(Pop, p, <<Do("CALL", Inner.at, p, <<>>)>>)
    BY <1>13 DEF FunctionCall, new_temp
  <2>2. <<>> \in Seq(Slots)
    OBVIOUS
  <2>3. QED
    BY <1>6, <1>7, <2>1, <2>2
<1>14. CASE Println
  <2>1. Closes({"println"}) /\ Yield(Pop, 0, <<Do("CALL", Inner.at, 0, <<>>)>>)
    BY <1>14 DEF Println
  <2>2. <<>> \in Seq(Slots) /\ 0 \in Slots /\ 0 <= Len(prog)
    BY <1>6, <2>1
  <2>3. QED
    BY <1>7, <2>1, <2>2
<1>15. QED
  BY <1>3, <1>4, <1>5, <1>9, <1>10, <1>11, <1>12, <1>13, <1>14, OpenArranged DEF Generates

\* No parameter has been passed in the beginning.
LEMMA ArrangedInit == Init => Arranged
<1> SUFFICES ASSUME Init PROVE Arranged
  OBVIOUS
<1>1. prog = <<>> /\ stack = <<>> /\ code = <<>> /\ DOMAIN <<>> = {}
  BY DEF Init
<1> DEFINE by == [k \in {} |-> 0]
<1>2. by \in [{} -> {}]
  OBVIOUS
<1> HIDE DEF by
<1>3. Stamped(by, Under(stack), prog, code)
  BY <1>1, <1>2 DEF Stamped
<1>4. Wanting(stack, prog)
  BY <1>1 DEF Wanting
<1>5. QED
  BY <1>3, <1>4 DEF Arranged

\* Every step keeps the parameters in order.
LEMMA ArrangedNext == IInv /\ Faithful /\ Arranged /\ [Next]_vars => Arranged'
<1> SUFFICES ASSUME IInv, Faithful, Arranged, [Next]_vars PROVE Arranged'
  OBVIOUS
<1>1. CASE UNCHANGED genVars
  <2>1. prog' = prog /\ stack' = stack /\ code' = code
    BY <1>1 DEF genVars
  <2>2. QED
    BY <2>1 DEF Arranged
<1>2. Translated
  BY DEF Faithful
<1>3. CASE Generates
  BY <1>2, <1>3, GeneratesArranged
<1>4. CASE Start
  BY <1>1, <1>4 DEF Start
<1>5. CASE Asn \/ Op \/ Parm \/ Call \/ CallPrintln \/ Srand \/ Rand
  BY <1>1, <1>5 DEF Asn, Op, Parm, Call, CallPrintln, Srand, Rand, Runs
<1>6. CASE Stop \/ UNCHANGED vars
  BY <1>1, <1>6 DEF Stop, vars
<1>7. QED
  BY <1>3, <1>4, <1>5, <1>6 DEF Next, Generates

-----------------------------------------------------------------------------
\* Complete texts and the order of the ends

\* What is in an expression ends in it.
LEMMA Laminar ==
    ASSUME NEW pr \in Seq(Kinds), NEW x \in Nat \ {0}, NEW k \in Nat, NEW e \in Nat, NEW f \in Nat,
           e <= Len(pr) + 1, f <= Len(pr) + 1,
           Spans(pr, x, 1, f), Spans(pr, k, 1, e), x <= k, k < f
    PROVE  e <= f
<1>1. PICK lv : Level(lv, pr)
  BY LevelExists
<1>2. Falls(lv, x, 1, f) /\ Falls(lv, k, 1, e)
  BY <1>1, SpansFalls
<1> DEFINE a == lv[x]
           b == lv[k]
           c == lv[f]
<1>3. a \in Int /\ b \in Int /\ c \in Int
  <2>1. x \in 1 .. Len(pr) + 1 /\ k \in 1 .. Len(pr) + 1 /\ f \in 1 .. Len(pr) + 1
    OBVIOUS
  <2>2. QED
    BY <1>1, <2>1, LevelTyped
<1>4. c = a - 1 /\ a - 1 < b
  <2>1. k \in x .. f - 1
    OBVIOUS
  <2>2. QED
    BY <1>2, <2>1 DEF Falls
<1>5. f < e => b - 1 < c
  <2>1. f < e => f \in k .. e - 1
    OBVIOUS
  <2>2. QED
    BY <1>2, <2>1 DEF Falls
<1> HIDE DEF a, b, c
<1>6. QED
  BY <1>3, <1>4, <1>5

\* Event o and its operands have been read.
Ended(o) ==
    /\ o \in DOMAIN prog /\ Past(o) \in Nat /\ Past(o) <= Len(prog) + 1
    /\ Spans(prog, o, 1, Past(o)) /\ Filled(o, Past(o))

\* They have if the count says so.
LEMMA EndedBy ==
    ASSUME IInv, NEW o \in DOMAIN prog, NEW e \in Nat, e <= Len(prog) + 1, Spans(prog, o, 1, e)
    PROVE  Ended(o) /\ Past(o) = e
<1>1. prog \in Seq(Kinds) /\ Len(prog) <= MaxLen /\ DOMAIN prog = 1 .. Len(prog) /\ Len(prog) \in Nat
  BY TextTyped
<1>2. Filled(o, e)
  BY <1>1, OperandsFill
<1>3. Past(o) = e
  BY <1>2 DEF Filled
<1>4. QED
  BY <1>2, <1>3 DEF Ended

\* Then its numbers are.
LEMMA EndedTyped ==
    ASSUME IInv, NEW o, Ended(o)
    PROVE  /\ o \in Nat \ {0} /\ Past(o) \in Nat /\ o < Past(o)
           /\ Operands(prog[o]) \in Nat /\ Filled(o, Past(o))
<1>1. o \in DOMAIN prog /\ Past(o) \in Nat /\ Filled(o, Past(o))
  BY DEF Ended
<1>2. o \in Nat \ {0}
  BY <1>1, TextTyped
<1>3. QED
  BY <1>1, <1>2 DEF Filled

\* So have the operands, and they end sooner.
LEMMA OperandEnded ==
    ASSUME IInv, NEW o, Ended(o), NEW j \in 1 .. Operands(prog[o])
    PROVE  /\ Ended(Operand(o, j)) /\ o < Operand(o, j)
           /\ Past(Operand(o, j)) = Operand(o, j + 1) /\ Operand(o, j + 1) <= Past(o)
           /\ Sooner(Operand(o, j), o)
<1> DEFINE x == Operand(o, j)
           y == Operand(o, j + 1)
           e == Past(o)
           n == Operands(prog[o])
<1>1. /\ o \in DOMAIN prog /\ e \in Nat /\ e <= Len(prog) + 1 /\ Filled(o, e) /\ n \in Nat
  BY DEF Ended, Filled
<1>2. j \in 1 .. n + 1 /\ j + 1 \in 1 .. n + 1
  BY <1>1
<1>3. /\ x \in o + 1 .. e /\ y \in o + 1 .. e /\ x \in DOMAIN prog /\ Spans(prog, x, 1, y) /\ Past(x) = y
  BY <1>1, <1>2 DEF Filled
<1> HIDE DEF x, y, e, n
<1>4. /\ o \in Nat /\ Len(prog) \in Nat
  BY <1>1, TextTyped
<1>5. y \in Nat /\ y <= Len(prog) + 1 /\ y <= e /\ o < x
  BY <1>1, <1>3, <1>4
<1>6. Ended(x)
  BY <1>3, <1>5, EndedBy
<1>7. Past(x) < e \/ (Past(x) = e /\ o < x)
  BY <1>1, <1>3, <1>5
<1>8. Sooner(x, o)
  BY <1>7 DEF Sooner, e
<1>9. QED
  BY <1>3, <1>5, <1>6, <1>8 DEF x, y, e

\* What is inside ends inside.
LEMMA InsideEnds ==
    ASSUME IInv, NEW x, Ended(x), NEW k, Ended(k), Inside(k, x)
    PROVE  Past(k) <= Past(x)
<1>1. prog \in Seq(Kinds) /\ x \in Nat \ {0} /\ k \in Nat
  BY TextTyped DEF Ended
<1>2. x <= k /\ k < Past(x)
  BY DEF Inside
<1>3. QED
  BY <1>1, <1>2, Laminar DEF Ended

\* The order of the ends is one.
LEMMA SoonerOrder ==
    ASSUME IInv, NEW a, Ended(a), NEW b, Ended(b), NEW c, Ended(c)
    PROVE  /\ ~Sooner(a, a)
           /\ ~(Sooner(a, b) /\ Sooner(b, a))
           /\ Sooner(a, b) /\ Sooner(b, c) => Sooner(a, c)
<1>1. /\ a \in Nat /\ b \in Nat /\ c \in Nat
      /\ Past(a) \in Nat /\ Past(b) \in Nat /\ Past(c) \in Nat
  BY TextTyped DEF Ended
<1>2. QED
  BY <1>1 DEF Sooner

\* It is the one of the instructions.
LEMMA EndsSoonerIs ==
    ASSUME IInv, NEW a \in DOMAIN prog, NEW b \in DOMAIN prog, EndsSooner(prog, a, b)
    PROVE  Sooner(a, b)
<1>1. PICK e, f \in 1 .. Len(prog) + 1 : /\ Spans(prog, a, 1, e) /\ Spans(prog, b, 1, f)
                                         /\ e < f \/ (e = f /\ b < a)
  BY DEF EndsSooner
<1>2. e \in Nat /\ f \in Nat /\ e <= Len(prog) + 1 /\ f <= Len(prog) + 1
  BY TextTyped
<1>3. Past(a) = e /\ Past(b) = f
  BY <1>1, <1>2, EndedBy
<1>4. QED
  BY <1>1, <1>3 DEF Sooner

\* What ends between an operand of o and o is in a later operand.
LEMMA InLaterOperand ==
    ASSUME IInv, NEW o, Ended(o), NEW k, Ended(k), NEW j \in 1 .. Operands(prog[o]),
           Sooner(Operand(o, j), k), Sooner(k, o)
    PROVE  /\ Operand(o, j + 1) <= k /\ k < Past(o)
           /\ \E l \in j + 1 .. Operands(prog[o]) : Inside(k, Operand(o, l))
<1> DEFINE x == Operand(o, j)
           y == Operand(o, j + 1)
           e == Past(o)
           f == Past(k)
           n == Operands(prog[o])
<1>1. /\ o \in DOMAIN prog /\ k \in DOMAIN prog /\ e \in Nat /\ e <= Len(prog) + 1
      /\ f \in Nat /\ f <= Len(prog) + 1 /\ n \in Nat /\ Filled(o, e) /\ Filled(k, f)
      /\ Spans(prog, o, 1, e) /\ Spans(prog, k, 1, f)
  BY DEF Ended, Filled
<1>2. j \in 1 .. n + 1 /\ j + 1 \in 1 .. n + 1 /\ j - 1 \in Nat /\ (j - 1) + 1 = j /\ (j + 1) - 1 = j
  BY <1>1
<1>3. /\ x \in o + 1 .. e /\ y \in o + 1 .. e /\ Spans(prog, o + 1, j - 1, x)
      /\ Spans(prog, o + 1, (j + 1) - 1, y) /\ Past(x) = y
  BY <1>1, <1>2 DEF Filled
<1>4. o < e /\ k < f
  BY <1>1 DEF Filled
<1>5. Past(x) < f \/ (Past(x) = f /\ k < x)
  BY DEF Sooner
<1>6. f < e \/ (f = e /\ o < k)
  BY DEF Sooner
<1> HIDE DEF x, y, e, f, n
<1>7. o \in Nat \ {0} /\ k \in Nat \ {0} /\ Len(prog) \in Nat /\ prog \in Seq(Kinds)
  BY <1>1, TextTyped
<1>8. /\ e \in 1 .. Len(prog) + 1 /\ f \in 1 .. Len(prog) + 1
      /\ x \in 1 .. Len(prog) + 1 /\ y \in 1 .. Len(prog) + 1
  BY <1>1, <1>3, <1>4, <1>7
<1>9. Spans(prog, o + 1, (j - 1) + 1, y)
  BY <1>2, <1>3
<1>10. y < f \/ (y = f /\ k < x)
  BY <1>3, <1>5
<1>11. y <= k /\ k < e
  BY <1>1, <1>2, <1>3, <1>6, <1>7, <1>8, <1>9, <1>10, BetweenEnds
<1>12. \E l \in j + 1 .. Operands(prog[o]) : Inside(k, Operand(o, l))
  BY <1>1, <1>2, <1>7, <1>11, WithinOperand DEF n, y
<1>13. QED
  BY <1>11, <1>12 DEF y, e

\* What instruction k does for the text, when it was made for event x.
Purpose(k, x) ==
    LET y == code[k]
    IN  /\ Ended(x)
        /\ y.op # "PARM" => y.at = x
        /\ y.op = "CALL" => x \in Calls
        /\ y.op = "PARM" =>
              /\ y.at \in Calls /\ \E j \in 1 .. Operands(prog[y.at]) : x = Operand(y.at, j)
              /\ Placed(prog, code, x, y.src[1])
              /\ y.src[1] <= MaxLen => y.src[1] < Past(x)

\* A text that is complete, and its code: each argument is passed once and each call
\* made once, in the order of the ends.
Tidy(by) ==
    /\ DOMAIN code = 1 .. Len(code) /\ Len(code) \in Nat
    /\ \A k \in DOMAIN code : Purpose(k, by[k])
    /\ \A o \in Calls : /\ Ended(o)
                        /\ \E k \in DOMAIN code : code[k].op = "CALL" /\ code[k].at = o
                        /\ \A j \in 1 .. Operands(prog[o]) :
                              \E k \in DOMAIN code : /\ code[k].op = "PARM" /\ code[k].at = o
                                                     /\ by[k] = Operand(o, j)
    /\ \A k, m \in DOMAIN code : k < m => \/ Sooner(by[k], by[m])
                                          \/ by[k] = by[m] /\ code[k].op # "PARM"
    /\ \A k, m \in DOMAIN code : code[k].op = "CALL" /\ code[m].op = "CALL" /\ k < m
                                 => Sooner(by[k], by[m])

\* When nothing is under way, the text is complete.
LEMMA TidyCode ==
    ASSUME IInv, Translated, Arranged, stack = <<>> PROVE \E by : Tidy(by)
<1>1. /\ prog \in Seq(Kinds) /\ Len(prog) <= MaxLen /\ Len(prog) \in Nat /\ DOMAIN prog = 1 .. Len(prog)
      /\ code \in Seq(Instr) /\ Here = Len(prog) + 1
      /\ \A k \in DOMAIN code : code[k].at \in DOMAIN prog
  BY TextTyped
<1>2. Under(stack) = {}
  BY DEF Under
<1>3. PICK by : Stamped(by, {}, prog, code)
  BY <1>2 DEF Arranged
<1>4. /\ \A k \in DOMAIN code : /\ by[k] \in DOMAIN prog /\ Fits(prog, code, code[k], by[k])
                                /\ \E e \in Nat : Closed({}, prog, by[k], e, Len(prog) + 1)
      /\ \A k, m \in DOMAIN code : k < m => \/ EndsSooner(prog, by[k], by[m])
                                            \/ by[k] = by[m] /\ code[k].op # "PARM"
      /\ \A o, x \in DOMAIN prog : ArgumentOf(prog, o, x) =>
            \E k \in DOMAIN code : code[k].op = "PARM" /\ code[k].at = o /\ by[k] = x
  BY <1>3 DEF Stamped
<1>5. WorkOK({}, code, prog, Len(prog) + 1)
  BY <1>1, <1>2 DEF Translated
<1>6. Functions \cap (Leaves \cup Numeric \cup Compared \cup Logical \cup {"println"}) = {}
  BY ExprAssumption DEF ExprAssumption
<1>7. ASSUME NEW o \in Calls PROVE Ended(o) /\ \E k \in DOMAIN code : code[k].op = "CALL" /\ code[k].at = o
  <2>1. o \in DOMAIN prog /\ Called(prog[o])
    BY DEF Calls, Events
  <2>2. Works(prog[o])
    BY <1>6, <2>1 DEF Works, Called, Leaves, Compared, Logical
  <2>3. PICK k \in DOMAIN code : Doing(code[k]) /\ code[k].at = o
    BY <1>5, <2>1, <2>2 DEF WorkOK
  <2>4. Asked(prog, code, code[k])
    BY DEF Translated, OpsOK
  <2>5. code[k].op = "CALL"
    BY <1>6, <2>1, <2>3, <2>4 DEF Asked, Doing, Called, Leaves, Numeric, Compared
  <2>6. PICK e \in Nat : Closed({}, prog, o, e, Len(prog) + 1)
    BY <1>5, <2>3 DEF WorkOK
  <2>7. Ended(o)
    BY <2>1, <2>6, EndedBy DEF Closed
  <2>8. QED
    BY <2>3, <2>5, <2>7
<1>8. ASSUME NEW o \in Calls, NEW j \in 1 .. Operands(prog[o])
      PROVE  \E k \in DOMAIN code : /\ code[k].op = "PARM" /\ code[k].at = o
                                    /\ by[k] = Operand(o, j)
  <2>1. Ended(o) /\ o \in DOMAIN prog /\ Called(prog[o])
    BY <1>7 DEF Calls, Events
  <2>2. Filled(o, Past(o)) /\ Operands(prog[o]) \in Nat
    BY <2>1 DEF Ended, Filled
  <2>3. j \in 1 .. Operands(prog[o]) + 1
    BY <2>2
  <2>4. Operand(o, j) \in DOMAIN prog /\ Spans(prog, o + 1, j - 1, Operand(o, j))
    BY <2>2, <2>3 DEF Filled
  <2>5. ArgumentOf(prog, o, Operand(o, j))
    BY <2>1, <2>4 DEF ArgumentOf
  <2>6. QED
    BY <1>4, <2>1, <2>4, <2>5
<1>9. ASSUME NEW k \in DOMAIN code PROVE Purpose(k, by[k])
  <2> DEFINE y == code[k]
             x == by[k]
  <2>1. PICK e \in Nat : Closed({}, prog, x, e, Len(prog) + 1)
    BY <1>4
  <2>2. x \in DOMAIN prog /\ Spans(prog, x, 1, e) /\ e <= Len(prog) + 1
    BY <1>4, <2>1 DEF Closed
  <2>3. Ended(x)
    BY <2>2, EndedBy
  <2>4. Fits(prog, code, y, x) /\ y.at \in DOMAIN prog
    BY <1>1, <1>4
  <2>5. Asked(prog, code, y)
    BY DEF Translated, OpsOK
  <2> HIDE DEF x, y
  <2>6. y.op # "PARM" => y.at = x
    BY <2>4 DEF Fits
  <2>7. y.op = "CALL" => x \in Calls
    BY <2>4, <2>5, <2>6 DEF Asked, Calls, Events
  <2>8. ASSUME y.op = "PARM"
        PROVE  /\ y.at \in Calls /\ \E j \in 1 .. Operands(prog[y.at]) : x = Operand(y.at, j)
               /\ Placed(prog, code, x, y.src[1])
               /\ y.src[1] <= MaxLen => y.src[1] < Past(x)
    <3> DEFINE o == y.at
    <3>1. /\ ArgumentOf(prog, o, x) /\ Placed(prog, code, x, y.src[1])
          /\ y.src[1] <= MaxLen => \E f \in 1 .. Len(prog) + 1 : Spans(prog, x, 1, f) /\ y.src[1] < f
      BY <2>4, <2>8 DEF Fits
    <3>2. o \in Calls
      BY <2>4, <3>1 DEF ArgumentOf, Calls, Events
    <3>3. PICK j \in 1 .. Operands(prog[o]) : Spans(prog, o + 1, j - 1, x)
      BY <3>1 DEF ArgumentOf
    <3>4. x = Operand(o, j)
      <4>1. prog[o] \in Kinds /\ o \in Nat
        BY <1>1, <2>4
      <4>2. Operands(prog[o]) \in Nat
        BY <4>1, OperandsTyped
      <4>3. o + 1 \in Nat \ {0} /\ j - 1 \in Nat /\ x \in Nat /\ x <= Len(prog) + 1
        BY <1>1, <2>2, <4>1, <4>2
      <4>4. After[o + 1][j - 1] = x
        BY <1>1, <3>3, <4>3, AfterSpans
      <4>5. QED
        BY <4>4 DEF Operand
    <3>5. ASSUME y.src[1] <= MaxLen PROVE y.src[1] < Past(x)
      <4>1. PICK f \in 1 .. Len(prog) + 1 : Spans(prog, x, 1, f) /\ y.src[1] < f
        BY <3>1, <3>5
      <4>2. f \in Nat /\ f <= Len(prog) + 1
        BY <1>1
      <4>3. Past(x) = f
        BY <2>2, <4>1, <4>2, EndedBy
      <4>4. QED
        BY <4>1, <4>3
    <3>6. QED
      BY <3>1, <3>2, <3>3, <3>4, <3>5
  <2>9. QED
    BY <2>3, <2>6, <2>7, <2>8 DEF Purpose, x, y
<1>10. ASSUME NEW k \in DOMAIN code, NEW m \in DOMAIN code, k < m
       PROVE  Sooner(by[k], by[m]) \/ (by[k] = by[m] /\ code[k].op # "PARM")
  BY <1>4, <1>10, EndsSoonerIs
<1>11. ASSUME NEW k \in DOMAIN code, NEW m \in DOMAIN code,
              code[k].op = "CALL", code[m].op = "CALL", k < m
       PROVE  Sooner(by[k], by[m])
  <2>1. Doing(code[k]) /\ Doing(code[m])
    BY <1>11 DEF Doing
  <2>2. EndsSooner(prog, code[k].at, code[m].at)
    BY <1>5, <1>11, <2>1 DEF WorkOK
  <2>3. code[k].at = by[k] /\ code[m].at = by[m]
    BY <1>9, <1>11 DEF Purpose
  <2>4. QED
    BY <1>4, <2>2, <2>3, EndsSoonerIs
<1>12. DOMAIN code = 1 .. Len(code) /\ Len(code) \in Nat
  BY <1>1
<1>13. Tidy(by)
  BY <1>7, <1>8, <1>9, <1>10, <1>11, <1>12 DEF Tidy
<1>14. QED
  BY <1>13

-----------------------------------------------------------------------------
\* Which calls have arguments waiting

\* No call is made from instruction k up to p.
Quiet(c, k, p) == \A m \in k .. p - 1 : c[m].op # "CALL"

\* Instruction q makes the call i, and m passes its first argument.
Makings(by, q, i, m) ==
    /\ q \in DOMAIN code /\ code[q].op = "CALL" /\ by[q] = i /\ i \in Calls /\ Ended(i)
    /\ 1 \in 1 .. Operands(prog[i])
    /\ m \in DOMAIN code /\ code[m].op = "PARM" /\ code[m].at = i /\ by[m] = Operand(i, 1)

\* What ends sooner comes sooner.
LEMMA TidyOrder ==
    ASSUME IInv, NEW by, Tidy(by), NEW k \in DOMAIN code, NEW m \in DOMAIN code, Sooner(by[k], by[m])
    PROVE  k < m
<1>1. k \in Nat /\ m \in Nat /\ Ended(by[k]) /\ Ended(by[m])
  BY DEF Tidy, Purpose
<1>2. ~(m < k)
  <2>1. ~Sooner(by[m], by[k]) /\ by[m] # by[k]
    BY <1>1, SoonerOrder
  <2>2. QED
    BY <2>1 DEF Tidy
<1>3. m # k
  BY <1>1, SoonerOrder
<1>4. QED
  BY <1>1, <1>2, <1>3

\* A parameter is passed before the call is made.
LEMMA PassedBefore ==
    ASSUME IInv, NEW by, Tidy(by), NEW k \in DOMAIN code, code[k].op = "PARM",
           NEW t \in DOMAIN code, code[t].op = "CALL", code[t].at = code[k].at
    PROVE  k < t
<1> DEFINE o == code[k].at
<1>1. Purpose(k, by[k]) /\ Purpose(t, by[t])
  BY DEF Tidy
<1>2. by[t] = o /\ o \in Calls
  BY <1>1 DEF Purpose
<1>3. PICK j \in 1 .. Operands(prog[o]) : by[k] = Operand(o, j)
  BY <1>1 DEF Purpose
<1>4. Ended(o)
  BY <1>2 DEF Tidy
<1> HIDE DEF o
<1>5. Sooner(by[k], by[t])
  BY <1>2, <1>3, <1>4, OperandEnded
<1>6. QED
  BY <1>5, TidyOrder

\* No call is in the arguments of i behind the first one exactly if none is made
\* while the first one waits.
LEMMA QuietArguments ==
    ASSUME IInv, NEW by, Tidy(by), NEW q, NEW i, NEW m, Makings(by, q, i, m)
    PROVE  Quiet(code, m, q)
           <=> \A j \in 2 .. Operands(prog[i]), k \in Calls : ~Inside(k, Operand(i, j))
<1> DEFINE n == Operands(prog[i])
           x == Operand(i, 1)
<1>1. /\ q \in DOMAIN code /\ code[q].op = "CALL" /\ by[q] = i /\ i \in Calls /\ Ended(i)
      /\ 1 \in 1 .. n /\ m \in DOMAIN code /\ code[m].op = "PARM" /\ by[m] = x
  BY DEF Makings
<1>2. DOMAIN code = 1 .. Len(code) /\ Len(code) \in Nat
  BY DEF Tidy
<1>3. Filled(i, Past(i)) /\ n \in Nat /\ Ended(x) /\ i < x /\ Past(x) = Operand(i, 2) /\ i \in Nat
  <2>1. Operand(i, 1 + 1) = Operand(i, 2)
    OBVIOUS
  <2>2. Filled(i, Past(i)) /\ n \in Nat /\ i \in Nat
    BY <1>1, EndedTyped
  <2>3. Ended(x) /\ i < x /\ Past(x) = Operand(i, 1 + 1)
    BY <1>1, OperandEnded
  <2>4. QED
    BY <2>1, <2>2, <2>3
<1> HIDE DEF n, x
<1>4. ASSUME Quiet(code, m, q), NEW j \in 2 .. n, NEW k \in Calls, Inside(k, Operand(i, j))
      PROVE  FALSE
  <2>1. PICK t \in DOMAIN code : code[t].op = "CALL" /\ code[t].at = k
    BY DEF Tidy
  <2>2. by[t] = k /\ Ended(k) /\ k \in Nat
    <3>1. by[t] = k /\ Ended(k)
      BY <2>1 DEF Tidy, Purpose
    <3>2. QED
      BY <3>1, EndedTyped
  <2> DEFINE y == Operand(i, j)
  <2>3. j \in 1 .. n
    BY <1>3
  <2>4. Ended(y) /\ i < y /\ Operand(i, j + 1) <= Past(i) /\ Past(y) = Operand(i, j + 1)
    BY <1>1, <2>3, OperandEnded DEF n
  <2>5. Operand(i, 2) <= y
    <3>1. 2 \in 1 .. n + 1 /\ j \in 1 .. n + 1
      BY <1>3
    <3>2. 2 < j => Operand(i, 2) < Operand(i, j)
      BY <1>3, <3>1 DEF Filled, n
    <3>3. Operand(i, 2) \in Nat /\ y \in Nat
      <4>1. Past(x) \in Nat
        BY <1>3 DEF Ended
      <4>2. QED
        BY <1>3, <2>4, <4>1, TextTyped DEF Ended
    <3>4. j = 2 \/ 2 < j
      OBVIOUS
    <3>5. QED
      BY <3>2, <3>3, <3>4
  <2>6. y <= k /\ Past(k) <= Past(y)
    BY <1>4, <2>2, <2>4, InsideEnds DEF Inside
  <2> DEFINE a == Past(x)
             b == Past(k)
             e == Past(i)
             f == Past(y)
  <2>7. /\ a \in Nat /\ b \in Nat /\ e \in Nat /\ f \in Nat /\ y \in Nat /\ k < b
    BY <1>1, <1>3, <2>2, <2>4, EndedTyped
  <2>8. a <= y /\ y <= k /\ b <= f /\ f <= e /\ i < y
    BY <1>3, <2>4, <2>5, <2>6
  <2> HIDE DEF y, a, b, e, f
  <2>9. a < b /\ (b < e \/ (b = e /\ i < k))
    BY <1>3, <2>2, <2>7, <2>8
  <2>10. Sooner(x, k) /\ Sooner(k, i)
    BY <2>9 DEF Sooner, a, b, e
  <2>11. m < t /\ t < q
    BY <1>1, <2>2, <2>10, TidyOrder
  <2>12. t \in m .. q - 1
    BY <1>1, <1>2, <2>11
  <2>13. QED
    BY <1>4, <2>1, <2>12 DEF Quiet
<1>5. ASSUME \A j \in 2 .. n, k \in Calls : ~Inside(k, Operand(i, j)),
             NEW t \in m .. q - 1, code[t].op = "CALL"
      PROVE  FALSE
  <2>1. t \in DOMAIN code /\ m # t /\ t < q
    BY <1>1, <1>2, <1>5
  <2>2. m < t
    <3>1. m \in Nat /\ q \in Nat
      BY <1>1, <1>2
    <3>2. QED
      BY <2>1, <3>1
  <2> DEFINE k == by[t]
  <2>3. k \in Calls /\ Ended(k)
    BY <1>5, <2>1 DEF Tidy, Purpose
  <2>4. Sooner(x, k)
    BY <1>1, <2>1, <2>2 DEF Tidy
  <2>5. Sooner(k, i)
    BY <1>1, <1>5, <2>1 DEF Tidy
  <2> HIDE DEF k
  <2>6. PICK l \in 1 + 1 .. n : Inside(k, Operand(i, l))
    BY <1>1, <2>3, <2>4, <2>5, InLaterOperand DEF x, n
  <2>7. l \in 2 .. n
    BY <1>3
  <2>8. QED
    BY <1>5, <2>3, <2>6, <2>7
<1>6. QED
  BY <1>4, <1>5 DEF Quiet, n

\* Parameter k has been passed and waits for its call.
Waits(c, k, p) == c[k].op = "PARM" /\ Quiet(c, k, p)

\* The arguments that wait for a call around i are gone before the first of i.
Gone(i) ==
    \A o \in Calls \ {i} : \A j \in 2 .. Operands(prog[o]) :
        Inside(i, Operand(o, j)) =>
            \E k \in Calls : /\ Inside(k, Operand(o, j)) /\ ~Inside(i, k)
                             /\ Past(k) <= Operand(i, 2)

\* What waits when i is called, and not for i, waits for a call that has i in a later
\* argument.
LEMMA WaitsAround ==
    ASSUME IInv, NEW by, Tidy(by), NEW q, NEW i, NEW m, Makings(by, q, i, m),
           NEW k \in DOMAIN code, k < q, Waits(code, k, q), NEW o, o = code[k].at, o # i
    PROVE  /\ o \in Calls /\ Ended(o) /\ Past(by[k]) <= i
           /\ \E l \in 1 .. Operands(prog[o]) :
                 /\ by[k] = Operand(o, l) /\ Past(by[k]) = Operand(o, l + 1)
                 /\ \E j \in l + 1 .. Operands(prog[o]) : Inside(i, Operand(o, j))
<1>1. /\ q \in DOMAIN code /\ code[q].op = "CALL" /\ by[q] = i /\ i \in Calls /\ Ended(i)
  BY DEF Makings
<1>2. DOMAIN code = 1 .. Len(code) /\ Len(code) \in Nat /\ code[k].op = "PARM"
  BY DEF Tidy, Waits
<1>3. Purpose(k, by[k]) /\ Purpose(q, by[q])
  BY <1>1 DEF Tidy
<1>4. o \in Calls /\ Ended(by[k])
  BY <1>2, <1>3 DEF Purpose
<1>5. PICK l \in 1 .. Operands(prog[o]) : by[k] = Operand(o, l)
  BY <1>2, <1>3 DEF Purpose
<1>6. Ended(o)
  BY <1>4 DEF Tidy
<1>7. PICK t \in DOMAIN code : code[t].op = "CALL" /\ code[t].at = o
  BY <1>4 DEF Tidy
<1>8. by[t] = o /\ code[q].at = i
  BY <1>1, <1>3, <1>7 DEF Tidy, Purpose
<1>9. k < t
  BY <1>2, <1>7, PassedBefore
<1>10. q < t
  <2>1. k \in Nat /\ t \in Nat /\ q \in Nat
    BY <1>1, <1>2, <1>7
  <2>2. ~(t \in k .. q - 1)
    BY <1>7 DEF Waits, Quiet
  <2>3. t # q
    BY <1>7, <1>8
  <2>4. QED
    BY <1>9, <2>1, <2>2, <2>3
<1>11. Sooner(i, o)
  BY <1>1, <1>7, <1>8, <1>10 DEF Tidy
<1>12. Sooner(by[k], i)
  BY <1>1, <1>2 DEF Tidy
<1>13. /\ Operand(o, l + 1) <= i
       /\ \E j \in l + 1 .. Operands(prog[o]) : Inside(i, Operand(o, j))
  BY <1>1, <1>5, <1>6, <1>11, <1>12, InLaterOperand
<1>14. Past(by[k]) = Operand(o, l + 1)
  BY <1>5, <1>6, OperandEnded
<1>15. QED
  BY <1>4, <1>5, <1>6, <1>13, <1>14

\* If those for the calls around are gone, only those of i wait.
LEMMA OwnWait ==
    ASSUME IInv, NEW by, Tidy(by), NEW q, NEW i, NEW m, Makings(by, q, i, m), Gone(i),
           NEW k \in DOMAIN code, k < q, Waits(code, k, q)
    PROVE  code[k].at = i
<1> DEFINE o == code[k].at
           y == by[k]
<1> SUFFICES ASSUME o # i PROVE FALSE
  OBVIOUS
<1>1. /\ q \in DOMAIN code /\ code[q].op = "CALL" /\ by[q] = i /\ i \in Calls /\ Ended(i)
      /\ 1 \in 1 .. Operands(prog[i])
  BY DEF Makings
<1>2. DOMAIN code = 1 .. Len(code) /\ Len(code) \in Nat /\ code[k].op = "PARM" /\ Ended(y)
  BY DEF Tidy, Waits, Purpose
<1>3. o \in Calls /\ Ended(o) /\ Past(y) <= i
  BY WaitsAround
<1>4. PICK l \in 1 .. Operands(prog[o]) :
         /\ y = Operand(o, l) /\ Past(y) = Operand(o, l + 1)
         /\ \E j \in l + 1 .. Operands(prog[o]) : Inside(i, Operand(o, j))
  BY WaitsAround
<1>5. PICK j \in l + 1 .. Operands(prog[o]) : Inside(i, Operand(o, j))
  BY <1>4
<1> DEFINE n == Operands(prog[o])
<1>6. n \in Nat /\ Filled(o, Past(o)) /\ l \in Nat /\ 1 <= l /\ j \in 2 .. n /\ j \in 1 .. n
  <2>1. n \in Nat /\ Filled(o, Past(o))
    BY <1>3, EndedTyped
  <2>2. QED
    BY <2>1
<1> HIDE DEF n
<1>7. PICK r \in Calls : /\ Inside(r, Operand(o, j)) /\ ~Inside(i, r) /\ Past(r) <= Operand(i, 2)
  BY <1>3, <1>5, <1>6 DEF Gone, n
<1>8. PICK t \in DOMAIN code : code[t].op = "CALL" /\ code[t].at = r
  BY DEF Tidy
<1>9. by[t] = r /\ Ended(r)
  BY <1>8 DEF Tidy, Purpose
<1>10. Operand(i, 2) <= Past(i) /\ i < Past(i) /\ r < Past(r)
  <2>1. Operand(i, 1 + 1) <= Past(i)
    BY <1>1, OperandEnded
  <2>2. i < Past(i) /\ r < Past(r)
    BY <1>1, <1>9, EndedTyped
  <2>3. QED
    BY <2>1, <2>2
<1> DEFINE z == Operand(o, j)
<1>11. Operand(o, l + 1) <= z
  <2>1. l + 1 \in 1 .. n + 1 /\ j \in 1 .. n + 1 /\ (l + 1 = j \/ l + 1 < j)
    BY <1>6
  <2>2. l + 1 < j => Operand(o, l + 1) < z
    BY <1>6, <2>1 DEF Filled, n
  <2>3. z \in Nat /\ Operand(o, l + 1) \in Nat
    <3>1. Ended(z)
      BY <1>3, <1>6, OperandEnded DEF n
    <3>2. Past(y) \in Nat
      BY <1>2, EndedTyped
    <3>3. QED
      BY <1>4, <3>1, <3>2, EndedTyped
  <2>4. QED
    BY <2>1, <2>2, <2>3
<1>12. z <= r
  BY <1>7 DEF Inside
<1> DEFINE a == Past(y)
           b == Past(r)
           e == Past(i)
           s == Operand(i, 2)
<1>13. a \in Nat /\ b \in Nat /\ e \in Nat /\ s \in Nat /\ r \in Nat /\ i \in Nat /\ z \in Nat
  <2>1. Ended(z)
    BY <1>3, <1>6, OperandEnded DEF n
  <2>2. s \in Nat
    <3>1. Ended(Operand(i, 1)) /\ Past(Operand(i, 1)) = Operand(i, 1 + 1)
      BY <1>1, OperandEnded
    <3>2. QED
      BY <3>1, EndedTyped
  <2>3. QED
    BY <1>1, <1>2, <1>9, <2>1, <2>2, EndedTyped
<1>14. a <= z /\ z <= r /\ r < b /\ b <= s /\ s <= e /\ i < e /\ (r <= i => b <= i)
  BY <1>4, <1>7, <1>10, <1>11, <1>12, <1>13 DEF Inside
<1> HIDE DEF a, b, e, s, z
<1>15. a < b /\ (b < e \/ (b = e /\ i < r))
  BY <1>13, <1>14
<1>16. Sooner(y, r) /\ Sooner(r, i)
  BY <1>15 DEF Sooner, a, b, e
<1>17. k < t /\ t < q
  BY <1>1, <1>9, <1>16, TidyOrder
<1>18. t \in k .. q - 1
  BY <1>1, <1>2, <1>17
<1>19. QED
  BY <1>8, <1>18 DEF Waits, Quiet

\* If nothing waits that was passed before the first argument of i, the others are gone.
LEMMA OthersGone ==
    ASSUME IInv, NEW by, Tidy(by), NEW q, NEW i, NEW m, Makings(by, q, i, m), Quiet(code, m, q),
           \A k \in DOMAIN code : k < m => ~Waits(code, k, q)
    PROVE  Gone(i)
<1> SUFFICES ASSUME NEW o \in Calls \ {i}, NEW j \in 2 .. Operands(prog[o]), Inside(i, Operand(o, j))
             PROVE  \E r \in Calls : /\ Inside(r, Operand(o, j)) /\ ~Inside(i, r)
                                     /\ Past(r) <= Operand(i, 2)
  BY DEF Gone
<1> DEFINE n == Operands(prog[o])
           x == Operand(i, 1)
           y == Operand(o, j - 1)
           z == Operand(o, j)
<1>1. /\ q \in DOMAIN code /\ code[q].op = "CALL" /\ by[q] = i /\ i \in Calls /\ Ended(i)
      /\ 1 \in 1 .. Operands(prog[i]) /\ m \in DOMAIN code /\ code[m].op = "PARM" /\ by[m] = x
  BY DEF Makings
<1>2. DOMAIN code = 1 .. Len(code) /\ Len(code) \in Nat /\ Ended(o)
  BY DEF Tidy
<1>3. n \in Nat /\ j \in 1 .. n /\ j - 1 \in 1 .. n /\ (j - 1) + 1 = j
  <2>1. n \in Nat
    BY <1>2, EndedTyped
  <2>2. QED
    BY <2>1
<1>4. /\ Ended(x) /\ i < x /\ Past(x) = Operand(i, 2) /\ Operand(i, 2) <= Past(i) /\ Sooner(x, i)
  <2>1. Ended(x) /\ i < x /\ Past(x) = Operand(i, 1 + 1) /\ Operand(i, 1 + 1) <= Past(i) /\ Sooner(x, i)
    BY <1>1, OperandEnded
  <2>2. QED
    BY <2>1
<1>5. Ended(y) /\ Past(y) = z /\ Sooner(y, o)
  <2>1. Ended(y) /\ Past(y) = Operand(o, (j - 1) + 1) /\ Sooner(y, o)
    BY <1>2, <1>3, OperandEnded
  <2>2. QED
    BY <1>3, <2>1
<1>6. Ended(z) /\ Past(z) <= Past(o) /\ Sooner(z, o)
  BY <1>2, <1>3, OperandEnded
<1>7. PICK k \in DOMAIN code : code[k].op = "PARM" /\ code[k].at = o /\ by[k] = y
  BY <1>3 DEF Tidy
<1>8. PICK u \in DOMAIN code : code[u].op = "CALL" /\ code[u].at = o
  BY DEF Tidy
<1>9. by[u] = o
  BY <1>8 DEF Tidy, Purpose
<1> HIDE DEF n, x, y, z
<1>10. z <= i /\ i < Past(z) /\ Past(i) <= Past(z)
  BY <1>1, <1>6, InsideEnds DEF Inside, z
<1>11. k < m
  <2>1. /\ x \in Nat /\ i \in Nat /\ Past(x) \in Nat /\ Past(y) \in Nat /\ x < Past(x) /\ z \in Nat
    BY <1>1, <1>4, <1>5, <1>6, EndedTyped
  <2>2. Past(y) < Past(x)
    BY <1>4, <1>5, <1>10, <2>1
  <2>3. Sooner(y, x)
    BY <2>2 DEF Sooner
  <2>4. QED
    BY <1>1, <1>7, <2>3, TidyOrder
<1>12. PICK t \in k .. q - 1 : code[t].op = "CALL"
  BY <1>7, <1>11 DEF Waits, Quiet
<1>13. t \in DOMAIN code /\ k < t /\ t < m
  <2>1. k \in Nat /\ m \in Nat /\ q \in Nat /\ t \in Nat /\ k # t
    BY <1>1, <1>2, <1>7, <1>12
  <2>2. ~(t \in m .. q - 1)
    BY <1>12 DEF Quiet
  <2>3. t <= q - 1
    BY <1>1, <1>2
  <2>4. t < m /\ k < t
    BY <2>1, <2>2, <2>3
  <2>5. QED
    BY <1>1, <1>2, <2>1, <2>3, <2>4
<1> DEFINE r == by[t]
<1>14. r \in Calls /\ Ended(r)
  BY <1>12, <1>13 DEF Tidy, Purpose
<1>15. Sooner(y, r)
  BY <1>7, <1>13 DEF Tidy
<1>16. Sooner(r, x) \/ r = x
  BY <1>1, <1>13 DEF Tidy
<1> HIDE DEF r
<1>17. Sooner(i, o)
  <2> DEFINE a == Past(i)
             b == Past(z)
             c == Past(o)
  <2>1. /\ a \in Nat /\ b \in Nat /\ c \in Nat /\ i \in Nat /\ o \in Nat /\ z \in Nat
        /\ o < z
    BY <1>1, <1>2, <1>3, <1>6, EndedTyped, OperandEnded DEF z, n
  <2>2. a <= b /\ b <= c /\ z <= i
    BY <1>6, <1>10
  <2> HIDE DEF a, b, c
  <2>3. a < c \/ (a = c /\ o < i)
    BY <2>1, <2>2
  <2>4. QED
    BY <2>3 DEF Sooner, a, c
<1>18. Sooner(r, i) /\ Sooner(r, o)
  <2>1. Sooner(r, i)
    BY <1>1, <1>4, <1>14, <1>16, SoonerOrder
  <2>2. QED
    BY <1>1, <1>2, <1>14, <1>17, <2>1, SoonerOrder
<1>19. z <= r
  <2>1. Operand(o, (j - 1) + 1) <= r
    BY <1>2, <1>3, <1>14, <1>15, <1>18, InLaterOperand DEF n, y
  <2>2. QED
    BY <1>3, <2>1 DEF z
<1> DEFINE a == Past(r)
           b == Past(x)
           e == Past(i)
           f == Past(z)
           s == Operand(i, 2)
<1>20. /\ a \in Nat /\ b \in Nat /\ e \in Nat /\ f \in Nat /\ s \in Nat
       /\ r \in Nat /\ x \in Nat /\ i \in Nat /\ z \in Nat /\ r < a
  BY <1>1, <1>4, <1>6, <1>14, EndedTyped
<1>21. (a < b \/ (a = b /\ x < r)) \/ r = x
  BY <1>16 DEF Sooner
<1>22. b = s /\ s <= e /\ e <= f /\ i < x
  BY <1>4, <1>10
<1>23. r = x => a = b
  OBVIOUS
<1>24. r <= i /\ i < a => e <= a
  BY <1>1, <1>14, InsideEnds DEF Inside
<1> HIDE DEF a, b, e, f, s
<1>25. a <= s /\ r < f /\ ~(r <= i /\ i < a)
  BY <1>20, <1>21, <1>22, <1>23, <1>24
<1>26. Inside(r, z) /\ ~Inside(i, r) /\ Past(r) <= Operand(i, 2)
  BY <1>19, <1>25 DEF Inside, a, f, s
<1>27. QED
  BY <1>14, <1>26 DEF z

-----------------------------------------------------------------------------
\* The list of arguments and the results, while the code runs

\* The list ar holds what waits before instruction p, as far as it has room: entry n
\* is that of parameter w[n].
Waiting(w, ar, c, p) ==
    /\ w \in [DOMAIN ar -> 1 .. p - 1]
    /\ \A n \in DOMAIN ar : Waits(c, w[n], p) /\ ar[n] = c[w[n]].src[1]
    /\ \A m, n \in DOMAIN ar : m < n => w[m] < w[n]
    /\ \A k \in 1 .. p - 1 : Waits(c, k, p) => \/ \E n \in DOMAIN ar : w[n] = k
                                               \/ Len(ar) = ArgRegs /\ \A n \in DOMAIN ar : w[n] < k

\* v is what an instruction before p has left, or nothing.
Left(v, c, p) == v = Garbage \/ \E k \in 1 .. p - 1 : c[k].op # "PARM" /\ c[k].at = v

\* What the register and the temporaries hold has been left there.
Results(mm, ea, c, p) ==
    /\ Left(ea, c, p)
    /\ \A s \in Slots : \/ s <= MaxLen \/ mm[s] = Garbage
                        \/ \E k \in 1 .. p - 1 : c[k].dest = s /\ Left(mm[s], c, k + 1)

\* The list holds what waits, and the places what has been left there.
Passing == (\E w : Waiting(w, args, code, pc)) /\ Results(mem, eax, code, pc)

\* No argument waits.
LEMMA WaitingNone ==
    ASSUME NEW c, NEW p, \A k \in 1 .. p - 1 : ~Waits(c, k, p)
    PROVE  \E w : Waiting(w, <<>>, c, p)
<1> DEFINE w == [n \in {} |-> 0]
<1>1. DOMAIN <<>> = {} /\ w \in [{} -> {}]
  OBVIOUS
<1> HIDE DEF w
<1>2. w \in [{} -> 1 .. p - 1]
  BY <1>1
<1>3. Waiting(w, <<>>, c, p)
  BY <1>1, <1>2 DEF Waiting
<1>4. QED
  BY <1>3

\* Waiting goes on until a call.
LEMMA WaitsOn ==
    ASSUME NEW c, NEW p \in Nat \ {0}, NEW k \in 1 .. p
    PROVE  /\ c[p].op = "CALL" => ~Waits(c, k, p + 1)
           /\ c[p].op # "CALL" /\ k < p => (Waits(c, k, p + 1) <=> Waits(c, k, p))
           /\ k = p => (Waits(c, k, p + 1) <=> c[p].op = "PARM")
<1>1. \A m : m \in k .. (p + 1) - 1 <=> m \in k .. p - 1 \/ m = p
  OBVIOUS
<1>2. Quiet(c, k, p + 1) <=> Quiet(c, k, p) /\ c[p].op # "CALL"
  BY <1>1 DEF Quiet
<1>3. k = p => Quiet(c, k, p)
  <2>1. k = p => k .. p - 1 = {}
    OBVIOUS
  <2>2. QED
    BY <2>1 DEF Quiet
<1>4. QED
  BY <1>2, <1>3 DEF Waits

\* A call takes all.
LEMMA WaitingCall ==
    ASSUME NEW c, NEW p \in Nat \ {0}, c[p].op = "CALL"
    PROVE  \E w : Waiting(w, <<>>, c, p + 1)
<1>1. \A k \in 1 .. (p + 1) - 1 : ~Waits(c, k, p + 1)
  <2>1. \A k \in 1 .. (p + 1) - 1 : k \in 1 .. p
    OBVIOUS
  <2>2. QED
    BY <2>1, WaitsOn
<1>2. QED
  BY <1>1, WaitingNone

\* Other instructions leave them alone.
LEMMA WaitingSkip ==
    ASSUME NEW ar, NEW c, NEW p \in Nat \ {0}, c[p].op \notin {"PARM", "CALL"},
           NEW w, Waiting(w, ar, c, p)
    PROVE  Waiting(w, ar, c, p + 1)
<1>1. \A k \in 1 .. (p + 1) - 1 : k \in 1 .. p /\ (k \in 1 .. p - 1 \/ k = p)
  OBVIOUS
<1>2. \A k \in 1 .. p - 1 : k \in 1 .. p /\ k < p /\ k \in 1 .. (p + 1) - 1
  OBVIOUS
<1>3. \A k \in 1 .. p - 1 : Waits(c, k, p + 1) <=> Waits(c, k, p)
  BY <1>2, WaitsOn
<1>4. ~Waits(c, p, p + 1)
  BY WaitsOn
<1>5. w \in [DOMAIN ar -> 1 .. (p + 1) - 1]
  BY <1>2 DEF Waiting
<1>6. \A n \in DOMAIN ar : w[n] \in 1 .. p - 1
  BY DEF Waiting
<1>7. \A n \in DOMAIN ar : Waits(c, w[n], p + 1) /\ ar[n] = c[w[n]].src[1]
  <2> SUFFICES ASSUME NEW n \in DOMAIN ar PROVE Waits(c, w[n], p + 1) /\ ar[n] = c[w[n]].src[1]
    OBVIOUS
  <2>1. Waits(c, w[n], p) /\ ar[n] = c[w[n]].src[1]
    BY DEF Waiting
  <2>2. QED
    BY <1>3, <1>6, <2>1
<1>8. ASSUME NEW k \in 1 .. (p + 1) - 1, Waits(c, k, p + 1)
      PROVE  \/ \E n \in DOMAIN ar : w[n] = k
             \/ Len(ar) = ArgRegs /\ \A n \in DOMAIN ar : w[n] < k
  <2>1. k \in 1 .. p - 1
    BY <1>1, <1>4, <1>8
  <2>2. Waits(c, k, p)
    BY <1>3, <1>8, <2>1
  <2>3. QED
    BY <2>1, <2>2 DEF Waiting
<1>9. \A m, n \in DOMAIN ar : m < n => w[m] < w[n]
  BY DEF Waiting
<1>10. QED
  BY <1>5, <1>7, <1>8, <1>9 DEF Waiting

\* A parameter waits too, if there is a register for it.
LEMMA WaitingParm ==
    ASSUME NEW ar \in Seq(Slots), ArgRegs \in Nat, Len(ar) <= ArgRegs,
           NEW c, NEW p \in Nat \ {0}, c[p].op = "PARM", c[p].src[1] \in Slots,
           NEW w, Waiting(w, ar, c, p),
           NEW br, br = IF Len(ar) < ArgRegs THEN Append(ar, c[p].src[1]) ELSE ar
    PROVE  \E v : Waiting(v, br, c, p + 1)
<1>1. \A k \in 1 .. (p + 1) - 1 : k \in 1 .. p /\ (k \in 1 .. p - 1 \/ k = p)
  OBVIOUS
<1>2. \A k \in 1 .. p - 1 : k \in 1 .. p /\ k < p /\ k \in 1 .. (p + 1) - 1
  OBVIOUS
<1>3. \A k \in 1 .. p - 1 : Waits(c, k, p + 1) <=> Waits(c, k, p)
  BY <1>2, WaitsOn
<1>4. Waits(c, p, p + 1) /\ p \in 1 .. (p + 1) - 1
  <2>1. p \in 1 .. p /\ p \in 1 .. (p + 1) - 1
    OBVIOUS
  <2>2. QED
    BY <2>1, WaitsOn
<1>5. \A n \in DOMAIN ar : w[n] \in 1 .. p - 1 /\ w[n] < p
  BY <1>2 DEF Waiting
<1>6. CASE ~(Len(ar) < ArgRegs)
  <2>1. br = ar /\ Len(ar) = ArgRegs
    BY <1>6
  <2>2. w \in [DOMAIN ar -> 1 .. (p + 1) - 1]
    BY <1>2 DEF Waiting
  <2>3. Waiting(w, ar, c, p + 1)
    BY <1>1, <1>3, <1>5, <2>1, <2>2 DEF Waiting
  <2>4. QED
    BY <2>1, <2>3
<1>7. CASE Len(ar) < ArgRegs
  <2> DEFINE v == [n \in DOMAIN br |-> IF n \in DOMAIN ar THEN w[n] ELSE p]
             s == c[p].src[1]
  <2>1. br = Append(ar, s)
    BY <1>7
  <2>2. OneMore(ar, s, br) /\ Len(br) = Len(ar) + 1
    BY <2>1, LongerByOne
  <2>3. /\ DOMAIN br = 1 .. Len(ar) + 1 /\ DOMAIN ar = 1 .. Len(ar) /\ Len(ar) \in Nat
        /\ br[Len(ar) + 1] = s /\ \A n \in DOMAIN ar : br[n] = ar[n]
    BY <2>2, Zenon DEF OneMore
  <2>4. /\ \A n \in DOMAIN ar : v[n] = w[n]
        /\ v[Len(ar) + 1] = p /\ DOMAIN v = DOMAIN br
        /\ \A n \in DOMAIN br : n \in DOMAIN ar \/ n = Len(ar) + 1
        /\ \A n \in DOMAIN ar : n < Len(ar) + 1 /\ n \in DOMAIN br
        /\ Len(ar) + 1 \in DOMAIN br
    BY <2>3
  <2>5. v \in [DOMAIN br -> 1 .. (p + 1) - 1]
    <3>1. \A n \in DOMAIN br : v[n] \in 1 .. (p + 1) - 1
      <4> HIDE DEF v
      <4>1. QED
        BY <1>2, <1>4, <1>5, <2>4
    <3>2. v = [n \in DOMAIN br |-> v[n]]
      OBVIOUS
    <3> HIDE DEF v
    <3>3. QED
      BY <3>1, <3>2
  <2> HIDE DEF v, s
  <2>6. \A n \in DOMAIN br : Waits(c, v[n], p + 1) /\ br[n] = c[v[n]].src[1]
    <3> SUFFICES ASSUME NEW n \in DOMAIN br PROVE Waits(c, v[n], p + 1) /\ br[n] = c[v[n]].src[1]
      OBVIOUS
    <3>1. CASE n \in DOMAIN ar
      <4>1. Waits(c, w[n], p) /\ ar[n] = c[w[n]].src[1] /\ w[n] \in 1 .. p - 1
        BY <1>5, <3>1 DEF Waiting
      <4>2. Waits(c, w[n], p + 1)
        BY <1>3, <4>1
      <4>3. QED
        BY <2>3, <2>4, <3>1, <4>1, <4>2
    <3>2. CASE n = Len(ar) + 1
      <4>1. v[n] = p /\ br[n] = s
        BY <2>3, <2>4, <3>2
      <4>2. QED
        BY <1>4, <4>1 DEF s
    <3>3. QED
      BY <2>4, <3>1, <3>2
  <2>7. ASSUME NEW m \in DOMAIN br, NEW n \in DOMAIN br, m < n PROVE v[m] < v[n]
    <3>1. m \in DOMAIN ar
      BY <2>3, <2>7
    <3>2. CASE n \in DOMAIN ar
      BY <2>4, <2>7, <3>1, <3>2 DEF Waiting
    <3>3. CASE n = Len(ar) + 1
      BY <1>5, <2>4, <3>1, <3>3
    <3>4. QED
      BY <2>4, <3>2, <3>3
  <2>8. ASSUME NEW k \in 1 .. (p + 1) - 1, Waits(c, k, p + 1) PROVE \E n \in DOMAIN br : v[n] = k
    <3>1. CASE k = p
      BY <2>4, <3>1
    <3>2. CASE k # p
      <4>1. k \in 1 .. p - 1 /\ Waits(c, k, p)
        BY <1>1, <1>3, <2>8, <3>2
      <4>2. Len(ar) # ArgRegs
        <5>1. Len(ar) \in Nat /\ ArgRegs \in Nat
          OBVIOUS
        <5>2. QED
          BY <1>7, <5>1
      <4>3. \A l \in 1 .. p - 1 : Waits(c, l, p) =>
               (\E n \in DOMAIN ar : w[n] = l) \/ Len(ar) = ArgRegs
        BY DEF Waiting
      <4>4. PICK n \in DOMAIN ar : w[n] = k
        BY <4>1, <4>2, <4>3
      <4>5. QED
        BY <2>4, <4>4
    <3>3. QED
      BY <3>1, <3>2
  <2>9. Waiting(v, br, c, p + 1)
    BY <2>5, <2>6, <2>7, <2>8 DEF Waiting
  <2>10. QED
    BY <2>9
<1>8. QED
  BY <1>6, <1>7

\* What has been left stays so.
LEMMA ResultsStep ==
    ASSUME NEW mm \in [Slots -> Value], NEW ea, NEW c, NEW p \in Nat \ {0}, Results(mm, ea, c, p),
           NEW eb, Left(eb, c, p + 1), NEW nn,
           \/ nn = mm
           \/ \E v : nn = [mm EXCEPT ![c[p].dest] = v] /\ Left(v, c, p + 1)
    PROVE  Results(nn, eb, c, p + 1)
<1>1. \A k \in 1 .. p - 1 : k \in 1 .. (p + 1) - 1
  OBVIOUS
<1>2. p \in 1 .. (p + 1) - 1
  OBVIOUS
<1>3. ASSUME NEW s \in Slots
      PROVE  \/ s <= MaxLen \/ nn[s] = Garbage
             \/ \E k \in 1 .. (p + 1) - 1 : c[k].dest = s /\ Left(nn[s], c, k + 1)
  <2>1. CASE nn[s] = mm[s]
    BY <1>1, <2>1 DEF Results
  <2>2. CASE nn[s] # mm[s]
    <3>1. PICK v : nn = [mm EXCEPT ![c[p].dest] = v] /\ Left(v, c, p + 1)
      BY <2>2
    <3>2. c[p].dest = s /\ nn[s] = v
      BY <2>2, <3>1
    <3>3. QED
      BY <1>2, <3>1, <3>2
  <2>3. QED
    BY <2>1, <2>2
<1>4. QED
  BY <1>3 DEF Results

\* What instruction p leaves has been left after it, and what had been before.
LEMMA LeftBy ==
    ASSUME NEW c, NEW p \in Nat \ {0}
    PROVE  /\ Left(Garbage, c, p + 1)
           /\ c[p].op # "PARM" => Left(c[p].at, c, p + 1)
           /\ \A v : Left(v, c, p) => Left(v, c, p + 1)
<1>1. p \in 1 .. (p + 1) - 1 /\ \A k \in 1 .. p - 1 : k \in 1 .. (p + 1) - 1
  OBVIOUS
<1>2. QED
  BY <1>1 DEF Left

\* Nothing has run.
LEMMA PassingInit == Init => Passing
<1> SUFFICES ASSUME Init PROVE Passing
  OBVIOUS
<1>1. /\ pc = 0 /\ args = <<>> /\ eax = Garbage
      /\ mem = [s \in Slots |-> IF s <= MaxLen THEN s ELSE Garbage]
  BY DEF Init
<1>2. \E w : Waiting(w, args, code, pc)
  BY <1>1, WaitingNone
<1>3. Results(mem, eax, code, pc)
  BY <1>1 DEF Results, Left
<1>4. QED
  BY <1>2, <1>3 DEF Passing

\* Before the run there is nothing to wait for.
LEMMA PassingIdle ==
    ASSUME Passing, pc = 0, pc' \in {0, 1}, args' = args \/ args' = <<>>, mem' = mem, eax' = eax
    PROVE  Passing'
<1>1. 1 .. pc - 1 = {} /\ 1 .. pc' - 1 = {}
  <2>1. \A p \in {0, 1} : 1 .. p - 1 = {}
    OBVIOUS
  <2>2. pc \in {0, 1} /\ pc' \in {0, 1}
    OBVIOUS
  <2>3. QED
    BY <2>1, <2>2
<1>2. PICK w : Waiting(w, args, code, pc)
  BY DEF Passing
<1>3. CASE args' = args
  <2>1. Waiting(w, args, code', pc')
    BY <1>1, <1>2 DEF Waiting
  <2>2. QED
    BY <1>1, <1>3, <2>1 DEF Passing, Results, Left
<1>4. CASE args' = <<>>
  <2>1. \E v : Waiting(v, <<>>, code', pc')
    BY <1>1, WaitingNone
  <2>2. QED
    BY <1>1, <1>4, <2>1 DEF Passing, Results, Left
<1>5. QED
  BY <1>3, <1>4

\* A step of the run.
LEMMA PassingRuns ==
    ASSUME IInv, Passing, NEW op, Runs(op),
           \/ op = "CALL" /\ args' = <<>>
           \/ op = "PARM" /\ Parm
           \/ op \notin {"PARM", "CALL"} /\ args' = args,
           Left(eax', code, pc + 1),
           mem' = mem \/ \E v : Stores(Instruction.dest, v) /\ Left(v, code, pc + 1)
    PROVE  Passing'
<1>1. /\ UNCHANGED genVars /\ pc' = pc + 1 /\ pc \in 1 .. Len(code) /\ pc \in DOMAIN code
      /\ Instruction.op = op /\ InstrOK(Instruction, prog, nextOffset)
      /\ Instruction.src \in Seq(Slots)
  BY RunFacts
<1>2. code' = code /\ pc \in Nat \ {0} /\ Instruction = code[pc]
  BY <1>1 DEF genVars, IInv, TypeOK, Instruction
<1>3. PICK w : Waiting(w, args, code, pc)
  BY DEF Passing
<1>4. args \in Seq(Slots) /\ Len(args) <= ArgRegs /\ mem \in [Slots -> Value] /\ ArgRegs \in Nat
  BY Kept
<1>5. \E v : Waiting(v, args', code, pc + 1)
  <2>1. CASE op = "CALL" /\ args' = <<>>
    BY <1>1, <1>2, <2>1, WaitingCall
  <2>2. CASE op = "PARM" /\ Parm
    <3>1. args' = IF Len(args) < ArgRegs THEN Append(args, code[pc].src[1]) ELSE args
      BY <1>2, <2>2 DEF Parm
    <3>2. code[pc].op = "PARM"
      BY <1>1, <1>2, <2>2
    <3>3. Len(Instruction.src) = 1
      BY <1>1, <2>2 DEF InstrOK
    <3>4. Instruction.src[1] \in Slots
      BY <1>1, <3>3
    <3>5. code[pc].src[1] \in Slots
      BY <1>2, <3>4
    <3>6. QED
      BY <1>2, <1>3, <1>4, <3>1, <3>2, <3>5, WaitingParm
  <2>3. CASE op \notin {"PARM", "CALL"} /\ args' = args
    BY <1>1, <1>2, <1>3, <2>3, WaitingSkip
  <2>4. QED
    BY <2>1, <2>2, <2>3
<1>6. Results(mem', eax', code, pc + 1)
  <2>1. mem' = mem \/ \E v : mem' = [mem EXCEPT ![code[pc].dest] = v] /\ Left(v, code, pc + 1)
    BY <1>2 DEF Stores
  <2>2. Results(mem, eax, code, pc)
    BY DEF Passing
  <2> DEFINE nn == mem'
             eb == eax'
  <2>3. Left(eb, code, pc + 1)
    OBVIOUS
  <2>4. nn = mem \/ \E v : nn = [mem EXCEPT ![code[pc].dest] = v] /\ Left(v, code, pc + 1)
    BY <2>1
  <2> HIDE DEF nn, eb
  <2>5. Results(nn, eb, code, pc + 1)
    BY <1>2, <1>4, <2>2, <2>3, <2>4, ResultsStep
  <2>6. QED
    BY <2>5 DEF nn, eb
<1>7. (\E v : Waiting(v, args', code', pc')) /\ Results(mem', eax', code', pc')
  BY <1>1, <1>2, <1>5, <1>6
<1>8. QED
  BY <1>7 DEF Passing

\* Every step keeps the list of arguments and the results.
LEMMA PassingNext == IInv /\ Passing /\ [Next]_vars => Passing'
<1> SUFFICES ASSUME IInv, Passing, [Next]_vars PROVE Passing'
  OBVIOUS
<1>1. CASE Generates
  <2>1. pc = 0 /\ UNCHANGED runVars
    BY <1>1 DEF Generates, Name, Literal, Random, Open, Binary, Identical, Conjunction, Negation,
                FunctionCall, Println, Reads, Closes, Generating
  <2>2. QED
    BY <2>1, PassingIdle DEF runVars
<1>2. CASE Start
  BY <1>2, PassingIdle DEF Start, Generating
<1>3. ASSUME NEW op, Runs(op)
      PROVE  /\ pc \in Nat \ {0} /\ Instruction = code[pc] /\ Instruction.op = op
             /\ Left(eax, code, pc)
  <2>1. pc \in 1 .. Len(code) /\ Instruction.op = op /\ Instruction = code[pc]
    BY <1>3, RunFacts DEF Instruction
  <2>2. pc \in Nat \ {0}
    BY <2>1 DEF IInv, TypeOK
  <2>3. QED
    BY <2>1, <2>2 DEF Passing, Results
<1>4. ASSUME NEW op, Runs(op)
      PROVE  /\ Left(eax, code, pc + 1) /\ Left(Garbage, code, pc + 1)
             /\ op # "PARM" => Left(Instruction.at, code, pc + 1)
  <2>1. pc \in Nat \ {0} /\ Instruction = code[pc] /\ Instruction.op = op /\ Left(eax, code, pc)
    BY <1>3, <1>4
  <2>2. QED
    BY <2>1, LeftBy
<1>5. CASE Asn
  <2>1. Runs("ASN") /\ Stores(Instruction.dest, Instruction.at) /\ args' = args /\ eax' = eax
    BY <1>5 DEF Asn
  <2>2. QED
    BY <1>4, <2>1, PassingRuns
<1>6. CASE Op
  <2>1. /\ Runs("OP") /\ Stores(Instruction.dest, Instruction.at) /\ args' = args
        /\ eax' = eax \/ eax' = Instruction.at
    BY <1>6 DEF Op
  <2>2. Left(eax', code, pc + 1) /\ Left(Instruction.at, code, pc + 1)
    BY <1>4, <2>1
  <2>3. QED
    BY <2>1, <2>2, PassingRuns
<1>7. CASE Parm
  <2>1. Runs("PARM") /\ mem' = mem /\ eax' = eax
    BY <1>7 DEF Parm
  <2>2. Left(eax', code, pc + 1)
    BY <1>4, <2>1
  <2>3. QED
    BY <1>7, <2>1, <2>2, PassingRuns
<1>8. CASE Call
  <2>1. Runs("CALL") /\ Stores(Instruction.dest, Result) /\ args' = <<>> /\ eax' = Result
    BY <1>8 DEF Call
  <2>2. Result = eax \/ Result = Instruction.at
    BY DEF Result
  <2>3. Left(eax', code, pc + 1) /\ Left(Result, code, pc + 1)
    BY <1>4, <2>1, <2>2
  <2>4. QED
    BY <2>1, <2>3, PassingRuns
<1>9. CASE CallPrintln
  <2>1. Runs("CALL") /\ mem' = mem /\ args' = <<>> /\ eax' = Garbage
    BY <1>9 DEF CallPrintln
  <2>2. Left(eax', code, pc + 1)
    BY <1>4, <2>1
  <2>3. QED
    BY <2>1, <2>2, PassingRuns
<1>10. CASE Srand
  <2>1. Runs("SRAND") /\ mem' = mem /\ args' = args /\ eax' = Garbage
    BY <1>10 DEF Srand
  <2>2. Left(eax', code, pc + 1)
    BY <1>4, <2>1
  <2>3. QED
    BY <2>1, <2>2, PassingRuns
<1>11. CASE Rand
  <2>1. Runs("RAND") /\ Stores(Instruction.dest, Instruction.at) /\ args' = args
        /\ eax' = Instruction.at
    BY <1>11 DEF Rand
  <2>2. Left(eax', code, pc + 1) /\ Left(Instruction.at, code, pc + 1)
    BY <1>4, <2>1
  <2>3. QED
    BY <2>1, <2>2, PassingRuns
<1>12. CASE UNCHANGED vars
  <2>1. code' = code /\ pc' = pc /\ args' = args /\ mem' = mem /\ eax' = eax
    BY <1>12 DEF vars, genVars, runVars
  <2>2. QED
    BY <2>1 DEF Passing
<1>13. CASE Stop
  BY <1>12, <1>13 DEF Stop
<1>14. QED
  BY <1>1, <1>2, <1>5, <1>6, <1>7, <1>8, <1>9, <1>10, <1>11, <1>12, <1>13 DEF Next, Generates

-----------------------------------------------------------------------------
\* The arguments a call gets

\* w and m are rising lists of the same numbers, as far as there is room in w.
Merged(n, len, w, m) ==
    /\ \A a \in 1 .. len : w[a] \in Nat
    /\ \A b \in 1 .. n : m[b] \in Nat
    /\ \A a, b \in 1 .. len : a < b => w[a] < w[b]
    /\ \A a, b \in 1 .. n : a < b => m[a] < m[b]
    /\ \A a \in 1 .. len : \E b \in 1 .. n : w[a] = m[b]
    /\ \A b \in 1 .. n : \/ \E a \in 1 .. len : w[a] = m[b]
                         \/ n <= len /\ \A a \in 1 .. len : w[a] < m[b]

\* Then they are the same list.
LEMMA Enumerated ==
    ASSUME NEW n \in Nat, NEW len \in Nat, NEW w, NEW m, Merged(n, len, w, m)
    PROVE  \A b \in 1 .. n : b \in 1 .. len /\ w[b] = m[b]
<1>0. /\ \A a \in 1 .. len : w[a] \in Nat
      /\ \A b \in 1 .. n : m[b] \in Nat
      /\ \A a, b \in 1 .. len : a < b => w[a] < w[b]
      /\ \A a, b \in 1 .. n : a < b => m[a] < m[b]
      /\ \A a \in 1 .. len : \E b \in 1 .. n : w[a] = m[b]
      /\ \A b \in 1 .. n : \/ \E a \in 1 .. len : w[a] = m[b]
                           \/ n <= len /\ \A a \in 1 .. len : w[a] < m[b]
  BY DEF Merged
<1> DEFINE Good(l) == l \in 1 .. len /\ w[l] = m[l]
           T == {j \in 0 .. n : \A l \in 1 .. j : Good(l)}
<1>1. 0 \in T
  <2>1. 0 \in 0 .. n /\ 1 .. 0 = {}
    OBVIOUS
  <2>2. QED
    BY <2>1
<1>2. ASSUME NEW k \in 0 .. n - 1, k \in T PROVE k + 1 \in T
  <2> DEFINE j == k + 1
  <2>1. j \in 1 .. n /\ j \in 0 .. n /\ \A l \in 1 .. j : l \in 1 .. k \/ l = j
    OBVIOUS
  <2>2. \A l \in 1 .. k : l \in 1 .. len /\ w[l] = m[l]
    BY <1>2
  <2>3. \A l \in 1 .. n : l < j => l \in 1 .. k
    OBVIOUS
  <2>4. j \in 1 .. len /\ w[j] <= m[j]
    <3>1. CASE n <= len /\ \A a \in 1 .. len : w[a] < m[j]
      <4>1. j \in 1 .. len
        BY <2>1, <3>1
      <4>2. w[j] \in Nat /\ m[j] \in Nat /\ w[j] < m[j]
        BY <1>0, <2>1, <3>1, <4>1
      <4>3. QED
        BY <4>1, <4>2
    <3>2. CASE \E a \in 1 .. len : w[a] = m[j]
      <4>1. PICK a \in 1 .. len : w[a] = m[j]
        BY <3>2
      <4>2. ~(a < j)
        <5>1. SUFFICES ASSUME a < j PROVE FALSE
          OBVIOUS
        <5>2. a \in 1 .. k
          BY <5>1
        <5>3. w[a] = m[a] /\ a \in 1 .. n
          BY <2>2, <5>2
        <5>4. m[a] < m[j] /\ m[a] \in Nat
          BY <1>0, <2>1, <5>1, <5>3
        <5>5. QED
          BY <4>1, <5>3, <5>4
      <4>3. j \in 1 .. len /\ (a = j \/ j < a)
        BY <4>2
      <4>4. w[j] \in Nat /\ w[a] \in Nat /\ (j < a => w[j] < w[a])
        BY <1>0, <4>3
      <4>5. QED
        BY <4>1, <4>3, <4>4
    <3>3. QED
      BY <1>0, <2>1, <3>1, <3>2
  <2>5. PICK b \in 1 .. n : w[j] = m[b]
    BY <1>0, <2>4
  <2>6. ~(b < j)
    <3>1. SUFFICES ASSUME b < j PROVE FALSE
      OBVIOUS
    <3>2. b \in 1 .. k
      BY <2>3, <3>1
    <3>3. b \in 1 .. len /\ w[b] = m[b]
      BY <2>2, <3>2
    <3>4. w[b] < w[j] /\ w[b] \in Nat
      BY <1>0, <2>4, <3>1, <3>3
    <3>5. QED
      BY <2>5, <3>3, <3>4
  <2>7. ~(j < b)
    <3>1. SUFFICES ASSUME j < b PROVE FALSE
      OBVIOUS
    <3>2. m[j] < m[b] /\ m[j] \in Nat /\ m[b] \in Nat
      BY <1>0, <2>1, <3>1
    <3>3. QED
      BY <2>4, <2>5, <3>2
  <2>8. b = j
    BY <2>1, <2>6, <2>7
  <2>9. Good(j)
    BY <2>4, <2>5, <2>8
  <2> HIDE DEF Good, j
  <2>10. \A l \in 1 .. j : Good(l)
    BY <1>2, <2>1, <2>9
  <2>11. j \in T
    BY <2>1, <2>10
  <2>12. QED
    BY <2>11 DEF j
<1>3. n \in 0 .. n
  OBVIOUS
<1> HIDE DEF T
<1>4. \A k \in 0 .. n : k \in T
  BY <1>1, <1>2, InductionUpTo
<1>5. n \in T
  BY <1>3, <1>4
<1>6. QED
  BY <1>5 DEF T

\* The slot that parameter k passes is written before it.
LEMMA WrittenBefore ==
    ASSUME IInv, NEW k \in DOMAIN code, code[k].op = "PARM",
           NEW l \in DOMAIN code, code[l].dest = code[k].src[1], code[l].dest # 0
    PROVE  l < k
<1>1. Len(code[k].src) = 1
  BY DEF IInv, CodeOK, InstrsOK, InstrOK
<1>2. code[k].src \in Seq(Slots)
  <2>1. code \in Seq(Instr)
    BY TextTyped
  <2>2. code[k] \in Instr
    BY <2>1
  <2>3. QED
    BY <2>2, InstrTyped
<1>3. 1 \in DOMAIN code[k].src
  BY <1>1, <1>2
<1>4. QED
  BY <1>3 DEF IInv, CodeOK, Ordered

\* When it has run, the slot has the value of the argument.
LEMMA ArgumentValue ==
    ASSUME IInv, NEW by, Tidy(by), NEW k \in DOMAIN code, code[k].op = "PARM", k < pc, Sound(by[k])
    PROVE  mem[code[k].src[1]] = by[k]
<1> DEFINE o == by[k]
           p == code[k].src[1]
<1>1. o \in DOMAIN prog /\ Placed(prog, code, o, p)
  BY DEF Tidy, Purpose, Ended
<1>2. prog[o] \notin {"identical"} \cup Logical \cup Silent \cup {"println"}
  BY DEF Sound
<1>3. \A l \in DOMAIN code : code[l].dest = p /\ p # 0 => l < pc
  <2> SUFFICES ASSUME NEW l \in DOMAIN code, code[l].dest = p, p # 0 PROVE l < pc
    OBVIOUS
  <2>1. l < k
    BY WrittenBefore
  <2>2. l \in Nat /\ k \in Nat /\ pc \in Nat
    BY DEF IInv, TypeOK
  <2>3. QED
    BY <2>1, <2>2
<1> HIDE DEF o, p
<1>4. mem[p] = o
  BY <1>1, <1>2, <1>3, ValueInPlace
<1>5. QED
  BY <1>4 DEF o, p

\* Two parameters are not for the same argument.
LEMMA PassedOnce ==
    ASSUME IInv, NEW by, Tidy(by), NEW k \in DOMAIN code, NEW m \in DOMAIN code,
           code[k].op = "PARM", code[m].op = "PARM", by[k] = by[m]
    PROVE  k = m
<1>1. Ended(by[k]) /\ k \in Nat /\ m \in Nat
  BY DEF Tidy, Purpose
<1>2. ~Sooner(by[k], by[k])
  BY <1>1, SoonerOrder
<1>3. ~(k < m) /\ ~(m < k)
  BY <1>2 DEF Tidy
<1>4. QED
  BY <1>1, <1>3

\* What has been left before parameter k was run is of an event that ends no later.
LEMMA LeftEarlier ==
    ASSUME IInv, NEW by, Tidy(by), NEW k \in DOMAIN code, NEW l \in 1 .. k, NEW x, x # Garbage,
           Left(x, code, l)
    PROVE  Ended(x) /\ Past(x) <= Past(by[k])
<1>1. PICK r \in 1 .. l - 1 : code[r].op # "PARM" /\ code[r].at = x
  BY DEF Left
<1>2. r \in DOMAIN code /\ r < k
  <2>1. DOMAIN code = 1 .. Len(code) /\ Len(code) \in Nat
    BY DEF Tidy
  <2>2. k \in Nat /\ k <= Len(code)
    BY <2>1
  <2>3. QED
    BY <2>1, <2>2
<1>3. by[r] = x /\ Ended(x) /\ Ended(by[k])
  BY <1>1, <1>2 DEF Tidy, Purpose
<1>4. Sooner(x, by[k]) \/ x = by[k]
  BY <1>2, <1>3 DEF Tidy
<1>5. Past(x) \in Nat /\ Past(by[k]) \in Nat
  BY <1>3, EndedTyped
<1>6. QED
  BY <1>3, <1>4, <1>5 DEF Sooner

\* A call of i under way at pc, with what is known of its run.
Calling(by, i, m, w) ==
    /\ Tidy(by) /\ Makings(by, pc, i, m) /\ SoundOperands(i)
    /\ Waiting(w, args, code, pc) /\ Results(mem, eax, code, pc)

\* The numbers of the instructions that wait.
LEMMA CallingTyped ==
    ASSUME IInv, NEW by, NEW i, NEW m, NEW w, Calling(by, i, m, w)
    PROVE  /\ pc \in Nat /\ pc \in DOMAIN code /\ DOMAIN code = 1 .. Len(code) /\ Len(code) \in Nat
           /\ DOMAIN args = 1 .. Len(args) /\ Len(args) \in Nat /\ Len(args) <= ArgRegs
           /\ m \in DOMAIN code /\ m \in Nat
           /\ \A k \in 1 .. pc - 1 : k \in DOMAIN code /\ k < pc /\ k \in Nat
           /\ \A n \in DOMAIN args :
                 /\ w[n] \in 1 .. pc - 1 /\ w[n] \in DOMAIN code /\ w[n] < pc /\ w[n] \in Nat
                 /\ Waits(code, w[n], pc) /\ code[w[n]].op = "PARM" /\ args[n] = code[w[n]].src[1]
<1>1. /\ pc \in DOMAIN code /\ DOMAIN code = 1 .. Len(code) /\ Len(code) \in Nat /\ m \in DOMAIN code
  BY DEF Calling, Makings, Tidy
<1>2. DOMAIN args = 1 .. Len(args) /\ Len(args) \in Nat /\ Len(args) <= ArgRegs
  BY DEF IInv, TypeOK
<1>3. \A k \in 1 .. pc - 1 : k \in DOMAIN code /\ k < pc /\ k \in Nat
  BY <1>1
<1>4. \A n \in DOMAIN args : w[n] \in 1 .. pc - 1 /\ Waits(code, w[n], pc) /\ args[n] = code[w[n]].src[1]
  BY DEF Calling, Waiting
<1>5. \A n \in DOMAIN args : code[w[n]].op = "PARM"
  BY <1>4 DEF Waits
<1>6. pc \in Nat /\ m \in Nat
  BY <1>1
<1>7. QED
  BY <1>1, <1>2, <1>3, <1>4, <1>5, <1>6

\* If the first register has the first argument of i, it was passed for i.
LEMMA FirstIsOwn ==
    ASSUME IInv, NEW by, NEW i, NEW m, NEW w, Calling(by, i, m, w),
           1 \in DOMAIN args, mem[args[1]] = Operand(i, 1)
    PROVE  w[1] = m
<1> DEFINE k == w[1]
           x == Operand(i, 1)
           y == by[k]
           o == code[k].at
           s == args[1]
<1>1. /\ k \in DOMAIN code /\ k < pc /\ k \in Nat /\ Waits(code, k, pc) /\ code[k].op = "PARM"
      /\ s = code[k].src[1]
  BY CallingTyped
<1>2. Tidy(by) /\ Makings(by, pc, i, m) /\ SoundOperands(i) /\ Results(mem, eax, code, pc)
  BY DEF Calling
<1>3. /\ Ended(i) /\ i \in Calls /\ 1 \in 1 .. Operands(prog[i])
      /\ m \in DOMAIN code /\ code[m].op = "PARM" /\ by[m] = x
  BY <1>2 DEF Makings
<1>4. /\ Purpose(k, y) /\ Ended(y)
  BY <1>1, <1>2 DEF Tidy, Purpose
<1>5. Ended(x) /\ i < x
  BY <1>3, OperandEnded
<1>6. /\ i \in Nat /\ x \in Nat \ {0} /\ Past(x) \in Nat /\ x < Past(x)
      /\ y \in Nat /\ Past(y) \in Nat
  BY <1>3, <1>4, <1>5, EndedTyped
<1> HIDE DEF k, x, y, o, s
<1>7. CASE o = i
  <2>1. PICK j \in 1 .. Operands(prog[i]) : y = Operand(i, j)
    BY <1>1, <1>4, <1>7 DEF Purpose, o
  <2>2. Sound(y)
    BY <1>2, <2>1 DEF SoundOperands
  <2>3. mem[s] = y
    BY <1>1, <1>2, <2>2, ArgumentValue DEF y
  <2>4. x = y
    BY <2>3 DEF s, x
  <2>5. k = m
    BY <1>1, <1>2, <1>3, <2>4, PassedOnce DEF y
  <2>6. QED
    BY <2>5 DEF k
<1>8. CASE o # i
  <2>1. Past(y) <= i
    BY <1>1, <1>2, <1>8, WaitsAround DEF y, o
  <2>2. mem[s] = x
    BY DEF s, x
  <2>3. s \in Slots /\ s \in Nat /\ MaxLen \in Nat
    <3>1. s \in Slots
      BY DEF s, IInv, TypeOK
    <3>2. QED
      BY <3>1, TextTyped DEF Slots
  <2>4. CASE s <= MaxLen
    <3>1. mem[s] = s
      BY <2>3, <2>4 DEF IInv, ValuesHeld
    <3>2. s < Past(y)
      BY <1>1, <1>4, <2>4 DEF Purpose
    <3>3. QED
      BY <1>5, <1>6, <2>1, <2>2, <3>1, <3>2
  <2>5. CASE MaxLen < s
    <3>1. mem[s] # Garbage
      BY <1>6, <2>2 DEF Garbage
    <3>2. PICK l \in 1 .. pc - 1 : code[l].dest = s /\ Left(mem[s], code, l + 1)
      BY <1>2, <2>3, <2>5, <3>1 DEF Results
    <3>3. l \in DOMAIN code /\ l \in Nat
      BY <3>2, CallingTyped
    <3>4. l < k
      BY <1>1, <2>3, <2>5, <3>2, <3>3, WrittenBefore
    <3>5. l + 1 \in 1 .. k
      BY <1>1, <3>3, <3>4, <3>2
    <3>6. Past(x) <= Past(y)
      BY <1>1, <1>2, <2>2, <3>1, <3>2, <3>5, LeftEarlier DEF y
    <3>7. QED
      BY <1>5, <1>6, <2>1, <3>6
  <2>6. QED
    BY <2>3, <2>4, <2>5
<1>9. QED
  BY <1>7, <1>8

\* Then no call has been made since, and nothing else waits.
LEMMA OwnFirst ==
    ASSUME IInv, NEW by, NEW i, NEW m, NEW w, Calling(by, i, m, w),
           1 \in DOMAIN args, w[1] = m
    PROVE  Undisturbed(i)
<1>1. Tidy(by) /\ Makings(by, pc, i, m) /\ Waiting(w, args, code, pc)
  BY DEF Calling
<1>2. m \in 1 .. pc - 1 /\ Waits(code, m, pc)
  BY CallingTyped
<1>3. Quiet(code, m, pc)
  BY <1>2 DEF Waits
<1>4. \A j \in 2 .. Operands(prog[i]), k \in Calls : ~Inside(k, Operand(i, j))
  BY <1>1, <1>3, QuietArguments
<1>5. ASSUME NEW k \in DOMAIN code, k < m, Waits(code, k, pc) PROVE FALSE
  <2>1. k \in 1 .. pc - 1 /\ k \in Nat /\ m \in Nat
    BY <1>2, <1>5, CallingTyped
  <2>2. (\E n \in DOMAIN args : w[n] = k) \/ \A n \in DOMAIN args : w[n] < k
    BY <1>1, <1>5, <2>1 DEF Waiting
  <2>3. CASE \A n \in DOMAIN args : w[n] < k
    <3>1. m < k
      BY <2>3
    <3>2. QED
      BY <1>5, <2>1, <3>1
  <2>4. CASE \E n \in DOMAIN args : w[n] = k
    <3>1. PICK n \in DOMAIN args : w[n] = k
      BY <2>4
    <3>2. n = 1 \/ 1 < n
      BY CallingTyped
    <3>3. 1 < n => w[1] < w[n]
      BY <1>1 DEF Waiting
    <3>4. QED
      BY <1>5, <2>1, <3>1, <3>2, <3>3
  <2>5. QED
    BY <2>2, <2>3, <2>4
<1>6. Gone(i)
  BY <1>1, <1>3, <1>5, OthersGone
<1>7. QED
  BY <1>4, <1>6 DEF Undisturbed, Gone

\* Of the operands of o, the left ones end sooner.
LEMMA OperandsInOrder ==
    ASSUME IInv, NEW o, Ended(o), NEW a \in 1 .. Operands(prog[o]), NEW b \in 1 .. Operands(prog[o]), a < b
    PROVE  Sooner(Operand(o, a), Operand(o, b))
<1> DEFINE n == Operands(prog[o])
           d == b - (a + 1)
           at(j) == Operand(o, a + 1 + j)
           z == Operand(o, a + 1)
           T == {j \in 0 .. d : z <= at(j)}
<1>1. n \in Nat /\ d \in Nat /\ a + 1 + d = b /\ a + 1 \in 1 .. n /\ a + 1 + 0 = a + 1
  BY EndedTyped
<1>2. ASSUME NEW j \in 0 .. d PROVE at(j) \in Nat
  <2>1. a + 1 + j \in 1 .. n
    BY <1>1
  <2>2. Ended(at(j))
    BY <2>1, OperandEnded
  <2>3. QED
    BY <2>2, EndedTyped
<1>3. ASSUME NEW j \in 0 .. d - 1 PROVE at(j) < at(j + 1)
  <2>1. a + 1 + j \in 1 .. n /\ (a + 1 + j) + 1 = a + 1 + (j + 1)
    BY <1>1
  <2>2. Ended(at(j)) /\ Past(at(j)) = at(j + 1)
    BY <2>1, OperandEnded
  <2>3. QED
    BY <2>2, EndedTyped
<1>4. at(0) = z
  BY <1>1
<1>5. at(d) = Operand(o, b)
  BY <1>1
<1> HIDE DEF n, d, at, z
<1>6. 0 \in T
  <2>1. 0 \in 0 .. d
    BY <1>1
  <2>2. z \in Nat
    BY <1>2, <1>4, <2>1
  <2>3. QED
    BY <1>4, <2>1, <2>2
<1>7. ASSUME NEW j \in 0 .. d - 1, j \in T PROVE j + 1 \in T
  <2>1. j \in 0 .. d /\ j + 1 \in 0 .. d /\ 0 \in 0 .. d
    BY <1>1
  <2>2. z \in Nat /\ at(j) \in Nat /\ at(j + 1) \in Nat
    BY <1>2, <1>4, <2>1
  <2>3. z <= at(j) /\ at(j) < at(j + 1)
    BY <1>3, <1>7
  <2>4. QED
    BY <2>1, <2>2, <2>3
<1> HIDE DEF T
<1>8. \A j \in 0 .. d : j \in T
  BY <1>1, <1>6, <1>7, InductionUpTo
<1>9. z <= Operand(o, b)
  <2>1. d \in T
    BY <1>1, <1>8
  <2>2. QED
    BY <1>5, <2>1 DEF T
<1>10. /\ Past(Operand(o, a)) = z /\ Ended(Operand(o, b))
  BY OperandEnded DEF z
<1>11. z \in Nat
  BY <1>1, <1>2, <1>4
<1>12. Operand(o, b) \in Nat /\ Past(Operand(o, b)) \in Nat /\ Operand(o, b) < Past(Operand(o, b))
  BY <1>10, EndedTyped
<1>13. Past(Operand(o, a)) < Past(Operand(o, b))
  BY <1>9, <1>10, <1>11, <1>12
<1>14. QED
  BY <1>13 DEF Sooner

\* What waits is what i passes, one parameter for each argument, if nothing disturbs it.
LEMMA AllOwn ==
    ASSUME IInv, NEW by, NEW i, NEW m, NEW w, Calling(by, i, m, w), Undisturbed(i),
           Operands(prog[i]) <= ArgRegs
    PROVE  \A j \in 1 .. Operands(prog[i]) : j \in DOMAIN args /\ by[w[j]] = Operand(i, j)
<1> DEFINE n == Operands(prog[i])
           Passes(k, j) == k \in DOMAIN code /\ code[k].op = "PARM" /\ code[k].at = i /\ by[k] = Operand(i, j)
           p == [j \in 1 .. n |-> CHOOSE k : Passes(k, j)]
<1>1. Tidy(by) /\ Makings(by, pc, i, m) /\ Waiting(w, args, code, pc)
  BY DEF Calling
<1>2. /\ Ended(i) /\ i \in Calls /\ code[pc].op = "CALL" /\ by[pc] = i /\ 1 \in 1 .. n
      /\ Passes(m, 1) /\ pc \in DOMAIN code
  BY <1>1 DEF Makings
<1>3. n \in Nat
  BY <1>2, EndedTyped
<1>4. ASSUME NEW j \in 1 .. n PROVE \E k : Passes(k, j)
  BY <1>1, <1>2 DEF Tidy
<1>5. \A j \in 1 .. n : Passes(p[j], j)
  <2> SUFFICES ASSUME NEW j \in 1 .. n PROVE Passes(p[j], j)
    OBVIOUS
  <2>1. p[j] = CHOOSE k : Passes(k, j)
    OBVIOUS
  <2> HIDE DEF p, Passes
  <2>2. QED
    BY <1>4, <2>1
<1> HIDE DEF p
<1>6. Quiet(code, m, pc)
  BY <1>1, QuietArguments DEF Undisturbed
<1>7. Gone(i)
  BY DEF Undisturbed, Gone
<1>8. \A a, b \in 1 .. n : a < b => p[a] < p[b]
  <2> SUFFICES ASSUME NEW a \in 1 .. n, NEW b \in 1 .. n, a < b PROVE p[a] < p[b]
    OBVIOUS
  <2>1. Sooner(Operand(i, a), Operand(i, b))
    BY <1>2, OperandsInOrder
  <2>2. Sooner(by[p[a]], by[p[b]]) /\ p[a] \in DOMAIN code /\ p[b] \in DOMAIN code
    BY <1>5, <2>1
  <2>3. QED
    BY <1>1, <2>2, TidyOrder
<1>9. \A b \in 1 .. n : p[b] \in Nat /\ m <= p[b] /\ p[b] < pc
  <2> SUFFICES ASSUME NEW b \in 1 .. n PROVE p[b] \in Nat /\ m <= p[b] /\ p[b] < pc
    OBVIOUS
  <2>1. Passes(p[b], b) /\ Passes(p[1], 1)
    BY <1>2, <1>5
  <2>2. p[1] = m
    BY <1>1, <1>2, <2>1, PassedOnce
  <2>3. p[b] \in Nat /\ m \in Nat
    BY <2>1, CallingTyped
  <2>4. b = 1 \/ 1 < b
    OBVIOUS
  <2>5. m <= p[b]
    BY <1>2, <1>8, <2>2, <2>3, <2>4
  <2>6. code[pc].at = i
    BY <1>1, <1>2 DEF Tidy, Purpose
  <2>7. p[b] < pc
    BY <1>1, <1>2, <2>1, <2>6, PassedBefore
  <2>8. QED
    BY <2>3, <2>5, <2>7
<1>10. \A b \in 1 .. n : p[b] \in 1 .. pc - 1 /\ Waits(code, p[b], pc)
  <2> SUFFICES ASSUME NEW b \in 1 .. n PROVE p[b] \in 1 .. pc - 1 /\ Waits(code, p[b], pc)
    OBVIOUS
  <2>1. Passes(p[b], b) /\ p[b] \in Nat /\ m <= p[b] /\ p[b] < pc
    BY <1>5, <1>9
  <2>2. pc \in Nat /\ m \in Nat /\ p[b] \in 1 .. pc - 1
    BY <2>1, CallingTyped
  <2>3. Quiet(code, p[b], pc)
    BY <1>6, <2>1, <2>2 DEF Quiet
  <2>4. QED
    BY <2>1, <2>2, <2>3 DEF Waits
<1>11. \A a \in 1 .. Len(args) : \E b \in 1 .. n : w[a] = p[b]
  <2> SUFFICES ASSUME NEW a \in 1 .. Len(args) PROVE \E b \in 1 .. n : w[a] = p[b]
    OBVIOUS
  <2> DEFINE k == w[a]
  <2>1. k \in DOMAIN code /\ k < pc /\ Waits(code, k, pc) /\ code[k].op = "PARM"
    BY CallingTyped
  <2>2. code[k].at = i
    BY <1>1, <1>7, <2>1, OwnWait
  <2>3. PICK b \in 1 .. n : by[k] = Operand(i, b)
    BY <1>1, <2>1, <2>2 DEF Tidy, Purpose
  <2>4. Passes(p[b], b)
    BY <1>5
  <2>5. k = p[b]
    BY <1>1, <2>1, <2>3, <2>4, PassedOnce
  <2>6. QED
    BY <2>5
<1>12. \A b \in 1 .. n : \/ \E a \in 1 .. Len(args) : w[a] = p[b]
                         \/ n <= Len(args) /\ \A a \in 1 .. Len(args) : w[a] < p[b]
  <2> SUFFICES ASSUME NEW b \in 1 .. n
               PROVE  \/ \E a \in 1 .. Len(args) : w[a] = p[b]
                      \/ n <= Len(args) /\ \A a \in 1 .. Len(args) : w[a] < p[b]
    OBVIOUS
  <2>1. \/ \E a \in DOMAIN args : w[a] = p[b]
        \/ Len(args) = ArgRegs /\ \A a \in DOMAIN args : w[a] < p[b]
    BY <1>1, <1>10 DEF Waiting
  <2>2. DOMAIN args = 1 .. Len(args)
    BY CallingTyped
  <2>3. QED
    BY <2>1, <2>2
<1>13. \A a, b \in 1 .. Len(args) : a < b => w[a] < w[b]
  BY <1>1, CallingTyped DEF Waiting
<1>14. Len(args) \in Nat /\ DOMAIN args = 1 .. Len(args) /\ \A a \in 1 .. Len(args) : w[a] \in Nat
  BY CallingTyped
<1>15. \A b \in 1 .. n : p[b] \in Nat
  BY <1>9
<1> DEFINE len == Len(args)
<1>16. \A b \in 1 .. n : b \in 1 .. len /\ w[b] = p[b]
  <2>1. len \in Nat /\ \A a \in 1 .. len : w[a] \in Nat
    BY <1>14
  <2>2. \A a, b \in 1 .. len : a < b => w[a] < w[b]
    BY <1>13
  <2>3. \A a \in 1 .. len : \E b \in 1 .. n : w[a] = p[b]
    BY <1>11
  <2>4. \A b \in 1 .. n : \/ \E a \in 1 .. len : w[a] = p[b]
                          \/ n <= len /\ \A a \in 1 .. len : w[a] < p[b]
    BY <1>12
  <2> HIDE DEF n, len
  <2>5. QED
    <3>1. Merged(n, len, w, p)
      <4>1. \A b \in 1 .. n : p[b] \in Nat
        BY <1>15
      <4>2. \A a, b \in 1 .. n : a < b => p[a] < p[b]
        BY <1>8
      <4>3. \A a \in 1 .. len : w[a] \in Nat
        BY <2>1
      <4>4. QED
        BY ONLY <2>2, <2>3, <2>4, <4>1, <4>2, <4>3 DEF Merged
    <3>2. QED
      BY <1>3, <2>1, <3>1, Enumerated
<1> HIDE DEF n, Passes
<1>17. \A b \in 1 .. n : by[p[b]] = Operand(i, b)
  BY <1>5 DEF Passes
<1>18. \A b \in 1 .. n : b \in DOMAIN args /\ by[w[b]] = Operand(i, b)
  BY <1>14, <1>16, <1>17
<1>19. QED
  BY <1>18 DEF n

\* A call gets its arguments exactly if nothing disturbs it.
LEMMA CallServed ==
    ASSUME IInv, Faithful, Arranged, Passing, pc \in DOMAIN code, code[pc].op = "CALL",
           NEW i, i = code[pc].at, SoundOperands(i),
           Operands(prog[i]) > 0, Operands(prog[i]) <= ArgRegs
    PROVE  [j \in 1 .. Operands(prog[i]) |-> Register(j)] = Expected(i) <=> Undisturbed(i)
<1> DEFINE n == Operands(prog[i])
<1>1. pc # 0
  <2>1. DOMAIN code = 1 .. Len(code)
    BY DEF IInv, TypeOK
  <2>2. QED
    BY <2>1
<1>2. stack = <<>> /\ Translated
  BY <1>1 DEF Faithful, Ran
<1>3. PICK by : Tidy(by)
  BY <1>2, TidyCode
<1>4. by[pc] = i /\ i \in Calls /\ Ended(i)
  BY <1>3 DEF Tidy, Purpose
<1>5. n \in Nat
  BY <1>4, EndedTyped
<1>6. 1 \in 1 .. n
  BY <1>5
<1>7. PICK m \in DOMAIN code : code[m].op = "PARM" /\ code[m].at = i /\ by[m] = Operand(i, 1)
  BY <1>3, <1>4, <1>6 DEF Tidy
<1>8. Makings(by, pc, i, m)
  BY <1>4, <1>6, <1>7 DEF Makings
<1>9. PICK w : Waiting(w, args, code, pc)
  BY DEF Passing
<1>10. Calling(by, i, m, w)
  BY <1>3, <1>8, <1>9 DEF Calling, Passing
<1>11. DOMAIN args = 1 .. Len(args) /\ Len(args) \in Nat
  BY <1>10, CallingTyped
<1>12. ASSUME [j \in 1 .. n |-> Register(j)] = Expected(i) PROVE Undisturbed(i)
  <2>1. [j \in 1 .. n |-> Register(j)][1] = Expected(i)[1]
    BY <1>12
  <2>2. Register(1) = Operand(i, 1)
    BY <1>6, <2>1 DEF Expected
  <2>3. Operand(i, 1) \in Nat \ {0}
    BY <1>4, <1>6, OperandEnded, EndedTyped
  <2>4. 1 <= Len(args)
    BY <1>11, <2>2, <2>3 DEF Register, Garbage
  <2>5. 1 \in DOMAIN args /\ mem[args[1]] = Operand(i, 1)
    BY <1>11, <2>2, <2>4 DEF Register
  <2>6. w[1] = m
    BY <1>10, <2>5, FirstIsOwn
  <2>7. QED
    BY <1>10, <2>5, <2>6, OwnFirst
<1>13. ASSUME Undisturbed(i) PROVE [j \in 1 .. n |-> Register(j)] = Expected(i)
  <2>1. SUFFICES ASSUME NEW j \in 1 .. n PROVE Register(j) = Operand(i, j)
    BY DEF Expected
  <2>2. j \in DOMAIN args /\ by[w[j]] = Operand(i, j)
    BY <1>10, <1>13, AllOwn
  <2>3. /\ w[j] \in DOMAIN code /\ w[j] < pc /\ code[w[j]].op = "PARM" /\ args[j] = code[w[j]].src[1]
    BY <1>10, <2>2, CallingTyped
  <2>4. Sound(by[w[j]])
    BY <2>2 DEF SoundOperands
  <2>5. mem[code[w[j]].src[1]] = by[w[j]]
    BY <1>3, <2>3, <2>4, ArgumentValue
  <2>6. Register(j) = mem[args[j]]
    BY <1>11, <2>2 DEF Register
  <2>7. QED
    BY <2>2, <2>3, <2>5, <2>6
<1>14. QED
  BY <1>12, <1>13

\* What the property says of an entry.
Served(r) ==
    r.at \in Calls /\ SoundOperands(r.at) /\ Operands(prog[r.at]) > 0
    => (r.args = Expected(r.at) <=> Undisturbed(r.at))

\* The entry of a function.
LEMMA FunctionServed ==
    ASSUME IInv, Faithful, Arranged, Passing, Call
    PROVE  done' = Append(done, done'[Len(done) + 1]) /\ Served(done'[Len(done) + 1])
<1> DEFINE i == code[pc].at
           r == [at |-> i, args |-> [j \in 1 .. Arity[prog[i]] |-> Register(j)]]
<1>1. /\ pc \in DOMAIN code /\ code[pc].op = "CALL" /\ prog[i] \in Functions
      /\ done' = Append(done, r)
  BY DEF Call, Runs, Instruction, Did
<1>2. done \in Seq([at : 1 .. MaxLen, args : Seq(Value)]) /\ Len(done) \in Nat
  BY DEF IInv, TypeOK
<1>3. done'[Len(done) + 1] = r
  BY <1>1, <1>2
<1>4. Operands(prog[i]) = Arity[prog[i]] /\ Arity[prog[i]] <= ArgRegs
  <2> DEFINE kind == prog[i]
  <2>1. kind \in Functions /\ Arity \in [Functions -> 0 .. ArgRegs] /\ ArgRegs \in Nat
    BY <1>1, ExprAssumption DEF ExprAssumption
  <2>2. kind \notin Leaves \cup {"not", "println"}
    BY <2>1, ExprAssumption DEF ExprAssumption, Logical
  <2> HIDE DEF kind
  <2>3. Arity[kind] \in 0 .. ArgRegs
    BY <2>1
  <2>4. Operands(kind) = Arity[kind]
    BY <2>1, <2>2 DEF Operands
  <2>5. QED
    BY <2>1, <2>3, <2>4 DEF kind
<1>5. ASSUME SoundOperands(i), Operands(prog[i]) > 0
      PROVE  [j \in 1 .. Operands(prog[i]) |-> Register(j)] = Expected(i) <=> Undisturbed(i)
  <2>1. Operands(prog[i]) <= ArgRegs
    BY <1>4
  <2>2. QED
    BY ONLY IInv, Faithful, Arranged, Passing, <1>1, <1>5, <2>1, CallServed
<1>6. Served(r)
  BY <1>4, <1>5 DEF Served
<1>7. QED
  BY <1>1, <1>3, <1>6

\* The entry of println.
LEMMA PrintlnServed ==
    ASSUME IInv, Faithful, Arranged, Passing, CallPrintln
    PROVE  done' = Append(done, done'[Len(done) + 1]) /\ Served(done'[Len(done) + 1])
<1> DEFINE i == code[pc].at
           r == [at |-> i, args |-> <<Register(1)>>]
<1>1. /\ pc \in DOMAIN code /\ code[pc].op = "CALL" /\ prog[i] = "println"
      /\ done' = Append(done, r)
  BY DEF CallPrintln, Runs, Instruction, Did
<1>2. done \in Seq([at : 1 .. MaxLen, args : Seq(Value)]) /\ Len(done) \in Nat
  BY DEF IInv, TypeOK
<1>3. done'[Len(done) + 1] = r
  BY <1>1, <1>2
<1>4. Operands(prog[i]) = 1 /\ 1 <= ArgRegs
  BY <1>1, ExprAssumption DEF ExprAssumption, Operands, Leaves
<1>5. <<Register(1)>> = [j \in 1 .. 1 |-> Register(j)]
  OBVIOUS
<1>6. ASSUME SoundOperands(i), Operands(prog[i]) > 0
      PROVE  [j \in 1 .. Operands(prog[i]) |-> Register(j)] = Expected(i) <=> Undisturbed(i)
  <2>1. Operands(prog[i]) <= ArgRegs
    BY <1>4
  <2>2. QED
    BY ONLY IInv, Faithful, Arranged, Passing, <1>1, <1>6, <2>1, CallServed
<1>7. Served(r)
  BY <1>4, <1>5, <1>6 DEF Served
<1>8. QED
  BY <1>1, <1>3, <1>7

-----------------------------------------------------------------------------
\* The property

\* What the text tells stays.
LEMMA AfterSame == ASSUME prog' = prog PROVE After' = After
  BY DEF After

\* So does what the property says of an entry.
LEMMA StillServed ==
    ASSUME prog' = prog, NEW r, Served(r) PROVE Served(r)'
<1> DEFINE i == r.at
<1>1. After' = After /\ Events' = Events /\ Calls' = Calls
  BY AfterSame DEF Events, Calls
<1>2. Operands(prog'[i]) = Operands(prog[i])
  OBVIOUS
<1>3. \A o, j : Operand(o, j)' = Operand(o, j)
  BY <1>1 DEF Operand
<1>4. \A o : Past(o)' = Past(o)
  BY <1>1 DEF Past
<1>5. \A o, k : Inside(k, o)' <=> Inside(k, o)
  BY <1>4 DEF Inside
<1>6. Undisturbed(i)' <=> Undisturbed(i)
  BY <1>1, <1>3, <1>4, <1>5 DEF Undisturbed
<1>7. Expected(i)' = Expected(i)
  BY <1>2, <1>3 DEF Expected
<1>8. \A o : Sound(o)' <=> Sound(o)
  BY DEF Sound
<1>9. SoundOperands(i)' <=> SoundOperands(i)
  BY <1>3, <1>8 DEF SoundOperands
<1>10. QED
  BY <1>1, <1>2, <1>6, <1>7, <1>9 DEF Served

\* The property, entry by entry.
LEMMA AllServed == ArgumentsArriveIfUndisturbed <=> \A n \in DOMAIN done : Served(done[n])
  BY DEF ArgumentsArriveIfUndisturbed, Served

\* It is left as it is by what adds entries that are served.
LEMMA ServedStays ==
    ASSUME ArgumentsArriveIfUndisturbed, prog' = prog,
           \A n \in DOMAIN done' : (n \in DOMAIN done /\ done'[n] = done[n]) \/ Served(done'[n])
    PROVE  ArgumentsArriveIfUndisturbed'
<1>1. ASSUME NEW n \in DOMAIN done' PROVE Served(done[n])'
  <2>1. PICK r : r = done'[n]
    OBVIOUS
  <2>2. Served(r)
    BY <1>1, <2>1, AllServed
  <2>3. Served(r)'
    BY <2>2, StillServed
  <2>4. QED
    BY <2>1, <2>3 DEF Served, Expected, Undisturbed, Operand, Past, Inside, SoundOperands, Sound,
                      Calls, Events
<1>2. \A n \in DOMAIN done' : Served(done[n])'
  BY <1>1
<1>3. (\A n \in DOMAIN done : Served(done[n]))'
  BY <1>2
<1>4. (ArgumentsArriveIfUndisturbed <=> \A n \in DOMAIN done : Served(done[n]))'
  BY AllServed, PTL
<1>5. QED
  BY <1>3, <1>4

\* Every step serves whom it should.
LEMMA ServedNext ==
    IInv /\ Faithful /\ Arranged /\ Passing /\ ArgumentsArriveIfUndisturbed /\ [Next]_vars
    => ArgumentsArriveIfUndisturbed'
<1> SUFFICES ASSUME IInv, Faithful, Arranged, Passing, ArgumentsArriveIfUndisturbed, [Next]_vars
             PROVE  ArgumentsArriveIfUndisturbed'
  OBVIOUS
<1>1. done \in Seq([at : 1 .. MaxLen, args : Seq(Value)]) /\ Len(done) \in Nat
  BY DEF IInv, TypeOK
<1>2. \A r : LET d == Append(done, r)
             IN  /\ DOMAIN d = 1 .. Len(done) + 1 /\ d[Len(done) + 1] = r
                 /\ \A n \in DOMAIN d : (n \in DOMAIN done /\ d[n] = done[n]) \/ n = Len(done) + 1
  BY <1>1
<1>3. ASSUME NEW r, done' = Append(done, r), Served(r), prog' = prog
      PROVE  ArgumentsArriveIfUndisturbed'
  <2>1. \A n \in DOMAIN done' : (n \in DOMAIN done /\ done'[n] = done[n]) \/ Served(done'[n])
    <3> SUFFICES ASSUME NEW n \in DOMAIN done'
                 PROVE  (n \in DOMAIN done /\ done'[n] = done[n]) \/ Served(done'[n])
      OBVIOUS
    <3>1. (n \in DOMAIN done /\ done'[n] = done[n]) \/ n = Len(done) + 1
      BY <1>2, <1>3
    <3>2. CASE n = Len(done) + 1
      <4>1. done'[n] = r
        BY <1>2, <1>3, <3>2
      <4>2. QED
        BY <1>3, <4>1
    <3>3. QED
      BY <3>1, <3>2
  <2>2. QED
    BY <1>3, <2>1, ServedStays
<1>4. ASSUME done' = done, prog' = prog PROVE ArgumentsArriveIfUndisturbed'
  BY <1>4, ServedStays
<1>5. CASE Generates
  <2>1. done' = done /\ pc = 0
    BY <1>5 DEF Generates, Name, Literal, Random, Open, Binary, Identical, Conjunction, Negation,
                FunctionCall, Println, Reads, Closes, Generating, runVars
  <2>2. done' = <<>>
    BY <2>1 DEF Faithful, Ran
  <2>3. DOMAIN done' = {}
    BY <2>2
  <2>4. QED
    BY <2>3 DEF ArgumentsArriveIfUndisturbed
<1>6. CASE Start \/ Stop \/ UNCHANGED vars \/ Asn \/ Parm \/ Srand
  <2>1. done' = done /\ prog' = prog
    BY <1>6 DEF Start, Stop, Asn, Parm, Srand, Runs, vars, genVars, runVars
  <2>2. QED
    BY <1>4, <2>1
<1>7. CASE Call
  <2>1. prog' = prog
    BY <1>7 DEF Call, Runs, genVars
  <2>2. PICK r : r = done'[Len(done) + 1]
    OBVIOUS
  <2>3. done' = Append(done, r) /\ Served(r)
    BY <1>7, <2>2, FunctionServed
  <2>4. QED
    BY <1>3, <2>1, <2>3
<1>8. CASE CallPrintln
  <2>1. prog' = prog
    BY <1>8 DEF CallPrintln, Runs, genVars
  <2>2. PICK r : r = done'[Len(done) + 1]
    OBVIOUS
  <2>3. done' = Append(done, r) /\ Served(r)
    BY <1>8, <2>2, PrintlnServed
  <2>4. QED
    BY <1>3, <2>1, <2>3
<1>9. CASE Op \/ Rand
  <2>1. prog' = prog /\ pc \in DOMAIN code /\ code[pc].op \in {"OP", "RAND"}
    BY <1>9 DEF Op, Rand, Runs, genVars
  <2>2. PICK r : done' = Append(done, r) /\ r.at = code[pc].at
    BY <1>9 DEF Op, Rand, Did, Instruction
  <2>3. r.at \notin Calls
    <3>1. Asked(prog, code, code[pc])
      BY <2>1 DEF Faithful, Translated, OpsOK
    <3>2. prog[r.at] \in {"random"} \cup Numeric \cup Compared
      BY <2>1, <2>2, <3>1 DEF Asked
    <3>3. ~Called(prog[r.at])
      BY <3>2, ExprAssumption DEF ExprAssumption, Called, Leaves, Numeric, Compared
    <3>4. QED
      BY <3>3 DEF Calls
  <2>4. QED
    BY <1>3, <2>1, <2>2, <2>3 DEF Served
<1>10. QED
  BY <1>5, <1>6, <1>7, <1>8, <1>9 DEF Next, Generates

\* A call gets its own arguments exactly if no other call's are in the way: the
\* list of write_asm_file is one for all calls under way.
THEOREM ArgumentsAreRight == Spec => []ArgumentsArriveIfUndisturbed
<1> DEFINE Inv == IInv /\ Faithful /\ Arranged /\ Passing /\ ArgumentsArriveIfUndisturbed
<1>1. Init => Inv
  <2>1. Init => ArgumentsArriveIfUndisturbed
    BY DEF Init, ArgumentsArriveIfUndisturbed
  <2>2. QED
    BY <2>1, InitInv, FaithfulInit, ArrangedInit, PassingInit
<1>2. Inv /\ [Next]_vars => Inv'
  BY NextInv, FaithfulNext, ArrangedNext, PassingNext, ServedNext
<1>3. QED
  BY <1>1, <1>2, PTL DEF Spec
=============================================================================
