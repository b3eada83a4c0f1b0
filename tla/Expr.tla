---------------------------------- MODULE Expr ----------------------------------
(***************************************************************************)
(* Expressions: generate_code (codegen.c) turns them into three address    *)
(* code, write_asm_file turns that into assembly, which then runs.  The    *)
(* code of an expression has no branches, so each instruction is written   *)
(* and run in one step, in the order of the list.                          *)
(*                                                                         *)
(* A value is the index of the event that computes it, so that a value in  *)
(* the wrong place shows, every name being a variable of its own; Garbage  *)
(* is anything else.  Slot n of the frame is at offset 8n, the variables   *)
(* before the temporaries; slot 0 stands for NULL_ADDR and is the saved    *)
(* frame pointer to whoever reads it.                                      *)
(*                                                                         *)
(* Bound: MaxLen events of the kinds in Kinds, in Polish notation: an      *)
(* operator, then its operands.  The types of operands are respected.      *)
(***************************************************************************)
EXTENDS Integers, Sequences

CONSTANTS Kinds,      \* leaves, operators and functions of a run
          Arity,      \* the number of parameters of each function
          Silent,     \* functions that end in the return of a name or a literal
          ArgRegs,    \* argument registers, 6 in the code
          MaxLen

Leaves == {"name", "literal", "random"}
Numeric == {"arithmetic", "max"}  \* +, -, * and /; % leaves the quotient in eax
Compared == {"comparison", "equality", "identical"}
Logical == {"and", "or", "not"}
Functions == DOMAIN Arity

ASSUME ExprAssumption ==
    /\ Kinds \subseteq Leaves \cup Numeric \cup Compared \cup Logical
                       \cup Functions \cup {"println"}
    /\ Arity \in [Functions -> 0 .. ArgRegs]
    /\ Functions \cap (Leaves \cup Numeric \cup Compared \cup Logical \cup {"println"}) = {}
    /\ Silent \subseteq Functions
    /\ ArgRegs \in Nat \ {0}
    /\ MaxLen \in Nat \ {0}

VARIABLES
    prog,        \* the events read
    stack,       \* the expressions being generated
    code,        \* the instructions generated
    roots,       \* the places of the statements' values
    nextOffset,  \* the first free slot of currentFunctionSymtab
    seeded,      \* static of generate_code
    pc,          \* the instruction being written and run, 0 before
    args,        \* args_off of write_asm_file, argc of them
    mem,         \* what the frame's slots hold
    eax,         \* what register eax holds
    done         \* the operations that have run, with the values they got

genVars == <<prog, stack, code, roots, nextOffset, seeded>>
runVars == <<pc, args, mem, eax, done>>
vars == <<genVars, runVars>>

Garbage == 0
Slots == 0 .. 2 * MaxLen
Value == 0 .. MaxLen

Operands(kind) ==
    CASE kind \in Functions -> Arity[kind]
      [] kind \in Leaves -> 0
      [] kind \in {"not", "println"} -> 1
      [] OTHER -> 2

Called(kind) == kind \in Functions \cup {"println"}

-----------------------------------------------------------------------------
\* Generating

Instr == [op : {"ASN", "OP", "PARM", "CALL", "SRAND", "RAND"},
          at : 0 .. MaxLen, dest : Slots, src : Seq(Slots)]
Do(op, at, dest, src) == [op |-> op, at |-> at, dest |-> dest, src |-> src]

Inner == stack[Len(stack)]
Pop == SubSeq(stack, 1, Len(stack) - 1)
Here == Len(prog) + 1
Generating == pc = 0

\* Operands still to come, those of the expressions under way included.
Due[n \in 0 .. Len(stack)] ==
    IF n = 0 THEN 0
    ELSE Due[n - 1] + Operands(prog[stack[n].at]) - Len(stack[n].places)
                    - (IF n < Len(stack) THEN 1 ELSE 0)

\* The types an expression of this kind may have, and those its operands must.
Types(kind) == IF kind = "name" THEN {"number", "boolean"}
               ELSE IF kind \in Compared \cup Logical THEN {"boolean"}
               ELSE IF kind = "println" THEN {"unit"} ELSE {"number"}
Wanted == IF stack = <<>> THEN {"number", "boolean", "unit"}
          ELSE CASE prog[Inner.at] \in Logical -> {"boolean"}
                 [] prog[Inner.at] = "println" -> {"number", "boolean"}
                 [] OTHER -> {"number"}

Reads(kind) ==
    /\ Generating /\ kind \in Kinds
    /\ stack # <<>> => Len(Inner.places) < Operands(prog[Inner.at])
    /\ Types(kind) \cap Wanted # {}
    /\ Len(prog) < MaxLen
    /\ Len(prog) + (IF stack = <<>> THEN 1 ELSE Due[Len(stack)]) + Operands(kind) <= MaxLen
    /\ prog' = Append(prog, kind)

\* Faults: a temporary that is not new; the lists the other way round.
StaleTemp == IF nextOffset > MaxLen + 1 THEN nextOffset - 1 ELSE nextOffset

ConcatReversed(l1, l2) == l2 \o l1

new_temp == nextOffset
concat(l1, l2) == l1 \o l2

\* The code is made and its value is in place p: the statement, or the operand
\* of the expression around, which passes it on if it is a call.
Yield(rest, p, is) ==
    IF rest = <<>>
    THEN stack' = rest /\ roots' = Append(roots, p) /\ code' = concat(code, is)
    ELSE LET around == rest[Len(rest)]
             parm == IF Called(prog'[around.at]) THEN <<Do("PARM", around.at, 0, <<p>>)>> ELSE <<>>
         IN  /\ stack' = [rest EXCEPT ![Len(rest)] =
                            [at |-> around.at, places |-> Append(around.places, p)]]
             /\ code' = concat(concat(code, is), parm)
             /\ UNCHANGED roots

Init ==
    /\ prog = <<>> /\ stack = <<>> /\ code = <<>> /\ roots = <<>>
    /\ nextOffset = MaxLen + 1 /\ seeded = FALSE
    /\ pc = 0 /\ args = <<>> /\ eax = Garbage /\ done = <<>>
    /\ mem = [s \in Slots |-> IF s <= MaxLen THEN s ELSE Garbage]

\* No code: the place is the variable's.
Name ==
    /\ Reads("name")
    /\ Yield(stack, Here, <<>>)
    /\ UNCHANGED <<nextOffset, seeded, runVars>>

Literal ==
    /\ Reads("literal")
    /\ nextOffset' = nextOffset + 1
    /\ Yield(stack, new_temp, <<Do("ASN", Here, new_temp, <<>>)>>)
    /\ UNCHANGED <<seeded, runVars>>

\* java.util.Random.nextInt(); the first one in the file seeds.
Random ==
    LET rand == Do("RAND", Here, new_temp, <<>>)
    IN  /\ Reads("random")
        /\ nextOffset' = nextOffset + 1
        /\ seeded' = TRUE
        /\ Yield(stack, new_temp,
                 IF seeded THEN <<rand>> ELSE <<Do("SRAND", Here, 0, <<>>), rand>>)
        /\ UNCHANGED runVars

Open(kind) ==
    /\ kind \notin Leaves
    /\ Reads(kind)
    /\ stack' = Append(stack, [at |-> Here, places |-> <<>>])
    /\ UNCHANGED <<code, roots, nextOffset, seeded, runVars>>

Closes(kinds) ==
    /\ Generating /\ stack # <<>>
    /\ prog[Inner.at] \in kinds
    /\ Len(Inner.places) = Operands(prog[Inner.at])
    /\ UNCHANGED prog

\* +, <, == and Math.max: both operands, then one instruction.
Binary ==
    /\ Closes(Numeric \cup (Compared \ {"identical"}))
    /\ nextOffset' = nextOffset + 1
    /\ Yield(Pop, new_temp, <<Do("OP", Inner.at, new_temp, Inner.places)>>)
    /\ UNCHANGED <<seeded, runVars>>

\* === has no token to tell what to do: a temporary, and nothing that sets it.
Identical ==
    /\ Closes({"identical"})
    /\ nextOffset' = nextOffset + 1
    /\ Yield(Pop, new_temp, <<>>)
    /\ UNCHANGED <<seeded, runVars>>

\* && and || are not the names generate_code has cases for: the code of the
\* operands, and no place.
Conjunction ==
    /\ Closes({"and", "or"})
    /\ Yield(Pop, 0, <<>>)
    /\ UNCHANGED <<nextOffset, seeded, runVars>>

\* A node with one child is its child.
Negation ==
    /\ Closes({"not"})
    /\ Yield(Pop, Inner.places[1], <<>>)
    /\ UNCHANGED <<nextOffset, seeded, runVars>>

\* Fault: the temporary of the result is taken, but not counted.
FunctionCallKeepsOffset ==
    /\ Closes(Functions)
    /\ UNCHANGED nextOffset
    /\ Yield(Pop, new_temp, <<Do("CALL", Inner.at, new_temp, <<>>)>>)
    /\ UNCHANGED <<seeded, runVars>>

FunctionCall ==
    /\ Closes(Functions)
    /\ nextOffset' = nextOffset + 1
    /\ Yield(Pop, new_temp, <<Do("CALL", Inner.at, new_temp, <<>>)>>)
    /\ UNCHANGED <<seeded, runVars>>

\* A call whose value nobody takes.
Println ==
    /\ Closes({"println"})
    /\ Yield(Pop, 0, <<Do("CALL", Inner.at, 0, <<>>)>>)
    /\ UNCHANGED <<nextOffset, seeded, runVars>>

-----------------------------------------------------------------------------
\* Writing and running the code

\* D_PROC: no arguments yet.
Start ==
    /\ Generating /\ stack = <<>> /\ prog # <<>>
    /\ pc' = 1
    /\ args' = <<>>
    /\ UNCHANGED <<genVars, mem, eax, done>>

Runs(op) == pc \in DOMAIN code /\ code[pc].op = op /\ pc' = pc + 1 /\ UNCHANGED genVars
Instruction == code[pc]

Stores(s, v) == mem' = [mem EXCEPT ![s] = v]
Did(values) == done' = Append(done, [at |-> Instruction.at, args |-> values])

\* A constant goes to memory without a register.
Asn ==
    /\ Runs("ASN")
    /\ Stores(Instruction.dest, Instruction.at)
    /\ UNCHANGED <<args, eax, done>>

\* The result is left in eax too (max, which works in xmm0, aside).
Op ==
    /\ Runs("OP")
    /\ Stores(Instruction.dest, Instruction.at)
    /\ Did(<<mem[Instruction.src[1]], mem[Instruction.src[2]]>>)
    /\ eax' = IF prog[Instruction.at] = "max" THEN eax ELSE Instruction.at
    /\ UNCHANGED args

\* Fault: the list is not bounded.
ParmUnbounded ==
    /\ Runs("PARM")
    /\ args' = Append(args, Instruction.src[1])
    /\ UNCHANGED <<mem, eax, done>>

\* Past the last register a parameter is dropped.
Parm ==
    /\ Runs("PARM")
    /\ args' = IF Len(args) < ArgRegs THEN Append(args, Instruction.src[1]) ELSE args
    /\ UNCHANGED <<mem, eax, done>>

\* The register a callee reads its parameter from, by position.
Register(i) == IF i <= Len(args) THEN mem[args[i]] ELSE Garbage

\* A silent function leaves eax alone, and the caller stores it all the same.
Result == IF prog[Instruction.at] \in Silent THEN eax ELSE Instruction.at

\* Fault: the arguments stay for the next call.
CallKeepsArguments ==
    /\ Runs("CALL") /\ prog[Instruction.at] \in Functions
    /\ Did([i \in 1 .. Arity[prog[Instruction.at]] |-> Register(i)])
    /\ eax' = Result
    /\ Stores(Instruction.dest, Result)
    /\ UNCHANGED args

Call ==
    /\ Runs("CALL") /\ prog[Instruction.at] \in Functions
    /\ Did([i \in 1 .. Arity[prog[Instruction.at]] |-> Register(i)])
    /\ eax' = Result
    /\ Stores(Instruction.dest, Result)
    /\ args' = <<>>

\* printf for println with one argument, which is all it ever has; eax is what
\* printf returns.
CallPrintln ==
    /\ Runs("CALL") /\ prog[Instruction.at] = "println" /\ Len(args) = 1
    /\ Did(<<Register(1)>>)
    /\ eax' = Garbage
    /\ args' = <<>>
    /\ UNCHANGED mem

Srand ==
    /\ Runs("SRAND")
    /\ eax' = Garbage
    /\ UNCHANGED <<args, mem, done>>

Rand ==
    /\ Runs("RAND")
    /\ Stores(Instruction.dest, Instruction.at)
    /\ Did(<<>>)
    /\ eax' = Instruction.at
    /\ UNCHANGED args

Finished == pc = Len(code) + 1

Stop == Finished /\ UNCHANGED vars

Next ==
    \/ Name \/ Literal \/ Random
    \/ \E kind \in Kinds : Open(kind)
    \/ Binary \/ Identical \/ Conjunction \/ Negation \/ FunctionCall \/ Println
    \/ Start \/ Asn \/ Op \/ Parm \/ Call \/ CallPrintln \/ Srand \/ Rand
    \/ Stop

Spec == Init /\ [][Next]_vars

-----------------------------------------------------------------------------

TypeOK ==
    /\ prog \in Seq(Kinds) /\ Len(prog) <= MaxLen
    /\ stack \in Seq([at : 1 .. MaxLen, places : Seq(Slots)])
    /\ code \in Seq(Instr)
    /\ roots \in Seq(Slots)
    /\ nextOffset \in MaxLen + 1 .. 2 * MaxLen + 1
    /\ seeded \in BOOLEAN
    /\ pc \in 0 .. Len(code) + 1
    /\ args \in Seq(Slots) /\ Len(args) <= ArgRegs
    /\ mem \in [Slots -> Value]
    /\ eax \in Value
    /\ done \in Seq([at : 1 .. MaxLen, args : Seq(Value)])
=============================================================================
