-------------------------------- MODULE Codegen --------------------------------
(***************************************************************************)
(* The control flow generate_code (codegen.c) gives to statements: labels, *)
(* branches, current_break_label.  generate_code calls itself on the parts *)
(* of a statement; here a compound statement is two steps, what is done    *)
(* before its body and after it, with the C frame in between on stack.     *)
(*                                                                         *)
(* The source text is a sequence of events made up as the generator goes.  *)
(* Straight-line code is one instruction DO.  Every instruction that acts  *)
(* or tests keeps the point <<event, part>> of the source it stands for,   *)
(* which the compiler does not: the properties compare the two.            *)
(*                                                                         *)
(* Bound: MaxLen events of the kinds in Kinds.                             *)
(***************************************************************************)
EXTENDS Integers, Sequences

CONSTANTS Kinds,    \* the statements a run looks at
          MaxLen,
          NULL

\* A bare return, and one with a value, which the grammar turns into its value.
Simple == {"do", "array", "break", "continue", "return", "value"}

\* for (;;), for (x in a..b) and for (x in a..<b) are for, range and until.
Loops == {"while", "for", "range", "until", "doWhile"}
Compound == {"if", "ifElse"} \cup Loops

\* The loops generate_code has no case for: it collects the code of their parts.
Unknown == {"until", "doWhile"}

\* The places of the source that instructions stand for.
Place == Nat \X {"entry", "do", "init", "test", "step"}

ASSUME CodegenAssumption ==
    /\ Kinds \subseteq Simple \cup Compound
    /\ MaxLen \in Nat
    /\ NULL \notin Nat \cup Place

VARIABLES
    prog,                 \* the events of the source so far
    code,                 \* the instructions generated so far
    stack,                \* the calls of generate_code under way
    labelcounter,         \* the global of tac.c
    current_break_label,  \* the global of codegen.c
    crashed               \* a null pointer was dereferenced

vars == <<prog, code, stack, labelcounter, current_break_label, crashed>>

Label == Nat
Point == Place \cup {NULL}
Instr == [op : {"PROC", "END", "RET", "LABEL", "BR", "BZ", "BNZ", "DO"},
          label : Label \cup {NULL}, src : Point]

\* at is the event that opened the construct, body the length of the source
\* when its body began; start is the else label of an if with an else.
Frame == [kind : Compound \cup {"fun", "else"}, at : Nat, body : Nat,
          start : Label, end : Label, saved : Label \cup {NULL}]

I(op, l) == [op |-> op, label |-> l, src |-> NULL]
Act(i, part) == [op |-> "DO", label |-> NULL, src |-> <<i, part>>]
Test(l, i) == [op |-> "BZ", label |-> l, src |-> <<i, "test">>]

-----------------------------------------------------------------------------

Inner == stack[Len(stack)]
InFunction == stack # <<>>
Pop == SubSeq(stack, 1, Len(stack) - 1)

\* Room for the event, those it needs to be closed, and the ends and elses due.
Due == Len(stack) + Len(SelectSeq(stack, LAMBDA f : f.kind = "ifElse"))
Room(more) == Len(prog) + Due + more <= MaxLen

\* The index of the event being generated.
Here == Len(prog) + 1

Reads(op) == prog' = Append(prog, op)

Emit(s) == code' = code \o s

Open(kind, start, end, saved) ==
    stack' = Append(stack, [kind |-> kind, at |-> Here, body |-> Here,
                            start |-> start, end |-> end, saved |-> saved])

\* Faults: counting down; counting one label however many were made.
GenlabelsDown(n) == labelcounter' = labelcounter - n
GenlabelsOnce(n) == labelcounter' = labelcounter + 1

genlabels(n) == labelcounter' = labelcounter + n

Init ==
    /\ prog = <<>> /\ code = <<>> /\ stack = <<>>
    /\ labelcounter = 0
    /\ current_break_label = NULL
    /\ crashed = FALSE

Statement(kind, more) ==
    /\ ~crashed /\ InFunction /\ kind \in Kinds /\ Room(more)
    /\ Reads(kind)

-----------------------------------------------------------------------------
\* Functions

FunctionBegin ==
    /\ ~crashed /\ ~InFunction /\ Room(2)
    /\ Reads("fun")
    /\ Open("fun", labelcounter, labelcounter, NULL)
    /\ genlabels(1)
    /\ Emit(<<[op |-> "PROC", label |-> labelcounter, src |-> <<Here, "entry">>]>>)
    /\ UNCHANGED <<current_break_label, crashed>>

\* A RET is added unless the code ends in one.
FunctionEnd ==
    /\ ~crashed /\ InFunction /\ Inner.kind = "fun"
    /\ Reads("end")
    /\ stack' = Pop
    /\ Emit(IF code[Len(code)].op = "RET" THEN <<I("END", Inner.end)>>
            ELSE <<I("RET", NULL), I("END", Inner.end)>>)
    /\ UNCHANGED <<labelcounter, current_break_label, crashed>>

-----------------------------------------------------------------------------
\* Statements without a body

Straight ==
    /\ Statement("do", 1) \/ Statement("value", 1)
    /\ Emit(<<Act(Here, "do")>>)
    /\ UNCHANGED <<stack, labelcounter, current_break_label, crashed>>

\* Both array declarations fill the array in a loop of their own.
ArrayDeclaration ==
    LET top == labelcounter
        exit == labelcounter + 1
    IN  /\ Statement("array", 1)
        /\ genlabels(2)
        /\ Emit(<<Act(Here, "init"), I("LABEL", top),
                   [op |-> "BNZ", label |-> exit, src |-> <<Here, "test">>],
                   Act(Here, "step"), I("BR", top), I("LABEL", exit)>>)
        /\ UNCHANGED <<stack, current_break_label, crashed>>

\* Without a loop to leave there is a message, and no code.
Break ==
    /\ Statement("break", 1)
    /\ Emit(IF current_break_label = NULL THEN <<>> ELSE <<I("BR", current_break_label)>>)
    /\ UNCHANGED <<stack, labelcounter, current_break_label, crashed>>

\* A statement no case of generate_code knows, without parts.
Continue ==
    /\ Statement("continue", 1)
    /\ UNCHANGED <<code, stack, labelcounter, current_break_label, crashed>>

Return ==
    /\ Statement("return", 1)
    /\ Emit(<<[op |-> "RET", label |-> NULL, src |-> <<Here, "do">>]>>)
    /\ UNCHANGED <<stack, labelcounter, current_break_label, crashed>>

-----------------------------------------------------------------------------
\* Before the body

IfBegin ==
    /\ Statement("if", 2)
    /\ Open("if", labelcounter, labelcounter, NULL)
    /\ genlabels(1)
    /\ Emit(<<Test(labelcounter, Here)>>)
    /\ UNCHANGED <<current_break_label, crashed>>

\* The else label is generated first, and tested for.
IfElseBegin ==
    /\ Statement("ifElse", 3)
    /\ Open("ifElse", labelcounter, labelcounter + 1, NULL)
    /\ genlabels(2)
    /\ Emit(<<Test(labelcounter, Here)>>)
    /\ UNCHANGED <<current_break_label, crashed>>

LoopHead(kind, before) ==
    LET start == labelcounter
        end == labelcounter + 1
    IN  /\ Statement(kind, 2)
        /\ Open(kind, start, end, current_break_label)
        /\ genlabels(2)
        /\ Emit(before \o <<I("LABEL", start), Test(end, Here)>>)
        /\ UNCHANGED crashed

WhileBegin ==
    /\ LoopHead("while", <<>>)
    /\ current_break_label' = labelcounter + 1

ForBegin ==
    /\ LoopHead("for", <<Act(Here, "init")>>)
    /\ current_break_label' = labelcounter + 1

\* for (;c;u) and for (i;c;): init->code or update->code of a null pointer.
ForIncomplete ==
    /\ Statement("for", 2)
    /\ crashed' = TRUE
    /\ UNCHANGED <<code, stack, labelcounter, current_break_label>>

\* A range loop leaves current_break_label as it is.
RangeBegin ==
    /\ LoopHead("range", <<Act(Here, "init")>>)
    /\ UNCHANGED current_break_label

\* For a..<b and do, the code of the parts, in the order of the text.
UnknownBegin(kind, before) ==
    /\ Statement(kind, 2)
    /\ Open(kind, labelcounter, labelcounter, NULL)
    /\ Emit(before)
    /\ UNCHANGED <<labelcounter, current_break_label, crashed>>

UntilBegin == UnknownBegin("until", <<Act(Here, "init")>>)
DoBegin == UnknownBegin("doWhile", <<>>)

-----------------------------------------------------------------------------
\* After the body.  An empty block is a null pointer, whose code field is read.

BodyEmpty == Len(prog) = Inner.body

Closes(kind) == ~crashed /\ InFunction /\ Inner.kind = kind

EmptyBlock ==
    /\ ~crashed /\ InFunction /\ Inner.kind \notin Unknown \cup {"fun"} /\ BodyEmpty
    /\ Reads("end")
    /\ crashed' = TRUE
    /\ UNCHANGED <<code, stack, labelcounter, current_break_label>>

IfEnd ==
    /\ Closes("if") \/ Closes("else")
    /\ ~BodyEmpty
    /\ Reads("end")
    /\ stack' = Pop
    /\ Emit(<<I("LABEL", Inner.end)>>)
    /\ UNCHANGED <<labelcounter, current_break_label, crashed>>

\* Fault: no branch over the else.
ElseFallsThrough ==
    /\ Closes("ifElse") /\ ~BodyEmpty
    /\ Reads("else")
    /\ stack' = [stack EXCEPT ![Len(stack)] = [Inner EXCEPT !.kind = "else", !.body = Here]]
    /\ Emit(<<I("LABEL", Inner.start)>>)
    /\ UNCHANGED <<labelcounter, current_break_label, crashed>>

Else ==
    /\ Closes("ifElse") /\ ~BodyEmpty
    /\ Reads("else")
    /\ stack' = [stack EXCEPT ![Len(stack)] = [Inner EXCEPT !.kind = "else", !.body = Here]]
    /\ Emit(<<I("BR", Inner.end), I("LABEL", Inner.start)>>)
    /\ UNCHANGED <<labelcounter, current_break_label, crashed>>

\* Fault: the end label is not placed.
LoopTailWithoutLabel(after) ==
    /\ ~BodyEmpty
    /\ Reads("end")
    /\ stack' = Pop
    /\ Emit(after \o <<I("BR", Inner.start)>>)
    /\ UNCHANGED <<labelcounter, crashed>>

LoopTail(after) ==
    /\ ~BodyEmpty
    /\ Reads("end")
    /\ stack' = Pop
    /\ Emit(after \o <<I("BR", Inner.start), I("LABEL", Inner.end)>>)
    /\ UNCHANGED <<labelcounter, crashed>>

\* Faults: the label of the loop around is not restored, or is forgotten.
WhileEndKeepsBreak ==
    /\ Closes("while")
    /\ LoopTail(<<>>)
    /\ UNCHANGED current_break_label

ForEndForgetsBreak ==
    /\ Closes("for")
    /\ LoopTail(<<Act(Inner.at, "step")>>)
    /\ current_break_label' = NULL

WhileEnd ==
    /\ Closes("while")
    /\ LoopTail(<<>>)
    /\ current_break_label' = Inner.saved

ForEnd ==
    /\ Closes("for")
    /\ LoopTail(<<Act(Inner.at, "step")>>)
    /\ current_break_label' = Inner.saved

RangeEnd ==
    /\ Closes("range")
    /\ LoopTail(<<Act(Inner.at, "step")>>)
    /\ UNCHANGED current_break_label

UnknownEnd(kind, after) ==
    /\ Closes(kind)
    /\ Reads("end")
    /\ stack' = Pop
    /\ Emit(after)
    /\ UNCHANGED <<labelcounter, current_break_label, crashed>>

UntilEnd == UnknownEnd("until", <<>>)
DoEnd == UnknownEnd("doWhile", <<Act(Inner.at, "test")>>)

Stop == (crashed \/ (~InFunction /\ ~Room(2))) /\ UNCHANGED vars

Next ==
    \/ FunctionBegin \/ FunctionEnd
    \/ Straight \/ ArrayDeclaration \/ Break \/ Continue \/ Return
    \/ IfBegin \/ IfElseBegin \/ WhileBegin \/ ForBegin \/ ForIncomplete \/ RangeBegin
    \/ UntilBegin \/ DoBegin \/ UntilEnd \/ DoEnd
    \/ EmptyBlock \/ Else \/ IfEnd \/ WhileEnd \/ ForEnd \/ RangeEnd
    \/ Stop

Spec == Init /\ [][Next]_vars

-----------------------------------------------------------------------------
\* Properties

TypeOK ==
    /\ prog \in Seq({"fun", "end", "else"} \cup Simple \cup Compound)
    /\ code \in Seq(Instr)
    /\ stack \in Seq(Frame)
    /\ labelcounter \in Nat
    /\ current_break_label \in Label \cup {NULL}
    /\ crashed \in BOOLEAN
=============================================================================
