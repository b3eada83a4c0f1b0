------------------------------ MODULE CodegenRules ------------------------------
(***************************************************************************)
(* What the code of Codegen must do, told by the text of the program.      *)
(*                                                                         *)
(* A point <<i, part>> of the text is a place where something is done: the *)
(* statement of event i ("do"), a loop's initialisation and step, a test.  *)
(***************************************************************************)
EXTENDS Codegen

Events == DOMAIN prog

\* After the end of a function; where no code should get to.
Exit == <<0, "exit">>
Lost == <<0, "lost">>
Opening == {i \in Events : prog[i] \in {"fun"} \cup Compound}

\* The construct whose body the text before event i ends in.
Depth[i \in 0 .. Len(prog)] ==
    IF i = 0 THEN 0
    ELSE Depth[i - 1] + (IF i \in Opening THEN 1 ELSE IF prog[i] = "end" THEN -1 ELSE 0)

Within(i, o) == o \in Opening /\ o < i /\ \A k \in o .. i - 1 : Depth[k] >= Depth[o]

\* The event that ends the body of o, and the else of o.
Close(o) == CHOOSE e \in Events : prog[e] = "end" /\ Within(e, o) /\ Depth[e] = Depth[o] - 1
ElseOf(o) == CHOOSE e \in Events : prog[e] = "else" /\ Within(e, o) /\ Depth[e] = Depth[o]
OpenerOf(e) == CHOOSE o \in Opening : Within(e, o) /\ Depth[o] = Depth[e - 1]

Innermost(S) == CHOOSE o \in S : \A p \in S : p <= o

(***************************************************************************)
(* The first point reached from just before event i, where break leaves    *)
(* the innermost construct of the kinds breakable around it.               *)
(***************************************************************************)
Begin(breakable) ==
    LET B[i \in 1 .. Len(prog)] ==
          LET op == prog[i]
              left == {o \in Opening : prog[o] \in breakable /\ Within(i, o)}
              opener == OpenerOf(i)
          IN  CASE op \in {"do", "value", "return"} -> <<i, "do">>
                [] op \in {"array", "for", "range", "until"} -> <<i, "init">>
                [] op \in {"if", "ifElse", "while"} -> <<i, "test">>
                [] op = "break" /\ left # {} -> B[Close(Innermost(left)) + 1]
                [] op = "else" -> B[Close(opener) + 1]
                [] op = "end" ->
                     CASE prog[opener] = "fun" -> Exit
                       [] prog[opener] \in {"while", "doWhile"} -> <<opener, "test">>
                       [] prog[opener] \in {"for", "range"} -> <<opener, "step">>
                       [] OTHER -> B[i + 1]
                [] OTHER -> B[i + 1]
    IN  B

\* The point after p, where a test came out as holds.  A return is no exception:
\* the text after it is done next.
TextSucc(breakable, p, holds) ==
    LET i == p[1]
        B == Begin(breakable)
        next == B[i + 1]
        op == prog[i]
    IN  CASE p[2] \in {"entry", "do"} -> next
          [] p[2] = "init" -> IF op = "until" THEN next ELSE <<i, "test">>
          [] p[2] = "step" -> <<i, "test">>
          [] p[2] = "test" ->
               CASE op = "array" -> IF holds THEN next ELSE <<i, "step">>
                 [] op = "doWhile" -> B[Close(i) + 1]
                 [] OTHER -> IF holds THEN next
                             ELSE B[(IF op = "ifElse" THEN ElseOf(i) ELSE Close(i)) + 1]

-----------------------------------------------------------------------------
\* The code

Code == DOMAIN code
Branches == {k \in Code : code[k].op \in {"BR", "BZ", "BNZ"}}
Placed(l) == {k \in Code : code[k].op = "LABEL" /\ code[k].label = l}
PlaceOf(l) == CHOOSE k \in Placed(l) : TRUE

\* The point control comes to from instruction k, in at most n instructions.  Only
\* END has a ret in the assembly; for RET nothing is written that moves control.
Land(k) ==
    LET L[n \in 0 .. Len(code)] ==
          [i \in 1 .. Len(code) + 1 |->
              IF n = 0 \/ i \notin Code THEN Lost
              ELSE IF code[i].src # NULL THEN code[i].src
              ELSE IF code[i].op = "END" THEN Exit
              ELSE IF code[i].op # "BR" THEN L[n - 1][i + 1]
              ELSE IF Placed(code[i].label) = {} THEN Lost
              ELSE L[n - 1][PlaceOf(code[i].label)]]
    IN  L[Len(code)][k]

CodeSucc(k, holds) ==
    LET i == code[k]
        jumps == (i.op = "BZ" /\ ~holds) \/ (i.op = "BNZ" /\ holds)
    IN  IF ~jumps THEN Land(k + 1)
        ELSE IF Placed(i.label) = {} THEN Lost ELSE Land(PlaceOf(i.label))

Follows(breakable) ==
    \A k \in Code, holds \in BOOLEAN : code[k].src # NULL =>
        CodeSucc(k, holds) = TextSucc(breakable, code[k].src, holds)

Finished == ~InFunction /\ ~crashed

-----------------------------------------------------------------------------
\* Properties

\* Every construct still open has a label of its own to come, two for the first
\* half of an if with an else; break can only go to the end of a loop still open.
Pending(f) == IF f.kind \in Unknown \cup {"fun"} THEN {}
              ELSE IF f.kind = "ifElse" THEN {f.start, f.end} ELSE {f.end}
Owed(st) == UNION {Pending(st[i]) : i \in DOMAIN st}

\* A label is placed once in a file (generate_code, genlabel).
LabelsUnique ==
    \A j, k \in Code : code[j].op = "LABEL" /\ code[k].op = "LABEL"
                       /\ code[j].label = code[k].label => j = k

\* A branch goes to a label placed already, or to one a statement under way will
\* place: an assembler finds every target, whatever the nesting and the breaks.
BranchesLand ==
    \A k \in Branches : code[k].label \in Owed(stack) \/ Placed(code[k].label) # {}

\* No branch leaves its function.
BranchesStayInside ==
    \A k \in Branches, m \in Code :
        code[m].op = "LABEL" /\ code[m].label = code[k].label =>
            \A e \in Code : code[e].op = "END" => (e < k <=> e < m)

\* b is the end of the innermost while or for among the n outermost constructs
\* of st, and NULL when there is none.
BreakIs(st, b, n) ==
    LET loops == {i \in 1 .. n : st[i].kind \in {"while", "for"}}
    IN  \/ b = NULL /\ loops = {}
        \/ \E i \in loops : b = st[i].end /\ \A j \in loops : j <= i

\* current_break_label, one global for a whole recursion, always names the end of
\* the innermost while or for: saved and restored around bodies of any nesting.
BreakGoesToInnermost == BreakIs(stack, current_break_label, Len(stack))

\* The code of a finished file does, point by point, what its text says: each
\* statement, test, initialisation and step is followed by the one the text puts
\* after it, with break leaving the innermost while or for, until and do running
\* their body once, and continue nothing.  A function is left at its end alone: a
\* return in the middle, with a value or without, goes on with what follows it.
FlowPreserved == Finished => Follows({"while", "for"})

\* break leaves the loop it stands in: the message "'break' used outside of
\* loop." (codegen.c) is for breaks that stand in none.
BreaksLeaveTheirLoop == Finished => Follows(Loops)
=============================================================================
