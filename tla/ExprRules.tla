-------------------------------- MODULE ExprRules --------------------------------
(***************************************************************************)
(* What running an expression must do, told by its text.                   *)
(***************************************************************************)
EXTENDS Expr, FiniteSets

Events == DOMAIN prog

\* The event after the n expressions that begin at event i.
After[i \in 1 .. MaxLen + 1] ==
    [n \in Nat |-> IF n = 0 \/ i > Len(prog) THEN i ELSE After[i + 1][n - 1 + Operands(prog[i])]]

Operand(i, j) == After[i + 1][j - 1]
Past(i) == After[i][1]
Inside(i, o) == o <= i /\ i < Past(o)

\* What a function or operator should get.
Expected(i) == [j \in 1 .. Operands(prog[i]) |-> Operand(i, j)]

Calls == {i \in Events : Called(prog[i])}

\* Operations that are generated at all, those with an effect or a result.
Working == {i \in Events : prog[i] \notin {"name", "literal", "identical"} \cup Logical}

\* Operands come before the operator, and an operand before those to its right.
Sooner(i, k) == Past(i) < Past(k) \/ (Past(i) = Past(k) /\ k < i)

\* The operand has a value of its own where the text says.
Sound(i) == prog[i] \notin {"identical"} \cup Logical \cup Silent \cup {"println"}
SoundOperands(i) == \A j \in 1 .. Operands(prog[i]) : Sound(Operand(i, j))

(***************************************************************************)
(* No call's arguments get in the way of call i: none is made while i has  *)
(* arguments waiting, and those waiting for a call around i are gone       *)
(* before the first of i, to a call made in between.                       *)
(***************************************************************************)
Undisturbed(i) ==
    /\ \A j \in 2 .. Operands(prog[i]), k \in Calls : ~Inside(k, Operand(i, j))
    /\ \A o \in Calls \ {i} : \A j \in 2 .. Operands(prog[o]) :
          Inside(i, Operand(o, j)) =>
              \E k \in Calls : /\ Inside(k, Operand(o, j)) /\ ~Inside(i, k)
                               /\ Past(k) <= Operand(i, 2)

Got(i) == done[CHOOSE n \in DOMAIN done : done[n].at = i].args

-----------------------------------------------------------------------------
\* Properties

\* Every operation and call of the text runs once, operands first and from left
\* to right, whatever the nesting (generate_code concatenates the lists).
EachRunsOnceInOrder ==
    Finished =>
        /\ Len(done) = Cardinality(Working)
        /\ {done[n].at : n \in DOMAIN done} = Working
        /\ \A m, n \in DOMAIN done : m < n => Sooner(done[m].at, done[n].at)

\* An operator gets the values of its operands: no temporary is taken twice, or
\* written between the operand's code and the operator's.
OperandsArrive ==
    \A n \in DOMAIN done :
        LET i == done[n].at
        IN  prog[i] \in Numeric \cup Compared /\ SoundOperands(i) => done[n].args = Expected(i)

\* The argument registers are filled from one list for all calls under way
\* (args_off): a call gets its own arguments exactly if it is undisturbed.
ArgumentsArriveIfUndisturbed ==
    \A n \in DOMAIN done :
        LET i == done[n].at
        IN  i \in Calls /\ SoundOperands(i) /\ Operands(prog[i]) > 0 =>
                (done[n].args = Expected(i) <=> Undisturbed(i))

\* Every statement's value is in its place when the code has run, if it has one.
ValuesStay ==
    Finished =>
        \A n \in DOMAIN roots :
            LET i == After[1][n - 1] IN Sound(i) => mem[roots[n]] = i

\* The value of a condition is the one Kotlin gives it: for !x, not that of x.
ConditionsEvaluate ==
    Finished =>
        \A n \in DOMAIN roots :
            LET i == After[1][n - 1] IN prog[i] \in Logical => mem[roots[n]] = i
=============================================================================
