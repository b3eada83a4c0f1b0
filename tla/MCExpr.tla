--------------------------------- MODULE MCExpr ---------------------------------
(* Functions none, one and two have that many parameters, echo returns its own. *)
EXTENDS ExprRules

Params == [none |-> 0, one |-> 1, two |-> 2, echo |-> 1]
Most == (Leaves \cup Numeric \cup Functions \cup {"comparison", "identical", "and", "not", "println"})
=============================================================================
