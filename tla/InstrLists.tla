------------------------------ MODULE InstrLists ------------------------------
(***************************************************************************)
(* What the lists of tac.c promise the code generator: a list is a         *)
(* sequence of instructions, concatenation gives the instructions of both  *)
(* in order, and the code of a node stays as it was when the node was done. *)
(* Codegen and Expr take this for granted and work with sequences.         *)
(***************************************************************************)
EXTENDS Sequences

CONSTANTS Nodes,    \* calls of generate_code
          Instrs    \* what an instruction says, its width flags included

VARIABLES list,     \* holder -> the sequence it stands for
          built     \* the nodes that are done

lvars == <<list, built>>

Locals == {"code", "pre", "new"}
Holders == Nodes \cup Locals

LInit == list = [h \in Holders |-> <<>>] /\ built = {}

Make(i) == list' = [list EXCEPT !["new"] = <<i>>] /\ UNCHANGED built

\* a followed by b; what was only made to be handed over is gone.
Join(a, b, d) ==
    /\ list' = [h \in Holders |-> IF h = d THEN list[a] \o list[b]
                                  ELSE IF h \in {"new", "pre"} THEN <<>> ELSE list[h]]
    /\ UNCHANGED built

Finish(n, h) ==
    /\ n \notin built
    /\ built' = built \cup {n}
    /\ list' = [x \in Holders |-> IF x = n THEN list[h]
                                  ELSE IF x \in Locals THEN <<>> ELSE list[x]]

LNext ==
    \/ \E i \in Instrs : Make(i)
    \/ \E a, b \in Holders, d \in {"code", "pre"} : Join(a, b, d)
    \/ \E n \in Nodes, h \in Holders : Finish(n, h)

SequenceSpec == LInit /\ [][LNext]_lvars
=============================================================================
