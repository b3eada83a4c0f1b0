-------------------------- MODULE TacListRefinement --------------------------
(***************************************************************************)
(* The cells of TacList implement the sequences of InstrLists.             *)
(***************************************************************************)
EXTENDS TacList

\* What the cells of a holder say.
Said(h) == [i \in DOMAIN chain[h] |-> instr[chain[h][i]]]

Lists == INSTANCE InstrLists WITH list <- [h \in Holders |-> Said(h)]

Busy == {"down", "up", "walk"}

TypeOK ==
    /\ instr \in [Cells -> Instrs \cup {NULL}]
    /\ next \in [Cells -> Cells \cup {NULL}]
    /\ head \in [Holders -> Cells \cup {NULL}]
    /\ chain \in [Holders -> Seq(Cells)]
    /\ built \subseteq Nodes /\ roots \subseteq built /\ kids \subseteq roots
    /\ own \in BOOLEAN
    /\ pc \in Busy \cup {"idle", "exited"}
    /\ call \in [a : Holders, b : Holders, d : {"code", "pre"}]
    /\ src \in Cells \cup {NULL} /\ ret \in Cells \cup {NULL} /\ at \in Cells \cup {NULL}
    /\ copy \in Seq(Cells) /\ depth \in 0 .. Len(copy)
    /\ pc = "walk" => at # NULL

\* s is what a walk from cell c along next meets.
IsList(c, s) ==
    /\ c = IF s = <<>> THEN NULL ELSE s[1]
    /\ \A i \in DOMAIN s : next[s[i]] = IF i = Len(s) THEN NULL ELSE s[i + 1]

\* The list of every node, and of the node under way, still has exactly the
\* cells it had when it was made, however many lists share them by now.
ListsStand == \A h \in Holders : IsList(head[h], chain[h])

\* concat and append are concatenation of sequences of instructions, flags and
\* all, and the code of a node that is done never changes.
ImplementsSequences == Lists!SequenceSpec

\* A call of concat or append comes to its end: no list is ever a ring.
EveryCallReturns == pc \in Busy ~> pc \in {"idle", "exited"}
=============================================================================
