------------------------------- MODULE TacList -------------------------------
(***************************************************************************)
(* The instruction lists of tac.c: cells on the heap, linked by next, that *)
(* generate_code hangs on the nodes of the tree and strings together with  *)
(* concat.  concat copies its first list and shares its second, so lists   *)
(* of different nodes have common cells; nothing is ever freed.            *)
(*                                                                         *)
(* One step is one call of the recursion of copylist, or one round of the  *)
(* loop of append.  The calls of generate_code are the nodes, in the order *)
(* they are done; a node generated twice counts as two.                    *)
(*                                                                         *)
(* chain is a history variable: the cells a list had when it was made.     *)
(***************************************************************************)
EXTENDS Naturals, Sequences

CONSTANTS Cells,        \* what malloc can give
          Nodes,
          Widths,       \* is_double and is_ptr, as the caller of gen leaves them
          Plain,        \* as gen does
          NULL

ASSUME TacListAssumption ==
    /\ NULL \notin Cells
    /\ {"code", "pre", "new"} \cap Nodes = {}

\* What an instruction says is told by the cell gen made for it, and its flags.
Instrs == [made : Cells, width : Widths \cup {Plain}]

ASSUME NullIsNoInstr == NULL \notin Instrs

VARIABLES
    instr,   \* cell -> the instruction, NULL while not allocated
    next,    \* cell -> the field next
    head,    \* where the list of a holder begins
    built,   \* nodes that are done
    roots,   \* those no parent has used
    kids,    \* those the node under way uses
    own,     \* the cells of the local code are in no other list
    pc,      \* the function under way
    call,    \* concat's two lists and where the result goes
    src,     \* copylist's argument
    copy,    \* the lcopy of each call of copylist, outermost first
    depth,   \* calls of copylist that have not returned
    ret,     \* what the last one returned; the first list of append
    at,      \* ltmp of append
    chain

heap == <<instr, next>>
client == <<head, built, roots, kids, own, chain>>
frame == <<call, src, copy, depth, ret, at>>
vars == <<heap, client, pc, frame>>

\* A list is held by a node, by the local code, by a local for a second list,
\* or it is the instruction just made and handed over.
Locals == {"code", "pre", "new"}
Holders == Nodes \cup Locals

Free == {c \in Cells : instr[c] = NULL}
Fresh == CHOOSE c \in Free : TRUE

NoCall == [a |-> "code", b |-> "code", d |-> "code"]

Init ==
    /\ instr = [c \in Cells |-> NULL]
    /\ next = [c \in Cells |-> NULL]
    /\ head = [h \in Holders |-> NULL]
    /\ built = {} /\ roots = {} /\ kids = {}
    /\ own = TRUE
    /\ pc = "idle"
    /\ call = NoCall
    /\ src = NULL /\ copy = <<>> /\ depth = 0 /\ ret = NULL /\ at = NULL
    /\ chain = [h \in Holders |-> <<>>]

-----------------------------------------------------------------------------
\* The heap

Allocate(c, i) ==
    /\ instr' = [instr EXCEPT ![c] = i]
    /\ next' = [next EXCEPT ![c] = NULL]

\* gen and what follows it: the width flags are zero, and set by the caller.
gen(w) ==
    /\ pc = "idle" /\ head["new"] = NULL /\ head["pre"] = NULL
    /\ Free # {}
    /\ Allocate(Fresh, [made |-> Fresh, width |-> w])
    /\ head' = [head EXCEPT !["new"] = Fresh]
    /\ chain' = [chain EXCEPT !["new"] = <<Fresh>>]
    /\ UNCHANGED <<built, roots, kids, own, pc, frame>>

\* malloc fails in gen: exit(4).
OutOfMemory ==
    /\ pc \in {"idle", "down"} /\ Free = {}
    /\ pc = "down" => src # NULL
    /\ pc' = "exited"
    /\ UNCHANGED <<heap, client, frame>>

-----------------------------------------------------------------------------
\* The calls generate_code makes

\* code = concat(code, x), code = concat(kid, x) to begin with, concat(kid, code),
\* and an array assignment's concat(concat(arr, rhs), code), which has used arr
\* before: every other child is used once.
Calls ==
    {[a |-> a, b |-> b, d |-> "code"] :
        a \in {"code", "pre"} \cup roots, b \in {"code", "new"} \cup roots}
    \cup {[a |-> a, b |-> b, d |-> "pre"] : a \in roots, b \in roots}

Wanted(k) ==
    /\ k.b = "new" => head["new"] # NULL
    /\ k.b # "new" => head["new"] = NULL
    /\ k.a \in roots /\ k.d = "code" /\ k.b # "code" => head["code"] = NULL
    /\ k.a \in kids <=> k.d = "pre"
    /\ k.b \notin kids /\ k.b # k.a
    /\ k.a = "pre" => k.b = "code"
    /\ k.a = "pre" <=> head["pre"] # NULL

\* Fault: the first list is not copied.
ConcatInPlace(k) ==
    /\ pc = "idle" /\ k \in Calls /\ Wanted(k)
    /\ pc' = "up"
    /\ call' = k
    /\ copy' = chain[k.a] /\ ret' = head[k.a]
    /\ UNCHANGED <<src, depth, at>>
    /\ own' = FALSE
    /\ kids' = kids \cup ({k.a, k.b} \ Locals)
    /\ UNCHANGED <<heap, head, built, roots, chain>>

concat(k) ==
    /\ pc = "idle" /\ k \in Calls /\ Wanted(k)
    /\ pc' = "down"
    /\ call' = k
    /\ src' = head[k.a]
    /\ UNCHANGED <<copy, depth, ret, at>>
    /\ own' = FALSE
    /\ kids' = kids \cup ({k.a, k.b} \ Locals)
    /\ UNCHANGED <<heap, head, built, roots, chain>>

\* code = append(code, x), with lists made of nothing else (nextInt).
AppendCall ==
    /\ pc = "idle" /\ own /\ head["new"] # NULL
    /\ pc' = "up"
    /\ call' = [a |-> "code", b |-> "new", d |-> "code"]
    /\ copy' = chain["code"] /\ ret' = head["code"]
    /\ UNCHANGED <<heap, client, src, depth, at>>

-----------------------------------------------------------------------------
\* copylist

\* Fault: the copy gets the flags gen gives it.
CopyDropsFlags ==
    /\ pc = "down" /\ src # NULL /\ Free # {}
    /\ Allocate(Fresh, [instr[src] EXCEPT !.width = Plain])
    /\ copy' = Append(copy, Fresh)
    /\ src' = next[src]
    /\ UNCHANGED <<client, pc, call, depth, ret, at>>

\* One cell is copied on the way down ...
copylist ==
    /\ pc = "down" /\ src # NULL /\ Free # {}
    /\ Allocate(Fresh, instr[src])
    /\ copy' = Append(copy, Fresh)
    /\ src' = next[src]
    /\ UNCHANGED <<client, pc, call, depth, ret, at>>

\* ... the innermost call has nothing to copy ...
copylistEnd ==
    /\ pc = "down" /\ src = NULL
    /\ pc' = "up"
    /\ depth' = Len(copy)
    /\ UNCHANGED <<heap, client, call, src, copy, ret, at>>

\* ... and each copy is linked to the next as the calls return.
copylistReturn ==
    /\ pc = "up" /\ depth > 0
    /\ next' = [next EXCEPT ![copy[depth]] = ret]
    /\ ret' = copy[depth]
    /\ depth' = depth - 1
    /\ UNCHANGED <<instr, client, pc, call, src, copy, at>>

-----------------------------------------------------------------------------
\* append

\* The call is over: its result is where the caller puts it, its arguments have
\* served.
Return(result) ==
    /\ head' = [h \in Holders |-> IF h = call.d THEN result
                                  ELSE IF h \in {"new", "pre"} THEN NULL ELSE head[h]]
    /\ chain' = [h \in Holders |-> IF h = call.d THEN copy \o chain[call.b]
                                   ELSE IF h \in {"new", "pre"} THEN <<>> ELSE chain[h]]
    /\ pc' = "idle"
    /\ call' = NoCall
    /\ src' = NULL /\ copy' = <<>> /\ depth' = 0 /\ ret' = NULL /\ at' = NULL
    /\ UNCHANGED <<instr, built, roots, kids, own>>

\* Fault: an empty first list is walked as well.
AppendWalksEmpty ==
    /\ pc = "up" /\ depth = 0
    /\ pc' = "walk" /\ at' = ret
    /\ UNCHANGED <<heap, client, call, src, copy, depth, ret>>

append ==
    /\ pc = "up" /\ depth = 0
    /\ \/ ret = NULL /\ Return(head[call.b]) /\ UNCHANGED next
       \/ /\ ret # NULL
          /\ pc' = "walk" /\ at' = ret
          /\ UNCHANGED <<heap, client, call, src, copy, depth, ret>>

appendWalk ==
    /\ pc = "walk" /\ next[at] # NULL
    /\ at' = next[at]
    /\ UNCHANGED <<heap, client, pc, call, src, copy, depth, ret>>

appendLink ==
    /\ pc = "walk" /\ next[at] = NULL
    /\ next' = [next EXCEPT ![at] = head[call.b]]
    /\ Return(ret)

-----------------------------------------------------------------------------
\* The node is done: t->code = code, or the code of its only child.

NextNode == CHOOSE n \in Nodes \ built : TRUE

GiveTo(n, h) ==
    /\ head' = [x \in Holders |-> IF x = n THEN head[h]
                                  ELSE IF x \in Locals THEN NULL ELSE head[x]]
    /\ chain' = [x \in Holders |-> IF x = n THEN chain[h]
                                   ELSE IF x \in Locals THEN <<>> ELSE chain[x]]
    /\ built' = built \cup {n}
    /\ roots' = (roots \ (kids \cup {h})) \cup {n}
    /\ kids' = {} /\ own' = TRUE
    /\ UNCHANGED <<heap, pc, frame>>

NodeDone ==
    /\ pc = "idle" /\ head["new"] = NULL /\ head["pre"] = NULL
    /\ Nodes # built
    /\ GiveTo(NextNode, "code")

SingleChild(k) ==
    /\ pc = "idle" /\ head["new"] = NULL /\ head["code"] = NULL /\ kids = {}
    /\ Nodes # built /\ k \in roots
    /\ GiveTo(NextNode, k)

\* The whole tree is generated; exit(4) ends the program.
Finished ==
    /\ pc = "idle" => Nodes = built
    /\ pc \in {"idle", "exited"}
    /\ UNCHANGED vars

InCall == copylist \/ copylistEnd \/ copylistReturn \/ append \/ appendWalk \/ appendLink
             \/ (pc # "idle" /\ OutOfMemory)

Next ==
    \/ \E w \in Widths : gen(w)
    \/ \E k \in Calls : concat(k)
    \/ AppendCall
    \/ InCall \/ OutOfMemory
    \/ NodeDone
    \/ \E k \in roots : SingleChild(k)
    \/ Finished

\* The program runs until it is done; what a node does is up to the source text,
\* but a call that has begun goes on.
Spec == Init /\ [][Next]_vars /\ WF_vars(InCall)
=============================================================================
