------------------------------- MODULE MCSymTab -------------------------------
(***************************************************************************)
(* SymTab on a small heap, with two names that share a bucket.             *)
(***************************************************************************)
EXTENDS SymTabRefinement, TLC

CONSTANTS a, b

MCHash == (a :> 1) @@ (b :> 1)

HeapSymmetry == Permutations(TableIds) \cup Permutations(EntryIds)
                   \cup Permutations(Decls) \cup Permutations(Sigs)
=============================================================================
