------------------------------ MODULE MCTacList ------------------------------
(***************************************************************************)
(* TacList with three nodes and a small heap.                              *)
(***************************************************************************)
EXTENDS TacListRefinement
=============================================================================
