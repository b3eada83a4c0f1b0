-------------------------------- MODULE MCNames --------------------------------
(* A small instance of the three passes over the names of a file.             *)
EXTENDS NameRules, TLC

MCDecls == Declaration
MCSlots == 0 .. Cardinality(Names)
Interchangeable == Permutations(Names)
=============================================================================
