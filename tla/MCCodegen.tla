------------------------------- MODULE MCCodegen -------------------------------
(* Small instances of the code generator: all statements, or a few.           *)
EXTENDS CodegenRules

AllKinds == Simple \cup Compound
=============================================================================
