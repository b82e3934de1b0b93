---------------------------- MODULE MCGraphRepo ----------------------------
(* Users are interchangeable: which of them does something is forgotten.   *)
EXTENDS GraphRepo
Symmetry == Permutations(Users)
=============================================================================
