---------------------------- MODULE MCGraphStore ----------------------------
(* A change of three bytes, edges that insert and delete, pseudo-edges.    *)
EXTENDS GraphStore
SomeFlags == {BLOCK, DELETED \cup BLOCK, PSEUDO}
=============================================================================
