----------------------------- MODULE MCFileRepo -----------------------------
EXTENDS FileRepo
AnyMove == Paths \X Paths
Outwards == {m \in AnyMove : IsPrefix(Front(m[2]), m[1])}
=============================================================================
