------------------------------ MODULE MCServer ------------------------------
(* Small instances of Server: two changes, B on A, whose ids collide.      *)
EXTENDS Server, TLC

CONSTANTS A, B, main, other

MCPrefix == (A :> 1) @@ (B :> 1)
Chain == (A :> <<>>) @@ (B :> <<A>>)
Symmetry == Permutations({main, other})
=============================================================================
