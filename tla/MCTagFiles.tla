----------------------------- MODULE MCTagFiles -----------------------------
(* Small instances of TagFiles: two changes whose ids collide, B on A or   *)
(* both on their own.                                                      *)
EXTENDS TagFiles, TLC

CONSTANTS A, B, main, other

MCPrefix == (A :> 1) @@ (B :> 1)
Chain == (A :> <<>>) @@ (B :> <<A>>)
Apart == (A :> <<>>) @@ (B :> <<>>)
Symmetry == Permutations({main, other})
=============================================================================
