----------------------------- MODULE MCPristine -----------------------------
(* Small instances of Pristine.  The hashes of A and B start with the same *)
(* eight bytes.  In Chain, B depends on A and C on both; in Fork, B        *)
(* depends on A and C on nothing, so that B leaves the middle of a log.    *)
EXTENDS Pristine, TLC

CONSTANTS A, B, C, main, other

MCName == {main, other}
Symmetry == Permutations(MCName)
MCHash == {A, B, C}
MCPrefix == (A :> 1) @@ (B :> 1) @@ (C :> 2)
Chain == (A :> <<>>) @@ (B :> <<A>>) @@ (C :> <<B, A>>)
Fork == (A :> <<>>) @@ (B :> <<A>>) @@ (C :> <<>>)
=============================================================================
