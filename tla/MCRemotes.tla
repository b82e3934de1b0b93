----------------------------- MODULE MCRemotes -----------------------------
(* Small instances of Remotes: B depends on A, C on nothing.               *)
EXTENDS Remotes

CONSTANTS A, B, C

OneDependency == (A :> <<>>) @@ (B :> <<A>>) @@ (C :> <<>>)
OneState == {{A, C}}
=============================================================================
