------------------------------ MODULE MCClient ------------------------------
(* A page with two calls for TLC. *)
EXTENDS Client, TLC

CONSTANTS c1, c2

\* The first one uses every operation, the second one some of each kind.
Two == (c1 :> (AllOperations \ {refresh})) @@ (c2 :> {me})

\* One call at a time that reads or signs out everywhere.
SignOut == c1 :> {getSpaces, logoutAll}
=============================================================================
