----------------------------- MODULE MCAccounts -----------------------------
(* Small instances of Accounts for TLC. *)
EXTENDS Accounts, TLC

CONSTANTS u1, pw1, pw2, l1, l2, p1, p2

MCProcs == {p1, p2}
Two     == {pw1, pw2}

Symmetry == Permutations(MCProcs) \cup Permutations(Two) \cup Permutations({l1, l2})
=============================================================================
