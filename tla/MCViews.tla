------------------------------- MODULE MCViews -------------------------------
(* All views for TLC. Two of the addresses contain the same text. *)
EXTENDS Views

CONSTANTS here, there, yonder

Three == {here, there, yonder}
Texts == [key \in Three |-> key = yonder]
=============================================================================
