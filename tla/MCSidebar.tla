----------------------------- MODULE MCSidebar ------------------------------
(***************************************************************************)
(* Instances of Sidebar for TLC: two spaces, a collection in one of them. *)
(***************************************************************************)
EXTENDS Sidebar, TLC

CONSTANTS mine, ours, notes

InOne == notes :> mine
=============================================================================
