-------------------------- MODULE MCCollectionPage --------------------------
(* Small instances of CollectionPage for TLC. *)
EXTENDS CollectionPage
=============================================================================
