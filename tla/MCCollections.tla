--------------------------- MODULE MCCollections ---------------------------
(* Small instances of Collections for TLC. *)
EXTENDS Collections, TLC

CONSTANTS u1, u2, u3, c1, c2, c3, c4, p1, p2

One    == {u1}
Pair   == {u1, u2}
Trio   == {u1, u2, u3}
Two    == {c1, c2}
Four   == {c1, c2, c3, c4}
Single == {p1}
Both   == {p1, p2}

\* People, collections and processes are alike.
Symmetry == Permutations(Users) \cup Permutations(Collections) \cup Permutations(Procs)

Moving   == {"CreateCollection", "MoveCollection"}
Tree     == Moving \cup {"DeleteCollection", "RestoreFromTrash", "PurgeTrash"}
Sharing  == {"CreateCollection"}
Hiding   == Moving \cup {"UpdateCollectionAccess"}
Private  == Hiding \cup {"DeleteCollection", "PurgeTrash"}
=============================================================================
