------------------------------- MODULE Roles -------------------------------
(***************************************************************************)
(* The roles of space members, their order and what each of them may do    *)
(* (internal/server/permissions.go).                                       *)
(***************************************************************************)
EXTENDS Integers

\* From most to least privileged; an absent membership row reads as NoRole,
\* like the zero value of Role in the code.
Roles  == {"OWNER", "ADMIN", "CONTRIBUTOR", "VIEWER"}
NoRole == "NONE"

\* Index in roleOrder; NoRole stands behind every role.
rank == [OWNER |-> 0, ADMIN |-> 1, CONTRIBUTOR |-> 2, VIEWER |-> 3, NONE |-> 4]

AtLeast(r, other) == rank[r] <= rank[other]

allPermissions ==
  {"READ", "EDIT_SPACE", "CREATE_COLLECTIONS", "EDIT_COLLECTIONS",
   "DELETE_COLLECTIONS", "CREATE_BOOKMARKS", "EDIT_BOOKMARKS",
   "DELETE_BOOKMARKS", "DELETE_SPACE", "MANAGE_MEMBERS", "IMPORT_EXPORT"}

rolePermissions ==
  [OWNER       |-> allPermissions,
   ADMIN       |-> allPermissions \ {"DELETE_SPACE"},
   CONTRIBUTOR |-> {"READ", "CREATE_COLLECTIONS", "EDIT_COLLECTIONS",
                    "DELETE_COLLECTIONS", "CREATE_BOOKMARKS",
                    "EDIT_BOOKMARKS", "DELETE_BOOKMARKS"},
   VIEWER      |-> {"READ"},
   NONE        |-> {}]

Has(r, permission) == permission \in rolePermissions[r]
=============================================================================
