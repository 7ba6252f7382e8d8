---------------------------- MODULE Collections ----------------------------
(***************************************************************************)
(* The collections of one space: the tree they form, who sees which, and   *)
(* the trash (internal/server/collections.go, trash.go, permissions.go).   *)
(*                                                                         *)
(* Requests run as in module Spaces: Call passes the checks outside the    *)
(* transaction, ...Tx reads inside it and decides what to write (the       *)
(* "plan"), Commit writes, unless a constraint refuses. Serial is TRUE for *)
(* SQLite, whose BEGIN takes the write lock, and FALSE for PostgreSQL.     *)
(*                                                                         *)
(* A collection hides everything below it from those it is hidden from.    *)
(* The tree is only ever asked for ancestors, which Line gives as the      *)
(* smallest set closed under parents.                                      *)
(*                                                                         *)
(* Left out: names, descriptions and the order of siblings, the links in a *)
(* collection, and the PIN locks (nobody has locked anything here).        *)
(***************************************************************************)
EXTENDS Roles, FiniteSets

CONSTANTS
  Users,        \* accounts
  Collections,  \* ids a new collection can get
  Procs,        \* requests the server handles at the same time
  Serial,       \* TRUE for SQLite, FALSE for PostgreSQL
  Quota,        \* QUOTA_COLLECTIONS_PER_SPACE, 0 for no quota
  GivenRoles,   \* bound: the roles people join with or are given
  Restricted,   \* bound: what clients send for "restricted"
  Traffic,      \* the operations clients call
  Top           \* the parent of a collection at the top level (NULL)

ASSUME CollectionsAssumption ==
  /\ IsFiniteSet(Collections)
  /\ Serial \in BOOLEAN
  /\ Quota \in Nat
  /\ GivenRoles \subseteq Roles
  /\ Restricted \subseteq BOOLEAN
  /\ Top \notin Collections

VARIABLES
  role,         \* table space_members of the space
  collections,  \* tables collections and collection_members: id -> Row
  spent,        \* ids taken: random ids never come back
  pc,           \* where the request of each process is
  job,          \* what it asks for
  plan          \* what its transaction is about to write

tables  == <<role, collections, spent>>
request == <<pc, job, plan>>
vars    == <<tables, request>>

Parents == Collections \cup {Top}

\* restricted, the rows of collection_members, created_by and deleted_at
Row == [parent : Parents, private : BOOLEAN, access : SUBSET Users,
        creator : Users, trashed : BOOLEAN]

Job ==
  [op : {"Nothing"}]
  \cup [op : {"CreateCollection"}, user : Users, parent : Parents,
        private : BOOLEAN, members : SUBSET Users]
  \cup [op : {"MoveCollection"}, user : Users, collection : Collections, parent : Parents]
  \cup [op : {"DeleteCollection"}, user : Users, collection : Collections]
  \cup [op : {"UpdateCollectionAccess"}, user : Users, collection : Collections,
        private : BOOLEAN, members : SUBSET Users]
  \cup [op : {"RestoreFromTrash", "PurgeTrash"}, user : Users,
        selection : SUBSET Collections]

Nothing == [op |-> "Nothing"]

\* What a transaction writes: a new row, rows moved below another parent,
\* changed access, rows that go to the trash or come back, deleted rows.
Writes == [make : SUBSET [id : Collections, row : Row],
           move : SUBSET Collections, parent : Parents,
           access : SUBSET [id : Collections, private : BOOLEAN, members : SUBSET Users],
           hide : SUBSET Collections, show : SUBSET Collections,
           drop : SUBSET Collections]

NoWrites == [make |-> {}, move |-> {}, parent |-> Top, access |-> {},
             hide |-> {}, show |-> {}, drop |-> {}]

live == DOMAIN collections

TypeOK ==
  /\ role \in [Users -> Roles \cup {NoRole}]
  /\ live \subseteq spent
  /\ spent \subseteq Collections
  /\ collections \in [live -> Row]
  /\ \A c \in live : collections[c].parent \in live \cup {Top}   \* foreign key
  /\ pc \in [Procs -> {"idle", "checked", "open"}]
  /\ job \in [Procs -> Job]
  /\ plan \in [Procs -> Writes]

\* CreateSpace: a new space has its owner and no collections.
Init ==
  /\ \E founder \in Users :
       role = [u \in Users |-> IF u = founder THEN "OWNER" ELSE NoRole]
  /\ collections = [c \in {} |-> Top]
  /\ spent = {}
  /\ pc = [p \in Procs |-> "idle"]
  /\ job = [p \in Procs |-> Nothing]
  /\ plan = [p \in Procs |-> NoWrites]

-----------------------------------------------------------------------------
(* What the handlers look up.                                              *)

Members == {u \in Users : role[u] # NoRole}

Trash == {c \in live : collections[c].trashed}

Closed(S) == \A c \in S \cap live : collections[c].parent \in S \cup {Top}

\* c and the collections above it
Line(c) ==
  {a \in Collections : \A S \in SUBSET Collections : c \in S /\ Closed(S) => a \in S}

\* subtree, descendants: c and everything below it
Below(c) == {d \in live : c \in Line(d)}

\* hiddenCollectionsOf: private collections the user is no member of and, with
\* the trash, what is in it, each with everything below it
hidden(u, withTrash) ==
  {c \in live : \E a \in Line(c) \cap live :
     \/ collections[a].private /\ u \notin collections[a].access
     \/ withTrash /\ collections[a].trashed}

requireCollection(c, u, permission) ==
  c \in live \ hidden(u, TRUE) /\ Has(role[u], permission)

canManageAccess(c, u) ==
  /\ Has(role[u], "EDIT_COLLECTIONS")
  /\ \/ collections[c].private
     \/ collections[c].creator = u
     \/ Has(role[u], "EDIT_SPACE")

\* Mutant: off by one.
checkCollectionQuotaLate == Quota > 0 => Cardinality(live) <= Quota

checkCollectionQuota == Quota > 0 => Cardinality(live) < Quota

\* requireSpaceMembers: the given people and the caller are members.
requireSpaceMembers(u, ids) == ids \cup {u} \subseteq Members

-----------------------------------------------------------------------------
(* A request: let in, transaction, commit.                                 *)

\* The checks a handler makes before its transaction; the trash keeps the role
\* it read here.
Checked(j) ==
  \/ j.op = "CreateCollection" /\ Has(role[j.user], "CREATE_COLLECTIONS")
  \/ j.op = "MoveCollection"   /\ requireCollection(j.collection, j.user, "EDIT_COLLECTIONS")
  \/ j.op = "DeleteCollection" /\ requireCollection(j.collection, j.user, "DELETE_COLLECTIONS")
  \/ /\ j.op = "UpdateCollectionAccess"
     /\ requireCollection(j.collection, j.user, "EDIT_COLLECTIONS")
     /\ canManageAccess(j.collection, j.user)
  \/ j.op \in {"RestoreFromTrash", "PurgeTrash"} /\ Has(role[j.user], "DELETE_COLLECTIONS")

\* The member list of a request counts only when it asks for a private
\* collection, and the caller is always in it; an empty selection does nothing.
Sensible(j) ==
  /\ j.op \in {"CreateCollection", "UpdateCollectionAccess"} =>
       /\ j.private \in Restricted
       /\ j.members \subseteq IF j.private THEN Users \ {j.user} ELSE {}
  /\ j.op \in {"RestoreFromTrash", "PurgeTrash"} => j.selection # {}

Call(p) ==
  /\ pc[p] = "idle"
  /\ \E j \in Job :
       /\ j.op \in Traffic
       /\ Sensible(j)
       /\ Checked(j)
       /\ job' = [job EXCEPT ![p] = j]
  /\ pc' = [pc EXCEPT ![p] = "checked"]
  /\ UNCHANGED <<tables, plan>>

NoOpenTx == \A q \in Procs : pc[q] # "open"

\* On SQLite whoever writes waits for the write lock.
Begin(p, op) ==
  /\ pc[p] = "checked"
  /\ job[p].op = op
  /\ Serial => NoOpenTx

Prepare(p, writes) ==
  /\ plan' = [plan EXCEPT ![p] = writes]
  /\ pc' = [pc EXCEPT ![p] = "open"]
  /\ UNCHANGED <<role, collections, job>>

Answer(p) ==
  /\ pc' = [pc EXCEPT ![p] = "idle"]
  /\ job' = [job EXCEPT ![p] = Nothing]
  /\ plan' = [plan EXCEPT ![p] = NoWrites]

\* A check inside the transaction refuses (placeCollection, too), or the client
\* went away and its context rolls everything back.
Drop(p) ==
  /\ pc[p] # "idle"
  /\ Answer(p)
  /\ UNCHANGED tables

\* Foreign keys: the parent of a row and the collection of an access row exist.
Refused(w) ==
  \/ \E m \in w.make : m.row.parent \notin live \cup {Top}
  \/ w.move \cap live # {} /\ w.parent \notin live \cup {Top}
  \/ \E a \in w.access : a.members # {} /\ a.id \notin live

\* Mutant: parent_id without ON DELETE CASCADE.
RowsOnly(S) == S \cap live

\* ON DELETE CASCADE: the deleted rows and everything below them
Cascade(S) == {c \in live : Line(c) \cap S # {}}

AccessAfter(w, c, row) ==
  IF \E a \in w.access : a.id = c
  THEN LET a == CHOOSE a \in w.access : a.id = c
       IN  [row EXCEPT !.private = a.private, !.access = a.members]
  ELSE row

RowAfter(w, c) ==
  IF c \in live
  THEN AccessAfter(w, c,
         [collections[c] EXCEPT !.parent = IF c \in w.move THEN w.parent ELSE @,
                                !.trashed = (@ \/ c \in w.hide) /\ c \notin w.show])
  ELSE (CHOOSE m \in w.make : m.id = c).row

Commit(p) ==
  LET w == plan[p] IN
  /\ pc[p] = "open"
  /\ ~Refused(w)
  /\ collections' = [c \in (live \cup {m.id : m \in w.make}) \ Cascade(w.drop)
                       |-> RowAfter(w, c)]
  /\ Answer(p)
  /\ UNCHANGED <<role, spent>>

-----------------------------------------------------------------------------
(* The transactions of the handlers.                                       *)

CreateCollectionTx(p) ==
  LET j == job[p] IN
  /\ Begin(p, "CreateCollection")
  /\ checkCollectionQuota
  /\ j.parent # Top => requireCollection(j.parent, j.user, "READ")
  /\ j.private => requireSpaceMembers(j.user, j.members)
  /\ \E id \in Collections \ spent :
       /\ spent' = spent \cup {id}
       /\ Prepare(p, [NoWrites EXCEPT
            !.make = {[id |-> id,
                       row |-> [parent |-> j.parent, private |-> j.private,
                                access |-> IF j.private THEN j.members \cup {j.user} ELSE {},
                                creator |-> j.user, trashed |-> FALSE]]}])

\* Mutant: looks at the new parent only, not at what is above it.
mayMoveBesides(c, to) == to # c

\* "A collection cannot be moved into its own descendant"
mayMoveBelow(c, to) == c \notin Line(to)

MoveCollectionTx(p) ==
  LET j == job[p] IN
  /\ Begin(p, "MoveCollection")
  /\ j.parent # Top => /\ requireCollection(j.parent, j.user, "READ")
                       /\ mayMoveBelow(j.collection, j.parent)
  /\ Prepare(p, [NoWrites EXCEPT !.move = {j.collection}, !.parent = j.parent])
  /\ UNCHANGED spent

DeleteCollectionTx(p) ==
  LET j == job[p] IN
  /\ Begin(p, "DeleteCollection")
  /\ Below(j.collection) \cap hidden(j.user, FALSE) = {}
  /\ Prepare(p, [NoWrites EXCEPT !.hide = {j.collection}])
  /\ UNCHANGED spent

UpdateCollectionAccessTx(p) ==
  LET j == job[p] IN
  /\ Begin(p, "UpdateCollectionAccess")
  /\ j.private => requireSpaceMembers(j.user, j.members)
  /\ Prepare(p, [NoWrites EXCEPT
       !.access = {[id |-> j.collection, private |-> j.private,
                    members |-> IF j.private THEN j.members \cup {j.user} ELSE {}]}])
  /\ UNCHANGED spent

\* The selected ids are in the trash as the user may see it.
trashSelection(u, S) == S \subseteq Trash \ hidden(u, FALSE)

\* Mutant: looks at the parent only, not at what is above it.
parentTrashed(c, trash) == collections[c].parent \in trash

trashedAbove(c, trash) == (Line(c) \ {c}) \cap trash # {}

\* The restored ones come back one after the other, in the order of the request,
\* and whoever still has something in the trash above goes to the top level. One
\* that comes after its ancestor m went there goes along with m, one that came
\* before is on its own: so "moved" may be any set that leaves nobody behind.
BackToTop(S, moved) ==
  LET trash    == Trash \ S
      stranded == {c \in S : trashedAbove(c, trash)}
  IN  /\ moved \subseteq stranded
      /\ \A c \in stranded \ moved :
           \E m \in moved : m \in Line(c) /\ (Line(c) \ Line(m)) \cap trash = {}

RestoreFromTrashTx(p) ==
  LET j == job[p] IN
  /\ Begin(p, "RestoreFromTrash")
  /\ trashSelection(j.user, j.selection)
  /\ \E moved \in SUBSET j.selection :
       /\ BackToTop(j.selection, moved)
       /\ Prepare(p, [NoWrites EXCEPT !.show = j.selection, !.move = moved])
  /\ UNCHANGED spent

\* Mutant: deletes for good without looking below.
mayPurgeAll(u, S) == S \subseteq live

\* "Never takes other members' private collections along"
mayPurge(u, S) == \A c \in S : Below(c) \cap hidden(u, FALSE) = {}

PurgeTrashTx(p) ==
  LET j == job[p] IN
  /\ Begin(p, "PurgeTrash")
  /\ trashSelection(j.user, j.selection)
  /\ mayPurge(j.user, j.selection)
  /\ Prepare(p, [NoWrites EXCEPT !.drop = j.selection])
  /\ UNCHANGED spent

-----------------------------------------------------------------------------
(* What other parts of the server do to the collections and the members of *)
(* the space, each in one step; those who leave at once in the same one.   *)

\* PurgeOldTrash, every hour: what was long enough in the trash goes for good.
PurgeOldTrash ==
  /\ Serial => NoOpenTx
  /\ \E old \in SUBSET Trash \ {{}} :
       collections' = [c \in live \ Cascade(old) |-> collections[c]]
  /\ UNCHANGED <<role, spent, request>>

AddMember(u) ==
  /\ Serial => NoOpenTx
  /\ role[u] = NoRole
  /\ \E r \in GivenRoles : role' = [role EXCEPT ![u] = r]
  /\ UNCHANGED <<collections, spent, request>>

\* Spaces keep an owner (module Spaces).
AnotherOwner(u) == \E v \in Users \ {u} : role[v] = "OWNER"

SetMemberRole(u) ==
  /\ Serial => NoOpenTx
  /\ role[u] # NoRole
  /\ role[u] = "OWNER" => AnotherOwner(u)
  /\ \E r \in GivenRoles : role' = [role EXCEPT ![u] = r]
  /\ UNCHANGED <<collections, spent, request>>

\* Mutant: forgets to ask whether the collection is private.
WithoutRows(access) == {c \in live : access[c] = {}}

\* Mutant: cleans up at the top level only.
AbandonedAtTop(access) ==
  {c \in live : collections[c].private /\ access[c] = {} /\ collections[c].parent = Top}

\* "Private collections nobody can see anymore"
Abandoned(access) == {c \in live : collections[c].private /\ access[c] = {}}

\* Mutant: access to private collections outlives the membership.
AccessKept(S) == [c \in live |-> collections[c].access]

AccessWithout(S) == [c \in live |-> collections[c].access \ S]

\* S leaves or is removed, in one transaction each. On PostgreSQL these can overlap:
\* each then finds the others' rows still there, as owners when it asks for another
\* one, and as members of a private collection when it looks for abandoned ones.
RemoveMember(S) ==
  LET abandoned == UNION {Abandoned(AccessWithout({u})) : u \in S} IN
  /\ Serial => NoOpenTx /\ \E u \in S : S = {u}
  /\ \A u \in S : role[u] # NoRole /\ (role[u] = "OWNER" => AnotherOwner(u))
  /\ role' = [u \in Users |-> IF u \in S THEN NoRole ELSE role[u]]
  /\ collections' = [c \in live \ Cascade(abandoned)
                       |-> [collections[c] EXCEPT !.access = AccessWithout(S)[c]]]
  /\ UNCHANGED <<spent, request>>

-----------------------------------------------------------------------------
Next ==
  \/ \E p \in Procs :
       \/ Call(p)
       \/ CreateCollectionTx(p)
       \/ MoveCollectionTx(p)
       \/ DeleteCollectionTx(p)
       \/ UpdateCollectionAccessTx(p)
       \/ RestoreFromTrashTx(p)
       \/ PurgeTrashTx(p)
       \/ Commit(p)
       \/ Drop(p)
  \/ \E u \in Users : AddMember(u) \/ SetMemberRole(u)
  \/ \E S \in SUBSET Users \ {{}} : RemoveMember(S)
  \/ PurgeOldTrash

Spec == Init /\ [][Next]_vars

-----------------------------------------------------------------------------
(* Properties.                                                             *)

\* "A collection cannot be moved into its own descendant" (collections.go,
\* MoveCollection): no collections only have parents among themselves. They would
\* be out of everybody's reach, and the loops that walk up the tree would not end.
TreeIsRooted ==
  \A S \in SUBSET live : S # {} => \E c \in S : collections[c].parent \notin S

\* "Only members of the space can be given access" (collections.go,
\* requireSpaceMembers), and it ends with the membership (RemoveMember).
AccessOnlyForMembers == \A c \in live : collections[c].access \subseteq Members

\* "Private collections nobody can see anymore would be unreachable data"
\* (store/spaces.go, RemoveMember): a private collection always has members. Not so
\* on PostgreSQL, where the last two can leave at once.
PrivateHasMembers ==
  \A c \in live : collections[c].private <=> collections[c].access # {}

\* "A space can have at most %d collections (the trash counts until it is
\* emptied)" (quotas.go), also when several are created at once.
WithinCollectionQuota == Quota > 0 => Cardinality(live) <= Quota

\* "A collection whose parent is still in the trash would stay invisible"
\* (trash.go, RestoreFromTrash): whatever is restored in one go, in whatever
\* order, its user sees all of it afterwards.
RestoredIsVisible ==
  [][\A p \in Procs, u \in Users :
       Commit(p) /\ job[p].op = "RestoreFromTrash" /\ job[p].user = u =>
         job[p].selection \cap hidden(u, TRUE)' = {}]_vars

InTrash(c) == Line(c) \cap Trash # {}

\* "Deleting would silently take other members' private collections with it"
\* (collections.go, DeleteCollection), "Never takes other members' private
\* collections along" (trash.go, PurgeTrash): nobody moves to the trash, or
\* deletes for good, what is hidden from them.
TakesNothingHidden ==
  [][\A p \in Procs : Commit(p) /\ job[p].op \in {"DeleteCollection", "PurgeTrash"} =>
       \A c \in hidden(job[p].user, FALSE) : c \in live' /\ (InTrash(c)' => InTrash(c))]_vars

\* A member who leaves takes the private collections only they could see along,
\* and nothing another member sees (store/spaces.go, RemoveMember).
LeavingTakesNothingSeen ==
  [][\A S \in SUBSET Users \ {{}}, v \in Users : RemoveMember(S) /\ role'[v] # NoRole =>
       live \ live' \subseteq hidden(v, FALSE)]_vars

\* "Private collections nobody can see anymore would be unreachable data"
\* (store/spaces.go, RemoveMember): what somebody saw is gone, or somebody still
\* sees it, when a member has left.
LeavingLeavesNothingUnreachable ==
  [][\A S \in SUBSET Users \ {{}} : RemoveMember(S) =>
       \A c \in live' : (\E v \in Members : c \notin hidden(v, FALSE))
                          => \E v \in Members' : c \notin hidden(v, FALSE)']_vars

Shared(c) == \A a \in Line(c) \cap live : ~collections[a].private

\* "Making a shared collection private hides it from everybody else, so only its
\* creator or a space admin may do that" (collections.go, canManageAccess): nobody
\* else takes a shared collection away from another member, by whatever request.
SharedStaysShared ==
  [][\A p \in Procs, u \in Users, v \in Members, c \in live :
       /\ Commit(p) /\ job[p].op \in {"MoveCollection", "UpdateCollectionAccess"}
       /\ job[p].user = u /\ job[p].collection = c
       /\ Shared(c)
       /\ c \in hidden(v, FALSE)'
       => collections[c].creator = u \/ Has(role[u], "EDIT_SPACE")]_vars
=============================================================================
