------------------------------- MODULE Spaces -------------------------------
(***************************************************************************)
(* Spaces, their members and the invites that lead into them: the handlers *)
(* of internal/server/spaces.go, invites.go and the account removal of     *)
(* moderation.go, each as the steps other requests can come between:       *)
(*                                                                         *)
(*   Call    the authentication middleware let the request in and the      *)
(*           checks the handler makes outside its transaction passed;      *)
(*   ...Tx   the transaction began, its statements read the committed      *)
(*           state and decided what to write (the "plan");                 *)
(*   Commit  the writes take effect, unless a constraint or a conditional  *)
(*           UPDATE refuses them now.                                      *)
(*                                                                         *)
(* Serial tells the two databases apart. SQLite runs with                  *)
(* _txlock=immediate: BEGIN takes the one write lock, so no other          *)
(* transaction or write comes between the reads and the commit.            *)
(* PostgreSQL runs at its default READ COMMITTED: transactions overlap and *)
(* nothing a transaction merely read is locked. All reads of one           *)
(* transaction happen in one step here, so the model has fewer             *)
(* interleavings than PostgreSQL, never more.                              *)
(*                                                                         *)
(* Left out: names, icons, welcome messages, the start space (no property  *)
(* looks at them) and the collections of a space.                          *)
(***************************************************************************)
EXTENDS Roles, FiniteSets

CONSTANTS
  Users,       \* accounts, all registered
  Spaces,      \* ids a new space can get
  Invites,     \* ids a new invite can get
  Procs,       \* requests the server handles at the same time
  Serial,      \* TRUE for SQLite, FALSE for PostgreSQL
  Admins,      \* instance admins (ADMIN_USERS)
  Limits,      \* values of maxUses clients send; Unlimited for none
  SpaceQuota,  \* QUOTA_SPACES_PER_USER, 0 for no quota
  MaxUsed,     \* bound: how often an unlimited invite is used
  Traffic      \* the operations clients call

Unlimited   == -1
JoinRoles   == {"VIEWER", "CONTRIBUTOR"}
InviteRoles == Roles \ {"OWNER"}
Keep        == "KEEP"

ASSUME SpacesAssumption ==
  /\ IsFiniteSet(Users)
  /\ Spaces \cap Invites = {}
  /\ Serial \in BOOLEAN
  /\ Admins \subseteq Users
  /\ Limits \subseteq (Nat \ {0}) \cup {Unlimited}
  /\ SpaceQuota \in Nat
  /\ MaxUsed \in Nat

VARIABLES
  spaces,        \* rows of the table spaces
  spent,         \* ids taken: random ids never come back
  role,          \* table space_members: role[s][u], NoRole without a row
  discoverable,  \* spaces everybody may join ...
  joinRole,      \* ... with this role
  invites,       \* rows of the table invites
  deleted,       \* accounts with deleted_at set
  pc,            \* where the request of each process is
  job,           \* what it asks for
  plan           \* what its transaction is about to write

tables  == <<spaces, spent, role, discoverable, joinRole, invites, deleted>>
request == <<pc, job, plan>>
vars    == <<tables, request>>

InviteRow == [id : Invites, space : Spaces, role : InviteRoles, by : Users,
              max : Limits, used : Nat, expired : BOOLEAN]

Job ==
  [op : {"Nothing"}]
  \cup [op : {"CreateSpace", "DeleteAccount"}, user : Users]
  \cup [op : {"JoinSpace", "LeaveSpace", "DeleteSpace"}, user : Users, space : Spaces]
  \cup [op : {"UpdateSpace"}, user : Users, space : Spaces,
        discoverable : BOOLEAN, joinRole : JoinRoles]
  \cup [op : {"UpdateSpaceMember"}, user : Users, space : Spaces, target : Users, role : Roles]
  \cup [op : {"RemoveSpaceMember"}, user : Users, space : Spaces, target : Users]
  \cup [op : {"CreateInvite"}, user : Users, space : Spaces, role : InviteRoles, max : Limits]
  \cup [op : {"AcceptInvite", "DeleteInvite"}, user : Users, invite : Invites]
  \cup [op : {"DeleteUser"}, user : Users, target : Users]

Nothing == [op |-> "Nothing"]

\* What a transaction writes: new and deleted spaces, a change of membership
\* rows (Keep: untouched, NoRole: deleted), whether these are INSERTs, counted
\* invites, anonymised accounts, changed join settings.
Writes == [new : SUBSET Spaces, gone : SUBSET Spaces,
           role : [Spaces -> [Users -> Roles \cup {NoRole, Keep}]],
           insert : BOOLEAN,
           use : SUBSET Invites, wipe : SUBSET Users,
           edit : SUBSET [space : Spaces, discoverable : BOOLEAN, joinRole : JoinRoles]]

NoRows == [s \in Spaces |-> [u \in Users |-> Keep]]

\* The membership of u in s becomes r, all others stay.
Row(s, u, r) ==
  [t \in Spaces |-> [v \in Users |-> IF t = s /\ v = u THEN r ELSE Keep]]

NoWrites == [new |-> {}, gone |-> {}, role |-> NoRows,
             insert |-> FALSE, use |-> {}, wipe |-> {}, edit |-> {}]

TypeOK ==
  /\ spaces \subseteq Spaces
  /\ spent \subseteq Spaces \cup Invites
  /\ role \in [Spaces -> [Users -> Roles \cup {NoRole}]]
  /\ discoverable \subseteq Spaces
  /\ joinRole \in [Spaces -> JoinRoles]
  /\ invites \subseteq InviteRow
  /\ deleted \subseteq Users
  /\ pc \in [Procs -> {"idle", "checked", "open"}]
  /\ job \in [Procs -> Job]
  /\ plan \in [Procs -> Writes]

Init ==
  /\ spaces = {}
  /\ spent = {}
  /\ role = [s \in Spaces |-> [u \in Users |-> NoRole]]
  /\ discoverable = {}
  /\ joinRole = [s \in Spaces |-> "VIEWER"]
  /\ invites = {}
  /\ deleted = {}
  /\ pc = [p \in Procs |-> "idle"]
  /\ job = [p \in Procs |-> Nothing]
  /\ plan = [p \in Procs |-> NoWrites]

-----------------------------------------------------------------------------
(* What the handlers look up.                                              *)

Members(s) == {u \in Users : role[s][u] # NoRole}
Owners(s)  == {u \in Users : role[s][u] = "OWNER"}

CountRole(s, r)    == Cardinality({u \in Users : role[s][u] = r})
CountOwnedSpaces(u) == Cardinality({s \in Spaces : role[s][u] = "OWNER"})

requireSpace(s, u, permission) == s \in spaces /\ Has(role[s][u], permission)

\* Mutant: off by one.
requireAnyOwner(s) == CountRole(s, "OWNER") >= 1

requireAnotherOwner(s) == CountRole(s, "OWNER") > 1

\* Mutant: off by one.
checkSpaceQuotaLate(u) == SpaceQuota > 0 => CountOwnedSpaces(u) <= SpaceQuota

checkSpaceQuota(u) == SpaceQuota > 0 => CountOwnedSpaces(u) < SpaceQuota

\* Mutant: trusts the permission checked before the transaction.
managedByFormerManager(s, actor, target) ==
  /\ role[s][actor] # NoRole
  /\ role[s][target] # NoRole
  /\ target # actor
  /\ role[s][actor] = "OWNER" \/ rank[role[s][actor]] < rank[role[s][target]]

managedMember(s, actor, target) ==
  /\ role[s][actor] # NoRole
  /\ role[s][target] # NoRole
  /\ target # actor
  /\ Has(role[s][actor], "MANAGE_MEMBERS")
  /\ \/ role[s][actor] = "OWNER"
     \/ rank[role[s][actor]] < rank[role[s][target]]

\* Invite.Usable
Usable(i) == ~i.expired /\ (i.max # Unlimited => i.used < i.max)

\* Mutant: counts without looking at the limit again.
CountsAlways(i) == i \in invites

\* The condition in the UPDATE of UseInvite
CountsUse(i) == i.max # Unlimited => i.used < i.max

\* Mutant: forgets to leave out whoever goes.
NextOwnerOfAll(s, leaving, heir) ==
  /\ heir \in Members(s)
  /\ \A u \in Members(s) : AtLeast(role[s][heir], role[s][u])

\* NextOwner: the highest role, then the longest membership. How long
\* somebody has been a member is not modelled: any of the highest role.
NextOwner(s, leaving, heir) ==
  /\ heir \in Members(s) \ {leaving}
  /\ \A u \in Members(s) \ {leaving} : AtLeast(role[s][heir], role[s][u])

-----------------------------------------------------------------------------
(* A request: let in, transaction, commit.                                 *)

\* moderatedUser: the accounts an instance admin may delete
moderatedUser(admin, u) ==
  admin \in Admins /\ u \notin deleted /\ u # admin /\ u \notin Admins

mayInvite(s, u, r) == Has(role[s][u], "MANAGE_MEMBERS") /\ AtLeast(role[s][u], r)

mayRevoke(i, u) == i.by = u \/ Has(role[i.space][u], "MANAGE_MEMBERS")

\* The checks a handler makes before its transaction or single write
Checked(j) ==
  \/ j.op \in {"CreateSpace", "JoinSpace", "LeaveSpace", "AcceptInvite", "DeleteAccount"}
  \/ j.op = "UpdateSpace"       /\ requireSpace(j.space, j.user, "EDIT_SPACE")
  \/ j.op = "DeleteSpace"       /\ requireSpace(j.space, j.user, "DELETE_SPACE")
  \/ j.op = "UpdateSpaceMember" /\ requireSpace(j.space, j.user, "MANAGE_MEMBERS")
  \/ j.op = "RemoveSpaceMember" /\ requireSpace(j.space, j.user, "MANAGE_MEMBERS")
  \/ j.op = "CreateInvite"      /\ mayInvite(j.space, j.user, j.role)
  \/ j.op = "DeleteInvite"      /\ \E i \in invites : i.id = j.invite /\ mayRevoke(i, j.user)
  \/ j.op = "DeleteUser"        /\ moderatedUser(j.user, j.target)

Call(p) ==
  /\ pc[p] = "idle"
  /\ \E j \in Job :
       /\ j.op \in Traffic
       /\ j.user \notin deleted
       /\ Checked(j)
       /\ job' = [job EXCEPT ![p] = j]
  /\ pc' = [pc EXCEPT ![p] = "checked"]
  /\ UNCHANGED <<tables, plan>>

NoOpenTx == \A q \in Procs : pc[q] # "open"

\* On SQLite whoever writes waits for the write lock.
Begin(p, op) ==
  /\ pc[p] = "checked"
  /\ job[p].op = op
  /\ Serial => NoOpenTx

Prepare(p, writes) ==
  /\ plan' = [plan EXCEPT ![p] = writes]
  /\ pc' = [pc EXCEPT ![p] = "open"]
  /\ UNCHANGED <<spaces, role, discoverable, joinRole, invites, deleted, job>>

Answer(p) ==
  /\ pc' = [pc EXCEPT ![p] = "idle"]
  /\ job' = [job EXCEPT ![p] = Nothing]
  /\ plan' = [plan EXCEPT ![p] = NoWrites]

\* A check inside the transaction refuses, there is nothing to write (already
\* a member), or the client went away and its context rolls everything back.
Drop(p) ==
  /\ pc[p] # "idle"
  /\ Answer(p)
  /\ UNCHANGED tables

\* Mutant: writes the column whether it changes or not.
RoleOverwritten(w, s, u) == IF s \in w.gone THEN NoRole ELSE w.role[s][u]

RoleAfter(w, s, u) ==
  IF s \in w.gone THEN NoRole
  ELSE IF \/ w.role[s][u] = Keep
          \/ role[s][u] = NoRole /\ ~w.insert   \* UPDATE of no row
       THEN role[s][u]
       ELSE w.role[s][u]

Edits(w, s) == {e \in w.edit : e.space = s}

\* Mutant: space_members without a foreign key to spaces.
RefusedWithoutForeignKey(w) ==
  \/ /\ w.insert
     /\ \E s \in Spaces, u \in Users : w.role[s][u] # Keep /\ role[s][u] # NoRole
  \/ \E id \in w.use : ~\E i \in invites : i.id = id /\ CountsUse(i)

\* Primary and foreign keys of the inserted rows, the count of a used invite
Refused(w) ==
  \/ /\ w.insert
     /\ \E s \in Spaces, u \in Users :
          /\ w.role[s][u] # Keep
          /\ role[s][u] # NoRole \/ s \notin spaces \cup w.new
  \/ \E id \in w.use : ~\E i \in invites : i.id = id /\ CountsUse(i)

Commit(p) ==
  LET w == plan[p] IN
  /\ pc[p] = "open"
  /\ ~Refused(w)
  /\ spaces' = (spaces \cup w.new) \ w.gone
  /\ role' = [s \in Spaces |-> [u \in Users |-> RoleAfter(w, s, u)]]
  /\ discoverable' = {s \in spaces' : IF Edits(w, s) = {} THEN s \in discoverable
                                     ELSE \E e \in Edits(w, s) : e.discoverable}
  /\ joinRole' = [s \in Spaces |-> IF s \notin spaces' THEN "VIEWER"
                                   ELSE IF Edits(w, s) = {} THEN joinRole[s]
                                   ELSE (CHOOSE e \in Edits(w, s) : TRUE).joinRole]
  /\ invites' = {IF i.id \in w.use THEN [i EXCEPT !.used = @ + 1] ELSE i :
                   i \in {x \in invites : x.by \notin w.wipe /\ x.space \notin w.gone}}
  /\ deleted' = deleted \cup w.wipe
  /\ Answer(p)
  /\ UNCHANGED spent

-----------------------------------------------------------------------------
(* The transactions of the handlers.                                       *)

CreateSpaceTx(p) ==
  /\ Begin(p, "CreateSpace")
  /\ checkSpaceQuota(job[p].user)
  /\ \E s \in Spaces \ spent :
       /\ spent' = spent \cup {s}
       /\ Prepare(p, [NoWrites EXCEPT !.new = {s},
                                      !.role = Row(s, job[p].user, "OWNER"),
                                      !.insert = TRUE])

\* Mutant: an existing membership takes the offered role, better or not.
joinSpaceAs(s, u, r) ==
  [NoWrites EXCEPT !.role = Row(s, u, r), !.insert = (role[s][u] = NoRole)]

\* joinSpace: a new row, or a better role in the existing one
joinSpace(s, u, r) ==
  IF role[s][u] = NoRole
  THEN [NoWrites EXCEPT !.role = Row(s, u, r), !.insert = TRUE]
  ELSE IF AtLeast(role[s][u], r) THEN NoWrites
  ELSE [NoWrites EXCEPT !.role = Row(s, u, r)]

JoinSpaceTx(p) ==
  LET s == job[p].space u == job[p].user IN
  /\ Begin(p, "JoinSpace")
  /\ s \in spaces
  /\ role[s][u] = NoRole
  /\ s \in discoverable
  /\ Prepare(p, joinSpace(s, u, joinRole[s]))
  /\ UNCHANGED spent

UpdateSpaceTx(p) ==
  LET j == job[p] IN
  /\ Begin(p, "UpdateSpace")
  /\ j.space \in spaces
  /\ Prepare(p, [NoWrites EXCEPT !.edit = {[space |-> j.space, discoverable |-> j.discoverable,
                                            joinRole |-> j.joinRole]}])
  /\ UNCHANGED spent

DeleteSpaceTx(p) ==
  /\ Begin(p, "DeleteSpace")
  /\ job[p].space \in spaces
  /\ Prepare(p, [NoWrites EXCEPT !.gone = {job[p].space}])
  /\ UNCHANGED spent

LeaveSpaceTx(p) ==
  LET s == job[p].space u == job[p].user IN
  /\ Begin(p, "LeaveSpace")
  /\ role[s][u] # NoRole
  /\ role[s][u] = "OWNER" => requireAnotherOwner(s)
  /\ Prepare(p, [NoWrites EXCEPT !.role = Row(s, u, NoRole)])
  /\ UNCHANGED spent

UpdateSpaceMemberTx(p) ==
  LET j == job[p] s == job[p].space IN
  /\ Begin(p, "UpdateSpaceMember")
  /\ managedMember(s, j.user, j.target)
  /\ AtLeast(role[s][j.user], j.role)
  /\ role[s][j.target] = "OWNER" /\ j.role # "OWNER" => requireAnotherOwner(s)
  /\ Prepare(p, [NoWrites EXCEPT !.role = Row(s, j.target, j.role)])
  /\ UNCHANGED spent

RemoveSpaceMemberTx(p) ==
  LET j == job[p] IN
  /\ Begin(p, "RemoveSpaceMember")
  /\ managedMember(j.space, j.user, j.target)
  /\ Prepare(p, [NoWrites EXCEPT !.role = Row(j.space, j.target, NoRole)])
  /\ UNCHANGED spent

AcceptInviteTx(p) ==
  /\ Begin(p, "AcceptInvite")
  /\ \E i \in invites :
       /\ i.id = job[p].invite
       /\ Usable(i)
       /\ i.max = Unlimited => i.used < MaxUsed
       /\ Prepare(p, [joinSpace(i.space, job[p].user, i.role) EXCEPT !.use = {i.id}])
  /\ UNCHANGED spent

-----------------------------------------------------------------------------
(* removeAccount: deletes the spaces only the user is a member of, leaves  *)
(* the others, and anonymises the account.                                 *)

\* Mutant: the only owner instead of the only member.
OnlyOwner(u) == {s \in spaces : Owners(s) = {u}}

\* OwnedSpaces with one member ...
Alone(u) == {s \in spaces : role[s][u] = "OWNER" /\ Members(s) = {u}}

\* ... and with more members, but no other owner.
LastOwner(u) == {s \in spaces \ Alone(u) : Owners(s) = {u}}

RemoveAccountWrites(u, heir) ==
  [NoWrites EXCEPT
     !.gone = Alone(u),
     !.wipe = {u},
     !.role = [s \in Spaces |-> [v \in Users |->
                 IF v = u THEN IF role[s][u] = NoRole THEN Keep ELSE NoRole
                 ELSE IF s \in LastOwner(u) /\ v = heir[s] THEN "OWNER"
                 ELSE Keep]]]

DeleteAccountTx(p) ==
  LET u == job[p].user IN
  /\ Begin(p, "DeleteAccount")
  /\ LastOwner(u) = {}
  /\ Prepare(p, RemoveAccountWrites(u, [s \in {} |-> u]))
  /\ UNCHANGED spent

DeleteUserTx(p) ==
  LET u == job[p].target IN
  /\ Begin(p, "DeleteUser")
  /\ \E heir \in [LastOwner(u) -> Users] :
       /\ \A s \in LastOwner(u) : NextOwner(s, u, heir[s])
       /\ Prepare(p, RemoveAccountWrites(u, heir))
  /\ UNCHANGED spent

-----------------------------------------------------------------------------
(* Invites are created and revoked by a single statement, without a        *)
(* transaction around it and the checks before.                            *)

CreateInvite(p) ==
  LET j == job[p] IN
  /\ Begin(p, "CreateInvite")
  /\ \E id \in Invites \ spent :
       /\ spent' = spent \cup {id}
       /\ invites' = invites \cup
            {[id |-> id, space |-> j.space, role |-> j.role, by |-> j.user,
              max |-> j.max, used |-> 0, expired |-> FALSE]}
  /\ Answer(p)
  /\ UNCHANGED <<spaces, role, discoverable, joinRole, deleted>>

DeleteInvite(p) ==
  /\ Begin(p, "DeleteInvite")
  /\ invites' = {i \in invites : i.id # job[p].invite}
  /\ Answer(p)
  /\ UNCHANGED <<spaces, spent, role, discoverable, joinRole, deleted>>

\* Time passes: the expiry of an invite is reached.
ExpireInvite ==
  /\ \E i \in invites :
       /\ ~i.expired
       /\ invites' = (invites \ {i}) \cup {[i EXCEPT !.expired = TRUE]}
  /\ UNCHANGED <<spaces, spent, role, discoverable, joinRole, deleted, request>>

-----------------------------------------------------------------------------
Next ==
  \/ \E p \in Procs :
       \/ Call(p)
       \/ CreateSpaceTx(p)
       \/ JoinSpaceTx(p)
       \/ UpdateSpaceTx(p)
       \/ DeleteSpaceTx(p)
       \/ LeaveSpaceTx(p)
       \/ UpdateSpaceMemberTx(p)
       \/ RemoveSpaceMemberTx(p)
       \/ AcceptInviteTx(p)
       \/ DeleteAccountTx(p)
       \/ DeleteUserTx(p)
       \/ CreateInvite(p)
       \/ DeleteInvite(p)
       \/ Commit(p)
       \/ Drop(p)
  \/ ExpireInvite

Spec == Init /\ [][Next]_vars

-----------------------------------------------------------------------------
(* Properties.                                                             *)

\* "The last owner cannot leave the space", "A space needs at least one owner"
\* (spaces.go): whoever leaves, is demoted, is removed or deletes the account,
\* somebody still owns the space.
EverySpaceHasOwner == \A s \in spaces : Owners(s) # {}

\* "concurrent acceptances cannot exceed" maxUses (invites.go, AcceptInvite),
\* not even when all of them saw the invite usable before any was counted.
UsedWithinLimit == \A i \in invites : i.max # Unlimited => i.used <= i.max

\* Nobody is a member of a space that was deleted, or not created yet, and nobody can
\* find it: whoever joins it, is promoted in it or accepts an invite while DeleteSpace
\* or removeAccount takes it. It says nothing of invites: one may stay behind, since
\* CreateInvite looks at the space some time before its INSERT.
NobodyInDeletedSpaces ==
  \A s \in Spaces \ spaces : Members(s) = {} /\ s \notin discoverable

\* An invite that stayed behind leads nowhere: accepting it counts no use, because
\* joinSpace fails in the same transaction as UseInvite (invites.go, AcceptInvite).
DeadInvitesStayUnused ==
  [][\A i \in invites, j \in invites' :
       i.id = j.id /\ i.space \notin spaces => j.used = i.used]_vars

\* The request of p ends, and with it the membership of u in s begins or rises.
Granted(p, s, u) ==
  LET j == job[p] IN
  /\ pc[p] = "open" /\ pc'[p] = "idle"
  /\ \/ j.op = "CreateSpace" /\ s \notin spaces
     \/ j.op = "JoinSpace" /\ s \in discoverable /\ role'[s][u] = joinRole[s]
     \/ /\ j.op = "AcceptInvite"
        /\ \E i \in invites : /\ i.id = j.invite /\ i.space = s
                              /\ i.role = role'[s][u] /\ CountsUse(i)
     \/ /\ j.op = "UpdateSpaceMember"
        /\ Has(role[s][j.user], "MANAGE_MEMBERS")
        /\ AtLeast(role[s][j.user], role'[s][u])
        /\ ~AtLeast(role[s][u], role[s][j.user])
     \/ /\ j.op = "DeleteUser"
        /\ Owners(s) = {j.target}
        /\ NextOwner(s, j.target, u)

\* Somebody the members of a space did not let in stays outside: a membership
\* begins or rises only by a decision of a member who may take it when it takes
\* effect, with an invite, by joining a discoverable space in its join role, by
\* creating the space, or by inheriting it from its last owner.
RisesAreGranted ==
  [][\A s \in Spaces, u \in Users :
       rank[role'[s][u]] < rank[role[s][u]] => \E p \in Procs : Granted(p, s, u)]_vars

JoinKeepsRoles(p) ==
  Commit(p) /\ job[p].op \in {"JoinSpace", "AcceptInvite"} =>
    \A s \in Spaces, u \in Users : rank[role'[s][u]] <= rank[role[s][u]]

\* "joining never downgrades an existing membership" (spaces.go, joinSpace)
JoiningNeverDowngrades == [][\A p \in Procs : JoinKeepsRoles(p)]_vars

RemovalTakesOwnSpaces(p) ==
  Commit(p) /\ job[p].op \in {"DeleteAccount", "DeleteUser"} =>
    \A s \in spaces \ spaces' : Members(s) \subseteq plan[p].wipe

\* Deleting an account takes the spaces only this person was a member of with
\* it, and no others: "Spaces only you were a member of are gone"
\* (moderation.go, DeleteAccount).
SharedSpacesSurvive == [][\A p \in Procs : RemovalTakesOwnSpaces(p)]_vars

CreatedWithinQuota(p) ==
  Commit(p) /\ job[p].op = "CreateSpace" /\ SpaceQuota > 0 =>
    Cardinality({s \in spaces' : role'[s][job[p].user] = "OWNER"}) <= SpaceQuota

\* "You can own at most %d spaces" (quotas.go): creating spaces, also several at
\* once, never gets anybody above the quota.
CreatingStaysWithinQuota == [][\A p \in Procs : CreatedWithinQuota(p)]_vars

\* The ids of spaces whose transactions are open
beingMade == UNION {plan[p].new : p \in {q \in Procs : pc[q] = "open"}}

Abstract == INSTANCE Ownership WITH
  alive  <- spaces,
  born   <- spent \cap Spaces,
  ready  <- beingMade,
  owners <- [s \in Spaces |-> Owners(s)]

\* Every behaviour is one the abstract specification of ownership allows.
ImplementsOwnership == Abstract!Spec
=============================================================================
