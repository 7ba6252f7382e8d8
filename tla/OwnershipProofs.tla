--------------------------- MODULE OwnershipProofs ---------------------------
(***************************************************************************)
(* Theorems about Spaces on SQLite that need more than the owners: what a  *)
(* transaction is about to write is what its handler decides from the      *)
(* tables as they are when it commits, because no other request wrote in   *)
(* between. From this follow the action properties of Spaces and that      *)
(* Spaces implements the abstract specification of ownership.              *)
(***************************************************************************)
EXTENDS SpacesProofs

-----------------------------------------------------------------------------
(* What each handler decides: the checks inside its transaction and the    *)
(* writes it prepares, for the tables as they are now.                     *)

\* A space s and its first owner u.
Created(s, u) ==
  [NoWrites EXCEPT !.new = {s}, !.role = Row(s, u, "OWNER"), !.insert = TRUE]

DecidesCreateSpace(j, w) ==
  /\ checkSpaceQuota(j.user)
  /\ \E s \in (Spaces \cap spent) \ spaces : w = Created(s, j.user)

DecidesJoinSpace(j, w) ==
  /\ j.space \in discoverable
  /\ w = joinSpace(j.space, j.user, joinRole[j.space])

DecidesUpdateSpace(j, w) ==
  w = [NoWrites EXCEPT !.edit = {[space |-> j.space, discoverable |-> j.discoverable,
                                  joinRole |-> j.joinRole]}]

DecidesDeleteSpace(j, w) ==
  /\ j.space \in spaces
  /\ w = [NoWrites EXCEPT !.gone = {j.space}]

DecidesLeaveSpace(j, w) ==
  /\ role[j.space][j.user] = "OWNER" => requireAnotherOwner(j.space)
  /\ w = [NoWrites EXCEPT !.role = Row(j.space, j.user, NoRole)]

DecidesUpdateSpaceMember(j, w) ==
  /\ managedMember(j.space, j.user, j.target)
  /\ AtLeast(role[j.space][j.user], j.role)
  /\ role[j.space][j.target] = "OWNER" /\ j.role # "OWNER" => requireAnotherOwner(j.space)
  /\ w = [NoWrites EXCEPT !.role = Row(j.space, j.target, j.role)]

DecidesRemoveSpaceMember(j, w) ==
  /\ managedMember(j.space, j.user, j.target)
  /\ w = [NoWrites EXCEPT !.role = Row(j.space, j.target, NoRole)]

\* The writes w, and the invite counted.
Counted(w, id) == [w EXCEPT !.use = {id}]

DecidesAcceptInvite(j, w) ==
  \E i \in invites :
    /\ i.id = j.invite
    /\ w = Counted(joinSpace(i.space, j.user, i.role), i.id)

DecidesDeleteAccount(j, w) ==
  /\ LastOwner(j.user) = {}
  /\ w = RemoveAccountWrites(j.user, [s \in {} |-> j.user])

DecidesDeleteUser(j, w) ==
  \E heir \in [LastOwner(j.target) -> Users] :
    /\ \A s \in LastOwner(j.target) : NextOwner(s, j.target, heir[s])
    /\ w = RemoveAccountWrites(j.target, heir)

Decided(j, w) ==
  \/ j.op = "CreateSpace"       /\ DecidesCreateSpace(j, w)
  \/ j.op = "JoinSpace"         /\ DecidesJoinSpace(j, w)
  \/ j.op = "UpdateSpace"       /\ DecidesUpdateSpace(j, w)
  \/ j.op = "DeleteSpace"       /\ DecidesDeleteSpace(j, w)
  \/ j.op = "LeaveSpace"        /\ DecidesLeaveSpace(j, w)
  \/ j.op = "UpdateSpaceMember" /\ DecidesUpdateSpaceMember(j, w)
  \/ j.op = "RemoveSpaceMember" /\ DecidesRemoveSpaceMember(j, w)
  \/ j.op = "AcceptInvite"      /\ DecidesAcceptInvite(j, w)
  \/ j.op = "DeleteAccount"     /\ DecidesDeleteAccount(j, w)
  \/ j.op = "DeleteUser"        /\ DecidesDeleteUser(j, w)

PlansAreDecided == \A p \in Procs : pc[p] = "open" => Decided(job[p], plan[p])

\* The ids of spaces are taken.
SpacesAreSpent == spaces \subseteq spent

\* Only finitely many spaces exist: counting those of an account ends.
DecidedInv ==
  /\ OwnersInv
  /\ NobodyInDeletedSpaces
  /\ UsedWithinLimit
  /\ InviteIdsAreKeys
  /\ IsFiniteSet(spaces)
  /\ SpacesAreSpent
  /\ PlansAreDecided

LEMMA InitDecided == Init => DecidedInv
<1> SUFFICES ASSUME Init PROVE DecidedInv
  OBVIOUS
<1>1. OwnersInv
  BY InitOwners
<1>2. NobodyInDeletedSpaces
  BY DEF Init, NobodyInDeletedSpaces, Members
<1>3. UsedWithinLimit /\ InviteIdsAreKeys
  BY DEF Init, UsedWithinLimit, InviteIdsAreKeys
<1>4. IsFiniteSet(spaces)
  BY FS_EmptySet DEF Init
<1>5. PlansAreDecided
  BY DEF Init, PlansAreDecided
<1>6. SpacesAreSpent
  BY DEF Init, SpacesAreSpent
<1> QED BY <1>1, <1>2, <1>3, <1>4, <1>5, <1>6 DEF DecidedInv

-----------------------------------------------------------------------------
(* A decision stands as long as no other request commits.                  *)

\* What a handler reads of spaces and their members depends on these tables.
LEMMA LookupsUnchanged ==
  ASSUME UNCHANGED <<spaces, role>>
  PROVE  /\ \A s : Members(s)' = Members(s) /\ Owners(s)' = Owners(s)
         /\ \A s : requireAnotherOwner(s)' <=> requireAnotherOwner(s)
         /\ \A u : checkSpaceQuota(u)' <=> checkSpaceQuota(u)
         /\ \A s, u, v : managedMember(s, u, v)' <=> managedMember(s, u, v)
         /\ \A u : Alone(u)' = Alone(u) /\ LastOwner(u)' = LastOwner(u)
         /\ \A s, u, v : NextOwner(s, u, v)' <=> NextOwner(s, u, v)
         /\ \A s, u, r : joinSpace(s, u, r)' = joinSpace(s, u, r)
         /\ \A u, heir : RemoveAccountWrites(u, heir)' = RemoveAccountWrites(u, heir)
  BY DEF Members, Owners, requireAnotherOwner, CountRole, checkSpaceQuota, CountOwnedSpaces,
         managedMember, Alone, LastOwner, NextOwner, joinSpace, RemoveAccountWrites

\* Time passing changes no invite in what a decision read of it.
LEMMA DecidedStands ==
  ASSUME UNCHANGED <<spaces, role, discoverable, joinRole>>, spent \subseteq spent',
         \A i \in invites : \E k \in invites' :
           k.id = i.id /\ k.space = i.space /\ k.role = i.role
  PROVE  \A j, w : Decided(j, w) => Decided(j, w)'
<1> SUFFICES ASSUME NEW j, NEW w, Decided(j, w) PROVE Decided(j, w)'
  OBVIOUS
<1>1. DecidesCreateSpace(j, w) => DecidesCreateSpace(j, w)'
  BY LookupsUnchanged DEF DecidesCreateSpace
<1>2. DecidesJoinSpace(j, w) => DecidesJoinSpace(j, w)'
  BY LookupsUnchanged DEF DecidesJoinSpace
<1>3. DecidesUpdateSpace(j, w) => DecidesUpdateSpace(j, w)'
  BY DEF DecidesUpdateSpace
<1>4. DecidesDeleteSpace(j, w) => DecidesDeleteSpace(j, w)'
  BY DEF DecidesDeleteSpace
<1>5. DecidesLeaveSpace(j, w) => DecidesLeaveSpace(j, w)'
  BY LookupsUnchanged DEF DecidesLeaveSpace
<1>6. DecidesUpdateSpaceMember(j, w) => DecidesUpdateSpaceMember(j, w)'
  BY LookupsUnchanged DEF DecidesUpdateSpaceMember
<1>7. DecidesRemoveSpaceMember(j, w) => DecidesRemoveSpaceMember(j, w)'
  BY LookupsUnchanged DEF DecidesRemoveSpaceMember
<1>8. DecidesAcceptInvite(j, w) => DecidesAcceptInvite(j, w)'
  BY LookupsUnchanged DEF DecidesAcceptInvite
<1>9. DecidesDeleteAccount(j, w) => DecidesDeleteAccount(j, w)'
  BY LookupsUnchanged DEF DecidesDeleteAccount
<1>10. DecidesDeleteUser(j, w) => DecidesDeleteUser(j, w)'
  BY LookupsUnchanged DEF DecidesDeleteUser
<1> QED BY <1>1, <1>2, <1>3, <1>4, <1>5, <1>6, <1>7, <1>8, <1>9, <1>10 DEF Decided

\* The transaction of p began: the plan it has now is decided for the tables,
\* which it left alone.
LEMMA PreparedStands ==
  ASSUME TypeOK, NEW p \in Procs, NEW w, Prepare(p, w), spent' = spent, Decided(job[p], w)
  PROVE  Decided(job[p], plan[p])'
<1>1. /\ UNCHANGED <<spaces, role, discoverable, joinRole, invites>>
      /\ job' = job /\ plan'[p] = w
  BY DEF Prepare, TypeOK
<1>2. Decided(job[p], w)'
  BY <1>1, DecidedStands
<1> QED BY <1>1, <1>2

LEMMA CreateSpaceDecides ==
  ASSUME TypeOK, SpacesAreSpent, NEW p \in Procs, CreateSpaceTx(p)
  PROVE  Decided(job[p], plan[p])'
<1> DEFINE u == job[p].user
           w(s) == Created(s, u)
<1>1. PICK s \in Spaces \ spent : spent' = spent \cup {s} /\ Prepare(p, w(s))
  BY DEF CreateSpaceTx, Created
<1>2. checkSpaceQuota(u) /\ job[p].op = "CreateSpace"
  BY DEF CreateSpaceTx, Begin
<1>3. plan'[p] = w(s) /\ job' = job /\ spaces' = spaces /\ role' = role
  BY <1>1 DEF Prepare, TypeOK
<1>4. s \in (Spaces \cap spent') \ spaces'
  BY <1>1, <1>3 DEF SpacesAreSpent
<1>5. checkSpaceQuota(u)'
  BY <1>2, <1>3, LookupsUnchanged
<1>6. DecidesCreateSpace(job[p], plan[p])'
  BY <1>3, <1>4, <1>5 DEF DecidesCreateSpace
<1> QED BY <1>2, <1>3, <1>6 DEF Decided

LEMMA MembershipDecides ==
  ASSUME TypeOK, NEW p \in Procs,
         \/ JoinSpaceTx(p) \/ UpdateSpaceTx(p) \/ DeleteSpaceTx(p) \/ LeaveSpaceTx(p)
         \/ UpdateSpaceMemberTx(p) \/ RemoveSpaceMemberTx(p)
  PROVE  Decided(job[p], plan[p])'
<1>1. CASE JoinSpaceTx(p)
  BY <1>1, PreparedStands DEF JoinSpaceTx, Begin, Decided, DecidesJoinSpace
<1>2. CASE UpdateSpaceTx(p)
  BY <1>2, PreparedStands DEF UpdateSpaceTx, Begin, Decided, DecidesUpdateSpace
<1>3. CASE DeleteSpaceTx(p)
  BY <1>3, PreparedStands DEF DeleteSpaceTx, Begin, Decided, DecidesDeleteSpace
<1>4. CASE LeaveSpaceTx(p)
  BY <1>4, PreparedStands DEF LeaveSpaceTx, Begin, Decided, DecidesLeaveSpace
<1>5. CASE UpdateSpaceMemberTx(p)
  BY <1>5, PreparedStands DEF UpdateSpaceMemberTx, Begin, Decided, DecidesUpdateSpaceMember
<1>6. CASE RemoveSpaceMemberTx(p)
  BY <1>6, PreparedStands DEF RemoveSpaceMemberTx, Begin, Decided, DecidesRemoveSpaceMember
<1> QED BY <1>1, <1>2, <1>3, <1>4, <1>5, <1>6

LEMMA AcceptInviteDecides ==
  ASSUME TypeOK, NEW p \in Procs, AcceptInviteTx(p)
  PROVE  Decided(job[p], plan[p])'
<1>1. PICK i \in invites :
        /\ i.id = job[p].invite
        /\ Prepare(p, [joinSpace(i.space, job[p].user, i.role) EXCEPT !.use = {i.id}])
  BY DEF AcceptInviteTx
<1> DEFINE w == Counted(joinSpace(i.space, job[p].user, i.role), i.id)
<1>2. Prepare(p, w)
  BY <1>1 DEF Counted
<1>3. spent' = spent /\ job[p].op = "AcceptInvite"
  BY DEF AcceptInviteTx, Begin
<1>4. Decided(job[p], w)
  BY <1>1, <1>3 DEF Decided, DecidesAcceptInvite
<1> HIDE DEF w
<1> QED BY <1>2, <1>3, <1>4, PreparedStands

LEMMA DeletionDecides ==
  ASSUME TypeOK, NEW p \in Procs, DeleteAccountTx(p) \/ DeleteUserTx(p)
  PROVE  Decided(job[p], plan[p])'
<1>1. CASE DeleteAccountTx(p)
  BY <1>1, PreparedStands DEF DeleteAccountTx, Begin, Decided, DecidesDeleteAccount
<1>2. CASE DeleteUserTx(p)
  <2>1. PICK heir \in [LastOwner(job[p].target) -> Users] :
          /\ \A s \in LastOwner(job[p].target) : NextOwner(s, job[p].target, heir[s])
          /\ Prepare(p, RemoveAccountWrites(job[p].target, heir))
    BY <1>2 DEF DeleteUserTx
  <2>2. spent' = spent /\ job[p].op = "DeleteUser"
    BY <1>2 DEF DeleteUserTx, Begin
  <2> QED BY <2>1, <2>2, PreparedStands DEF Decided, DecidesDeleteUser
<1> QED BY <1>1, <1>2

-----------------------------------------------------------------------------
(* The plan of each operation, field by field.                             *)

\* Only the membership of u in s changes, to r.
OneRow(w, s, u, r) ==
  /\ w.new = {} /\ w.gone = {} /\ w.edit = {} /\ w.role = Row(s, u, r)

\* What joinSpace decided: nothing, or that u gets a better role in s.
Joins(w, s, u, r) ==
  /\ w.new = {} /\ w.gone = {}
  /\ \/ w.role = NoRows
     \/ w.role = Row(s, u, r) /\ ~AtLeast(role[s][u], r)

LEMMA EmptyPlan ==
  NoWrites.edit = {} /\ NoWrites.use = {} /\ NoWrites.wipe = {}
  BY DEF NoWrites

LEMMA CreateSpacePlan ==
  ASSUME NEW s, NEW u
  PROVE  /\ Created(s, u).new = {s} /\ Created(s, u).gone = {} /\ Created(s, u).insert
         /\ Created(s, u).role = Row(s, u, "OWNER")
  BY NoWritesFields DEF Writes, Created

LEMMA OneRowPlan ==
  ASSUME NEW s, NEW u, NEW r, NEW w, w = [NoWrites EXCEPT !.role = Row(s, u, r)]
  PROVE  OneRow(w, s, u, r)
  BY NoWritesFields, EmptyPlan DEF Writes, OneRow

LEMMA GonePlan ==
  ASSUME NEW s, NEW w, w = [NoWrites EXCEPT !.gone = {s}]
  PROVE  w.new = {} /\ w.gone = {s} /\ w.edit = {} /\ w.role = NoRows
  BY NoWritesFields, EmptyPlan DEF Writes

LEMMA EditPlan ==
  ASSUME NEW e, NEW w, w = [NoWrites EXCEPT !.edit = {e}]
  PROVE  w.new = {} /\ w.gone = {} /\ w.role = NoRows
  BY NoWritesFields DEF Writes

\* joinSpace writes nothing, or a role that is better than the one there is.
LEMMA JoiningPlan ==
  ASSUME TypeOK, NEW s \in Spaces, NEW u \in Users, NEW r \in Roles
  PROVE  Joins(joinSpace(s, u, r), s, u, r) /\ joinSpace(s, u, r) \in Writes
<1> DEFINE w == joinSpace(s, u, r)
<1>1. CASE role[s][u] = NoRole
  <2>1. w = [NoWrites EXCEPT !.role = Row(s, u, r), !.insert = TRUE]
    BY <1>1 DEF joinSpace
  <2> HIDE DEF w
  <2>2. w.new = {} /\ w.gone = {} /\ w.role = Row(s, u, r)
    BY <2>1, NoWritesFields DEF Writes
  <2>3. ~AtLeast(NoRole, r)
    BY DEF AtLeast, rank, Roles, NoRole
  <2> QED BY <1>1, <2>2, <2>3, JoinPlan DEF Joins, w
<1>2. CASE role[s][u] # NoRole /\ AtLeast(role[s][u], r)
  BY <1>2, NoWritesFields DEF joinSpace, Joins
<1>3. CASE role[s][u] # NoRole /\ ~AtLeast(role[s][u], r)
  <2>1. w = [NoWrites EXCEPT !.role = Row(s, u, r)]
    BY <1>3 DEF joinSpace
  <2> HIDE DEF w
  <2>2. w.new = {} /\ w.gone = {} /\ w.role = Row(s, u, r)
    BY <2>1, NoWritesFields DEF Writes
  <2> QED BY <1>3, <2>2, JoinPlan DEF Joins, w
<1> QED BY <1>1, <1>2, <1>3

\* Counting an invite changes nothing else of what joinSpace decided.
LEMMA CountedPlan ==
  ASSUME NEW s, NEW u, NEW r, NEW v \in Writes, Joins(v, s, u, r), NEW id, NEW w, w = Counted(v, id)
  PROVE  Joins(w, s, u, r) /\ w.use = {id}
<1>1. w.new = v.new /\ w.gone = v.gone /\ w.role = v.role /\ w.use = {id}
  BY DEF Counted, Writes
<1> QED BY <1>1 DEF Joins

LEMMA AcceptInvitePlan ==
  ASSUME TypeOK, NEW j \in Job, j.op = "AcceptInvite", NEW w, DecidesAcceptInvite(j, w)
  PROVE  \E i \in invites : /\ i.id = j.invite /\ i.space \in Spaces /\ i.role \in InviteRoles
                            /\ Joins(w, i.space, j.user, i.role) /\ w.use = {i.id}
<1>1. PICK i \in invites :
        i.id = j.invite /\ w = Counted(joinSpace(i.space, j.user, i.role), i.id)
  BY DEF DecidesAcceptInvite
<1>2. j.user \in Users /\ i.space \in Spaces /\ i.role \in InviteRoles /\ i.role \in Roles
  BY JobFields DEF TypeOK, InviteRow, InviteRoles
<1>3. /\ Joins(joinSpace(i.space, j.user, i.role), i.space, j.user, i.role)
      /\ joinSpace(i.space, j.user, i.role) \in Writes
  BY <1>2, JoiningPlan
<1>4. Joins(w, i.space, j.user, i.role) /\ w.use = {i.id}
  BY <1>1, <1>3, CountedPlan
<1> QED BY <1>1, <1>2, <1>4

LEMMA RemovalPlan ==
  ASSUME TypeOK, NEW u \in Users, NEW heir, NEW w, w = RemoveAccountWrites(u, heir)
  PROVE  /\ w.new = {} /\ w.gone = Alone(u) /\ w.wipe = {u}
         /\ w.role = Departing(u, heir)
<1>1. w.wipe = {u}
  <2>1. \A g, r : [NoWrites EXCEPT !.gone = g, !.wipe = {u}, !.role = r].wipe = {u}
    BY NoWritesFields DEF Writes
  <2> QED BY <2>1 DEF RemoveAccountWrites
<1> QED BY <1>1, RemovePlan

-----------------------------------------------------------------------------
(* The invariant is kept.                                                  *)

\* Only the creation of a space makes one, whose id was taken.
LEMMA OneNewSpace ==
  ASSUME TypeOK, NEW j \in Job, NEW w, Decided(j, w)
  PROVE  w.new = {} \/ (j.op = "CreateSpace" /\ \E s \in spent : w.new = {s})
<1>1. CASE j.op = "CreateSpace" /\ DecidesCreateSpace(j, w)
  BY <1>1, CreateSpacePlan DEF DecidesCreateSpace
<1>2. CASE j.op = "JoinSpace" /\ DecidesJoinSpace(j, w)
  <2>1. j.space \in Spaces /\ j.user \in Users /\ joinRole[j.space] \in Roles
    BY <1>2, JobFields DEF TypeOK, JoinRoles, Roles
  <2> QED BY <1>2, <2>1, JoiningPlan DEF DecidesJoinSpace, Joins
<1>3. CASE DecidesUpdateSpace(j, w)
  BY <1>3, EditPlan DEF DecidesUpdateSpace
<1>4. CASE DecidesDeleteSpace(j, w)
  BY <1>4, GonePlan DEF DecidesDeleteSpace
<1>5. CASE DecidesLeaveSpace(j, w)
  BY <1>5, OneRowPlan DEF DecidesLeaveSpace, OneRow
<1>6. CASE DecidesUpdateSpaceMember(j, w)
  BY <1>6, OneRowPlan DEF DecidesUpdateSpaceMember, OneRow
<1>7. CASE DecidesRemoveSpaceMember(j, w)
  BY <1>7, OneRowPlan DEF DecidesRemoveSpaceMember, OneRow
<1>8. CASE j.op = "AcceptInvite" /\ DecidesAcceptInvite(j, w)
  BY <1>8, AcceptInvitePlan DEF Joins
<1>9. CASE j.op = "DeleteAccount" /\ DecidesDeleteAccount(j, w)
  BY <1>9, JobFields, RemovalPlan DEF DecidesDeleteAccount
<1>10. CASE j.op = "DeleteUser" /\ DecidesDeleteUser(j, w)
  BY <1>10, JobFields, RemovalPlan DEF DecidesDeleteUser
<1> QED BY <1>1, <1>2, <1>3, <1>4, <1>5, <1>6, <1>7, <1>8, <1>9, <1>10 DEF Decided

LEMMA CommitDecided ==
  ASSUME DecidedInv, NEW p \in Procs, Commit(p)
  PROVE  IsFiniteSet(spaces)' /\ SpacesAreSpent' /\ PlansAreDecided'
<1>1. pc[p] = "open" /\ Decided(job[p], plan[p]) /\ job[p] \in Job
  BY DEF Commit, DecidedInv, PlansAreDecided, OwnersInv, TypeOK
<1>2. plan[p].new = {} \/ \E s \in spent : plan[p].new = {s}
  BY <1>1, OneNewSpace DEF DecidedInv, OwnersInv
<1>3. spaces' \subseteq spaces \cup plan[p].new /\ spent' = spent
  BY DEF Commit
<1>4. IsFiniteSet(spaces')
  BY <1>2, <1>3, FS_AddElement, FS_Subset DEF DecidedInv
<1>5. SpacesAreSpent'
  BY <1>2, <1>3 DEF DecidedInv, SpacesAreSpent
<1>6. \A q \in Procs : pc'[q] # "open"
  BY DEF Commit, Answer, DecidedInv, OwnersInv, OneWriter, TypeOK
<1> QED BY <1>4, <1>5, <1>6 DEF PlansAreDecided

\* A transaction begins, when no other is open.
LEMMA BeginDecided ==
  ASSUME DecidedInv, NEW p \in Procs, Began(p), NoOpenTx, spent \subseteq spent',
         Decided(job[p], plan[p])'
  PROVE  IsFiniteSet(spaces)' /\ SpacesAreSpent' /\ PlansAreDecided'
<1>1. spaces' = spaces /\ \A q \in Procs : pc'[q] = "open" => q = p
  BY DEF Began, Prepare, NoOpenTx, DecidedInv, OwnersInv, TypeOK
<1>2. PlansAreDecided'
  <2> SUFFICES ASSUME NEW q \in Procs, pc'[q] = "open" PROVE Decided(job[q], plan[q])'
    BY DEF PlansAreDecided
  <2> QED BY <1>1
<1> QED BY <1>1, <1>2 DEF DecidedInv, SpacesAreSpent

\* Everything else: no table changes that an open transaction read.
LEMMA OtherDecided ==
  ASSUME DecidedInv, UNCHANGED <<spaces, role, discoverable, joinRole>>, spent \subseteq spent',
         \A q \in Procs : pc'[q] = "open" =>
           pc[q] = "open" /\ plan'[q] = plan[q] /\ job'[q] = job[q],
         \/ NoOpenTx
         \/ \A i \in invites : \E k \in invites' :
               k.id = i.id /\ k.space = i.space /\ k.role = i.role
  PROVE  IsFiniteSet(spaces)' /\ SpacesAreSpent' /\ PlansAreDecided'
<1>1. PlansAreDecided'
  <2> SUFFICES ASSUME NEW q \in Procs, pc'[q] = "open" PROVE Decided(job[q], plan[q])'
    BY DEF PlansAreDecided
  <2>1. Decided(job[q], plan[q]) /\ ~NoOpenTx
    BY DEF DecidedInv, PlansAreDecided, NoOpenTx
  <2>2. \A j, w : Decided(j, w) => Decided(j, w)'
    BY <2>1, DecidedStands
  <2>3. job'[q] = job[q] /\ plan'[q] = plan[q]
    OBVIOUS
  <2> QED BY <2>1, <2>2, <2>3
<1> QED BY <1>1 DEF DecidedInv, SpacesAreSpent

LEMMA NextDecided ==
  ASSUME Serial, DecidedInv, [Next]_vars
  PROVE  DecidedInv'
<1> DEFINE New == IsFiniteSet(spaces)' /\ SpacesAreSpent' /\ PlansAreDecided'
<1>1. TypeOK
  BY DEF DecidedInv, OwnersInv
<1>2. OwnersInv' /\ NobodyInDeletedSpaces' /\ UsedWithinLimit' /\ InviteIdsAreKeys'
  BY NextOwners, NextRows, NextUses DEF DecidedInv, OwnersInv, RowsInv, UsesInv
<1>3. ASSUME NEW p \in Procs,
             \/ CreateSpaceTx(p) \/ JoinSpaceTx(p) \/ UpdateSpaceTx(p) \/ DeleteSpaceTx(p)
             \/ LeaveSpaceTx(p) \/ UpdateSpaceMemberTx(p) \/ RemoveSpaceMemberTx(p)
             \/ AcceptInviteTx(p) \/ DeleteAccountTx(p) \/ DeleteUserTx(p)
      PROVE  New
  <2>1. Began(p)
    BY <1>1, <1>3, TransactionsBegin
  <2>2. NoOpenTx /\ spent \subseteq spent'
    BY <1>3 DEF CreateSpaceTx, JoinSpaceTx, UpdateSpaceTx, DeleteSpaceTx, LeaveSpaceTx,
       UpdateSpaceMemberTx, RemoveSpaceMemberTx, AcceptInviteTx, DeleteAccountTx,
       DeleteUserTx, Begin
  <2>3. Decided(job[p], plan[p])'
    BY <1>1, <1>3, CreateSpaceDecides, MembershipDecides, AcceptInviteDecides, DeletionDecides
       DEF DecidedInv
  <2> QED BY <2>1, <2>2, <2>3, BeginDecided
<1>4. ASSUME NEW p \in Procs, Call(p) \/ Drop(p)
      PROVE  New
  <2>1. /\ UNCHANGED tables
        /\ \A q \in Procs : pc'[q] = "open" =>
             pc[q] = "open" /\ plan'[q] = plan[q] /\ job'[q] = job[q]
    <3>1. CASE Call(p)
      BY <1>1, <3>1 DEF Call, TypeOK
    <3>2. CASE Drop(p)
      BY <1>1, <3>2 DEF Drop, Answer, TypeOK
    <3> QED BY <1>4, <3>1, <3>2
  <2> QED BY <2>1, OtherDecided DEF tables
<1>5. ASSUME NEW p \in Procs, CreateInvite(p) \/ DeleteInvite(p)
      PROVE  New
  <2>1. /\ UNCHANGED <<spaces, role, discoverable, joinRole>>
        /\ spent \subseteq spent' /\ NoOpenTx /\ Answer(p)
    BY <1>5 DEF CreateInvite, DeleteInvite, Begin
  <2>2. \A q \in Procs : pc'[q] = "open" =>
          pc[q] = "open" /\ plan'[q] = plan[q] /\ job'[q] = job[q]
    BY <1>1, <2>1 DEF Answer, TypeOK
  <2> QED BY <2>1, <2>2, OtherDecided
<1>6. ASSUME ExpireInvite
      PROVE  New
  <2>1. PICK i \in invites : invites' = (invites \ {i}) \cup {[i EXCEPT !.expired = TRUE]}
    BY <1>6 DEF ExpireInvite
  <2> DEFINE k == [i EXCEPT !.expired = TRUE]
  <2>2. k.id = i.id /\ k.space = i.space /\ k.role = i.role
    BY <1>1 DEF TypeOK, InviteRow
  <2>3. invites' = (invites \ {i}) \cup {k}
    BY <2>1
  <2> HIDE DEF k
  <2>4. \A x \in invites : \E y \in invites' : y.id = x.id /\ y.space = x.space /\ y.role = x.role
    BY <2>2, <2>3
  <2> QED BY <1>6, <2>4, OtherDecided DEF ExpireInvite, request
<1>7. ASSUME UNCHANGED vars
      PROVE  New
  BY <1>7, OtherDecided DEF vars, tables, request
<1>8. ASSUME NEW p \in Procs, Commit(p)
      PROVE  New
  BY <1>8, CommitDecided
<1>9. New
  <2> HIDE DEF New
  <2> QED BY <1>3, <1>4, <1>5, <1>6, <1>7, <1>8 DEF Next
<1> QED BY <1>2, <1>9 DEF DecidedInv

\* On SQLite every transaction commits what its handler decides from the tables
\* it commits to.
THEOREM DecisionsStand ==
  ASSUME Serial
  PROVE  Spec => []DecidedInv
  BY InitDecided, NextDecided, PTL DEF Spec

-----------------------------------------------------------------------------
(* What a commit makes of the members.                                     *)

LEMMA CommitTables ==
  ASSUME DecidedInv, NEW p \in Procs, Commit(p)
  PROVE  /\ job[p] \in Job /\ plan[p] \in Writes /\ Decided(job[p], plan[p])
         /\ pc[p] = "open" /\ pc'[p] = "idle"
         /\ spaces' = (spaces \cup plan[p].new) \ plan[p].gone
         /\ role' \in [Spaces -> [Users -> Roles \cup {NoRole}]]
         /\ \A s \in Spaces, u \in Users : role'[s][u] = RoleAfter(plan[p], s, u)
         /\ \A id \in plan[p].use : \E i \in invites : i.id = id /\ CountsUse(i)
<1>1. TypeOK /\ TypeOK'
  BY CommitType DEF DecidedInv, OwnersInv
<1> QED BY <1>1 DEF TypeOK, DecidedInv, PlansAreDecided, Commit, Answer, Refused

LEMMA NoRowsAfter ==
  ASSUME NEW w, w.gone = {}, w.role = NoRows, NEW s \in Spaces, NEW u \in Users
  PROVE  RoleAfter(w, s, u) = role[s][u]
  BY DEF RoleAfter, NoRows

\* One row: the membership of u in s becomes r, unless there is none to update.
LEMMA RowAfter ==
  ASSUME NEW s \in Spaces, NEW u \in Users, NEW r \in Roles \cup {NoRole}, NEW w,
         w.gone = {}, w.role = Row(s, u, r), NEW t \in Spaces, NEW v \in Users
  PROVE  /\ RoleAfter(w, s, u) \in {r, role[s][u]}
         /\ role[s][u] # NoRole => RoleAfter(w, s, u) = r
         /\ t # s \/ v # u => RoleAfter(w, t, v) = role[t][v]
<1>1. w.role[s][u] = r /\ r # Keep
  BY DEF Row, Roles, NoRole, Keep
<1>2. t # s \/ v # u => w.role[t][v] = Keep
  BY DEF Row
<1> QED BY <1>1, <1>2 DEF RoleAfter

\* Joining: one membership rises, or nothing changes.
LEMMA JoinsAfter ==
  ASSUME NEW s \in Spaces, NEW u \in Users, NEW r \in Roles, NEW w, Joins(w, s, u, r),
         NEW t \in Spaces, NEW v \in Users
  PROVE  \/ RoleAfter(w, t, v) = role[t][v]
         \/ t = s /\ v = u /\ RoleAfter(w, t, v) = r /\ ~AtLeast(role[t][v], r)
  BY NoRowsAfter, RowAfter DEF Joins

\* The membership that a request of these operations is about.
LEMMA DecidedJoin ==
  ASSUME TypeOK, NEW j \in Job, NEW w, Decided(j, w), j.op \in {"JoinSpace", "AcceptInvite"}
  PROVE  \E s \in Spaces, r \in InviteRoles :
           /\ Joins(w, s, j.user, r)
           /\ \/ j.op = "JoinSpace" /\ s \in discoverable /\ r = joinRole[s]
              \/ /\ j.op = "AcceptInvite"
                 /\ \E i \in invites : /\ i.id = j.invite /\ i.space = s /\ i.role = r
                                       /\ w.use = {i.id}
<1>1. CASE j.op = "JoinSpace"
  <2>1. /\ j.space \in Spaces /\ j.user \in Users /\ joinRole[j.space] \in InviteRoles
        /\ joinRole[j.space] \in Roles
    BY <1>1, JobFields DEF TypeOK, JoinRoles, InviteRoles, Roles
  <2>2. DecidesJoinSpace(j, w)
    BY <1>1 DEF Decided
  <2> QED BY <1>1, <2>1, <2>2, JoiningPlan DEF DecidesJoinSpace
<1>2. CASE j.op = "AcceptInvite"
  <2>1. DecidesAcceptInvite(j, w)
    BY <1>2 DEF Decided
  <2> QED BY <1>2, <2>1, AcceptInvitePlan
<1> QED BY <1>1, <1>2

-----------------------------------------------------------------------------
(* What a commit of an operation may do, for every operation it can be.    *)

LEMMA RankIsNumber ==
  /\ \A r \in Roles \cup {NoRole} : rank[r] \in 0..4
  /\ \A r, o \in Roles \cup {NoRole} : ~AtLeast(r, o) <=> rank[o] < rank[r]
<1>1. \A r \in Roles \cup {NoRole} : rank[r] \in 0..4
  BY DEF rank, Roles, NoRole
<1> QED BY <1>1 DEF AtLeast

LEMMA JoiningKeepsRoles ==
  ASSUME DecidedInv, NEW p \in Procs
  PROVE  JoinKeepsRoles(p)
<1> SUFFICES ASSUME Commit(p), job[p].op \in {"JoinSpace", "AcceptInvite"},
                    NEW t \in Spaces, NEW v \in Users
             PROVE  rank[role'[t][v]] <= rank[role[t][v]]
  BY DEF JoinKeepsRoles
<1>1. TypeOK /\ job[p] \in Job /\ job[p].user \in Users
  BY CommitTables, JobFields DEF DecidedInv, OwnersInv
<1>2. PICK s \in Spaces, r \in InviteRoles : Joins(plan[p], s, job[p].user, r)
  BY <1>1, CommitTables, DecidedJoin
<1>3. r \in Roles /\ role[t][v] \in Roles \cup {NoRole}
  BY <1>1 DEF InviteRoles, TypeOK
<1>4. \/ role'[t][v] = role[t][v]
      \/ role'[t][v] = r /\ ~AtLeast(role[t][v], r)
  BY <1>1, <1>2, <1>3, CommitTables, JoinsAfter
<1> QED BY <1>3, <1>4, RankIsNumber

\* "joining never downgrades an existing membership" (spaces.go, joinSpace): on
\* SQLite the role somebody has when joining commits is the one that was compared.
THEOREM JoiningNeverLowers ==
  ASSUME Serial
  PROVE  Spec => JoiningNeverDowngrades
<1>1. DecidedInv => \A p \in Procs : JoinKeepsRoles(p)
  BY JoiningKeepsRoles
<1> QED BY <1>1, DecisionsStand, PTL DEF JoiningNeverDowngrades

LEMMA RemovalIsOwn ==
  ASSUME DecidedInv, NEW p \in Procs
  PROVE  RemovalTakesOwnSpaces(p)
<1> SUFFICES ASSUME Commit(p), job[p].op \in {"DeleteAccount", "DeleteUser"},
                    NEW s \in spaces \ spaces'
             PROVE  Members(s) \subseteq plan[p].wipe
  BY DEF RemovalTakesOwnSpaces
<1>1. TypeOK /\ job[p] \in Job
  BY CommitTables DEF DecidedInv, OwnersInv
<1>2. PICK u \in Users : \E heir : plan[p] = RemoveAccountWrites(u, heir)
  <2>1. CASE job[p].op = "DeleteAccount"
    BY <1>1, <2>1, CommitTables, JobFields DEF Decided, DecidesDeleteAccount
  <2>2. CASE job[p].op = "DeleteUser"
    BY <1>1, <2>2, CommitTables, JobFields DEF Decided, DecidesDeleteUser
  <2> QED BY <2>1, <2>2
<1>3. plan[p].gone = Alone(u) /\ plan[p].wipe = {u}
  BY <1>1, <1>2, RemovalPlan
<1>4. s \in Alone(u)
  BY <1>3, CommitTables
<1> QED BY <1>3, <1>4 DEF Alone

\* Deleting an account takes only spaces nobody else is a member of, also when
\* people join them while it is being decided: on SQLite they come before or after.
THEOREM SharedSpacesAreKept ==
  ASSUME Serial
  PROVE  Spec => SharedSpacesSurvive
<1>1. DecidedInv => \A p \in Procs : RemovalTakesOwnSpaces(p)
  BY RemovalIsOwn
<1> QED BY <1>1, DecisionsStand, PTL DEF SharedSpacesSurvive

LEMMA CreatingCounts ==
  ASSUME DecidedInv, NEW p \in Procs
  PROVE  CreatedWithinQuota(p)
<1> DEFINE u == job[p].user
           before == {s \in Spaces : role[s][u] = "OWNER"}
           after == {s \in spaces' : role'[s][u] = "OWNER"}
<1> SUFFICES ASSUME Commit(p), job[p].op = "CreateSpace", SpaceQuota > 0
             PROVE  Cardinality(after) <= SpaceQuota
  BY DEF CreatedWithinQuota
<1>1. TypeOK /\ TypeOK' /\ job[p] \in Job /\ u \in Users
  BY CommitTables, CommitType, JobFields DEF DecidedInv, OwnersInv
<1>2. checkSpaceQuota(u) /\ DecidesCreateSpace(job[p], plan[p])
  BY CommitTables DEF Decided, DecidesCreateSpace
<1>3. Cardinality(before) < SpaceQuota
  BY <1>2 DEF checkSpaceQuota, CountOwnedSpaces
<1>4. PICK s \in Spaces : plan[p] = Created(s, u)
  BY <1>2 DEF DecidesCreateSpace
<1>5. plan[p].role = Row(s, u, "OWNER") /\ plan[p].gone = {} /\ plan[p].new = {s}
  BY <1>4, CreateSpacePlan
<1> HIDE DEF u
<1>6. IsFiniteSet(before) /\ Cardinality(before) \in Nat
  <2>1. before \subseteq spaces
    BY <1>1 DEF DecidedInv, NobodyInDeletedSpaces, Members, NoRole
  <2> QED BY <2>1, FS_Subset, FS_CardinalityType DEF DecidedInv
<1>7. after \subseteq before \cup {s}
  <2> SUFFICES ASSUME NEW t \in Spaces, role'[t][u] = "OWNER", t # s
               PROVE  role[t][u] = "OWNER"
    BY <1>1 DEF TypeOK
  <2> QED BY <1>1, <1>5, CommitTables, RowAfter DEF Roles
<1>8. /\ IsFiniteSet(before \cup {s})
      /\ Cardinality(before \cup {s}) <= Cardinality(before) + 1
      /\ Cardinality(before \cup {s}) \in Nat
  <2> HIDE DEF before
  <2>1. /\ IsFiniteSet(before \cup {s})
        /\ \/ Cardinality(before \cup {s}) = Cardinality(before)
           \/ Cardinality(before \cup {s}) = Cardinality(before) + 1
    BY <1>6, FS_AddElement
  <2> QED BY <1>6, <2>1
<1>9. Cardinality(after) <= Cardinality(before \cup {s}) /\ Cardinality(after) \in Nat
  BY <1>7, <1>8, FS_Subset, FS_CardinalityType
<1> HIDE DEF before, after
<1>10. SpaceQuota \in Nat
  BY SpacesAssumption
<1> QED BY <1>3, <1>6, <1>8, <1>9, <1>10

\* "You can own at most %d spaces" (quotas.go): on SQLite the spaces counted are
\* those there are when the new one appears, so however many requests create
\* spaces at once, none gets past the quota.
THEOREM QuotaHolds ==
  ASSUME Serial
  PROVE  Spec => CreatingStaysWithinQuota
<1>1. DecidedInv => \A p \in Procs : CreatedWithinQuota(p)
  BY CreatingCounts
<1> QED BY <1>1, DecisionsStand, PTL DEF CreatingStaysWithinQuota

-----------------------------------------------------------------------------
(* Memberships rise by a decision that still holds when it is committed.   *)

\* The memberships of a removed account end, heirs become owners, the rest stays.
LEMMA DepartingAfter ==
  ASSUME NEW u \in Users, NEW heir, NEW w, w.gone = Alone(u), w.role = Departing(u, heir),
         NEW s \in Spaces, NEW v \in Users
  PROVE  /\ s \in Alone(u) => RoleAfter(w, s, v) = NoRole
         /\ s \notin Alone(u) /\ v = u => RoleAfter(w, s, v) = NoRole
         /\ s \notin Alone(u) /\ v # u /\ ~(s \in LastOwner(u) /\ v = heir[s]) =>
              RoleAfter(w, s, v) = role[s][v]
         /\ s \notin Alone(u) /\ v # u /\ s \in LastOwner(u) /\ v = heir[s] =>
              RoleAfter(w, s, v) = IF role[s][v] = NoRole /\ ~w.insert THEN NoRole ELSE "OWNER"
<1>1. w.role[s][v] = IF v = u THEN IF role[s][u] = NoRole THEN Keep ELSE NoRole
                     ELSE IF s \in LastOwner(u) /\ v = heir[s] THEN "OWNER"
                     ELSE Keep
  BY DEF Departing
<1> QED BY <1>1 DEF RoleAfter, Keep, NoRole

\* Ending a membership, or leaving it, is no rise.
LEMMA NoRise ==
  ASSUME NEW r \in Roles \cup {NoRole}, NEW o \in Roles \cup {NoRole},
         o = NoRole \/ o = r
  PROVE  ~(rank[o] < rank[r])
  BY DEF rank, Roles, NoRole

LEMMA JoinRiseIsGranted ==
  ASSUME DecidedInv, NEW p \in Procs, Commit(p), job[p].op \in {"JoinSpace", "AcceptInvite"},
         NEW t \in Spaces, NEW v \in Users, rank[role'[t][v]] < rank[role[t][v]]
  PROVE  Granted(p, t, v)
<1> DEFINE j == job[p]
<1>1. TypeOK /\ j \in Job /\ j.user \in Users /\ Decided(j, plan[p])
  BY CommitTables, JobFields DEF DecidedInv, OwnersInv
<1>2. PICK s \in Spaces, r \in InviteRoles :
        /\ Joins(plan[p], s, j.user, r)
        /\ \/ j.op = "JoinSpace" /\ s \in discoverable /\ r = joinRole[s]
           \/ /\ j.op = "AcceptInvite"
              /\ \E i \in invites : /\ i.id = j.invite /\ i.space = s /\ i.role = r
                                    /\ plan[p].use = {i.id}
  BY <1>1, DecidedJoin
<1>3. r \in Roles /\ role[t][v] \in Roles \cup {NoRole}
  BY <1>1 DEF InviteRoles, TypeOK
<1>4. t = s /\ role'[t][v] = r
  <2>1. role'[t][v] # role[t][v]
    BY <1>3, NoRise
  <2> QED BY <1>1, <1>2, <1>3, <2>1, CommitTables, JoinsAfter
<1>5. ASSUME NEW i \in invites, plan[p].use = {i.id}
      PROVE  CountsUse(i)
  <2>1. PICK k \in invites : k.id = i.id /\ CountsUse(k)
    BY <1>5, CommitTables
  <2> QED BY <2>1 DEF DecidedInv, InviteIdsAreKeys
<1>6. pc[p] = "open" /\ pc'[p] = "idle"
  BY CommitTables
<1> QED BY <1>2, <1>4, <1>5, <1>6 DEF Granted

LEMMA CreateRiseIsGranted ==
  ASSUME DecidedInv, NEW p \in Procs, Commit(p), job[p].op = "CreateSpace",
         NEW t \in Spaces, NEW v \in Users, rank[role'[t][v]] < rank[role[t][v]]
  PROVE  Granted(p, t, v)
<1> DEFINE u == job[p].user
           w == plan[p]
<1>1. TypeOK /\ u \in Users /\ DecidesCreateSpace(job[p], w)
  BY CommitTables, JobFields DEF DecidedInv, OwnersInv, Decided
<1>2. PICK s \in Spaces \ spaces : w = Created(s, u)
  BY <1>1 DEF DecidesCreateSpace
<1>3. role'[t][v] = RoleAfter(w, t, v)
  BY CommitTables
<1> HIDE DEF u, w
<1>4. w.role = Row(s, u, "OWNER") /\ w.gone = {}
  BY <1>2, CreateSpacePlan
<1>5. t = s
  <2>1. role'[t][v] # role[t][v]
    BY <1>1, NoRise DEF TypeOK
  <2> QED BY <1>1, <1>3, <1>4, <2>1, RowAfter DEF Roles
<1>6. pc[p] = "open" /\ pc'[p] = "idle"
  BY CommitTables
<1> QED BY <1>5, <1>6 DEF Granted

LEMMA UpdateRiseIsGranted ==
  ASSUME DecidedInv, NEW p \in Procs, Commit(p), job[p].op = "UpdateSpaceMember",
         NEW t \in Spaces, NEW v \in Users, rank[role'[t][v]] < rank[role[t][v]]
  PROVE  Granted(p, t, v)
<1> DEFINE j == job[p]
           w == plan[p]
<1>1. /\ TypeOK /\ DecidesUpdateSpaceMember(j, w)
      /\ j.space \in Spaces /\ j.user \in Users /\ j.target \in Users /\ j.role \in Roles
  BY CommitTables, JobFields DEF DecidedInv, OwnersInv, Decided
<1>2. OneRow(w, j.space, j.target, j.role) /\ managedMember(j.space, j.user, j.target)
  BY <1>1, OneRowPlan DEF DecidesUpdateSpaceMember
<1>3. role'[t][v] = RoleAfter(w, t, v)
  BY CommitTables
<1>4. role[t][v] \in Roles \cup {NoRole} /\ role[t][j.user] \in Roles \cup {NoRole}
  BY <1>1 DEF TypeOK
<1>5. t = j.space /\ v = j.target /\ role'[t][v] = j.role
  <2>1. role'[t][v] # role[t][v]
    BY <1>4, NoRise
  <2> QED BY <1>1, <1>2, <1>3, <2>1, RowAfter DEF OneRow
<1>6. ~AtLeast(role[t][v], role[t][j.user])
  <2>1. role[t][j.user] = "OWNER" \/ rank[role[t][j.user]] < rank[role[t][v]]
    BY <1>2, <1>5 DEF managedMember
  <2>2. rank[j.role] \in Nat /\ rank[j.role] < rank[role[t][v]]
    BY <1>1, <1>5, RankIsNumber
  <2>3. rank["OWNER"] = 0 /\ rank[role[t][v]] \in 0..4
    BY <1>4, RankIsNumber DEF rank
  <2> QED BY <1>4, <2>1, <2>2, <2>3, RankIsNumber
<1>7. /\ pc[p] = "open" /\ pc'[p] = "idle"
      /\ Has(role[t][j.user], "MANAGE_MEMBERS") /\ AtLeast(role[t][j.user], j.role)
  BY <1>1, <1>2, <1>5, CommitTables DEF DecidesUpdateSpaceMember, managedMember
<1> QED BY <1>5, <1>6, <1>7 DEF Granted

LEMMA RemovalRiseIsGranted ==
  ASSUME DecidedInv, NEW p \in Procs, Commit(p), job[p].op \in {"DeleteAccount", "DeleteUser"},
         NEW t \in Spaces, NEW v \in Users, rank[role'[t][v]] < rank[role[t][v]]
  PROVE  Granted(p, t, v)
<1> DEFINE j == job[p]
           w == plan[p]
<1>1. TypeOK /\ j \in Job /\ Decided(j, w) /\ role'[t][v] = RoleAfter(w, t, v)
  BY CommitTables DEF DecidedInv, OwnersInv
<1>2. PICK u \in Users : \E heir :
        /\ w = RemoveAccountWrites(u, heir)
        /\ \/ LastOwner(u) = {}
           \/ /\ j.op = "DeleteUser" /\ u = j.target
              /\ \A s \in LastOwner(u) : NextOwner(s, u, heir[s])
  <2>1. CASE j.op = "DeleteAccount"
    BY <1>1, <2>1, JobFields DEF Decided, DecidesDeleteAccount
  <2>2. CASE j.op = "DeleteUser"
    BY <1>1, <2>2, JobFields DEF Decided, DecidesDeleteUser
  <2> QED BY <2>1, <2>2
<1> PICK heir : /\ w = RemoveAccountWrites(u, heir)
                /\ \/ LastOwner(u) = {}
                   \/ /\ j.op = "DeleteUser" /\ u = j.target
                      /\ \A s \in LastOwner(u) : NextOwner(s, u, heir[s])
  BY <1>2
<1>3. w.gone = Alone(u) /\ w.role = Departing(u, heir)
  BY <1>1, RemovalPlan
<1>4. role[t][v] \in Roles \cup {NoRole}
  BY <1>1 DEF TypeOK
<1>5. t \in LastOwner(u) /\ v = heir[t]
  <2>1. role'[t][v] # role[t][v] /\ role'[t][v] # NoRole
    BY <1>4, NoRise
  <2> QED BY <1>1, <1>3, <2>1, DepartingAfter
<1>6. j.op = "DeleteUser" /\ Owners(t) = {j.target} /\ NextOwner(t, j.target, v)
  BY <1>5 DEF LastOwner
<1>7. pc[p] = "open" /\ pc'[p] = "idle"
  BY CommitTables
<1> QED BY <1>6, <1>7 DEF Granted

\* The other operations raise nobody.
LEMMA OthersRaiseNobody ==
  ASSUME DecidedInv, NEW p \in Procs, Commit(p), NEW t \in Spaces, NEW v \in Users,
         job[p].op \in {"UpdateSpace", "DeleteSpace", "LeaveSpace", "RemoveSpaceMember"}
  PROVE  ~(rank[role'[t][v]] < rank[role[t][v]])
<1> DEFINE j == job[p]
           w == plan[p]
<1>1. TypeOK /\ j \in Job /\ Decided(j, w) /\ role'[t][v] = RoleAfter(w, t, v)
  BY CommitTables DEF DecidedInv, OwnersInv
<1>2. role[t][v] \in Roles \cup {NoRole}
  BY <1>1 DEF TypeOK
<1>3. RoleAfter(w, t, v) \in {NoRole, role[t][v]}
  <2>1. CASE j.op = "UpdateSpace"
    <3>1. w.gone = {} /\ w.role = NoRows
      BY <1>1, <2>1, EditPlan DEF Decided, DecidesUpdateSpace
    <3> QED BY <3>1, NoRowsAfter
  <2>2. CASE j.op = "DeleteSpace"
    <3>1. w.gone = {j.space} /\ w.role = NoRows
      BY <1>1, <2>2, GonePlan DEF Decided, DecidesDeleteSpace
    <3> QED BY <3>1 DEF RoleAfter, NoRows
  <2>3. CASE j.op = "LeaveSpace"
    <3>1. OneRow(w, j.space, j.user, NoRole) /\ j.space \in Spaces /\ j.user \in Users
      BY <1>1, <2>3, OneRowPlan, JobFields DEF Decided, DecidesLeaveSpace
    <3> QED BY <3>1, RowAfter DEF OneRow
  <2>4. CASE j.op = "RemoveSpaceMember"
    <3>1. OneRow(w, j.space, j.target, NoRole) /\ j.space \in Spaces /\ j.target \in Users
      BY <1>1, <2>4, OneRowPlan, JobFields DEF Decided, DecidesRemoveSpaceMember
    <3> QED BY <3>1, RowAfter DEF OneRow
  <2> QED BY <2>1, <2>2, <2>3, <2>4
<1> QED BY <1>1, <1>2, <1>3, NoRise DEF NoRole

\* Spaces and members change by commits only.
LEMMA ChangedByCommit ==
  ASSUME TypeOK, [Next]_vars, \A p \in Procs : ~Commit(p)
  PROVE  UNCHANGED <<spaces, role>>
<1>1. ASSUME NEW p \in Procs,
             \/ CreateSpaceTx(p) \/ JoinSpaceTx(p) \/ UpdateSpaceTx(p) \/ DeleteSpaceTx(p)
             \/ LeaveSpaceTx(p) \/ UpdateSpaceMemberTx(p) \/ RemoveSpaceMemberTx(p)
             \/ AcceptInviteTx(p) \/ DeleteAccountTx(p) \/ DeleteUserTx(p)
      PROVE  UNCHANGED <<spaces, role>>
  BY <1>1, TransactionsBegin DEF Began, Prepare
<1>2. ASSUME NEW p \in Procs, Call(p) \/ CreateInvite(p) \/ DeleteInvite(p) \/ Drop(p)
      PROVE  UNCHANGED <<spaces, role>>
  BY <1>2 DEF Call, CreateInvite, DeleteInvite, Drop, tables
<1>3. ASSUME ExpireInvite \/ UNCHANGED vars
      PROVE  UNCHANGED <<spaces, role>>
  BY <1>3 DEF ExpireInvite, vars, tables
<1> QED BY <1>1, <1>2, <1>3 DEF Next

LEMMA RiseIsGranted ==
  ASSUME DecidedInv, NEW p \in Procs, Commit(p),
         NEW t \in Spaces, NEW v \in Users, rank[role'[t][v]] < rank[role[t][v]]
  PROVE  Granted(p, t, v)
<1>1. job[p].op \in {"CreateSpace", "JoinSpace", "UpdateSpace", "DeleteSpace", "LeaveSpace",
                    "UpdateSpaceMember", "RemoveSpaceMember", "AcceptInvite", "DeleteAccount",
                    "DeleteUser"}
  BY CommitTables DEF Decided
<1> QED BY <1>1, CreateRiseIsGranted, JoinRiseIsGranted, UpdateRiseIsGranted,
           RemovalRiseIsGranted, OthersRaiseNobody

\* Nobody gets into a space or rises in it but by what its members, its invites or
\* its settings allow at the moment it happens: on SQLite the permission a handler
\* checked in its transaction is still there when it commits.
THEOREM RisesNeedAGrant ==
  ASSUME Serial
  PROVE  Spec => RisesAreGranted
<1>1. DecidedInv /\ [Next]_vars =>
        [\A s \in Spaces, u \in Users :
           rank[role'[s][u]] < rank[role[s][u]] => \E p \in Procs : Granted(p, s, u)]_vars
  <2> SUFFICES ASSUME DecidedInv, [Next]_vars, NEW s \in Spaces, NEW u \in Users,
                      rank[role'[s][u]] < rank[role[s][u]]
               PROVE  \E p \in Procs : Granted(p, s, u)
    OBVIOUS
  <2>1. TypeOK /\ role'[s][u] # role[s][u]
    BY NoRise DEF DecidedInv, OwnersInv, TypeOK
  <2>2. PICK p \in Procs : Commit(p)
    BY <2>1, ChangedByCommit
  <2> QED BY <2>2, RiseIsGranted
<1> QED BY <1>1, DecisionsStand, PTL DEF Spec, RisesAreGranted

-----------------------------------------------------------------------------
(* Invites that a deleted space left behind.                               *)

\* Only accepting an invite counts a use.
LEMMA OnlyAcceptingUses ==
  ASSUME TypeOK, NEW j \in Job, NEW w, Decided(j, w), w.use # {}
  PROVE  j.op = "AcceptInvite" /\ DecidesAcceptInvite(j, w)
<1>1. ASSUME NEW s, NEW u, NEW r PROVE joinSpace(s, u, r).use = {}
  <2>1. /\ [NoWrites EXCEPT !.role = Row(s, u, r), !.insert = TRUE].use = {}
        /\ [NoWrites EXCEPT !.role = Row(s, u, r)].use = {}
    BY NoWritesFields, EmptyPlan DEF Writes
  <2> QED BY <2>1, EmptyPlan DEF joinSpace
<1>2. CASE DecidesJoinSpace(j, w)
  BY <1>1, <1>2 DEF DecidesJoinSpace
<1>3. CASE DecidesCreateSpace(j, w)
  BY <1>3, NoWritesFields, EmptyPlan DEF DecidesCreateSpace, Created, Writes
<1>4. CASE DecidesUpdateSpace(j, w) \/ DecidesDeleteSpace(j, w)
  BY <1>4, NoWritesFields, EmptyPlan DEF DecidesUpdateSpace, DecidesDeleteSpace, Writes
<1>5. CASE DecidesLeaveSpace(j, w) \/ DecidesUpdateSpaceMember(j, w) \/ DecidesRemoveSpaceMember(j, w)
  <2>1. \A r : [NoWrites EXCEPT !.role = r].use = {}
    BY NoWritesFields, EmptyPlan DEF Writes
  <2> QED BY <1>5, <2>1 DEF DecidesLeaveSpace, DecidesUpdateSpaceMember, DecidesRemoveSpaceMember
<1>6. CASE DecidesDeleteAccount(j, w) \/ DecidesDeleteUser(j, w)
  <2>1. \A g, v, r : [NoWrites EXCEPT !.gone = g, !.wipe = v, !.role = r].use = {}
    BY NoWritesFields, EmptyPlan DEF Writes
  <2> QED BY <1>6, <2>1 DEF DecidesDeleteAccount, DecidesDeleteUser, RemoveAccountWrites
<1> QED BY <1>2, <1>3, <1>4, <1>5, <1>6 DEF Decided

\* Whoever accepts an invite into a space that is not there is no member of it: the
\* row to insert has no space, and its foreign key refuses the transaction.
LEMMA UsedLeadsIntoASpace ==
  ASSUME DecidedInv, NEW p \in Procs, Commit(p), NEW i \in invites, i.id \in plan[p].use
  PROVE  i.space \in spaces
<1> SUFFICES ASSUME i.space \notin spaces PROVE FALSE
  OBVIOUS
<1> DEFINE j == job[p]
           w == plan[p]
<1>1. TypeOK /\ j \in Job /\ w \in Writes /\ Decided(j, w) /\ ~Refused(w)
  BY CommitTables DEF DecidedInv, OwnersInv, Commit
<1> HIDE DEF j, w
<1>2. DecidesAcceptInvite(j, w)
  BY <1>1, OnlyAcceptingUses DEF w
<1>3. PICK k \in invites :
        k.id = j.invite /\ w = Counted(joinSpace(k.space, j.user, k.role), k.id)
  BY <1>2 DEF DecidesAcceptInvite
<1>4. j.op = "AcceptInvite"
  BY <1>1, OnlyAcceptingUses DEF w
<1>5. /\ j.user \in Users
      /\ k.space \in Spaces /\ k.role \in Roles
  BY <1>1, <1>4, JobFields DEF TypeOK, InviteRow, InviteRoles
<1> DEFINE v == joinSpace(k.space, j.user, k.role)
<1>6. v \in Writes
  BY <1>1, <1>5, JoinPlan
<1>7. w.use = {k.id} /\ w.new = v.new /\ w.role = v.role /\ w.insert = v.insert
  BY <1>3, <1>6 DEF Counted, Writes
<1>8. k = i
  BY <1>7 DEF w, DecidedInv, InviteIdsAreKeys
<1>9. role[k.space][j.user] = NoRole
  BY <1>5, <1>8 DEF DecidedInv, NobodyInDeletedSpaces, Members
<1>10. v = [NoWrites EXCEPT !.role = Row(k.space, j.user, k.role), !.insert = TRUE]
  BY <1>9 DEF joinSpace
<1> HIDE DEF v
<1>11. v.new = {} /\ v.insert /\ v.role = Row(k.space, j.user, k.role)
  BY <1>10, NoWritesFields DEF Writes
<1>12. w.role[k.space][j.user] = k.role /\ k.role # Keep
  BY <1>5, <1>7, <1>11 DEF Row, Roles, Keep
<1> QED BY <1>1, <1>5, <1>7, <1>8, <1>11, <1>12 DEF Refused

LEMMA UsesOfTheDead ==
  ASSUME DecidedInv, [Next]_vars, NEW i \in invites, NEW j \in invites',
         i.id = j.id, i.space \notin spaces
  PROVE  j.used = i.used
<1>1. \A k \in invites : k.id = j.id => k = i
  BY DEF DecidedInv, InviteIdsAreKeys
<1>2. CASE invites' \subseteq invites
  BY <1>1, <1>2
<1>3. ASSUME NEW p \in Procs, Commit(p) PROVE j.used = i.used
  <2>1. PICK k \in invites :
          j = IF k.id \in plan[p].use THEN [k EXCEPT !.used = @ + 1] ELSE k
    BY <1>3 DEF Commit
  <2>2. k \in InviteRow
    BY DEF DecidedInv, OwnersInv, TypeOK
  <2>3. k.id = j.id
    BY <2>1, <2>2 DEF InviteRow
  <2>4. k.id \notin plan[p].use
    BY <1>1, <1>3, <2>3, UsedLeadsIntoASpace
  <2> QED BY <1>1, <2>1, <2>3, <2>4
<1>4. ASSUME NEW p \in Procs, CreateInvite(p) PROVE j.used = i.used
  <2>1. PICK id \in Invites \ spent : \A k \in invites' : k \in invites \/ k.id = id
    BY <1>4 DEF CreateInvite
  <2>2. i.id \in spent
    BY DEF DecidedInv, InviteIdsAreKeys
  <2> QED BY <1>1, <2>1, <2>2
<1>5. CASE ExpireInvite
  <2>1. PICK k \in invites : invites' = (invites \ {k}) \cup {[k EXCEPT !.expired = TRUE]}
    BY <1>5 DEF ExpireInvite
  <2>2. [k EXCEPT !.expired = TRUE].id = k.id /\ [k EXCEPT !.expired = TRUE].used = k.used
    BY DEF DecidedInv, OwnersInv, TypeOK, InviteRow
  <2> QED BY <1>1, <2>1, <2>2
<1>6. ASSUME NEW p \in Procs,
             \/ CreateSpaceTx(p) \/ JoinSpaceTx(p) \/ UpdateSpaceTx(p) \/ DeleteSpaceTx(p)
             \/ LeaveSpaceTx(p) \/ UpdateSpaceMemberTx(p) \/ RemoveSpaceMemberTx(p)
             \/ AcceptInviteTx(p) \/ DeleteAccountTx(p) \/ DeleteUserTx(p)
      PROVE  j.used = i.used
  BY <1>2, <1>6, TransactionsBegin DEF Began, Prepare, DecidedInv, OwnersInv
<1>7. ASSUME NEW p \in Procs, Call(p) \/ DeleteInvite(p) \/ Drop(p) PROVE j.used = i.used
  BY <1>2, <1>7 DEF Call, DeleteInvite, Drop, tables
<1>8. CASE UNCHANGED vars
  BY <1>2, <1>8 DEF vars, tables
<1> QED BY <1>3, <1>4, <1>5, <1>6, <1>7, <1>8 DEF Next

\* An invite into a space that was deleted is never used, on SQLite: joinSpace fails
\* in the transaction that counted it (invites.go, AcceptInvite), although CreateInvite
\* may have left it behind.
THEOREM InvitesOfDeletedSpacesAreDead ==
  ASSUME Serial
  PROVE  Spec => DeadInvitesStayUnused
<1>1. DecidedInv /\ [Next]_vars =>
        [\A i \in invites, j \in invites' :
           i.id = j.id /\ i.space \notin spaces => j.used = i.used]_vars
  BY UsesOfTheDead
<1> QED BY <1>1, DecisionsStand, PTL DEF Spec, DeadInvitesStayUnused

-----------------------------------------------------------------------------
(* Spaces implements Ownership.                                            *)

LEMMA InitImplements == Init => Abstract!Init
  BY DEF Init, Abstract!Init, Owners, NoRole, beingMade

\* Who owns what, as the abstract specification sees it.
owned == [s \in Spaces |-> Owners(s)]

\* The abstract variables stand still.
Stutters == UNCHANGED <<spaces, spent \cap Spaces, beingMade, owned>>

\* A step that leaves what is open alone.
LEMMA OpenKept ==
  ASSUME \A q \in Procs : pc'[q] = "open" <=> pc[q] = "open",
         \A q \in Procs : pc[q] = "open" => plan'[q] = plan[q]
  PROVE  beingMade' = beingMade
  BY DEF beingMade

\* A transaction begins while no other is open.
LEMMA BeginMakes ==
  ASSUME TypeOK, NEW p \in Procs, NEW w, Prepare(p, w), NoOpenTx
  PROVE  beingMade = {} /\ beingMade' = w.new
<1>1. plan'[p] = w /\ \A q \in Procs : pc'[q] = "open" <=> q = p
  BY DEF Prepare, NoOpenTx, TypeOK
<1> QED BY <1>1 DEF beingMade, NoOpenTx

\* The open transaction ends, one way or the other.
LEMMA EndMakes ==
  ASSUME DecidedInv, NEW p \in Procs, pc[p] = "open", Answer(p)
  PROVE  beingMade = plan[p].new /\ beingMade' = {}
<1>1. \A q \in Procs : pc[q] = "open" <=> q = p
  BY DEF DecidedInv, OwnersInv, OneWriter
<1>2. \A q \in Procs : pc'[q] # "open"
  BY <1>1 DEF Answer, DecidedInv, OwnersInv, TypeOK
<1> QED BY <1>1, <1>2 DEF beingMade

\* Only the creation of a space makes one: now, and after a step.
MakesNone(p) == pc[p] = "open" /\ job[p].op # "CreateSpace" => plan[p].new = {}

LEMMA OthersMakeNone == DecidedInv => \A p \in Procs : MakesNone(p)
<1> SUFFICES ASSUME DecidedInv, NEW p \in Procs PROVE MakesNone(p)
  OBVIOUS
<1>1. TypeOK /\ job[p] \in Job /\ (pc[p] = "open" => Decided(job[p], plan[p]))
  BY DEF DecidedInv, OwnersInv, TypeOK, PlansAreDecided
<1> QED BY <1>1, OneNewSpace DEF MakesNone

LEMMA OthersMakeNoneThen == DecidedInv' => \A p \in Procs : MakesNone(p)'
<1>1. DecidedInv => \A p \in Procs : MakesNone(p)
  BY OthersMakeNone
<1>2. DecidedInv' => (\A p \in Procs : MakesNone(p))'
  BY <1>1, PTL
<1> QED BY <1>2

\* An id is taken for a space.
LEMMA ReserveImplements ==
  ASSUME TypeOK, NEW p \in Procs, CreateSpaceTx(p), NoOpenTx
  PROVE  \E s \in Spaces : Abstract!Reserve(s)
<1>1. PICK s \in Spaces \ spent :
        spent' = spent \cup {s} /\ Prepare(p, Created(s, job[p].user))
  BY DEF CreateSpaceTx, Created
<1>2. beingMade = {} /\ beingMade' = {s}
  BY <1>1, BeginMakes, CreateSpacePlan
<1>3. UNCHANGED <<spaces, role>> /\ owned' = owned
  BY <1>1 DEF Prepare, owned, Owners
<1>4. (spent \cap Spaces)' = (spent \cap Spaces) \cup {s}
  BY <1>1
<1> QED BY <1>1, <1>2, <1>3, <1>4 DEF Abstract!Reserve, owned

\* A request ends without an effect: whatever space it was making is not made.
LEMMA DropImplements ==
  ASSUME DecidedInv, NEW p \in Procs, Drop(p)
  PROVE  Stutters \/ \E s \in Spaces : Abstract!Forget(s)
<1>1. UNCHANGED <<spaces, spent, role>> /\ owned' = owned /\ Answer(p)
  BY DEF Drop, tables, owned, Owners
<1>2. CASE pc[p] # "open"
  <2>1. beingMade' = beingMade
    BY <1>1, <1>2, OpenKept DEF Answer, DecidedInv, OwnersInv, TypeOK
  <2> QED BY <1>1, <2>1 DEF Stutters
<1>3. CASE pc[p] = "open"
  <2>1. beingMade = plan[p].new /\ beingMade' = {}
    BY <1>1, <1>3, EndMakes
  <2>2. /\ job[p] \in Job /\ plan[p].new \subseteq Spaces
        /\ plan[p].new = {} \/ \E s \in spent : plan[p].new = {s}
    BY <1>3, OneNewSpace DEF DecidedInv, OwnersInv, TypeOK, PlansAreDecided, Writes
  <2>3. CASE plan[p].new = {}
    BY <1>1, <2>1, <2>3 DEF Stutters
  <2>4. ASSUME NEW s, plan[p].new = {s}
        PROVE  \E t \in Spaces : Abstract!Forget(t)
    BY <1>1, <2>1, <2>2, <2>4 DEF Abstract!Forget, owned
  <2> QED BY <2>2, <2>3, <2>4
<1> QED BY <1>2, <1>3

\* An invite comes or goes: by a statement of its own.
LEMMA InviteImplements ==
  ASSUME TypeOK, NEW p \in Procs, CreateInvite(p) \/ DeleteInvite(p)
  PROVE  Stutters
<1>1. pc[p] = "checked" /\ Answer(p) /\ UNCHANGED <<spaces, role>>
  BY DEF CreateInvite, DeleteInvite, Begin
<1>2. beingMade' = beingMade
  BY <1>1, OpenKept DEF Answer, TypeOK
<1>3. (spent \cap Spaces)' = spent \cap Spaces
  BY SpacesAssumption DEF CreateInvite, DeleteInvite
<1> QED BY <1>1, <1>2, <1>3 DEF Stutters, owned, Owners

LEMMA QuietImplements ==
  ASSUME UNCHANGED <<spaces, role, spent, beingMade>>
  PROVE  Stutters
  BY DEF Stutters, owned, Owners

\* Who owns s when the writes w are carried out.
OwnersThen(w, s) == {u \in Users : RoleAfter(w, s, u) = "OWNER"}

LEMMA OwnersAfter ==
  ASSUME DecidedInv, NEW p \in Procs, Commit(p)
  PROVE  spent' = spent /\ owned' = [s \in Spaces |-> OwnersThen(plan[p], s)]
  BY CommitTables DEF owned, Owners, Commit, OwnersThen

\* A commit that leaves the members of all other spaces alone.
LEMMA OwnersUpdate ==
  ASSUME DecidedInv, NEW p \in Procs, Commit(p), NEW s \in Spaces,
         \A t \in Spaces, v \in Users : t # s => RoleAfter(plan[p], t, v) = role[t][v]
  PROVE  owned' = [owned EXCEPT ![s] = OwnersThen(plan[p], s)]
<1>1. \A t \in Spaces : t # s => OwnersThen(plan[p], t) = owned[t]
  BY DEF owned, Owners, OwnersThen
<1>2. owned' = [t \in Spaces |-> OwnersThen(plan[p], t)]
  BY OwnersAfter
<1>3. owned = [t \in Spaces |-> owned[t]]
  BY DEF owned
<1> QED BY <1>1, <1>2, <1>3

\* A commit that changes one membership.
LEMMA OneRowOwners ==
  ASSUME DecidedInv, NEW p \in Procs, Commit(p),
         NEW s \in Spaces, NEW u \in Users, NEW r \in Roles \cup {NoRole},
         plan[p].new = {}, plan[p].gone = {}, plan[p].role = Row(s, u, r)
  PROVE  /\ UNCHANGED <<spaces, spent>>
         /\ r = "OWNER" /\ role[s][u] # NoRole => owned' = [owned EXCEPT ![s] = @ \cup {u}]
         /\ r # "OWNER" => owned' = [owned EXCEPT ![s] = @ \ {u}]
<1> DEFINE w == plan[p]
<1>1. UNCHANGED <<spaces, spent>>
  BY CommitTables, OwnersAfter
<1>2. /\ RoleAfter(w, s, u) \in {r, role[s][u]}
      /\ role[s][u] # NoRole => RoleAfter(w, s, u) = r
      /\ \A t \in Spaces, v \in Users : t # s \/ v # u => RoleAfter(w, t, v) = role[t][v]
  BY RowAfter
<1>3. owned' = [owned EXCEPT ![s] = OwnersThen(w, s)]
  BY <1>2, OwnersUpdate
<1> HIDE DEF w
<1>4. ASSUME r = "OWNER", role[s][u] # NoRole
      PROVE  OwnersThen(w, s) = owned[s] \cup {u}
  BY <1>2, <1>4 DEF owned, Owners, OwnersThen
<1>5. ASSUME r # "OWNER"
      PROVE  OwnersThen(w, s) = owned[s] \ {u}
  <2>1. RoleAfter(w, s, u) = r \/ role[s][u] = NoRole
    BY <1>2
  <2>2. RoleAfter(w, s, u) # "OWNER"
    BY <1>2, <1>5, <2>1 DEF NoRole
  <2> QED BY <1>2, <2>2 DEF owned, Owners, OwnersThen
<1> QED BY <1>1, <1>3, <1>4, <1>5

\* A commit of anything but a creation leaves what is being made alone.
LEMMA NothingMade ==
  ASSUME DecidedInv, NEW p \in Procs, Commit(p), job[p].op # "CreateSpace"
  PROVE  beingMade' = beingMade
<1>1. pc[p] = "open" /\ Answer(p)
  BY DEF Commit
<1>2. plan[p].new = {}
  BY CommitTables, OneNewSpace DEF DecidedInv, OwnersInv
<1> QED BY <1>1, <1>2, EndMakes

\* A new space appears with its creator as the only owner.
LEMMA CreateImplements ==
  ASSUME DecidedInv, NEW p \in Procs, Commit(p), job[p].op = "CreateSpace"
  PROVE  \E s \in Spaces, u \in Users : Abstract!Create(s, u)
<1> DEFINE u == job[p].user
           w == plan[p]
<1>1. u \in Users /\ DecidesCreateSpace(job[p], w)
  BY CommitTables, JobFields DEF Decided
<1>2. PICK s \in (Spaces \cap spent) \ spaces : w = Created(s, u)
  BY <1>1 DEF DecidesCreateSpace
<1>3. w.new = {s} /\ w.gone = {} /\ w.insert /\ w.role = Row(s, u, "OWNER")
  BY <1>2, CreateSpacePlan
<1>4. spaces' = spaces \cup {s} /\ spent' = spent
  BY <1>3, CommitTables, OwnersAfter
<1>5. \A v \in Users : role[s][v] = NoRole
  BY DEF DecidedInv, NobodyInDeletedSpaces, Members
<1>6. beingMade = {s} /\ beingMade' = {}
  BY <1>3, EndMakes DEF Commit
<1>7. owned' = [owned EXCEPT ![s] = OwnersThen(w, s)]
  <2>1. \A t \in Spaces, v \in Users : t # s => RoleAfter(w, t, v) = role[t][v]
    BY <1>1, <1>3, RowAfter DEF Roles
  <2> QED BY <2>1, OwnersUpdate
<1> HIDE DEF u, w
<1>8. s \in beingMade /\ beingMade' = beingMade \ {s}
  BY <1>6
<1>9. OwnersThen(w, s) = {u}
  <2>1. \A v \in Users : RoleAfter(w, s, v) = IF v = u THEN "OWNER" ELSE NoRole
    BY <1>3, <1>5 DEF RoleAfter, Row, Keep
  <2> QED BY <1>1, <2>1 DEF NoRole, OwnersThen
<1> QED BY <1>1, <1>4, <1>7, <1>8, <1>9 DEF Abstract!Create, owned

\* Joining makes nobody an owner and takes nobody's ownership.
LEMMA JoinImplements ==
  ASSUME DecidedInv, NEW p \in Procs, Commit(p), job[p].op \in {"JoinSpace", "AcceptInvite"}
  PROVE  Stutters
<1> DEFINE w == plan[p]
<1>1. TypeOK /\ job[p] \in Job /\ job[p].user \in Users
  BY CommitTables, JobFields DEF DecidedInv, OwnersInv
<1>2. PICK s \in Spaces, r \in InviteRoles : Joins(w, s, job[p].user, r)
  BY <1>1, CommitTables, DecidedJoin
<1>3. r \in Roles /\ r # "OWNER"
  BY DEF InviteRoles
<1>4. spaces' = spaces
  BY <1>2, CommitTables DEF Joins
<1>5. \A t \in Spaces, v \in Users : role[t][v] # "OWNER" => RoleAfter(w, t, v) # "OWNER"
  BY <1>1, <1>2, <1>3, JoinsAfter
<1>6. \A t \in Spaces, v \in Users : role[t][v] = "OWNER" => RoleAfter(w, t, v) = "OWNER"
  <2>1. ~(~AtLeast("OWNER", r))
    BY <1>3 DEF AtLeast, rank, Roles
  <2> QED BY <1>1, <1>2, <1>3, <2>1, JoinsAfter
<1>7. owned' = owned /\ spent' = spent
  BY <1>5, <1>6, OwnersAfter DEF owned, Owners, OwnersThen
<1> QED BY <1>4, <1>7, NothingMade DEF Stutters

\* Leaving: an owner leaves to other owners, anybody else without a trace.
LEMMA LeaveImplements ==
  ASSUME DecidedInv, NEW p \in Procs, Commit(p), job[p].op = "LeaveSpace"
  PROVE  Stutters \/ \E s \in Spaces, u \in Users : Abstract!Renounce(s, u)
<1> DEFINE s == job[p].space
           u == job[p].user
           w == plan[p]
<1>1. s \in Spaces /\ u \in Users /\ DecidesLeaveSpace(job[p], w)
  BY CommitTables, JobFields DEF Decided
<1>2. OneRow(w, s, u, NoRole) /\ (role[s][u] = "OWNER" => requireAnotherOwner(s))
  BY <1>1, OneRowPlan DEF DecidesLeaveSpace
<1>3. UNCHANGED <<spaces, spent>> /\ owned' = [owned EXCEPT ![s] = @ \ {u}]
  BY <1>1, <1>2, OneRowOwners DEF OneRow, NoRole
<1> HIDE DEF s, u, w
<1>4. CASE role[s][u] = "OWNER"
  <2>1. \E o \in Owners(s) : o # u
    BY <1>2, <1>4, OtherOwner
  <2>2. owned[s] \ {u} # {}
    BY <1>1, <2>1 DEF owned
  <2> QED BY <1>1, <1>3, <2>2, NothingMade DEF Abstract!Renounce, owned
<1>5. CASE role[s][u] # "OWNER"
  <2>1. owned[s] \ {u} = owned[s]
    BY <1>1, <1>5 DEF owned, Owners
  <2> QED BY <1>3, <2>1, NothingMade DEF Stutters, owned
<1> QED BY <1>4, <1>5

\* Whoever manages an owner is an owner.
LEMMA ManagerOfOwner ==
  ASSUME TypeOK, NEW s \in Spaces, NEW by \in Users, NEW u \in Users, managedMember(s, by, u),
         role[s][u] = "OWNER"
  PROVE  role[s][by] = "OWNER" /\ by # u
<1>1. role[s][by] \in Roles \cup {NoRole}
  BY DEF TypeOK
<1>2. role[s][by] = "OWNER" \/ rank[role[s][by]] < rank["OWNER"]
  BY DEF managedMember
<1>3. rank["OWNER"] = 0 /\ rank[role[s][by]] \in 0..4
  BY <1>1, RankIsNumber DEF rank
<1> QED BY <1>2, <1>3 DEF managedMember

\* Taking the ownership of a managed member, by a lower role or by removal.
LEMMA RevokingImplements ==
  ASSUME DecidedInv, NEW s \in Spaces, NEW by \in Users, NEW u \in Users,
         managedMember(s, by, u), UNCHANGED <<spaces, spent, beingMade>>,
         owned' = [owned EXCEPT ![s] = @ \ {u}]
  PROVE  Stutters \/ Abstract!Revoke(s, by, u)
<1>1. CASE role[s][u] = "OWNER"
  <2>1. role[s][by] = "OWNER" /\ by # u
    BY <1>1, ManagerOfOwner DEF DecidedInv, OwnersInv
  <2>2. {by, u} \subseteq owned[s]
    BY <1>1, <2>1 DEF owned, Owners
  <2> QED BY <2>1, <2>2 DEF Abstract!Revoke, owned
<1>2. CASE role[s][u] # "OWNER"
  <2>1. owned[s] \ {u} = owned[s]
    BY <1>2 DEF owned, Owners
  <2> QED BY <2>1 DEF Stutters, owned
<1> QED BY <1>1, <1>2

\* Owners make owners, and demote them.
LEMMA UpdateImplements ==
  ASSUME DecidedInv, NEW p \in Procs, Commit(p), job[p].op = "UpdateSpaceMember"
  PROVE  \/ Stutters
         \/ \E s \in Spaces, by, u \in Users : Abstract!Grant(s, by, u) \/ Abstract!Revoke(s, by, u)
<1> DEFINE j == job[p]
           s == j.space
           by == j.user
           u == j.target
           r == j.role
           w == plan[p]
<1>1. /\ s \in Spaces /\ by \in Users /\ u \in Users /\ r \in Roles
      /\ DecidesUpdateSpaceMember(j, w)
  BY CommitTables, JobFields DEF Decided
<1>2. /\ OneRow(w, s, u, r) /\ managedMember(s, by, u) /\ AtLeast(role[s][by], r)
  BY <1>1, OneRowPlan DEF DecidesUpdateSpaceMember
<1> HIDE DEF j, s, by, u, r
<1>3. /\ UNCHANGED <<spaces, spent>>
      /\ r = "OWNER" /\ role[s][u] # NoRole => owned' = [owned EXCEPT ![s] = @ \cup {u}]
      /\ r # "OWNER" => owned' = [owned EXCEPT ![s] = @ \ {u}]
  BY <1>1, <1>2, OneRowOwners DEF OneRow
<1>4. CASE r = "OWNER"
  <2>1. role[s][by] \in Roles \cup {NoRole}
    BY <1>1 DEF DecidedInv, OwnersInv, TypeOK
  <2>2. by \in owned[s]
    BY <1>1, <1>2, <1>4, <2>1 DEF AtLeast, rank, Roles, NoRole, owned, Owners
  <2>3. owned' = [owned EXCEPT ![s] = @ \cup {u}]
    BY <1>2, <1>3, <1>4 DEF managedMember
  <2> QED BY <1>1, <1>3, <2>2, <2>3, NothingMade DEF Abstract!Grant, owned
<1>5. CASE r # "OWNER"
  BY <1>1, <1>2, <1>3, <1>5, RevokingImplements, NothingMade
<1> QED BY <1>4, <1>5

LEMMA RemoveImplements ==
  ASSUME DecidedInv, NEW p \in Procs, Commit(p), job[p].op = "RemoveSpaceMember"
  PROVE  Stutters \/ \E s \in Spaces, by, u \in Users : Abstract!Revoke(s, by, u)
<1> DEFINE j == job[p]
           s == j.space
           by == j.user
           u == j.target
           w == plan[p]
<1>1. s \in Spaces /\ by \in Users /\ u \in Users /\ DecidesRemoveSpaceMember(j, w)
  BY CommitTables, JobFields DEF Decided
<1>2. OneRow(w, s, u, NoRole) /\ managedMember(s, by, u)
  BY <1>1, OneRowPlan DEF DecidesRemoveSpaceMember
<1> HIDE DEF j, s, by, u
<1>3. UNCHANGED <<spaces, spent>> /\ owned' = [owned EXCEPT ![s] = @ \ {u}]
  BY <1>1, <1>2, OneRowOwners DEF OneRow, NoRole
<1> QED BY <1>1, <1>2, <1>3, RevokingImplements, NothingMade

\* A deleted space takes its owners with it, a changed one keeps them.
LEMMA SpaceImplements ==
  ASSUME DecidedInv, NEW p \in Procs, Commit(p), job[p].op \in {"UpdateSpace", "DeleteSpace"}
  PROVE  Stutters \/ \E s \in Spaces : Abstract!Delete(s)
<1> DEFINE j == job[p]
           w == plan[p]
<1>1. TypeOK /\ j \in Job /\ Decided(j, w)
  BY CommitTables DEF DecidedInv, OwnersInv
<1>2. CASE j.op = "UpdateSpace"
  <2>1. w.new = {} /\ w.gone = {} /\ w.role = NoRows
    BY <1>1, <1>2, EditPlan DEF Decided, DecidesUpdateSpace
  <2>2. \A s \in Spaces, u \in Users : RoleAfter(w, s, u) = role[s][u]
    BY <2>1, NoRowsAfter
  <2>3. owned' = owned /\ spent' = spent /\ spaces' = spaces
    BY <2>1, <2>2, OwnersAfter, CommitTables DEF owned, Owners, OwnersThen
  <2> QED BY <1>2, <2>3, NothingMade DEF Stutters
<1>3. CASE j.op = "DeleteSpace"
  <2> DEFINE s == j.space
  <2>1. s \in spaces /\ s \in Spaces
    BY <1>1, <1>3, JobFields DEF Decided, DecidesDeleteSpace
  <2>2. w.new = {} /\ w.gone = {s} /\ w.role = NoRows
    BY <1>1, <1>3, GonePlan DEF Decided, DecidesDeleteSpace
  <2>3. spaces' = spaces \ {s} /\ spent' = spent
    BY <2>2, CommitTables, OwnersAfter
  <2>4. owned' = [owned EXCEPT ![s] = OwnersThen(w, s)]
    <3>1. \A t \in Spaces, v \in Users : t # s => RoleAfter(w, t, v) = role[t][v]
      BY <2>2 DEF RoleAfter, NoRows
    <3> QED BY <2>1, <3>1, OwnersUpdate
  <2> HIDE DEF s
  <2>5. OwnersThen(w, s) = {}
    BY <2>2 DEF OwnersThen, RoleAfter, NoRole
  <2>6. beingMade' = beingMade
    BY <1>3, NothingMade
  <2> QED BY <2>1, <2>3, <2>4, <2>5, <2>6 DEF Abstract!Delete, owned
<1> QED BY <1>2, <1>3

\* An account goes: its spaces are deleted, keep their other owners or get an heir.
LEMMA DepartImplements ==
  ASSUME DecidedInv, NEW p \in Procs, Commit(p), job[p].op \in {"DeleteAccount", "DeleteUser"}
  PROVE  \E u \in Users : Abstract!Depart(u)
<1> DEFINE w == plan[p]
<1>1. TypeOK /\ job[p] \in Job /\ Decided(job[p], w)
  BY CommitTables DEF DecidedInv, OwnersInv
<1>2. PICK u \in Users : \E heir \in [LastOwner(u) -> Users] :
        /\ w = RemoveAccountWrites(u, heir)
        /\ \A s \in LastOwner(u) : NextOwner(s, u, heir[s])
  <2>1. CASE job[p].op = "DeleteAccount"
    <3> DEFINE v == job[p].user
               none == [s \in {} |-> v]
    <3>1. v \in Users /\ LastOwner(v) = {} /\ w = RemoveAccountWrites(v, none)
      BY <1>1, <2>1, JobFields DEF Decided, DecidesDeleteAccount
    <3>2. none \in [LastOwner(v) -> Users]
      BY <3>1
    <3> QED BY <3>1, <3>2
  <2>2. CASE job[p].op = "DeleteUser"
    BY <1>1, <2>2, JobFields DEF Decided, DecidesDeleteUser
  <2> QED BY <2>1, <2>2
<1> PICK heir \in [LastOwner(u) -> Users] :
       /\ w = RemoveAccountWrites(u, heir)
       /\ \A s \in LastOwner(u) : NextOwner(s, u, heir[s])
  BY <1>2
<1>3. w.new = {} /\ w.gone = Alone(u) /\ w.role = Departing(u, heir)
  BY <1>1, RemovalPlan
<1>4. spaces' = spaces \ Alone(u) /\ spent' = spent
  BY <1>3, CommitTables, OwnersAfter
<1>5. owned' = [s \in Spaces |-> OwnersThen(w, s)]
  BY OwnersAfter
<1> HIDE DEF w
<1>6. Alone(u) \in SUBSET {s \in spaces : owned[s] = {u}}
  <2>1. ASSUME NEW s \in Alone(u)
        PROVE  s \in spaces /\ s \in Spaces /\ Owners(s) = {u}
    BY <1>1 DEF Alone, Members, Owners, TypeOK, NoRole
  <2> QED BY <2>1 DEF owned
<1>7. {s \in spaces \ Alone(u) : owned[s] = {u}} = LastOwner(u)
  BY <1>1 DEF LastOwner, owned, TypeOK
<1>8. ASSUME NEW s \in LastOwner(u)
      PROVE  /\ s \in Spaces /\ s \notin Alone(u) /\ Owners(s) = {u}
             /\ heir[s] \in Users \ {u} /\ role[s][heir[s]] # NoRole
  BY <1>1 DEF NextOwner, Members, LastOwner, TypeOK
<1>9. heir \in [{s \in spaces \ Alone(u) : owned[s] = {u}} -> Users \ {u}]
  <2>1. heir \in [LastOwner(u) -> Users \ {u}]
    BY <1>8
  <2> QED BY <1>7, <2>1
<1>10. ASSUME NEW s \in Spaces
       PROVE  OwnersThen(w, s) = IF s \in Alone(u) THEN {}
                                 ELSE IF s \in LastOwner(u) THEN {heir[s]}
                                 ELSE owned[s] \ {u}
  <2>1. CASE s \in Alone(u)
    BY <1>3, <2>1, DepartingAfter DEF OwnersThen, NoRole
  <2>2. CASE s \in LastOwner(u)
    <3>1. ASSUME NEW v \in Users
          PROVE  RoleAfter(w, s, v) = "OWNER" <=> v = heir[s]
      <4>1. CASE v = u
        BY <1>3, <1>8, <2>2, <4>1, DepartingAfter DEF NoRole
      <4>2. CASE v # u /\ v = heir[s]
        BY <1>3, <1>8, <2>2, <4>2, DepartingAfter
      <4>3. CASE v # u /\ v # heir[s]
        <5>1. role[s][v] # "OWNER"
          BY <1>8, <2>2, <4>3 DEF Owners
        <5> QED BY <1>3, <1>8, <2>2, <4>3, <5>1, DepartingAfter
      <4> QED BY <4>1, <4>2, <4>3
    <3>2. OwnersThen(w, s) = {heir[s]}
      BY <1>8, <2>2, <3>1 DEF OwnersThen
    <3> QED BY <1>8, <2>2, <3>2
  <2>3. CASE s \notin Alone(u) /\ s \notin LastOwner(u)
    <3>1. \A v \in Users : RoleAfter(w, s, v) = IF v = u THEN NoRole ELSE role[s][v]
      BY <1>3, <2>3, DepartingAfter
    <3>2. OwnersThen(w, s) = owned[s] \ {u}
      BY <3>1 DEF OwnersThen, owned, Owners, NoRole
    <3> QED BY <2>3, <3>2
  <2> QED BY <2>1, <2>2, <2>3
<1>11. DOMAIN heir = LastOwner(u)
  OBVIOUS
<1>12. owned' = [s \in Spaces |-> IF s \in Alone(u) THEN {}
                                  ELSE IF s \in DOMAIN heir THEN {heir[s]}
                                  ELSE owned[s] \ {u}]
  BY <1>5, <1>10, <1>11
<1>13. beingMade' = beingMade
  BY NothingMade
<1> QED BY <1>4, <1>6, <1>9, <1>12, <1>13 DEF Abstract!Depart, owned

\* Every commit is a step of the abstract specification, or none.
LEMMA CommitImplements ==
  ASSUME DecidedInv, NEW p \in Procs, Commit(p)
  PROVE  Abstract!Next \/ Stutters
<1>1. job[p].op \in {"CreateSpace", "JoinSpace", "UpdateSpace", "DeleteSpace", "LeaveSpace",
                    "UpdateSpaceMember", "RemoveSpaceMember", "AcceptInvite", "DeleteAccount",
                    "DeleteUser"}
  BY CommitTables DEF Decided
<1>2. CASE job[p].op = "CreateSpace"
  BY <1>2, CreateImplements DEF Abstract!Next
<1>3. CASE job[p].op \in {"JoinSpace", "AcceptInvite"}
  BY <1>3, JoinImplements
<1>4. CASE job[p].op \in {"UpdateSpace", "DeleteSpace"}
  BY <1>4, SpaceImplements DEF Abstract!Next
<1>5. CASE job[p].op = "LeaveSpace"
  BY <1>5, LeaveImplements DEF Abstract!Next
<1>6. CASE job[p].op = "UpdateSpaceMember"
  BY <1>6, UpdateImplements DEF Abstract!Next
<1>7. CASE job[p].op = "RemoveSpaceMember"
  BY <1>7, RemoveImplements DEF Abstract!Next
<1>8. CASE job[p].op \in {"DeleteAccount", "DeleteUser"}
  BY <1>8, DepartImplements DEF Abstract!Next
<1> QED BY <1>1, <1>2, <1>3, <1>4, <1>5, <1>6, <1>7, <1>8

LEMMA NextImplements ==
  ASSUME Serial, DecidedInv, [Next]_vars
  PROVE  Abstract!Next \/ Stutters
<1>1. TypeOK
  BY DEF DecidedInv, OwnersInv
<1>2. ASSUME NEW p \in Procs, CreateSpaceTx(p)
      PROVE  Abstract!Next
  <2>1. NoOpenTx
    BY <1>2 DEF CreateSpaceTx, Begin
  <2> QED BY <1>1, <1>2, <2>1, ReserveImplements DEF Abstract!Next
<1>3. ASSUME NEW p \in Procs,
             \/ JoinSpaceTx(p) \/ UpdateSpaceTx(p) \/ DeleteSpaceTx(p) \/ LeaveSpaceTx(p)
             \/ UpdateSpaceMemberTx(p) \/ RemoveSpaceMemberTx(p)
             \/ AcceptInviteTx(p) \/ DeleteAccountTx(p) \/ DeleteUserTx(p)
      PROVE  Stutters
  <2>1. PICK w : Prepare(p, w)
    BY <1>1, <1>3, TransactionsBegin DEF Began
  <2>2. spent' = spent /\ NoOpenTx /\ job[p].op # "CreateSpace"
    BY <1>3 DEF JoinSpaceTx, UpdateSpaceTx, DeleteSpaceTx, LeaveSpaceTx, UpdateSpaceMemberTx,
                RemoveSpaceMemberTx, AcceptInviteTx, DeleteAccountTx, DeleteUserTx, Begin
  <2>3. pc'[p] = "open" /\ job' = job /\ plan'[p] = w
    BY <1>1, <2>1 DEF Prepare, TypeOK
  <2>4. w.new = {}
    BY <2>2, <2>3, NextDecided, OthersMakeNoneThen DEF MakesNone
  <2>5. beingMade' = beingMade
    BY <1>1, <2>1, <2>2, <2>4, BeginMakes
  <2> QED BY <2>1, <2>2, <2>5, QuietImplements DEF Prepare
<1>4. ASSUME NEW p \in Procs, Call(p)
      PROVE  Stutters
  <2>1. beingMade' = beingMade
    BY <1>1, <1>4, OpenKept DEF Call, TypeOK
  <2> QED BY <1>4, <2>1, QuietImplements DEF Call, tables
<1>5. ASSUME NEW p \in Procs, Drop(p)
      PROVE  Abstract!Next \/ Stutters
  BY <1>5, DropImplements DEF Abstract!Next
<1>6. ASSUME ExpireInvite \/ UNCHANGED vars
      PROVE  Stutters
  <2>1. beingMade' = beingMade
    BY <1>6, OpenKept DEF ExpireInvite, vars, request
  <2> QED BY <1>6, <2>1, QuietImplements DEF ExpireInvite, vars, tables
<1>7. ASSUME NEW p \in Procs, CreateInvite(p) \/ DeleteInvite(p)
      PROVE  Stutters
  BY <1>1, <1>7, InviteImplements
<1> QED BY <1>2, <1>3, <1>4, <1>5, <1>6, <1>7, CommitImplements DEF Next

\* Whatever requests arrive at the same time, on SQLite the service does with the
\* ownership of spaces what Ownership allows and nothing else: owners are made by
\* owners or inherit, nobody but an owner takes another one's place, and a space
\* goes when an owner deletes it or its only member leaves the instance.
THEOREM SpacesImplementOwnership ==
  ASSUME Serial
  PROVE  Spec => ImplementsOwnership
<1>1. Init => Abstract!Init
  BY InitImplements
<1>2. DecidedInv /\ [Next]_vars => [Abstract!Next]_(Abstract!vars)
  BY NextImplements DEF Stutters, owned, Abstract!vars
<1> QED BY <1>1, <1>2, DecisionsStand, PTL DEF Spec, ImplementsOwnership, Abstract!Spec

-----------------------------------------------------------------------------
(* What Ownership promises holds of every implementation, so of Spaces.    *)

\* "A space needs at least one owner" (spaces.go, requireAnotherOwner), and what
\* is deleted has none: exactly the spaces that exist have owners (on SQLite).
THEOREM SpacesAreOwnedWhileTheyExist ==
  ASSUME Serial
  PROVE  Spec => []Abstract!OwnedWhileAlive
<1>1. DecidedInv => Abstract!OwnedWhileAlive
  BY DEF DecidedInv, OwnersInv, EverySpaceHasOwner, NobodyInDeletedSpaces, Owners, Members,
         NoRole, Abstract!OwnedWhileAlive
<1> QED BY <1>1, DecisionsStand, PTL
=============================================================================
