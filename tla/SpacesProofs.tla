---------------------------- MODULE SpacesProofs ----------------------------
(***************************************************************************)
(* Theorems about Spaces for every set of accounts, spaces, invites and    *)
(* concurrent requests.                                                    *)
(***************************************************************************)
EXTENDS Spaces, TLAPS, FiniteSetTheorems

-----------------------------------------------------------------------------
(* Lemmas about requests and the writes they prepare.                      *)

\* The fields of a request, by the operation it asks for.
LEMMA JobFields ==
  ASSUME NEW j \in Job
  PROVE  /\ j.op \in {"CreateSpace", "DeleteAccount"} => j.user \in Users
         /\ j.op \in {"JoinSpace", "LeaveSpace", "DeleteSpace"} =>
              j.user \in Users /\ j.space \in Spaces
         /\ j.op = "UpdateSpace" =>
              /\ j.user \in Users /\ j.space \in Spaces
              /\ j.discoverable \in BOOLEAN /\ j.joinRole \in JoinRoles
         /\ j.op = "UpdateSpaceMember" =>
              /\ j.user \in Users /\ j.space \in Spaces
              /\ j.target \in Users /\ j.role \in Roles
         /\ j.op = "RemoveSpaceMember" =>
              j.user \in Users /\ j.space \in Spaces /\ j.target \in Users
         /\ j.op = "CreateInvite" =>
              /\ j.user \in Users /\ j.space \in Spaces
              /\ j.role \in InviteRoles /\ j.max \in Limits
         /\ j.op \in {"AcceptInvite", "DeleteInvite"} =>
              j.user \in Users /\ j.invite \in Invites
         /\ j.op = "DeleteUser" => j.user \in Users /\ j.target \in Users
  BY DEF Job

\* Writing nothing is a plan, and replacing a field of a plan by one of its
\* type gives a plan.
LEMMA NoWritesFields ==
  /\ NoWrites \in Writes
  /\ NoWrites.new = {} /\ NoWrites.gone = {} /\ NoWrites.role = NoRows
  /\ NoWrites.insert = FALSE
  BY DEF NoWrites, NoRows, Writes

LEMMA RowType ==
  ASSUME NEW s, NEW u, NEW r \in Roles \cup {NoRole, Keep}
  PROVE  Row(s, u, r) \in [Spaces -> [Users -> Roles \cup {NoRole, Keep}]]
  BY DEF Row

\* What removing the account u does to the membership rows.
Departing(u, heir) ==
  [s \in Spaces |-> [v \in Users |->
     IF v = u THEN IF role[s][u] = NoRole THEN Keep ELSE NoRole
     ELSE IF s \in LastOwner(u) /\ v = heir[s] THEN "OWNER"
     ELSE Keep]]

\* The plan that removes an account.
LEMMA RemovePlan ==
  ASSUME TypeOK, NEW u \in Users, NEW heir
  PROVE  /\ RemoveAccountWrites(u, heir) \in Writes
         /\ RemoveAccountWrites(u, heir).new = {}
         /\ RemoveAccountWrites(u, heir).gone = Alone(u)
         /\ RemoveAccountWrites(u, heir).role = Departing(u, heir)
<1> DEFINE w == RemoveAccountWrites(u, heir)
           gone == Alone(u)
           rows == Departing(u, heir)
<1>1. rows \in [Spaces -> [Users -> Roles \cup {NoRole, Keep}]]
  BY DEF Departing, Roles
<1>2. gone \in SUBSET Spaces
  BY DEF Alone, TypeOK
<1>3. w = [NoWrites EXCEPT !.gone = gone, !.wipe = {u}, !.role = rows]
  BY DEF RemoveAccountWrites, Departing
<1> HIDE DEF w, gone, rows
<1>4. /\ w \in Writes
      /\ w.new = {} /\ w.gone = gone /\ w.role = rows
  <2>1. {u} \in SUBSET Users
    OBVIOUS
  <2> QED BY <1>1, <1>2, <1>3, <2>1, NoWritesFields DEF Writes
<1> QED BY <1>4 DEF w, gone, rows

\* The plan of joinSpace: nothing, or a row that was not an owner's.
LEMMA JoinPlan ==
  ASSUME TypeOK, NEW s \in Spaces, NEW u \in Users, NEW r \in Roles
  PROVE  /\ joinSpace(s, u, r) \in Writes
         /\ joinSpace(s, u, r).new = {} /\ joinSpace(s, u, r).gone = {}
         /\ \/ joinSpace(s, u, r).role = NoRows
            \/ /\ joinSpace(s, u, r).role = Row(s, u, r)
               /\ role[s][u] # "OWNER"
<1> DEFINE w == joinSpace(s, u, r)
<1>1. CASE role[s][u] = NoRole
  <2>1. w = [NoWrites EXCEPT !.role = Row(s, u, r), !.insert = TRUE]
    BY <1>1 DEF joinSpace
  <2> HIDE DEF w
  <2>2. w \in Writes /\ w.new = {} /\ w.gone = {} /\ w.role = Row(s, u, r)
    BY <2>1, RowType, NoWritesFields DEF Writes
  <2> QED BY <1>1, <2>2 DEF w, NoRole
<1>2. CASE role[s][u] # NoRole /\ AtLeast(role[s][u], r)
  <2>1. w = NoWrites
    BY <1>2 DEF joinSpace
  <2> QED BY <2>1, NoWritesFields
<1>3. CASE role[s][u] # NoRole /\ ~AtLeast(role[s][u], r)
  <2>1. w = [NoWrites EXCEPT !.role = Row(s, u, r)]
    BY <1>3 DEF joinSpace
  <2> HIDE DEF w
  <2>2. w \in Writes /\ w.new = {} /\ w.gone = {} /\ w.role = Row(s, u, r)
    BY <2>1, RowType, NoWritesFields DEF Writes
  <2>3. role[s][u] # "OWNER"
    BY <1>3 DEF AtLeast, rank, Roles
  <2> QED BY <2>2, <2>3 DEF w
<1> QED BY <1>1, <1>2, <1>3

-----------------------------------------------------------------------------
(* Type correctness.                                                       *)

\* Beginning a transaction with a plan of the right type.
LEMMA PrepareType ==
  ASSUME TypeOK, NEW p \in Procs, NEW w \in Writes, Prepare(p, w),
         spent' \subseteq Spaces \cup Invites
  PROVE  TypeOK'
  BY DEF TypeOK, Prepare

\* Answering a request.
LEMMA AnswerType ==
  ASSUME TypeOK, NEW p \in Procs, Answer(p)
  PROVE  /\ pc' \in [Procs -> {"idle", "checked", "open"}]
         /\ job' \in [Procs -> Job]
         /\ plan' \in [Procs -> Writes]
<1>1. Nothing \in Job
  BY DEF Nothing, Job
<1> QED BY <1>1, NoWritesFields DEF TypeOK, Answer

\* What a commit makes of one invite and of one membership.
LEMMA InviteAfter ==
  ASSUME NEW i \in InviteRow
  PROVE  [i EXCEPT !.used = @ + 1] \in InviteRow /\ [i EXCEPT !.expired = TRUE] \in InviteRow
<1>1. ASSUME NEW n \in Nat
      PROVE  [i EXCEPT !.used = n] \in InviteRow
  BY DEF InviteRow
<1>2. i.used + 1 \in Nat
  BY DEF InviteRow
<1>3. [i EXCEPT !.expired = TRUE] \in InviteRow
  BY DEF InviteRow
<1> QED BY <1>1, <1>2, <1>3

LEMMA RoleAfterType ==
  ASSUME TypeOK, NEW w \in Writes, NEW s \in Spaces, NEW u \in Users
  PROVE  RoleAfter(w, s, u) \in Roles \cup {NoRole}
  BY DEF TypeOK, Writes, RoleAfter

LEMMA CommitType ==
  ASSUME TypeOK, NEW p \in Procs, Commit(p)
  PROVE  TypeOK'
<1> DEFINE w == plan[p]
<1>w. w \in Writes
  BY DEF TypeOK
<1> HIDE DEF w
<1>c. /\ spaces' = (spaces \cup w.new) \ w.gone
      /\ role' = [s \in Spaces |-> [u \in Users |-> RoleAfter(w, s, u)]]
      /\ discoverable' = {s \in spaces' : IF Edits(w, s) = {} THEN s \in discoverable
                                     ELSE \E e \in Edits(w, s) : e.discoverable}
      /\ joinRole' = [s \in Spaces |-> IF s \notin spaces' THEN "VIEWER"
                                   ELSE IF Edits(w, s) = {} THEN joinRole[s]
                                   ELSE (CHOOSE e \in Edits(w, s) : TRUE).joinRole]
      /\ invites' = {IF i.id \in w.use THEN [i EXCEPT !.used = @ + 1] ELSE i :
                   i \in {x \in invites : x.by \notin w.wipe /\ x.space \notin w.gone}}
      /\ deleted' = deleted \cup w.wipe
      /\ Answer(p)
      /\ spent' = spent
  BY DEF Commit, w
<1>1. spaces' \subseteq Spaces
  BY <1>w, <1>c DEF TypeOK, Writes
<1>2. role' \in [Spaces -> [Users -> Roles \cup {NoRole}]]
  BY <1>w, <1>c, RoleAfterType
<1>3. discoverable' \subseteq Spaces
  BY <1>1, <1>c
<1>4. joinRole' \in [Spaces -> JoinRoles]
  <2>1. ASSUME NEW s \in Spaces, Edits(w, s) # {}
        PROVE  (CHOOSE e \in Edits(w, s) : TRUE).joinRole \in JoinRoles
    <3>1. (CHOOSE e \in Edits(w, s) : TRUE) \in Edits(w, s)
      BY <2>1
    <3>2. Edits(w, s) \subseteq [space : Spaces, discoverable : BOOLEAN, joinRole : JoinRoles]
      BY <1>w DEF Edits, Writes
    <3> QED BY <3>1, <3>2
  <2>2. "VIEWER" \in JoinRoles
    BY DEF JoinRoles
  <2> QED BY <1>c, <2>1, <2>2 DEF TypeOK
<1>5. invites' \subseteq InviteRow
  BY <1>c, InviteAfter DEF TypeOK
<1>6. deleted' \subseteq Users
  BY <1>w, <1>c DEF TypeOK, Writes
<1> QED BY <1>1, <1>2, <1>3, <1>4, <1>5, <1>6, <1>c, AnswerType DEF TypeOK

-----------------------------------------------------------------------------
(* What a transaction is about to write, when it has read and decided:     *)
(* something of the right type that leaves every space an owner, if no     *)
(* other request changes what it read.                                     *)

KeepsOwners(w) ==
  \A s \in (spaces \cup w.new) \ w.gone : \E u \in Users : RoleAfter(w, s, u) = "OWNER"

Sound(w) == w \in Writes /\ (EverySpaceHasOwner => KeepsOwners(w))

\* The transaction of p began with sound writes.
Began(p) ==
  /\ \E w : Sound(w) /\ Prepare(p, w)
  /\ spent' \subseteq Spaces \cup Invites

\* More than one owner: somebody besides u.
LEMMA OtherOwner ==
  ASSUME NEW s, requireAnotherOwner(s), NEW u
  PROVE  \E o \in Owners(s) : o # u
<1>1. SUFFICES ASSUME Owners(s) \subseteq {u} PROVE FALSE
  OBVIOUS
<1>2. IsFiniteSet({u}) /\ Cardinality({u}) = 1
  BY FS_Singleton
<1>3. Cardinality(Owners(s)) <= 1
  BY <1>1, <1>2, FS_Subset
<1>4. Cardinality(Owners(s)) > 1
  BY DEF requireAnotherOwner, CountRole, Owners
<1>5. Cardinality(Owners(s)) \in Nat
  BY <1>1, <1>2, FS_Subset, FS_CardinalityType
<1> QED BY <1>3, <1>4, <1>5

\* Writing one membership row leaves every space an owner, unless it takes the
\* role of the only one.
LEMMA RowKeepsOwners ==
  ASSUME TypeOK, EverySpaceHasOwner,
         NEW s \in Spaces, NEW u \in Users, NEW r \in Roles \cup {NoRole}, NEW w,
         w.new = {}, w.gone = {}, w.role = Row(s, u, r),
         \/ role[s][u] # "OWNER"
         \/ r = "OWNER"
         \/ \E o \in Owners(s) : o # u
  PROVE  KeepsOwners(w)
<1> SUFFICES ASSUME NEW t \in spaces
             PROVE  \E o \in Users : RoleAfter(w, t, o) = "OWNER"
  BY DEF KeepsOwners
<1>1. t \in Spaces
  BY DEF TypeOK
<1>2. ASSUME NEW o \in Owners(t), t # s \/ o # u
      PROVE  RoleAfter(w, t, o) = "OWNER"
  <2>1. o \in Users /\ role[t][o] = "OWNER"
    BY DEF Owners
  <2>2. w.role[t][o] = Keep
    BY <1>1, <1>2, <2>1 DEF Row
  <2> QED BY <2>1, <2>2 DEF RoleAfter
<1>3. PICK o \in Owners(t) : TRUE
  BY DEF EverySpaceHasOwner
<1>4. CASE t = s /\ o = u /\ r = "OWNER"
  <2>1. role[s][u] = "OWNER"
    BY <1>3, <1>4 DEF Owners
  <2>2. w.role[s][u] = "OWNER"
    BY <1>4 DEF Row
  <2> QED BY <1>4, <2>1, <2>2 DEF RoleAfter, NoRole
<1>5. CASE t = s /\ o = u /\ \E x \in Owners(s) : x # u
  BY <1>2, <1>5 DEF Owners
<1>6. CASE t # s \/ o # u
  BY <1>2, <1>3, <1>6 DEF Owners
<1> QED BY <1>3, <1>4, <1>5, <1>6 DEF Owners

\* Writes without membership rows leave the owners alone.
LEMMA NoRowsKeepOwners ==
  ASSUME TypeOK, EverySpaceHasOwner, NEW w, w.new = {}, w.role = NoRows
  PROVE  KeepsOwners(w)
<1> SUFFICES ASSUME NEW t \in spaces, t \notin w.gone
             PROVE  \E o \in Users : RoleAfter(w, t, o) = "OWNER"
  BY DEF KeepsOwners
<1>1. PICK o \in Users : role[t][o] = "OWNER"
  BY DEF EverySpaceHasOwner, Owners
<1>2. w.role[t][o] = Keep
  BY DEF NoRows, TypeOK
<1> QED BY <1>1, <1>2 DEF RoleAfter

\* The request of a transaction that began is one of its operation.
LEMMA BegunJob ==
  ASSUME TypeOK, NEW p \in Procs, NEW op, Begin(p, op)
  PROVE  job[p] \in Job /\ job[p].op = op
  BY DEF TypeOK, Begin

LEMMA CreateSpaceBegins ==
  ASSUME TypeOK, NEW p \in Procs, CreateSpaceTx(p)
  PROVE  Began(p)
<1> DEFINE u == job[p].user
<1>1. u \in Users
  BY BegunJob, JobFields DEF CreateSpaceTx
<1>2. PICK s \in Spaces \ spent :
        /\ spent' = spent \cup {s}
        /\ Prepare(p, [NoWrites EXCEPT !.new = {s}, !.role = Row(s, u, "OWNER"),
                                       !.insert = TRUE])
  BY DEF CreateSpaceTx
<1> DEFINE w == [NoWrites EXCEPT !.new = {s}, !.role = Row(s, u, "OWNER"), !.insert = TRUE]
<1>3. /\ w \in Writes
      /\ w.new = {s} /\ w.gone = {} /\ w.role = Row(s, u, "OWNER") /\ w.insert
  BY <1>1, RowType, NoWritesFields DEF Writes, Roles
<1>4. Prepare(p, w)
  BY <1>2
<1> HIDE DEF w, u
<1>5. ASSUME EverySpaceHasOwner PROVE KeepsOwners(w)
  <2> SUFFICES ASSUME NEW t \in spaces \cup {s}
               PROVE  \E o \in Users : RoleAfter(w, t, o) = "OWNER"
    BY <1>3 DEF KeepsOwners
  <2>1. CASE t = s
    <3>1. w.role[s][u] = "OWNER"
      BY <1>1, <1>3 DEF Row
    <3> QED BY <1>1, <1>3, <2>1, <3>1 DEF RoleAfter, Keep
  <2>2. CASE t # s
    <3>1. PICK o \in Users : role[t][o] = "OWNER"
      BY <1>5, <2>2 DEF EverySpaceHasOwner, Owners
    <3>2. w.role[t][o] = Keep
      BY <1>3, <2>2 DEF Row, TypeOK
    <3> QED BY <1>3, <3>1, <3>2 DEF RoleAfter
  <2> QED BY <2>1, <2>2
<1>6. spent' \subseteq Spaces \cup Invites
  BY <1>2 DEF TypeOK
<1> QED BY <1>3, <1>4, <1>5, <1>6 DEF Began, Sound

LEMMA JoinSpaceBegins ==
  ASSUME TypeOK, NEW p \in Procs, JoinSpaceTx(p)
  PROVE  Began(p)
<1> DEFINE s == job[p].space
           u == job[p].user
           w == joinSpace(s, u, joinRole[s])
<1>1. s \in Spaces /\ u \in Users
  BY BegunJob, JobFields DEF JoinSpaceTx
<1>2. joinRole[s] \in Roles
  BY <1>1 DEF TypeOK, JoinRoles, Roles
<1>3. Prepare(p, w) /\ spent' = spent
  BY DEF JoinSpaceTx
<1> HIDE DEF s, u
<1>4. w \in Writes /\ (EverySpaceHasOwner => KeepsOwners(w))
  BY <1>1, <1>2, JoinPlan, RowKeepsOwners, NoRowsKeepOwners DEF Roles
<1> QED BY <1>3, <1>4 DEF Began, Sound, TypeOK

LEMMA UpdateSpaceBegins ==
  ASSUME TypeOK, NEW p \in Procs, UpdateSpaceTx(p)
  PROVE  Began(p)
<1> DEFINE j == job[p]
           w == [NoWrites EXCEPT !.edit = {[space |-> j.space, discoverable |-> j.discoverable,
                                            joinRole |-> j.joinRole]}]
<1>1. j.space \in Spaces /\ j.discoverable \in BOOLEAN /\ j.joinRole \in JoinRoles
  BY BegunJob, JobFields DEF UpdateSpaceTx
<1>2. Prepare(p, w) /\ spent' = spent
  BY DEF UpdateSpaceTx
<1> HIDE DEF j
<1>3. w \in Writes /\ w.new = {} /\ w.role = NoRows
  BY <1>1, NoWritesFields DEF Writes
<1> HIDE DEF w
<1> QED BY <1>2, <1>3, NoRowsKeepOwners DEF Began, Sound, TypeOK

LEMMA DeleteSpaceBegins ==
  ASSUME TypeOK, NEW p \in Procs, DeleteSpaceTx(p)
  PROVE  Began(p)
<1> DEFINE s == job[p].space
           w == [NoWrites EXCEPT !.gone = {s}]
<1>1. s \in Spaces
  BY BegunJob, JobFields DEF DeleteSpaceTx
<1>2. Prepare(p, w) /\ spent' = spent
  BY DEF DeleteSpaceTx
<1> HIDE DEF s
<1>3. w \in Writes /\ w.new = {} /\ w.role = NoRows
  BY <1>1, NoWritesFields DEF Writes
<1> HIDE DEF w
<1> QED BY <1>2, <1>3, NoRowsKeepOwners DEF Began, Sound, TypeOK

LEMMA LeaveSpaceBegins ==
  ASSUME TypeOK, NEW p \in Procs, LeaveSpaceTx(p)
  PROVE  Began(p)
<1> DEFINE s == job[p].space
           u == job[p].user
           w == [NoWrites EXCEPT !.role = Row(s, u, NoRole)]
<1>1. s \in Spaces /\ u \in Users
  BY BegunJob, JobFields DEF LeaveSpaceTx
<1>2. Prepare(p, w) /\ spent' = spent
  BY DEF LeaveSpaceTx
<1>3. role[s][u] # "OWNER" \/ \E o \in Owners(s) : o # u
  BY OtherOwner DEF LeaveSpaceTx
<1> HIDE DEF s, u
<1>4. w \in Writes /\ w.new = {} /\ w.gone = {} /\ w.role = Row(s, u, NoRole)
  BY <1>1, RowType, NoWritesFields DEF Writes
<1> HIDE DEF w
<1>5. EverySpaceHasOwner => KeepsOwners(w)
  BY <1>1, <1>3, <1>4, RowKeepsOwners
<1> QED BY <1>2, <1>4, <1>5 DEF Began, Sound, TypeOK

LEMMA UpdateSpaceMemberBegins ==
  ASSUME TypeOK, NEW p \in Procs, UpdateSpaceMemberTx(p)
  PROVE  Began(p)
<1> DEFINE s == job[p].space
           u == job[p].target
           r == job[p].role
           w == [NoWrites EXCEPT !.role = Row(s, u, r)]
<1>1. s \in Spaces /\ u \in Users /\ r \in Roles
  BY BegunJob, JobFields DEF UpdateSpaceMemberTx
<1>2. Prepare(p, w) /\ spent' = spent
  BY DEF UpdateSpaceMemberTx
<1>3. role[s][u] # "OWNER" \/ r = "OWNER" \/ \E o \in Owners(s) : o # u
  BY OtherOwner DEF UpdateSpaceMemberTx
<1> HIDE DEF s, u, r
<1>4. w \in Writes /\ w.new = {} /\ w.gone = {} /\ w.role = Row(s, u, r)
  BY <1>1, RowType, NoWritesFields DEF Writes
<1> HIDE DEF w
<1>5. EverySpaceHasOwner => KeepsOwners(w)
  BY <1>1, <1>3, <1>4, RowKeepsOwners
<1> QED BY <1>2, <1>4, <1>5 DEF Began, Sound, TypeOK

\* Whoever removes an owner is another owner.
LEMMA RemoveSpaceMemberBegins ==
  ASSUME TypeOK, NEW p \in Procs, RemoveSpaceMemberTx(p)
  PROVE  Began(p)
<1> DEFINE s == job[p].space
           u == job[p].target
           by == job[p].user
           w == [NoWrites EXCEPT !.role = Row(s, u, NoRole)]
<1>1. s \in Spaces /\ u \in Users /\ by \in Users
  BY BegunJob, JobFields DEF RemoveSpaceMemberTx
<1>2. Prepare(p, w) /\ spent' = spent
  BY DEF RemoveSpaceMemberTx
<1>3. managedMember(s, by, u)
  BY DEF RemoveSpaceMemberTx
<1> HIDE DEF s, u, by
<1>4. role[s][u] # "OWNER" \/ \E o \in Owners(s) : o # u
  <2>1. role[s][by] \in Roles \cup {NoRole}
    BY <1>1 DEF TypeOK
  <2> QED BY <1>1, <1>3, <2>1 DEF managedMember, Owners, rank, Roles, NoRole
<1>5. w \in Writes /\ w.new = {} /\ w.gone = {} /\ w.role = Row(s, u, NoRole)
  BY <1>1, RowType, NoWritesFields DEF Writes
<1> HIDE DEF w
<1>6. EverySpaceHasOwner => KeepsOwners(w)
  BY <1>1, <1>4, <1>5, RowKeepsOwners
<1> QED BY <1>2, <1>5, <1>6 DEF Began, Sound, TypeOK

LEMMA AcceptInviteBegins ==
  ASSUME TypeOK, NEW p \in Procs, AcceptInviteTx(p)
  PROVE  Began(p)
<1> DEFINE u == job[p].user
<1>1. u \in Users
  BY BegunJob, JobFields DEF AcceptInviteTx
<1>2. PICK i \in invites :
        Prepare(p, [joinSpace(i.space, u, i.role) EXCEPT !.use = {i.id}])
  BY DEF AcceptInviteTx
<1> DEFINE s == i.space
           r == i.role
           v == joinSpace(s, u, r)
           w == [v EXCEPT !.use = {i.id}]
<1>3. s \in Spaces /\ r \in Roles /\ i.id \in Invites
  BY DEF TypeOK, InviteRow, InviteRoles
<1>4. Prepare(p, w)
  BY <1>2
<1> HIDE DEF u, s, r
<1>5. /\ v \in Writes /\ v.new = {} /\ v.gone = {}
      /\ \/ v.role = NoRows
         \/ v.role = Row(s, u, r) /\ role[s][u] # "OWNER"
  BY <1>1, <1>3, JoinPlan
<1> HIDE DEF v
<1>6. w \in Writes /\ w.new = {} /\ w.gone = {} /\ w.role = v.role
  BY <1>3, <1>5 DEF Writes
<1> HIDE DEF w
<1>7. EverySpaceHasOwner => KeepsOwners(w)
  BY <1>1, <1>3, <1>5, <1>6, RowKeepsOwners, NoRowsKeepOwners
<1>8. spent' = spent
  BY DEF AcceptInviteTx
<1> QED BY <1>4, <1>6, <1>7, <1>8 DEF Began, Sound, TypeOK

\* Removing an account keeps an owner in every space it does not delete, given
\* an heir for each space it was the last owner of.
LEMMA RemovalKeepsOwners ==
  ASSUME TypeOK, EverySpaceHasOwner, NEW u \in Users, NEW heir,
         \A s \in LastOwner(u) : NextOwner(s, u, heir[s])
  PROVE  KeepsOwners(RemoveAccountWrites(u, heir))
<1> DEFINE w == RemoveAccountWrites(u, heir)
<1>1. /\ w.new = {} /\ w.gone = Alone(u)
      /\ w.role = Departing(u, heir)
  BY RemovePlan
<1> HIDE DEF w
<1> SUFFICES ASSUME NEW s \in spaces, s \notin Alone(u)
             PROVE  \E o \in Users : RoleAfter(w, s, o) = "OWNER"
  BY <1>1 DEF KeepsOwners, w
<1>2. s \in Spaces
  BY DEF TypeOK
<1>3. CASE s \in LastOwner(u)
  <2>1. heir[s] \in Users /\ role[s][heir[s]] # NoRole /\ heir[s] # u
    BY <1>3 DEF NextOwner, Members
  <2>2. w.role[s][heir[s]] = "OWNER"
    BY <1>1, <1>2, <1>3, <2>1 DEF Departing
  <2> QED BY <1>1, <2>1, <2>2 DEF RoleAfter, Keep
<1>4. CASE s \notin LastOwner(u)
  <2>1. PICK o \in Owners(s) : o # u
    BY <1>4 DEF EverySpaceHasOwner, LastOwner
  <2>2. o \in Users /\ role[s][o] = "OWNER"
    BY DEF Owners
  <2>3. w.role[s][o] = Keep
    BY <1>1, <1>2, <1>4, <2>1, <2>2 DEF Departing
  <2> QED BY <1>1, <2>2, <2>3 DEF RoleAfter
<1> QED BY <1>3, <1>4

LEMMA DeleteAccountBegins ==
  ASSUME TypeOK, NEW p \in Procs, DeleteAccountTx(p)
  PROVE  Began(p)
<1> DEFINE u == job[p].user
           heir == [s \in {} |-> u]
           w == RemoveAccountWrites(u, heir)
<1>1. u \in Users
  BY BegunJob, JobFields DEF DeleteAccountTx
<1>2. Prepare(p, w) /\ spent' = spent /\ LastOwner(u) = {}
  BY DEF DeleteAccountTx
<1> HIDE DEF u, heir
<1>3. w \in Writes /\ (EverySpaceHasOwner => KeepsOwners(w))
  BY <1>1, <1>2, RemovePlan, RemovalKeepsOwners
<1> QED BY <1>2, <1>3 DEF Began, Sound, TypeOK

LEMMA DeleteUserBegins ==
  ASSUME TypeOK, NEW p \in Procs, DeleteUserTx(p)
  PROVE  Began(p)
<1> DEFINE u == job[p].target
<1>1. u \in Users
  BY BegunJob, JobFields DEF DeleteUserTx
<1>2. PICK heir \in [LastOwner(u) -> Users] :
        /\ \A s \in LastOwner(u) : NextOwner(s, u, heir[s])
        /\ Prepare(p, RemoveAccountWrites(u, heir))
  BY DEF DeleteUserTx
<1>3. spent' = spent
  BY DEF DeleteUserTx
<1> DEFINE w == RemoveAccountWrites(u, heir)
<1> HIDE DEF u
<1>4. w \in Writes /\ (EverySpaceHasOwner => KeepsOwners(w))
  BY <1>1, <1>2, RemovePlan, RemovalKeepsOwners
<1> QED BY <1>2, <1>3, <1>4 DEF Began, Sound, TypeOK

LEMMA TransactionsBegin ==
  ASSUME TypeOK, NEW p \in Procs,
         \/ CreateSpaceTx(p) \/ JoinSpaceTx(p) \/ UpdateSpaceTx(p) \/ DeleteSpaceTx(p)
         \/ LeaveSpaceTx(p) \/ UpdateSpaceMemberTx(p) \/ RemoveSpaceMemberTx(p)
         \/ AcceptInviteTx(p) \/ DeleteAccountTx(p) \/ DeleteUserTx(p)
  PROVE  Began(p)
BY CreateSpaceBegins, JoinSpaceBegins, UpdateSpaceBegins, DeleteSpaceBegins, LeaveSpaceBegins,
   UpdateSpaceMemberBegins, RemoveSpaceMemberBegins, AcceptInviteBegins, DeleteAccountBegins,
   DeleteUserBegins

-----------------------------------------------------------------------------
(* Type correctness, on both databases.                                    *)

LEMMA InitType == Init => TypeOK
<1>1. Nothing \in Job
  BY DEF Nothing, Job
<1> QED BY <1>1, NoWritesFields DEF Init, TypeOK, JoinRoles, Roles

LEMMA NextType ==
  ASSUME TypeOK, [Next]_vars
  PROVE  TypeOK'
<1>1. ASSUME NEW p \in Procs, Call(p)
      PROVE  TypeOK'
  BY <1>1 DEF Call, TypeOK, tables
<1>2. ASSUME NEW p \in Procs, Began(p)
      PROVE  TypeOK'
  BY <1>2, PrepareType DEF Began, Sound
<1>3. ASSUME NEW p \in Procs, CreateInvite(p)
      PROVE  TypeOK'
  <2> DEFINE j == job[p]
  <2>1. /\ j.user \in Users /\ j.space \in Spaces
        /\ j.role \in InviteRoles /\ j.max \in Limits
    BY <1>3, BegunJob, JobFields DEF CreateInvite
  <2> DEFINE row(id) == [id |-> id, space |-> j.space, role |-> j.role, by |-> j.user,
                         max |-> j.max, used |-> 0, expired |-> FALSE]
  <2>2. PICK id \in Invites \ spent :
          spent' = spent \cup {id} /\ invites' = invites \cup {row(id)}
    BY <1>3 DEF CreateInvite
  <2>3. row(id) \in InviteRow
    BY <2>1, <2>2 DEF InviteRow
  <2>4. invites' \subseteq InviteRow /\ spent' \subseteq Spaces \cup Invites
    BY <2>2, <2>3 DEF TypeOK
  <2> QED BY <1>3, <2>4, AnswerType DEF CreateInvite, TypeOK
<1>4. ASSUME NEW p \in Procs, DeleteInvite(p)
      PROVE  TypeOK'
  BY <1>4, AnswerType DEF DeleteInvite, TypeOK
<1>5. ASSUME NEW p \in Procs, Drop(p)
      PROVE  TypeOK'
  BY <1>5, AnswerType DEF Drop, TypeOK, tables
<1>6. CASE ExpireInvite
  <2> PICK i \in invites : invites' = (invites \ {i}) \cup {[i EXCEPT !.expired = TRUE]}
    BY <1>6 DEF ExpireInvite
  <2>1. invites' \subseteq InviteRow
    <3>1. invites \subseteq InviteRow
      BY DEF TypeOK
    <3>2. [i EXCEPT !.expired = TRUE] \in InviteRow
      BY <3>1, InviteAfter
    <3> QED BY <3>1, <3>2
  <2> QED BY <1>6, <2>1 DEF ExpireInvite, TypeOK, request
<1>7. CASE UNCHANGED vars
  BY <1>7 DEF TypeOK, vars, tables, request
<1> QED
  BY <1>1, <1>2, <1>3, <1>4, <1>5, <1>6, <1>7, CommitType, TransactionsBegin DEF Next

\* Whatever requests arrive and interleave, on either database, the tables hold
\* rows of their types and every request under way is a well-formed one.
THEOREM TypeCorrect == Spec => []TypeOK
  BY InitType, NextType, PTL DEF Spec

-----------------------------------------------------------------------------
(* On SQLite no space loses its last owner. What is inductive is more: a   *)
(* transaction that read and decided has the only open plan, and carrying  *)
(* it out leaves every space an owner.                                     *)

OneWriter == \A p, q \in Procs : pc[p] = "open" /\ pc[q] = "open" => p = q

PlansKeepOwners == \A p \in Procs : pc[p] = "open" => KeepsOwners(plan[p])

OwnersInv == TypeOK /\ EverySpaceHasOwner /\ OneWriter /\ PlansKeepOwners

LEMMA InitOwners == Init => OwnersInv
  BY InitType DEF Init, OwnersInv, EverySpaceHasOwner, OneWriter, PlansKeepOwners

\* KeepsOwners and the owners depend on the spaces and their members only.
LEMMA OwnersUnchanged ==
  ASSUME UNCHANGED <<spaces, role>>
  PROVE  /\ EverySpaceHasOwner => EverySpaceHasOwner'
         /\ \A w : KeepsOwners(w) => KeepsOwners(w)'
  BY DEF EverySpaceHasOwner, Owners, KeepsOwners, RoleAfter

\* A transaction begins: on SQLite, when no other is open.
LEMMA BeginOwners ==
  ASSUME OwnersInv, NEW p \in Procs, Began(p), NoOpenTx
  PROVE  EverySpaceHasOwner' /\ OneWriter' /\ PlansKeepOwners'
<1>1. PICK w : Sound(w) /\ Prepare(p, w)
  BY DEF Began
<1>2. /\ UNCHANGED <<spaces, role>>
      /\ pc' = [pc EXCEPT ![p] = "open"] /\ plan' = [plan EXCEPT ![p] = w]
  BY <1>1 DEF Prepare
<1>3. KeepsOwners(w)'
  BY <1>1, <1>2, OwnersUnchanged DEF OwnersInv, Sound
<1>4. EverySpaceHasOwner'
  BY <1>2, OwnersUnchanged DEF OwnersInv
<1>5. \A q \in Procs : pc'[q] = "open" => q = p
  BY <1>2 DEF NoOpenTx, OwnersInv, TypeOK
<1>6. plan'[p] = w
  BY <1>2 DEF OwnersInv, TypeOK
<1>7. PlansKeepOwners'
  <2> SUFFICES ASSUME NEW q \in Procs, pc'[q] = "open" PROVE KeepsOwners(plan[q])'
    BY DEF PlansKeepOwners
  <2> QED BY <1>3, <1>5, <1>6 DEF KeepsOwners, RoleAfter
<1>8. OneWriter'
  BY <1>5 DEF OneWriter
<1> QED BY <1>4, <1>7, <1>8

\* It commits: what it was about to write is what there is.
LEMMA CommitOwners ==
  ASSUME OwnersInv, NEW p \in Procs, Commit(p)
  PROVE  EverySpaceHasOwner' /\ OneWriter' /\ PlansKeepOwners'
<1>1. EverySpaceHasOwner'
  <2> SUFFICES ASSUME NEW s \in spaces' PROVE \E u \in Users : role'[s][u] = "OWNER"
    BY DEF EverySpaceHasOwner, Owners
  <2>1. s \in (spaces \cup plan[p].new) \ plan[p].gone
    BY DEF Commit
  <2>2. PICK u \in Users : RoleAfter(plan[p], s, u) = "OWNER"
    BY <2>1 DEF OwnersInv, PlansKeepOwners, KeepsOwners, Commit
  <2>3. s \in Spaces
    BY <2>1 DEF OwnersInv, TypeOK, Writes
  <2> QED BY <2>2, <2>3 DEF Commit
<1>2. \A q \in Procs : pc'[q] # "open"
  BY DEF Commit, Answer, OwnersInv, OneWriter, TypeOK
<1> QED BY <1>1, <1>2 DEF OneWriter, PlansKeepOwners

\* Everything else leaves spaces, members and open transactions as they are.
LEMMA OtherOwners ==
  ASSUME OwnersInv, UNCHANGED <<spaces, role>>,
         \A q \in Procs : pc'[q] = "open" => pc[q] = "open" /\ plan'[q] = plan[q]
  PROVE  EverySpaceHasOwner' /\ OneWriter' /\ PlansKeepOwners'
<1>1. PlansKeepOwners'
  BY OwnersUnchanged DEF OwnersInv, PlansKeepOwners, KeepsOwners, RoleAfter
<1> QED BY <1>1, OwnersUnchanged DEF OwnersInv, OneWriter

LEMMA NextOwners ==
  ASSUME Serial, OwnersInv, [Next]_vars
  PROVE  OwnersInv'
<1>1. TypeOK'
  BY NextType DEF OwnersInv
<1>2. ASSUME NEW p \in Procs,
             \/ CreateSpaceTx(p) \/ JoinSpaceTx(p) \/ UpdateSpaceTx(p) \/ DeleteSpaceTx(p)
             \/ LeaveSpaceTx(p) \/ UpdateSpaceMemberTx(p) \/ RemoveSpaceMemberTx(p)
             \/ AcceptInviteTx(p) \/ DeleteAccountTx(p) \/ DeleteUserTx(p)
      PROVE  EverySpaceHasOwner' /\ OneWriter' /\ PlansKeepOwners'
  <2>1. Began(p)
    BY <1>2, TransactionsBegin DEF OwnersInv
  <2>2. NoOpenTx
    BY <1>2 DEF CreateSpaceTx, JoinSpaceTx, UpdateSpaceTx, DeleteSpaceTx, LeaveSpaceTx,
       UpdateSpaceMemberTx, RemoveSpaceMemberTx, AcceptInviteTx, DeleteAccountTx,
       DeleteUserTx, Begin
  <2> QED BY <2>1, <2>2, BeginOwners
<1>3. ASSUME NEW p \in Procs, Call(p)
      PROVE  EverySpaceHasOwner' /\ OneWriter' /\ PlansKeepOwners'
  BY <1>3, OtherOwners DEF Call, OwnersInv, TypeOK, tables
<1>4. ASSUME NEW p \in Procs, CreateInvite(p) \/ DeleteInvite(p) \/ Drop(p)
      PROVE  EverySpaceHasOwner' /\ OneWriter' /\ PlansKeepOwners'
  BY <1>4, OtherOwners DEF CreateInvite, DeleteInvite, Drop, Answer, OwnersInv, TypeOK, tables
<1>5. ASSUME ExpireInvite \/ UNCHANGED vars
      PROVE  EverySpaceHasOwner' /\ OneWriter' /\ PlansKeepOwners'
  BY <1>5, OtherOwners DEF ExpireInvite, vars, tables, request
<1>6. ASSUME NEW p \in Procs, Commit(p)
      PROVE  EverySpaceHasOwner' /\ OneWriter' /\ PlansKeepOwners'
  BY <1>6, CommitOwners
<1>7. EverySpaceHasOwner' /\ OneWriter' /\ PlansKeepOwners'
  BY <1>2, <1>3, <1>4, <1>5, <1>6 DEF Next
<1> QED BY <1>1, <1>7 DEF OwnersInv

\* "A space needs at least one owner": with transactions that exclude each other
\* nobody can leave, demote, remove or delete the last owner, however many
\* requests read the members before. (TLC shows that Serial is needed.)
THEOREM SpacesKeepOwners ==
  ASSUME Serial
  PROVE  Spec => []EverySpaceHasOwner
<1>1. Init => OwnersInv
  BY InitOwners
<1>2. OwnersInv /\ [Next]_vars => OwnersInv'
  BY NextOwners
<1>3. OwnersInv => EverySpaceHasOwner
  BY DEF OwnersInv
<1> QED BY <1>1, <1>2, <1>3, PTL DEF Spec

-----------------------------------------------------------------------------
(* The uses of an invite stay within its limit, on both databases: the     *)
(* counting UPDATE looks at the row it changes. Inductive with it is that  *)
(* the id of an invite names one invite.                                   *)

InviteIdsAreKeys ==
  /\ \A i, k \in invites : i.id = k.id => i = k
  /\ \A i \in invites : i.id \in spent

UsesInv == TypeOK /\ UsedWithinLimit /\ InviteIdsAreKeys

\* Fewer invites, the same invites, and more ids taken.
LEMMA FewerInvites ==
  ASSUME UsesInv, invites' \subseteq invites, spent \subseteq spent'
  PROVE  UsedWithinLimit' /\ InviteIdsAreKeys'
  BY DEF UsesInv, UsedWithinLimit, InviteIdsAreKeys

LEMMA CreateInviteUses ==
  ASSUME UsesInv, NEW p \in Procs, CreateInvite(p)
  PROVE  UsedWithinLimit' /\ InviteIdsAreKeys'
<1> DEFINE j == job[p]
           row(id) == [id |-> id, space |-> j.space, role |-> j.role, by |-> j.user,
                       max |-> j.max, used |-> 0, expired |-> FALSE]
<1>1. PICK id \in Invites \ spent :
        spent' = spent \cup {id} /\ invites' = invites \cup {row(id)}
  BY DEF CreateInvite
<1>2. j.max \in Limits
  BY BegunJob, JobFields DEF CreateInvite, UsesInv
<1>3. row(id).id = id /\ row(id).used = 0 /\ row(id).max = j.max
  OBVIOUS
<1> HIDE DEF row, j
<1>4. j.max # Unlimited => 0 <= j.max
  <2>1. ASSUME NEW m \in Limits, m # Unlimited
        PROVE  m \in Nat
    BY <2>1, SpacesAssumption
  <2>2. \A m \in Nat : 0 <= m
    OBVIOUS
  <2> QED BY <1>2, <2>1, <2>2
<1>5. UsedWithinLimit'
  BY <1>1, <1>3, <1>4 DEF UsesInv, UsedWithinLimit
<1>6. InviteIdsAreKeys'
  BY <1>1, <1>3 DEF UsesInv, InviteIdsAreKeys
<1> QED BY <1>5, <1>6

\* A commit counts a use only when the invite still has one left, and keeps
\* id and limit of every invite.
LEMMA CommitUses ==
  ASSUME UsesInv, NEW p \in Procs, Commit(p)
  PROVE  UsedWithinLimit' /\ InviteIdsAreKeys'
<1> DEFINE w == plan[p]
           after(i) == IF i.id \in w.use THEN [i EXCEPT !.used = @ + 1] ELSE i
<1>1. \A k \in invites' : \E i \in invites : k = after(i)
  BY DEF Commit
<1>2. \A id \in w.use : \E i \in invites : i.id = id /\ CountsUse(i)
  BY DEF Commit, Refused
<1> HIDE DEF w
<1>3. ASSUME NEW i \in invites
      PROVE  /\ after(i).id = i.id /\ after(i).max = i.max
             /\ after(i).used = IF i.id \in w.use THEN i.used + 1 ELSE i.used
  BY DEF UsesInv, TypeOK, InviteRow
<1> HIDE DEF after
<1>4. ASSUME NEW i \in invites, i.max # Unlimited
      PROVE  after(i).used <= after(i).max
  <2>1. i.used \in Nat /\ i.max \in Nat /\ i.used <= i.max
    BY <1>4, SpacesAssumption DEF UsesInv, UsedWithinLimit, TypeOK, InviteRow, Unlimited
  <2>2. i.id \in w.use => i.used < i.max
    BY <1>2, <1>4 DEF UsesInv, InviteIdsAreKeys, CountsUse
  <2> QED BY <1>3, <2>1, <2>2
<1>5. UsedWithinLimit'
  BY <1>1, <1>3, <1>4 DEF UsedWithinLimit
<1>6. InviteIdsAreKeys'
  BY <1>1, <1>3 DEF UsesInv, InviteIdsAreKeys, Commit
<1> QED BY <1>5, <1>6

LEMMA ExpireInviteUses ==
  ASSUME UsesInv, ExpireInvite
  PROVE  UsedWithinLimit' /\ InviteIdsAreKeys'
<1>1. PICK i \in invites : invites' = (invites \ {i}) \cup {[i EXCEPT !.expired = TRUE]}
  BY DEF ExpireInvite
<1> DEFINE k == [i EXCEPT !.expired = TRUE]
<1>2. k.id = i.id /\ k.max = i.max /\ k.used = i.used
  BY DEF UsesInv, TypeOK, InviteRow
<1>3. invites' = (invites \ {i}) \cup {k} /\ spent' = spent
  BY <1>1 DEF ExpireInvite
<1> HIDE DEF k
<1> QED BY <1>2, <1>3 DEF UsesInv, UsedWithinLimit, InviteIdsAreKeys

LEMMA NextUses ==
  ASSUME UsesInv, [Next]_vars
  PROVE  UsesInv'
<1>1. TypeOK'
  BY NextType DEF UsesInv
<1>2. ASSUME NEW p \in Procs,
             \/ CreateSpaceTx(p) \/ JoinSpaceTx(p) \/ UpdateSpaceTx(p) \/ DeleteSpaceTx(p)
             \/ LeaveSpaceTx(p) \/ UpdateSpaceMemberTx(p) \/ RemoveSpaceMemberTx(p)
             \/ AcceptInviteTx(p) \/ DeleteAccountTx(p) \/ DeleteUserTx(p)
      PROVE  UsedWithinLimit' /\ InviteIdsAreKeys'
  <2>1. invites' = invites
    BY <1>2, TransactionsBegin DEF Began, Prepare, UsesInv
  <2>2. spent \subseteq spent'
    BY <1>2 DEF CreateSpaceTx, JoinSpaceTx, UpdateSpaceTx, DeleteSpaceTx, LeaveSpaceTx,
       UpdateSpaceMemberTx, RemoveSpaceMemberTx, AcceptInviteTx, DeleteAccountTx, DeleteUserTx
  <2> QED BY <2>1, <2>2, FewerInvites
<1>3. ASSUME NEW p \in Procs, Call(p) \/ DeleteInvite(p) \/ Drop(p)
      PROVE  UsedWithinLimit' /\ InviteIdsAreKeys'
  BY <1>3, FewerInvites DEF Call, DeleteInvite, Drop, tables
<1>4. ASSUME UNCHANGED vars
      PROVE  UsedWithinLimit' /\ InviteIdsAreKeys'
  BY <1>4, FewerInvites DEF vars, tables
<1>5. UsedWithinLimit' /\ InviteIdsAreKeys'
  BY <1>2, <1>3, <1>4, CreateInviteUses, CommitUses, ExpireInviteUses DEF Next
<1> QED BY <1>1, <1>5 DEF UsesInv

\* "Counted in the same statement that checks maxUses, so concurrent acceptances
\* cannot exceed it": for any number of acceptances at a time, on either database.
THEOREM InvitesStayWithinLimit == Spec => []UsedWithinLimit
<1>1. Init => UsesInv
  BY InitType DEF Init, UsesInv, UsedWithinLimit, InviteIdsAreKeys
<1>2. UsesInv /\ [Next]_vars => UsesInv'
  BY NextUses
<1>3. UsesInv => UsedWithinLimit
  BY DEF UsesInv
<1> QED BY <1>1, <1>2, <1>3, PTL DEF Spec

-----------------------------------------------------------------------------
(* No membership and no join setting outlives its space, on both           *)
(* databases: what a transaction that inserts rows read about the space    *)
(* does not matter, the foreign key is checked when it commits, and an     *)
(* update changes no row that is not there.                                *)

RowsInv == TypeOK /\ NobodyInDeletedSpaces

LEMMA CommitRows ==
  ASSUME RowsInv, NEW p \in Procs, Commit(p)
  PROVE  NobodyInDeletedSpaces'
<1> DEFINE w == plan[p]
<1>1. /\ ~Refused(w)
      /\ spaces' = (spaces \cup w.new) \ w.gone
      /\ role' = [s \in Spaces |-> [u \in Users |-> RoleAfter(w, s, u)]]
      /\ discoverable' \subseteq spaces'
  BY DEF Commit
<1> HIDE DEF w
<1> SUFFICES ASSUME NEW s \in Spaces \ spaces'
             PROVE  Members(s)' = {} /\ s \notin discoverable'
  BY DEF NobodyInDeletedSpaces
<1>2. ASSUME NEW u \in Users
      PROVE  RoleAfter(w, s, u) = NoRole
  <2>1. CASE s \in w.gone
    BY <2>1 DEF RoleAfter
  <2>2. CASE s \notin w.gone
    <3>1. s \notin spaces \cup w.new
      BY <1>1, <2>2
    <3>2. role[s][u] = NoRole
      BY <3>1 DEF RowsInv, NobodyInDeletedSpaces, Members
    <3>3. w.insert => w.role[s][u] = Keep
      BY <1>1, <3>1 DEF Refused
    <3> QED BY <2>2, <3>2, <3>3 DEF RoleAfter
  <2> QED BY <2>1, <2>2
<1> QED BY <1>1, <1>2 DEF Members

LEMMA NextRows ==
  ASSUME RowsInv, [Next]_vars
  PROVE  RowsInv'
<1>1. TypeOK'
  BY NextType DEF RowsInv
<1>2. ASSUME UNCHANGED <<spaces, role, discoverable>>
      PROVE  NobodyInDeletedSpaces'
  BY <1>2 DEF RowsInv, NobodyInDeletedSpaces, Members
<1>3. ASSUME NEW p \in Procs,
             \/ CreateSpaceTx(p) \/ JoinSpaceTx(p) \/ UpdateSpaceTx(p) \/ DeleteSpaceTx(p)
             \/ LeaveSpaceTx(p) \/ UpdateSpaceMemberTx(p) \/ RemoveSpaceMemberTx(p)
             \/ AcceptInviteTx(p) \/ DeleteAccountTx(p) \/ DeleteUserTx(p)
      PROVE  NobodyInDeletedSpaces'
  BY <1>2, <1>3, TransactionsBegin DEF Began, Prepare, RowsInv
<1>4. ASSUME NEW p \in Procs, Call(p) \/ CreateInvite(p) \/ DeleteInvite(p) \/ Drop(p)
      PROVE  NobodyInDeletedSpaces'
  BY <1>2, <1>4 DEF Call, CreateInvite, DeleteInvite, Drop, tables
<1>5. ASSUME ExpireInvite \/ UNCHANGED vars
      PROVE  NobodyInDeletedSpaces'
  BY <1>2, <1>5 DEF ExpireInvite, vars, tables
<1>6. NobodyInDeletedSpaces'
  BY <1>3, <1>4, <1>5, CommitRows DEF Next
<1> QED BY <1>1, <1>6 DEF RowsInv

\* Memberships and join settings exist below a living space only, on either
\* database: a space deleted while somebody joins it, is promoted in it or edits
\* it takes those rows with it or refuses them. Invites are not among them.
THEOREM MembershipsEndWithSpaces == Spec => []NobodyInDeletedSpaces
<1>1. Init => RowsInv
  BY InitType DEF Init, RowsInv, NobodyInDeletedSpaces, Members
<1>2. RowsInv /\ [Next]_vars => RowsInv'
  BY NextRows
<1>3. RowsInv => NobodyInDeletedSpaces
  BY DEF RowsInv
<1> QED BY <1>1, <1>2, <1>3, PTL DEF Spec
=============================================================================
