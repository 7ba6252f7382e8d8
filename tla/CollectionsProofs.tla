------------------------- MODULE CollectionsProofs -------------------------
(***************************************************************************)
(* Theorems about Collections for every set of members, collections and    *)
(* concurrent requests.                                                    *)
(***************************************************************************)
EXTENDS Collections, TLAPS, FiniteSetTheorems

-----------------------------------------------------------------------------
(* Lemmas about the tree.                                                  *)

\* A collection is in its own line.
LEMMA SelfInLine ==
  ASSUME NEW c \in Collections
  PROVE  c \in Line(c)
  BY DEF Line

\* The line of a collection goes on with its parent.
LEMMA LineIsClosed ==
  ASSUME TypeOK, NEW q, NEW c \in live, c \in Line(q), collections[c].parent # Top
  PROVE  collections[c].parent \in Line(q)
<1> DEFINE d == collections[c].parent
<1>1. d \in Collections
  BY DEF TypeOK
<1>2. ASSUME NEW S \in SUBSET Collections, q \in S, Closed(S)
      PROVE  d \in S
  <2>1. c \in S
    BY <1>2 DEF Line
  <2> QED BY <1>2, <2>1 DEF Closed
<1> HIDE DEF d
<1> QED BY <1>1, <1>2 DEF Line, d

\* Whatever is above the parent is above the collection.
LEMMA ParentLine ==
  ASSUME TypeOK, NEW c \in live, collections[c].parent # Top
  PROVE  Line(collections[c].parent) \subseteq Line(c)
<1>1. collections[c].parent \in Line(c)
  BY SelfInLine, LineIsClosed DEF TypeOK
<1>2. ASSUME NEW a \in Line(collections[c].parent),
             NEW S \in SUBSET Collections, c \in S, Closed(S)
      PROVE  a \in S
  <2>1. collections[c].parent \in S
    BY <1>1, <1>2 DEF Line
  <2> QED BY <1>2, <2>1 DEF Line
<1> QED BY <1>2 DEF Line

\* What a deletion leaves keeps its parent.
LEMMA CascadeLeavesParents ==
  ASSUME TypeOK, NEW S, NEW c \in live \ Cascade(S)
  PROVE  collections[c].parent \in (live \ Cascade(S)) \cup {Top}
<1>1. SUFFICES ASSUME collections[c].parent # Top
               PROVE  collections[c].parent \in live \ Cascade(S)
  OBVIOUS
<1>2. collections[c].parent \in live
  BY <1>1 DEF TypeOK
<1>3. Line(collections[c].parent) \subseteq Line(c)
  BY <1>1, ParentLine
<1> QED BY <1>2, <1>3 DEF Cascade

\* A deletion takes at least what it is asked to.
LEMMA CascadeTakes ==
  ASSUME TypeOK, NEW S, NEW c \in S \cap live
  PROVE  c \in Cascade(S)
  BY SelfInLine DEF Cascade, TypeOK

LEMMA CascadeOfNothing == Cascade({}) = {}
  BY DEF Cascade

-----------------------------------------------------------------------------
(* Lemmas about requests and the writes they prepare.                      *)

\* The fields of a request, by the operation it asks for.
LEMMA JobFields ==
  ASSUME NEW j \in Job
  PROVE  /\ j.op = "CreateCollection" =>
              /\ j.user \in Users /\ j.parent \in Parents
              /\ j.private \in BOOLEAN /\ j.members \subseteq Users
         /\ j.op = "MoveCollection" =>
              j.user \in Users /\ j.collection \in Collections /\ j.parent \in Parents
         /\ j.op = "DeleteCollection" => j.user \in Users /\ j.collection \in Collections
         /\ j.op = "UpdateCollectionAccess" =>
              /\ j.user \in Users /\ j.collection \in Collections
              /\ j.private \in BOOLEAN /\ j.members \subseteq Users
         /\ j.op \in {"RestoreFromTrash", "PurgeTrash"} =>
              j.user \in Users /\ j.selection \subseteq Collections
  BY DEF Job

\* The request of a transaction that begins is one of its operation.
LEMMA BegunJob ==
  ASSUME TypeOK, NEW p \in Procs, NEW op, Begin(p, op)
  PROVE  job[p] \in Job /\ job[p].op = op
  BY DEF TypeOK, Begin

LEMMA NoWritesFields ==
  /\ NoWrites \in Writes
  /\ NoWrites.make = {} /\ NoWrites.move = {} /\ NoWrites.parent = Top
  /\ NoWrites.access = {} /\ NoWrites.drop = {}
  BY DEF NoWrites, Writes, Parents

\* A transaction that makes or deletes rows moves none, and one that deletes
\* makes none; the ids of what it makes are taken.
PlanOK(w, taken) ==
  /\ \A m \in w.make : m.id \in taken
  /\ w.make # {} => w.move = {} /\ w.drop = {}
  /\ w.drop # {} => w.move = {}

\* A row or access list with members is private, and the other way round.
PrivateOK(w) ==
  /\ \A m \in w.make : m.row.private <=> m.row.access # {}
  /\ \A a \in w.access : a.private <=> a.members # {}

\* It gives access to members only.
MembersOK(w) ==
  /\ \A m \in w.make : m.row.access \subseteq Members
  /\ \A a \in w.access : a.members \subseteq Members

\* It moves nothing below itself.
MovesOK(w) == \A c \in w.move : w.parent # Top => c \notin Line(w.parent)

\* It makes one row at most, and there is room for it.
QuotaOK(w) ==
  w.make # {} => checkCollectionQuota /\ \E id : \A m \in w.make : m.id = id

\* The transaction of p began: with writes of the right type, decided upon
\* what there is now.
Began(p) ==
  /\ spent \subseteq spent' /\ spent' \subseteq Collections
  /\ \E w \in Writes :
       /\ Prepare(p, w)
       /\ PlanOK(w, spent')
       /\ PrivateOK(w) /\ MembersOK(w) /\ MovesOK(w) /\ QuotaOK(w)

LEMMA CreateCollectionBegins ==
  ASSUME TypeOK, NEW p \in Procs, CreateCollectionTx(p)
  PROVE  Began(p)
<1> DEFINE j == job[p]
           access == IF j.private THEN j.members \cup {j.user} ELSE {}
           row == [parent |-> j.parent, private |-> j.private, access |-> access,
                   creator |-> j.user, trashed |-> FALSE]
<1>1. /\ j.user \in Users /\ j.parent \in Parents
      /\ j.private \in BOOLEAN /\ j.members \subseteq Users
  BY BegunJob, JobFields DEF CreateCollectionTx
<1>2. PICK id \in Collections \ spent :
        /\ spent' = spent \cup {id}
        /\ Prepare(p, [NoWrites EXCEPT !.make = {[id |-> id, row |-> row]}])
  BY DEF CreateCollectionTx
<1>3. j.private => j.members \cup {j.user} \subseteq Members
  BY DEF CreateCollectionTx, requireSpaceMembers
<1> HIDE DEF j
<1>4. /\ row \in Row /\ row.private = j.private /\ row.access = access
      /\ access \subseteq Members
      /\ j.private <=> access # {}
  BY <1>1, <1>3 DEF Row, Members
<1> DEFINE new == [id |-> id, row |-> row]
           w == [NoWrites EXCEPT !.make = {new}]
<1>5. Prepare(p, w)
  BY <1>2
<1> HIDE DEF row, access
<1>6. new \in [id : Collections, row : Row] /\ new.id = id /\ new.row = row
  BY <1>2, <1>4
<1> HIDE DEF new
<1>7. /\ w \in Writes
      /\ w.make = {new} /\ w.move = {} /\ w.access = {} /\ w.drop = {}
  BY <1>6, NoWritesFields DEF Writes
<1> HIDE DEF w
<1>8. PlanOK(w, spent')
  BY <1>2, <1>6, <1>7 DEF PlanOK
<1>9. PrivateOK(w) /\ MembersOK(w) /\ MovesOK(w)
  BY <1>4, <1>6, <1>7 DEF PrivateOK, MembersOK, MovesOK
<1>10. QuotaOK(w)
  BY <1>7 DEF QuotaOK, CreateCollectionTx
<1>11. spent' \subseteq Collections /\ spent \subseteq spent'
  BY <1>2 DEF TypeOK
<1> QED BY <1>5, <1>7, <1>8, <1>9, <1>10, <1>11 DEF Began

\* What the other transactions write makes no rows.
LEMMA BeganWithoutRows ==
  ASSUME TypeOK, NEW p \in Procs, NEW w \in Writes, Prepare(p, w), spent' = spent,
         w.make = {}, w.drop # {} => w.move = {},
         PrivateOK(w), MembersOK(w), MovesOK(w)
  PROVE  Began(p)
<1>1. PlanOK(w, spent')
  BY DEF PlanOK
<1>2. spent' \subseteq Collections
  BY DEF TypeOK
<1> QED BY <1>1, <1>2 DEF Began, QuotaOK

LEMMA MoveCollectionBegins ==
  ASSUME TypeOK, NEW p \in Procs, MoveCollectionTx(p)
  PROVE  Began(p)
<1> DEFINE j == job[p]
           w == [NoWrites EXCEPT !.move = {j.collection}, !.parent = j.parent]
<1>1. j.user \in Users /\ j.collection \in Collections /\ j.parent \in Parents
  BY BegunJob, JobFields DEF MoveCollectionTx
<1>2. Prepare(p, w) /\ spent' = spent
  BY DEF MoveCollectionTx
<1>3. j.parent # Top => j.collection \notin Line(j.parent)
  BY DEF MoveCollectionTx, mayMoveBelow
<1> HIDE DEF j
<1>4. /\ w \in Writes
      /\ w.make = {} /\ w.move = {j.collection} /\ w.parent = j.parent
      /\ w.access = {} /\ w.drop = {}
  BY <1>1, NoWritesFields DEF Writes
<1> HIDE DEF w
<1>5. PrivateOK(w) /\ MembersOK(w) /\ MovesOK(w)
  BY <1>3, <1>4 DEF PrivateOK, MembersOK, MovesOK
<1> QED BY <1>2, <1>4, <1>5, BeganWithoutRows

LEMMA DeleteCollectionBegins ==
  ASSUME TypeOK, NEW p \in Procs, DeleteCollectionTx(p)
  PROVE  Began(p)
<1> DEFINE c == job[p].collection
           w == [NoWrites EXCEPT !.hide = {c}]
<1>1. c \in Collections
  BY BegunJob, JobFields DEF DeleteCollectionTx
<1>2. Prepare(p, w) /\ spent' = spent
  BY DEF DeleteCollectionTx
<1> HIDE DEF c
<1>3. w \in Writes /\ w.make = {} /\ w.move = {} /\ w.access = {} /\ w.drop = {}
  BY <1>1, NoWritesFields DEF Writes
<1> HIDE DEF w
<1>4. PrivateOK(w) /\ MembersOK(w) /\ MovesOK(w)
  BY <1>3 DEF PrivateOK, MembersOK, MovesOK
<1> QED BY <1>2, <1>3, <1>4, BeganWithoutRows

LEMMA UpdateCollectionAccessBegins ==
  ASSUME TypeOK, NEW p \in Procs, UpdateCollectionAccessTx(p)
  PROVE  Began(p)
<1> DEFINE j == job[p]
           members == IF j.private THEN j.members \cup {j.user} ELSE {}
           new == [id |-> j.collection, private |-> j.private, members |-> members]
           w == [NoWrites EXCEPT !.access = {new}]
<1>1. /\ j.user \in Users /\ j.collection \in Collections
      /\ j.private \in BOOLEAN /\ j.members \subseteq Users
  BY BegunJob, JobFields DEF UpdateCollectionAccessTx
<1>2. Prepare(p, w) /\ spent' = spent
  BY DEF UpdateCollectionAccessTx
<1>3. j.private => j.members \cup {j.user} \subseteq Members
  BY DEF UpdateCollectionAccessTx, requireSpaceMembers
<1> HIDE DEF j
<1>4. members \subseteq Users /\ members \subseteq Members /\ (j.private <=> members # {})
  BY <1>1, <1>3
<1> HIDE DEF members
<1>5. /\ new \in [id : Collections, private : BOOLEAN, members : SUBSET Users]
      /\ new.private = j.private /\ new.members = members
  BY <1>1, <1>4
<1> HIDE DEF new
<1>6. w \in Writes /\ w.make = {} /\ w.move = {} /\ w.access = {new} /\ w.drop = {}
  BY <1>5, NoWritesFields DEF Writes
<1> HIDE DEF w
<1>7. PrivateOK(w) /\ MembersOK(w) /\ MovesOK(w)
  BY <1>4, <1>5, <1>6 DEF PrivateOK, MembersOK, MovesOK
<1> QED BY <1>2, <1>6, <1>7, BeganWithoutRows

LEMMA RestoreFromTrashBegins ==
  ASSUME TypeOK, NEW p \in Procs, RestoreFromTrashTx(p)
  PROVE  Began(p)
<1> DEFINE S == job[p].selection
<1>1. S \subseteq Collections
  BY BegunJob, JobFields DEF RestoreFromTrashTx
<1>2. PICK moved \in SUBSET S : Prepare(p, [NoWrites EXCEPT !.show = S, !.move = moved])
  BY DEF RestoreFromTrashTx
<1>3. spent' = spent
  BY DEF RestoreFromTrashTx
<1> HIDE DEF S
<1> DEFINE w == [NoWrites EXCEPT !.show = S, !.move = moved]
<1>4. moved \subseteq Collections
  BY <1>1, <1>2
<1>5. /\ w \in Writes
      /\ w.make = {} /\ w.parent = Top /\ w.access = {} /\ w.drop = {}
  BY <1>1, <1>4, NoWritesFields DEF Writes
<1>6. Prepare(p, w)
  BY <1>2
<1> HIDE DEF w
<1>7. PrivateOK(w) /\ MembersOK(w) /\ MovesOK(w)
  BY <1>5 DEF PrivateOK, MembersOK, MovesOK
<1> QED BY <1>3, <1>5, <1>6, <1>7, BeganWithoutRows

LEMMA PurgeTrashBegins ==
  ASSUME TypeOK, NEW p \in Procs, PurgeTrashTx(p)
  PROVE  Began(p)
<1> DEFINE S == job[p].selection
           w == [NoWrites EXCEPT !.drop = S]
<1>1. S \subseteq Collections
  BY BegunJob, JobFields DEF PurgeTrashTx
<1>2. Prepare(p, w) /\ spent' = spent
  BY DEF PurgeTrashTx
<1> HIDE DEF S
<1>3. w \in Writes /\ w.make = {} /\ w.move = {} /\ w.access = {}
  BY <1>1, NoWritesFields DEF Writes
<1> HIDE DEF w
<1>4. PrivateOK(w) /\ MembersOK(w) /\ MovesOK(w)
  BY <1>3 DEF PrivateOK, MembersOK, MovesOK
<1> QED BY <1>2, <1>3, <1>4, BeganWithoutRows

\* A transaction, whichever.
Tx(p) ==
  \/ CreateCollectionTx(p) \/ MoveCollectionTx(p) \/ DeleteCollectionTx(p)
  \/ UpdateCollectionAccessTx(p) \/ RestoreFromTrashTx(p) \/ PurgeTrashTx(p)

LEMMA TransactionsBegin ==
  ASSUME TypeOK, NEW p \in Procs, Tx(p)
  PROVE  Began(p)
BY CreateCollectionBegins, MoveCollectionBegins, DeleteCollectionBegins,
   UpdateCollectionAccessBegins, RestoreFromTrashBegins, PurgeTrashBegins DEF Tx

-----------------------------------------------------------------------------
(* Type correctness and the foreign key of the tree, on both databases.    *)
(* What is inductive is more: what a transaction is about to write.        *)

TypeInv == TypeOK /\ \A p \in Procs : PlanOK(plan[p], spent)

LEMMA InitTypeInv == Init => TypeInv
<1>1. Nothing \in Job
  BY DEF Nothing, Job
<1>2. ASSUME NEW u \in Users
      PROVE  [v \in Users |-> IF v = u THEN "OWNER" ELSE NoRole] \in [Users -> Roles \cup {NoRole}]
  BY DEF Roles
<1>3. PlanOK(NoWrites, {})
  BY NoWritesFields DEF PlanOK
<1> QED BY <1>1, <1>2, <1>3, NoWritesFields DEF Init, TypeInv, TypeOK, live

\* A transaction begins.
LEMMA BeginTypeInv ==
  ASSUME TypeInv, NEW p \in Procs, Began(p)
  PROVE  TypeInv'
<1>1. PICK w \in Writes : Prepare(p, w) /\ PlanOK(w, spent')
  BY DEF Began
<1>2. spent \subseteq spent' /\ spent' \subseteq Collections
  BY DEF Began
<1>3. TypeOK'
  BY <1>1, <1>2 DEF TypeInv, TypeOK, Prepare, live
<1>4. ASSUME NEW q \in Procs PROVE PlanOK(plan'[q], spent')
  BY <1>1, <1>2 DEF TypeInv, TypeOK, PlanOK, Prepare
<1> QED BY <1>3, <1>4 DEF TypeInv

\* A request is answered.
LEMMA AnswerType ==
  ASSUME TypeInv, NEW p \in Procs, Answer(p), spent' = spent
  PROVE  /\ pc' \in [Procs -> {"idle", "checked", "open"}]
         /\ job' \in [Procs -> Job]
         /\ plan' \in [Procs -> Writes]
         /\ \A q \in Procs : PlanOK(plan'[q], spent')
<1>1. Nothing \in Job
  BY DEF Nothing, Job
<1>2. PlanOK(NoWrites, spent)
  BY NoWritesFields DEF PlanOK
<1> QED BY <1>1, <1>2, NoWritesFields DEF TypeInv, TypeOK, Answer

\* What a commit makes of a row that is there.
LEMMA AccessAfterFields ==
  ASSUME NEW w \in Writes, NEW c, NEW row \in Row
  PROVE  /\ AccessAfter(w, c, row) \in Row
         /\ AccessAfter(w, c, row).parent = row.parent
         /\ \/ AccessAfter(w, c, row) = row
            \/ \E a \in w.access : /\ AccessAfter(w, c, row).private = a.private
                                   /\ AccessAfter(w, c, row).access = a.members
<1>1. CASE \E a \in w.access : a.id = c
  <2> DEFINE a == CHOOSE a \in w.access : a.id = c
             after == [row EXCEPT !.private = a.private, !.access = a.members]
  <2>1. a \in w.access
    BY <1>1
  <2>2. AccessAfter(w, c, row) = after
    BY <1>1 DEF AccessAfter
  <2> HIDE DEF a
  <2>3. a.private \in BOOLEAN /\ a.members \in SUBSET Users
    BY <2>1 DEF Writes
  <2>4. after \in Row /\ after.parent = row.parent
        /\ after.private = a.private /\ after.access = a.members
    BY <2>3 DEF Row
  <2> QED BY <2>1, <2>2, <2>4
<1>2. CASE ~\E a \in w.access : a.id = c
  BY <1>2 DEF AccessAfter
<1> QED BY <1>1, <1>2

LEMMA RowAfterFields ==
  ASSUME TypeOK, NEW w \in Writes, NEW c \in live
  PROVE  /\ RowAfter(w, c) \in Row
         /\ RowAfter(w, c).parent = IF c \in w.move THEN w.parent ELSE collections[c].parent
         /\ \/ /\ RowAfter(w, c).private = collections[c].private
               /\ RowAfter(w, c).access = collections[c].access
            \/ \E a \in w.access : /\ RowAfter(w, c).private = a.private
                                   /\ RowAfter(w, c).access = a.members
<1> DEFINE old == collections[c]
           parent == IF c \in w.move THEN w.parent ELSE old.parent
           trashed == (old.trashed \/ c \in w.hide) /\ c \notin w.show
           row == [old EXCEPT !.parent = parent, !.trashed = trashed]
<1>1. RowAfter(w, c) = AccessAfter(w, c, row)
  BY DEF RowAfter
<1>2. old \in Row
  BY DEF TypeOK
<1> HIDE DEF old
<1>3. parent \in Parents /\ trashed \in BOOLEAN
  BY <1>2 DEF Row, Writes
<1> HIDE DEF trashed, parent
<1>4. /\ row \in Row /\ row.parent = parent
      /\ row.private = old.private /\ row.access = old.access
  BY <1>2, <1>3 DEF Row
<1> HIDE DEF row
<1> QED BY <1>1, <1>4, AccessAfterFields DEF old, parent

\* The row a commit makes for a new collection.
LEMMA NewRow ==
  ASSUME NEW w \in Writes, NEW c \in {m.id : m \in w.make} \ live
  PROVE  \E m \in w.make : m.id = c /\ RowAfter(w, c) = m.row
  BY DEF RowAfter

\* A commit, in the three shapes plans have: the rows that were there stay where
\* they are, apart from the moved ones, or some are deleted.
LEMMA CommitShape ==
  ASSUME TypeInv, NEW p \in Procs, Commit(p)
  PROVE  LET w == plan[p] IN
         /\ w \in Writes
         /\ PlanOK(w, spent)
         /\ live' = (live \cup {m.id : m \in w.make}) \ Cascade(w.drop)
         /\ \A c \in live' : collections'[c] = RowAfter(w, c)
         /\ ~Refused(w) /\ Answer(p) /\ UNCHANGED <<role, spent>>
  BY DEF TypeInv, TypeOK, Commit, live

LEMMA CommitTypeInv ==
  ASSUME TypeInv, NEW p \in Procs, Commit(p)
  PROVE  TypeInv'
<1> DEFINE w == plan[p]
<1>1. /\ w \in Writes
      /\ PlanOK(w, spent)
      /\ live' = (live \cup {m.id : m \in w.make}) \ Cascade(w.drop)
      /\ \A c \in live' : collections'[c] = RowAfter(w, c)
      /\ ~Refused(w) /\ Answer(p) /\ UNCHANGED <<role, spent>>
  BY CommitShape
<1>2. collections' = [c \in live' |-> RowAfter(w, c)]
  BY DEF Commit, live
<1> HIDE DEF w
<1>3. live' \subseteq spent' /\ spent' \subseteq Collections
  BY <1>1 DEF TypeInv, TypeOK, PlanOK
<1>4. ASSUME NEW c \in live'
      PROVE  /\ RowAfter(w, c) \in Row
             /\ RowAfter(w, c).parent \in live' \cup {Top}
  <2>1. CASE c \in live
    <3>1. /\ RowAfter(w, c) \in Row
          /\ RowAfter(w, c).parent = IF c \in w.move THEN w.parent ELSE collections[c].parent
      BY <1>1, <2>1, RowAfterFields DEF TypeInv
    <3>2. collections[c].parent \in live' \cup {Top}
      BY <1>1, <1>4, <2>1, CascadeLeavesParents DEF TypeInv
    <3>3. c \in w.move => w.parent \in live' \cup {Top}
      <4>1. SUFFICES ASSUME c \in w.move PROVE w.parent \in live' \cup {Top}
        OBVIOUS
      <4>2. w.drop = {}
        BY <1>1, <4>1 DEF PlanOK
      <4>3. w.parent \in live \cup {Top}
        BY <1>1, <2>1, <4>1 DEF Refused
      <4> QED BY <1>1, <4>2, <4>3, CascadeOfNothing
    <3> QED BY <3>1, <3>2, <3>3
  <2>2. CASE c \notin live
    <3>1. PICK m \in w.make : m.id = c /\ RowAfter(w, c) = m.row
      BY <1>1, <1>4, <2>2, NewRow
    <3>2. m.row \in Row /\ m.row.parent \in live \cup {Top}
      BY <1>1, <3>1 DEF Writes, Refused
    <3>3. w.drop = {}
      BY <1>1, <3>1 DEF PlanOK
    <3> QED BY <1>1, <3>1, <3>2, <3>3, CascadeOfNothing
  <2> QED BY <2>1, <2>2
<1>5. collections' \in [live' -> Row] /\ \A c \in live' : collections'[c].parent \in live' \cup {Top}
  BY <1>2, <1>4
<1> QED BY <1>1, <1>3, <1>5, AnswerType DEF TypeInv, TypeOK

\* Rows are deleted with everything below them, the others keep their parents.
LEMMA DeletionTypeInv ==
  ASSUME TypeInv, NEW S, UNCHANGED <<spent, request>>,
         role' \in [Users -> Roles \cup {NoRole}],
         live' = live \ Cascade(S),
         collections' \in [live' -> Row],
         \A c \in live' : collections'[c].parent = collections[c].parent
  PROVE  TypeInv'
<1>1. \A c \in live' : collections'[c].parent \in live' \cup {Top}
  BY CascadeLeavesParents DEF TypeInv
<1> QED BY <1>1 DEF TypeInv, TypeOK, request

LEMMA PurgeOldTrashTypeInv ==
  ASSUME TypeInv, PurgeOldTrash
  PROVE  TypeInv'
<1>1. PICK old \in SUBSET Trash :
        collections' = [c \in live \ Cascade(old) |-> collections[c]]
  BY DEF PurgeOldTrash
<1>2. /\ live' = live \ Cascade(old)
      /\ collections' \in [live' -> Row]
      /\ \A c \in live' : collections'[c].parent = collections[c].parent
  BY <1>1 DEF TypeInv, TypeOK, live
<1> QED BY <1>2, DeletionTypeInv DEF PurgeOldTrash, TypeInv, TypeOK

\* The rows nobody can see anymore when S leaves, as each of S finds them.
Left(S) == UNION {Abandoned(AccessWithout({u})) : u \in S}

\* The rows members who leave take along, and what becomes of the others.
LEMMA LeavingRows ==
  ASSUME TypeOK, NEW S \in SUBSET Users, RemoveMember(S)
  PROVE  /\ live' = live \ Cascade(Left(S))
         /\ collections' \in [live' -> Row]
         /\ \A c \in live' : /\ collections'[c].parent = collections[c].parent
                             /\ collections'[c].private = collections[c].private
                             /\ collections'[c].access = collections[c].access \ S
<1> DEFINE access == AccessWithout(S)
           after(c) == [collections[c] EXCEPT !.access = access[c]]
<1>1. collections' = [c \in live \ Cascade(Left(S)) |-> after(c)]
  BY DEF RemoveMember, Left
<1>2. ASSUME NEW c \in live
      PROVE  /\ after(c) \in Row /\ after(c).parent = collections[c].parent
             /\ after(c).private = collections[c].private
             /\ after(c).access = collections[c].access \ S
  <2>1. collections[c] \in Row
    BY DEF TypeOK
  <2>2. access[c] = collections[c].access \ S
    BY DEF AccessWithout
  <2> HIDE DEF access
  <2> QED BY <2>1, <2>2 DEF Row
<1> HIDE DEF after
<1>3. live' = live \ Cascade(Left(S))
  BY <1>1 DEF live
<1> QED BY <1>1, <1>2, <1>3

LEMMA RemoveMemberTypeInv ==
  ASSUME TypeInv, NEW S \in SUBSET Users, RemoveMember(S)
  PROVE  TypeInv'
<1>1. role' \in [Users -> Roles \cup {NoRole}]
  BY DEF RemoveMember, TypeInv, TypeOK
<1>2. UNCHANGED <<spent, request>>
  BY DEF RemoveMember
<1> QED BY <1>1, <1>2, LeavingRows, DeletionTypeInv DEF TypeInv

LEMMA NextTypeInv ==
  ASSUME TypeInv, [Next]_vars
  PROVE  TypeInv'
<1>1. ASSUME NEW p \in Procs, Call(p)
      PROVE  TypeInv'
  BY <1>1 DEF Call, TypeInv, TypeOK, tables, live
<1>2. ASSUME NEW p \in Procs, Tx(p)
      PROVE  TypeInv'
  BY <1>2, TransactionsBegin, BeginTypeInv DEF TypeInv
<1>3. ASSUME NEW p \in Procs, Drop(p)
      PROVE  TypeInv'
  BY <1>3, AnswerType DEF Drop, TypeInv, TypeOK, tables, live
<1>4. ASSUME NEW u \in Users, AddMember(u) \/ SetMemberRole(u)
      PROVE  TypeInv'
  <2>1. role' \in [Users -> Roles \cup {NoRole}]
    BY <1>4, CollectionsAssumption DEF AddMember, SetMemberRole, TypeInv, TypeOK
  <2> QED BY <1>4, <2>1 DEF AddMember, SetMemberRole, TypeInv, TypeOK, request, live
<1>5. CASE UNCHANGED vars
  BY <1>5 DEF TypeInv, TypeOK, vars, tables, request, live
<1> QED
  BY <1>1, <1>2, <1>3, <1>4, <1>5, CommitTypeInv, RemoveMemberTypeInv, PurgeOldTrashTypeInv
  DEF Next, Tx

\* Whatever requests arrive and interleave, on either database: rows, requests and
\* plans are well-formed, and the parent of a collection exists.
THEOREM CollectionsTypeCorrect == Spec => []TypeOK
<1>1. TypeInv => TypeOK
  BY DEF TypeInv
<1> QED BY <1>1, InitTypeInv, NextTypeInv, PTL DEF Spec

-----------------------------------------------------------------------------
(* Private collections have members, on SQLite: no plan depends on what it *)
(* read for that, and who leaves takes the abandoned ones along. On        *)
(* PostgreSQL two who leave at once each find the other still there.       *)

PrivateInv == TypeInv /\ PrivateHasMembers /\ \A p \in Procs : PrivateOK(plan[p])

LEMMA NoWritesPrivate == PrivateOK(NoWrites)
  BY NoWritesFields DEF PrivateOK

LEMMA CommitPrivate ==
  ASSUME PrivateInv, NEW p \in Procs, Commit(p)
  PROVE  PrivateHasMembers' /\ \A q \in Procs : PrivateOK(plan'[q])
<1> DEFINE w == plan[p]
<1>1. /\ w \in Writes
      /\ live' = (live \cup {m.id : m \in w.make}) \ Cascade(w.drop)
      /\ \A c \in live' : collections'[c] = RowAfter(w, c)
      /\ Answer(p)
  BY CommitShape DEF PrivateInv
<1>2. PrivateOK(w)
  BY DEF PrivateInv
<1> HIDE DEF w
<1>3. ASSUME NEW c \in live'
      PROVE  RowAfter(w, c).private <=> RowAfter(w, c).access # {}
  <2>1. CASE c \in live
    BY <1>1, <1>2, <2>1, RowAfterFields DEF PrivateInv, TypeInv, PrivateHasMembers, PrivateOK
  <2>2. CASE c \notin live
    BY <1>1, <1>2, <1>3, <2>2, NewRow DEF PrivateOK
  <2> QED BY <2>1, <2>2
<1>4. \A q \in Procs : PrivateOK(plan'[q])
  BY <1>1, NoWritesPrivate DEF Answer, PrivateInv, TypeInv, TypeOK
<1> QED BY <1>1, <1>3, <1>4 DEF PrivateHasMembers

LEMMA RemoveMemberPrivate ==
  ASSUME Serial, PrivateInv, NEW S \in SUBSET Users, RemoveMember(S)
  PROVE  PrivateHasMembers'
<1> PICK u \in S : S = {u}
  BY DEF RemoveMember
<1> DEFINE access == AccessWithout(S)
<1> SUFFICES ASSUME NEW c \in live'
             PROVE  collections'[c].private <=> collections'[c].access # {}
  BY DEF PrivateHasMembers
<1>1. Left(S) = Abandoned(access)
  BY DEF Left
<1>2. /\ c \in live /\ c \notin Abandoned(access)
      /\ collections'[c].private = collections[c].private
      /\ collections'[c].access = collections[c].access \ S
  BY <1>1, LeavingRows, CascadeTakes DEF PrivateInv, TypeInv
<1>3. access[c] = collections[c].access \ S
  BY <1>2 DEF AccessWithout
<1> HIDE DEF access
<1>4. collections[c].private => access[c] # {}
  BY <1>2 DEF Abandoned
<1>5. collections[c].private <=> collections[c].access # {}
  BY <1>2 DEF PrivateInv, PrivateHasMembers
<1> QED BY <1>2, <1>3, <1>4, <1>5

LEMMA NextPrivate ==
  ASSUME Serial, PrivateInv, [Next]_vars
  PROVE  PrivateInv'
<1>1. TypeInv'
  BY NextTypeInv DEF PrivateInv
<1> DEFINE Goal == PrivateHasMembers' /\ \A q \in Procs : PrivateOK(plan'[q])
<1>2. ASSUME NEW p \in Procs, Tx(p)
      PROVE  Goal
  <2>1. PICK w \in Writes : Prepare(p, w) /\ PrivateOK(w)
    BY <1>2, TransactionsBegin DEF Began, PrivateInv, TypeInv
  <2> QED BY <2>1 DEF Prepare, PrivateInv, TypeInv, TypeOK, PrivateHasMembers, live
<1>3. ASSUME NEW p \in Procs, Call(p) \/ Drop(p)
      PROVE  Goal
  BY <1>3, NoWritesPrivate
  DEF Call, Drop, Answer, tables, PrivateInv, TypeInv, TypeOK, PrivateHasMembers, live
<1>4. ASSUME NEW u \in Users, AddMember(u) \/ SetMemberRole(u)
      PROVE  Goal
  BY <1>4 DEF AddMember, SetMemberRole, request, PrivateInv, PrivateHasMembers, live
<1>5. ASSUME NEW S \in SUBSET Users, RemoveMember(S)
      PROVE  Goal
  BY <1>5, RemoveMemberPrivate DEF RemoveMember, request, PrivateInv
<1>6. ASSUME PurgeOldTrash
      PROVE  Goal
  BY <1>6 DEF PurgeOldTrash, request, PrivateInv, PrivateHasMembers, live
<1>7. ASSUME UNCHANGED vars
      PROVE  Goal
  BY <1>7 DEF vars, tables, request, PrivateInv, PrivateHasMembers, live
<1>8. Goal
  BY <1>2, <1>3, <1>4, <1>5, <1>6, <1>7, CommitPrivate DEF Next, Tx
<1> QED BY <1>1, <1>8 DEF PrivateInv

\* "Private collections nobody can see anymore would be unreachable data": however
\* requests to restrict collections and members who leave interleave, a private
\* collection has somebody who was given access: on SQLite.
THEOREM PrivateCollectionsHaveMembers ==
  ASSUME Serial
  PROVE  Spec => []PrivateHasMembers
<1>1. Init => PrivateInv
  BY InitTypeInv, NoWritesPrivate DEF Init, PrivateInv, PrivateHasMembers, live
<1>2. PrivateInv => PrivateHasMembers
  BY DEF PrivateInv
<1> QED BY <1>1, <1>2, NextPrivate, PTL DEF Spec

-----------------------------------------------------------------------------
(* On SQLite the tree stays a tree, and access stays with the members.     *)
(* What a transaction read still holds when it commits, because no other   *)
(* is open: its moves do not close a circle, and it gives access to people *)
(* who are members.                                                        *)

OneWriter == \A p, q \in Procs : pc[p] = "open" /\ pc[q] = "open" => p = q

PlansHold ==
  \A p \in Procs : pc[p] = "open" => MovesOK(plan[p]) /\ MembersOK(plan[p]) /\ QuotaOK(plan[p])

SerialInv ==
  /\ TypeInv /\ TreeIsRooted /\ AccessOnlyForMembers /\ WithinCollectionQuota
  /\ OneWriter /\ PlansHold

LEMMA SameTables ==
  ASSUME UNCHANGED <<role, collections>>
  PROVE  /\ TreeIsRooted => TreeIsRooted'
         /\ AccessOnlyForMembers => AccessOnlyForMembers'
         /\ \A w : MovesOK(w) => MovesOK(w)'
         /\ WithinCollectionQuota => WithinCollectionQuota'
         /\ \A w : MembersOK(w) => MembersOK(w)'
         /\ \A w : QuotaOK(w) => QuotaOK(w)'
  BY DEF TreeIsRooted, AccessOnlyForMembers, WithinCollectionQuota, Members, MovesOK,
     MembersOK, QuotaOK, checkCollectionQuota, Line, Closed, live

\* Fewer collections, each below the same parent as before, are still a tree.
LEMMA FewerRooted ==
  ASSUME TreeIsRooted, live' \subseteq live,
         \A c \in live' : collections'[c].parent = collections[c].parent
  PROVE  TreeIsRooted'
<1> SUFFICES ASSUME NEW S \in SUBSET live', S # {}
             PROVE  \E c \in S : collections'[c].parent \notin S
  BY DEF TreeIsRooted
<1>1. \E c \in S : collections[c].parent \notin S
  BY DEF TreeIsRooted
<1> QED BY <1>1

\* Moving rows below something that is not below them keeps a tree a tree.
LEMMA MovesRooted ==
  ASSUME TypeOK, TreeIsRooted, NEW w \in Writes, MovesOK(w),
         live' \subseteq live,
         \A c \in live' : collections'[c].parent =
                            IF c \in w.move THEN w.parent ELSE collections[c].parent
  PROVE  TreeIsRooted'
<1> SUFFICES ASSUME NEW S \in SUBSET live', S # {},
                    \A c \in S : collections'[c].parent \in S
             PROVE  FALSE
  BY DEF TreeIsRooted
<1>1. S \subseteq live /\ Top \notin S
  BY CollectionsAssumption DEF TypeOK
<1>2. PICK m \in S : m \in w.move
  BY <1>1 DEF TreeIsRooted
<1> DEFINE q == w.parent
           R == S \cap Line(q)
<1>3. q \in S
  BY <1>2
<1>4. q \in R
  BY <1>1, <1>3, SelfInLine DEF TypeOK
<1>5. ASSUME NEW c \in R
      PROVE  collections[c].parent \in R
  <2>1. c \notin w.move
    BY <1>1, <1>3 DEF MovesOK
  <2>2. collections[c].parent \in S
    BY <2>1
  <2>3. collections[c].parent \in Line(q)
    BY <1>1, <2>2, LineIsClosed
  <2> QED BY <2>2, <2>3
<1> QED BY <1>1, <1>4, <1>5 DEF TreeIsRooted

\* New rows below what is there keep a tree a tree.
LEMMA MakesRooted ==
  ASSUME TypeOK, TreeIsRooted, live \subseteq live',
         \A c \in live : collections'[c].parent = collections[c].parent,
         \A c \in live' \ live : collections'[c].parent \in live \cup {Top},
         Top \notin live'
  PROVE  TreeIsRooted'
<1> SUFFICES ASSUME NEW S \in SUBSET live', S # {},
                    \A c \in S : collections'[c].parent \in S
             PROVE  FALSE
  BY DEF TreeIsRooted
<1>1. S \cap live # {}
  BY DEF TypeOK
<1>2. \A c \in S \cap live : collections[c].parent \in S \cap live
  BY DEF TypeOK
<1> QED BY <1>1, <1>2 DEF TreeIsRooted

LEMMA CommitRooted ==
  ASSUME SerialInv, NEW p \in Procs, Commit(p)
  PROVE  TreeIsRooted'
<1> DEFINE w == plan[p]
<1>1. /\ w \in Writes
      /\ PlanOK(w, spent)
      /\ live' = (live \cup {m.id : m \in w.make}) \ Cascade(w.drop)
      /\ \A c \in live' : collections'[c] = RowAfter(w, c)
      /\ ~Refused(w)
  BY CommitShape DEF SerialInv
<1>2. MovesOK(w)
  BY DEF SerialInv, PlansHold, Commit
<1> HIDE DEF w
<1>3. \A c \in live \cap live' :
        collections'[c].parent = IF c \in w.move THEN w.parent ELSE collections[c].parent
  BY <1>1, RowAfterFields DEF SerialInv, TypeInv
<1>4. CASE w.make = {}
  <2>1. live' \subseteq live
    BY <1>1, <1>4
  <2> QED BY <1>1, <1>2, <1>3, <2>1, MovesRooted DEF SerialInv, TypeInv
<1>5. CASE w.make # {}
  <2>1. w.move = {} /\ w.drop = {}
    BY <1>1, <1>5 DEF PlanOK
  <2>2. live \subseteq live'
    BY <1>1, <2>1, CascadeOfNothing
  <2>3. ASSUME NEW c \in live' \ live PROVE collections'[c].parent \in live \cup {Top}
    <3>1. PICK m \in w.make : m.id = c /\ RowAfter(w, c) = m.row
      BY <1>1, <2>3, NewRow
    <3> QED BY <1>1, <3>1 DEF Refused
  <2>4. Top \notin live'
    BY <1>1, CollectionsAssumption DEF SerialInv, TypeInv, TypeOK, Writes
  <2>5. \A c \in live : collections'[c].parent = collections[c].parent
    BY <1>3, <2>1, <2>2
  <2> QED BY <2>2, <2>3, <2>4, <2>5, MakesRooted DEF SerialInv, TypeInv
<1> QED BY <1>4, <1>5

LEMMA CommitAccess ==
  ASSUME SerialInv, NEW p \in Procs, Commit(p)
  PROVE  AccessOnlyForMembers'
<1> DEFINE w == plan[p]
<1>1. /\ w \in Writes
      /\ live' = (live \cup {m.id : m \in w.make}) \ Cascade(w.drop)
      /\ \A c \in live' : collections'[c] = RowAfter(w, c)
      /\ role' = role
  BY CommitShape DEF SerialInv
<1>2. MembersOK(w)
  BY DEF SerialInv, PlansHold, Commit
<1> HIDE DEF w
<1>3. Members' = Members
  BY <1>1 DEF Members
<1>4. ASSUME NEW c \in live'
      PROVE  RowAfter(w, c).access \subseteq Members
  <2>1. CASE c \in live
    BY <1>1, <1>2, <2>1, RowAfterFields
    DEF SerialInv, TypeInv, AccessOnlyForMembers, MembersOK
  <2>2. CASE c \notin live
    BY <1>1, <1>2, <1>4, <2>2, NewRow DEF MembersOK
  <2> QED BY <2>1, <2>2
<1> QED BY <1>1, <1>3, <1>4 DEF AccessOnlyForMembers

\* Fewer collections are within the quota, too.
LEMMA FewerWithinQuota ==
  ASSUME TypeOK, WithinCollectionQuota, live' \subseteq live
  PROVE  WithinCollectionQuota'
<1>1. IsFiniteSet(live)
  BY CollectionsAssumption, FS_Subset DEF TypeOK
<1>2. /\ Cardinality(live') <= Cardinality(live)
      /\ Cardinality(live') \in Nat /\ Cardinality(live) \in Nat
  BY <1>1, FS_Subset, FS_CardinalityType
<1> QED BY <1>2, CollectionsAssumption DEF WithinCollectionQuota

LEMMA CommitWithinQuota ==
  ASSUME SerialInv, NEW p \in Procs, Commit(p)
  PROVE  WithinCollectionQuota'
<1> DEFINE w == plan[p]
<1>1. live' = (live \cup {m.id : m \in w.make}) \ Cascade(w.drop)
  BY CommitShape DEF SerialInv
<1>2. QuotaOK(w)
  BY DEF SerialInv, PlansHold, Commit
<1> HIDE DEF w
<1>3. CASE w.make = {}
  BY <1>1, <1>3, FewerWithinQuota DEF SerialInv, TypeInv
<1>4. CASE w.make # {}
  <2>1. PICK id : \A m \in w.make : m.id = id
    BY <1>2, <1>4 DEF QuotaOK
  <2>2. live' \subseteq live \cup {id}
    BY <1>1, <2>1
  <2>3. IsFiniteSet(live) /\ IsFiniteSet(live \cup {id})
    BY CollectionsAssumption, FS_Subset, FS_AddElement DEF SerialInv, TypeInv, TypeOK
  <2>4. /\ Cardinality(live \cup {id}) <= Cardinality(live) + 1
        /\ Cardinality(live') <= Cardinality(live \cup {id})
        /\ Cardinality(live) \in Nat /\ Cardinality(live') \in Nat
        /\ Cardinality(live \cup {id}) \in Nat
    <3>1. /\ Cardinality(live) \in Nat /\ Cardinality(live \cup {id}) \in Nat
      BY <2>3, FS_CardinalityType
    <3>2. Cardinality(live \cup {id}) <= Cardinality(live) + 1
      BY <2>3, <3>1, FS_AddElement
    <3>3. IsFiniteSet(live') /\ Cardinality(live') <= Cardinality(live \cup {id})
      BY <2>2, <2>3, FS_Subset
    <3> QED BY <3>1, <3>2, <3>3, FS_CardinalityType
  <2>5. Quota > 0 => Cardinality(live) < Quota
    BY <1>2, <1>4 DEF QuotaOK, checkCollectionQuota
  <2>6. Quota > 0 => Cardinality(live') <= Quota
    BY <2>4, <2>5, CollectionsAssumption
  <2> QED BY <2>6 DEF WithinCollectionQuota
<1> QED BY <1>3, <1>4

\* A transaction begins: on SQLite, when no other is open.
LEMMA BeginSerial ==
  ASSUME SerialInv, NEW p \in Procs, Began(p), NoOpenTx
  PROVE  /\ TreeIsRooted' /\ AccessOnlyForMembers' /\ WithinCollectionQuota'
         /\ OneWriter' /\ PlansHold'
<1>1. PICK w \in Writes : Prepare(p, w) /\ MembersOK(w) /\ MovesOK(w) /\ QuotaOK(w)
  BY DEF Began
<1>2. UNCHANGED <<role, collections>> /\ plan' = [plan EXCEPT ![p] = w]
  BY <1>1 DEF Prepare
<1>3. \A q \in Procs : pc'[q] = "open" => q = p
  BY <1>1 DEF Prepare, NoOpenTx, SerialInv, TypeInv, TypeOK
<1>4. plan'[p] = w
  BY <1>2 DEF SerialInv, TypeInv, TypeOK
<1>5. MovesOK(w)' /\ MembersOK(w)' /\ QuotaOK(w)'
  BY <1>1, <1>2, SameTables
<1>6. PlansHold'
  <2> SUFFICES ASSUME NEW q \in Procs, pc'[q] = "open"
               PROVE  MovesOK(plan[q])' /\ MembersOK(plan[q])' /\ QuotaOK(plan[q])'
    BY DEF PlansHold
  <2>1. plan'[q] = w
    BY <1>3, <1>4
  <2> QED BY <1>5, <2>1 DEF MovesOK, MembersOK, QuotaOK
<1>7. OneWriter'
  BY <1>3 DEF OneWriter
<1> QED BY <1>2, <1>6, <1>7, SameTables DEF SerialInv

\* Nothing is open afterwards.
LEMMA NoneOpen ==
  ASSUME \A q \in Procs : pc'[q] # "open"
  PROVE  OneWriter' /\ PlansHold'
  BY DEF OneWriter, PlansHold

LEMMA NextSerial ==
  ASSUME Serial, SerialInv, [Next]_vars
  PROVE  SerialInv'
<1> DEFINE Goal == /\ TreeIsRooted' /\ AccessOnlyForMembers' /\ WithinCollectionQuota'
                   /\ OneWriter' /\ PlansHold'
<1>1. TypeInv'
  BY NextTypeInv DEF SerialInv
<1>2. ASSUME NEW p \in Procs, Tx(p)
      PROVE  Goal
  <2>1. NoOpenTx
    BY <1>2 DEF Tx, CreateCollectionTx, MoveCollectionTx, DeleteCollectionTx,
       UpdateCollectionAccessTx, RestoreFromTrashTx, PurgeTrashTx, Begin
  <2>2. Began(p)
    BY <1>2, TransactionsBegin DEF SerialInv, TypeInv
  <2> QED BY <2>1, <2>2, BeginSerial
<1>3. ASSUME NEW p \in Procs, Commit(p)
      PROVE  Goal
  <2>1. \A q \in Procs : pc'[q] # "open"
    BY <1>3 DEF Commit, Answer, SerialInv, OneWriter, TypeInv, TypeOK
  <2> QED BY <1>3, <2>1, CommitRooted, CommitAccess, CommitWithinQuota,
        NoneOpen
<1>4. ASSUME UNCHANGED <<role, collections>>,
             \A q \in Procs : pc'[q] = "open" => pc[q] = "open" /\ plan'[q] = plan[q]
      PROVE  Goal
  <2>1. PlansHold'
    <3> SUFFICES ASSUME NEW q \in Procs, pc'[q] = "open"
                 PROVE  MovesOK(plan[q])' /\ MembersOK(plan[q])' /\ QuotaOK(plan[q])'
      BY DEF PlansHold
    <3>1. /\ plan'[q] = plan[q]
          /\ MovesOK(plan[q]) /\ MembersOK(plan[q]) /\ QuotaOK(plan[q])
      BY <1>4 DEF SerialInv, PlansHold
    <3> QED BY <1>4, <3>1
        DEF MovesOK, MembersOK, QuotaOK, checkCollectionQuota, Line, Closed, Members, live
  <2>2. OneWriter'
    BY <1>4 DEF SerialInv, OneWriter
  <2> QED BY <1>4, <2>1, <2>2, SameTables DEF SerialInv
<1>5. ASSUME NEW p \in Procs, Call(p) \/ Drop(p)
      PROVE  Goal
  BY <1>4, <1>5 DEF Call, Drop, Answer, tables, SerialInv, TypeInv, TypeOK
<1>6. ASSUME UNCHANGED vars
      PROVE  Goal
  BY <1>4, <1>6 DEF vars, tables, request
<1>7. ASSUME NEW u \in Users, AddMember(u) \/ SetMemberRole(u)
      PROVE  Goal
  <2>1. \A q \in Procs : pc'[q] # "open"
    BY <1>7 DEF AddMember, SetMemberRole, request, NoOpenTx
  <2>2. collections' = collections /\ live' = live
    BY <1>7 DEF AddMember, SetMemberRole, live
  <2>3. Members \subseteq Members'
    BY <1>7, CollectionsAssumption
    DEF AddMember, SetMemberRole, Members, Roles, NoRole, SerialInv, TypeInv, TypeOK
  <2>4. TreeIsRooted'
    BY <2>2, FewerRooted DEF SerialInv
  <2>5. AccessOnlyForMembers'
    BY <2>2, <2>3 DEF SerialInv, AccessOnlyForMembers
  <2>6. WithinCollectionQuota'
    BY <2>2, FewerWithinQuota DEF SerialInv, TypeInv
  <2> QED BY <2>1, <2>4, <2>5, <2>6, NoneOpen
<1>8. ASSUME NEW S \in SUBSET Users, RemoveMember(S)
      PROVE  Goal
  <2>1. \A q \in Procs : pc'[q] # "open"
    BY <1>8 DEF RemoveMember, request, NoOpenTx
  <2>2. /\ live' \subseteq live
        /\ \A c \in live' : /\ collections'[c].parent = collections[c].parent
                            /\ collections'[c].access = collections[c].access \ S
    BY <1>8, LeavingRows DEF SerialInv, TypeInv
  <2>3. Members' = Members \ S
    BY <1>8 DEF RemoveMember, Members, SerialInv, TypeInv, TypeOK
  <2>4. TreeIsRooted'
    BY <2>2, FewerRooted DEF SerialInv
  <2>5. AccessOnlyForMembers'
    BY <2>2, <2>3 DEF SerialInv, AccessOnlyForMembers
  <2>6. WithinCollectionQuota'
    BY <2>2, FewerWithinQuota DEF SerialInv, TypeInv
  <2> QED BY <2>1, <2>4, <2>5, <2>6, NoneOpen
<1>9. ASSUME PurgeOldTrash
      PROVE  Goal
  <2>1. \A q \in Procs : pc'[q] # "open"
    BY <1>9 DEF PurgeOldTrash, request, NoOpenTx
  <2>2. live' \subseteq live /\ \A c \in live' : collections'[c] = collections[c]
    BY <1>9 DEF PurgeOldTrash, live
  <2>3. Members' = Members
    BY <1>9 DEF PurgeOldTrash, Members
  <2>4. TreeIsRooted'
    BY <2>2, FewerRooted DEF SerialInv
  <2>5. AccessOnlyForMembers'
    BY <2>2, <2>3 DEF SerialInv, AccessOnlyForMembers
  <2>6. WithinCollectionQuota'
    BY <2>2, FewerWithinQuota DEF SerialInv, TypeInv
  <2> QED BY <2>1, <2>4, <2>5, <2>6, NoneOpen
<1>10. Goal
  BY <1>2, <1>3, <1>5, <1>6, <1>7, <1>8, <1>9 DEF Next, Tx
<1> QED BY <1>1, <1>10 DEF SerialInv

LEMMA InitQuota == Init => WithinCollectionQuota
<1>1. Init => live = {}
  BY DEF Init, live
<1> QED BY <1>1, FS_EmptySet, CollectionsAssumption DEF WithinCollectionQuota

LEMMA InitSerial == Init => SerialInv
  BY InitTypeInv, InitQuota DEF Init, SerialInv, TreeIsRooted, AccessOnlyForMembers,
     OneWriter, PlansHold, live

\* "A collection cannot be moved into its own descendant": with transactions that
\* exclude each other, no moves and restores by any number of people close a
\* circle. (TLC shows that Serial is needed.)
THEOREM TreeStaysRooted ==
  ASSUME Serial
  PROVE  Spec => []TreeIsRooted
<1>1. SerialInv /\ [Next]_vars => SerialInv'
  BY NextSerial
<1>2. SerialInv => TreeIsRooted
  BY DEF SerialInv
<1> QED BY <1>1, <1>2, InitSerial, PTL DEF Spec

\* "Only members of the space can be given access", and nobody keeps it who left
\* while a request that gives it was under way: on SQLite.
THEOREM OnlyMembersHaveAccess ==
  ASSUME Serial
  PROVE  Spec => []AccessOnlyForMembers
<1>1. SerialInv /\ [Next]_vars => SerialInv'
  BY NextSerial
<1>2. SerialInv => AccessOnlyForMembers
  BY DEF SerialInv
<1> QED BY <1>1, <1>2, InitSerial, PTL DEF Spec

\* "A space can have at most %d collections", also when several people create some
\* at once: on SQLite.
THEOREM CollectionsStayWithinQuota ==
  ASSUME Serial
  PROVE  Spec => []WithinCollectionQuota
<1>1. SerialInv /\ [Next]_vars => SerialInv'
  BY NextSerial
<1>2. SerialInv => WithinCollectionQuota
  BY DEF SerialInv
<1> QED BY <1>1, <1>2, InitSerial, PTL DEF Spec
=============================================================================
