---------------------------- MODULE TrashProofs ----------------------------
(***************************************************************************)
(* Theorems about the trash of Collections, and about what members who     *)
(* leave take along: the action properties, for every set of members,      *)
(* collections and concurrent requests.                                    *)
(*                                                                         *)
(* A request decides in its transaction and writes at its commit. What is  *)
(* inductive on SQLite is that the plan of the open transaction is still   *)
(* what its handler would decide upon the tables as they are.              *)
(***************************************************************************)
EXTENDS CollectionsProofs

-----------------------------------------------------------------------------
(* More about lines.                                                       *)

LEMMA LineOfCollections == \A c : Line(c) \subseteq Collections
  BY DEF Line

\* Whatever is above something above c is above c.
LEMMA LineAbove ==
  ASSUME NEW c, NEW b \in Line(c), NEW a \in Line(b)
  PROVE  a \in Line(c)
  BY DEF Line

\* What is above c and is not c itself is above its parent, so c has one.
LEMMA LineBelowParent ==
  ASSUME TypeOK, NEW c \in Collections, NEW a \in Line(c), a # c
  PROVE  /\ c \in live /\ collections[c].parent # Top
         /\ a \in Line(collections[c].parent)
<1>1. c \in live /\ collections[c].parent # Top
  <2> SUFFICES ASSUME c \notin live \/ collections[c].parent = Top
               PROVE  FALSE
    OBVIOUS
  <2>1. Closed({c})
    BY DEF Closed
  <2> QED BY <2>1 DEF Line
<1> DEFINE q == collections[c].parent
<1>2. q \in Collections
  BY <1>1 DEF TypeOK
<1> HIDE DEF q
<1>3. ASSUME NEW S \in SUBSET Collections, q \in S, Closed(S)
      PROVE  a \in S
  <2>1. Closed(S \cup {c})
    BY <1>3 DEF Closed, q
  <2>2. a \in S \cup {c}
    BY <2>1 DEF Line
  <2> QED BY <2>2
<1>4. a \in Line(q)
  BY <1>3, LineOfCollections DEF Line
<1> QED BY <1>1, <1>4 DEF q

\* Two collections are not above each other.
LEMMA LinesEnd ==
  ASSUME TypeOK, TreeIsRooted, NEW a, NEW b, a \in Line(b), b \in Line(a)
  PROVE  a = b
<1> SUFFICES ASSUME a # b PROVE FALSE
  OBVIOUS
<1>1. a \in Collections /\ b \in Collections
  BY LineOfCollections
<1> DEFINE R == {x \in live : x \in Line(a) /\ a \in Line(x)}
<1>2. a \in R
  BY <1>1, LineBelowParent, SelfInLine
<1>3. ASSUME NEW x \in R
      PROVE  collections[x].parent \in R
  <2> DEFINE y == collections[x].parent
  <2>1. x \in Collections /\ x \in live
    BY DEF TypeOK
  <2>2. y # Top /\ a \in Line(y)
    <3>1. CASE x # a
      BY <2>1, <3>1, LineBelowParent
    <3>2. CASE x = a
      BY <1>1, <3>2, LineBelowParent, LineAbove
    <3> QED BY <3>1, <3>2
  <2>3. y \in live
    BY <2>1, <2>2 DEF TypeOK
  <2>4. y \in Line(a)
    BY <2>1, <2>2, LineIsClosed
  <2> QED BY <2>2, <2>3, <2>4
<1> QED BY <1>2, <1>3 DEF TreeIsRooted

\* Lines only get shorter when rows are deleted or go to the top level.
LEMMA LinesShorten ==
  ASSUME TypeOK, live' \subseteq live,
         \A c \in live' : collections'[c].parent \in {collections[c].parent, Top}
  PROVE  \A c : Line(c)' \subseteq Line(c)
<1>1. ASSUME NEW S \in SUBSET Collections, Closed(S)
      PROVE  Closed(S)'
  BY <1>1 DEF Closed
<1> QED BY <1>1 DEF Line

-----------------------------------------------------------------------------
(* Members who leave, on either database. What goes along is below a       *)
(* private collection that was open to the leaving member only, so it was  *)
(* hidden from everybody who stays.                                        *)

LEMMA LeavingTakesHidden ==
  ASSUME TypeOK, NEW S \in SUBSET Users, NEW v \in Users, RemoveMember(S),
         role'[v] # NoRole
  PROVE  live \ live' \subseteq hidden(v, FALSE)
<1>1. v \notin S
  BY DEF RemoveMember, TypeOK
<1> SUFFICES ASSUME NEW c \in live \ live' PROVE c \in hidden(v, FALSE)
  OBVIOUS
<1>2. c \in Cascade(Left(S))
  BY LeavingRows
<1>3. PICK u \in S : \E a : a \in Line(c) \cap Abandoned(AccessWithout({u}))
  BY <1>2 DEF Cascade, Left
<1>4. PICK a \in Line(c) \cap live : /\ collections[a].private
                                    /\ collections[a].access \ {u} = {}
  BY <1>3 DEF Abandoned, AccessWithout
<1>5. v \notin collections[a].access
  BY <1>1, <1>4
<1> QED BY <1>4, <1>5 DEF hidden

\* A member who leaves takes the private collections only they could see along,
\* with everything below them, and nothing another member sees (store/spaces.go,
\* RemoveMember), whatever requests are under way and whoever leaves at the same
\* time.
THEOREM LeavingTakesOnlyTheirOwn == Spec => LeavingTakesNothingSeen
<1> DEFINE Step == \A S \in SUBSET Users \ {{}}, v \in Users : RemoveMember(S) /\ role'[v] # NoRole =>
                     live \ live' \subseteq hidden(v, FALSE)
<1>1. TypeOK => Step
  BY LeavingTakesHidden
<1> HIDE DEF Step
<1>2. []TypeOK => [][Step]_vars
  BY <1>1, PTL
<1>3. [][Step]_vars => LeavingTakesNothingSeen
  BY DEF Step, LeavingTakesNothingSeen
<1> QED BY <1>2, <1>3, CollectionsTypeCorrect, PTL

-----------------------------------------------------------------------------
(* What the handlers of the trash decide upon. The plan w of the request j *)
(* is one its handler would still make of the tables as they are.          *)

\* It makes no row and gives no access.
TreeOnly(w) == w.make = {} /\ w.access = {}

DecidesDelete(j, w) ==
  /\ TreeOnly(w) /\ w.move = {} /\ w.drop = {} /\ w.hide = {j.collection}
  /\ Below(j.collection) \cap hidden(j.user, FALSE) = {}

DecidesPurge(j, w) ==
  /\ TreeOnly(w) /\ w.move = {} /\ w.hide = {} /\ w.drop = j.selection
  /\ mayPurge(j.user, j.selection)

DecidesRestore(j, w) ==
  /\ TreeOnly(w) /\ w.hide = {} /\ w.drop = {} /\ w.show = j.selection /\ w.parent = Top
  /\ trashSelection(j.user, j.selection)
  /\ BackToTop(j.selection, w.move)

Decided(j, w) ==
  /\ j.op = "DeleteCollection" => DecidesDelete(j, w)
  /\ j.op = "PurgeTrash" => DecidesPurge(j, w)
  /\ j.op = "RestoreFromTrash" => DecidesRestore(j, w)

PlansAreDecided == \A p \in Procs : pc[p] = "open" => Decided(job[p], plan[p])

DecidedInv == SerialInv /\ PlansAreDecided

\* It depends on the collections only.
LEMMA DecidedStands ==
  ASSUME collections' = collections, NEW j, NEW w, Decided(j, w)
  PROVE  Decided(j, w)'
<1>1. /\ live' = live /\ Trash' = Trash
      /\ \A c : Line(c)' = Line(c)
  BY DEF live, Trash, Line, Closed
<1>2. /\ \A c : Below(c)' = Below(c)
      /\ \A u : hidden(u, FALSE)' = hidden(u, FALSE)
  BY <1>1 DEF Below, hidden
<1>3. DecidesDelete(j, w) => DecidesDelete(j, w)'
  BY <1>2 DEF DecidesDelete, TreeOnly
<1>4. DecidesPurge(j, w) => DecidesPurge(j, w)'
  BY <1>2 DEF DecidesPurge, TreeOnly, mayPurge
<1>5. ASSUME NEW S, NEW moved
      PROVE  BackToTop(S, moved) => BackToTop(S, moved)'
  BY <1>1 DEF BackToTop, trashedAbove
<1>6. DecidesRestore(j, w) => DecidesRestore(j, w)'
  BY <1>1, <1>2, <1>5 DEF DecidesRestore, TreeOnly, trashSelection
<1> QED BY <1>3, <1>4, <1>6 DEF Decided

\* The transaction of p begins with a plan it decides upon.
Decides(p) == \E w \in Writes : Prepare(p, w) /\ Decided(job[p], w)

LEMMA DeleteCollectionDecides ==
  ASSUME TypeOK, NEW p \in Procs, DeleteCollectionTx(p)
  PROVE  Decides(p)
<1> DEFINE j == job[p]
           w == [NoWrites EXCEPT !.hide = {j.collection}]
<1>1. j.op = "DeleteCollection" /\ j.collection \in Collections
  BY BegunJob, JobFields DEF DeleteCollectionTx
<1>2. Prepare(p, w) /\ Below(j.collection) \cap hidden(j.user, FALSE) = {}
  BY DEF DeleteCollectionTx
<1> HIDE DEF j
<1>3. /\ w \in Writes
      /\ w.make = {} /\ w.move = {} /\ w.access = {} /\ w.drop = {}
      /\ w.hide = {j.collection}
  BY <1>1, NoWritesFields DEF Writes
<1> HIDE DEF w
<1>4. Decided(j, w)
  BY <1>1, <1>2, <1>3 DEF Decided, DecidesDelete, TreeOnly
<1> QED BY <1>2, <1>3, <1>4 DEF Decides, j

LEMMA PurgeTrashDecides ==
  ASSUME TypeOK, NEW p \in Procs, PurgeTrashTx(p)
  PROVE  Decides(p)
<1> DEFINE j == job[p]
           w == [NoWrites EXCEPT !.drop = j.selection]
<1>1. j.op = "PurgeTrash" /\ j.selection \subseteq Collections
  BY BegunJob, JobFields DEF PurgeTrashTx
<1>2. Prepare(p, w) /\ mayPurge(j.user, j.selection)
  BY DEF PurgeTrashTx
<1> HIDE DEF j
<1>3. /\ w \in Writes
      /\ w.make = {} /\ w.move = {} /\ w.access = {} /\ w.hide = {}
      /\ w.drop = j.selection
  BY <1>1, NoWritesFields DEF Writes, NoWrites
<1> HIDE DEF w
<1>4. Decided(j, w)
  BY <1>1, <1>2, <1>3 DEF Decided, DecidesPurge, TreeOnly
<1> QED BY <1>2, <1>3, <1>4 DEF Decides, j

LEMMA RestoreFromTrashDecides ==
  ASSUME TypeOK, NEW p \in Procs, RestoreFromTrashTx(p)
  PROVE  Decides(p)
<1> DEFINE j == job[p]
<1>1. j.op = "RestoreFromTrash" /\ j.selection \subseteq Collections
  BY BegunJob, JobFields DEF RestoreFromTrashTx
<1>2. PICK moved \in SUBSET j.selection :
        /\ BackToTop(j.selection, moved)
        /\ Prepare(p, [NoWrites EXCEPT !.show = j.selection, !.move = moved])
  BY DEF RestoreFromTrashTx
<1>3. trashSelection(j.user, j.selection)
  BY DEF RestoreFromTrashTx
<1> HIDE DEF j
<1> DEFINE w == [NoWrites EXCEPT !.show = j.selection, !.move = moved]
<1>4. Prepare(p, w) /\ moved \subseteq Collections
  BY <1>1, <1>2
<1>5. /\ w \in Writes
      /\ w.make = {} /\ w.access = {} /\ w.hide = {} /\ w.drop = {}
      /\ w.show = j.selection /\ w.move = moved /\ w.parent = Top
  BY <1>1, <1>4, NoWritesFields DEF Writes, NoWrites
<1> HIDE DEF w
<1>6. Decided(j, w)
  BY <1>1, <1>2, <1>3, <1>5 DEF Decided, DecidesRestore, TreeOnly
<1> QED BY <1>4, <1>5, <1>6 DEF Decides, j

\* The others write nothing that is bound to anything of this.
LEMMA OthersDecide ==
  ASSUME TypeOK, NEW p \in Procs,
         CreateCollectionTx(p) \/ MoveCollectionTx(p) \/ UpdateCollectionAccessTx(p)
  PROVE  Decides(p)
<1>1. PICK w \in Writes : Prepare(p, w)
  BY TransactionsBegin DEF Began, Tx
<1>2. job[p].op \notin {"DeleteCollection", "PurgeTrash", "RestoreFromTrash"}
  BY DEF CreateCollectionTx, MoveCollectionTx, UpdateCollectionAccessTx, Begin
<1> QED BY <1>1, <1>2 DEF Decides, Decided

\* A transaction begins, while no other is open.
LEMMA TxDecided ==
  ASSUME DecidedInv, NEW p \in Procs, Tx(p), NoOpenTx
  PROVE  PlansAreDecided'
<1>1. TypeOK
  BY DEF DecidedInv, SerialInv, TypeInv
<1>2. PICK w \in Writes : Prepare(p, w) /\ Decided(job[p], w)
  BY <1>1, DeleteCollectionDecides, PurgeTrashDecides, RestoreFromTrashDecides, OthersDecide
  DEF Tx, Decides
<1>3. collections' = collections /\ job' = job /\ plan'[p] = w
  BY <1>1, <1>2 DEF Prepare, TypeOK
<1>4. \A q \in Procs : pc'[q] = "open" => q = p
  BY <1>1, <1>2 DEF Prepare, NoOpenTx, TypeOK
<1> SUFFICES ASSUME NEW q \in Procs, pc'[q] = "open"
             PROVE  Decided(job[q], plan[q])'
  BY DEF PlansAreDecided
<1>5. job'[q] = job[p] /\ plan'[q] = w
  BY <1>3, <1>4
<1>6. \A j, v : Decided(j, v) => Decided(j, v)'
  BY <1>3, DecidedStands
<1>7. Decided(job[p], w)
  BY <1>2
<1> QED BY <1>5, <1>6, <1>7

LEMMA NextDecided ==
  ASSUME Serial, DecidedInv, [Next]_vars
  PROVE  DecidedInv'
<1>1. SerialInv' /\ TypeOK
  BY NextSerial DEF DecidedInv, SerialInv, TypeInv
<1>2. ASSUME NEW p \in Procs, Tx(p)
      PROVE  PlansAreDecided'
  <2>1. NoOpenTx
    BY <1>2 DEF Tx, CreateCollectionTx, MoveCollectionTx, DeleteCollectionTx,
       UpdateCollectionAccessTx, RestoreFromTrashTx, PurgeTrashTx, Begin
  <2> QED BY <1>2, <2>1, TxDecided
<1>3. ASSUME \A q \in Procs : pc'[q] # "open"
      PROVE  PlansAreDecided'
  BY <1>3 DEF PlansAreDecided
<1>4. ASSUME NEW p \in Procs, Commit(p)
      PROVE  PlansAreDecided'
  <2>1. \A q \in Procs : pc'[q] # "open"
    BY <1>1, <1>4 DEF Commit, Answer, DecidedInv, SerialInv, OneWriter, TypeOK
  <2> QED BY <1>3, <2>1
<1>5. ASSUME collections' = collections,
             \A q \in Procs : pc'[q] = "open" =>
               pc[q] = "open" /\ job'[q] = job[q] /\ plan'[q] = plan[q]
      PROVE  PlansAreDecided'
  <2> SUFFICES ASSUME NEW q \in Procs, pc'[q] = "open"
               PROVE  Decided(job[q], plan[q])'
    BY DEF PlansAreDecided
  <2>1. job'[q] = job[q] /\ plan'[q] = plan[q] /\ Decided(job[q], plan[q])
    BY <1>5 DEF DecidedInv, PlansAreDecided
  <2>2. \A j, w : Decided(j, w) => Decided(j, w)'
    BY <1>5, DecidedStands
  <2> QED BY <2>1, <2>2
<1>6. ASSUME NEW p \in Procs, Call(p) \/ Drop(p)
      PROVE  PlansAreDecided'
  BY <1>1, <1>5, <1>6 DEF Call, Drop, Answer, tables, TypeOK
<1>7. ASSUME UNCHANGED vars
      PROVE  PlansAreDecided'
  BY <1>5, <1>7 DEF vars, tables, request
<1>8. ASSUME \/ \E u \in Users : AddMember(u) \/ SetMemberRole(u)
             \/ \E S \in SUBSET Users : RemoveMember(S)
             \/ PurgeOldTrash
      PROVE  PlansAreDecided'
  <2>1. \A q \in Procs : pc'[q] # "open"
    BY <1>8 DEF AddMember, SetMemberRole, RemoveMember, PurgeOldTrash, request, NoOpenTx
  <2> QED BY <1>3, <2>1
<1>9. PlansAreDecided'
  BY <1>2, <1>4, <1>6, <1>7, <1>8 DEF Next, Tx
<1> QED BY <1>1, <1>9 DEF DecidedInv

\* When its transaction commits, a request of the trash finds the tables as they
\* were when it decided: on SQLite.
THEOREM TrashDecisionsStand ==
  ASSUME Serial
  PROVE  Spec => []DecidedInv
<1>1. Init => DecidedInv
  BY InitSerial DEF Init, DecidedInv, PlansAreDecided
<1>2. DecidedInv /\ [Next]_vars => DecidedInv'
  BY NextDecided
<1> QED BY <1>1, <1>2, PTL DEF Spec

-----------------------------------------------------------------------------
(* What commits of the trash do to the rows.                               *)

\* A commit that makes no rows and gives no access.
LEMMA TreeCommit ==
  ASSUME TypeInv, NEW p \in Procs, Commit(p), TreeOnly(plan[p])
  PROVE  LET w == plan[p] IN
         /\ w \in Writes
         /\ live' = live \ Cascade(w.drop)
         /\ \A c \in live' :
              /\ collections'[c].parent = IF c \in w.move THEN w.parent ELSE collections[c].parent
              /\ collections'[c].private = collections[c].private
              /\ collections'[c].access = collections[c].access
              /\ collections'[c].trashed <=>
                   (collections[c].trashed \/ c \in w.hide) /\ c \notin w.show
<1> DEFINE w == plan[p]
<1>1. /\ w \in Writes
      /\ live' = (live \cup {m.id : m \in w.make}) \ Cascade(w.drop)
      /\ \A c \in live' : collections'[c] = RowAfter(w, c)
  BY CommitShape
<1>2. w.make = {} /\ w.access = {}
  BY DEF TreeOnly
<1> HIDE DEF w
<1>3. live' = live \ Cascade(w.drop)
  BY <1>1, <1>2
<1>4. ASSUME NEW c \in live'
      PROVE  /\ collections'[c].parent = IF c \in w.move THEN w.parent ELSE collections[c].parent
             /\ collections'[c].private = collections[c].private
             /\ collections'[c].access = collections[c].access
             /\ collections'[c].trashed <=>
                  (collections[c].trashed \/ c \in w.hide) /\ c \notin w.show
  <2> DEFINE old == collections[c]
             parent == IF c \in w.move THEN w.parent ELSE old.parent
             trashed == (old.trashed \/ c \in w.hide) /\ c \notin w.show
             row == [old EXCEPT !.parent = parent, !.trashed = trashed]
  <2>1. c \in live /\ collections'[c] = RowAfter(w, c)
    BY <1>1, <1>3
  <2>2. RowAfter(w, c) = row
    BY <1>2, <2>1 DEF RowAfter, AccessAfter
  <2>3. old \in Row
    BY <2>1 DEF TypeInv, TypeOK
  <2> HIDE DEF old
  <2>4. parent \in Parents /\ trashed \in BOOLEAN
    BY <1>1, <2>3 DEF Row, Writes
  <2> HIDE DEF parent, trashed
  <2>5. /\ row.parent = parent /\ row.trashed = trashed
        /\ row.private = old.private /\ row.access = old.access
    BY <2>3 DEF Row
  <2> HIDE DEF row
  <2> QED BY <2>1, <2>2, <2>4, <2>5 DEF old, parent, trashed
<1> QED BY <1>1, <1>3, <1>4 DEF w

\* Nothing that is hidden from the user is below what goes to the trash.
LEMMA DeleteTakesNothingHidden ==
  ASSUME DecidedInv, NEW p \in Procs, Commit(p), job[p].op = "DeleteCollection",
         NEW d \in hidden(job[p].user, FALSE)
  PROVE  d \in live' /\ (InTrash(d)' => InTrash(d))
<1> DEFINE w == plan[p]
           c == job[p].collection
<1>1. DecidesDelete(job[p], w)
  BY DEF DecidedInv, PlansAreDecided, Decided, Commit
<1>2. w.move = {} /\ w.drop = {} /\ w.hide = {c} /\ TreeOnly(w)
  BY <1>1 DEF DecidesDelete
<1>3. /\ live' = live
      /\ \A a \in live' : /\ collections'[a].parent = collections[a].parent
                          /\ collections'[a].trashed => collections[a].trashed \/ a = c
  BY <1>2, TreeCommit, CascadeOfNothing DEF DecidedInv, SerialInv
<1>4. d \in live /\ c \notin Line(d)
  BY <1>1 DEF DecidesDelete, Below, hidden
<1>5. Line(d)' \subseteq Line(d)
  BY <1>3, LinesShorten DEF DecidedInv, SerialInv, TypeInv
<1> HIDE DEF w, c
<1>6. ASSUME NEW a, a \in Line(d)', a \in Trash'
      PROVE  a \in Line(d) \cap Trash
  BY <1>3, <1>4, <1>5, <1>6 DEF Trash
<1>7. InTrash(d)' => InTrash(d)
  BY <1>6 DEF InTrash
<1> QED BY <1>3, <1>4, <1>7

\* Nothing that is hidden from the user is below what is deleted for good.
LEMMA PurgeTakesNothingHidden ==
  ASSUME DecidedInv, NEW p \in Procs, Commit(p), job[p].op = "PurgeTrash",
         NEW d \in hidden(job[p].user, FALSE)
  PROVE  d \in live' /\ (InTrash(d)' => InTrash(d))
<1> DEFINE w == plan[p]
           S == job[p].selection
<1>1. DecidesPurge(job[p], w)
  BY DEF DecidedInv, PlansAreDecided, Decided, Commit
<1>2. w.move = {} /\ w.hide = {} /\ w.drop = S /\ TreeOnly(w)
  BY <1>1 DEF DecidesPurge
<1>3. /\ live' = live \ Cascade(S)
      /\ \A a \in live' : /\ collections'[a].parent = collections[a].parent
                          /\ collections'[a].trashed => collections[a].trashed
  BY <1>2, TreeCommit DEF DecidedInv, SerialInv
<1>4. d \in live /\ \A c \in S : c \notin Line(d)
  BY <1>1 DEF DecidesPurge, mayPurge, Below, hidden
<1>5. Line(d)' \subseteq Line(d)
  BY <1>3, LinesShorten DEF DecidedInv, SerialInv, TypeInv
<1> HIDE DEF w, S
<1>6. d \in live'
  BY <1>3, <1>4 DEF Cascade
<1>7. ASSUME NEW a, a \in Line(d)', a \in Trash'
      PROVE  a \in Line(d) \cap Trash
  BY <1>3, <1>5, <1>7 DEF Trash
<1>8. InTrash(d)' => InTrash(d)
  BY <1>7 DEF InTrash
<1> QED BY <1>6, <1>8

\* "Deleting would silently take other members' private collections with it"
\* (collections.go, DeleteCollection), "Never takes other members' private
\* collections along" (trash.go, PurgeTrash): what the handlers saw to in their
\* transaction is so at the commit, whoever restricts or moves collections
\* meanwhile: on SQLite.
THEOREM NothingHiddenIsTaken ==
  ASSUME Serial
  PROVE  Spec => TakesNothingHidden
<1> DEFINE Step == \A p \in Procs : Commit(p) /\ job[p].op \in {"DeleteCollection", "PurgeTrash"} =>
                     \A c \in hidden(job[p].user, FALSE) : c \in live' /\ (InTrash(c)' => InTrash(c))
<1>1. DecidedInv => Step
  BY DeleteTakesNothingHidden, PurgeTakesNothingHidden
<1> HIDE DEF Step
<1>2. []DecidedInv => [][Step]_vars
  BY <1>1, PTL
<1>3. [][Step]_vars => TakesNothingHidden
  BY DEF Step, TakesNothingHidden
<1> QED BY <1>2, <1>3, TrashDecisionsStand, PTL

-----------------------------------------------------------------------------
(* Restoring. The line of what came back ends at the top level or at the   *)
(* ancestor it went there with, and nothing on it is in the trash.         *)

\* Above c there is at most what is on the way to m once m went to the top level.
LEMMA LineToMoved ==
  ASSUME TypeOK, NEW w \in Writes, w.parent = Top, live' = live,
         \A d \in live : collections'[d].parent = IF d \in w.move THEN w.parent
                                                                  ELSE collections[d].parent,
         NEW c \in Collections, NEW m \in w.move, m \in Line(c)
  PROVE  Line(c)' \subseteq {x \in Line(c) : m \in Line(x)}
<1> DEFINE T == {x \in Line(c) : m \in Line(x)}
<1>1. c \in T /\ T \subseteq Collections
  BY SelfInLine, LineOfCollections
<1>2. ASSUME NEW d \in T \cap live
      PROVE  collections'[d].parent \in T \cup {Top}
  <2>1. CASE d \in w.move \/ collections[d].parent = Top
    BY <1>2, <2>1
  <2>2. CASE d \notin w.move /\ collections[d].parent # Top
    <3>1. collections[d].parent \in Line(c)
      BY <2>2, LineIsClosed
    <3>2. m # d
      BY <2>2
    <3>3. m \in Line(collections[d].parent)
      BY <1>1, <3>2, LineBelowParent
    <3> QED BY <1>2, <2>2, <3>1, <3>3
  <2> QED BY <2>1, <2>2
<1> HIDE DEF T
<1>3. PICK S \in SUBSET Collections : S = T
  BY <1>1
<1>4. Closed(S)'
  BY <1>2, <1>3 DEF Closed
<1>5. Line(c)' \subseteq S
  BY <1>1, <1>3, <1>4 DEF Line
<1> QED BY <1>3, <1>5 DEF T

LEMMA RestoreLines ==
  ASSUME DecidedInv, NEW p \in Procs, Commit(p), job[p].op = "RestoreFromTrash",
         NEW c \in job[p].selection
  PROVE  Line(c)' \cap Trash' = {}
<1> DEFINE w == plan[p]
           S == job[p].selection
           trash == Trash \ S
           stranded == {d \in S : trashedAbove(d, trash)}
<1>0. TypeOK /\ TreeIsRooted
  BY DEF DecidedInv, SerialInv, TypeInv
<1>1. DecidesRestore(job[p], w)
  BY DEF DecidedInv, PlansAreDecided, Decided, Commit
<1>2. /\ w.hide = {} /\ w.drop = {} /\ w.show = S /\ w.parent = Top /\ TreeOnly(w)
      /\ S \subseteq live
  BY <1>1 DEF DecidesRestore, trashSelection, Trash
<1>3. /\ w \in Writes
      /\ live' = live
      /\ \A d \in live : /\ collections'[d].parent = IF d \in w.move THEN w.parent
                                                                     ELSE collections[d].parent
                         /\ collections'[d].trashed <=> collections[d].trashed /\ d \notin S
  BY <1>2, TreeCommit, CascadeOfNothing DEF DecidedInv, SerialInv
<1>4. Trash' = trash
  BY <1>3 DEF Trash
<1>5. /\ w.move \subseteq stranded
      /\ \A d \in stranded \ w.move :
           \E m \in w.move : m \in Line(d) /\ (Line(d) \ Line(m)) \cap trash = {}
  BY <1>1 DEF DecidesRestore, BackToTop
<1>6. c \in Collections /\ c \notin trash
  BY <1>0, <1>2 DEF TypeOK
<1> HIDE DEF w, S
<1>7. CASE c \notin stranded
  <2>1. Line(c)' \subseteq Line(c)
    BY <1>0, <1>2, <1>3, LinesShorten
  <2>2. (Line(c) \ {c}) \cap trash = {}
    BY <1>7 DEF trashedAbove, S
  <2> QED BY <1>4, <1>6, <2>1, <2>2
<1>8. ASSUME NEW m \in w.move, m \in Line(c), (Line(c) \ Line(m)) \cap trash = {}
      PROVE  Line(c)' \cap Trash' = {}
  <2>1. Line(c)' \subseteq {x \in Line(c) : m \in Line(x)}
    BY <1>0, <1>2, <1>3, <1>6, <1>8, LineToMoved
  <2>2. m \notin trash
    BY <1>5
  <2>3. ASSUME NEW x \in Line(c), m \in Line(x), x \in trash
        PROVE  FALSE
    <3>1. x \in Line(m)
      BY <1>8, <2>3
    <3>2. x = m
      BY <1>0, <2>3, <3>1, LinesEnd
    <3> QED BY <2>2, <2>3, <3>2
  <2> QED BY <1>4, <2>1, <2>3
<1>9. CASE c \in w.move
  <2>1. c \in Line(c) /\ (Line(c) \ Line(c)) \cap trash = {}
    BY <1>6, SelfInLine
  <2> QED BY <1>8, <1>9, <2>1
<1>10. CASE c \in stranded \ w.move
  BY <1>5, <1>8, <1>10
<1> QED BY <1>7, <1>9, <1>10

LEMMA RestoreShows ==
  ASSUME DecidedInv, NEW p \in Procs, NEW u, Commit(p),
         job[p].op = "RestoreFromTrash", job[p].user = u
  PROVE  job[p].selection \cap hidden(u, TRUE)' = {}
<1> DEFINE w == plan[p]
           S == job[p].selection
<1>0. TypeOK
  BY DEF DecidedInv, SerialInv, TypeInv
<1>1. DecidesRestore(job[p], w)
  BY DEF DecidedInv, PlansAreDecided, Decided, Commit
<1>2. /\ w.drop = {} /\ w.parent = Top /\ TreeOnly(w)
      /\ S \subseteq live \ hidden(u, FALSE)
  BY <1>1 DEF DecidesRestore, trashSelection, Trash
<1>3. /\ live' = live
      /\ \A d \in live : /\ collections'[d].parent \in {collections[d].parent, Top}
                         /\ collections'[d].private = collections[d].private
                         /\ collections'[d].access = collections[d].access
  BY <1>2, TreeCommit, CascadeOfNothing DEF DecidedInv, SerialInv
<1>4. \A c : Line(c)' \subseteq Line(c)
  BY <1>0, <1>3, LinesShorten
<1>5. \A c \in S : Line(c)' \cap Trash' = {}
  BY RestoreLines
<1> HIDE DEF w
<1> SUFFICES ASSUME NEW c \in S, NEW a, a \in Line(c)', a \in live'
             PROVE  /\ ~(collections'[a].private /\ u \notin collections'[a].access)
                    /\ ~collections'[a].trashed
  BY DEF hidden
<1>6. a \in Line(c) /\ a \in live
  BY <1>3, <1>4
<1>7. ~(collections[a].private /\ u \notin collections[a].access)
  BY <1>2, <1>6 DEF hidden
<1>8. a \notin Trash'
  BY <1>5
<1> QED BY <1>3, <1>6, <1>7, <1>8 DEF Trash

\* "A collection whose parent is still in the trash would stay invisible"
\* (trash.go, RestoreFromTrash): whatever is restored in one go, in whatever order,
\* below whatever is restored or stays in the trash, its user sees all of it after
\* the commit: on SQLite. It needs that the tree is one.
THEOREM RestoringShowsAll ==
  ASSUME Serial
  PROVE  Spec => RestoredIsVisible
<1> DEFINE Step == \A p \in Procs, u \in Users :
                     Commit(p) /\ job[p].op = "RestoreFromTrash" /\ job[p].user = u =>
                       job[p].selection \cap hidden(u, TRUE)' = {}
<1>1. DecidedInv => Step
  BY RestoreShows
<1> HIDE DEF Step
<1>2. []DecidedInv => [][Step]_vars
  BY <1>1, PTL
<1>3. [][Step]_vars => RestoredIsVisible
  BY DEF Step, RestoredIsVisible
<1> QED BY <1>2, <1>3, TrashDecisionsStand, PTL
=============================================================================
