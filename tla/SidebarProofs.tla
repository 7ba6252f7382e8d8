---------------------------- MODULE SidebarProofs ----------------------------
(***************************************************************************)
(* Proofs that the tree beside a page is never that of another space once  *)
(* the answers are there, and that nothing but the PIN unlocks (Sidebar):  *)
(* for any spaces and collections, and any number of requests.             *)
(***************************************************************************)
EXTENDS Sidebar, TLAPS

\* A request for a tree is answered with that of the space it asked for.
GoodLoad == {r \in Load : r.phase = "answered" => r.tree.of = r.of} \cup {NoLoad}

\* What is not on the screen.
Rest ==
  /\ member \subseteq Spaces /\ made \subseteq Collections /\ locked \subseteq Collections
  /\ spaces \subseteq Spaces
  /\ unlocked \in BOOLEAN /\ renewing \in BOOLEAN
  /\ events \in 0..MaxEvents

\* The screen and its requests. The start page has none for a tree.
Screen ==
  /\ place \in Place \cup {Start}
  /\ ready \in BOOLEAN
  /\ asking \in Asking
  /\ tree \in Tree \cup {NoTree}
  /\ load \in [Loads -> GoodLoad]
  /\ place = Start => \A i \in Loads : load[i] = NoLoad
  /\ TreeOfOpenSpace

\* The inductive invariant.
Inv == Screen /\ Rest

LEMMA InvIsTyped == Inv => TypeOK
<1> SUFFICES ASSUME Inv
             PROVE  TypeOK
  OBVIOUS
<1>1. load \in [Loads -> Load \cup {NoLoad}]
  BY DEF Inv, Screen, GoodLoad
<1> QED BY <1>1 DEF Inv, Screen, Rest, TypeOK

-----------------------------------------------------------------------------
\* Places and requests.

LEMMA PlaceIsNotStart == \A p \in Place : p # Start /\ p.space # None /\ p.space \in Spaces
  BY SidebarAssumption DEF Place, Start

LEMMA AskType ==
  ASSUME NEW a \in Asking, NEW then \in SUBSET Thens
  PROVE  Ask(a, then) \in Asking
<1>1. CASE a.phase = "idle"
  BY <1>1 DEF Ask, Asking
<1>2. CASE a.phase # "idle"
  <2>1. a.then \cup then \in SUBSET Thens
    BY DEF Asking
  <2> QED BY <1>2, <2>1 DEF Ask, Asking
<1> QED BY <1>1, <1>2

LEMMA WithoutReady ==
  ASSUME NEW a \in Asking
  PROVE  [a EXCEPT !.then = @ \ {"ready"}] \in Asking
<1>1. a.then \ {"ready"} \in SUBSET Thens
  BY DEF Asking
<1> QED BY <1>1 DEF Asking

LEMMA NotAskingType == NotAsking \in Asking
  BY DEF NotAsking, Asking

\* A request that is under way stays where it is; the new one is for the space asked for.
LEMMA FetchedLoads ==
  ASSUME load \in [Loads -> GoodLoad], Free # {},
         NEW s \in Spaces, NEW with \in BOOLEAN, NEW then \in Collections \cup {None}
  PROVE  /\ Fetched(s, with, then) \in [Loads -> GoodLoad]
         /\ \E i \in Loads : /\ Fetched(s, with, then)[i].phase # "idle"
                             /\ Fetched(s, with, then)[i].of = s
<1> DEFINE i == CHOOSE j \in Free : TRUE
           r == [phase |-> "sent", of |-> s, with |-> with, tree |-> NoTree, then |-> then]
<1>1. i \in Loads
  BY DEF Free
<1>2. r \in GoodLoad /\ r.phase # "idle" /\ r.of = s
  BY DEF GoodLoad, Load
<1>3. Fetched(s, with, then) = [load EXCEPT ![i] = r]
  BY DEF Fetched
<1> HIDE DEF i, r
<1> QED BY <1>1, <1>2, <1>3

-----------------------------------------------------------------------------
\* What the actions do to the screen.

\* Everything on it stays, but for the request for the spaces.
LEMMA QuietScreen ==
  ASSUME Screen, UNCHANGED <<place, ready, tree, load>>, asking' \in Asking
  PROVE  Screen'
  BY DEF Screen, TreeOfOpenSpace

\* The tree of the space shown is asked for.
LEMMA FetchScreen ==
  ASSUME Screen, place # Start, Free # {}, UNCHANGED <<ready, tree>>,
         place' \in Place, place'.space = place.space, asking' \in Asking,
         NEW with \in BOOLEAN, NEW then \in Collections \cup {None},
         load' = Fetched(place.space, with, then)
  PROVE  Screen'
<1>1. place.space \in Spaces
  BY PlaceIsNotStart DEF Screen
<1>2. /\ load' \in [Loads -> GoodLoad]
      /\ \E i \in Loads : load'[i].phase # "idle" /\ load'[i].of = place.space
  BY <1>1, FetchedLoads DEF Screen
<1>3. TreeOfOpenSpace'
  BY <1>2 DEF TreeOfOpenSpace
<1>4. place' # Start
  BY PlaceIsNotStart
<1> QED BY <1>2, <1>3, <1>4 DEF Screen

LEMMA StartScreen ==
  ASSUME NEW a \in Asking, Screen, ShowStart(a)
  PROVE  Screen'
<1>1. asking' \in Asking
  <2>1. {"redirect"} \in SUBSET Thens
    BY DEF Thens
  <2> QED BY <2>1, AskType, WithoutReady DEF ShowStart
<1>2. load' \in [Loads -> GoodLoad] /\ \A i \in Loads : load'[i] = NoLoad
  BY DEF ShowStart, GoodLoad
<1>3. TreeOfOpenSpace'
  BY DEF ShowStart, TreeOfOpenSpace
<1> QED BY <1>1, <1>2, <1>3 DEF Screen, ShowStart

LEMMA SpaceScreen ==
  ASSUME NEW a \in Asking, NEW r \in BOOLEAN, NEW p \in Place, unlocked \in BOOLEAN,
         Screen, ShowSpace(p, r, a)
  PROVE  Screen'
<1>1. place' = p /\ p # Start /\ p.space \in Spaces
  BY PlaceIsNotStart DEF ShowSpace
<1>2. ready' \in BOOLEAN /\ tree' = tree
  BY DEF ShowSpace
<1>3. asking' \in Asking
  <2>1. {"ready"} \in SUBSET Thens
    BY DEF Thens
  <2> QED BY <2>1, AskType DEF ShowSpace
<1>4. CASE p.space = place.space
  <2>1. load' = load
    BY <1>4 DEF ShowSpace
  <2>2. place # Start
    BY <1>4, PlaceIsNotStart DEF Start
  <2>3. TreeOfOpenSpace'
    BY <1>1, <1>2, <1>4, <2>1, <2>2 DEF Screen, TreeOfOpenSpace
  <2> QED BY <1>1, <1>2, <1>3, <2>1, <2>3 DEF Screen
<1>5. CASE p.space # place.space
  <2>1. Free # {} /\ load' = Fetched(p.space, unlocked, None)
    BY <1>5 DEF ShowSpace
  <2>2. /\ load' \in [Loads -> GoodLoad]
        /\ \E i \in Loads : load'[i].phase # "idle" /\ load'[i].of = p.space
    BY <1>1, <2>1, FetchedLoads DEF Screen
  <2>3. TreeOfOpenSpace'
    BY <1>1, <2>2 DEF TreeOfOpenSpace
  <2> QED BY <1>1, <1>2, <1>3, <2>2, <2>3 DEF Screen
<1> QED BY <1>4, <1>5

LEMMA ShowScreen ==
  ASSUME NEW a \in Asking, NEW r \in BOOLEAN, NEW p \in Place \cup {Start},
         unlocked \in BOOLEAN, Screen, Show(p, r, a)
  PROVE  Screen'
<1>1. CASE p # Start
  BY <1>1, SpaceScreen DEF Show
<1>2. CASE p = Start /\ place # Start
  BY <1>2, StartScreen DEF Show
<1>3. CASE p = Start /\ place = Start
  <2>1. asking' = a /\ UNCHANGED <<place, ready, tree, load>>
    BY <1>3 DEF Show
  <2> QED BY <2>1, QuietScreen
<1> QED BY <1>1, <1>2, <1>3

\* Everything is loaded again, perhaps after leaving a collection that is hidden now.
LEMMA ReloadScreen ==
  ASSUME Screen, place # Start, UNCHANGED <<ready, tree>>, NEW with \in BOOLEAN,
         ReloadAll(with), place' \in Place, place'.space = place.space
  PROVE  Screen'
<1>1. asking' \in Asking
  BY AskType DEF ReloadAll, Screen
<1>2. Free # {} /\ load' = Fetched(place.space, with, None)
  BY DEF ReloadAll
<1> QED BY <1>1, <1>2, FetchScreen

LEMMA LeaveLockedPlace ==
  ASSUME Screen, place # Start, NEW hidden, LeaveLocked(hidden)
  PROVE  place' \in Place /\ place'.space = place.space
<1>1. place \in Place
  BY DEF Screen
<1>2. [place EXCEPT !.collection = None] \in Place
      /\ [place EXCEPT !.collection = None].space = place.space
  BY <1>1 DEF Place
<1> QED BY <1>1, <1>2 DEF LeaveLocked

-----------------------------------------------------------------------------
\* One lemma for each action.

LEMMA EventsType == ASSUME Rest, NEW e, Happens(e) PROVE events' \in 0..MaxEvents
  BY SidebarAssumption DEF Rest, Happens

LEMMA InitInv == Init => Inv
<1> SUFFICES ASSUME Init
             PROVE  Inv
  OBVIOUS
<1>1. asking \in Asking
  <2>1. {"redirect"} \in SUBSET Thens /\ {"ready"} \in SUBSET Thens
    BY DEF Thens
  <2> QED BY <2>1, AskType, NotAskingType DEF Init
<1>2. PICK i \in Loads :
        load = [j \in Loads |->
          IF j = i /\ place # Start
          THEN [phase |-> "sent", of |-> place.space, with |-> FALSE, tree |-> NoTree,
                then |-> None]
          ELSE NoLoad]
  BY DEF Init
<1>0. Rest
  <2>1. member \subseteq Spaces /\ made \subseteq Collections /\ locked \subseteq Collections
    BY DEF Init
  <2>2. events \in 0..MaxEvents
    BY SidebarAssumption DEF Init
  <2> QED BY <2>1, <2>2 DEF Init, Rest
<1>3. CASE place = Start
  <2>1. load = [j \in Loads |-> NoLoad]
    BY <1>2, <1>3
  <2>2. load \in [Loads -> GoodLoad] /\ \A j \in Loads : load[j] = NoLoad
    BY <2>1 DEF GoodLoad
  <2>3. TreeOfOpenSpace
    BY <1>3 DEF TreeOfOpenSpace
  <2>4. Screen
    BY <1>1, <2>2, <2>3 DEF Init, Screen
  <2> QED BY <1>0, <2>4 DEF Inv
<1>4. CASE place # Start
  <2>1. place.space \in Spaces
    BY <1>4, PlaceIsNotStart DEF Init
  <2>2. [phase |-> "sent", of |-> place.space, with |-> FALSE, tree |-> NoTree,
         then |-> None] \in GoodLoad
    BY <2>1 DEF GoodLoad, Load
  <2>3. load \in [Loads -> GoodLoad]
    BY <1>2, <2>2 DEF GoodLoad
  <2>4. TreeOfOpenSpace
    BY DEF Init, TreeOfOpenSpace, NoTree
  <2>5. Screen
    BY <1>1, <1>4, <2>3, <2>4 DEF Init, Screen
  <2> QED BY <1>0, <2>5 DEF Inv
<1> QED BY <1>3, <1>4

LEMMA NavigationInv == ASSUME Inv, Navigation PROVE Inv'
<1> USE DEF Inv
<1>1. ASSUME NEW p \in Place \cup {Start}, Show(p, ready, asking), Happens("navigate"),
             UNCHANGED <<server, spaces, lock>>
      PROVE  Inv'
  <2>1. Screen'
    BY <1>1, ShowScreen DEF Rest, Screen
  <2> QED BY <1>1, <2>1, EventsType DEF Rest, server, lock
<1>2. ASSUME NEW s \in Spaces, SelectSpace(s)
      PROVE  Inv'
  <2>1. [space |-> s, collection |-> None] \in Place
    BY DEF Place
  <2> QED BY <1>1, <1>2, <2>1 DEF SelectSpace
<1>3. ASSUME NEW c \in Collections, OpenCollection(c)
      PROVE  Inv'
  <2>1. PICK s \in {tree.of, place.space} :
          Show([space |-> s, collection |-> c], ready, asking)
    BY <1>3 DEF OpenCollection
  <2>2. tree \in Tree /\ place \in Place
    BY <1>3 DEF OpenCollection, Screen, NoTree
  <2>3. [space |-> s, collection |-> c] \in Place
    BY <2>2 DEF Tree, Place
  <2> QED BY <1>1, <1>3, <2>1, <2>3 DEF OpenCollection
<1>4. ASSUME NEW p \in Place \cup {Start}, FollowLink(p)
      PROVE  Inv'
  BY <1>1, <1>4 DEF FollowLink
<1> QED BY <1>2, <1>3, <1>4 DEF Navigation

LEMMA LeaveOutsideInv == ASSUME Inv, LeaveOutside PROVE Inv'
<1>1. Screen'
  BY StartScreen DEF Inv, Screen, LeaveOutside
<1> QED BY <1>1 DEF Inv, Rest, LeaveOutside, server, lock

LEMMA SpaceDoneInv == ASSUME Inv, NEW s \in Spaces, SpaceDone(s) PROVE Inv'
<1>1. asking' \in Asking
  <2>1. {s} \in SUBSET Thens
    BY DEF Thens
  <2> QED BY <2>1, AskType DEF SpaceDone, Inv, Screen
<1>2. Screen'
  BY <1>1, QuietScreen DEF SpaceDone, Inv
<1> QED BY <1>2, EventsType DEF Inv, Rest, SpaceDone, lock

LEMMA LeaveSpaceInv == ASSUME Inv, LeaveSpace PROVE Inv'
<1>1. asking' \in Asking
  <2>1. {"leave"} \in SUBSET Thens
    BY DEF Thens
  <2> QED BY <2>1, AskType DEF LeaveSpace, Inv, Screen
<1>2. Screen'
  BY <1>1, QuietScreen DEF LeaveSpace, Inv
<1> QED BY <1>2, EventsType DEF Inv, Rest, LeaveSpace, lock

LEMMA CreateCollectionInv ==
  ASSUME Inv, NEW c \in Collections, CreateCollection(c)
  PROVE  Inv'
<1>1. place # Start /\ place \in Place
  BY DEF CreateCollection, Permitted, Inv, Screen
<1>2. Screen'
  BY <1>1, FetchScreen DEF CreateCollection, Inv, Screen, Rest
<1> QED BY <1>2, EventsType DEF Inv, Rest, CreateCollection, lock

LEMMA ByOthersInv == ASSUME Inv, ByOthers PROVE Inv'
<1>1. Screen'
  BY QuietScreen DEF ByOthers, Inv, Screen
<1>2. member' \subseteq Spaces /\ made' \subseteq Collections /\ locked' \subseteq Collections
  BY DEF ByOthers, Inv, Rest
<1> QED BY <1>1, <1>2, EventsType DEF Inv, Rest, ByOthers, lock

LEMMA LockingInv == ASSUME Inv, Locking PROVE Inv'
<1>1. ASSUME NEW c \in Collections, LockCollection(c)
      PROVE  Inv'
  <2>1. place # Start
    BY <1>1 DEF LockCollection, Permitted
  <2>2. place' \in Place /\ place'.space = place.space
    BY <1>1, <2>1, LeaveLockedPlace DEF LockCollection, Inv
  <2>3. Screen'
    BY <1>1, <2>1, <2>2, ReloadScreen DEF LockCollection, Inv, Rest
  <2> QED BY <1>1, <2>3, EventsType DEF Inv, Rest, LockCollection, lock
<1>2. ASSUME NEW c \in Collections, UnlockCollection(c)
      PROVE  Inv'
  <2>1. place # Start /\ place \in Place
    BY <1>2 DEF UnlockCollection, Permitted, Inv, Screen
  <2>2. Screen'
    BY <1>2, <2>1, FetchScreen DEF UnlockCollection, Inv, Screen, Rest
  <2> QED BY <1>2, <2>2, EventsType DEF Inv, Rest, UnlockCollection, lock
<1>3. CASE Unlock
  <2>1. place # Start /\ place \in Place
    BY <1>3 DEF Unlock, Inv, Screen
  <2>2. Screen'
    BY <1>3, <2>1, ReloadScreen DEF Unlock, Inv
  <2> QED BY <1>3, <2>2, EventsType DEF Inv, Rest, Unlock, server
<1>4. ASSUME Locked
      PROVE  Screen'
  <2>1. CASE place # Start
    <3>1. place' \in Place /\ place'.space = place.space
      BY <1>4, <2>1, LeaveLockedPlace DEF Locked, Inv
    <3> QED BY <1>4, <2>1, <3>1, ReloadScreen DEF Locked, Inv
  <2>2. CASE place = Start
    BY <1>4, <2>2, QuietScreen DEF Locked, Inv, Screen
  <2> QED BY <2>1, <2>2
<1>5. CASE Lock
  BY <1>4, <1>5, EventsType DEF Inv, Rest, Lock, Locked, server
<1>6. CASE KeepUnlocked
  <2>1. Screen'
    BY <1>6, QuietScreen DEF KeepUnlocked, Inv, Screen
  <2> QED BY <1>6, <2>1 DEF Inv, Rest, KeepUnlocked, server
<1>7. CASE RenewalEnds
  <2>1. CASE Renewed /\ UNCHANGED <<server, place, spaces, ready, asking, tree, load>>
    <3>1. Screen'
      BY <2>1, QuietScreen DEF Inv, Screen
    <3> QED BY <1>7, <2>1, <3>1 DEF Inv, Rest, RenewalEnds, Renewed, server
  <2>2. CASE Locked
    BY <1>4, <1>7, <2>2 DEF Inv, Rest, RenewalEnds, Locked, server
  <2> QED BY <1>7, <2>1, <2>2 DEF RenewalEnds
<1> QED BY <1>1, <1>2, <1>3, <1>5, <1>6, <1>7 DEF Locking

LEMMA ReloadingInv == ASSUME Inv, RefreshCounters \/ Reload PROVE Inv'
<1>1. CASE RefreshCounters
  <2>1. place \in Place
    BY <1>1 DEF RefreshCounters, Inv, Screen
  <2>2. Screen'
    BY <1>1, <2>1, ReloadScreen DEF RefreshCounters, Inv, Rest
  <2> QED BY <1>1, <2>2 DEF Inv, Rest, RefreshCounters, server, lock
<1>2. CASE Reload
  <2>1. place # Start /\ place \in Place
    BY <1>2 DEF Reload, Inv, Screen
  <2>2. CASE Free # {} /\ load' = Fetched(place.space, unlocked, None) /\ UNCHANGED asking
    <3>1. Screen'
      BY <1>2, <2>1, <2>2, FetchScreen DEF Reload, Inv, Screen, Rest
    <3> QED BY <1>2, <3>1, EventsType DEF Inv, Rest, Reload, server, lock
  <2>3. CASE asking' = Ask(asking, {}) /\ UNCHANGED load
    <3>1. Screen'
      BY <1>2, <2>3, QuietScreen, AskType DEF Reload, Inv, Screen
    <3> QED BY <1>2, <3>1, EventsType DEF Inv, Rest, Reload, server, lock
  <2> QED BY <1>2, <2>2, <2>3 DEF Reload
<1> QED BY <1>1, <1>2
-----------------------------------------------------------------------------
\* Answers.

LEMMA SeenType ==
  ASSUME Rest, NEW s \in Spaces, NEW with \in BOOLEAN
  PROVE  Seen(s, with) \in Tree /\ Seen(s, with).of = s
<1>1. PICK has \in SUBSET Collections :
        Seen(s, with) = [of |-> s, has |-> has, locks |-> has \cap locked]
  <2> DEFINE has == {c \in made : Home[c] = s /\ (c \in locked => with)}
  <2>1. has \in SUBSET Collections
    BY DEF Rest
  <2>2. Seen(s, with) = [of |-> s, has |-> has, locks |-> has \cap locked]
    BY DEF Seen
  <2> QED BY <2>1, <2>2
<1> QED BY <1>1 DEF Tree

\* The request i moves on, but stays under way for the same space.
LEMMA LoadMovesOn ==
  ASSUME Screen, NEW i \in Loads, load[i] # NoLoad, NEW r \in GoodLoad, r # NoLoad,
         r.of = load[i].of, load' = [load EXCEPT ![i] = r],
         UNCHANGED <<place, ready, asking, tree>>
  PROVE  Screen'
<1>1. load' \in [Loads -> GoodLoad]
  BY DEF Screen
<1>2. r.phase # "idle"
  BY DEF GoodLoad, Load, NoLoad
<1>3. TreeOfOpenSpace'
  <2> SUFFICES ASSUME place # Start, tree.of \notin {place.space, None}
               PROVE  \E j \in Loads : load'[j].phase # "idle" /\ load'[j].of = place.space
    BY DEF TreeOfOpenSpace
  <2>1. PICK j \in Loads : load[j].phase # "idle" /\ load[j].of = place.space
    BY DEF Screen, TreeOfOpenSpace
  <2>2. CASE j = i
    BY <1>2, <2>1, <2>2 DEF Screen
  <2>3. CASE j # i
    BY <2>1, <2>3 DEF Screen
  <2> QED BY <2>2, <2>3
<1>4. place # Start
  BY DEF Screen
<1> QED BY <1>1, <1>3, <1>4 DEF Screen

\* The request i is over.
LEMMA LoadEnds ==
  ASSUME Screen, NEW i \in Loads, load' = [load EXCEPT ![i] = NoLoad], place # Start,
         place' \in Place, place'.space = place.space, ready' = ready, asking' \in Asking,
         tree' \in Tree \cup {NoTree},
         \/ tree'.of \in {place.space, None}
         \/ tree' = tree /\ load[i].of # place.space
  PROVE  Screen'
<1>1. load' \in [Loads -> GoodLoad]
  BY DEF Screen, GoodLoad
<1>2. place' # Start
  BY PlaceIsNotStart
<1>3. TreeOfOpenSpace'
  <2> SUFFICES ASSUME tree'.of \notin {place.space, None}
               PROVE  \E j \in Loads : load'[j].phase # "idle" /\ load'[j].of = place.space
    BY DEF TreeOfOpenSpace
  <2>1. PICK j \in Loads : load[j].phase # "idle" /\ load[j].of = place.space
    BY DEF Screen, TreeOfOpenSpace
  <2>2. j # i
    BY <2>1
  <2> QED BY <2>1, <2>2 DEF Screen
<1> QED BY <1>1, <1>2, <1>3 DEF Screen

LEMMA RunningLoad ==
  ASSUME Screen, NEW i \in Loads, load[i].phase \in {"sent", "answered", "failed"}
  PROVE  /\ load[i] # NoLoad /\ load[i] \in Load
         /\ load[i].phase = "answered" => load[i].tree.of = load[i].of
         /\ place # Start /\ place \in Place
<1>1. load[i] # NoLoad
  BY DEF NoLoad
<1> QED BY <1>1 DEF Screen, GoodLoad

LEMMA ServeTreeInv == ASSUME Inv, NEW i \in Loads, ServeTree(i) PROVE Inv'
<1>1. load[i] # NoLoad /\ load[i] \in Load
  BY RunningLoad DEF ServeTree, Inv
<1>2. CASE load[i].of \in member
  <2> DEFINE t == Seen(load[i].of, load[i].with)
             r == [load[i] EXCEPT !.phase = "answered", !.tree = t]
  <2>1. t \in Tree /\ t.of = load[i].of
    BY <1>1, SeenType DEF Inv, Load
  <2>2. r \in GoodLoad /\ r # NoLoad /\ r.of = load[i].of
    <3> HIDE DEF t
    <3> QED BY <1>1, <2>1 DEF GoodLoad, Load, NoLoad
  <2>3. load' = [load EXCEPT ![i] = r]
    BY <1>2 DEF ServeTree, Inv, Screen
  <2>4. Screen'
    <3> HIDE DEF r
    <3> QED BY <1>1, <2>2, <2>3, LoadMovesOn DEF ServeTree, Inv
  <2> QED BY <2>4 DEF Inv, Rest, ServeTree, server, lock
<1>3. CASE load[i].of \notin member
  <2> DEFINE r == [load[i] EXCEPT !.phase = "failed"]
  <2>1. r \in GoodLoad /\ r # NoLoad /\ r.of = load[i].of
    BY <1>1 DEF GoodLoad, Load, NoLoad
  <2>2. load' = [load EXCEPT ![i] = r]
    BY <1>3 DEF ServeTree, Inv, Screen
  <2>3. Screen'
    <3> HIDE DEF r
    <3> QED BY <1>1, <2>1, <2>2, LoadMovesOn DEF ServeTree, Inv
  <2> QED BY <2>3 DEF Inv, Rest, ServeTree, server, lock
<1> QED BY <1>2, <1>3

LEMMA LoseTreeInv == ASSUME Inv, NEW i \in Loads, LoseTree(i) PROVE Inv'
<1> DEFINE r == [load[i] EXCEPT !.phase = "failed", !.tree = NoTree]
<1>1. load[i] # NoLoad /\ load[i] \in Load
  BY RunningLoad DEF LoseTree, Inv
<1>2. r \in GoodLoad /\ r # NoLoad /\ r.of = load[i].of
  BY <1>1 DEF GoodLoad, Load, NoLoad
<1>3. load' = [load EXCEPT ![i] = r]
  BY DEF LoseTree, Inv, Screen
<1>4. Screen'
  <2> HIDE DEF r
  <2> QED BY <1>1, <1>2, <1>3, LoadMovesOn DEF LoseTree, Inv
<1> QED BY <1>4, EventsType DEF Inv, Rest, LoseTree, server, lock

LEMMA ReceiveTreeInv == ASSUME Inv, NEW i \in Loads, ReceiveTree(i) PROVE Inv'
<1>1. /\ load[i] \in Load /\ load[i].tree.of = load[i].of
      /\ place # Start /\ place \in Place
  BY RunningLoad DEF ReceiveTree, Inv
<1>2. place' \in Place /\ place'.space = place.space
  <2>1. load[i].then \in Collections \cup {None}
    BY <1>1 DEF Load
  <2> QED BY <1>1, <2>1 DEF ReceiveTree, Place
<1>3. tree' \in Tree \cup {NoTree}
  BY <1>1 DEF ReceiveTree, TreeAfter, Load, Inv, Screen
<1>4. \/ tree'.of \in {place.space, None}
      \/ tree' = tree /\ load[i].of # place.space
  BY <1>1 DEF ReceiveTree, TreeAfter
<1>5. Screen'
  BY <1>1, <1>2, <1>3, <1>4, LoadEnds DEF ReceiveTree, Inv, Screen
<1> QED BY <1>5 DEF Inv, Rest, ReceiveTree, server, lock

LEMMA TreeFailsInv == ASSUME Inv, NEW i \in Loads, TreeFails(i) PROVE Inv'
<1>1. load[i] \in Load /\ place # Start /\ place \in Place
  BY RunningLoad DEF TreeFails, Inv
<1>2. asking' \in Asking
  <2>1. Waiting(load[i]) \in SUBSET Thens
    BY <1>1 DEF Waiting, Load, Thens
  <2> QED BY <2>1, AskType DEF TreeFails, Inv, Screen
<1>3. tree' \in Tree \cup {NoTree} /\ tree'.of = None
  BY DEF TreeFails, NoTree
<1>4. Screen'
  BY <1>1, <1>2, <1>3, LoadEnds DEF TreeFails, Inv
<1> QED BY <1>4 DEF Inv, Rest, TreeFails, server, lock

LEMMA ServeSpacesInv == ASSUME Inv, ServeSpaces PROVE Inv'
<1>1. asking' \in Asking
  BY DEF ServeSpaces, Asking, Inv, Screen, Rest
<1>2. Screen'
  BY <1>1, QuietScreen DEF ServeSpaces, Inv
<1> QED BY <1>2 DEF Inv, Rest, ServeSpaces, server, lock

LEMMA ReceiveSpacesInv == ASSUME Inv, ReceiveSpaces PROVE Inv'
<1>1. PICK p \in IF Goals = {} THEN {place} ELSE Goals :
        Show(p, ready \/ "ready" \in asking.then, NotAsking)
  BY DEF ReceiveSpaces
<1>2. p \in Place \cup {Start}
  <2>1. ASSUME NEW q \in Goals
        PROVE  q \in Place \cup {Start}
    BY <2>1 DEF Goals, Goal
  <2> QED BY <2>1 DEF Inv, Screen
<1>3. (ready \/ "ready" \in asking.then) \in BOOLEAN
  OBVIOUS
<1>4. Screen'
  BY <1>1, <1>2, <1>3, ShowScreen, NotAskingType DEF Inv, Rest
<1>5. spaces' \subseteq Spaces
  BY DEF ReceiveSpaces, Inv, Screen, Asking
<1> QED BY <1>4, <1>5 DEF Inv, Rest, ReceiveSpaces, server, lock

LEMMA LoseSpacesInv == ASSUME Inv, LoseSpaces PROVE Inv'
<1>1. Screen'
  BY QuietScreen, NotAskingType DEF LoseSpaces, Inv
<1> QED BY <1>1, EventsType DEF Inv, Rest, LoseSpaces, server, lock

LEMMA TryAgainInv == ASSUME Inv, TryAgain PROVE Inv'
<1>1. {"redirect"} \in SUBSET Thens
  BY DEF Thens
<1>2. Screen'
  BY <1>1, QuietScreen, AskType DEF TryAgain, Inv, Screen
<1> QED BY <1>2 DEF Inv, Rest, TryAgain, server, lock

-----------------------------------------------------------------------------
LEMMA NextInv == Inv /\ [Next]_vars => Inv'
<1> SUFFICES ASSUME Inv, [Next]_vars
             PROVE  Inv'
  OBVIOUS
<1>1. CASE Navigation \/ Locking \/ LeaveOutside
  BY <1>1, NavigationInv, LockingInv, LeaveOutsideInv
<1>2. ASSUME NEW s \in Spaces, SpaceDone(s)
      PROVE  Inv'
  BY <1>2, SpaceDoneInv
<1>3. ASSUME NEW c \in Collections, CreateCollection(c)
      PROVE  Inv'
  BY <1>3, CreateCollectionInv
<1>4. CASE LeaveSpace \/ ByOthers \/ RefreshCounters \/ Reload \/ TryAgain
  BY <1>4, LeaveSpaceInv, ByOthersInv, ReloadingInv, TryAgainInv
<1>5. ASSUME NEW i \in Loads, TreeAnswer(i) \/ LoseTree(i)
      PROVE  Inv'
  BY <1>5, ServeTreeInv, ReceiveTreeInv, TreeFailsInv, LoseTreeInv DEF TreeAnswer
<1>6. CASE SpacesAnswer \/ LoseSpaces
  BY <1>6, ServeSpacesInv, ReceiveSpacesInv, LoseSpacesInv DEF SpacesAnswer
<1>7. CASE UNCHANGED vars
  BY <1>7, QuietScreen DEF vars, server, lock, Inv, Screen, Rest
<1> QED BY <1>1, <1>2, <1>3, <1>4, <1>5, <1>6, <1>7 DEF Next

LEMMA Invariance == Spec => []Inv
  BY InitInv, NextInv, PTL DEF Spec

-----------------------------------------------------------------------------
\* The list of spaces, the tree, the lock and their requests keep their types
\* (AuthLayout, SpaceRedirect, the stores spaces and lock).
THEOREM SidebarTypeCorrect == Spec => []TypeOK
  BY Invariance, InvIsTyped, PTL

\* The tree is not that of another space unless an answer is still missing, however
\* often somebody switched and in whatever order answers came (loadCollections).
THEOREM TreeIsOfOpenSpace == Spec => []TreeOfOpenSpace
<1>1. Inv => TreeOfOpenSpace
  BY DEF Inv, Screen
<1> QED BY <1>1, Invariance, PTL

\* Nothing but the PIN unlocks: no renewal of the unlock token that was under way when
\* it was locked (keepUnlocked).
THEOREM OnlyPinUnlocks == Spec => UnlockedByPin
<1>1. Inv /\ [Next]_vars => [~unlocked /\ unlocked' => events' # events]_vars
  <2> SUFFICES ASSUME Inv, Next, ~unlocked, unlocked'
               PROVE  events' # events
    BY DEF vars, lock
  <2>1. CASE Unlock
    BY <2>1 DEF Unlock, Happens, Inv, Rest
  <2>2. ASSUME NEW c \in Collections, LockCollection(c) \/ UnlockCollection(c)
        PROVE  FALSE
    BY <2>2 DEF LockCollection, UnlockCollection, lock
  <2>3. CASE Lock \/ KeepUnlocked \/ RenewalEnds
    BY <2>3 DEF Lock, Locked, KeepUnlocked, RenewalEnds, Renewed
  <2>4. CASE Navigation \/ LeaveOutside \/ LeaveSpace \/ ByOthers
    BY <2>4 DEF Navigation, SelectSpace, OpenCollection, FollowLink, LeaveOutside, LeaveSpace,
                ByOthers, lock
  <2>5. CASE RefreshCounters \/ Reload \/ TryAgain \/ SpacesAnswer \/ LoseSpaces
    BY <2>5 DEF RefreshCounters, Reload, TryAgain, SpacesAnswer, ServeSpaces, ReceiveSpaces,
                LoseSpaces, lock
  <2>6. ASSUME NEW i \in Loads, TreeAnswer(i) \/ LoseTree(i)
        PROVE  FALSE
    BY <2>6 DEF TreeAnswer, ServeTree, ReceiveTree, TreeFails, LoseTree, lock
  <2>7. CASE \/ \E s \in Spaces : SpaceDone(s)
             \/ \E c \in Collections : CreateCollection(c)
    BY <2>7 DEF SpaceDone, CreateCollection, lock
  <2> QED BY <2>1, <2>2, <2>3, <2>4, <2>5, <2>6, <2>7 DEF Next, Locking
<1> QED BY <1>1, Invariance, PTL DEF Spec, UnlockedByPin
=============================================================================
