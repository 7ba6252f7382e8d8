------------------------------ MODULE Sidebar -------------------------------
(***************************************************************************)
(* What somebody sees of their spaces while others change them: the list   *)
(* of spaces (stores/spaces.svelte.ts), the tree of collections beside     *)
(* every page (layouts/AuthLayout.svelte), the start page that opens a     *)
(* space (pages/SpaceRedirect.svelte), and the lock that hides collections *)
(* until the PIN is entered (stores/lock.svelte.ts).                       *)
(*                                                                         *)
(* All of it is a copy of what the server has, fetched again whenever      *)
(* something happens and every minute. Answers arrive in any order, late,  *)
(* or not at all. One request for the spaces serves all who wait for them; *)
(* every request for a tree is one of its own.                             *)
(*                                                                         *)
(* Collections of one space stand side by side, each for all that is below *)
(* it. Effects run in the step that changed what they depend on, but for   *)
(* leaving a space that is not in the list, which takes its time. Left     *)
(* out: panels, menus, search box, preferences, which space is opened      *)
(* first, the answers to a layout that is gone.                            *)
(***************************************************************************)
EXTENDS Integers, FiniteSets

CONSTANTS
  Spaces, Collections,
  Home,       \* [Collections -> Spaces]: where each collection is
  Loads,      \* bound: requests for a tree under way
  Events,     \* which events happen
  MaxEvents,  \* bound: how many events happen
  None

ASSUME SidebarAssumption ==
  /\ Home \in [Collections -> Spaces]
  /\ None \notin Spaces \cup Collections
  /\ MaxEvents \in Nat

VARIABLES
  member,    \* server: the spaces the account is a member of
  made,      \* server: the collections there are
  locked,    \* server: those the account has locked for itself
  place,     \* the page shown
  spaces,    \* session.spaces
  ready,     \* spacesReady of the layout
  asking,    \* loading: the request for the spaces
  tree,      \* menuTree
  load,      \* the requests for a tree under way
  unlocked,  \* lockState.unlocked: requests carry the unlock token
  renewing,  \* the unlock token is being renewed
  events     \* history: how many events there were

server == <<member, made, locked>>
lock   == <<unlocked, renewing>>
vars   == <<server, place, spaces, ready, asking, tree, load, lock, events>>

\* A space with one of its collections open, or not; or the start page, "/".
Place == [space : Spaces, collection : Collections \cup {None}]
Start == [space |-> None, collection |-> None]

\* What happens once the spaces are there: the layout trusts them, the start page
\* opens one, a space just made, joined or left, a collection just made is shown.
Thens == {"ready", "redirect", "leave"} \cup Spaces \cup Collections

Asking == [phase : {"idle", "sent", "answered"}, list : SUBSET Spaces, then : SUBSET Thens]
NotAsking == [phase |-> "idle", list |-> {}, then |-> {}]

\* A tree, the space it is of (None for an empty one), and which of its collections it
\* shows as locked.
Tree == [of : Spaces, has : SUBSET Collections, locks : SUBSET Collections]
NoTree == [of |-> None, has |-> {}, locks |-> {}]

\* with: it carried the unlock token. then: the collection to open afterwards.
Load == [phase : {"sent", "answered", "failed"}, of : Spaces, with : BOOLEAN,
         tree : Tree \cup {NoTree}, then : Collections \cup {None}]
NoLoad == [phase |-> "idle"]

\* Types of all variables.
TypeOK ==
  /\ member \subseteq Spaces /\ made \subseteq Collections /\ locked \subseteq Collections
  /\ place \in Place \cup {Start}
  /\ spaces \subseteq Spaces
  /\ asking \in Asking
  /\ tree \in Tree \cup {NoTree}
  /\ load \in [Loads -> Load \cup {NoLoad}]
  /\ ready \in BOOLEAN /\ unlocked \in BOOLEAN /\ renewing \in BOOLEAN
  /\ events \in 0..MaxEvents

-----------------------------------------------------------------------------
\* Requests.

\* loadSpaces: whoever asks while a request is under way waits for that one.
Ask(a, then) ==
  IF a.phase = "idle" THEN [phase |-> "sent", list |-> {}, then |-> then]
  ELSE [a EXCEPT !.then = @ \cup then]

\* loadCollections sends a request for the tree of the space s.
Free == {i \in Loads : load[i].phase = "idle"}
Fetched(s, with, then) ==
  [load EXCEPT ![CHOOSE i \in Free : TRUE] =
     [phase |-> "sent", of |-> s, with |-> with, tree |-> NoTree, then |-> then]]

\* What the server answers: a collection the account has locked only with the token.
Seen(s, with) ==
  LET has == {c \in made : Home[c] = s /\ (c \in locked => with)}
  IN  [of |-> s, has |-> has, locks |-> has \cap locked]

\* Init: a page opened with the address of a space, one of its collections,
\* or none; locked, as after a restart of the browser.
Init ==
  /\ member \in SUBSET Spaces
  /\ made \in SUBSET Collections /\ locked \in SUBSET made
  /\ place \in Place \cup {Start}
  /\ place.collection # None => place.space = Home[place.collection]
  /\ spaces = {} /\ ready = FALSE
  /\ tree = NoTree
  /\ asking = Ask(NotAsking, IF place = Start THEN {"redirect"} ELSE {"ready"})
  /\ \E i \in Loads :
       load = [j \in Loads |->
         IF j = i /\ place # Start
         THEN [phase |-> "sent", of |-> place.space, with |-> FALSE, tree |-> NoTree,
               then |-> None]
         ELSE NoLoad]
  /\ unlocked = FALSE /\ renewing = FALSE
  /\ events = 0

-----------------------------------------------------------------------------
\* Showing a page.

\* The start page asks for the spaces and opens one of them (init of SpaceRedirect).
ShowStart(a) ==
  /\ place' = Start
  /\ ready' = FALSE
  /\ tree' = NoTree
  /\ load' = [i \in Loads |-> NoLoad]
  /\ asking' = Ask([a EXCEPT !.then = @ \ {"ready"}], {"redirect"})

\* The page p of a space. A layout that is mounted for it asks for the spaces, and
\* trusts none it finds; another space has its tree fetched.
ShowSpace(p, r, a) ==
  LET mounts == place = Start
  IN  /\ place' = p
      /\ ready' = (r /\ ~mounts)
      /\ asking' = IF mounts THEN Ask(a, {"ready"}) ELSE a
      /\ IF p.space = place.space THEN UNCHANGED load
         ELSE Free # {} /\ load' = Fetched(p.space, unlocked, None)
      /\ UNCHANGED tree

Show(p, r, a) ==
  CASE p # Start                    -> ShowSpace(p, r, a)
    [] p = Start /\ place # Start   -> ShowStart(a)
    [] p = Start /\ place = Start   -> asking' = a /\ UNCHANGED <<place, ready, tree, load>>

\* Mutant of Outside: only while there is another space to show.
OutsideOfSome == ready /\ place # Start /\ spaces # {} /\ place.space \notin spaces

\* "Leave spaces the user is no longer a member of" (the effect on activeSpace).
Outside == ready /\ place # Start /\ place.space \notin spaces

LeaveOutside ==
  /\ Outside
  /\ ShowStart(asking)
  /\ UNCHANGED <<server, spaces, lock, events>>

Happens(e) == e \in Events /\ events < MaxEvents /\ events' = events + 1

\* A space of the space bar or of the quick switcher.
SelectSpace(s) ==
  /\ Happens("navigate")
  /\ place # Start /\ s \in spaces
  /\ Show([space |-> s, collection |-> None], ready, asking)
  /\ UNCHANGED <<server, spaces, lock>>

\* A collection of the tree, which links to the space it was loaded for, or of the quick
\* switcher, which opens it in the space shown now.
OpenCollection(c) ==
  /\ Happens("navigate")
  /\ place # Start /\ c \in tree.has
  /\ \E s \in {tree.of, place.space} : Show([space |-> s, collection |-> c], ready, asking)
  /\ UNCHANGED <<server, spaces, lock>>

\* A link, a bookmark of the browser, or the history leads to any page.
FollowLink(p) ==
  /\ Happens("navigate")
  /\ p.collection # None => p.space = Home[p.collection]
  /\ Show(p, ready, asking)
  /\ UNCHANGED <<server, spaces, lock>>

-----------------------------------------------------------------------------
\* What people do, this one and the others.

Permitted == place # Start /\ place.space \in member

\* A space was created or joined: it is opened when the spaces are there
\* (handleSpaceDone, openSpace).
SpaceDone(s) ==
  /\ Happens("spaces")
  /\ s \notin member
  /\ member' = member \cup {s}
  /\ asking' = Ask(asking, {s})
  /\ UNCHANGED <<made, locked, place, spaces, ready, tree, load, lock>>

LeaveSpace ==
  /\ Happens("spaces")
  /\ Permitted
  /\ member' = member \ {place.space}
  /\ asking' = Ask(asking, {"leave"})
  /\ UNCHANGED <<made, locked, place, spaces, ready, tree, load, lock>>

\* The new collection is opened when the tree is there (handleCreateCollection).
CreateCollection(c) ==
  /\ Happens("create")
  /\ Permitted /\ Free # {}
  /\ c \notin made /\ Home[c] = place.space
  /\ made' = made \cup {c}
  /\ load' = Fetched(place.space, unlocked, c)
  /\ UNCHANGED <<member, locked, place, spaces, ready, asking, tree, lock>>

\* Another member creates or deletes a collection; somebody removes this one, or makes
\* them a member.
ByOthers ==
  /\ Happens("others")
  /\ \/ \E c \in Collections :
          /\ made' = IF c \in made THEN made \ {c} ELSE made \cup {c}
          /\ locked' = locked \ {c}
          /\ UNCHANGED member
     \/ \E s \in Spaces :
          /\ member' = IF s \in member THEN member \ {s} ELSE member \cup {s}
          /\ UNCHANGED <<made, locked>>
  /\ UNCHANGED <<place, spaces, ready, asking, tree, load, lock>>

-----------------------------------------------------------------------------
\* The lock.

\* Everything is loaded again.
ReloadAll(with) ==
  /\ Free # {}
  /\ load' = Fetched(place.space, with, None)
  /\ asking' = Ask(asking, {})

\* An open collection that is hidden now is left for the dashboard of the space.
LeaveLocked(hidden) ==
  place' = IF place.collection \in hidden THEN [place EXCEPT !.collection = None] ELSE place

LockCollection(c) ==
  /\ Happens("lock")
  /\ Permitted /\ c \in tree.has /\ c \in made
  /\ locked' = locked \cup {c}
  /\ LeaveLocked(IF unlocked THEN {} ELSE {c})
  /\ ReloadAll(unlocked)
  /\ UNCHANGED <<member, made, spaces, ready, tree, lock>>

UnlockCollection(c) ==
  /\ Happens("lock")
  /\ Permitted /\ c \in tree.locks /\ Free # {}
  /\ locked' = locked \ {c}
  /\ load' = Fetched(place.space, unlocked, None)
  /\ UNCHANGED <<member, made, place, spaces, ready, asking, tree, lock>>

\* With the PIN.
Unlock ==
  /\ Happens("lock")
  /\ place # Start /\ ~unlocked
  /\ unlocked' = TRUE
  /\ ReloadAll(TRUE)
  /\ UNCHANGED <<server, place, spaces, ready, tree, renewing>>

\* lock(): the layout, where it is mounted, leaves a locked collection and reloads.
Locked ==
  /\ unlocked /\ unlocked' = FALSE
  /\ IF place # Start THEN LeaveLocked(tree.locks) /\ ReloadAll(FALSE)
     ELSE UNCHANGED <<place, load, asking>>
  /\ UNCHANGED <<server, spaces, ready, tree>>

\* By hand, or because the token ran out (toggleLock, checkExpiry).
Lock == Happens("lock") /\ place # Start /\ Locked /\ UNCHANGED renewing

\* Activity renews the unlock token (keepUnlocked).
KeepUnlocked ==
  /\ place # Start /\ unlocked /\ ~renewing
  /\ renewing' = TRUE
  /\ UNCHANGED <<server, place, spaces, ready, asking, tree, load, unlocked, events>>

\* Mutant of Renewed: the answer is applied whatever happened meanwhile.
RenewedAnyway == unlocked' = TRUE

\* The answer is applied while there is still a token.
Renewed == UNCHANGED unlocked

RenewalEnds ==
  /\ renewing /\ renewing' = FALSE
  /\ \/ Renewed /\ UNCHANGED <<server, place, spaces, ready, asking, tree, load>>
     \/ Locked
  /\ UNCHANGED events

-----------------------------------------------------------------------------
\* Timer and answers.

\* Every minute, while the tab is visible (refreshCounters).
RefreshCounters ==
  /\ place # Start
  /\ ReloadAll(unlocked)
  /\ UNCHANGED <<server, place, spaces, ready, tree, lock, events>>

\* The contexts reload-spaces and reload-collections, handleMove, givePlanet.
Reload ==
  /\ Happens("reload")
  /\ place # Start
  /\ \/ Free # {} /\ load' = Fetched(place.space, unlocked, None) /\ UNCHANGED asking
     \/ asking' = Ask(asking, {}) /\ UNCHANGED load
  /\ UNCHANGED <<server, place, spaces, ready, tree, lock>>

ServeTree(i) ==
  /\ load[i].phase = "sent"
  /\ load' = IF load[i].of \in member
             THEN [load EXCEPT ![i].phase = "answered", ![i].tree = Seen(load[i].of, load[i].with)]
             ELSE [load EXCEPT ![i].phase = "failed"]
  /\ UNCHANGED <<server, place, spaces, ready, asking, tree, lock, events>>

LoseTree(i) ==
  /\ Happens("lose")
  /\ load[i].phase \in {"sent", "answered"}
  /\ load' = [load EXCEPT ![i].phase = "failed", ![i].tree = NoTree]
  /\ UNCHANGED <<server, place, spaces, ready, asking, tree, lock>>

\* Mutants of TreeAfter: whatever space it is of; only the first one of a space.
TreeOfAnswer(r) == r.tree
TreeOnce(r) == IF r.of = place.space /\ tree.of # r.of THEN r.tree ELSE tree

\* An answer for a space that is not shown any more is ignored.
TreeAfter(r) == IF r.of = place.space THEN r.tree ELSE tree

ReceiveTree(i) ==
  /\ load[i].phase = "answered"
  /\ tree' = TreeAfter(load[i])
  /\ load' = [load EXCEPT ![i] = NoLoad]
  /\ place' = IF load[i].then = None THEN place ELSE [place EXCEPT !.collection = load[i].then]
  /\ UNCHANGED <<server, spaces, ready, asking, lock, events>>

\* Mutant of Waiting: a page is opened whether or not there is one to open.
WaitingAlways(r) == {r.then}

\* Who waited for the tree, now for the spaces.
Waiting(r) == {r.then} \ {None}

\* After a failure the tree is empty, whatever space was asked for, and the spaces are
\* loaded again.
TreeFails(i) ==
  /\ load[i].phase = "failed"
  /\ tree' = NoTree
  /\ load' = [load EXCEPT ![i] = NoLoad]
  /\ asking' = Ask(asking, Waiting(load[i]))
  /\ UNCHANGED <<server, place, spaces, ready, lock, events>>

ServeSpaces ==
  /\ asking.phase = "sent"
  /\ asking' = [asking EXCEPT !.phase = "answered", !.list = member]
  /\ UNCHANGED <<server, place, spaces, ready, tree, load, lock, events>>

\* The page that is shown by those who waited for the spaces.
Goal(then) ==
  {p \in Place \cup {Start} :
     \/ then = "redirect" /\ p.space \in asking.list /\ p.collection = None
     \/ then = "leave" /\ p = Start
     \/ then \in Spaces /\ p = [space |-> then, collection |-> None]
     \/ then \in Collections /\ place # Start /\ p = [place EXCEPT !.collection = then]}

Goals == UNION {Goal(then) : then \in asking.then}

ReceiveSpaces ==
  /\ asking.phase = "answered"
  /\ spaces' = asking.list
  /\ \E p \in IF Goals = {} THEN {place} ELSE Goals :
       Show(p, ready \/ "ready" \in asking.then, NotAsking)
  /\ UNCHANGED <<server, lock, events>>

\* Nobody who waited does anything; the start page offers to try again.
LoseSpaces ==
  /\ Happens("lose")
  /\ asking.phase \in {"sent", "answered"}
  /\ asking' = NotAsking
  /\ UNCHANGED <<server, place, spaces, ready, tree, load, lock>>

TryAgain ==
  /\ place = Start /\ asking.phase = "idle"
  /\ asking' = Ask(asking, {"redirect"})
  /\ UNCHANGED <<server, place, spaces, ready, tree, load, lock, events>>

-----------------------------------------------------------------------------
Navigation ==
  \/ \E s \in Spaces : SelectSpace(s)
  \/ \E c \in Collections : OpenCollection(c)
  \/ \E p \in Place \cup {Start} : FollowLink(p)

Locking ==
  \/ \E c \in Collections : LockCollection(c) \/ UnlockCollection(c)
  \/ Unlock \/ Lock \/ KeepUnlocked \/ RenewalEnds

TreeAnswer(i) == ServeTree(i) \/ ReceiveTree(i) \/ TreeFails(i)
SpacesAnswer == ServeSpaces \/ ReceiveSpaces

Next ==
  \/ Navigation \/ Locking \/ LeaveOutside
  \/ \E s \in Spaces : SpaceDone(s)
  \/ LeaveSpace \/ ByOthers
  \/ \E c \in Collections : CreateCollection(c)
  \/ RefreshCounters \/ Reload \/ TryAgain
  \/ \E i \in Loads : TreeAnswer(i) \/ LoseTree(i)
  \/ SpacesAnswer \/ LoseSpaces

\* The timer fires while the tab is visible, requests are answered, effects run. (Strong
\* fairness, as the bound Loads may keep an answer waiting again and again.)
Fairness ==
  /\ WF_vars(RefreshCounters) /\ SF_vars(SpacesAnswer) /\ WF_vars(LeaveOutside)
  /\ \A i \in Loads : WF_vars(TreeAnswer(i))

Spec == Init /\ [][Next]_vars /\ Fairness

-----------------------------------------------------------------------------
\* The tree beside a page is the one of its space, or empty, once no answer for that
\* space is missing: however often somebody switched, and in whatever order the
\* answers came (loadCollections).
TreeOfOpenSpace ==
  place # Start /\ tree.of \notin {place.space, None}
  => \E i \in Loads : load[i].phase # "idle" /\ load[i].of = place.space

\* Nothing is unlocked but by the PIN: not by a renewal that was under way when it was
\* locked (keepUnlocked).
UnlockedByPin == [][~unlocked /\ unlocked' => events' # events]_vars

\* What others change is seen in the end, and what was locked disappears: the tree
\* becomes and stays that of the server (refreshCounters).
TreeCatchesUp ==
  <>[](place # Start /\ place.space \in member => tree = Seen(place.space, unlocked))

\* Whoever was removed, or followed a bad link, is led away from the space in the end,
\* if the layout ever got the list it trusts.
EventuallyMember == <>[](place # Start /\ ready => place.space \in member)

\* "Leave spaces the user is no longer a member of (removed, deleted, bad link)": of no
\* other space is anybody led away.
OnlyOutsidersLeave ==
  [][Outside /\ place' = Start /\ spaces' = spaces => place.space \notin member]_vars

\* Locked collections "disappear from your view": what is locked is not shown once no
\* answer is missing.
HiddenWhileLocked ==
  ~unlocked /\ (\A i \in Loads : load[i].phase = "idle") => tree.has \cap locked = {}
=============================================================================
