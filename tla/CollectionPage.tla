--------------------------- MODULE CollectionPage ---------------------------
(***************************************************************************)
(* The page of a collection (pages/CollectionPage.svelte): it loads a      *)
(* collection with its links, shows them, and changes them one by one or   *)
(* several at once, with toasts that offer to undo it.                     *)
(*                                                                         *)
(* The page stays while its address changes from one collection to         *)
(* another, and what it shows is what the last answer brought. Several     *)
(* links are changed by one request each, until one fails. Any request can *)
(* be lost on its way there or back.                                       *)
(*                                                                         *)
(* A link has been edited or tagged or not; updates send the whole link as *)
(* it was shown. Left out: the order of links, filters, "New" badges, own  *)
(* images, the dialogs for sharing, access, import and pins.               *)
(***************************************************************************)
EXTENDS Integers, FiniteSets

CONSTANTS
  Collections, Links,
  Loads,  \* bound: requests for a collection under way
  Jobs,   \* bound: changes under way
  Does,   \* which changes the page makes
  None   \* no collection

VARIABLES
  link,      \* server: the rows of bookmarks
  gone,      \* server: the collections in the trash
  named,     \* server: the collections that were edited
  address,   \* route.params.collectionId, None for the dashboard
  held,      \* collection
  shown,     \* bookmarks
  loading, error,
  load,      \* the requests of loadData under way
  selected,  \* selectedIds
  job,       \* the changes of links under way
  toasts,    \* what the toasts offer to undo
  stuck      \* history: links in the trash after their undo was refused

server == <<link, gone, named>>
page   == <<held, shown, loading, error, load, selected>>
vars   == <<server, address, page, job, toasts, stuck>>

Changes == {"edited", "tagged"}

Row   == [state : {"none", "here", "trash"}, at : Collections, content : SUBSET Changes]
Shown == [id : Links, at : Collections, content : SUBSET Changes]

Idle == [phase |-> "idle"]
Load == [phase : {"sent", "answered"}, of : Collections, links : SUBSET Shown]

AllDoes == {"add", "edit", "delete", "tag", "move", "move back", "move selected",
            "move selected back"}

\* all: the links as they were shown when it began; todo: those still to be sent.
\* ok: no request has failed. here: the page it began on is still there.
Job == [phase : {"running"}, does : AllDoes, all : SUBSET Shown, todo : SUBSET Shown,
        to : Collections \cup {None}, ok : BOOLEAN, here : BOOLEAN]

\* Links to restore, a collection to restore, or links to move back.
Toast == [undo : {"links"}, ids : SUBSET Links] \cup [undo : {"collection"}, of : Collections]
         \cup [undo : {"move", "move selected"}, links : SUBSET Shown, to : Collections]

\* Types of all variables.
TypeOK ==
  /\ link \in [Links -> Row]
  /\ gone \subseteq Collections /\ named \subseteq Collections
  /\ {address, held} \subseteq Collections \cup {None}
  /\ shown \subseteq Shown
  /\ loading \in BOOLEAN /\ error \in BOOLEAN
  /\ load \in [Loads -> Load \cup {Idle}]
  /\ selected \subseteq Links
  /\ job \in [Jobs -> Job \cup {Idle}]
  /\ toasts \subseteq Toast
  /\ stuck \subseteq Links

\* Links that are there or not yet, the dashboard.
Init ==
  /\ link \in [Links -> [state : {"none", "here"}, at : Collections, content : {{}}]]
  /\ gone = {} /\ named = {}
  /\ address = None /\ held = None /\ shown = {}
  /\ loading = TRUE /\ error = FALSE
  /\ load = [i \in Loads |-> Idle]
  /\ selected = {}
  /\ job = [j \in Jobs |-> Idle]
  /\ toasts = {} /\ stuck = {}

-----------------------------------------------------------------------------
\* Loading.

FreeLoads == {i \in Loads : load[i] = Idle}

\* loadData: another collection clears the selection.
LoadData(c, chosen) ==
  /\ FreeLoads # {}
  /\ load' = [load EXCEPT ![CHOOSE i \in FreeLoads : TRUE] =
               [phase |-> "sent", of |-> c, links |-> {}]]
  /\ loading' = TRUE /\ error' = FALSE
  /\ selected' = chosen
  /\ UNCHANGED <<held, shown>>

\* A link, the tree or the history leads to a collection; from another one the page stays.
OpenCollection(c) ==
  /\ c # address
  /\ address' = c
  /\ LoadData(c, {})
  /\ UNCHANGED <<server, job, toasts, stuck>>

\* The page is gone, its changes go on.
Away == /\ address' = None
        /\ held' = None /\ shown' = {} /\ loading' = TRUE /\ error' = FALSE
        /\ load' = [i \in Loads |-> Idle]
        /\ selected' = {}
Detached(jobs) == [j \in Jobs |-> IF jobs[j] = Idle THEN Idle ELSE [jobs[j] EXCEPT !.here = FALSE]]

OpenDashboard ==
  /\ address # None
  /\ Away
  /\ job' = Detached(job)
  /\ UNCHANGED <<server, toasts, stuck>>

\* After an import, or a change of access or sharing.
Reload ==
  /\ address # None /\ held # None
  /\ LoadData(address, selected)
  /\ UNCHANGED <<server, address, job, toasts, stuck>>

LinksOf(c) ==
  {[id |-> l, at |-> c, content |-> link[l].content] :
     l \in {k \in Links : link[k].state = "here" /\ link[k].at = c}}

ServeLoad(i) ==
  /\ load[i] # Idle /\ load[i].phase = "sent"
  /\ load[i].of \notin gone
  /\ load' = [load EXCEPT ![i].phase = "answered", ![i].links = LinksOf(load[i].of)]
  /\ UNCHANGED <<server, address, held, shown, loading, error, selected, job, toasts, stuck>>

\* Every answer is shown, whatever collection was opened since.
ReceiveLoad(i) ==
  /\ load[i] # Idle /\ load[i].phase = "answered"
  /\ held' = load[i].of
  /\ shown' = load[i].links
  /\ loading' = FALSE
  /\ load' = [load EXCEPT ![i] = Idle]
  /\ UNCHANGED <<server, address, error, selected, job, toasts, stuck>>

\* The collection is in the trash, or an answer is lost.
FailLoad(i) ==
  /\ load[i] # Idle
  /\ error' = TRUE /\ loading' = FALSE
  /\ load' = [load EXCEPT ![i] = Idle]
  /\ UNCHANGED <<server, address, held, shown, selected, job, toasts, stuck>>

-----------------------------------------------------------------------------
\* Starting a change.

\* The collection and its links are on the screen.
Visible == address # None /\ held # None /\ ~loading /\ ~error

FreeJobs == {j \in Jobs : job[j] = Idle}
Start(does, links, to) ==
  /\ does \in Does
  /\ FreeJobs # {}
  /\ job' = [job EXCEPT ![CHOOSE j \in FreeJobs : TRUE] =
              [phase |-> "running", does |-> does, all |-> links, todo |-> links, to |-> to,
               ok |-> TRUE, here |-> address # None]]

UnchangedByStart == UNCHANGED <<server, address, held, shown, loading, error, load, toasts, stuck>>

\* The dialogs keep a new link from being saved twice.
saving == \E j \in Jobs : job[j] # Idle /\ job[j].does = "add"

\* A new link is sent with the collection of the address.
AddBookmark(l) ==
  /\ Visible
  /\ link[l].state = "none" /\ ~saving
  /\ Start("add", {[id |-> l, at |-> address, content |-> {}]}, address)
  /\ UnchangedByStart /\ UNCHANGED selected

\* Edit a link, delete it, or move it to another collection of the tree (saveEdit,
\* deleteBookmarks, moveBookmark).
ChangeOne(b) ==
  /\ Visible /\ b \in shown
  /\ \/ Start("edit", {b}, None)
     \/ Start("delete", {b}, None)
     \/ \E to \in Collections \ {b.at} : Start("move", {b}, to)
  /\ UnchangedByStart /\ UNCHANGED selected

ToggleSelected(l) ==
  /\ Visible /\ \E b \in shown : b.id = l
  /\ selected' = IF l \in selected THEN selected \ {l} ELSE selected \cup {l}
  /\ UNCHANGED <<server, address, held, shown, loading, error, load, job, toasts, stuck>>

selectedBookmarks == {b \in shown : b.id \in selected}

\* The bar for the selected links; bulkBusy keeps it from being used twice.
bulkBusy == \E j \in Jobs : job[j] # Idle /\ job[j].does \in {"tag", "move selected"}

ChangeSelected ==
  /\ Visible /\ selectedBookmarks # {} /\ ~bulkBusy
  /\ \/ Start("delete", selectedBookmarks, None) /\ selected' = {}
     \/ Start("tag", selectedBookmarks, None) /\ UNCHANGED selected
     \/ \E to \in Collections \ {address} :
          /\ Start("move selected", {b \in selectedBookmarks : b.at # to}, to)
          /\ UNCHANGED selected
  /\ UnchangedByStart

-----------------------------------------------------------------------------
\* Carrying it out, link by link.

\* requireBookmark and requireCollection find the rows.
Accepted(r, b) ==
  /\ r.does = "add" \/ (link[b.id].state = "here" /\ link[b.id].at \notin gone)
  /\ r.to \notin gone

\* The row after the request: an update sends all of the link, as it was shown.
RowAfter(r, b) ==
  CASE r.does = "add"    -> [state |-> "here", at |-> r.to, content |-> {}]
    [] r.does = "edit"   -> [link[b.id] EXCEPT !.content = b.content \cup {"edited"}]
    [] r.does = "tag"    -> [link[b.id] EXCEPT !.content = b.content \cup {"tagged"}]
    [] r.does = "delete" -> [link[b.id] EXCEPT !.state = "trash"]
    [] OTHER             -> [link[b.id] EXCEPT !.at = r.to, !.content = b.content]

\* The link of the answer replaces the one shown.
Replaced(b, row) ==
  {IF s.id = b.id THEN [id |-> b.id, at |-> row.at, content |-> row.content] ELSE s : s \in shown}

NextDone(j, b) ==
  /\ Accepted(job[j], b)
  /\ link' = [link EXCEPT ![b.id] = RowAfter(job[j], b)]
  /\ job' = [job EXCEPT ![j].todo = @ \ {b}]
  /\ shown' = IF job[j].here /\ job[j].does \in {"edit", "tag"}
              THEN Replaced(b, RowAfter(job[j], b)) ELSE shown

\* Refused, or lost before or after the server has done it: the rest is not sent.
NextFails(j, b) ==
  /\ link' \in {link} \cup (IF Accepted(job[j], b)
                            THEN {[link EXCEPT ![b.id] = RowAfter(job[j], b)]} ELSE {})
  /\ job' = [job EXCEPT ![j].todo = {}, ![j].ok = FALSE]
  /\ UNCHANGED shown

Step(j) ==
  /\ job[j] # Idle
  /\ \E b \in job[j].todo : NextDone(j, b) \/ NextFails(j, b)
  /\ UNCHANGED <<gone, named, address, held, loading, error, load, selected, toasts, stuck>>

Ids(links) == {b.id : b \in links}
Without(ids) == {b \in shown : b.id \notin ids}

Ends(j) == job[j] # Idle /\ job[j].todo = {} /\ job' = [job EXCEPT ![j] = Idle]

\* The new link is put in front of those shown, whatever collection that is.
EndOfAdd(j) ==
  /\ Ends(j) /\ job[j].does = "add"
  /\ shown' = IF job[j].here /\ job[j].ok THEN shown \cup job[j].all ELSE shown
  /\ UNCHANGED <<server, address, held, loading, error, load, selected, toasts, stuck>>

EndOfEdit(j) ==
  /\ Ends(j) /\ job[j].does = "edit"
  /\ UNCHANGED <<server, address, page, toasts, stuck>>

\* The selection stays after a failure.
EndOfTag(j) ==
  /\ Ends(j) /\ job[j].does = "tag"
  /\ selected' = IF job[j].here /\ job[j].ok THEN {} ELSE selected
  /\ UNCHANGED <<server, address, held, shown, loading, error, load, toasts, stuck>>

\* After a failure as well: all of them vanish, and the toast says all of them moved to
\* the trash.
EndOfDelete(j) ==
  /\ Ends(j) /\ job[j].does = "delete"
  /\ shown' = IF job[j].here THEN Without(Ids(job[j].all)) ELSE shown
  /\ toasts' = toasts \cup {[undo |-> "links", ids |-> Ids(job[j].all)]}
  /\ UNCHANGED <<server, address, held, loading, error, load, selected, stuck>>

Moved(r) == {[b EXCEPT !.at = r.to] : b \in r.all}

EndOfMove(j) ==
  /\ Ends(j) /\ job[j].does \in {"move", "move back"}
  /\ shown' = IF ~job[j].here \/ ~job[j].ok THEN shown
              ELSE IF job[j].to = address THEN Without(Ids(job[j].all)) \cup Moved(job[j])
              ELSE Without(Ids(job[j].all))
  /\ toasts' = IF job[j].ok /\ job[j].does = "move"
               THEN toasts \cup {[undo |-> "move", links |-> Moved(job[j]), to |-> b.at] : b \in job[j].all}
               ELSE toasts
  /\ UNCHANGED <<server, address, held, loading, error, load, selected, stuck>>

\* After a failure as well, but for the way back.
EndOfMoveSelected(j) ==
  /\ Ends(j) /\ job[j].does \in {"move selected", "move selected back"}
  /\ IF job[j].here /\ (job[j].ok \/ job[j].does = "move selected")
     THEN LoadData(address, IF job[j].does = "move selected" THEN {} ELSE selected)
     ELSE UNCHANGED page
  /\ toasts' = IF job[j].does = "move selected" /\ address # None
               THEN toasts \cup {[undo |-> "move selected", links |-> job[j].all, to |-> address]}
               ELSE toasts
  /\ UNCHANGED <<server, address, stuck>>

End(j) == \/ EndOfAdd(j) \/ EndOfEdit(j) \/ EndOfTag(j) \/ EndOfDelete(j) \/ EndOfMove(j)
          \/ EndOfMoveSelected(j)

-----------------------------------------------------------------------------
\* The collection itself.

\* The dialog shows the name of the collection held, the request takes the one of the
\* address (handleEditCollection).
EditCollection ==
  /\ Visible /\ "edit" \in Does
  /\ address \notin gone
  /\ named' = named \cup {address}
  /\ LoadData(address, selected)
  /\ UNCHANGED <<link, gone, address, job, toasts, stuck>>

\* As above (handleDeleteCollection).
DeleteCollection ==
  /\ Visible
  /\ address \notin gone
  /\ gone' = gone \cup {address}
  /\ toasts' = toasts \cup {[undo |-> "collection", of |-> address]}
  /\ Away
  /\ job' = Detached(job)
  /\ UNCHANGED <<link, named, stuck>>

-----------------------------------------------------------------------------
\* Undo.

Forget(t) == toasts' = toasts \ {t}

\* RestoreFromTrash brings back all links of the request, or none if one of them is not
\* in the trash.
Restorable(ids) == \A l \in ids : link[l].state = "trash" /\ link[l].at \notin gone

UndoDelete(t) ==
  /\ t.undo = "links"
  /\ IF Restorable(t.ids)
     THEN /\ link' = [l \in Links |-> IF l \in t.ids THEN [link[l] EXCEPT !.state = "here"]
                                      ELSE link[l]]
          /\ IF address # None THEN LoadData(address, selected) ELSE UNCHANGED page
          /\ UNCHANGED stuck
     ELSE /\ stuck' = stuck \cup {l \in t.ids : link[l].state = "trash" /\ link[l].at \notin gone}
          /\ UNCHANGED <<link, page>>
  /\ UNCHANGED <<gone, named, address, job>>

UndoDeleteCollection(t) ==
  /\ t.undo = "collection"
  /\ t.of \in gone
  /\ gone' = gone \ {t.of}
  /\ IF t.of = address THEN UNCHANGED <<address, page>>
     ELSE address' = t.of /\ LoadData(t.of, {})
  /\ UNCHANGED <<link, named, job, stuck>>

\* The links are sent as the toast keeps them.
UndoMove(t) ==
  /\ t.undo \in {"move", "move selected"}
  /\ Start(IF t.undo = "move" THEN "move back" ELSE "move selected back", t.links, t.to)
  /\ UNCHANGED <<server, address, page, stuck>>

Undo(t) == Forget(t) /\ (UndoDelete(t) \/ UndoDeleteCollection(t) \/ UndoMove(t))

\* Nobody clicked it in time.
Dismiss(t) == Forget(t) /\ UNCHANGED <<server, address, page, job, stuck>>

-----------------------------------------------------------------------------
Next ==
  \/ \E c \in Collections : OpenCollection(c)
  \/ OpenDashboard \/ Reload
  \/ \E i \in Loads : ServeLoad(i) \/ ReceiveLoad(i) \/ FailLoad(i)
  \/ \E l \in Links : AddBookmark(l) \/ ToggleSelected(l)
  \/ \E b \in shown : ChangeOne(b)
  \/ ChangeSelected
  \/ \E j \in Jobs : Step(j) \/ End(j)
  \/ EditCollection \/ DeleteCollection
  \/ \E t \in toasts : Undo(t) \/ Dismiss(t)

Spec == Init /\ [][Next]_vars

-----------------------------------------------------------------------------
\* "Move <name> with all its links and sub-collections to the trash?": the collection
\* that is deleted is the one the dialog named.
DeletesWhatItNames == [][gone' \subseteq gone \cup {held}]_vars

\* "Deleting moves links to the trash, so there is no question first: the toast offers to
\* undo it": what the toast was about is not left in the
\* trash, unless all of the collection is.
DeletingCanBeUndone == stuck = {}
=============================================================================
