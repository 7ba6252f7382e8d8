-------------------------------- MODULE Views --------------------------------
(***************************************************************************)
(* Pages and dialogs that load what is at an address and let the user act  *)
(* on it (ui/v1/src/lib/pages, ui/v1/src/lib/components).                  *)
(*                                                                         *)
(* They are all built alike: an effect runs load() when the address in the *)
(* route, the dialog's subject or the text typed changes. Nothing cancels  *)
(* a request: its answer arrives while something else is open, after a     *)
(* later one, or never. Each view decides whether it drops such an answer, *)
(* what stays when a request fails, and what an action changes. A record   *)
(* per view names these decisions; one state machine says what they do.    *)
(*                                                                         *)
(* An address is a value that may contain a text, what is there is known   *)
(* by its address. Left out: entries of lists, the wording of errors,      *)
(* fields, and a second action before the first one is answered.           *)
(***************************************************************************)

CONSTANTS
  Keys,      \* addresses, subjects, files or texts
  text,      \* of each of them, the text it contains: the query, the URL
  Requests,  \* bound: requests of load() under way
  Chosen,    \* the views there are, of AllViews
  None

VARIABLES
  view,     \* the view
  opened,   \* what it is to show: spaceId, token, query; None while it is closed
  shown,    \* what it shows, and if an answer of load() or of an action brought it
  draft,    \* what is being edited
  asked,    \* what each request of load() asks for
  reading,  \* those whose file is still being read
  content,  \* the file read last
  timer,    \* load() is due as soon as nobody types
  loading,  \* loading; for views that wait, "busy" with whatever it is
  error,    \* error
  act       \* the action under way, its button disabled

file == <<reading, content>>
vars == <<view, opened, shown, draft, asked, file, timer, loading, error, act>>

-----------------------------------------------------------------------------
\* Actions of views. needs: something "shown" or a "draft", or "nothing". then: what
\* the answer leads to. fails: an error in the place of load's, "apart" from it, or the
\* list is fetched again.
Acts == [needs : {"nothing", "shown", "draft"},
         then  : {"stays", "shows", "reloads", "clears", "leaves", "leaves or shows", "retypes"},
         fails : {"error", "apart", "fetches"}]

Does(needs, then, fails) == [needs |-> needs, then |-> then, fails |-> fails]

\* dialog: it stays mounted while it is closed.
\* checks: an answer is dropped unless it is for what is open ("all"), or for a text
\* like the one typed ("text").
\* clears: what is shown goes when something else is opened.
\* spins: nothing else, or something beside, is shown while loading is set.
\* onFailure: an "error" is shown, what was shown goes ("gone"), or both.
\* typed: load() waits until nobody types. waits: nothing else is opened, and nothing
\* done, while it is busy. reads: what is opened is a file, read before it is asked about.
\* moves: something else can be opened while it is mounted. edits: with a draft.
\* blank: an empty text asks for nothing. reloads: load() runs again by itself.
\* loads: there is a load().
View == [loads : BOOLEAN, dialog : BOOLEAN, checks : {"nothing", "text", "all"},
         reads : BOOLEAN, clears : BOOLEAN,
         spins : {"no", "alone", "beside"}, onFailure : SUBSET {"error", "gone"},
         typed : BOOLEAN, waits : BOOLEAN, blank : BOOLEAN, reloads : BOOLEAN,
         moves : BOOLEAN, edits : BOOLEAN, acts : SUBSET Acts]

Page == [loads |-> TRUE, dialog |-> FALSE, checks |-> "nothing", reads |-> FALSE,
         clears |-> FALSE,
         spins |-> "alone", onFailure |-> {"error"}, typed |-> FALSE, waits |-> FALSE,
         blank |-> FALSE, reloads |-> FALSE, moves |-> TRUE, edits |-> FALSE, acts |-> {}]

Dialog == [Page EXCEPT !.dialog = TRUE, !.spins = "beside"]
Form   == [Page EXCEPT !.loads = FALSE, !.spins = "no"]

\* Saving the dashboard shows the answer; resetting it loads it again, as does a link
\* that was added.
HomePage == [Page EXCEPT !.checks = "all", !.clears = TRUE, !.edits = TRUE, !.reloads = TRUE,
               !.acts = {Does("draft", "shows", "apart"), Does("nothing", "reloads", "apart")}]

SearchPage    == [Page EXCEPT !.checks = "all", !.blank = TRUE]
FavoritesPage == [Page EXCEPT !.checks = "all"]
SharePage     == [Page EXCEPT !.checks = "all", !.onFailure = {"error", "gone"}]
TrashPage     == [Page EXCEPT !.spins = "no", !.acts = {Does("shown", "reloads", "apart")}]

\* accept shows the answer, then waits for the spaces, then opens the new one.
InvitePage == [Page EXCEPT !.acts = {Does("shown", "leaves or shows", "error")}]

\* The collections of the space chosen.
AddPage == [Page EXCEPT !.checks = "all", !.spins = "no", !.onFailure = {"gone"},
              !.acts = {Does("shown", "stays", "error")}]

\* saveGeneral and saveDiscovery; removing a member, invites; changeRole; leaving or
\* deleting the space.
GeneralActs == {Does("shown", "shows", "apart")}
MemberActs  == {Does("shown", "stays", "apart"), Does("shown", "stays", "fetches")}
DangerActs  == {Does("shown", "leaves", "apart")}
SpaceSettingsPage == [Page EXCEPT !.acts = GeneralActs \cup MemberActs \cup DangerActs]

\* The news of the space; loaded again when their number changes.
NewsBell == [Page EXCEPT !.checks = "all", !.spins = "no", !.onFailure = {"gone"},
               !.reloads = TRUE, !.acts = {Does("shown", "clears", "apart")}]

\* Links of a space that match the query: the space is not compared.
LinkPickerModal == [Dialog EXCEPT !.checks = "text", !.typed = TRUE]

\* "discover", the step that loads; creating a space and joining one by its invite.
DiscoverSpaces == [Dialog EXCEPT !.checks = "all", !.typed = TRUE,
                     !.acts = {Does("shown", "leaves", "error")}]
CreateOrJoin   == [Form EXCEPT !.dialog = TRUE, !.acts = {Does("nothing", "leaves", "error")}]

CollectionAccessModal == [Dialog EXCEPT !.spins = "alone",
                            !.acts = {Does("nothing", "leaves", "error")}]
ShareCollectionModal  == [Dialog EXCEPT !.spins = "no",
                            !.acts = {Does("nothing", "shows", "error"),
                                      Does("shown", "shows", "error")}]
PinToDashboardModal   == [Dialog EXCEPT !.clears = TRUE, !.spins = "no",
                            !.acts = {Does("nothing", "leaves", "error")}]

\* What is opened is the file chosen: the preview of its import, the summary of the
\* backup. An import is busy only once it has read the file. (Opening its dialog, which
\* forgets the file read before, and choosing the first one are a single step.)
ImportCollectionModal == [Dialog EXCEPT !.clears = TRUE, !.waits = TRUE, !.reads = TRUE,
                            !.acts = {Does("shown", "shows", "error")}]
RestoreBackup         == [Page EXCEPT !.clears = TRUE, !.spins = "beside", !.waits = TRUE,
                            !.onFailure = {"error", "gone"},
                            !.acts = {Does("shown", "shows", "error")}]

AdminPage    == [Page EXCEPT !.moves = FALSE, !.spins = "no", !.reloads = TRUE,
                   !.acts = {Does("nothing", "shows", "error"), Does("nothing", "stays", "error")}]
AdminUsers   == [Page EXCEPT !.moves = FALSE, !.acts = {Does("shown", "stays", "error")}]
AdminReports == [Page EXCEPT !.moves = FALSE, !.acts = {Does("shown", "stays", "error")}]

\* Duplicates of the URL typed, in a space that is not compared. Fetching its details
\* replaces the URL by the one they are of.
LinkFormFields == [Page EXCEPT !.checks = "text", !.clears = TRUE, !.spins = "no",
                     !.onFailure = {}, !.typed = TRUE, !.blank = TRUE,
                     !.acts = {Does("nothing", "retypes", "apart")}]

\* Each invite link shown is a new one, for the role and time chosen.
InvitePeopleModal == [Dialog EXCEPT !.clears = TRUE, !.reloads = TRUE]

ResetPasswordPage == [Page EXCEPT !.spins = "no", !.onFailure = {"gone"},
                        !.acts = {Does("shown", "leaves", "apart")}]

QuickAddModal     == [Form EXCEPT !.dialog = TRUE, !.acts = {Does("nothing", "leaves", "error")}]
ReportShareModal  == [Form EXCEPT !.dialog = TRUE, !.acts = {Does("nothing", "stays", "error")}]
ProfileModal      == [Form EXCEPT !.dialog = TRUE, !.acts = {Does("nothing", "stays", "apart"),
                                                             Does("nothing", "leaves", "apart")}]
LoginPage         == [Form EXCEPT !.moves = FALSE, !.acts = {Does("nothing", "stays", "error"),
                                                             Does("nothing", "leaves", "error")}]

AllViews ==
  {HomePage, SearchPage, FavoritesPage, SharePage, TrashPage, InvitePage, AddPage,
   SpaceSettingsPage, NewsBell, LinkPickerModal, DiscoverSpaces, CreateOrJoin,
   CollectionAccessModal, ShareCollectionModal, PinToDashboardModal, ImportCollectionModal,
   RestoreBackup, AdminPage, AdminUsers, AdminReports, LinkFormFields, InvitePeopleModal,
   ResetPasswordPage, QuickAddModal, ReportShareModal, ProfileModal, LoginPage}

-----------------------------------------------------------------------------
Shown == [of : Keys, by : {"load", "act"}]
By(by, key) == [of |-> key, by |-> by]

Acting == [does : Acts, of : Keys]

ASSUME ViewsAssumption ==
  /\ Chosen \subseteq AllViews
  /\ None \notin Keys \cup Shown \cup Acting
  /\ DOMAIN text = Keys

\* Types of all variables.
TypeOK ==
  /\ view \in Chosen
  /\ opened \in Keys \cup {None}
  /\ {shown, draft} \subseteq Shown \cup {None}
  /\ asked \in [Requests -> Keys \cup {None}]
  /\ reading \subseteq Requests
  /\ content \in Keys \cup {None}
  /\ {timer, loading, error} \subseteq BOOLEAN
  /\ act \in Acting \cup {None}
  /\ timer => opened # None

Free == {i \in Requests : asked[i] = None}
Asked(i, key) == [asked EXCEPT ![i] = key]

\* Before it is opened.
Init ==
  /\ view \in Chosen
  /\ opened = None /\ shown = None /\ draft = None /\ act = None
  /\ asked = [i \in Requests |-> None]
  /\ reading = {} /\ content = None
  /\ timer = FALSE /\ loading = FALSE /\ error = FALSE

\* Home shows that it loads only when there is nothing to show.
Spins(sh) == view.spins # "no" /\ (view = HomePage => sh = None)

\* load() starts.
Load(key) ==
  /\ \E i \in Free : asked' = Asked(i, key)
  /\ loading' = Spins(shown')
  /\ error' = FALSE

NoLoad == UNCHANGED <<asked, loading, error>>

\* Mutant of AfterOpening: an edit goes on.
KeepsEditing(sh) ==
  /\ shown' = IF view.clears THEN None ELSE sh
  /\ UNCHANGED draft

AfterOpening(sh) ==
  /\ shown' = IF view.clears THEN None ELSE sh
  /\ draft' = None

\* Text is typed into an open view; a dialog loads at once when it is opened.
Typing == view.typed /\ (opened # None \/ ~view.dialog)

\* Mutant of Busy: another file can be chosen at any time.
NeverBusy == FALSE

Busy == view.waits /\ loading

\* After an import or a restore only its result is there.
Finished == view.waits /\ shown # None /\ shown.by = "act"

\* choose() begins.
Choose(key) ==
  /\ \E i \in Free : asked' = Asked(i, key) /\ reading' = reading \cup {i}
  /\ content' = IF opened = None THEN None ELSE content
  /\ error' = FALSE
  /\ UNCHANGED loading

\* The effect: another address, subject or text. A dialog opened again loads again.
Open(key) ==
  /\ key # opened
  /\ opened = None \/ view.moves
  /\ ~Busy
  /\ Finished => opened = None
  /\ opened' = key
  /\ AfterOpening(shown)
  /\ \/ view.reads /\ Choose(key) /\ UNCHANGED timer
     \/ /\ UNCHANGED file
        /\ \/ ~view.loads /\ NoLoad /\ UNCHANGED timer
           \/ view.loads /\ ~view.reads /\ ~Typing /\ Load(key) /\ UNCHANGED timer
           \/ view.loads /\ Typing /\ NoLoad /\ timer' = TRUE
  /\ UNCHANGED <<view, act>>

\* The file of a request is read, and its preview asked for, or it is not valid.
Read(i) ==
  /\ i \in reading
  /\ reading' = reading \ {i}
  /\ \/ content' = asked[i] /\ loading' = TRUE /\ UNCHANGED <<asked, error>>
     \/ content' = None /\ asked' = Asked(i, None) /\ error' = TRUE /\ UNCHANGED loading
  /\ UNCHANGED <<view, opened, shown, draft, timer, act>>

\* Nobody types any more.
Due ==
  /\ timer
  /\ timer' = FALSE
  /\ UNCHANGED <<view, opened, shown, draft, file, act>>
  /\ Load(opened)

Reload ==
  /\ view.reloads /\ opened # None
  /\ UNCHANGED <<view, opened, shown, draft, file, timer, act>>
  /\ Load(opened)

\* The text is gone, or too short to search for.
Blank ==
  /\ view.blank /\ opened # None
  /\ opened' = None /\ shown' = None /\ draft' = None
  /\ timer' = FALSE /\ loading' = FALSE
  /\ UNCHANGED <<view, asked, file, error, act>>

\* A dialog is hidden; a page is left for another one, and with it goes all it waits
\* for. (A load still due as the dialog of links closes is one that started before.)
Closed ==
  /\ opened' = None /\ draft' = None /\ timer' = FALSE
  /\ IF view.dialog THEN UNCHANGED <<shown, asked, loading, error>>
     ELSE /\ shown' = None /\ asked' = [i \in Requests |-> None]
          /\ loading' = FALSE /\ error' = FALSE
Close ==
  /\ opened # None
  /\ Closed
  /\ act' = IF view.dialog THEN act ELSE None
  /\ UNCHANGED <<view, file>>

-----------------------------------------------------------------------------
\* Mutant of Takes: an answer is shown whatever is open.
TakesAny(key) == TRUE

Takes(key) ==
  \/ view.checks = "nothing"
  \/ view.checks = "text" /\ opened # None /\ text[key] = text[opened]
  \/ view.checks = "all" /\ key = opened

\* A closed dialog has nothing open, and compares with what was typed last.
Compares == view.checks # "nothing" /\ view.dialog /\ opened = None

ShownAfter(key) ==
  CASE Finished -> {shown}
    [] Compares /\ ~Finished -> {shown, By("load", key)}
    [] OTHER -> {IF Takes(key) THEN By("load", key) ELSE shown}

Sent(i) == asked[i] # None /\ i \notin reading

Answer(i) ==
  /\ Sent(i)
  /\ shown' \in ShownAfter(asked[i])
  /\ asked' = Asked(i, None)
  /\ loading' = FALSE
  /\ UNCHANGED <<view, opened, draft, file, timer, error, act>>

\* Mutant of Fail: on a page that only shows that it loads, nothing but an answer ends it.
FailAndSpin(i) ==
  /\ Sent(i)
  /\ asked' = Asked(i, None)
  /\ loading' = (loading /\ view.spins = "alone")
  /\ error' = (error \/ "error" \in view.onFailure)
  /\ UNCHANGED <<view, opened, shown, draft, file, timer, act>>

\* Whatever is open: a late failure is shown as one of what is open now.
Fail(i) ==
  /\ Sent(i)
  /\ shown' = IF "gone" \in view.onFailure THEN None ELSE shown
  /\ asked' = Asked(i, None)
  /\ loading' = FALSE
  /\ error' = (error \/ "error" \in view.onFailure)
  /\ UNCHANGED <<view, opened, draft, file, timer, act>>

-----------------------------------------------------------------------------
\* A page shows an error instead of what it has.
Displayed == shown # None /\ ~(view.spins = "alone" /\ (loading \/ (error /\ ~view.dialog)))

Edit ==
  /\ view.edits /\ opened # None
  /\ Displayed
  /\ draft' = shown
  /\ UNCHANGED <<view, opened, shown, asked, file, timer, loading, error, act>>

Ready(a) == CASE a.needs = "nothing" -> ~(view.spins = "alone" /\ loading)
              [] a.needs = "shown"   -> Displayed
              [] a.needs = "draft"   -> draft # None

Act(a) ==
  /\ opened # None /\ act = None
  /\ Ready(a)
  /\ ~Busy /\ ~Finished
  /\ view.reads => content # None
  /\ act' = [does |-> a, of |-> IF view.reads THEN content ELSE opened]
  /\ loading' = (loading \/ view.waits)
  /\ error' = (error /\ a.fails # "error")
  /\ UNCHANGED <<view, opened, shown, draft, asked, file, timer>>

Stays == UNCHANGED <<opened, shown, draft, asked, timer, loading, error>>

Clears ==
  /\ shown' = None
  /\ UNCHANGED <<opened, draft, asked, timer, loading, error>>

\* Mutant of Shows: as if nothing else could be open by now.
ShowsHere ==
  /\ shown' = By("act", opened)
  /\ draft' = None
  /\ loading' = (loading /\ ~view.waits)
  /\ UNCHANGED <<opened, asked, timer>>

\* The answer to an action shows what it is of, whatever is open.
Shows ==
  /\ shown' = By("act", act.of)
  /\ draft' = None
  /\ loading' = (loading /\ ~view.waits)
  /\ UNCHANGED <<opened, asked, timer>>

\* url = metadata.url: the text is again what the details were fetched for, in the space
\* chosen by now.
Retypes ==
  /\ IF opened # None /\ text[opened] = text[act.of] THEN UNCHANGED <<opened, shown, timer>>
     ELSE /\ opened' \in {key \in Keys : text[key] = text[act.of]}
          /\ shown' = None /\ timer' = TRUE
  /\ UNCHANGED <<draft, asked, loading, error>>

Reloads ==
  /\ UNCHANGED <<opened, shown, timer>>
  /\ draft' = None
  /\ IF opened = None THEN NoLoad ELSE Load(opened)

\* The server did it. An invite that was accepted may fail to open the space.
Done ==
  /\ act # None
  /\ \/ act.does.then = "stays" /\ Stays
     \/ act.does.then = "clears" /\ Clears
     \/ act.does.then = "shows" /\ Shows /\ UNCHANGED error
     \/ act.does.then = "leaves or shows" /\ Shows /\ error' = TRUE
     \/ act.does.then \in {"leaves", "leaves or shows"} /\ Closed
     \/ act.does.then = "reloads" /\ Reloads
     \/ act.does.then = "retypes" /\ Retypes
  /\ act' = None
  /\ UNCHANGED <<view, file>>

\* The server refuses, or its answer is lost. After a role was refused, the members are
\* fetched again.
Refused ==
  /\ act # None
  /\ act' = IF act.does.fails = "fetches"
            THEN [act EXCEPT !.does = Does("shown", "shows", "apart")] ELSE None
  /\ loading' = (loading /\ ~view.waits)
  /\ error' = (error \/ act.does.fails = "error")
  /\ UNCHANGED <<view, opened, shown, draft, asked, file, timer>>

-----------------------------------------------------------------------------
Next ==
  \/ Due \/ Reload \/ Blank \/ Close \/ Edit \/ Done \/ Refused
  \/ \E key \in Keys : Open(key)
  \/ \E i \in Requests : Read(i) \/ Answer(i) \/ Fail(i)
  \/ \E a \in view.acts : Act(a)

\* The server answers, or the browser gives up.
Spec == /\ Init /\ [][Next]_vars
        /\ \A i \in Requests : WF_vars(Answer(i) \/ Fail(i))
        /\ WF_vars(Done \/ Refused)

-----------------------------------------------------------------------------
Settled == ~timer /\ act = None /\ \A i \in Requests : asked[i] = None

\* "Ignore responses for queries the user has already typed past" (doSearch of
\* SearchPage, and six other views that compare all they asked for): once all answers
\* are there, in whatever order they came, such a view shows an answer for what is open,
\* unless it says that loading failed or an action has brought what it shows.
SettledShowsOpened ==
  view.checks = "all" /\ Settled /\ opened # None /\ ~error
  => \/ shown # None /\ (shown.by = "load" => shown.of = opened)
     \/ shown = None /\ "error" \notin view.onFailure

\* The dashboard that load() showed is edited only while its space is open: switching
\* spaces ends an edit (the effect of HomePage), whatever answers come late.
EditsLoaded == draft # None /\ draft.by = "load" => draft.of = opened

\* The same of every dashboard. Not so: the late answer of save() shows the one of the
\* space it was for, and that can be edited, and saved, as the one of another space.
EditsOpened == draft # None => draft.of = opened

\* "The server runs the whole import and rolls it back, so the preview is exact" (choose
\* and runImport of ImportCollectionModal): what is imported, or restored, is the file
\* whose preview is shown. Not so of imports: while one file is read another one can be
\* chosen, and the preview may be of one and the content of the other.
DoesWhatItPreviewed ==
  [][view.waits /\ act = None /\ act' # None => shown # None /\ shown.of = act'.of]_vars

\* So of backups, whose file is not read before (check and restore of SetupPage): what is
\* restored is what the summary on the screen is of, although checks are late, fail, and
\* end while other files are chosen.
RestoresWhatItShows ==
  [][view.waits /\ ~view.reads /\ act = None /\ act' # None
       => shown # None /\ shown.of = act'.of]_vars

\* No view loads for ever, whatever fails and whatever else is opened meanwhile.
LoadingEnds == loading ~> ~loading
=============================================================================
