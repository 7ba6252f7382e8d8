----------------------------- MODULE ViewsProofs -----------------------------
(***************************************************************************)
(* Proofs that a view which compares all it asked for shows what is open,  *)
(* that a dashboard that was loaded is edited only while its space is      *)
(* open, and that what is restored is the backup whose summary is shown    *)
(* (Views): for any choice of views, any number of addresses and requests. *)
(***************************************************************************)
EXTENDS Views, TLAPS

\* What the proofs use of the views: a view that checks all drops what it shows, or says
\* so, when loading fails; the one that restores asks for one thing at a time.
Sound(v) ==
  /\ v.acts \subseteq Acts
  /\ v.loads \in BOOLEAN /\ v.waits \in BOOLEAN /\ v.reads \in BOOLEAN
  /\ v.checks = "all" =>
       /\ v.loads /\ ~v.reads
       /\ "error" \in v.onFailure \/ "gone" \in v.onFailure \/ v.clears
       /\ \A a \in v.acts :
            /\ a.then = "clears" => "error" \notin v.onFailure
            /\ a.fails = "error" /\ "error" \in v.onFailure => a.then = "leaves"
            /\ a.fails # "fetches"
  /\ v.edits => v.checks = "all" /\ v.clears /\ \A a \in v.acts : a.then # "retypes"
  /\ v.waits => /\ v.clears /\ v.loads /\ v.spins # "no"
                /\ ~v.reloads /\ ~v.typed /\ ~v.blank /\ ~v.edits
                /\ \A a \in v.acts : a = Does("shown", "shows", "error")

\* Every view is one of those.
LEMMA ViewsAreSound == \A v \in AllViews : Sound(v)
<1>1. Sound(HomePage)
  BY DEF HomePage, Page, Does, Acts, Sound
<1>2. Sound(SearchPage)
  BY DEF SearchPage, Page, Does, Acts, Sound
<1>3. Sound(FavoritesPage)
  BY DEF FavoritesPage, Page, Does, Acts, Sound
<1>4. Sound(SharePage)
  BY DEF SharePage, Page, Does, Acts, Sound
<1>5. Sound(TrashPage)
  BY DEF TrashPage, Page, Does, Acts, Sound
<1>6. Sound(InvitePage)
  BY DEF InvitePage, Page, Does, Acts, Sound
<1>7. Sound(AddPage)
  BY DEF AddPage, Page, Does, Acts, Sound
<1>8. Sound(SpaceSettingsPage)
  BY DEF SpaceSettingsPage, Page, GeneralActs, MemberActs, DangerActs, Does, Acts, Sound
<1>9. Sound(NewsBell)
  BY DEF NewsBell, Page, Does, Acts, Sound
<1>10. Sound(LinkPickerModal)
  BY DEF LinkPickerModal, Dialog, Page, Does, Acts, Sound
<1>11. Sound(DiscoverSpaces)
  BY DEF DiscoverSpaces, Dialog, Page, Does, Acts, Sound
<1>12. Sound(CreateOrJoin)
  BY DEF CreateOrJoin, Form, Page, Does, Acts, Sound
<1>13. Sound(CollectionAccessModal)
  BY DEF CollectionAccessModal, Dialog, Page, Does, Acts, Sound
<1>14. Sound(ShareCollectionModal)
  BY DEF ShareCollectionModal, Dialog, Page, Does, Acts, Sound
<1>15. Sound(PinToDashboardModal)
  BY DEF PinToDashboardModal, Dialog, Page, Does, Acts, Sound
<1>16. Sound(ImportCollectionModal)
  BY DEF ImportCollectionModal, Dialog, Page, Does, Acts, Sound
<1>17. Sound(RestoreBackup)
  BY DEF RestoreBackup, Page, Does, Acts, Sound
<1>18. Sound(AdminPage)
  BY DEF AdminPage, Page, Does, Acts, Sound
<1>19. Sound(AdminUsers)
  BY DEF AdminUsers, Page, Does, Acts, Sound
<1>20. Sound(AdminReports)
  BY DEF AdminReports, Page, Does, Acts, Sound
<1>21. Sound(LinkFormFields)
  BY DEF LinkFormFields, Page, Does, Acts, Sound
<1>22. Sound(InvitePeopleModal)
  BY DEF InvitePeopleModal, Dialog, Page, Does, Acts, Sound
<1>23. Sound(ResetPasswordPage)
  BY DEF ResetPasswordPage, Page, Does, Acts, Sound
<1>24. Sound(QuickAddModal)
  BY DEF QuickAddModal, Form, Page, Does, Acts, Sound
<1>25. Sound(ReportShareModal)
  BY DEF ReportShareModal, Form, Page, Does, Acts, Sound
<1>26. Sound(ProfileModal)
  BY DEF ProfileModal, Form, Page, Does, Acts, Sound
<1>27. Sound(LoginPage)
  BY DEF LoginPage, Form, Page, Does, Acts, Sound
<1>28. QED
  BY <1>1, <1>2, <1>3, <1>4, <1>5, <1>6, <1>7, <1>8, <1>9, <1>10, <1>11, <1>12, <1>13, <1>14, <1>15, <1>16, <1>17, <1>18, <1>19, <1>20, <1>21, <1>22, <1>23, <1>24, <1>25, <1>26, <1>27 DEF AllViews

-----------------------------------------------------------------------------
LEMMA AskedType ==
  ASSUME asked \in [Requests -> Keys \cup {None}], NEW i \in Requests,
         NEW key \in Keys \cup {None}
  PROVE  Asked(i, key) \in [Requests -> Keys \cup {None}]
  BY DEF Asked

LEMMA LoadType ==
  ASSUME TypeOK, NEW key \in Keys, Load(key)
  PROVE  asked' \in [Requests -> Keys \cup {None}] /\ {loading', error'} \subseteq BOOLEAN
<1>1. PICK i \in Free : asked' = Asked(i, key)
  BY DEF Load
<1>2. asked' \in [Requests -> Keys \cup {None}]
  BY <1>1, AskedType DEF Free, TypeOK
<1> QED BY <1>2 DEF Load, Spins

LEMMA ClosedType ==
  ASSUME TypeOK, Closed
  PROVE  /\ opened' = None /\ draft' = None /\ timer' = FALSE
         /\ shown' = shown \/ shown' = None
         /\ asked' \in [Requests -> Keys \cup {None}]
         /\ loading' \in BOOLEAN /\ error' \in BOOLEAN
  BY DEF TypeOK, Closed

LEMMA DoneType ==
  ASSUME TypeOK, Done
  PROVE  TypeOK'
<1>1. act.of \in Keys /\ act' = None /\ UNCHANGED <<view, reading, content>>
  BY DEF Done, TypeOK, Acting, file
<1>2. CASE Closed
  BY <1>1, <1>2, ClosedType DEF TypeOK
<1>3. CASE Shows /\ error' \in {error, TRUE}
  <2>1. shown' \in Shown
    BY <1>1, <1>3 DEF Shows, By, Shown
  <2>2. error' \in BOOLEAN
    BY <1>3 DEF TypeOK
  <2>3. UNCHANGED <<opened, asked, timer>> /\ draft' = None /\ loading' \in BOOLEAN
    BY <1>3 DEF Shows
  <2> QED BY <1>1, <2>1, <2>2, <2>3 DEF TypeOK
<1>4. CASE Reloads
  <2>1. CASE opened = None
    BY <1>1, <1>4, <2>1 DEF Reloads, NoLoad, TypeOK
  <2>2. CASE opened \in Keys
    <3>1. Load(opened)
      BY <1>4, <2>2, ViewsAssumption DEF Reloads
    <3>2. asked' \in [Requests -> Keys \cup {None}] /\ {loading', error'} \subseteq BOOLEAN
      BY <2>2, <3>1, LoadType
    <3> QED BY <1>1, <1>4, <3>2 DEF Reloads, TypeOK
  <2> QED BY <2>1, <2>2 DEF TypeOK
<1>5. CASE Retypes
  <2>1. /\ \/ opened' = opened /\ timer' = timer
           \/ opened' \in Keys /\ timer' = TRUE
        /\ shown' \in {shown, None}
    BY <1>5 DEF Retypes
  <2> QED BY <1>1, <1>5, <2>1, ViewsAssumption DEF Retypes, TypeOK
<1>6. CASE Stays \/ Clears
  BY <1>1, <1>6 DEF Stays, Clears, TypeOK
<1> QED BY <1>2, <1>3, <1>4, <1>5, <1>6 DEF Done

LEMMA ChooseType ==
  ASSUME TypeOK, NEW key \in Keys, Choose(key)
  PROVE  /\ asked' \in [Requests -> Keys \cup {None}]
         /\ reading' \subseteq Requests /\ content' \in Keys \cup {None}
         /\ {loading', error'} \subseteq BOOLEAN
<1>1. PICK i \in Free : asked' = Asked(i, key) /\ reading' = reading \cup {i}
  BY DEF Choose
<1>2. asked' \in [Requests -> Keys \cup {None}]
  BY <1>1, AskedType DEF Free, TypeOK
<1> QED BY <1>1, <1>2 DEF Choose, Free, TypeOK

LEMMA OpenType ==
  ASSUME TypeOK, NEW key \in Keys, Open(key)
  PROVE  TypeOK'
<1>1. {shown', draft'} \subseteq Shown \cup {None} /\ opened' = key /\ UNCHANGED <<view, act>>
  BY DEF Open, AfterOpening, TypeOK
<1>2. key # None
  BY ViewsAssumption
<1>3. /\ asked' \in [Requests -> Keys \cup {None}]
      /\ reading' \subseteq Requests /\ content' \in Keys \cup {None}
      /\ {loading', error'} \subseteq BOOLEAN /\ timer' \in BOOLEAN
  <2>1. CASE Choose(key) /\ UNCHANGED timer
    BY <2>1, ChooseType DEF TypeOK
  <2>2. CASE UNCHANGED file /\ Load(key) /\ UNCHANGED timer
    BY <2>2, LoadType DEF TypeOK, file
  <2>3. CASE UNCHANGED file /\ NoLoad /\ timer' \in {timer, TRUE}
    BY <2>3 DEF NoLoad, TypeOK, file
  <2> QED BY <2>1, <2>2, <2>3 DEF Open
<1> QED BY <1>1, <1>2, <1>3 DEF TypeOK

LEMMA ReadType ==
  ASSUME TypeOK, NEW i \in Requests, Read(i)
  PROVE  TypeOK'
<1>1. asked[i] \in Keys \cup {None} /\ Asked(i, None) \in [Requests -> Keys \cup {None}]
  BY AskedType DEF TypeOK
<1>2. /\ asked' \in [Requests -> Keys \cup {None}]
      /\ reading' \subseteq Requests /\ content' \in Keys \cup {None}
      /\ {loading', error'} \subseteq BOOLEAN
  BY <1>1 DEF Read, TypeOK
<1> QED BY <1>2 DEF Read, TypeOK

\* An answer leaves what is shown, or is shown if it is taken.
LEMMA AnswerShows ==
  ASSUME NEW i \in Requests, Answer(i)
  PROVE  shown' = shown \/ shown' = By("load", asked[i])
  BY DEF Answer, ShownAfter

LEMMA StepType ==
  ASSUME TypeOK, [Next]_vars
  PROVE  TypeOK'
<1>1. CASE Due
  <2>1. opened \in Keys
    BY <1>1 DEF Due, TypeOK
  <2> QED BY <1>1, <2>1, LoadType DEF Due, TypeOK, file
<1>2. CASE Reload
  <2>1. opened \in Keys
    BY <1>2 DEF Reload, TypeOK
  <2> QED BY <1>2, <2>1, LoadType DEF Reload, TypeOK, file
<1>3. CASE Blank
  BY <1>3 DEF Blank, TypeOK, file
<1>4. CASE Close
  BY <1>4, ClosedType DEF Close, TypeOK, file
<1>5. CASE Edit
  BY <1>5 DEF Edit, TypeOK, file
<1>6. CASE Done
  BY <1>6, DoneType
<1>7. CASE Refused
  <2>1. act' \in Acting \cup {None}
    BY <1>7 DEF Refused, TypeOK, Acting, Acts, Does
  <2> QED BY <1>7, <2>1 DEF Refused, TypeOK, file
<1>8. ASSUME NEW key \in Keys, Open(key) PROVE TypeOK'
  BY <1>8, OpenType
<1>9. ASSUME NEW i \in Requests, Answer(i) PROVE TypeOK'
  <2>1. asked[i] \in Keys
    BY <1>9 DEF Answer, Sent, TypeOK
  <2>2. shown' \in Shown \cup {None}
    BY <1>9, <2>1, AnswerShows DEF TypeOK, By, Shown
  <2>3. asked' \in [Requests -> Keys \cup {None}]
    BY <1>9, AskedType DEF Answer, TypeOK
  <2> QED BY <1>9, <2>2, <2>3 DEF Answer, TypeOK, file
<1>10. ASSUME NEW i \in Requests, Fail(i) PROVE TypeOK'
  <2>1. asked' \in [Requests -> Keys \cup {None}]
    BY <1>10, AskedType DEF Fail, TypeOK
  <2> QED BY <1>10, <2>1 DEF Fail, TypeOK, file
<1>11. ASSUME NEW a \in view.acts, Act(a) PROVE TypeOK'
  <2>1. a \in Acts
    BY ViewsAreSound, ViewsAssumption DEF Sound, TypeOK
  <2>2. (IF view.reads THEN content ELSE opened) \in Keys
    BY <1>11 DEF Act, TypeOK
  <2>3. act' \in Acting /\ loading' \in BOOLEAN /\ error' \in BOOLEAN
    BY <1>11, <2>1, <2>2 DEF Act, Acting
  <2> QED BY <1>11, <2>3 DEF Act, TypeOK, file
<1>12. CASE UNCHANGED vars
  BY <1>12 DEF vars, TypeOK, file
<1>13. ASSUME NEW i \in Requests, Read(i) PROVE TypeOK'
  BY <1>13, ReadType
<1> QED
  BY <1>1, <1>2, <1>3, <1>4, <1>5, <1>6, <1>7, <1>8, <1>9, <1>10, <1>11, <1>12, <1>13 DEF Next

LEMMA InitType == Init => TypeOK
  BY DEF Init, TypeOK

\* Every variable keeps its type.
THEOREM TypesHold == Spec => []TypeOK
  BY InitType, StepType, PTL DEF Spec

-----------------------------------------------------------------------------
\* The inductive invariants. The action under way is one of the view, or fetches the
\* members after a role was refused.
Fetches == Does("shown", "shows", "apart")

KnownAct ==
  act # None => act.does \in view.acts \/ (act.does = Fetches /\ view.checks # "all" /\ ~view.waits)

OnlyFilesAreRead == view.reads \/ reading = {}

\* A view that checks has asked for what is open, or shows it, or says why not.
Pending == timer \/ \E i \in Requests : asked[i] = opened
Current == shown # None /\ (shown.by = "load" => shown.of = opened)
Failed  == "error" \in view.onFailure /\ (error \/ (act # None /\ act.does.fails = "error"))
Gone    == "error" \notin view.onFailure /\ shown = None

ShowsOrSays ==
  view.checks = "all" /\ opened # None => Pending \/ Current \/ Failed \/ Gone

NothingOld ==
  view.checks = "all" /\ view.clears /\ opened # None /\ shown # None /\ shown.by = "load"
  => shown.of = opened

DraftOfOpened ==
  draft # None => view.edits /\ opened # None /\ (draft.by = "load" => draft.of = opened)

\* A backup is checked or restored, one at a time, and the page is busy with it.
Restores == view.waits /\ ~view.reads

OneAtATime ==
  Restores =>
    /\ ~timer
    /\ \A i, j \in Requests : asked[i] # None /\ asked[j] # None => i = j
    /\ \A i \in Requests : asked[i] # None =>
         loading /\ act = None /\ (opened # None => asked[i] = opened)
    /\ act # None => loading /\ (opened # None => act.of = opened)
    /\ shown # None /\ opened # None => shown.of = opened

Inv ==
  /\ TypeOK /\ KnownAct /\ OnlyFilesAreRead
  /\ ShowsOrSays /\ NothingOld /\ DraftOfOpened /\ OneAtATime

\* The view is one of those it is composed of, and stays what it is.
LEMMA ViewIsSound == TypeOK => Sound(view)
  BY ViewsAreSound, ViewsAssumption DEF TypeOK

LEMMA ViewStays ==
  ASSUME [Next]_vars
  PROVE  view' = view
  BY DEF Next, Due, Reload, Blank, Close, Edit, Done, Refused, Open, Read, Answer, Fail, Act, vars

LEMMA InitInv == Init => Inv
<1> SUFFICES ASSUME Init PROVE Inv
  OBVIOUS
<1>1. TypeOK
  BY InitType
<1>2. \A i \in Requests : asked[i] = None
  BY DEF Init
<1> QED
  BY <1>1, <1>2
  DEF Init, Inv, KnownAct, OnlyFilesAreRead, ShowsOrSays, NothingOld, DraftOfOpened, OneAtATime

LEMMA KnownActStep ==
  ASSUME Inv, [Next]_vars
  PROVE  KnownAct'
<1>1. view' = view
  BY ViewStays
<1>2. Sound(view)
  BY ViewIsSound DEF Inv
<1>3. CASE act' = act \/ act' = None
  BY <1>1, <1>3 DEF KnownAct, Inv
<1>4. CASE Refused
  <2> SUFFICES ASSUME act.does.fails = "fetches" PROVE KnownAct'
    BY <1>3, <1>4 DEF Refused
  <2>1. act.does = Fetches => act.does.fails = "apart"
    BY DEF Fetches, Does
  <2>2. act.does \in view.acts /\ act # None
    BY <1>4, <2>1 DEF Inv, KnownAct, Refused
  <2>3. view.checks # "all"
    BY <1>2, <2>2 DEF Sound
  <2>4. ~view.waits
    BY <1>2, <2>2 DEF Sound, Does
  <2>5. act'.does = Fetches
    <3>1. act \in Acting
      BY <2>2 DEF Inv, TypeOK
    <3> QED BY <1>4, <3>1 DEF Refused, Fetches, Acting
  <2> QED BY <1>1, <2>3, <2>4, <2>5 DEF KnownAct
<1>5. ASSUME NEW a \in view.acts, Act(a) PROVE KnownAct'
  BY <1>1, <1>5 DEF Act, KnownAct
<1> QED
  BY <1>3, <1>4, <1>5 DEF Next, Due, Reload, Blank, Close, Edit, Done, Open, Read, Answer, Fail, vars

LEMMA OnlyFilesStep ==
  ASSUME Inv, [Next]_vars
  PROVE  OnlyFilesAreRead'
<1>1. view' = view
  BY ViewStays
<1>2. CASE UNCHANGED file
  BY <1>1, <1>2 DEF file, Inv, OnlyFilesAreRead
<1>3. ASSUME NEW key \in Keys, Open(key), view.reads PROVE OnlyFilesAreRead'
  BY <1>1, <1>3 DEF OnlyFilesAreRead
<1>4. ASSUME NEW i \in Requests, Read(i) PROVE OnlyFilesAreRead'
  BY <1>1, <1>4 DEF Read, Inv, OnlyFilesAreRead
<1> QED
  BY <1>2, <1>3, <1>4
  DEF Next, Due, Reload, Blank, Close, Edit, Done, Refused, Open, Answer, Fail, Act, vars

\* What load() leaves behind.
LEMMA LoadAsks ==
  ASSUME TypeOK, NEW key \in Keys, Load(key)
  PROVE  /\ \E i \in Requests : asked[i] = None /\ asked' = [asked EXCEPT ![i] = key]
         /\ \E i \in Requests : asked'[i] = key
         /\ loading' = Spins(shown')
  BY DEF Load, Free, Asked, TypeOK

\* An action of a view that checks leads to what it shows, or says.
LEMMA CheckedActs ==
  ASSUME Inv, view.checks = "all", act # None
  PROVE  /\ act.does.then = "clears" => "error" \notin view.onFailure
         /\ act.does.fails = "error" /\ "error" \in view.onFailure => act.does.then = "leaves"
         /\ act.does.fails # "fetches"
  BY ViewIsSound DEF Inv, KnownAct, Sound

LEMMA ShowsOrSaysStep ==
  ASSUME Inv, [Next]_vars
  PROVE  ShowsOrSays'
<1> SUFFICES ASSUME view.checks = "all", opened' # None
             PROVE  (Pending \/ Current \/ Failed \/ Gone)'
  BY ViewStays DEF ShowsOrSays
<1>1. view' = view /\ TypeOK /\ TypeOK'
  BY ViewStays, StepType DEF Inv
<1>2. Sound(view)
  BY <1>1, ViewIsSound
<1>3. CASE Due
  <2>1. opened \in Keys
    BY <1>1, <1>3 DEF Due, TypeOK
  <2> QED BY <1>1, <1>3, <2>1, LoadAsks DEF Due, Pending
<1>4. CASE Reload
  <2>1. opened \in Keys
    BY <1>1, <1>4 DEF Reload, TypeOK
  <2> QED BY <1>1, <1>4, <2>1, LoadAsks DEF Reload, Pending
<1>5. CASE Blank \/ Close
  BY <1>5 DEF Blank, Close, Closed
<1>6. CASE Edit
  BY <1>6 DEF Edit, Inv, ShowsOrSays, Pending, Current, Failed, Gone
<1>7. CASE Done
  <2>1. CASE Closed
    BY <2>1 DEF Closed
  <2>2. CASE Shows
    <3>1. shown' \in Shown /\ shown'.by = "act"
      BY <1>1, <1>7, <2>2 DEF Shows, By, TypeOK, Shown, Acting, Done
    <3> QED BY <3>1, ViewsAssumption DEF Current
  <2>3. CASE Reloads
    <3>1. opened \in Keys /\ Load(opened)
      BY <1>1, <2>3 DEF Reloads, TypeOK
    <3> QED BY <1>1, <2>3, <3>1, LoadAsks DEF Reloads, Pending
  <2>4. CASE act.does.then = "retypes" /\ Retypes
    <3> DEFINE SameText == opened # None /\ text[opened] = text[act.of]
    <3>1. CASE ~SameText
      <4>1. timer'
        BY <2>4, <3>1 DEF Retypes
      <4> QED BY <4>1 DEF Pending
    <3>2. CASE SameText
      <4>1. UNCHANGED <<opened, shown, asked, error>> /\ (timer => timer')
        BY <2>4, <3>2 DEF Retypes
      <4>2. ~("error" \in view.onFailure /\ act.does.fails = "error")
        BY <1>7, <2>4, CheckedActs DEF Done
      <4> QED BY <1>1, <4>1, <4>2 DEF Inv, ShowsOrSays, Pending, Current, Failed, Gone
    <3> QED BY <3>1, <3>2
  <2>5. CASE act.does.then = "stays" /\ Stays
    <3>1. ~("error" \in view.onFailure /\ act.does.fails = "error")
      BY <1>7, <2>5, CheckedActs DEF Done
    <3> QED BY <1>1, <2>5, <3>1 DEF Stays, Inv, ShowsOrSays, Pending, Current, Failed, Gone
  <2>6. CASE act.does.then = "clears" /\ Clears
    BY <1>1, <1>7, <2>6, CheckedActs DEF Clears, Done, Gone
  <2> QED BY <1>7, <2>1, <2>2, <2>3, <2>4, <2>5, <2>6 DEF Done
<1>8. CASE Refused
  <2>1. act' = None /\ (act.does.fails = "error" => error') /\ (error => error')
    BY <1>8, CheckedActs DEF Refused
  <2> QED BY <1>1, <1>8, <2>1 DEF Refused, Inv, ShowsOrSays, Pending, Current, Failed, Gone
<1>9. ASSUME NEW key \in Keys, Open(key) PROVE (Pending \/ Current \/ Failed \/ Gone)'
  <2>1. view.loads /\ ~view.reads
    BY <1>2 DEF Sound
  <2>2. CASE Load(key)
    BY <1>1, <1>9, <2>2, LoadAsks DEF Open, Pending
  <2> QED BY <1>9, <2>1, <2>2 DEF Open, Pending
<1>10. ASSUME NEW i \in Requests, Answer(i) PROVE (Pending \/ Current \/ Failed \/ Gone)'
  <2>0. opened' = opened /\ opened # None
    BY <1>10 DEF Answer
  <2>1. CASE asked[i] = opened
    <3>1. shown' = By("load", opened) \/ (shown' = shown /\ Finished)
      BY <1>10, <2>0, <2>1 DEF Answer, ShownAfter, Compares, Takes
    <3>2. CASE shown' = By("load", opened)
      <4>1. shown' \in Shown /\ shown'.of = opened'
        BY <1>1, <1>10, <2>1, <3>2 DEF By, Answer, Sent, TypeOK, Shown
      <4> QED BY <4>1, ViewsAssumption DEF Current
    <3>3. CASE shown' = shown /\ Finished
      BY <3>3 DEF Finished, Current
    <3> QED BY <3>1, <3>2, <3>3
  <2>2. CASE asked[i] # opened
    <3>1. UNCHANGED <<opened, shown, error, timer, act>>
      BY <1>10, <2>0, <2>2 DEF Answer, ShownAfter, Compares, Takes
    <3>2. Pending => Pending'
      BY <1>1, <1>10, <2>2, <3>1 DEF Answer, Asked, Pending, TypeOK
    <3> QED BY <1>1, <3>1, <3>2 DEF Inv, ShowsOrSays, Current, Failed, Gone
  <2> QED BY <2>1, <2>2
<1>11. ASSUME NEW i \in Requests, Fail(i) PROVE (Pending \/ Current \/ Failed \/ Gone)'
  <2>1. CASE "error" \in view.onFailure
    BY <1>1, <1>11, <2>1 DEF Fail, Failed
  <2>2. CASE "error" \notin view.onFailure /\ "gone" \in view.onFailure
    BY <1>1, <1>11, <2>2 DEF Fail, Gone
  <2>3. CASE "error" \notin view.onFailure /\ "gone" \notin view.onFailure
    <3>1. view.clears /\ UNCHANGED <<opened, shown>>
      BY <1>2, <1>11, <2>3 DEF Sound, Fail
    <3> QED BY <1>1, <2>3, <3>1 DEF Inv, NothingOld, Current, Gone
  <2> QED BY <2>1, <2>2, <2>3
<1>12. ASSUME NEW a \in view.acts, Act(a) PROVE (Pending \/ Current \/ Failed \/ Gone)'
  <2>1. a.fails = "error" \/ error' = error
    BY <1>1, <1>12 DEF Act, TypeOK
  <2>2. act' # None /\ act'.does = a
    <3>1. a \in Acts /\ (IF view.reads THEN content ELSE opened) \in Keys
      BY <1>1, <1>2, <1>12 DEF Act, Sound, TypeOK
    <3>2. act' \in Acting /\ act'.does = a
      BY <1>12, <3>1 DEF Act, Acting
    <3> QED BY <3>2, ViewsAssumption
  <2> QED BY <1>1, <1>12, <2>1, <2>2 DEF Act, Inv, ShowsOrSays, Pending, Current, Failed, Gone
<1>13. CASE UNCHANGED vars
  BY <1>13 DEF vars, Inv, ShowsOrSays, Pending, Current, Failed, Gone
<1>14. ASSUME NEW i \in Requests, Read(i) PROVE FALSE
  BY <1>2, <1>14 DEF Read, Sound, Inv, OnlyFilesAreRead
<1> QED BY <1>3, <1>4, <1>5, <1>6, <1>7, <1>8, <1>9, <1>10, <1>11, <1>12, <1>13, <1>14 DEF Next

LEMMA NothingOldStep ==
  ASSUME Inv, [Next]_vars
  PROVE  NothingOld'
<1> SUFFICES ASSUME view.checks = "all", view.clears, opened' # None, shown' # None,
                    shown'.by = "load"
             PROVE  shown'.of = opened'
  BY ViewStays DEF NothingOld
<1>1. CASE UNCHANGED <<opened, shown>>
  BY <1>1 DEF Inv, NothingOld
<1>2. CASE Blank \/ Close
  BY <1>2 DEF Blank, Close, Closed
<1>3. CASE Done
  <2>1. CASE Closed
    BY <2>1 DEF Closed
  <2>2. CASE Shows
    BY <1>3, <2>2 DEF Shows, By
  <2>3. CASE Retypes
    BY <1>1, <2>3 DEF Retypes
  <2>4. CASE Clears
    BY <2>4 DEF Clears
  <2>5. CASE Stays \/ Reloads
    BY <1>1, <2>5 DEF Stays, Reloads
  <2> QED BY <1>3, <2>1, <2>2, <2>3, <2>4, <2>5 DEF Done
<1>4. ASSUME NEW key \in Keys, Open(key) PROVE shown'.of = opened'
  BY <1>4 DEF Open, AfterOpening
<1>5. ASSUME NEW i \in Requests, Answer(i) PROVE shown'.of = opened'
  <2>0. opened' = opened /\ opened # None
    BY <1>5 DEF Answer
  <2>1. CASE shown' = shown
    BY <1>1, <2>0, <2>1
  <2>2. CASE shown' # shown
    <3>1. asked[i] = opened
      BY <1>5, <2>0, <2>2 DEF Answer, ShownAfter, Compares, Takes
    <3> QED BY <1>5, <2>0, <2>2, <3>1, AnswerShows DEF By
  <2> QED BY <2>1, <2>2
<1>6. ASSUME NEW i \in Requests, Fail(i) PROVE shown'.of = opened'
  BY <1>1, <1>6 DEF Fail
<1> QED
  BY <1>1, <1>2, <1>3, <1>4, <1>5, <1>6 DEF Next, Due, Reload, Edit, Refused, Read, Act, vars

LEMMA DraftOfOpenedStep ==
  ASSUME Inv, [Next]_vars
  PROVE  DraftOfOpened'
<1> SUFFICES ASSUME draft' # None
             PROVE  view.edits /\ opened' # None /\ (draft'.by = "load" => draft'.of = opened')
  BY ViewStays DEF DraftOfOpened
<1>1. CASE UNCHANGED <<opened, draft>>
  BY <1>1 DEF Inv, DraftOfOpened
<1>2. CASE Edit
  <2>1. shown # None /\ draft' = shown /\ UNCHANGED opened /\ opened # None /\ view.edits
    BY <1>2 DEF Edit, Displayed
  <2>2. view.checks = "all" /\ view.clears
    BY <2>1, ViewIsSound DEF Inv, Sound
  <2>3. shown \in Shown
    BY <2>1 DEF Inv, TypeOK
  <2> QED BY <2>1, <2>2, <2>3 DEF Inv, NothingOld, Shown
<1>3. CASE Blank \/ Close
  BY <1>3 DEF Blank, Close, Closed
<1>4. CASE Done
  <2>1. CASE Closed \/ Shows \/ Reloads
    BY <2>1 DEF Closed, Shows, Reloads
  <2>2. CASE act.does.then = "retypes" /\ Retypes
    <3>1. draft # None /\ view.edits
      BY <2>2 DEF Retypes, Inv, DraftOfOpened
    <3>2. act.does \in view.acts
      BY <1>4, <2>2 DEF Done, Inv, KnownAct, Fetches, Does
    <3> QED BY <2>2, <3>1, <3>2, ViewIsSound DEF Inv, Sound
  <2>3. CASE Stays \/ Clears
    BY <1>1, <2>3 DEF Stays, Clears
  <2> QED BY <1>4, <2>1, <2>2, <2>3 DEF Done
<1>5. ASSUME NEW key \in Keys, Open(key) PROVE FALSE
  BY <1>5 DEF Open, AfterOpening
<1> QED
  BY <1>1, <1>2, <1>3, <1>4, <1>5 DEF Next, Due, Reload, Refused, Read, Act, Answer, Fail, vars

\* Loading a preview is shown: it is not the dashboard.
LEMMA PreviewSpins ==
  ASSUME TypeOK, Restores
  PROVE  Spins(shown')
<1>1. view # HomePage
  BY DEF HomePage, Page, Restores
<1> QED BY <1>1, ViewIsSound DEF Spins, Sound, Restores

LEMMA OneAtATimeStep ==
  ASSUME Inv, [Next]_vars
  PROVE  OneAtATime'
<1> DEFINE Goal ==
      /\ ~timer'
      /\ \A i, j \in Requests : asked'[i] # None /\ asked'[j] # None => i = j
      /\ \A i \in Requests : asked'[i] # None =>
           loading' /\ act' = None /\ (opened' # None => asked'[i] = opened')
      /\ act' # None => loading' /\ (opened' # None => act'.of = opened')
      /\ shown' # None /\ opened' # None => shown'.of = opened'
<1> SUFFICES ASSUME Restores PROVE Goal
  BY ViewStays DEF OneAtATime, Restores
<1>1. /\ TypeOK /\ Sound(view)
      /\ view.waits /\ ~view.reads /\ reading = {}
      /\ view.clears /\ view.loads /\ ~view.reloads /\ ~view.typed /\ ~view.blank /\ ~view.edits
  BY ViewIsSound DEF Inv, Sound, Restores, OnlyFilesAreRead
<1>2. /\ ~timer
      /\ \A i, j \in Requests : asked[i] # None /\ asked[j] # None => i = j
      /\ \A i \in Requests : asked[i] # None =>
           loading /\ act = None /\ (opened # None => asked[i] = opened)
      /\ act # None => loading /\ (opened # None => act.of = opened)
      /\ shown # None /\ opened # None => shown.of = opened
  BY DEF Inv, OneAtATime
<1>3. act # None => /\ act.does = Does("shown", "shows", "error")
                    /\ \A i \in Requests : asked[i] = None
  BY <1>1, <1>2 DEF Inv, KnownAct, Sound
<1>4. CASE Due \/ Reload \/ Blank \/ Edit
  BY <1>1, <1>2, <1>4 DEF Due, Reload, Blank, Edit
<1>5. CASE Close
  <2>1. CASE view.dialog
    BY <1>2, <1>5, <2>1 DEF Close, Closed
  <2>2. CASE ~view.dialog
    BY <1>2, <1>5, <2>2 DEF Close, Closed
  <2> QED BY <2>1, <2>2
<1>6. CASE Done
  <2>1. act # None /\ act' = None
    BY <1>6 DEF Done
  <2>2. act.does.then = "shows"
    BY <1>3, <2>1 DEF Does
  <2>3. Shows
    BY <1>6, <2>2 DEF Done
  <2>4. shown'.of = act.of
    BY <2>3 DEF Shows, By
  <2>5. UNCHANGED <<opened, asked, timer>>
    BY <2>3 DEF Shows
  <2> QED BY <1>2, <1>3, <2>1, <2>4, <2>5
<1>7. CASE Refused
  <2>1. act # None /\ act' = None
    BY <1>3, <1>7 DEF Refused, Does
  <2> QED BY <1>2, <1>3, <1>7, <2>1 DEF Refused
<1>8. ASSUME NEW key \in Keys, Open(key) PROVE Goal
  <2>1. \A i \in Requests : asked[i] = None
    BY <1>1, <1>2, <1>8 DEF Open, Busy
  <2>2. act = None /\ act' = None
    BY <1>1, <1>2, <1>8 DEF Open, Busy
  <2>3. Load(key) /\ timer' = timer /\ opened' = key /\ shown' = None
    BY <1>1, <1>8 DEF Open, Typing, AfterOpening
  <2>4. loading'
    BY <1>1, <2>3, LoadAsks, PreviewSpins
  <2>5. PICK i \in Requests : asked' = [asked EXCEPT ![i] = key]
    BY <1>1, <2>3, LoadAsks
  <2>6. \A j \in Requests : asked'[j] # None => j = i /\ asked'[j] = key
    BY <1>1, <2>1, <2>5 DEF TypeOK
  <2> QED BY <1>2, <2>2, <2>3, <2>4, <2>6
<1>9. ASSUME NEW i \in Requests, Answer(i) PROVE Goal
  <2>1. \A j \in Requests : asked'[j] = None
    BY <1>1, <1>2, <1>9 DEF Answer, Sent, Asked, TypeOK
  <2>2. shown' = shown \/ shown'.of = asked[i]
    BY <1>9, AnswerShows DEF By
  <2>3. asked[i] # None /\ act = None
    BY <1>2, <1>9 DEF Answer, Sent
  <2> QED BY <1>2, <1>9, <2>1, <2>2, <2>3 DEF Answer
<1>10. ASSUME NEW i \in Requests, Fail(i) PROVE Goal
  <2>1. \A j \in Requests : asked'[j] = None
    BY <1>1, <1>2, <1>10 DEF Fail, Sent, Asked, TypeOK
  <2>2. asked[i] # None /\ act = None
    BY <1>2, <1>10 DEF Fail, Sent
  <2> QED BY <1>2, <1>10, <2>1, <2>2 DEF Fail
<1>11. ASSUME NEW a \in view.acts, Act(a) PROVE Goal
  <2>1. act'.of = opened /\ loading'
    BY <1>1, <1>11 DEF Act
  <2>2. \A i \in Requests : asked[i] = None
    BY <1>1, <1>2, <1>11 DEF Act, Busy
  <2> QED BY <1>2, <1>11, <2>1, <2>2 DEF Act
<1>12. CASE UNCHANGED vars
  BY <1>2, <1>12 DEF vars
<1>13. ASSUME NEW i \in Requests, Read(i) PROVE FALSE
  BY <1>1, <1>13 DEF Read
<1> QED BY <1>13, <1>4, <1>5, <1>6, <1>7, <1>8, <1>9, <1>10, <1>11, <1>12 DEF Next

LEMMA InvStep == Inv /\ [Next]_vars => Inv'
  BY StepType, KnownActStep, OnlyFilesStep, ShowsOrSaysStep, NothingOldStep, DraftOfOpenedStep, OneAtATimeStep
     DEF Inv

LEMMA InvHolds == Spec => []Inv
  BY InitInv, InvStep, PTL DEF Spec

-----------------------------------------------------------------------------
\* "Ignore responses for queries the user has already typed past": a view that compares
\* all it asked for shows an answer for what is open once all answers are there (doSearch
\* of SearchPage and six other views).
THEOREM OpenedIsShown == Spec => []SettledShowsOpened
<1>1. Inv => SettledShowsOpened
  <2> SUFFICES ASSUME Inv, view.checks = "all", Settled, opened # None, ~error
               PROVE  \/ shown # None /\ (shown.by = "load" => shown.of = opened)
                      \/ shown = None /\ "error" \notin view.onFailure
    BY DEF SettledShowsOpened
  <2>1. ~Pending
    BY DEF Settled, Pending
  <2>2. ~Failed
    BY DEF Settled, Failed
  <2> QED BY <2>1, <2>2 DEF Inv, ShowsOrSays, Current, Gone
<1> QED BY <1>1, InvHolds, PTL

\* A dashboard that load() showed is edited only while its space is open (the effect of
\* HomePage). Of one that the answer of save() showed nothing is said: it may be edited
\* while another space is open.
THEOREM LoadedEditsEnd == Spec => []EditsLoaded
<1>1. Inv => EditsLoaded
  BY DEF Inv, DraftOfOpened, EditsLoaded
<1> QED BY <1>1, InvHolds, PTL

\* The backup that is restored is the one whose summary is shown (check and restore of
\* SetupPage): not before it is checked, not another one chosen meanwhile.
THEOREM RestoresAreChecked == Spec => RestoresWhatItShows
<1>1. Inv /\ [Next]_vars =>
        [view.waits /\ ~view.reads /\ act = None /\ act' # None
           => shown # None /\ shown.of = act'.of]_vars
  <2> SUFFICES ASSUME Inv, Next, view.waits, ~view.reads, act = None, act' # None
               PROVE  shown # None /\ shown.of = act'.of
    BY DEF vars
  <2>1. PICK a \in view.acts : Act(a)
    BY DEF Next, Due, Reload, Blank, Close, Edit, Done, Refused, Open, Read, Answer, Fail
  <2>2. a.needs = "shown"
    BY ViewIsSound DEF Inv, Sound, Does
  <2>3. shown # None /\ opened # None /\ act'.of = opened
    BY <2>1, <2>2 DEF Act, Ready, Displayed
  <2> QED BY <2>3 DEF Inv, OneAtATime, Restores
<1> QED BY <1>1, InvHolds, PTL DEF Spec, RestoresWhatItShows
=============================================================================
