# Ragbag in TLA+

Ragbag is a self-hosted service for shared link collections: a Go server
(`cmd/`, `internal/`) with a SQLite or PostgreSQL database and a Svelte frontend
(`ui/v1`). This directory specifies the parts of both whose correctness depends on
what happens at the same time: on the server, the requests of several people; in the
browser, answers that come late, in any order or not at all. TLC checks them on small
instances, and the most important results are proved with TLAPS for every instance.

    tlc -workers 2 -config MCSpaces_membership.cfg MCSpaces     # one run
    tlapm SpacesProofs.tla                                      # all proofs about Spaces

`PROJECT.json` lists the runs, the definition-to-source map, a mutation of the model
for every checked property (the model must stop satisfying it), the hazards
and the findings.

## 1. The system

### How a request runs

Every handler of `internal/server` is called by the middleware of `server.go`, which
accepts a token (or none), reads the account and puts it into the context. A handler
then

1. reads and checks outside any transaction (`requireSpace`, `requireCollection`, ...),
2. usually opens a transaction with `store.InTx`, reads again, decides, writes,
3. commits, or rolls back on an error or when the client has gone away.

Other requests come between these steps. How much they can do depends on the
database (`internal/db/db.go`):

| | SQLite | PostgreSQL |
|---|---|---|
| begin | `_txlock=immediate`: takes the one write lock | default: READ COMMITTED |
| between reads and commit | no other writer | any other transaction |
| single statements outside a transaction | wait for the write lock | any time |
| keys, `ON DELETE CASCADE`, conditional `UPDATE` | decided when written | decided when written |

Everything else follows from this: steps 1 and 2 are never atomic, step 2 is atomic on
SQLite only.

### How the frontend runs

A page is one event loop. Between two `await`s nothing else runs; after each of them
everything may have changed: another address in the route, a dialog closed and opened
again, a second request of the same function under way. The generated API
(`sdk/apis`) checks its parameters and sends the request, `authMiddleware` of
`api/client.ts` renews the session in between, and what the answer brings is assigned to
the state of a component or of a store. Effects run a `load()` again whenever the address
they read changes; nothing cancels a request, so each component has to decide what to do
with an answer nobody waits for any more.

### Components

| Component | State | Operations | What makes it correct |
|---|---|---|---|
| Roles (`permissions.go`) | none | `AtLeast`, `Has`, `requireSpace`, `requireCollection`, `hiddenCollections` | the order of the roles; who may do what |
| Spaces and members (`spaces.go`, `quotas.go`) | `spaces`, `space_members`, join settings | create, join, leave, delete, change role, remove, join settings | every space has an owner; roles rise only with a reason; joining never downgrades; quota |
| Invites (`invites.go`) | `invites` | create, accept, revoke, expire | never used more often than allowed; one left over from a deleted space is never used again |
| Account removal (`moderation.go`) | all of the above, `users` | `DeleteAccount`, `DeleteUser` | spaces nobody else is in go, all others stay and have an owner |
| Accounts and sessions (`auth.go`, `email.go`, `moderation.go`) | `users` (password, token version, blocked, confirmed, deleted), `email_verifications`, `password_resets`, the tokens out there | register, confirm, login, refresh, sign out everywhere, change and reset the password, block, delete, hourly clean-up | revoked sessions stay out; only confirmed accounts are signed in; links work once |
| Collections (`collections.go`, `permissions.go`) | `collections` (parent, restricted, creator, deleted), `collection_members` | create, move, change access, delete | a tree; hidden means hidden, with everything below; access ends with membership; quota |
| Trash (`trash.go`) | `deleted_at` | restore, purge, hourly purge | restored is visible; nobody deletes what is hidden from them |
| Bookmarks, tags, favourites (`bookmarks.go`) | rows below a collection | create, move, edit, import, ... | visible like their collection; link quota |
| Public links and reports (`shares.go`, `moderation.go`) | `collection_shares`, `abuse_reports` | share, revoke, disable, report, decide | a private, deleted or disabled collection and one of a blocked account is not public |
| PIN locks (`locks.go`) | `collection_locks` with failures and a pause | lock, unlock, remove | guessing is slowed down |
| Rate limits, lockouts (`ratelimit.go`) | buckets in memory behind a mutex | `allow`, `fail`, `reset`, sweep | the limit holds for concurrent attempts |
| Setup (`setup.go`) | password file, admin account | `Bootstrap`, `CompleteSetup` | no account without a known password after a crash; setup happens once |
| Backups (`internal/backup`, `operations.go`) | files in a directory, the schedule | write, prune, restore, once a day | complete files only; the newest are kept; there is one every day |
| Session in the browser (`api/client.ts`, `sdk`, `App.svelte`) | access token, refresh cookie, the refresh under way | every operation of the API, refresh, retry, sign in and out, reload | one refresh for many 401s; nothing done twice; nobody refused for an expired token; no endless retries |
| Spaces, tree and lock (`AuthLayout.svelte`, `spaces.svelte.ts`, `lock.svelte.ts`, `SpaceRedirect.svelte`) | copies of the spaces and of the tree of one, the unlock token | load, navigate, create, leave, lock, unlock, renew, refresh every minute | the tree is of the space shown and catches up; who is removed is led away; only the PIN unlocks |
| Page of a collection (`CollectionPage.svelte`, `toast.svelte.ts`) | collection and links shown, selection, toasts | load, add, edit, move, tag, delete (one or several), undo | what is changed is what was shown; what a toast undoes was done |
| Other pages and dialogs (`pages`, `components`) | what was loaded, a draft, an error | open, load, type, edit, act, close | what is shown is what is open; nothing is edited, imported or restored but what was shown; nothing loads for ever |
| Dashboard, import/export, fetching, images, mail, configuration | personal rows, or none | single statements, input and output | no invariant several requests could break together |

They interact through the tables: the middleware reads what accounts write, removing a
member deletes rows of collections, deleting an account goes through spaces, members and
invites, and every read of a collection goes through the members of its space.
The only memory shared by requests outside the database are the rate limiters and the
backup schedule. In the browser all components share the token and the refresh of
`api/client.ts`, the stores, and the address in the route.

### What is hard

- *Check, then act.* A permission, a count or a tree is read and used later
  (`requireAnotherOwner`, `managedMember`, `MoveCollection`, `checkCollectionQuota`,
  reset and confirmation links).
- *Overlapping transactions* on PostgreSQL, where nothing read is locked.
- *Long histories*: nested collections deleted, restored, moved and purged in any order;
  memberships handed from one to the next; mail turned on and off between registration,
  login and confirmation.
- *Rows that cascade*: deleting a space, a member, a collection or an account takes rows
  along which belong to other people's requests under way.
- *Slow steps*: bcrypt between reading an account and issuing its tokens.
- *Restarts* drop all requests under way; files and tables stay.
- *Late answers* in the browser: for an address that was left, before an earlier one,
  after the dialog was closed, or after the session, the membership or the lock ended.
- *Lost answers*: the server has done it, the page does not know.

`PROJECT.json` lists each of these at its line, with the properties that would notice it
going wrong or the reason why none covers it yet.

## 2. The modules

| Module | What it is |
|---|---|
| `Roles` | roles, their order and permissions |
| `Ownership` | abstract: what the service promises about who owns a space |
| `Spaces` | spaces, members, invites, account removal; implements `Ownership` on SQLite |
| `Accounts` | accounts, sessions, links by mail |
| `Collections` | the collections of one space: tree, access, trash |
| `Operations` | every operation of the API as the browser sees it |
| `Client` | the session of a browser tab; composes `Operations` with the part of the middleware it meets |
| `Sidebar` | spaces, tree and lock in the browser, beside a server others change |
| `CollectionPage` | the page of a collection |
| `Views` | 27 other pages and dialogs |
| `MC...` | instances for TLC |
| `...Proofs` | theorems: `SpacesProofs`, `OwnershipProofs` (actions of `Spaces`, and that it implements `Ownership`), `AccountsProofs`, `CollectionsProofs`, `TrashProofs` (trash and leaving in `Collections`), `ClientProofs`, `SidebarProofs`, `ViewsProofs` |

### Spaces and Collections: requests in three steps

Both modules run a request of a process (`Procs`: how many requests the server handles at
the same time) as

- `Call`: the middleware let it in and the checks outside the transaction passed;
- `...Tx`, one action per handler: the transaction began, its statements read the
  committed tables and decided what to write. That is the record `plan[p]`;
- `Commit`: the plan takes effect, unless a key or a conditional `UPDATE` refuses it now
  (`Refused`);
- `Drop`: a check inside the transaction refused, a key did, or the client left.

`Serial` tells the databases apart: it lets a transaction begin only when none is open.
All reads of a transaction happen in one step and a statement outside a transaction is one
step, so for PostgreSQL the models have fewer interleavings than the database: what they
find is real, what they pass is checked for the interleavings they have.

In `Spaces`, `role[s][u]` is the table `space_members` (`NoRole`: no row). Plans change
membership rows (`Keep` leaves one alone, so two plans can change different rows of one
space), make and delete spaces, count invites and anonymise accounts. `joinSpace`,
`removeAccount` and `NextOwner` are operators with the names of the functions. An id is
`spent` when it is drawn and never comes back. Time is the action `ExpireInvite`.

In `Collections`, `collections` maps the ids in the table to rows with parent, `private`
(`restricted`), `access` (`collection_members`), creator and trash flag. Code that walks up
(`MoveCollection`, `trashedAbove`, `hiddenCollectionsOf`) or down (`subtree`, `descendants`, the
cascade) is expressed by `Line(c)`: the smallest set that holds `c` and is closed under
parents. It needs no recursion and is well defined for a graph with a cycle as well, which
is what a broken tree would be. `RestoreFromTrash` handles one id after the other in the
order of the request; the model allows every result one of the orders has (`BackToTop`).
Joining and roles are single steps here; the rule that keeps an owner is what
`Spaces` establishes. Leaving is one step of a set of people, `RemoveMember(S)`: on SQLite of
one person, on PostgreSQL of several whose transactions overlap. Each of them looks for
collections left without members while it still finds the rows of the others
(`Abandoned(AccessWithout({u}))`), then all rows are gone.

### Accounts: read, compute, write

A process holds what its request has read (`job[p]`). Login reads the account and issues
tokens later from what it read; `ChangePassword` writes and then reads again;
reset and confirmation links are looked up before their transaction. A token carries the
token version of its account and is accepted while that is not below the version in the
table (`Accepted`, the condition of `authenticate` and of `Refresh`). The hourly deletion of
unconfirmed accounts, the expiry of links and restarts (which may turn mail on or off and
drop every request) are actions. `used` and the field `revoked` are history: nothing
reads them but the properties.

### Client: calls and one renewal

`Operations` has a record for every operation of the generated API: the parameters without
which it rejects at once, whether it carries the access token, and its address as far as
it matters (below `/auth/`, public). `Client` lets a page make several of them at once
(`Calls`). A call is sent, answered, perhaps waits for the renewal, is sent once more, and
ends; each of these is an action, and so are the steps of the renewal (`refreshPromise`) and
of the refresh with which `App.svelte` starts. Requests and answers can be lost (`Lose`).
Tokens are `live` or `dead`: expiry (`Expire`), sessions that are revoked (`Revoke`) and a
cookie that is gone (`DropCookie`) happen at any time. A call takes the token its API object
was made with, which for calls of components is the one of the time they were mounted: an
older one, or none (`MayHold`). `handled` counts how often the server ran the handler of a
call; nothing reads it but the properties.

### Sidebar: copies of what the server has

`member`, `made` and `locked` are the server's, changed by this person and by others;
`spaces` and `tree` are the copies. `asking` is the one request for the spaces all wait for
(`loading ??= ...`) together with what happens then; `load` are the requests for a tree, each
on its own. A page is a space with a collection or not, or the start page, where no layout
is mounted. Everything that asks for a tree does so by `Fetched`, whatever shows a page by
`Show`. Effects run in the step that changes what they read, but for leaving a space that
is not in the list (`LeaveOutside`), which navigates.

### CollectionPage: links changed one by one

The links are rows on the server (`link`) and copies on the page (`shown`). A change is a
job: it sends one request per link until one fails (`Step`), and `EndOf...` is what the code
does afterwards, in its order, on a page that may show another collection by then or
be gone (`here`). Toasts keep what they undo.

### Views: one machine, a record per view

The other pages and dialogs are built alike, so what tells them apart is a record of their
decisions: what an answer is compared with before it is shown (`checks`: all that was asked
for, its text only, or nothing), what goes when something else is opened (`clears`), what
is shown while it loads and after a failure, whether typing delays loading, whether what is
opened is a file that is read first (`reads`), whether nothing else can be opened while it is
busy (`waits`), and what its actions need and lead to (`acts`). `Chosen` says which of them a
run has. The comment of each field says what it stands for in the code.

What is open is an address of `Keys`, which stands for all that a request depends on: the
space, and the text typed where there is one. `text[key]` is the text alone. So
`LinkPickerModal` (`q === query`) and `LinkFormFields` (`url.trim() === wanted`) take the
answer for another space with the same text, and `SearchPage`, which compares both, does
not. A preview of an import starts with `Choose`, its file is read by `Read`, and only then is the
dialog busy; until then another file can be chosen. `content` is the file read last, which is
what `runImport` sends. Checks of backups send the file itself and are busy at once.

Two things are coarser than the code: opening the import dialog and choosing the first file
are one step, and a view has one action under way at a time, although those with several
buttons could start a second one before the first is answered.

## 3. The runs

The runs of the server take two concurrent requests. Two are enough to put a whole request
between any two steps of another one; more than one thing can happen there, since that
process can start again at once.

| Run | Instance | Shows |
|---|---|---|
| `membership` | SQLite, 3 people, 1 space, all operations on members and accounts | `EverySpaceHasOwner`, `SharedSpacesSurvive`, `RisesAreGranted`, and the refinement of `Ownership` |
| `inviting` | SQLite, 2 people, 2 spaces, 1 invite (limit 1 or none), quota 1 | `DeadInvitesStayUnused`, `JoiningNeverDowngrades`, `CreatingStaysWithinQuota` |
| `postgres_accepting` | PostgreSQL, 3 people, 1 space, 1 invite (limit 1 or 2) | `UsedWithinLimit`, `NobodyInDeletedSpaces` |
| `signed_in` | 1 account, 2 passwords, 2 links | `RevokedStaysOut`, `SignedInIsConfirmed`, `FirstSpaceWithConfirmation` |
| `tree` | SQLite, 1 person, 4 ids, quota 3 | `TreeIsRooted`, `WithinCollectionQuota`, `RestoredIsVisible` |
| `private` | SQLite, 2 people, 2 collections | `AccessOnlyForMembers`, `PrivateHasMembers`, `TakesNothingHidden`, `LeavingTakesNothingSeen` |
| `renewing` | 2 calls, one of every operation, one of `me` | `HandledAtMostOnce`, `RenewedUnlessRevoked`, `EveryCallEnds` |
| `sidebar` | 2 spaces, 1 collection, 2 requests for a tree, 2 events | `TreeOfOpenSpace`, `UnlockedByPin`, `TreeCatchesUp`, `EventuallyMember` |
| `views` | 27 views, 3 addresses, 2 of them with the same text, 3 requests of `load()` | `SettledShowsOpened`, `EditsLoaded`, `RestoresWhatItShows`, `LoadingEnds` |
| `postgres_last_owner` | PostgreSQL, 3 people, 1 space | `EverySpaceHasOwner` fails (finding 1) |
| `ran_out` | 1 call at a time, reading or signing out everywhere | `EverywhereMeansEverywhere` fails (finding 2) |
| `deletes_another` | 2 collections, 1 link, 2 requests | `DeletesWhatItNames` fails (finding 3) |

The `TypeOK` of each module but `CollectionPage` is checked with one of them. `deletes_another` runs
`CollectionPage` with the only change its property is about; its `Does` with all changes at
once is too large for TLC to finish (no violation of its `TypeOK` among 19 million states).

Why the bounds are enough:

- *People*: three are the owner who goes, the heir, and somebody above or below; one of
  them is an instance admin, the others are alike (symmetry). The tree needs no second
  person, as all people see the same tree when nothing is private. Two are enough in `inviting`:
  who invites and who comes, so that there is room for a second space.
- *Ids*: a spent id never comes back, so one space also covers its whole life: made, left,
  deleted. Four ids with a quota of three allow three levels and a new collection after one
  was purged, and the fourth one reaches the quota. Two collections are an outer one and an
  inner one, the smallest case in which one hides the other.
- *`Limits`, `MaxUsed`*: how many uses an invite allows; `MaxUsed` only stops the counting of
  unlimited ones. It is 2 in `inviting`: somebody joins with an invite, is demoted, and accepts
  it again while being promoted.
- *`MaxVersion` = 2, `MaxFirst` = 2*: tokens are revoked twice, so one of each earlier version
  exists; a second first space is the most two overlapping confirmations create.
- *`Traffic`, `GivenRoles`, `Restricted`*: what clients send in this run. The runs of a module
  together contain every operation.
- *Two calls* in `renewing`: one whose 401 starts the renewal and one that joins it, comes
  after it, or is answered in between; each may be called again and again. That one of them
  goes through all operations covers each against a call that is renewed.
- *`Loads` = 2, `MaxEvents` = 2* in `sidebar`: two answers are the least that can come in the
  wrong order. Events are what people do and requests that are lost; two of them are
  enough to switch away and back, or to lock while something else happens. Answers, the
  minute's refresh, renewals of the unlock and leaving a space are not counted: they go on
  for ever, which is what the liveness properties need.
- *Three `Keys` and `Requests`* in `views`: what is open, what was open before, and what was
  open before that, each with an answer that is still to come. Two of the addresses contain
  the same text (the same query in two spaces), the third another one.

`CHECK_DEADLOCK FALSE` is set in `membership`, where everybody's account can
be deleted: the service then has nobody left to ask; and in `sidebar` and
`deletes_another`, where the bound on events, or the last link, ends what can happen.

**Fairness.** The specifications of the server have none: nothing in the modelled handlers waits for
anything but the write lock, and whether a client sends a request is its own decision. Those of the
browser have what the event loop and HTTP give:

- `Client`: a request is answered or the browser gives up (`Lose` is one of the steps of
  `Reply`), the callbacks of an answer run, and a page that was told to open another one
  does so (`Leave`). Nothing is assumed about the server letting anybody in. `EveryCallEnds`
  follows for calls that wait for a renewal somebody else started.
- `Sidebar`: the timer of `refreshCounters` fires, answers come, the effect of `AuthLayout`
  runs. Strong fairness for `SpacesAnswer` only makes up for the bound `Loads`: an answer
  that shows another space needs a request for its tree, and the timer could take the
  last one every time; in the browser there is always another request to be had.
  Losing requests is an event and therefore ends: a connection that never works again
  refutes nothing.
- `Views`: each request of `load()` is answered or fails, and so is each action. Nothing is
  assumed about files being read: a view is busy only after that.

## 4. Findings

1. **Two owners leave at the same time (PostgreSQL)**, run `postgres_last_owner`.
   `requireAnotherOwner` counts owners in a READ COMMITTED transaction; each of two overlapping
   ones counts the other. The space is left without an owner, against "A space needs at
   least one owner". `SpacesKeepOwners` proves that this cannot happen on SQLite.
2. **Signing out everywhere does nothing when the access token ran out**, run `ran_out`. The
   middleware does not renew what is below `/auth/`, which is meant for login and refresh, but
   `POST /auth/logout/all` needs a session. It is answered 401, the layout ignores the error and
   shows the login page, and every session stays valid, that of this browser as well, since its
   cookie is kept too.
3. **The page of a collection deletes another one**, run `deletes_another`. The page shows every
   answer, also that for a collection that was left since. Its dialogs then name the collection
   shown and act on the one of the address.

The following were found with the same modules. Their properties are still defined
there; an instance that shows each is one `.cfg` away (constants not named are as in the
run given):

| What | Module, property | Instance |
|---|---|---|
| A reset link sets two passwords, when two requests look it up before either deletes it (`auth.go:335`); the mail says it "works once". | `MCAccounts`, `ResetLinkWorksOnce` | as `signed_in` |
| Two concurrent moves close a circle (PostgreSQL, `collections.go:218`). `TreeStaysRooted` proves that this cannot happen on SQLite. | `MCCollections`, `TreeIsRooted` | as `tree`, `Collections <- Two`, `Serial = FALSE`, `Quota = 0`, `Traffic <- Moving` |
| A contributor moves a shared collection of somebody else into a private one of their own, although only its creator or an admin may hide it (`collections.go:361`). | `MCCollections`, `SharedStaysShared` | as `private`, `Procs <- Single`, `GivenRoles = {"CONTRIBUTOR"}`, `Traffic <- Hiding` |
| A private collection inside another one keeps members none of whom sees the outer one, after the last who did has left (`store/spaces.go:194`). | `MCCollections`, `LeavingLeavesNothingUnreachable` | as `private`, `Users <- Trio`, `Procs <- Single`, `Traffic <- Sharing` |
| Somebody is led away from a space they just joined: the layout trusts a list that was answered before (`AuthLayout.svelte:160`). | `MCSidebar`, `OnlyOutsidersLeave` | as `sidebar` |
| After locking, a tree that was asked for with the unlock token arrives last and shows what is locked, until the next refresh (`AuthLayout.svelte:89`). | `MCSidebar`, `HiddenWhileLocked` | as `sidebar` |
| Deleting several links where one request fails offers to undo all; the server then restores none, as one is not in the trash (`CollectionPage.svelte:284`, `trash.go:174`). | `MCCollectionPage`, `DeletingCanBeUndone` | as `deletes_another`, one collection, two links, `Loads = {1}` |

| The last two people with access to a private collection leave at the same time (PostgreSQL): each transaction still finds the access of the other (`store/spaces.go:195`), and the collection stays with nobody, although "Private collections nobody can see anymore would be unreachable data". `PrivateCollectionsHaveMembers` proves that this cannot happen on SQLite. | `MCCollections`, `PrivateHasMembers` | as `private`, `Serial = FALSE` |
| What is imported is not what the preview showed: while one file is still read (`ImportCollectionModal.svelte:52`) another one can be chosen, or the dialog opened again; the preview may then be of one file and `content` of the other. The comment says "so the preview is exact" (:60). | `MCViews`, `DoesWhatItPreviewed` | as `views` |
| The answer to saving a dashboard is shown whatever space is open by then (`HomePage.svelte:160`); who edits and saves it overwrites the dashboard of that space with the one of another. | `MCViews`, `EditsOpened` | as `views` |

The first finding has siblings with the same cause: on PostgreSQL `JoiningNeverDowngrades` (a
promotion between reading the membership and writing it is lost), `SharedSpacesSurvive`
(somebody joins a space that is about to be deleted with its only member's account) and
`RisesAreGranted` (the manager is demoted before the commit) do not hold either. To see
it, set `Serial` to `FALSE` in `inviting` (the first) and `membership` (the others).
`UsedWithinLimit` and `NobodyInDeletedSpaces` do hold there, as `postgres_accepting` shows.

Not findings, since no text of the repository says otherwise, but visible in the models:
a request let in before its account was deleted still commits; promotion to owner does not
ask the quota; a second password change does not reach tokens issued after it by a first
one under way; two confirmations at the same time create two first spaces; an invite created
by a request that was let in before its space was deleted stays in the table, where it leads
nowhere; several pages and dialogs in `Views` show any answer that comes (their `checks` is
`"nothing"`), and the picker of links and the hint on duplicates one for another space with
the same text (`"text"`; `LinkPickerModal.svelte:44`, `LinkFormFields.svelte:51`): opened in
one space and again in another, the picker can offer links of the first; an update of a link
sends all of it as it was shown, so of two edits the later one wins.

## 5. What is proved

For any number of people, spaces, invites, collections, passwords, links and concurrent
requests, calls, loads and views, from the assumptions on the constants (`SpacesAssumption`,
`AccountsAssumption`, `CollectionsAssumption`, `ClientAssumption`, `SidebarAssumption`,
`ViewsAssumption`), which TLC evaluates in every run:

| Theorem | Databases | Inductive invariant |
|---|---|---|
| `TypeCorrect` | both | `TypeOK` |
| `SpacesKeepOwners` | SQLite | `OwnersInv` |
| `InvitesStayWithinLimit` | both | `UsesInv` |
| `MembershipsEndWithSpaces` | both | `RowsInv` |
| `DecisionsStand`, `SharedSpacesAreKept`, `JoiningNeverLowers`, `RisesNeedAGrant`, `QuotaHolds`, `InvitesOfDeletedSpacesAreDead`, `SpacesImplementOwnership`, `SpacesAreOwnedWhileTheyExist` | SQLite | `DecidedInv` of `OwnershipProofs` |
| `AccountsTypeCorrect` | | `TypeOK` |
| `SignedOutStaysOut`, `OnlyConfirmedSignIn` | | `SessionsInv` |
| `FirstSpaceComesWithConfirmation` | | `FirstSpaceInv` |
| `CollectionsTypeCorrect` | both | `TypeInv` |
| `PrivateCollectionsHaveMembers` | SQLite | `PrivateInv` |
| `TreeStaysRooted`, `OnlyMembersHaveAccess`, `CollectionsStayWithinQuota` | SQLite | `SerialInv` |
| `LeavingTakesOnlyTheirOwn` | both | `TypeInv` |
| `TrashDecisionsStand`, `NothingHiddenIsTaken`, `RestoringShowsAll` | SQLite | `DecidedInv` of `TrashProofs` |
| `SessionTypeCorrect`, `CallsHandledOnce`, `ExpiryIsRenewed` | | `Inv` of `ClientProofs` |
| `SidebarTypeCorrect`, `TreeIsOfOpenSpace`, `OnlyPinUnlocks` | | `Inv` of `SidebarProofs` |
| `TypesHold`, `OpenedIsShown`, `LoadedEditsEnd`, `RestoresAreChecked` | | `Inv` of `ViewsProofs` |

**Spaces keep owners.** That every space has an owner is not inductive: a plan that removes
the last one would break it at its commit. What is inductive is that carrying out the plan
of the one open transaction leaves an owner everywhere (`KeepsOwners`), that there is one
open transaction only (`OneWriter`, from `Serial`), and the types. Each handler is shown to
begin with such a plan from what it reads (`...Begins`); as nobody else writes before its
commit, the plan is still as good then. Without `Serial` the last step is wrong, and
`postgres_last_owner` shows it.

**Decisions stand.** What a commit may not do depends on what its handler read: whether the
joining person was a member already, who else is in a space, how many spaces somebody owns.
`DecidedInv` of `OwnershipProofs` therefore says of the open transaction that its plan is the
one its handler would decide upon now: `Decided(j, w)` has one case per operation, with the
checks inside the transaction and the writes they lead to. It begins true by the handler,
and stays true because on SQLite nobody else writes before the commit. With it, an action
property is a statement about one table and the next one. Two conjuncts come from
elsewhere: a space that exists has taken its id (`SpacesAreSpent`), without which a new space could
replace one, and no membership outlives its space (`NobodyInDeletedSpaces`), without which a
new space could have members. The latter needs no `Serial`: the cascade and the foreign keys
are decided when written. Invites are different: `CreateInvite` inserts its row without looking
at the space, so one can outlive it. What holds of these is that they are never used
(`InvitesOfDeletedSpacesAreDead`): accepting one has to insert a membership, for which there is no
space, and the use it counted is rolled back with it.

**Spaces implement Ownership.** Each commit is one action of `Ownership`, chosen by the operation:
creating, deleting, joining, leaving, a change of role, a removal, or the removal of an
account. Before the commit, only taking the id of a new space is a step (`Reserve`), and so is giving up
on it when the transaction is rolled back (`Forget`); the other beginnings, and what changes invites or
join settings, are stutters. `ready` is mapped to the ids the open transaction is about to insert
(`beingMade`), which on SQLite are at most one. The removal of an account is the hard commit: its plan
hands over each space the account owns alone to `NextOwner` and takes the spaces nobody
else is in, all in one abstract step. What `Ownership` promises then holds for `Spaces`: exactly the
spaces that exist have owners. The mapping needs that ids of spaces and of invites differ (`SpacesAssumption`),
as they are keys of different tables.

**Invites.** The `UPDATE` of `UseInvite` compares and counts the row it changes, so the
bound needs no `Serial`. It does need that an id names one invite (`InviteIdsAreKeys`).

**Sessions.** `SignedOutStaysOut` says that a session opened with a password checked before
the account was signed out everywhere is not accepted afterwards. The tokens alone do
not carry the argument: a login under way has read a version too, and may issue
its token after the revocation. The invariant says for tokens and for requests alike that a
revoked one has a version below the account's. `OnlyConfirmedSignIn` is about the
same invariant: an account that was read as confirmed stays confirmed.

That an account is confirmed exactly when it got a first space is not inductive as it is stated,
since it leaves out the deleted ones: `DeleteUnverifiedUsers` would take one with a space.
`OwnersAreConfirmed` adds that whoever has a first space is confirmed, deleted or not.

**Collections.** `TypeOK` contains the foreign key of the tree: a parent exists. It is kept by
the cascade because deleting takes everything below along: if the parent of a row is in
`Cascade(S)`, so is the row (`CascadeLeavesParents`, from `ParentLine`). It needs the shape
of plans as well (`PlanOK`): none both moves and deletes.
`PrivateHasMembers` needs no `Serial` for the requests that restrict collections, since whether a
row is private and who has access is written in one plan. It needs `Serial` for leaving: one
person who leaves takes the abandoned ones along in the same transaction, of two whose
transactions overlap neither does.
`TreeIsRooted` says that no set of collections has all its parents inside. For a move below
`q` the argument takes a set that would be closed after the move, and looks at its part
above `q`: nothing in it is moved (`MovesOK`), so it was closed before, which is
impossible. `SerialInv` adds that plans still fit the tables they were made from.

**Trash.** `DecidedInv` of `TrashProofs` is the same idea as for `Spaces`: what the handlers of the trash
looked for in their transaction is still so at the commit. The rest is about lines. Deleting
rows or moving some to the top level only makes lines shorter (`LinesShorten`), so nothing
gets into the trash that way. For restoring, take something restored that goes along with its
ancestor `m`, which went to the top: what is above it then was on the way to `m`
(`LineToMoved`). Were any of that in the trash, it would have to be above `m` as well as below,
and because the tree has no circle (`TreeIsRooted`) it would be `m` itself (`LinesEnd`), which
was restored. `LeavingTakesOnlyTheirOwn` needs neither `Serial` nor a plan: what one person's
transaction finds abandoned only that person had access to, whoever else is leaving.

**Session in the browser.** That no call is handled twice needs that only a call whose token was
refused is sent again, and that the server refused it before its handler. For `ExpiryIsRenewed` the
invariant adds that the second request carries a token the server has just handed out:
if it is refused again, that token was revoked meanwhile. All of this is said of each call
(`SoundCall`), so the proof of a step looks at one call (`OneCall`) and carries it over to
the others.

**Tree of the open space.** The invariant says that an answer brings the tree of the space it was asked
for, and that the start page has no request for a tree under way: without the second, an answer for
the page before could meet a layout that has asked for nothing yet. `OnlyPinUnlocks`
needs no invariant but the bound on events: of all steps only `Unlock` sets `unlocked`.

**Views.** `Sound` collects what the proofs use of the records, and `ViewsAreSound` shows it for
each of the 27, so the rest of the module knows nothing of single views. `OpenedIsShown` is about
the views that compare all they asked for, and follows from two facts: something is
shown, asked for, or the view says why not (`ShowsOrSays`), and actions are those of the view
(`KnownAct`). `LoadedEditsEnd` needs that what `load()` brought is of what is open
(`NothingOld`); of what the answer of `save()` brought this is not so, and the theorem says
nothing. `RestoresAreChecked` needs `OneAtATime`: while a backup is checked or restored nothing
else can be chosen, and the request under way is for what is open. For imports `OneAtATime` is
wrong, as two files can be read at once.

Every safety property of the passing runs is proved. Only model-checked are the liveness properties
`EveryCallEnds`, `TreeCatchesUp`, `EventuallyMember` and `LoadingEnds`: liveness under fairness
is out of the proof system's reach. So are `ENABLED`, induction over data, and recursive
operators (none of the modules has one). `CollectionPage` has no theorem: what it
promises does not hold.

## 6. Not modelled

- Names, descriptions, icons, order of siblings, welcome messages, the start space,
  visits: no property tells them apart.
- On the server: the links inside collections, public links, reports, the counter of wrong
  PINs, rate limits, the setup of an instance, backups. They are the next modules of the
  plan.
- In the browser: several tabs (but for one that signs out), the space bar and drag and
  drop, preferences, the fields of forms, filters and order, images.
- Dashboard and reactions on the server (personal rows, single statements), import and
  export (one transaction that creates rows), page fetching, mail delivery, configuration,
  logging, migrations and generated code of the server: no state that several actors
  share, or input and output only.
- The expiry of tokens in `Accounts`: it only makes fewer of them acceptable. `Client` has it.

## 7. Plan

Done: `Roles`, `Ownership`, `Spaces`, `Accounts`, `Collections`, `Operations`, `Client`,
`Sidebar`, `CollectionPage`, `Views`, with their runs and the theorems above. What would
add most next:

1. **`Links`**, on top of the collections of a space: bookmarks as rows of a collection, the
   link quota counted outside a transaction (`quotas.go`), public links, reports and their
   decision, disabling, and the PIN locks with their failure counter. Properties: nothing is
   public that is private, in the trash, disabled, or of a blocked account; a report decided
   once stays decided. The links of a blocked account that is deleted
   (`store/moderation.go`) are looked at here.
2. **`Registration`**, composing the invites of `Spaces` with the confirmation of `Accounts`:
   an account that registers with an invite whose space is deleted before it is confirmed.
3. **`Setup`**: `Bootstrap` with crashes between the file and the row, `CompleteSetup` racing
   itself.
4. **`RateLimiter`**: the buckets and lockouts, with time; never more than the limit in a
   window, and an attempt is possible again.
5. **`Backups`**: schedule, writing through a temporary file, pruning, crash and restart, a
   failed attempt and its retry. Liveness under weak fairness of the timer loop: one day
   later there is a new backup.
6. Proofs: an abstract specification of the trash that `Collections` implements, and that moves by
   people with `EDIT_SPACE` keep shared collections shared.

Abstract specifications worth stating besides `Ownership`: what a visitor of a public link
may see, and a backup directory that always holds the newest complete file.
