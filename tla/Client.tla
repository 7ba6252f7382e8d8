------------------------------- MODULE Client -------------------------------
(***************************************************************************)
(* The session of one browser tab: its access token, the cookie with the   *)
(* refresh token, calls of the server and the renewal of an access token   *)
(* that ran out (ui/v1/src/lib/api/client.ts on sdk/runtime.ts).           *)
(*                                                                         *)
(* A call takes the access token its API object was constructed with. That *)
(* was when the component was mounted, so it may be an older one, which is *)
(* dead by now, or none, if nobody was signed in. Calls whose token is     *)
(* refused wait for one common renewal and are sent once more. Any request *)
(* can be lost on its way there or back.                                   *)
(*                                                                         *)
(* A token is live while the server accepts it, then dead; in a request or *)
(* an answer under way, "revoked" tells one that did not just expire. No   *)
(* other property of a token matters. Everything belongs to one account.    *)
(* Left out: other tabs that share the storage, except that one of them    *)
(* signs out; pending invites and links to add; dry runs of a restore.     *)
(***************************************************************************)
EXTENDS Operations

CONSTANTS
  Calls,  \* calls a page makes at the same time
  Asks    \* [Calls -> SUBSET AllOperations]: the operations each of them uses

ASSUME ClientAssumption == Asks \in [Calls -> SUBSET (AllOperations \ {refresh})]

VARIABLES
  token,    \* accessToken, also in the local storage
  cookie,   \* the refresh token of the browser, None when it is not accepted
  call,     \* what became of each call
  renewal,  \* refreshPromise: the request all refused calls wait for
  startup,  \* the refresh before a loaded page shows anything (App.svelte)
  page,     \* the page shown, "to ..." when window.location.href was set to another
  initial   \* the account still has its initial password

vars == <<token, cookie, call, renewal, startup, page, initial>>

None   == "none"
Tokens == {None, "live", "dead"}
Sent   == Tokens \cup {"revoked"}

\* Operations called without token and middleware (anonConfig).
Anonymous ==
  {register, getRegistrationInvite, getLegalPage, login, getSharedCollection, reportShare,
   getPasswordReset, resetPassword, verifyEmail, requestPasswordReset, logout, featureFlags}

allowedDuringSetup == {me, getInstance, completeSetup, changePassword, restoreBackup}

\* What the functions of client.ts do with the answer, and the server with the
\* sessions of the account.
Does(op) ==
  CASE op \in {login, verifyEmail}             -> "sign in"
    [] op \in {changePassword, completeSetup}  -> "new password"
    [] op = logout                             -> "sign out"
    [] op = logoutAll                          -> "sign out everywhere"
    [] op \in {deleteAccount, restoreBackup}   -> "forget"
    [] OTHER                                   -> "nothing"

Kind(op) ==
  [does    |-> Does(op),
   signed  |-> op.bearer /\ op \notin Anonymous,
   renewed |-> op \notin Anonymous /\ ~underAuth(op),
   open    |-> isPublic(op),
   setup   |-> op \in allowedDuringSetup]

Kinds == [does : {"sign in", "new password", "sign out", "sign out everywhere", "forget",
                  "nothing"},
          signed : BOOLEAN, renewed : BOOLEAN, open : BOOLEAN, setup : BOOLEAN]

\* bearer: the token sent. answer: "rejected" without a request, "401", "setup"
\* (403 with X-Ragbag-Setup), "failed" (refused by the handler, or no answer) or "ok".
\* gives: the tokens in the answer. sent, handled: how often it was sent, and
\* handled by the server.
Call == [phase : {"idle", "sent", "answered", "waiting", "done"}, kind : Kinds,
         bearer : Sent, gives : Sent, sent : 0..2, handled : 0..2,
         answer : {None, "rejected", "401", "setup", "failed", "ok"}]

NoCall == [phase |-> "idle", kind |-> Kind(featureFlags), bearer |-> None, gives |-> None,
           sent |-> 0, handled |-> 0, answer |-> None]

\* with: the cookie sent. gives: the token of the answer, None when it failed.
Refresh == [phase : {"idle", "sent", "answered"}, with : {None, "live"}, gives : Sent]
NoRefresh == [phase |-> "idle", with |-> None, gives |-> None]
Refreshing(with) == [phase |-> "sent", with |-> with, gives |-> None]

\* Types of all variables.
TypeOK ==
  /\ token \in Tokens
  /\ cookie \in {None, "live"}
  /\ call \in [Calls -> Call]
  /\ {renewal, startup} \subseteq Refresh
  /\ page \in {"app", "setup", "to login", "to setup"}
  /\ initial \in BOOLEAN

\* A page opened for the first time, signed in from an earlier visit or not.
Init ==
  /\ token \in Tokens
  /\ cookie \in {None, "live"}
  /\ call = [c \in Calls |-> NoCall]
  /\ renewal = NoRefresh
  /\ startup = IF token # None THEN Refreshing(cookie) ELSE NoRefresh
  /\ page = "app"
  /\ initial \in BOOLEAN

-----------------------------------------------------------------------------
\* Sessions end.

Kill(t)  == IF t = "live" THEN "revoked" ELSE t
Aged(t)  == IF t = "live" THEN "dead" ELSE t
KillIn(r) == [r EXCEPT !.with = None, !.gives = Kill(@)]
Killed(calls) == [c \in Calls |-> [calls[c] EXCEPT !.bearer = Kill(@), !.gives = Kill(@)]]

\* The token version of the account is raised, or the account blocked: no token
\* handed out so far is accepted any more.
Revoked ==
  /\ token' = Aged(token)
  /\ cookie' = None
  /\ renewal' = KillIn(renewal)
  /\ startup' = KillIn(startup)

\* On another device, or by an administrator.
Revoke == Revoked /\ call' = Killed(call) /\ UNCHANGED <<page, initial>>

\* Access tokens expire. One that was just issued outlives the request it was
\* issued for.
Fresh == \/ \E c \in Calls : call[c].gives = "live" \/ (call[c].phase = "sent" /\ call[c].sent = 2)
         \/ "live" \in {renewal.gives, startup.gives}

Expire ==
  /\ ~Fresh
  /\ token' = Aged(token)
  /\ call' = [c \in Calls |-> [call[c] EXCEPT !.bearer = Aged(@)]]
  /\ UNCHANGED <<cookie, renewal, startup, page, initial>>

\* The refresh token runs out, or another tab signs out on this device.
DropCookie ==
  /\ cookie' = None
  /\ UNCHANGED <<token, call, renewal, startup, page, initial>>

-----------------------------------------------------------------------------
\* Loading a page.

\* By the user, or because a call has set window.location.href. Nothing but the
\* local storage and the cookie is left of the page before (App.svelte, init).
Load ==
  /\ page' = IF page \in {"setup", "to setup"} THEN "setup" ELSE "app"
  /\ call' = [c \in Calls |-> NoCall]
  /\ renewal' = NoRefresh
  /\ startup' = IF token # None THEN Refreshing(cookie) ELSE NoRefresh
  /\ UNCHANGED <<token, cookie, initial>>

Leaving == page \in {"to login", "to setup"}
Leave == Leaving /\ Load

\* The router shows the setup page, or another one, without loading it.
Navigate ==
  /\ \/ page = "app" /\ initial /\ page' = "setup"
     \/ page = "setup" /\ page' = "app"
  /\ UNCHANGED <<token, cookie, call, renewal, startup, initial>>

-----------------------------------------------------------------------------
\* Calls.

\* The token of the API object (apiConfig). The functions of client.ts construct one
\* for each call, and those for people who are signed in are used by nobody else.
MayHold(kind, held) ==
  \/ kind.does = "nothing" /\ held \in {token, "dead", None}
  \/ kind.does # "nothing" /\ held = token /\ (kind.signed => token # None)

\* What a call of the operation op with the parameters given amounts to.
Asked(op, given, held) ==
  IF op.needs \subseteq given
  THEN [NoCall EXCEPT !.phase = "sent", !.kind = Kind(op), !.sent = 1,
                      !.bearer = IF Kind(op).signed THEN held ELSE None]
  ELSE [NoCall EXCEPT !.phase = "done", !.answer = "rejected"]

\* All of them, with all parameters or none.
Requests == [c \in Calls |-> [held \in Tokens |->
  {Asked(op, op.needs, held) : op \in Asks[c]} \cup {Asked(op, {}, held) : op \in Asks[c]}]]

Request(c) ==
  /\ startup.phase = "idle"
  /\ call[c].phase \in {"idle", "done"}
  /\ \E held \in Tokens : \E r \in Requests[c][held] :
       MayHold(r.kind, held) /\ call' = [call EXCEPT ![c] = r]
  /\ UNCHANGED <<token, cookie, renewal, startup, page, initial>>

\* The server lets the request in (authenticate).
LetIn(r) == r.kind.open \/ r.bearer = "live"

Answered(c, answer) == [call EXCEPT ![c].phase = "answered", ![c].answer = answer]
Handled(c, answer, gives) ==
  [Answered(c, answer) EXCEPT ![c].handled = @ + 1, ![c].gives = gives]

Unauthorized(c) ==
  /\ call[c].phase = "sent"
  /\ ~LetIn(call[c])
  /\ call' = Answered(c, "401")
  /\ UNCHANGED <<token, cookie, renewal, startup, page, initial>>

Postponed(r) == initial /\ ~r.kind.open /\ ~r.kind.setup

ChooseYourPassword(c) ==
  /\ call[c].phase = "sent"
  /\ LetIn(call[c]) /\ Postponed(call[c])
  /\ call' = Answered(c, "setup")
  /\ UNCHANGED <<token, cookie, renewal, startup, page, initial>>

\* The handler runs: it refuses, or does what was asked ("ok" stands for both when
\* nobody here depends on it).
Handle(c) ==
  /\ call[c].phase = "sent"
  /\ LetIn(call[c]) /\ ~Postponed(call[c])
  /\ \/ /\ call[c].kind.does # "nothing"
        /\ call' = Handled(c, "failed", None)
        /\ UNCHANGED <<token, cookie, renewal, startup, initial>>
     \/ /\ call[c].kind.does \in {"nothing", "sign in", "sign out"}
        /\ call' = Handled(c, "ok", IF call[c].kind.does = "sign in" THEN "live" ELSE None)
        /\ UNCHANGED <<token, cookie, renewal, startup, initial>>
     \/ /\ call[c].kind.does \in {"sign out everywhere", "forget"}
        /\ Revoked
        /\ call' = Killed(Handled(c, "ok", None))
        /\ UNCHANGED initial
     \/ /\ call[c].kind.does = "new password"
        /\ Revoked
        /\ call' = [Killed(Handled(c, "ok", None)) EXCEPT ![c].gives = "live"]
        /\ initial' = FALSE
  /\ UNCHANGED page

\* A request does not arrive, or its answer does not.
Lose(c) ==
  /\ call[c].phase \in {"sent", "answered"}
  /\ call' = [Answered(c, "failed") EXCEPT ![c].gives = None]
  /\ UNCHANGED <<token, cookie, renewal, startup, page, initial>>

\* The server answers, or the browser gives up.
Reply(c) == Unauthorized(c) \/ ChooseYourPassword(c) \/ Handle(c) \/ Lose(c)

\* Mutants of Renews: the second request is renewed as well; a request without an
\* answer is sent again.
RenewsAgain(r)    == r.answer = "401" /\ r.kind.renewed
RenewsFailures(r) == r.answer \in {"401", "failed"} /\ r.kind.renewed /\ r.sent = 1

\* post of authMiddleware sends the call once more with a new token.
Renews(r) == r.answer = "401" /\ r.kind.renewed /\ r.sent = 1

Wait(c) ==
  /\ call[c].phase = "answered"
  /\ Renews(call[c])
  /\ call' = [call EXCEPT ![c].phase = "waiting"]
  /\ renewal' = IF renewal.phase = "idle" THEN Refreshing(cookie) ELSE renewal
  /\ UNCHANGED <<token, cookie, startup, page, initial>>

Received(t) == IF t = "revoked" THEN "dead" ELSE t

\* What is left of the session when a call ends (the functions of client.ts).
TokenAfter(r) ==
  IF r.gives # None THEN Received(r.gives)
  ELSE IF \/ r.kind.does \in {"sign out", "sign out everywhere"}
          \/ r.kind.does = "forget" /\ r.answer = "ok"
       THEN None ELSE token

Accepted(t) == IF t = "live" THEN t ELSE None

CookieAfter(r) ==
  IF r.gives # None THEN Accepted(r.gives)
  ELSE IF r.kind.does \in {"sign out", "sign out everywhere"} /\ r.answer = "ok"
       THEN None ELSE cookie

\* The caller gets its answer; a refusal is kept until the next call.
Over(r) == IF r.answer = "401" THEN [r EXCEPT !.phase = "done"] ELSE NoCall

Finish(c) ==
  /\ call[c].phase = "answered"
  /\ ~Renews(call[c])
  /\ call' = [call EXCEPT ![c] = Over(@)]
  /\ token' = TokenAfter(call[c])
  /\ cookie' = CookieAfter(call[c])
  /\ page' = IF call[c].answer = "setup" /\ call[c].sent = 1 /\ page # "setup"
             THEN "to setup" ELSE page
  /\ UNCHANGED <<renewal, startup, initial>>

-----------------------------------------------------------------------------
\* Refreshing the access token.

\* The answer of the server (Refresh of auth.go), or none.
Refreshed(r) ==
  {[r EXCEPT !.phase = "answered", !.gives = g] :
     g \in {None} \cup (IF r.with = "live" THEN {"live"} ELSE {})}

RenewalReply ==
  /\ renewal.phase = "sent"
  /\ renewal' \in Refreshed(renewal)
  /\ UNCHANGED <<token, cookie, call, startup, page, initial>>

\* Mutants of Resumed: with the headers of the first request; only the call that
\* started the refresh.
ResumedAsBefore(r) ==
  IF r.phase # "waiting" THEN r
  ELSE IF renewal.gives = None THEN Over(r)
  ELSE [r EXCEPT !.phase = "sent", !.sent = @ + 1, !.answer = None]

ResumedFirst(r) ==
  IF r.phase # "waiting" \/ r # call[CHOOSE c \in Calls : call[c].phase = "waiting"] THEN r
  ELSE IF renewal.gives = None THEN Over(r)
  ELSE [r EXCEPT !.phase = "sent", !.sent = @ + 1, !.bearer = renewal.gives, !.answer = None]

\* The refresh is over: all calls that wait for it are sent again with the new
\* token, or end, and the login page is opened.
Resumed(r) ==
  IF r.phase # "waiting" THEN r
  ELSE IF renewal.gives = None THEN Over(r)
  ELSE [r EXCEPT !.phase = "sent", !.sent = @ + 1, !.bearer = renewal.gives, !.answer = None]

Renew ==
  /\ renewal.phase = "answered"
  /\ renewal' = NoRefresh
  /\ token' = Received(renewal.gives)
  /\ call' = [c \in Calls |-> Resumed(call[c])]
  /\ page' = IF renewal.gives = None THEN "to login" ELSE page
  /\ UNCHANGED <<cookie, startup, initial>>

StartupReply ==
  /\ startup.phase = "sent"
  /\ startup' \in Refreshed(startup)
  /\ UNCHANGED <<token, cookie, call, renewal, page, initial>>

Show ==
  /\ startup.phase = "answered"
  /\ startup' = NoRefresh
  /\ token' = Received(startup.gives)
  /\ UNCHANGED <<cookie, call, renewal, page, initial>>

-----------------------------------------------------------------------------
Next ==
  \/ Revoke \/ Expire \/ DropCookie \/ Load \/ Navigate
  \/ RenewalReply \/ Renew \/ StartupReply \/ Show
  \/ \E c \in Calls : Request(c) \/ Reply(c) \/ Wait(c) \/ Finish(c)

\* The server answers or the browser gives up; the event loop runs what an answer
\* leads to, and opens the page it was told to.
Fairness ==
  /\ WF_vars(RenewalReply \/ Renew \/ StartupReply \/ Show)
  /\ WF_vars(Leave)
  /\ \A c \in Calls : WF_vars(Reply(c) \/ Wait(c) \/ Finish(c))

Spec == Init /\ [][Next]_vars /\ Fairness

-----------------------------------------------------------------------------
\* No call takes effect twice, although it may be sent twice: the first request
\* was refused before its handler (authMiddleware and authenticate).
HandledAtMostOnce == \A c \in Calls : call[c].handled <= 1

\* A call outside /auth/ is refused for its token only when that was revoked, or
\* the login page is about to open: never because the access token ran out, however
\* many calls were refused together.
RenewedUnlessRevoked ==
  \A c \in Calls :
    call[c].phase = "done" /\ call[c].answer = "401" /\ call[c].kind.renewed
    => call[c].bearer = "revoked" \/ Leaving

\* Every call ends: none waits for ever for a refresh somebody else started.
EveryCallEnds ==
  \A c \in Calls :
    call[c].phase \in {"sent", "answered", "waiting"} ~> call[c].phase \in {"idle", "done"}

\* "Invalidates all sessions of the user on every device" (logoutEverywhere): after
\* an answer of the server, not even the refresh token of this browser is accepted.
EverywhereMeansEverywhere ==
  \A c \in Calls :
    call[c].phase = "done" /\ call[c].kind.does = "sign out everywhere" /\ call[c].answer = "401"
    => cookie # "live"
=============================================================================
