------------------------------ MODULE Accounts ------------------------------
(***************************************************************************)
(* Accounts and who is signed in to them: registration with and without    *)
(* email confirmation, login, changing and resetting the password, blocking *)
(* and deleting (internal/server/auth.go, email.go, moderation.go).        *)
(*                                                                         *)
(* A token carries the token version its account had; it is accepted while *)
(* that is not below the version in the database. The access and the       *)
(* refresh token of one login are accepted under the same condition, so    *)
(* one record stands for both. Tokens also expire, which only makes fewer. *)
(*                                                                         *)
(* Handlers read, compute (bcrypt takes its time) and write: other         *)
(* requests come between. A transaction is one step, as is a statement     *)
(* outside one.                                                            *)
(*                                                                         *)
(* Left out: names, terms, rate limits and login lockouts (a refused       *)
(* attempt changes nothing here), the mails themselves, spaces other than  *)
(* the first one of an account, invites.                                   *)
(***************************************************************************)
EXTENDS Integers, FiniteSets

CONSTANTS
  Users,       \* accounts that may register; ids never return
  Passwords,   \* passwords people choose
  Links,       \* random tokens of confirmation and reset links
  Procs,       \* requests the server handles at the same time
  MaxVersion,  \* bound: how often tokens of one account are revoked
  MaxFirst     \* bound: how often the first space of an account is created

None == "none"

ASSUME AccountsAssumption ==
  /\ None \notin Passwords \cup Links
  /\ MaxVersion \in Nat
  /\ MaxFirst \in Nat

VARIABLES
  status,    \* absent, registered, deleted (anonymised row) or gone (no row)
  password,  \* password_hash: the password it accepts, None when emptied
  version,   \* token_version
  blocked,   \* blocked_at is set
  verified,  \* email_verified_at is set
  owned,     \* how many first spaces were created for the account
  confirm,   \* its row of email_verifications: the link, None without a row
  reset,     \* its row of password_resets (UNIQUE by user)
  made,      \* links made so far
  expired,   \* links past their validity
  mail,      \* SMTP_HOST is configured
  tokens,    \* tokens handed out
  job,       \* what the request of each process has read
  used       \* history: reset links, how often each set a password

account == <<status, password, version, blocked, verified, owned>>
links   == <<confirm, reset, made, expired, used>>
vars    == <<account, links, mail, tokens, job>>

\* revoked: history, its account was signed out everywhere, or got a new
\* password, after the credentials behind this token were checked.
Token == [user : Users, version : Nat, from : {"login", "change", "confirm"},
          revoked : BOOLEAN]

Ops == {"Login", "ChangePassword", "PasswordChanged", "ResetPassword", "VerifyEmail",
        "LogoutAll", "DeleteAccount", "BlockUser", "UnblockUser", "DeleteUser",
        "RequestReset", "StoreReset"}

\* version, verified: what a login read. knows: the password checked by a login,
\* or the new one to set. link: the one the request came with.
Request == [op : Ops, user : Users, version : Nat, verified : BOOLEAN,
            knows : Passwords \cup {None}, link : Links \cup {None}, revoked : BOOLEAN]

Idle == [op |-> "Idle"]

\* A request about the account u that was let in.
Asked(op, u, pw, link) ==
  [op |-> op, user |-> u, version |-> 0, verified |-> FALSE,
   knows |-> pw, link |-> link, revoked |-> FALSE]

TypeOK ==
  /\ status \in [Users -> {"absent", "registered", "deleted", "gone"}]
  /\ password \in [Users -> Passwords \cup {None}]
  /\ version \in [Users -> Nat]
  /\ blocked \in [Users -> BOOLEAN]
  /\ verified \in [Users -> BOOLEAN]
  /\ owned \in [Users -> Nat]
  /\ confirm \in [Users -> Links \cup {None}]
  /\ reset \in [Users -> Links \cup {None}]
  /\ made \subseteq Links
  /\ expired \subseteq Links
  /\ mail \in BOOLEAN
  /\ tokens \subseteq Token
  /\ job \in [Procs -> Request \cup {Idle}]
  /\ used \in [Links -> Nat]

Init ==
  /\ status = [u \in Users |-> "absent"]
  /\ password = [u \in Users |-> None]
  /\ version = [u \in Users |-> 0]
  /\ blocked = [u \in Users |-> FALSE]
  /\ verified = [u \in Users |-> FALSE]
  /\ owned = [u \in Users |-> 0]
  /\ confirm = [u \in Users |-> None]
  /\ reset = [u \in Users |-> None]
  /\ made = {}
  /\ expired = {}
  /\ mail \in BOOLEAN
  /\ tokens = {}
  /\ job = [p \in Procs |-> Idle]
  /\ used = [l \in Links |-> 0]

-----------------------------------------------------------------------------
(* Tokens.                                                                 *)

HasRow(u) == status[u] \in {"registered", "deleted"}

\* The condition of authenticate and Refresh
Accepted(t) ==
  /\ HasRow(t.user)
  /\ t.version >= version[t.user]
  /\ ~blocked[t.user]
  /\ status[t.user] # "deleted"

issueTokens(u, v, from, revoked) ==
  tokens' = tokens \cup
    {[user |-> u, version |-> v, from |-> from, revoked |-> revoked]}

\* History: every session of u so far, and every request of u that has already
\* checked its credentials, belongs to before.
RevokedTokens(u) == {IF t.user = u THEN [t EXCEPT !.revoked = TRUE] ELSE t : t \in tokens}
RevokedJobs(u) ==
  [p \in Procs |-> IF /\ job[p].op \in {"Login", "VerifyEmail", "PasswordChanged"}
                      /\ job[p].user = u
                   THEN [job[p] EXCEPT !.revoked = TRUE]
                   ELSE job[p]]

\* Mutant: counts down.
DropTokenVersion(u) ==
  /\ version[u] < MaxVersion
  /\ version' = [version EXCEPT ![u] = @ - 1]
  /\ tokens' = RevokedTokens(u)

BumpTokenVersion(u) ==
  /\ version[u] < MaxVersion
  /\ version' = [version EXCEPT ![u] = @ + 1]
  /\ tokens' = RevokedTokens(u)

Asks(p, op) == job[p].op = op

Answer(p) == job' = [job EXCEPT ![p] = Idle]

\* The request is refused, or the client goes away.
Drop(p) ==
  /\ job[p] # Idle
  /\ Answer(p)
  /\ UNCHANGED <<account, links, mail, tokens>>

-----------------------------------------------------------------------------
(* Registration and confirmation.                                          *)

\* Register: with email the account waits for its confirmation, without it gets
\* its first space at once.
Register(u, pw) ==
  /\ status[u] = "absent"
  /\ status' = [status EXCEPT ![u] = "registered"]
  /\ password' = [password EXCEPT ![u] = pw]
  /\ verified' = [verified EXCEPT ![u] = ~mail]
  /\ IF mail
     THEN \E l \in Links \ made :
            /\ made' = made \cup {l}
            /\ confirm' = [confirm EXCEPT ![u] = l]
            /\ UNCHANGED owned
     ELSE /\ owned' = [owned EXCEPT ![u] = 1]
          /\ UNCHANGED <<made, confirm>>
  /\ UNCHANGED <<version, blocked, reset, expired, used, mail, tokens, job>>

\* Mutant: forgets to mark the address as confirmed.
confirmUserUnmarked(u) ==
  /\ HasRow(u)
  /\ owned[u] < MaxFirst
  /\ confirm' = [confirm EXCEPT ![u] = None]
  /\ owned' = [owned EXCEPT ![u] = @ + 1]
  /\ UNCHANGED <<status, password, version, blocked, verified, reset, made, expired, used, mail>>

\* confirmUser: uses up the link, creates the first space
confirmUser(u) ==
  /\ HasRow(u)
  /\ owned[u] < MaxFirst
  /\ confirm' = [confirm EXCEPT ![u] = None]
  /\ verified' = [verified EXCEPT ![u] = TRUE]
  /\ owned' = [owned EXCEPT ![u] = @ + 1]
  /\ UNCHANGED <<status, password, version, blocked, reset, made, expired, used, mail>>

\* VerifyEmail looks the link up outside the transaction ...
VerifyEmail(p, u) ==
  /\ job[p] = Idle
  /\ confirm[u] # None
  /\ confirm[u] \notin expired
  /\ job' = [job EXCEPT ![p] = Asked("VerifyEmail", u, None, confirm[u])]
  /\ UNCHANGED <<account, links, mail, tokens>>

\* ... that reads the account, confirms it and signs it in.
VerifyEmailTx(p) ==
  LET u == job[p].user IN
  /\ Asks(p, "VerifyEmail")
  /\ confirmUser(u)
  /\ issueTokens(u, version[u], "confirm", job[p].revoked)
  /\ Answer(p)

\* DeleteUnverifiedUsers, hourly. That the account is seven days old is true
\* of any account some day.
DeleteUnverifiedUsers ==
  /\ mail
  /\ \E old \in SUBSET {u \in Users : HasRow(u) /\ ~verified[u]} :
       /\ old # {}
       /\ status' = [u \in Users |-> IF u \in old THEN "gone" ELSE status[u]]
       /\ password' = [u \in Users |-> IF u \in old THEN None ELSE password[u]]
       /\ confirm' = [u \in Users |-> IF u \in old THEN None ELSE confirm[u]]
       /\ reset' = [u \in Users |-> IF u \in old THEN None ELSE reset[u]]
  /\ UNCHANGED <<version, blocked, verified, owned, made, expired, used, mail, tokens, job>>

-----------------------------------------------------------------------------
(* Login.                                                                  *)

\* The account is read; a wrong password or a block ends the request here.
Login(p, u, pw) ==
  /\ job[p] = Idle
  /\ HasRow(u)
  /\ password[u] = pw
  /\ ~blocked[u]
  /\ job' = [job EXCEPT ![p] = [Asked("Login", u, pw, None) EXCEPT
                                   !.version = version[u], !.verified = verified[u]]]
  /\ UNCHANGED <<account, links, mail, tokens>>

\* Mutant: reads the account again for the tokens.
LoginIssueReread(p) ==
  LET j == job[p] IN
  /\ Asks(p, "Login")
  /\ j.verified
  /\ issueTokens(j.user, version[j.user], "login", j.revoked)
  /\ Answer(p)
  /\ UNCHANGED <<account, links, mail>>

\* Mutant: a right password is enough.
LoginIssueUnconfirmed(p) ==
  LET j == job[p] IN
  /\ Asks(p, "Login")
  /\ issueTokens(j.user, j.version, "login", j.revoked)
  /\ Answer(p)
  /\ UNCHANGED <<account, links, mail>>

LoginIssue(p) ==
  LET j == job[p] IN
  /\ Asks(p, "Login")
  /\ j.verified
  /\ issueTokens(j.user, j.version, "login", j.revoked)
  /\ Answer(p)
  /\ UNCHANGED <<account, links, mail>>

\* Not confirmed yet: a new link replaces the old one.
LoginSendVerification(p) ==
  LET j == job[p] IN
  /\ Asks(p, "Login")
  /\ ~j.verified
  /\ mail
  /\ HasRow(j.user)
  /\ \E l \in Links \ made :
       /\ made' = made \cup {l}
       /\ confirm' = [confirm EXCEPT ![j.user] = l]
  /\ Answer(p)
  /\ UNCHANGED <<account, reset, expired, used, mail, tokens>>

\* Email was turned off since the registration.
LoginConfirm(p) ==
  LET j == job[p] IN
  /\ Asks(p, "Login")
  /\ ~j.verified
  /\ ~mail
  /\ confirmUser(j.user)
  /\ issueTokens(j.user, j.version, "login", j.revoked)
  /\ Answer(p)

\* Refresh: a token that is accepted now gives one of the current version.
Refresh(t) ==
  /\ Accepted(t)
  /\ issueTokens(t.user, version[t.user], t.from, t.revoked)
  /\ UNCHANGED <<account, links, mail, job>>

-----------------------------------------------------------------------------
(* Signed-in requests: the middleware accepted a token of u.               *)

SignedIn(u) == \E t \in tokens : t.user = u /\ Accepted(t)

LogoutAll(p, u) ==
  /\ job[p] = Idle
  /\ SignedIn(u)
  /\ job' = [job EXCEPT ![p] = Asked("LogoutAll", u, None, None)]
  /\ UNCHANGED <<account, links, mail, tokens>>

LogoutAllWrite(p) ==
  LET u == job[p].user IN
  /\ Asks(p, "LogoutAll")
  /\ BumpTokenVersion(u)
  /\ job' = [RevokedJobs(u) EXCEPT ![p] = Idle]
  /\ UNCHANGED <<status, password, blocked, verified, owned, links, mail>>

\* ChangePassword checks the current password ...
ChangePassword(p, u, new) ==
  /\ job[p] = Idle
  /\ SignedIn(u)
  /\ password[u] # None
  /\ job' = [job EXCEPT ![p] = Asked("ChangePassword", u, new, None)]
  /\ UNCHANGED <<account, links, mail, tokens>>

\* ... sets the new one, which revokes every token ...
SetPassword(p) ==
  LET u == job[p].user IN
  /\ Asks(p, "ChangePassword")
  /\ HasRow(u)
  /\ password' = [password EXCEPT ![u] = job[p].knows]
  /\ BumpTokenVersion(u)
  /\ job' = [RevokedJobs(u) EXCEPT ![p] = [job[p] EXCEPT !.op = "PasswordChanged"]]
  /\ UNCHANGED <<status, blocked, verified, owned, links, mail>>

\* ... and reads the account again for the tokens of this device.
PasswordChangedIssue(p) ==
  LET j == job[p] IN
  /\ Asks(p, "PasswordChanged")
  /\ HasRow(j.user)
  /\ issueTokens(j.user, version[j.user], "change", j.revoked)
  /\ Answer(p)
  /\ UNCHANGED <<account, links, mail>>

-----------------------------------------------------------------------------
(* Reset links.                                                            *)

\* CreatePasswordReset by an admin, for any account; RequestPasswordReset by
\* email does the same for confirmed ones that are not blocked.
RequestReset(p, u) ==
  /\ job[p] = Idle
  /\ status[u] = "registered"
  /\ job' = [job EXCEPT ![p] = Asked("RequestReset", u, None, None)]
  /\ UNCHANGED <<account, links, mail, tokens>>

\* ReplacePasswordReset: one statement drops the older link (and expired ones) ...
DropOlderReset(p) ==
  LET u == job[p].user IN
  /\ Asks(p, "RequestReset")
  /\ reset' = [v \in Users |-> IF v = u \/ reset[v] \in expired THEN None ELSE reset[v]]
  /\ job' = [job EXCEPT ![p].op = "StoreReset"]
  /\ UNCHANGED <<account, confirm, made, expired, used, mail, tokens>>

\* ... another one stores the new link, unless a second one is there meanwhile.
StoreReset(p) ==
  LET u == job[p].user IN
  /\ Asks(p, "StoreReset")
  /\ HasRow(u)
  /\ reset[u] = None
  /\ \E l \in Links \ made :
       /\ made' = made \cup {l}
       /\ reset' = [reset EXCEPT ![u] = l]
  /\ Answer(p)
  /\ UNCHANGED <<account, confirm, expired, used, mail, tokens>>

\* ResetPassword looks the link up outside the transaction ...
ResetPassword(p, u, new) ==
  /\ job[p] = Idle
  /\ reset[u] # None
  /\ reset[u] \notin expired
  /\ job' = [job EXCEPT ![p] = Asked("ResetPassword", u, new, reset[u])]
  /\ UNCHANGED <<account, links, mail, tokens>>

\* ... that sets the password and deletes the link.
ResetPasswordTx(p) ==
  LET u == job[p].user  l == job[p].link IN
  /\ Asks(p, "ResetPassword")
  /\ HasRow(u)
  /\ password' = [password EXCEPT ![u] = job[p].knows]
  /\ BumpTokenVersion(u)
  /\ reset' = [v \in Users |-> IF reset[v] = l THEN None ELSE reset[v]]
  /\ used' = [used EXCEPT ![l] = @ + 1]
  /\ job' = [RevokedJobs(u) EXCEPT ![p] = Idle]
  /\ UNCHANGED <<status, blocked, verified, owned, confirm, made, expired, mail>>

-----------------------------------------------------------------------------
(* Moderation, by instance admins other than u, and deleting the account.  *)

\* moderatedUser, and the password DeleteAccount checks
Moderate(p, u) ==
  /\ job[p] = Idle
  /\ status[u] = "registered"
  /\ \E op \in {"BlockUser", "UnblockUser", "DeleteUser", "DeleteAccount"} :
       /\ op = "DeleteAccount" => SignedIn(u) /\ password[u] # None
       /\ job' = [job EXCEPT ![p] = Asked(op, u, None, None)]
  /\ UNCHANGED <<account, links, mail, tokens>>

BlockUser(p) ==
  LET u == job[p].user IN
  /\ Asks(p, "BlockUser")
  /\ HasRow(u)
  /\ blocked' = [blocked EXCEPT ![u] = TRUE]
  /\ BumpTokenVersion(u)
  /\ job' = [RevokedJobs(u) EXCEPT ![p] = Idle]
  /\ UNCHANGED <<status, password, verified, owned, links, mail>>

UnblockUser(p) ==
  LET u == job[p].user IN
  /\ Asks(p, "UnblockUser")
  /\ HasRow(u)
  /\ blocked' = [blocked EXCEPT ![u] = FALSE]
  /\ Answer(p)
  /\ UNCHANGED <<status, password, version, verified, owned, links, mail, tokens>>

\* removeAccount: its spaces go, AnonymizeUser empties the row.
RemoveAccount(p) ==
  LET u == job[p].user IN
  /\ Asks(p, "DeleteUser") \/ Asks(p, "DeleteAccount")
  /\ HasRow(u)
  /\ status' = [status EXCEPT ![u] = "deleted"]
  /\ password' = [password EXCEPT ![u] = None]
  /\ blocked' = [blocked EXCEPT ![u] = FALSE]
  /\ owned' = [owned EXCEPT ![u] = 0]
  /\ confirm' = [confirm EXCEPT ![u] = None]
  /\ reset' = [reset EXCEPT ![u] = None]
  /\ BumpTokenVersion(u)
  /\ job' = [RevokedJobs(u) EXCEPT ![p] = Idle]
  /\ UNCHANGED <<verified, made, expired, used, mail>>

-----------------------------------------------------------------------------
(* Time and restarts.                                                      *)

ExpireLink ==
  /\ \E l \in made \ expired : expired' = expired \cup {l}
  /\ UNCHANGED <<account, confirm, reset, made, used, mail, tokens, job>>

\* A restart ends all requests and may turn email on or off; tokens stay good.
Restart ==
  /\ mail' \in BOOLEAN
  /\ job' = [p \in Procs |-> Idle]
  /\ UNCHANGED <<account, links, tokens>>

Next ==
  \/ \E u \in Users, pw \in Passwords : Register(u, pw)
  \/ \E p \in Procs, u \in Users :
       \/ VerifyEmail(p, u)
       \/ LogoutAll(p, u)
       \/ RequestReset(p, u)
       \/ Moderate(p, u)
       \/ \E pw \in Passwords :
            \/ Login(p, u, pw)
            \/ ChangePassword(p, u, pw)
            \/ ResetPassword(p, u, pw)
  \/ \E p \in Procs :
       \/ VerifyEmailTx(p)
       \/ LoginIssue(p)
       \/ LoginSendVerification(p)
       \/ LoginConfirm(p)
       \/ LogoutAllWrite(p)
       \/ SetPassword(p)
       \/ PasswordChangedIssue(p)
       \/ DropOlderReset(p)
       \/ StoreReset(p)
       \/ ResetPasswordTx(p)
       \/ BlockUser(p)
       \/ UnblockUser(p)
       \/ RemoveAccount(p)
       \/ Drop(p)
  \/ \E t \in tokens : Refresh(t)
  \/ DeleteUnverifiedUsers
  \/ ExpireLink
  \/ Restart

Spec == Init /\ [][Next]_vars

-----------------------------------------------------------------------------
(* Properties.                                                             *)

\* Signing out everywhere, a block, a new password and deleting the account
\* reach every session begun with a password, also one whose login was under
\* way: a token whose password was checked before is not accepted again, not
\* even after an unblock. (Not so what ChangePassword and a confirmation link
\* hand out: they read the version after the check.)
RevokedStaysOut ==
  \A t \in tokens : t.revoked /\ t.from = "login" => t.version < version[t.user]

\* A session only of accounts that are confirmed (email.go: "Unconfirmed ones
\* get a confirmation link instead").
SignedInIsConfirmed == \A t \in tokens : verified[t.user]

\* "They own nothing yet: the first space is created with the confirmation"
\* (store/verification.go): what lets DeleteUnverifiedUsers just delete them, and
\* no confirmed account starts without a space.
FirstSpaceWithConfirmation ==
  \A u \in Users : status[u] # "deleted" => (owned[u] > 0 <=> verified[u])

\* "The link is valid for one hour and works once" (email.go)
ResetLinkWorksOnce == \A l \in Links : used[l] <= 1
=============================================================================
