--------------------------- MODULE AccountsProofs ---------------------------
(***************************************************************************)
(* Theorems about Accounts for every set of accounts, passwords, links and *)
(* concurrent requests.                                                    *)
(***************************************************************************)
EXTENDS Accounts, TLAPS

-----------------------------------------------------------------------------
(* Type correctness.                                                       *)

\* A request that is let in, and one that ends, are of the types of job.
LEMMA AskedType ==
  ASSUME NEW op \in Ops, NEW u \in Users, NEW pw \in Passwords \cup {None},
         NEW link \in Links \cup {None}
  PROVE  /\ Asked(op, u, pw, link) \in Request
         /\ Asked(op, u, pw, link).op = op /\ Asked(op, u, pw, link).user = u
         /\ Asked(op, u, pw, link).revoked = FALSE
  BY DEF Asked, Request

\* Replacing a field of a request by one of its type gives a request.
LEMMA RequestUpdate ==
  ASSUME NEW j \in Request
  PROVE  /\ [j EXCEPT !.revoked = TRUE] \in Request
         /\ [j EXCEPT !.op = "PasswordChanged"] \in Request
         /\ [j EXCEPT !.op = "StoreReset"] \in Request
         /\ [j EXCEPT !.revoked = TRUE].op = j.op
         /\ [j EXCEPT !.revoked = TRUE].user = j.user
         /\ [j EXCEPT !.revoked = TRUE].version = j.version
         /\ [j EXCEPT !.revoked = TRUE].verified = j.verified
         /\ [j EXCEPT !.revoked = TRUE].revoked
         /\ [j EXCEPT !.op = "PasswordChanged"].op = "PasswordChanged"
         /\ [j EXCEPT !.op = "PasswordChanged"].user = j.user
         /\ [j EXCEPT !.op = "StoreReset"].op = "StoreReset"
         /\ [j EXCEPT !.op = "StoreReset"].user = j.user
  BY DEF Request, Ops

\* The request of a process that asks for an operation.
LEMMA AsksRequest ==
  ASSUME TypeOK, NEW p \in Procs, NEW op \in Ops, Asks(p, op)
  PROVE  job[p] \in Request
  BY DEF TypeOK, Asks, Idle, Ops

LEMMA AnswerType ==
  ASSUME TypeOK, NEW p \in Procs, Answer(p)
  PROVE  job' \in [Procs -> Request \cup {Idle}]
  BY DEF TypeOK, Answer

LEMMA IssueType ==
  ASSUME TypeOK, NEW u \in Users, NEW v \in Nat, NEW from \in {"login", "change", "confirm"},
         NEW revoked \in BOOLEAN,
         issueTokens(u, v, from, revoked)
  PROVE  tokens' \subseteq Token
  BY DEF TypeOK, issueTokens, Token

LEMMA RevokedTokensType ==
  ASSUME TypeOK, NEW u
  PROVE  RevokedTokens(u) \subseteq Token
<1>1. ASSUME NEW t \in Token
      PROVE  [t EXCEPT !.revoked = TRUE] \in Token
  BY DEF Token
<1> QED BY <1>1 DEF TypeOK, RevokedTokens

LEMMA RevokedJobsType ==
  ASSUME TypeOK, NEW u
  PROVE  RevokedJobs(u) \in [Procs -> Request \cup {Idle}]
<1> SUFFICES ASSUME NEW p \in Procs,
                    job[p].op \in {"Login", "VerifyEmail", "PasswordChanged"}
             PROVE  [job[p] EXCEPT !.revoked = TRUE] \in Request
  BY DEF RevokedJobs, TypeOK
<1>1. job[p] \in Request
  BY DEF TypeOK, Idle
<1> QED BY <1>1, RequestUpdate

\* Signing out everywhere.
LEMMA BumpType ==
  ASSUME TypeOK, NEW u \in Users, BumpTokenVersion(u)
  PROVE  version' \in [Users -> Nat] /\ tokens' \subseteq Token
<1>1. version[u] + 1 \in Nat
  BY DEF TypeOK
<1> QED BY <1>1, RevokedTokensType DEF TypeOK, BumpTokenVersion

LEMMA InitType == Init => TypeOK
  BY DEF Init, TypeOK

\* The steps that begin a request.
Begins(p) ==
  \E u \in Users :
    \/ VerifyEmail(p, u)
    \/ LogoutAll(p, u)
    \/ RequestReset(p, u)
    \/ Moderate(p, u)
    \/ \E pw \in Passwords :
         Login(p, u, pw) \/ ChangePassword(p, u, pw) \/ ResetPassword(p, u, pw)

LEMMA BeginsType ==
  ASSUME TypeOK, NEW p \in Procs, Begins(p)
  PROVE  TypeOK'
<1>1. PICK u \in Users :
        \/ VerifyEmail(p, u)
        \/ LogoutAll(p, u)
        \/ RequestReset(p, u)
        \/ Moderate(p, u)
        \/ \E pw \in Passwords :
             Login(p, u, pw) \/ ChangePassword(p, u, pw) \/ ResetPassword(p, u, pw)
  BY DEF Begins
<1>2. UNCHANGED <<account, links, mail, tokens>>
  BY <1>1 DEF VerifyEmail, LogoutAll, RequestReset, Moderate, Login, ChangePassword, ResetPassword
<1>3. \E r \in Request : job' = [job EXCEPT ![p] = r]
  <2>1. CASE VerifyEmail(p, u) \/ LogoutAll(p, u) \/ RequestReset(p, u)
    BY <2>1, AskedType DEF VerifyEmail, LogoutAll, RequestReset, Ops, TypeOK
  <2>2. CASE Moderate(p, u)
    BY <2>2, AskedType DEF Moderate, Ops
  <2>3. ASSUME NEW pw \in Passwords, ChangePassword(p, u, pw) \/ ResetPassword(p, u, pw)
        PROVE  \E r \in Request : job' = [job EXCEPT ![p] = r]
    BY <2>3, AskedType DEF ChangePassword, ResetPassword, Ops, TypeOK
  <2>4. ASSUME NEW pw \in Passwords, Login(p, u, pw)
        PROVE  \E r \in Request : job' = [job EXCEPT ![p] = r]
    <3> DEFINE a == Asked("Login", u, pw, None)
               r == [a EXCEPT !.version = version[u], !.verified = verified[u]]
    <3>1. a \in Request
      BY AskedType DEF Ops
    <3>2. version[u] \in Nat /\ verified[u] \in BOOLEAN
      BY DEF TypeOK
    <3>3. job' = [job EXCEPT ![p] = r]
      BY <2>4 DEF Login
    <3> HIDE DEF a
    <3>4. r \in Request
      BY <3>1, <3>2 DEF Request
    <3> QED BY <3>3, <3>4
  <2> QED BY <1>1, <2>1, <2>2, <2>3, <2>4
<1> QED BY <1>2, <1>3 DEF TypeOK, account, links

\* The steps that answer a request, or take it one step further.
LEMMA ConfirmType ==
  ASSUME TypeOK, NEW u \in Users, confirmUser(u)
  PROVE  /\ confirm' \in [Users -> Links \cup {None}]
         /\ verified' \in [Users -> BOOLEAN]
         /\ owned' \in [Users -> Nat]
<1>1. owned[u] + 1 \in Nat
  BY DEF TypeOK
<1> QED BY <1>1 DEF TypeOK, confirmUser

LEMMA VerifyEmailTxType ==
  ASSUME TypeOK, NEW p \in Procs, VerifyEmailTx(p)
  PROVE  TypeOK'
<1>1. job[p] \in Request
  BY AsksRequest DEF VerifyEmailTx, Ops
<1>2. job[p].user \in Users /\ job[p].revoked \in BOOLEAN
  BY <1>1 DEF Request
<1>3. version[job[p].user] \in Nat
  BY <1>2 DEF TypeOK
<1>4. tokens' \subseteq Token
  BY <1>2, <1>3, IssueType DEF VerifyEmailTx
<1>5. job' \in [Procs -> Request \cup {Idle}]
  BY AnswerType DEF VerifyEmailTx
<1>6. /\ confirm' \in [Users -> Links \cup {None}]
      /\ verified' \in [Users -> BOOLEAN]
      /\ owned' \in [Users -> Nat]
      /\ UNCHANGED <<status, password, version, blocked, reset, made, expired, used, mail>>
  BY <1>2, ConfirmType DEF VerifyEmailTx, confirmUser
<1> QED BY <1>4, <1>5, <1>6 DEF TypeOK

LEMMA LoginEndsType ==
  ASSUME TypeOK, NEW p \in Procs, LoginIssue(p) \/ LoginSendVerification(p) \/ LoginConfirm(p)
  PROVE  TypeOK'
<1>1. job[p] \in Request
  BY AsksRequest DEF LoginIssue, LoginSendVerification, LoginConfirm, Ops
<1>2. /\ job[p].user \in Users /\ job[p].version \in Nat
      /\ job[p].knows \in Passwords \cup {None} /\ job[p].revoked \in BOOLEAN
  BY <1>1 DEF Request
<1>3. job' \in [Procs -> Request \cup {Idle}]
  BY AnswerType DEF LoginIssue, LoginSendVerification, LoginConfirm
<1>4. CASE LoginIssue(p)
  <2>1. tokens' \subseteq Token
    BY <1>2, <1>4, IssueType DEF LoginIssue
  <2> QED BY <1>3, <1>4, <2>1 DEF LoginIssue, TypeOK, account, links
<1>5. CASE LoginSendVerification(p)
  BY <1>2, <1>3, <1>5 DEF LoginSendVerification, TypeOK, account
<1>6. CASE LoginConfirm(p)
  <2>1. tokens' \subseteq Token
    BY <1>2, <1>6, IssueType DEF LoginConfirm
  <2>2. /\ confirm' \in [Users -> Links \cup {None}]
        /\ verified' \in [Users -> BOOLEAN]
        /\ owned' \in [Users -> Nat]
        /\ UNCHANGED <<status, password, version, blocked, reset, made, expired, used, mail>>
    BY <1>2, <1>6, ConfirmType DEF LoginConfirm, confirmUser
  <2> QED BY <1>3, <2>1, <2>2 DEF TypeOK
<1> QED BY <1>4, <1>5, <1>6

\* The steps that sign an account out everywhere.
Bumps(p) ==
  LogoutAllWrite(p) \/ SetPassword(p) \/ ResetPasswordTx(p) \/ BlockUser(p) \/ RemoveAccount(p)

LEMMA BumpsRequest ==
  ASSUME TypeOK, NEW p \in Procs, Bumps(p)
  PROVE  job[p] \in Request /\ BumpTokenVersion(job[p].user)
  BY AsksRequest DEF Bumps, LogoutAllWrite, SetPassword, ResetPasswordTx, BlockUser,
     RemoveAccount, Ops

LEMMA BumpsType ==
  ASSUME TypeOK, NEW p \in Procs, Bumps(p)
  PROVE  TypeOK'
<1> DEFINE u == job[p].user
<1>1. job[p] \in Request /\ BumpTokenVersion(u)
  BY BumpsRequest
<1>2. u \in Users /\ job[p].knows \in Passwords \cup {None}
  BY <1>1 DEF Request
<1>3. version' \in [Users -> Nat] /\ tokens' \subseteq Token
  BY <1>1, <1>2, BumpType
<1>4. RevokedJobs(u) \in [Procs -> Request \cup {Idle}]
  BY RevokedJobsType
<1>5. [job[p] EXCEPT !.op = "PasswordChanged"] \in Request
  BY <1>1, RequestUpdate
<1>6. job' \in [Procs -> Request \cup {Idle}]
  BY <1>4, <1>5 DEF Bumps, LogoutAllWrite, SetPassword, ResetPasswordTx, BlockUser, RemoveAccount
<1>7. CASE LogoutAllWrite(p)
  BY <1>3, <1>6, <1>7 DEF LogoutAllWrite, TypeOK, links
<1>8. CASE SetPassword(p)
  BY <1>2, <1>3, <1>6, <1>8 DEF SetPassword, TypeOK, links
<1>9. CASE ResetPasswordTx(p)
  <2>1. ASSUME NEW l \in Links PROVE used[l] + 1 \in Nat
    BY DEF TypeOK
  <2>2. used' \in [Links -> Nat]
    BY <1>9, <2>1 DEF ResetPasswordTx, TypeOK
  <2>3. reset' \in [Users -> Links \cup {None}] /\ password' \in [Users -> Passwords \cup {None}]
    BY <1>2, <1>9 DEF ResetPasswordTx, TypeOK
  <2> QED BY <1>3, <1>6, <1>9, <2>2, <2>3 DEF ResetPasswordTx, TypeOK
<1>10. CASE BlockUser(p)
  BY <1>3, <1>6, <1>10 DEF BlockUser, TypeOK, links
<1>11. CASE RemoveAccount(p)
  BY <1>3, <1>6, <1>11 DEF RemoveAccount, TypeOK
<1> QED BY <1>7, <1>8, <1>9, <1>10, <1>11 DEF Bumps

LEMMA OthersType ==
  ASSUME TypeOK, NEW p \in Procs,
         \/ PasswordChangedIssue(p) \/ DropOlderReset(p) \/ StoreReset(p)
         \/ UnblockUser(p) \/ Drop(p)
  PROVE  TypeOK'
<1>1. CASE PasswordChangedIssue(p)
  <2>1. job[p] \in Request
    BY <1>1, AsksRequest DEF PasswordChangedIssue, Ops
  <2>2. /\ job[p].user \in Users /\ job[p].knows \in Passwords \cup {None}
        /\ job[p].revoked \in BOOLEAN
    BY <2>1 DEF Request
  <2>3. version[job[p].user] \in Nat
    BY <2>2 DEF TypeOK
  <2>4. tokens' \subseteq Token
    BY <1>1, <2>2, <2>3, IssueType DEF PasswordChangedIssue
  <2> QED BY <1>1, <2>4, AnswerType DEF PasswordChangedIssue, TypeOK, account, links
<1>2. CASE DropOlderReset(p)
  <2>1. job[p] \in Request
    BY <1>2, AsksRequest DEF DropOlderReset, Ops
  <2>2. job' = [job EXCEPT ![p] = [job[p] EXCEPT !.op = "StoreReset"]]
    BY <1>2 DEF DropOlderReset, TypeOK
  <2>3. job' \in [Procs -> Request \cup {Idle}]
    BY <2>1, <2>2, RequestUpdate DEF TypeOK
  <2> QED BY <1>2, <2>3 DEF DropOlderReset, TypeOK, account
<1>3. CASE StoreReset(p)
  BY <1>3, AnswerType DEF StoreReset, TypeOK, account
<1>4. CASE UnblockUser(p)
  BY <1>4, AnswerType DEF UnblockUser, TypeOK, links
<1>5. CASE Drop(p)
  BY <1>5, AnswerType DEF Drop, TypeOK, account, links
<1> QED BY <1>1, <1>2, <1>3, <1>4, <1>5

LEMMA AccountStepsType ==
  ASSUME TypeOK,
         \/ \E u \in Users, pw \in Passwords : Register(u, pw)
         \/ \E t \in tokens : Refresh(t)
         \/ DeleteUnverifiedUsers
         \/ ExpireLink
         \/ Restart
  PROVE  TypeOK'
<1>1. ASSUME NEW u \in Users, NEW pw \in Passwords, Register(u, pw)
      PROVE  TypeOK'
  BY <1>1 DEF Register, TypeOK
<1>2. ASSUME NEW t \in tokens, Refresh(t)
      PROVE  TypeOK'
  <2>1. t \in Token
    BY DEF TypeOK
  <2>2. /\ t.user \in Users /\ t.from \in {"login", "change", "confirm"}
        /\ t.revoked \in BOOLEAN
    BY <2>1 DEF Token
  <2>3. version[t.user] \in Nat
    BY <2>2 DEF TypeOK
  <2>4. tokens' \subseteq Token
    BY <1>2, <2>2, <2>3, IssueType DEF Refresh
  <2> QED BY <1>2, <2>4 DEF Refresh, TypeOK, account, links
<1>3. CASE DeleteUnverifiedUsers
  BY <1>3 DEF DeleteUnverifiedUsers, TypeOK
<1>4. CASE ExpireLink
  BY <1>4 DEF ExpireLink, TypeOK, account
<1>5. CASE Restart
  BY <1>5 DEF Restart, TypeOK, account, links
<1> QED BY <1>1, <1>2, <1>3, <1>4, <1>5

LEMMA NextCases ==
  ASSUME Next
  PROVE  \/ \E p \in Procs :
              \/ Begins(p) \/ Bumps(p)
              \/ VerifyEmailTx(p)
              \/ LoginIssue(p) \/ LoginSendVerification(p) \/ LoginConfirm(p)
              \/ PasswordChangedIssue(p) \/ DropOlderReset(p) \/ StoreReset(p)
              \/ UnblockUser(p) \/ Drop(p)
         \/ \E u \in Users, pw \in Passwords : Register(u, pw)
         \/ \E t \in tokens : Refresh(t)
         \/ DeleteUnverifiedUsers
         \/ ExpireLink
         \/ Restart
  BY DEF Next, Begins, Bumps

LEMMA NextType ==
  ASSUME TypeOK, [Next]_vars
  PROVE  TypeOK'
<1>1. CASE UNCHANGED vars
  BY <1>1 DEF TypeOK, vars, account, links
<1>2. CASE Next
  BY <1>2, NextCases, BeginsType, BumpsType, VerifyEmailTxType, LoginEndsType, OthersType,
     AccountStepsType
<1> QED BY <1>1, <1>2

\* The rows and the requests under way have their types, whatever interleaves.
THEOREM AccountsTypeCorrect == Spec => []TypeOK
  BY InitType, NextType, PTL DEF Spec

-----------------------------------------------------------------------------
(* Sessions: who is signed in, and for how long. The invariants about      *)
(* tokens need to be known of the logins under way as well.                *)

\* No token is ahead of its account, a revoked one of a login is behind it.
TokenOK(t) ==
  /\ t.version <= version[t.user]
  /\ t.revoked /\ t.from = "login" => t.version < version[t.user]
  /\ verified[t.user]

\* What a login has read is still good enough, and only confirmed accounts
\* change their password.
RequestOK(p) ==
  /\ job[p].op = "Login" =>
       /\ job[p].version <= version[job[p].user]
       /\ job[p].revoked => job[p].version < version[job[p].user]
       /\ job[p].verified => verified[job[p].user]
  /\ job[p].op \in {"ChangePassword", "PasswordChanged"} => verified[job[p].user]

AbsentUnverified == \A u \in Users : status[u] = "absent" => ~verified[u]

SessionsInv ==
  /\ TypeOK
  /\ \A t \in tokens : TokenOK(t)
  /\ \A p \in Procs : RequestOK(p)
  /\ AbsentUnverified

LEMMA InitSessions == Init => SessionsInv
  BY InitType DEF Init, SessionsInv, RequestOK, AbsentUnverified, Idle

LEMMA SessionsImply == SessionsInv => RevokedStaysOut /\ SignedInIsConfirmed
  BY DEF SessionsInv, TokenOK, RevokedStaysOut, SignedInIsConfirmed

\* Neither a version nor a confirmation is ever taken back.
Grows ==
  /\ \A u \in Users : version[u] <= version'[u]
  /\ \A u \in Users : verified[u] => verified'[u]

\* A token that was good stays good while the versions stay, ...
LEMMA TokensKept ==
  ASSUME SessionsInv, Grows, version' = version, tokens' = tokens
  PROVE  \A t \in tokens' : TokenOK(t)'
<1> SUFFICES ASSUME NEW t \in tokens PROVE TokenOK(t)'
  OBVIOUS
<1>1. t.user \in Users /\ TokenOK(t)
  BY DEF SessionsInv, TypeOK, Token
<1> QED BY <1>1 DEF TokenOK, Grows

\* ... also when a good one is handed out, ...
LEMMA TokensIssued ==
  ASSUME SessionsInv, Grows, version' = version,
         NEW u \in Users, NEW v \in Nat, NEW from, NEW revoked,
         issueTokens(u, v, from, revoked),
         v <= version[u], revoked /\ from = "login" => v < version[u], verified'[u]
  PROVE  \A t \in tokens' : TokenOK(t)'
<1> DEFINE n == [user |-> u, version |-> v, from |-> from, revoked |-> revoked]
<1>1. tokens' = tokens \cup {n}
  BY DEF issueTokens
<1>2. TokenOK(n)'
  BY DEF TokenOK
<1>3. ASSUME NEW t \in tokens PROVE TokenOK(t)'
  <2>1. t.user \in Users /\ TokenOK(t)
    BY DEF SessionsInv, TypeOK, Token
  <2> QED BY <2>1 DEF TokenOK, Grows
<1> HIDE DEF n
<1> QED BY <1>1, <1>2, <1>3

\* ... and when an account is signed out everywhere.
LEMMA TokensRevoked ==
  ASSUME SessionsInv, NEW u \in Users, BumpTokenVersion(u), verified' = verified
  PROVE  /\ \A t \in tokens' : TokenOK(t)'
         /\ Grows
         /\ version[u] < version'[u]
<1>1. /\ version' \in [Users -> Nat] /\ version \in [Users -> Nat]
      /\ version'[u] = version[u] + 1
      /\ \A v \in Users \ {u} : version'[v] = version[v]
  <2>1. version[u] + 1 \in Nat
    BY DEF SessionsInv, TypeOK
  <2> QED BY <2>1 DEF SessionsInv, TypeOK, BumpTokenVersion
<1>2. Grows /\ version[u] < version'[u]
  <2>1. ASSUME NEW v \in Users PROVE version[v] <= version'[v]
    <3>1. CASE v = u
      BY <1>1, <3>1
    <3>2. CASE v # u
      BY <1>1, <3>2
    <3> QED BY <3>1, <3>2
  <2>2. version[u] < version'[u]
    BY <1>1
  <2> QED BY <2>1, <2>2 DEF Grows
<1>3. ASSUME NEW t \in tokens'
      PROVE  TokenOK(t)'
  <2>1. PICK o \in tokens : t = IF o.user = u THEN [o EXCEPT !.revoked = TRUE] ELSE o
    BY <1>3 DEF BumpTokenVersion, RevokedTokens
  <2>2. o \in Token /\ TokenOK(o) /\ o.user \in Users /\ o.version \in Nat
    BY DEF SessionsInv, TypeOK, Token
  <2>3. t.user = o.user /\ t.version = o.version /\ t.from = o.from
    BY <2>1, <2>2 DEF Token
  <2>4. CASE o.user = u
    <3>1. t.version < version'[t.user]
      BY <1>1, <2>2, <2>3, <2>4 DEF TokenOK
    <3> QED BY <1>1, <2>2, <2>3, <2>4, <3>1 DEF TokenOK
  <2>5. CASE o.user # u
    BY <1>1, <2>1, <2>2, <2>5 DEF TokenOK
  <2> QED BY <2>4, <2>5
<1> QED BY <1>2, <1>3

\* A request that is not touched stays good.
LEMMA RequestKept ==
  ASSUME SessionsInv, Grows, TypeOK', NEW q \in Procs, job'[q] = job[q]
  PROVE  RequestOK(q)'
<1>1. CASE job[q].op \in {"Login", "ChangePassword", "PasswordChanged"}
  <2>1. job[q] \in Request
    BY <1>1 DEF SessionsInv, TypeOK, Idle
  <2>2. job[q].user \in Users /\ job[q].version \in Nat
    BY <2>1 DEF Request
  <2>3. version[job[q].user] \in Nat /\ version'[job[q].user] \in Nat
    BY <2>2 DEF SessionsInv, TypeOK
  <2> QED BY <2>2, <2>3 DEF SessionsInv, RequestOK, Grows
<1>2. CASE job[q].op \notin {"Login", "ChangePassword", "PasswordChanged"}
  BY <1>2 DEF RequestOK
<1> QED BY <1>1, <1>2

\* One request ends, all others stay.
LEMMA RequestsAnswered ==
  ASSUME SessionsInv, Grows, TypeOK', NEW p \in Procs, Answer(p)
  PROVE  \A q \in Procs : RequestOK(q)'
<1> SUFFICES ASSUME NEW q \in Procs PROVE RequestOK(q)'
  OBVIOUS
<1>1. CASE q = p
  BY <1>1 DEF Answer, RequestOK, Idle, SessionsInv, TypeOK
<1>2. CASE q # p
  <2>1. job'[q] = job[q]
    BY <1>2 DEF Answer, SessionsInv, TypeOK
  <2> QED BY <2>1, RequestKept
<1> QED BY <1>1, <1>2

LEMMA BeginsSessions ==
  ASSUME SessionsInv, TypeOK', NEW p \in Procs, Begins(p)
  PROVE  SessionsInv'
<1>1. PICK u \in Users :
        \/ VerifyEmail(p, u)
        \/ LogoutAll(p, u)
        \/ RequestReset(p, u)
        \/ Moderate(p, u)
        \/ \E pw \in Passwords :
             Login(p, u, pw) \/ ChangePassword(p, u, pw) \/ ResetPassword(p, u, pw)
  BY DEF Begins
<1>2. UNCHANGED <<account, links, mail, tokens>>
  <2>1. CASE VerifyEmail(p, u) \/ LogoutAll(p, u) \/ RequestReset(p, u) \/ Moderate(p, u)
    BY <2>1 DEF VerifyEmail, LogoutAll, RequestReset, Moderate
  <2>2. ASSUME NEW pw \in Passwords, Login(p, u, pw) \/ ChangePassword(p, u, pw) \/ ResetPassword(p, u, pw)
        PROVE  UNCHANGED <<account, links, mail, tokens>>
    BY <2>2 DEF Login, ChangePassword, ResetPassword
  <2> QED BY <1>1, <2>1, <2>2
<1>3. Grows
  BY <1>2 DEF Grows, account, SessionsInv, TypeOK
<1>4. \A t \in tokens' : TokenOK(t)'
  BY <1>2, <1>3, TokensKept DEF account
<1>5. /\ \A q \in Procs \ {p} : job'[q] = job[q]
      /\ RequestOK(p)'
  <2>1. ASSUME NEW op \in Ops, NEW pw \in Passwords \cup {None}, NEW l \in Links \cup {None},
               op # "Login", op \in {"ChangePassword", "PasswordChanged"} => verified[u],
               job' = [job EXCEPT ![p] = Asked(op, u, pw, l)]
        PROVE  /\ \A q \in Procs \ {p} : job'[q] = job[q]
               /\ RequestOK(p)'
    <3>1. job'[p] = Asked(op, u, pw, l) /\ \A q \in Procs \ {p} : job'[q] = job[q]
      BY <2>1 DEF SessionsInv, TypeOK
    <3>2. job'[p].op = op /\ job'[p].user = u
      BY <3>1 DEF Asked
    <3> QED BY <1>2, <2>1, <3>1, <3>2 DEF RequestOK, account
  <2>2. CASE VerifyEmail(p, u) \/ LogoutAll(p, u) \/ RequestReset(p, u)
    <3>1. confirm[u] \in Links \cup {None}
      BY DEF SessionsInv, TypeOK
    <3> QED BY <2>1, <2>2, <3>1 DEF VerifyEmail, LogoutAll, RequestReset, Ops
  <2>3. CASE Moderate(p, u)
    BY <2>1, <2>3 DEF Moderate, Ops
  <2>4. ASSUME NEW pw \in Passwords, ResetPassword(p, u, pw)
        PROVE  /\ \A q \in Procs \ {p} : job'[q] = job[q]
               /\ RequestOK(p)'
    <3>1. reset[u] \in Links \cup {None}
      BY DEF SessionsInv, TypeOK
    <3> QED BY <2>1, <2>4, <3>1 DEF ResetPassword, Ops
  <2>5. ASSUME NEW pw \in Passwords, ChangePassword(p, u, pw)
        PROVE  /\ \A q \in Procs \ {p} : job'[q] = job[q]
               /\ RequestOK(p)'
    <3>1. verified[u]
      BY <2>5 DEF ChangePassword, SignedIn, SessionsInv, TokenOK
    <3> QED BY <2>1, <2>5, <3>1 DEF ChangePassword, Ops
  <2>6. ASSUME NEW pw \in Passwords, Login(p, u, pw)
        PROVE  /\ \A q \in Procs \ {p} : job'[q] = job[q]
               /\ RequestOK(p)'
    <3> DEFINE a == Asked("Login", u, pw, None)
               r == [a EXCEPT !.version = version[u], !.verified = verified[u]]
    <3>1. a \in Request /\ a.op = "Login" /\ a.user = u /\ a.revoked = FALSE
      <4>1. a \in Request
        BY <1>1, AskedType DEF Ops
      <4>2. a.op = "Login" /\ a.user = u /\ a.revoked = FALSE
        BY DEF Asked
      <4> QED BY <4>1, <4>2
    <3>2. job' = [job EXCEPT ![p] = r]
      BY <2>6 DEF Login
    <3> HIDE DEF a
    <3>3. /\ r.op = "Login" /\ r.user = u /\ r.revoked = FALSE
          /\ r.version = version[u] /\ r.verified = verified[u]
      BY <3>1 DEF Request
    <3> HIDE DEF r
    <3>4. job'[p] = r /\ \A q \in Procs \ {p} : job'[q] = job[q]
      BY <3>2 DEF SessionsInv, TypeOK
    <3>5. version' = version /\ verified' = verified /\ version[u] \in Nat
      BY <1>2 DEF account, SessionsInv, TypeOK
    <3> QED BY <3>3, <3>4, <3>5 DEF RequestOK
  <2> QED BY <1>1, <2>2, <2>3, <2>4, <2>5, <2>6
<1>6. ASSUME NEW q \in Procs PROVE RequestOK(q)'
  <2>1. CASE q = p
    BY <1>5, <2>1
  <2>2. CASE q # p
    BY <1>3, <1>5, <2>2, RequestKept
  <2> QED BY <2>1, <2>2
<1> QED BY <1>2, <1>4, <1>6 DEF SessionsInv, AbsentUnverified, account

\* Confirming never takes a confirmation back.
LEMMA ConfirmSessions ==
  ASSUME SessionsInv, NEW u \in Users, confirmUser(u)
  PROVE  Grows /\ AbsentUnverified' /\ version' = version /\ verified'[u]
  BY DEF SessionsInv, TypeOK, confirmUser, Grows, AbsentUnverified, HasRow

LEMMA VerifyEmailTxSessions ==
  ASSUME SessionsInv, TypeOK', NEW p \in Procs, VerifyEmailTx(p)
  PROVE  SessionsInv'
<1> DEFINE u == job[p].user
<1>1. job[p] \in Request
  BY AsksRequest DEF VerifyEmailTx, SessionsInv, Ops
<1>2. u \in Users
  BY <1>1 DEF Request
<1>3. version[u] \in Nat
  BY <1>2 DEF SessionsInv, TypeOK
<1>4. Grows /\ AbsentUnverified' /\ version' = version /\ verified'[u]
  BY <1>2, ConfirmSessions DEF VerifyEmailTx
<1>5. issueTokens(u, version[u], "confirm", job[p].revoked) /\ Answer(p)
  BY DEF VerifyEmailTx
<1>6. \A t \in tokens' : TokenOK(t)'
  BY <1>2, <1>3, <1>4, <1>5, TokensIssued
<1>7. \A q \in Procs : RequestOK(q)'
  BY <1>4, <1>5, RequestsAnswered
<1> QED BY <1>4, <1>6, <1>7 DEF SessionsInv

LEMMA LoginEndsSessions ==
  ASSUME SessionsInv, TypeOK', NEW p \in Procs,
         LoginIssue(p) \/ LoginSendVerification(p) \/ LoginConfirm(p)
  PROVE  SessionsInv'
<1> DEFINE u == job[p].user
<1>1. job[p] \in Request /\ job[p].op = "Login"
  BY AsksRequest DEF LoginIssue, LoginSendVerification, LoginConfirm, SessionsInv, Ops, Asks
<1>2. u \in Users /\ job[p].version \in Nat
  BY <1>1 DEF Request
<1>3. /\ job[p].version <= version[u]
      /\ job[p].revoked => job[p].version < version[u]
      /\ job[p].verified => verified[u]
  BY <1>1 DEF SessionsInv, RequestOK
<1>4. Answer(p)
  BY DEF LoginIssue, LoginSendVerification, LoginConfirm
<1>5. CASE LoginIssue(p)
  <2>1. Grows /\ AbsentUnverified' /\ version' = version /\ verified'[u]
    BY <1>3, <1>5 DEF LoginIssue, Grows, AbsentUnverified, SessionsInv, TypeOK, account
  <2>2. \A t \in tokens' : TokenOK(t)'
    BY <1>2, <1>3, <1>5, <2>1, TokensIssued DEF LoginIssue
  <2> QED BY <1>4, <2>1, <2>2, RequestsAnswered DEF SessionsInv
<1>6. CASE LoginSendVerification(p)
  <2>1. Grows /\ AbsentUnverified' /\ version' = version /\ tokens' = tokens
    BY <1>6 DEF LoginSendVerification, Grows, AbsentUnverified, SessionsInv, TypeOK, account
  <2> QED BY <1>4, <2>1, TokensKept, RequestsAnswered DEF SessionsInv
<1>7. CASE LoginConfirm(p)
  <2>1. Grows /\ AbsentUnverified' /\ version' = version /\ verified'[u]
    BY <1>2, <1>7, ConfirmSessions DEF LoginConfirm
  <2>2. \A t \in tokens' : TokenOK(t)'
    BY <1>2, <1>3, <1>7, <2>1, TokensIssued DEF LoginConfirm
  <2> QED BY <1>4, <2>1, <2>2, RequestsAnswered DEF SessionsInv
<1> QED BY <1>5, <1>6, <1>7

\* Signing out everywhere reaches the logins under way: they read the version
\* before.
LEMMA RequestsRevoked ==
  ASSUME SessionsInv, TypeOK', Grows, NEW u \in Users, version[u] < version'[u],
         verified' = verified, NEW q \in Procs, job'[q] = RevokedJobs(u)[q]
  PROVE  RequestOK(q)'
<1>1. CASE job[q].op \in {"Login", "VerifyEmail", "PasswordChanged"} /\ job[q].user = u
  <2>1. job'[q] = [job[q] EXCEPT !.revoked = TRUE]
    BY <1>1 DEF RevokedJobs
  <2>2. job[q] \in Request
    BY <1>1 DEF SessionsInv, TypeOK, Idle
  <2>3. /\ job'[q].op = job[q].op /\ job'[q].user = u
        /\ job'[q].version = job[q].version /\ job'[q].verified = job[q].verified
    BY <1>1, <2>1, <2>2, RequestUpdate
  <2>4. job[q].version \in Nat /\ version[u] \in Nat /\ version'[u] \in Nat
    BY <2>2 DEF Request, SessionsInv, TypeOK
  <2>5. RequestOK(q)
    BY DEF SessionsInv
  <2>6. job[q].op = "Login" => job[q].version < version'[u]
    BY <1>1, <2>4, <2>5 DEF RequestOK
  <2>7. job[q].op = "Login" => job[q].version <= version'[u]
    BY <2>4, <2>6
  <2> QED BY <1>1, <2>3, <2>5, <2>6, <2>7 DEF RequestOK
<1>2. CASE ~(job[q].op \in {"Login", "VerifyEmail", "PasswordChanged"} /\ job[q].user = u)
  <2>1. job'[q] = job[q]
    BY <1>2 DEF RevokedJobs
  <2> QED BY <2>1, RequestKept
<1> QED BY <1>1, <1>2

LEMMA BumpsSessions ==
  ASSUME SessionsInv, TypeOK', NEW p \in Procs, Bumps(p)
  PROVE  SessionsInv'
<1> DEFINE u == job[p].user
<1>1. job[p] \in Request /\ BumpTokenVersion(u)
  BY BumpsRequest DEF SessionsInv
<1>2. u \in Users
  BY <1>1 DEF Request
<1>3. verified' = verified /\ AbsentUnverified'
  <2>1. CASE RemoveAccount(p)
    BY <2>1 DEF RemoveAccount, SessionsInv, AbsentUnverified, TypeOK
  <2>2. CASE ~RemoveAccount(p)
    BY <2>2 DEF Bumps, LogoutAllWrite, SetPassword, ResetPasswordTx, BlockUser,
       SessionsInv, AbsentUnverified
  <2> QED BY <2>1, <2>2
<1>4. (\A t \in tokens' : TokenOK(t)') /\ Grows /\ version[u] < version'[u]
  BY <1>1, <1>2, <1>3, TokensRevoked
<1>5. ASSUME NEW q \in Procs, q # p
      PROVE  RequestOK(q)'
  <2>1. job'[q] = RevokedJobs(u)[q]
    BY <1>5 DEF Bumps, LogoutAllWrite, SetPassword, ResetPasswordTx, BlockUser, RemoveAccount,
       RevokedJobs
  <2> QED BY <1>2, <1>3, <1>4, <2>1, RequestsRevoked
<1>6. RequestOK(p)'
  <2>1. RevokedJobs(u) \in [Procs -> Request \cup {Idle}]
    BY RevokedJobsType DEF SessionsInv
  <2>2. CASE SetPassword(p)
    <3>1. job'[p] = [job[p] EXCEPT !.op = "PasswordChanged"]
      BY <2>1, <2>2 DEF SetPassword
    <3>2. job'[p].op = "PasswordChanged" /\ job'[p].user = u
      BY <1>1, <3>1, RequestUpdate
    <3>3. verified[u]
      BY <2>2 DEF SetPassword, Asks, SessionsInv, RequestOK
    <3> QED BY <1>3, <3>2, <3>3 DEF RequestOK
  <2>3. CASE ~SetPassword(p)
    <3>1. job'[p] = Idle
      BY <2>1, <2>3 DEF Bumps, LogoutAllWrite, ResetPasswordTx, BlockUser, RemoveAccount
    <3> QED BY <3>1 DEF RequestOK, Idle
  <2> QED BY <2>2, <2>3
<1>7. \A q \in Procs : RequestOK(q)'
  BY <1>5, <1>6
<1> QED BY <1>3, <1>4, <1>7 DEF SessionsInv

LEMMA OthersSessions ==
  ASSUME SessionsInv, TypeOK', NEW p \in Procs,
         \/ PasswordChangedIssue(p) \/ DropOlderReset(p) \/ StoreReset(p)
         \/ UnblockUser(p) \/ Drop(p)
  PROVE  SessionsInv'
<1>1. version' = version /\ verified' = verified /\ status' = status
  BY DEF PasswordChangedIssue, DropOlderReset, StoreReset, UnblockUser, Drop, account
<1>2. Grows /\ AbsentUnverified'
  BY <1>1 DEF Grows, AbsentUnverified, SessionsInv, TypeOK
<1>3. CASE PasswordChangedIssue(p)
  <2> DEFINE u == job[p].user
  <2>1. job[p] \in Request
    BY <1>3, AsksRequest DEF PasswordChangedIssue, SessionsInv, Ops
  <2>2. u \in Users
    BY <2>1 DEF Request
  <2>3. version[u] \in Nat /\ verified'[u]
    BY <1>1, <1>3, <2>2 DEF PasswordChangedIssue, Asks, SessionsInv, RequestOK, TypeOK
  <2>4. issueTokens(u, version[u], "change", job[p].revoked) /\ Answer(p)
    BY <1>3 DEF PasswordChangedIssue
  <2>5. \A t \in tokens' : TokenOK(t)'
    BY <1>1, <1>2, <2>2, <2>3, <2>4, TokensIssued
  <2> QED BY <1>2, <2>4, <2>5, RequestsAnswered DEF SessionsInv
<1>4. CASE DropOlderReset(p)
  <2>1. job[p] \in Request
    BY <1>4, AsksRequest DEF DropOlderReset, SessionsInv, Ops
  <2>2. job' = [job EXCEPT ![p] = [job[p] EXCEPT !.op = "StoreReset"]]
    BY <1>4 DEF DropOlderReset, SessionsInv, TypeOK
  <2>3. job'[p].op = "StoreReset"
    BY <2>1, <2>2, RequestUpdate DEF SessionsInv, TypeOK
  <2>4. RequestOK(p)'
    BY <2>3 DEF RequestOK
  <2>5. ASSUME NEW q \in Procs, q # p PROVE RequestOK(q)'
    <3>1. job'[q] = job[q]
      BY <2>2, <2>5 DEF SessionsInv, TypeOK
    <3> QED BY <1>2, <3>1, RequestKept
  <2>6. \A t \in tokens' : TokenOK(t)'
    BY <1>1, <1>2, <1>4, TokensKept DEF DropOlderReset
  <2>7. \A q \in Procs : RequestOK(q)'
    BY <2>4, <2>5
  <2> QED BY <1>2, <2>6, <2>7 DEF SessionsInv
<1>5. CASE StoreReset(p) \/ UnblockUser(p) \/ Drop(p)
  <2>1. Answer(p) /\ tokens' = tokens
    BY <1>5 DEF StoreReset, UnblockUser, Drop
  <2> QED BY <1>1, <1>2, <2>1, TokensKept, RequestsAnswered DEF SessionsInv
<1> QED BY <1>3, <1>4, <1>5

LEMMA AccountStepsSessions ==
  ASSUME SessionsInv, TypeOK',
         \/ \E u \in Users, pw \in Passwords : Register(u, pw)
         \/ \E t \in tokens : Refresh(t)
         \/ DeleteUnverifiedUsers
         \/ ExpireLink
         \/ Restart
  PROVE  SessionsInv'
<1>1. ASSUME Grows, AbsentUnverified', version' = version, tokens' = tokens, job' = job
      PROVE  SessionsInv'
  <2>1. \A q \in Procs : RequestOK(q)'
    BY <1>1, RequestKept
  <2> QED BY <1>1, <2>1, TokensKept DEF SessionsInv
<1>2. ASSUME NEW u \in Users, NEW pw \in Passwords, Register(u, pw)
      PROVE  SessionsInv'
  <2>1. version' = version /\ tokens' = tokens /\ job' = job
    BY <1>2 DEF Register
  <2>2. status[u] = "absent" /\ ~verified[u]
    BY <1>2 DEF Register, SessionsInv, AbsentUnverified
  <2>3. Grows /\ AbsentUnverified'
    BY <1>2, <2>1, <2>2 DEF Register, Grows, AbsentUnverified, SessionsInv, TypeOK
  <2> QED BY <1>1, <2>1, <2>3
<1>3. ASSUME NEW t \in tokens, Refresh(t)
      PROVE  SessionsInv'
  <2>1. t \in Token /\ TokenOK(t)
    BY DEF SessionsInv, TypeOK
  <2>2. t.user \in Users /\ t.version \in Nat
    BY <2>1 DEF Token
  <2>3. version[t.user] \in Nat
    BY <2>2 DEF SessionsInv, TypeOK
  <2>4. version' = version /\ verified' = verified /\ status' = status /\ job' = job
    BY <1>3 DEF Refresh, account
  <2>5. Grows /\ AbsentUnverified'
    BY <2>4 DEF Grows, AbsentUnverified, SessionsInv, TypeOK
  <2>6. ~(t.revoked /\ t.from = "login")
    BY <1>3, <2>1, <2>2, <2>3 DEF Refresh, Accepted, TokenOK
  <2>7. issueTokens(t.user, version[t.user], t.from, t.revoked)
    BY <1>3 DEF Refresh
  <2>8. version[t.user] <= version[t.user] /\ verified'[t.user]
    BY <2>1, <2>3, <2>4 DEF TokenOK
  <2>9. \A x \in tokens' : TokenOK(x)'
    BY <2>2, <2>3, <2>4, <2>5, <2>6, <2>7, <2>8, TokensIssued
  <2>10. \A q \in Procs : RequestOK(q)'
    BY <2>4, <2>5, RequestKept
  <2> QED BY <2>5, <2>9, <2>10 DEF SessionsInv
<1>4. CASE DeleteUnverifiedUsers
  <2>1. /\ version' = version /\ verified' = verified /\ tokens' = tokens /\ job' = job
        /\ \A u \in Users : status'[u] = "absent" => status[u] = "absent"
    BY <1>4 DEF DeleteUnverifiedUsers
  <2>2. Grows /\ AbsentUnverified'
    BY <2>1 DEF Grows, AbsentUnverified, SessionsInv, TypeOK
  <2> QED BY <1>1, <2>1, <2>2
<1>5. CASE ExpireLink
  <2>1. UNCHANGED <<account, tokens, job>>
    BY <1>5 DEF ExpireLink
  <2>2. Grows /\ AbsentUnverified' /\ version' = version
    BY <2>1 DEF Grows, AbsentUnverified, SessionsInv, TypeOK, account
  <2> QED BY <1>1, <2>1, <2>2
<1>6. CASE Restart
  <2>1. UNCHANGED <<account, tokens>> /\ \A q \in Procs : job'[q] = Idle
    BY <1>6 DEF Restart
  <2>2. Grows /\ AbsentUnverified' /\ version' = version
    BY <2>1 DEF Grows, AbsentUnverified, SessionsInv, TypeOK, account
  <2>3. \A q \in Procs : RequestOK(q)'
    BY <2>1 DEF RequestOK, Idle
  <2> QED BY <2>1, <2>2, <2>3, TokensKept DEF SessionsInv
<1> QED BY <1>2, <1>3, <1>4, <1>5, <1>6

LEMMA NextSessions ==
  ASSUME SessionsInv, [Next]_vars
  PROVE  SessionsInv'
<1>1. TypeOK'
  BY NextType DEF SessionsInv
<1>2. CASE UNCHANGED vars
  <2>1. Grows /\ AbsentUnverified' /\ UNCHANGED <<version, tokens, job>>
    BY <1>2 DEF vars, account, Grows, AbsentUnverified, SessionsInv, TypeOK
  <2>2. \A q \in Procs : RequestOK(q)'
    BY <1>1, <2>1, RequestKept
  <2> QED BY <1>1, <2>1, <2>2, TokensKept DEF SessionsInv
<1>3. CASE Next
  BY <1>1, <1>3, NextCases, BeginsSessions, BumpsSessions, VerifyEmailTxSessions,
     LoginEndsSessions, OthersSessions, AccountStepsSessions
<1> QED BY <1>2, <1>3

\* The invariant both theorems below follow from.
THEOREM SessionsInvariant == Spec => []SessionsInv
  BY InitSessions, NextSessions, PTL DEF Spec

\* Whoever was signed out everywhere, blocked, given a new password or deleted
\* stays out with every session a password opened, also one whose login was
\* under way (the token version of auth.go and moderation.go).
THEOREM SignedOutStaysOut == Spec => []RevokedStaysOut
  BY SessionsInvariant, SessionsImply, PTL

\* Nobody is signed in to an account that is not confirmed: neither a login nor a
\* confirmation link nor a refresh hands out a token for one.
THEOREM OnlyConfirmedSignIn == Spec => []SignedInIsConfirmed
  BY SessionsInvariant, SessionsImply, PTL

-----------------------------------------------------------------------------
(* The first space comes with the confirmation. A deleted account keeps    *)
(* its confirmation and loses its spaces, so the equivalence is not for    *)
(* it; what is inductive says of every account that only confirmed ones    *)
(* got a first space, or DeleteUnverifiedUsers could take an account with  *)
(* a space once its row was anonymised.                                    *)

OwnersAreConfirmed == \A u \in Users : owned[u] > 0 => verified[u]

FirstSpaceInv == SessionsInv /\ FirstSpaceWithConfirmation /\ OwnersAreConfirmed

\* A step that touches neither confirmations nor first spaces.
LEMMA FirstSpaceKept ==
  ASSUME FirstSpaceInv, UNCHANGED <<owned, verified>>,
         \A u \in Users : status'[u] # "deleted" => status[u] # "deleted" \/ ~verified[u]
  PROVE  FirstSpaceWithConfirmation' /\ OwnersAreConfirmed'
  BY DEF FirstSpaceInv, FirstSpaceWithConfirmation, OwnersAreConfirmed

\* Confirming gives both at once.
LEMMA FirstSpaceConfirmed ==
  ASSUME FirstSpaceInv, NEW u \in Users, confirmUser(u)
  PROVE  FirstSpaceWithConfirmation' /\ OwnersAreConfirmed'
<1>1. owned \in [Users -> Nat] /\ verified \in [Users -> BOOLEAN]
  BY DEF FirstSpaceInv, SessionsInv, TypeOK
<1>2. owned'[u] > 0 /\ verified'[u]
  BY <1>1 DEF confirmUser
<1>3. \A v \in Users : v # u => owned'[v] = owned[v] /\ verified'[v] = verified[v]
  BY <1>1 DEF confirmUser
<1>4. status' = status
  BY DEF confirmUser
<1> QED BY <1>2, <1>3, <1>4 DEF FirstSpaceInv, FirstSpaceWithConfirmation, OwnersAreConfirmed

LEMMA RegisterFirstSpace ==
  ASSUME FirstSpaceInv, NEW u \in Users, NEW pw \in Passwords, Register(u, pw)
  PROVE  FirstSpaceWithConfirmation' /\ OwnersAreConfirmed'
<1>1. /\ owned \in [Users -> Nat] /\ verified \in [Users -> BOOLEAN]
      /\ status \in [Users -> {"absent", "registered", "deleted", "gone"}]
  BY DEF FirstSpaceInv, SessionsInv, TypeOK
<1>2. ~verified[u] /\ ~(owned[u] > 0)
  BY DEF Register, FirstSpaceInv, SessionsInv, AbsentUnverified, OwnersAreConfirmed
<1>3. \A v \in Users : v # u => /\ status'[v] = status[v]
                               /\ owned'[v] = owned[v] /\ verified'[v] = verified[v]
  BY <1>1 DEF Register
<1>4. owned'[u] > 0 <=> verified'[u]
  <2>1. verified'[u] <=> ~mail
    BY <1>1 DEF Register
  <2>2. CASE mail
    BY <1>2, <2>1, <2>2 DEF Register
  <2>3. CASE ~mail
    BY <1>1, <2>1, <2>3 DEF Register
  <2> QED BY <2>2, <2>3
<1> QED BY <1>3, <1>4 DEF FirstSpaceInv, FirstSpaceWithConfirmation, OwnersAreConfirmed

LEMMA RemoveAccountFirstSpace ==
  ASSUME FirstSpaceInv, NEW p \in Procs, RemoveAccount(p)
  PROVE  FirstSpaceWithConfirmation' /\ OwnersAreConfirmed'
<1> DEFINE u == job[p].user
<1>1. /\ owned \in [Users -> Nat] /\ u \in Users
      /\ status \in [Users -> {"absent", "registered", "deleted", "gone"}]
  BY BumpsRequest DEF FirstSpaceInv, SessionsInv, TypeOK, Bumps, Request
<1>2. status'[u] = "deleted" /\ owned'[u] = 0 /\ verified' = verified
  BY <1>1 DEF RemoveAccount
<1>3. \A v \in Users : v # u => status'[v] = status[v] /\ owned'[v] = owned[v]
  BY <1>1 DEF RemoveAccount
<1> HIDE DEF u
<1> QED BY <1>1, <1>2, <1>3 DEF FirstSpaceInv, FirstSpaceWithConfirmation, OwnersAreConfirmed

LEMMA NextFirstSpace ==
  ASSUME FirstSpaceInv, [Next]_vars
  PROVE  FirstSpaceInv'
<1> DEFINE Kept == FirstSpaceWithConfirmation' /\ OwnersAreConfirmed'
<1>1. SessionsInv' /\ TypeOK
  BY NextSessions DEF FirstSpaceInv, SessionsInv
<1>2. ASSUME NEW p \in Procs, VerifyEmailTx(p) \/ LoginConfirm(p)
      PROVE  Kept
  <2>1. job[p].user \in Users
    BY <1>1, <1>2, AsksRequest DEF VerifyEmailTx, LoginConfirm, Ops, Request
  <2> QED BY <1>2, <2>1, FirstSpaceConfirmed DEF VerifyEmailTx, LoginConfirm
<1>3. ASSUME \/ \E p \in Procs :
                   \/ Begins(p) \/ LogoutAllWrite(p) \/ SetPassword(p) \/ ResetPasswordTx(p)
                   \/ BlockUser(p) \/ LoginIssue(p) \/ LoginSendVerification(p)
                   \/ PasswordChangedIssue(p) \/ DropOlderReset(p) \/ StoreReset(p)
                   \/ UnblockUser(p) \/ Drop(p)
             \/ \E t \in tokens : Refresh(t)
             \/ ExpireLink
             \/ Restart
             \/ UNCHANGED vars
      PROVE  Kept
  <2>1. ASSUME NEW p \in Procs, Begins(p)
        PROVE  UNCHANGED <<status, owned, verified>>
    BY <2>1 DEF Begins, VerifyEmail, LogoutAll, RequestReset, Moderate, Login, ChangePassword,
                ResetPassword, account
  <2>2. ASSUME NEW p \in Procs,
               LogoutAllWrite(p) \/ SetPassword(p) \/ ResetPasswordTx(p) \/ BlockUser(p)
        PROVE  UNCHANGED <<status, owned, verified>>
    BY <2>2 DEF LogoutAllWrite, SetPassword, ResetPasswordTx, BlockUser
  <2>3. ASSUME NEW p \in Procs, \/ LoginIssue(p) \/ LoginSendVerification(p)
                                \/ PasswordChangedIssue(p) \/ DropOlderReset(p)
                                \/ StoreReset(p) \/ UnblockUser(p) \/ Drop(p)
        PROVE  UNCHANGED <<status, owned, verified>>
    BY <2>3 DEF LoginIssue, LoginSendVerification, PasswordChangedIssue, DropOlderReset,
                StoreReset, UnblockUser, Drop, account
  <2>4. ASSUME NEW t \in tokens, Refresh(t)
        PROVE  UNCHANGED <<status, owned, verified>>
    BY <2>4 DEF Refresh, account
  <2>5. ASSUME ExpireLink \/ Restart \/ UNCHANGED vars
        PROVE  UNCHANGED <<status, owned, verified>>
    BY <2>5 DEF ExpireLink, Restart, vars, account
  <2>6. UNCHANGED <<status, owned, verified>>
    BY <1>3, <2>1, <2>2, <2>3, <2>4, <2>5
  <2> QED BY <2>6, FirstSpaceKept
<1>4. ASSUME DeleteUnverifiedUsers
      PROVE  Kept
  <2>1. UNCHANGED <<owned, verified>> /\
        \A u \in Users : status'[u] = status[u] \/ ~verified[u]
    BY <1>4 DEF DeleteUnverifiedUsers
  <2> QED BY <2>1, FirstSpaceKept
<1>5. Kept
  <2> HIDE DEF Kept
  <2>1. ASSUME NEW u \in Users, NEW pw \in Passwords, Register(u, pw)
        PROVE  Kept
    BY <2>1, RegisterFirstSpace DEF Kept
  <2>2. ASSUME NEW p \in Procs, RemoveAccount(p)
        PROVE  Kept
    BY <2>2, RemoveAccountFirstSpace DEF Kept
  <2> QED BY <1>2, <1>3, <1>4, <2>1, <2>2, NextCases DEF Bumps
<1> QED BY <1>1, <1>5 DEF FirstSpaceInv

\* "They own nothing yet: the first space is created with the confirmation"
\* (store/verification.go): DeleteUnverifiedUsers never takes a first space with it
\* and nobody is confirmed without one, whatever confirmations, logins, changes of
\* the mail setting and deletions come together.
THEOREM FirstSpaceComesWithConfirmation == Spec => []FirstSpaceWithConfirmation
<1>1. Init => FirstSpaceInv
  BY InitSessions DEF Init, FirstSpaceInv, FirstSpaceWithConfirmation, OwnersAreConfirmed
<1>2. FirstSpaceInv /\ [Next]_vars => FirstSpaceInv'
  BY NextFirstSpace
<1>3. FirstSpaceInv => FirstSpaceWithConfirmation
  BY DEF FirstSpaceInv
<1> QED BY <1>1, <1>2, <1>3, PTL DEF Spec
=============================================================================
