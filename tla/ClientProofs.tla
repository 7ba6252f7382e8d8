---------------------------- MODULE ClientProofs ----------------------------
(***************************************************************************)
(* Proofs that no call of the frontend takes effect twice, and that none   *)
(* is refused only because its access token ran out (Client): for any      *)
(* number of calls, of any operations.                                     *)
(***************************************************************************)
EXTENDS Client, TLAPS

\* What is known of a call. leaving: the page is about to be loaded again.
Sound(r, leaving) ==
  /\ r.handled <= 1
  /\ r.phase = "sent" \/ r.answer = "401" => r.handled = 0
  /\ r.phase \in {"sent", "answered"} => r.sent \in {1, 2}
  /\ r.phase = "waiting" => r.answer = "401" /\ r.sent = 1
  /\ r.phase = "sent" /\ r.sent = 2 => r.bearer \in {"live", "revoked"}
  /\ r.phase = "answered" /\ r.answer = "401" /\ r.sent = 2 => r.bearer = "revoked"
  /\ r.phase = "done" /\ r.answer = "401" /\ r.kind.renewed
     => r.bearer = "revoked" \/ leaving

SoundCall(leaving) == {r \in Call : Sound(r, leaving)}

\* The types of what is not a call. A renewal never brings a token that has expired.
Rest ==
  /\ token \in Tokens
  /\ cookie \in {None, "live"}
  /\ {renewal, startup} \subseteq Refresh
  /\ page \in {"app", "setup", "to login", "to setup"}
  /\ initial \in BOOLEAN
  /\ renewal.gives # "dead"

\* The inductive invariant: the second request of a call carries a token the server
\* has just handed out, so that it is refused only if that was revoked meanwhile.
Inv == Rest /\ call \in [Calls -> SoundCall(Leaving)]

-----------------------------------------------------------------------------
\* Operations.

LEMMA KindType == \A op \in AllOperations : Kind(op) \in Kinds
<1> SUFFICES ASSUME NEW op \in AllOperations
             PROVE  Kind(op) \in Kinds
  OBVIOUS
<1>1. Does(op) \in {"sign in", "new password", "sign out", "sign out everywhere", "forget",
                    "nothing"}
  BY DEF Does
<1>2. (op.bearer /\ op \notin Anonymous) \in BOOLEAN
      /\ (op \notin Anonymous /\ ~underAuth(op)) \in BOOLEAN
      /\ isPublic(op) \in BOOLEAN /\ (op \in allowedDuringSetup) \in BOOLEAN
  BY DEF isPublic
<1> QED BY <1>1, <1>2 DEF Kind, Kinds

LEMMA OperationsThere == featureFlags \in AllOperations
  BY DEF AllOperations, AppApi

LEMMA NoCallSound == \A leaving \in BOOLEAN : NoCall \in SoundCall(leaving)
<1>1. Kind(featureFlags) \in Kinds
  BY KindType, OperationsThere
<1>2. NoCall \in Call
  BY <1>1 DEF NoCall, Call, Sent, Tokens, None
<1> QED BY <1>2 DEF NoCall, SoundCall, Sound, None

\* A call just asked for.
LEMMA AskedSound ==
  ASSUME NEW op \in AllOperations, NEW given, NEW held \in Tokens, NEW leaving \in BOOLEAN
  PROVE  Asked(op, given, held) \in SoundCall(leaving)
<1>1. Kind(op) \in Kinds
  BY KindType
<1>2. Kind(featureFlags) \in Kinds
  BY KindType, OperationsThere
<1>3. CASE op.needs \subseteq given
  <2>1. Asked(op, given, held)
        = [phase |-> "sent", kind |-> Kind(op),
           bearer |-> IF Kind(op).signed THEN held ELSE None, gives |-> None,
           sent |-> 1, handled |-> 0, answer |-> None]
    BY <1>3 DEF Asked, NoCall
  <2> QED BY <1>1, <2>1 DEF SoundCall, Call, Sound, Sent, Tokens, None
<1>4. CASE ~(op.needs \subseteq given)
  <2>1. Asked(op, given, held)
        = [phase |-> "done", kind |-> Kind(featureFlags), bearer |-> None, gives |-> None,
           sent |-> 0, handled |-> 0, answer |-> "rejected"]
    BY <1>4 DEF Asked, NoCall
  <2> QED BY <1>2, <2>1 DEF SoundCall, Call, Sound, Sent, Tokens, None
<1> QED BY <1>3, <1>4

-----------------------------------------------------------------------------
\* What happens to one call. r is the call before, s after.

LEMMA KilledSound ==
  ASSUME NEW leaving \in BOOLEAN, NEW r \in SoundCall(leaving)
  PROVE  [r EXCEPT !.bearer = Kill(@), !.gives = Kill(@)] \in SoundCall(leaving)
<1> DEFINE s == [r EXCEPT !.bearer = Kill(@), !.gives = Kill(@)]
<1>1. r \in Call /\ Sound(r, leaving)
  BY DEF SoundCall
<1>2. s \in Call
  BY <1>1 DEF Call, Kill, Sent, Tokens, None
<1>3. /\ s.phase = r.phase /\ s.answer = r.answer /\ s.sent = r.sent
      /\ s.handled = r.handled /\ s.kind = r.kind /\ s.bearer = Kill(r.bearer)
  BY <1>1 DEF Call
<1>4. Sound(s, leaving)
  <2> HIDE DEF s
  <2> QED BY <1>1, <1>3 DEF Sound, Kill
<1> QED BY <1>2, <1>4 DEF SoundCall

LEMMA AgedSound ==
  ASSUME NEW leaving \in BOOLEAN, NEW r \in SoundCall(leaving),
         ~(r.phase = "sent" /\ r.sent = 2)
  PROVE  [r EXCEPT !.bearer = Aged(@)] \in SoundCall(leaving)
<1> DEFINE s == [r EXCEPT !.bearer = Aged(@)]
<1>1. r \in Call /\ Sound(r, leaving)
  BY DEF SoundCall
<1>2. s \in Call
  BY <1>1 DEF Call, Aged, Sent, Tokens, None
<1>3. /\ s.phase = r.phase /\ s.answer = r.answer /\ s.sent = r.sent
      /\ s.handled = r.handled /\ s.kind = r.kind /\ s.bearer = Aged(r.bearer)
  BY <1>1 DEF Call
<1>4. Sound(s, leaving)
  <2> HIDE DEF s
  <2> QED BY <1>1, <1>3 DEF Sound, Aged
<1> QED BY <1>2, <1>4 DEF SoundCall

\* An answer other than a refusal, after the handler or without it.
LEMMA AnsweredSound ==
  ASSUME NEW leaving \in BOOLEAN, NEW r \in SoundCall(leaving),
         r.phase \in {"sent", "answered"},
         NEW answer \in {"setup", "failed", "ok"}, NEW gives \in Sent,
         NEW more \in {0, 1}, more = 1 => r.phase = "sent"
  PROVE  [r EXCEPT !.phase = "answered", !.answer = answer, !.handled = @ + more,
                   !.gives = gives] \in SoundCall(leaving)
<1> DEFINE s == [r EXCEPT !.phase = "answered", !.answer = answer, !.handled = @ + more,
                          !.gives = gives]
<1>1. r \in Call /\ Sound(r, leaving)
  BY DEF SoundCall
<1>2. r.handled + more \in {0, 1}
  BY <1>1 DEF Sound, Call
<1>3. s \in Call
  <2>1. r.handled + more \in 0..2
    BY <1>2
  <2>2. answer \in {None, "rejected", "401", "setup", "failed", "ok"}
    OBVIOUS
  <2>3. s = [r EXCEPT !.phase = "answered", !.answer = answer,
                      !.handled = r.handled + more, !.gives = gives]
    BY <1>1 DEF Call
  <2> QED BY <1>1, <2>1, <2>2, <2>3 DEF Call
<1>4. /\ s.phase = "answered" /\ s.answer = answer /\ s.sent = r.sent
      /\ s.handled = r.handled + more
  BY <1>1 DEF Call
<1>5. Sound(s, leaving)
  <2> HIDE DEF s
  <2> QED BY <1>1, <1>2, <1>4 DEF Sound
<1> QED BY <1>3, <1>5 DEF SoundCall

LEMMA UnauthorizedSound ==
  ASSUME NEW leaving \in BOOLEAN, NEW r \in SoundCall(leaving),
         r.phase = "sent", ~LetIn(r)
  PROVE  [r EXCEPT !.phase = "answered", !.answer = "401"] \in SoundCall(leaving)
<1> DEFINE s == [r EXCEPT !.phase = "answered", !.answer = "401"]
<1>1. r \in Call /\ Sound(r, leaving)
  BY DEF SoundCall
<1>2. s \in Call
  BY <1>1 DEF Call
<1>3. /\ s.phase = "answered" /\ s.answer = "401" /\ s.sent = r.sent
      /\ s.handled = r.handled /\ s.bearer = r.bearer
  BY <1>1 DEF Call
<1>4. Sound(s, leaving)
  <2> HIDE DEF s
  <2> QED BY <1>1, <1>3 DEF Sound, LetIn
<1> QED BY <1>2, <1>4 DEF SoundCall

LEMMA WaitingSound ==
  ASSUME NEW leaving \in BOOLEAN, NEW r \in SoundCall(leaving), Renews(r)
  PROVE  [r EXCEPT !.phase = "waiting"] \in SoundCall(leaving)
<1> DEFINE s == [r EXCEPT !.phase = "waiting"]
<1>1. r \in Call /\ Sound(r, leaving)
  BY DEF SoundCall
<1>2. s \in Call
  BY <1>1 DEF Call
<1>3. /\ s.phase = "waiting" /\ s.answer = r.answer /\ s.sent = r.sent
      /\ s.handled = r.handled
  BY <1>1 DEF Call
<1>4. Sound(s, leaving)
  <2> HIDE DEF s
  <2> QED BY <1>1, <1>3 DEF Sound, Renews
<1> QED BY <1>2, <1>4 DEF SoundCall

\* A call that ends: refused twice, refused for good, or with a page about to load.
LEMMA OverSound ==
  ASSUME NEW leaving \in BOOLEAN, NEW r \in SoundCall(leaving), NEW after \in BOOLEAN,
         \/ after
         \/ r.phase = "answered" /\ ~Renews(r)
  PROVE  Over(r) \in SoundCall(after)
<1>1. r \in Call /\ Sound(r, leaving)
  BY DEF SoundCall
<1>2. CASE r.answer = "401"
  <2> DEFINE s == [r EXCEPT !.phase = "done"]
  <2>1. s \in Call
    BY <1>1 DEF Call
  <2>2. /\ s.phase = "done" /\ s.answer = "401" /\ s.sent = r.sent
        /\ s.handled = r.handled /\ s.bearer = r.bearer /\ s.kind = r.kind
    BY <1>1, <1>2 DEF Call
  <2>3. Sound(s, after)
    <3> HIDE DEF s
    <3> QED BY <1>1, <1>2, <2>2 DEF Sound, Renews
  <2> QED BY <1>2, <2>1, <2>3 DEF SoundCall, Over
<1>3. CASE r.answer # "401"
  BY <1>3, NoCallSound DEF Over
<1> QED BY <1>2, <1>3

\* A call sent once more with the new token.
LEMMA SentAgainSound ==
  ASSUME NEW leaving \in BOOLEAN, NEW r \in SoundCall(leaving), r.phase = "waiting",
         NEW token2 \in {"live", "revoked"}
  PROVE  [r EXCEPT !.phase = "sent", !.sent = @ + 1, !.bearer = token2, !.answer = None]
         \in SoundCall(leaving)
<1> DEFINE s == [r EXCEPT !.phase = "sent", !.sent = @ + 1, !.bearer = token2,
                          !.answer = None]
<1>1. r \in Call /\ Sound(r, leaving)
  BY DEF SoundCall
<1>2. r.sent + 1 = 2
  BY <1>1 DEF Sound
<1>3. s \in Call
  <2>1. s = [r EXCEPT !.phase = "sent", !.sent = 2, !.bearer = token2, !.answer = None]
    BY <1>1, <1>2 DEF Call
  <2>2. token2 \in Sent /\ 2 \in 0..2
    BY DEF Sent, Tokens
  <2> HIDE DEF s
  <2> QED BY <1>1, <2>1, <2>2 DEF Call
<1>4. /\ s.phase = "sent" /\ s.answer = None /\ s.sent = 2
      /\ s.handled = r.handled /\ s.bearer = token2
  BY <1>1, <1>2 DEF Call
<1>5. Sound(s, leaving)
  <2> HIDE DEF s
  <2> QED BY <1>1, <1>4 DEF Sound, None
<1> QED BY <1>3, <1>5 DEF SoundCall

\* Nothing depends on leaving but that it may excuse a refusal.
LEMMA LeavingExcuses ==
  ASSUME NEW leaving \in BOOLEAN, NEW after \in BOOLEAN, leaving => after
  PROVE  SoundCall(leaving) \subseteq SoundCall(after)
  BY DEF SoundCall, Sound

-----------------------------------------------------------------------------
\* The whole state.

LEMMA InvIsTyped == Inv => TypeOK
<1> SUFFICES ASSUME Inv
             PROVE  TypeOK
  OBVIOUS
<1>1. call \in [Calls -> Call]
  BY DEF Inv, SoundCall
<1> QED BY <1>1 DEF Inv, Rest, TypeOK

LEMMA LeavingIsBoolean == Leaving \in BOOLEAN
  BY DEF Leaving

\* One call is replaced, the page stays.
LEMMA OneCall ==
  ASSUME Inv, NEW c \in Calls, NEW s \in SoundCall(Leaving), page' = page,
         call' = [call EXCEPT ![c] = s]
  PROVE  call' \in [Calls -> SoundCall(Leaving')]
<1>1. call' \in [Calls -> SoundCall(Leaving)]
  BY DEF Inv
<1>2. Leaving' = Leaving
  BY DEF Leaving
<1> QED BY <1>1, <1>2

LEMMA NewRefresh == ASSUME NEW with \in {None, "live"}
                    PROVE  /\ Refreshing(with) \in Refresh
                           /\ Refreshing(with).gives = None
                           /\ NoRefresh \in Refresh /\ NoRefresh.gives = None
  BY DEF Refreshing, NoRefresh, Refresh, Sent, Tokens, None

\* The page is loaded for the first time or again.
LEMMA FreshPage ==
  ASSUME NEW leaving \in BOOLEAN
  PROVE  [c \in Calls |-> NoCall] \in [Calls -> SoundCall(leaving)]
  BY NoCallSound

LEMMA InitInv == Init => Inv
<1> SUFFICES ASSUME Init
             PROVE  Inv
  OBVIOUS
<1>1. call \in [Calls -> SoundCall(Leaving)]
  BY FreshPage, LeavingIsBoolean DEF Init
<1>2. Rest
  <2>1. startup \in Refresh
    BY NewRefresh DEF Init
  <2>2. renewal \in Refresh /\ renewal.gives # "dead"
    BY NewRefresh DEF Init, None
  <2> QED BY <2>1, <2>2 DEF Init, Rest
<1> QED BY <1>1, <1>2 DEF Inv

\* The sessions of the account end.
LEMMA RevokedRest ==
  ASSUME Rest, Revoked, page' = page, initial' \in BOOLEAN
  PROVE  Rest'
<1>1. ASSUME NEW r \in Refresh
      PROVE  KillIn(r) \in Refresh /\ (r.gives # "dead" => KillIn(r).gives # "dead")
  BY <1>1 DEF KillIn, Kill, Refresh, Sent, Tokens, None
<1>2. {renewal', startup'} \subseteq Refresh /\ renewal'.gives # "dead"
  BY <1>1 DEF Rest, Revoked
<1>3. token' \in Tokens /\ cookie' = None
  BY DEF Rest, Revoked, Aged, Tokens
<1> QED BY <1>2, <1>3 DEF Rest

LEMMA KilledCalls ==
  ASSUME NEW leaving \in BOOLEAN, NEW calls \in [Calls -> SoundCall(leaving)]
  PROVE  Killed(calls) \in [Calls -> SoundCall(leaving)]
  BY KilledSound DEF Killed

LEMMA RevokeInv == ASSUME Inv, Revoke PROVE Inv'
<1>1. Rest'
  BY RevokedRest DEF Inv, Revoke, Rest
<1>2. Leaving' = Leaving
  BY DEF Revoke, Leaving
<1>3. call' \in [Calls -> SoundCall(Leaving)]
  BY KilledCalls, LeavingIsBoolean DEF Inv, Revoke
<1> QED BY <1>1, <1>2, <1>3 DEF Inv

LEMMA ExpireInv == ASSUME Inv, Expire PROVE Inv'
<1>1. Rest'
  BY DEF Inv, Expire, Rest, Aged, Tokens
<1>2. Leaving' = Leaving
  BY DEF Expire, Leaving
<1>3. \A c \in Calls : ~(call[c].phase = "sent" /\ call[c].sent = 2)
  BY DEF Expire, Fresh
<1>4. \A c \in Calls : [call[c] EXCEPT !.bearer = Aged(@)] \in SoundCall(Leaving)
  BY <1>3, AgedSound, LeavingIsBoolean DEF Inv
<1>5. call' \in [Calls -> SoundCall(Leaving)]
  BY <1>4 DEF Expire
<1> QED BY <1>1, <1>2, <1>5 DEF Inv

LEMMA LoadInv == ASSUME Inv, Load PROVE Inv'
<1>1. call' \in [Calls -> SoundCall(Leaving')]
  <2>1. Leaving' \in BOOLEAN
    BY DEF Leaving
  <2> QED BY <2>1, FreshPage DEF Load
<1>2. {renewal', startup'} \subseteq Refresh /\ renewal'.gives # "dead"
  BY NewRefresh DEF Load, Inv, Rest, None
<1> QED BY <1>1, <1>2 DEF Inv, Rest, Load

\* The page is left, or not, and no call changes.
LEMMA NavigateInv == ASSUME Inv, Navigate PROVE Inv'
<1>1. Leaving' \in BOOLEAN /\ (Leaving => Leaving')
  <2>1. Leaving' \in BOOLEAN
    BY DEF Leaving
  <2>2. Leaving => Leaving'
    BY DEF Navigate, Leaving
  <2> QED BY <2>1, <2>2
<1>2. call' \in [Calls -> SoundCall(Leaving')]
  BY <1>1, LeavingExcuses, LeavingIsBoolean DEF Inv, Navigate
<1>3. Rest'
  BY DEF Inv, Rest, Navigate
<1> QED BY <1>2, <1>3 DEF Inv

LEMMA QuietInv ==
  ASSUME Inv, UNCHANGED <<call, page>>, Rest'
  PROVE  Inv'
  BY DEF Inv, Leaving

LEMMA RefreshedType ==
  ASSUME NEW r \in Refresh, NEW s \in Refreshed(r)
  PROVE  s \in Refresh /\ s.gives # "dead"
  BY DEF Refreshed, Refresh, Sent, Tokens, None

LEMMA DropCookieInv == ASSUME Inv, DropCookie PROVE Inv'
  BY QuietInv DEF Inv, Rest, DropCookie

LEMMA RenewalReplyInv == ASSUME Inv, RenewalReply PROVE Inv'
<1>1. renewal' \in Refresh /\ renewal'.gives # "dead"
  BY RefreshedType DEF Inv, Rest, RenewalReply
<1> QED BY <1>1, QuietInv DEF Inv, Rest, RenewalReply

LEMMA StartupReplyInv == ASSUME Inv, StartupReply PROVE Inv'
<1>1. startup' \in Refresh
  BY RefreshedType DEF Inv, Rest, StartupReply
<1> QED BY <1>1, QuietInv DEF Inv, Rest, StartupReply

LEMMA ReceivedType == ASSUME NEW t \in Sent PROVE Received(t) \in Tokens
  BY DEF Received, Sent, Tokens

LEMMA ShowInv == ASSUME Inv, Show PROVE Inv'
<1>1. startup.gives \in Sent
  BY DEF Inv, Rest, Refresh
<1>2. token' \in Tokens
  BY <1>1, ReceivedType DEF Show
<1>3. startup' \in Refresh
  BY NewRefresh DEF Show
<1> QED BY <1>2, <1>3, QuietInv DEF Inv, Rest, Show

\* The common refresh is over.
LEMMA RenewInv == ASSUME Inv, Renew PROVE Inv'
<1>1. renewal \in Refresh /\ renewal.gives \in Sent \ {"dead"}
  BY DEF Inv, Rest, Refresh
<1>2. Rest'
  <2>1. token' \in Tokens
    BY <1>1, ReceivedType DEF Renew
  <2>2. renewal' \in Refresh /\ renewal'.gives # "dead"
    BY NewRefresh DEF Renew, None
  <2> QED BY <2>1, <2>2 DEF Inv, Rest, Renew
<1>3. Leaving' \in BOOLEAN /\ (Leaving => Leaving') /\ (renewal.gives = None => Leaving')
  <2>1. Leaving' \in BOOLEAN
    BY DEF Leaving
  <2>2. (Leaving => Leaving') /\ (renewal.gives = None => Leaving')
    BY DEF Renew, Leaving
  <2> QED BY <2>1, <2>2
<1>4. ASSUME NEW c \in Calls
      PROVE  Resumed(call[c]) \in SoundCall(Leaving')
  <2>1. call[c] \in SoundCall(Leaving)
    BY DEF Inv
  <2>2. CASE call[c].phase # "waiting"
    BY <1>3, <2>1, <2>2, LeavingExcuses, LeavingIsBoolean DEF Resumed
  <2>3. CASE call[c].phase = "waiting" /\ renewal.gives = None
    <3>1. Over(call[c]) \in SoundCall(Leaving')
      BY <1>3, <2>1, <2>3, OverSound, LeavingIsBoolean
    <3> QED BY <2>3, <3>1 DEF Resumed
  <2>4. CASE call[c].phase = "waiting" /\ renewal.gives # None
    <3> DEFINE s == [call[c] EXCEPT !.phase = "sent", !.sent = @ + 1,
                                    !.bearer = renewal.gives, !.answer = None]
    <3>1. renewal.gives \in {"live", "revoked"}
      BY <1>1, <2>4 DEF Sent, Tokens
    <3>2. s \in SoundCall(Leaving)
      BY <2>1, <2>4, <3>1, SentAgainSound, LeavingIsBoolean
    <3>3. Resumed(call[c]) = s
      BY <2>4 DEF Resumed
    <3> QED BY <1>3, <3>2, <3>3, LeavingExcuses, LeavingIsBoolean
  <2> QED BY <2>2, <2>3, <2>4
<1>5. call' \in [Calls -> SoundCall(Leaving')]
  BY <1>4 DEF Renew
<1> QED BY <1>2, <1>5 DEF Inv

-----------------------------------------------------------------------------
\* Steps of one call.

LEMMA RequestInv == ASSUME Inv, NEW c \in Calls, Request(c) PROVE Inv'
<1>1. PICK held \in Tokens : \E r \in Requests[c][held] : call' = [call EXCEPT ![c] = r]
  BY DEF Request
<1>2. PICK r \in Requests[c][held] : call' = [call EXCEPT ![c] = r]
  BY <1>1
<1>3. PICK op \in Asks[c] : r = Asked(op, op.needs, held) \/ r = Asked(op, {}, held)
  BY <1>2 DEF Requests
<1>4. op \in AllOperations
  BY ClientAssumption
<1>5. r \in SoundCall(Leaving)
  BY <1>3, <1>4, AskedSound, LeavingIsBoolean
<1>6. call' \in [Calls -> SoundCall(Leaving')]
  BY <1>2, <1>5, OneCall DEF Request
<1> QED BY <1>6 DEF Inv, Rest, Request

LEMMA UnauthorizedInv == ASSUME Inv, NEW c \in Calls, Unauthorized(c) PROVE Inv'
<1> DEFINE s == [call[c] EXCEPT !.phase = "answered", !.answer = "401"]
<1>1. call[c] \in SoundCall(Leaving)
  BY DEF Inv
<1>2. s \in SoundCall(Leaving)
  BY <1>1, UnauthorizedSound, LeavingIsBoolean DEF Unauthorized
<1>3. call' = [call EXCEPT ![c] = s]
  BY DEF Unauthorized, Answered, Inv
<1>4. call' \in [Calls -> SoundCall(Leaving')]
  <2> HIDE DEF s
  <2> QED BY <1>2, <1>3, OneCall DEF Unauthorized
<1> QED BY <1>4 DEF Inv, Rest, Unauthorized

\* The call after an answer that is not a refusal.
After(c, answer, more, gives) ==
  [call[c] EXCEPT !.phase = "answered", !.answer = answer, !.handled = @ + more,
                  !.gives = gives]

LEMMA AfterSound ==
  ASSUME Inv, NEW c \in Calls, call[c].phase \in {"sent", "answered"},
         NEW answer \in {"setup", "failed", "ok"}, NEW gives \in Sent,
         NEW more \in {0, 1}, more = 1 => call[c].phase = "sent"
  PROVE  After(c, answer, more, gives) \in SoundCall(Leaving)
<1>1. call[c] \in SoundCall(Leaving)
  BY DEF Inv
<1> QED BY <1>1, AnsweredSound, LeavingIsBoolean DEF After

LEMMA ChooseYourPasswordInv == ASSUME Inv, NEW c \in Calls, ChooseYourPassword(c) PROVE Inv'
<1>1. call[c] \in Call
  BY DEF Inv, SoundCall
<1>2. After(c, "setup", 0, call[c].gives) \in SoundCall(Leaving)
  BY <1>1, AfterSound DEF ChooseYourPassword, Call
<1>3. call' = [call EXCEPT ![c] = After(c, "setup", 0, call[c].gives)]
  <2>1. After(c, "setup", 0, call[c].gives)
        = [call[c] EXCEPT !.phase = "answered", !.answer = "setup"]
    <3>1. call[c].handled + 0 = call[c].handled
      BY <1>1 DEF Call
    <3> QED BY <1>1, <3>1 DEF After, Call
  <2> QED BY <2>1 DEF ChooseYourPassword, Answered, Inv
<1>4. call' \in [Calls -> SoundCall(Leaving')]
  BY <1>2, <1>3, OneCall DEF ChooseYourPassword
<1> QED BY <1>4 DEF Inv, Rest, ChooseYourPassword

LEMMA LoseInv == ASSUME Inv, NEW c \in Calls, Lose(c) PROVE Inv'
<1>1. call[c] \in Call
  BY DEF Inv, SoundCall
<1>2. After(c, "failed", 0, None) \in SoundCall(Leaving)
  BY AfterSound DEF Lose, Sent, Tokens
<1>3. call' = [call EXCEPT ![c] = After(c, "failed", 0, None)]
  <2>1. After(c, "failed", 0, None)
        = [call[c] EXCEPT !.phase = "answered", !.answer = "failed", !.gives = None]
    <3>1. call[c].handled + 0 = call[c].handled
      BY <1>1 DEF Call
    <3> QED BY <1>1, <3>1 DEF After, Call
  <2>2. Answered(c, "failed")[c] = [call[c] EXCEPT !.phase = "answered", !.answer = "failed"]
    BY DEF Answered, Inv
  <2> QED BY <2>1, <2>2 DEF Lose, Answered, Inv
<1>4. call' \in [Calls -> SoundCall(Leaving')]
  BY <1>2, <1>3, OneCall DEF Lose
<1> QED BY <1>4 DEF Inv, Rest, Lose

\* The calls after the handler has run.
LEMMA HandledSound ==
  ASSUME Inv, NEW c \in Calls, call[c].phase = "sent",
         NEW answer \in {"failed", "ok"}, NEW gives \in {None, "live"}
  PROVE  Handled(c, answer, gives) \in [Calls -> SoundCall(Leaving)]
<1>1. call[c] \in Call
  BY DEF Inv, SoundCall
<1>2. After(c, answer, 1, gives) \in SoundCall(Leaving)
  BY AfterSound DEF Sent, Tokens
<1>3. Handled(c, answer, gives) = [call EXCEPT ![c] = After(c, answer, 1, gives)]
  BY <1>1 DEF Handled, Answered, After, Inv, Call
<1> QED BY <1>2, <1>3 DEF Inv

LEMMA HandleInv == ASSUME Inv, NEW c \in Calls, Handle(c) PROVE Inv'
<1>0. Leaving' = Leaving /\ page' = page /\ call[c].phase = "sent"
  BY DEF Handle, Leaving
<1>1. CASE /\ call' = Handled(c, "failed", None)
           /\ UNCHANGED <<token, cookie, renewal, startup, initial>>
  BY <1>0, <1>1, HandledSound DEF Inv, Rest
<1>2. CASE /\ call' = Handled(c, "ok", IF call[c].kind.does = "sign in" THEN "live" ELSE None)
           /\ UNCHANGED <<token, cookie, renewal, startup, initial>>
  BY <1>0, <1>2, HandledSound DEF Inv, Rest
<1>3. CASE Revoked /\ call' = Killed(Handled(c, "ok", None)) /\ UNCHANGED initial
  <2>1. Handled(c, "ok", None) \in [Calls -> SoundCall(Leaving)]
    BY <1>0, HandledSound
  <2>2. call' \in [Calls -> SoundCall(Leaving)]
    BY <1>3, <2>1, KilledCalls, LeavingIsBoolean
  <2>3. Rest'
    BY <1>0, <1>3, RevokedRest DEF Inv, Rest
  <2> QED BY <1>0, <2>2, <2>3 DEF Inv
<1>4. CASE /\ Revoked
           /\ call' = [Killed(Handled(c, "ok", None)) EXCEPT ![c].gives = "live"]
           /\ initial' = FALSE
  <2>1. Handled(c, "ok", None) \in [Calls -> SoundCall(Leaving)]
    BY <1>0, HandledSound
  <2> DEFINE calls == Killed(Handled(c, "ok", None))
  <2>2. calls \in [Calls -> SoundCall(Leaving)]
    BY <2>1, KilledCalls, LeavingIsBoolean
  <2>3. ASSUME NEW r \in SoundCall(Leaving)
        PROVE  [r EXCEPT !.gives = "live"] \in SoundCall(Leaving)
    <3> DEFINE s == [r EXCEPT !.gives = "live"]
    <3>1. r \in Call /\ Sound(r, Leaving)
      BY DEF SoundCall
    <3>2. s \in Call
      BY <3>1 DEF Call, Sent, Tokens
    <3>3. /\ s.phase = r.phase /\ s.answer = r.answer /\ s.sent = r.sent
          /\ s.handled = r.handled /\ s.bearer = r.bearer /\ s.kind = r.kind
      BY <3>1 DEF Call
    <3>4. Sound(s, Leaving)
      <4> HIDE DEF s
      <4> QED BY <3>1, <3>3 DEF Sound
    <3> QED BY <3>2, <3>4 DEF SoundCall
  <2>4. call' \in [Calls -> SoundCall(Leaving)]
    <3> HIDE DEF calls
    <3>1. call' = [calls EXCEPT ![c] = [calls[c] EXCEPT !.gives = "live"]]
      BY <1>4, <2>2 DEF calls
    <3> QED BY <2>2, <2>3, <3>1
  <2>5. Rest'
    BY <1>0, <1>4, RevokedRest DEF Inv, Rest
  <2> QED BY <1>0, <2>4, <2>5 DEF Inv
<1> QED BY <1>1, <1>2, <1>3, <1>4 DEF Handle

LEMMA WaitInv == ASSUME Inv, NEW c \in Calls, Wait(c) PROVE Inv'
<1> DEFINE s == [call[c] EXCEPT !.phase = "waiting"]
<1>1. call[c] \in SoundCall(Leaving)
  BY DEF Inv
<1>2. s \in SoundCall(Leaving)
  BY <1>1, WaitingSound, LeavingIsBoolean DEF Wait
<1>3. call' = [call EXCEPT ![c] = s]
  BY DEF Wait, Inv
<1>4. call' \in [Calls -> SoundCall(Leaving')]
  <2> HIDE DEF s
  <2> QED BY <1>2, <1>3, OneCall DEF Wait
<1>5. renewal' \in Refresh /\ renewal'.gives # "dead"
  BY NewRefresh DEF Wait, Inv, Rest, None
<1> QED BY <1>4, <1>5 DEF Inv, Rest, Wait

LEMMA FinishInv == ASSUME Inv, NEW c \in Calls, Finish(c) PROVE Inv'
<1>1. call[c] \in SoundCall(Leaving) /\ call[c] \in Call
  BY DEF Inv, SoundCall
<1>2. call[c].gives \in Sent
  BY <1>1 DEF Call
<1>3. token' \in Tokens
  BY <1>2, ReceivedType DEF Finish, TokenAfter, Inv, Rest, Tokens
<1>4. cookie' \in {None, "live"}
  BY DEF Finish, CookieAfter, Accepted, Inv, Rest
<1>5. Leaving' \in BOOLEAN /\ (Leaving => Leaving')
  <2>1. Leaving' \in BOOLEAN
    BY DEF Leaving
  <2>2. Leaving => Leaving'
    BY DEF Finish, Leaving
  <2> QED BY <2>1, <2>2
<1>6. Over(call[c]) \in SoundCall(Leaving')
  BY <1>1, <1>5, OverSound, LeavingIsBoolean DEF Finish
<1>7. call \in [Calls -> SoundCall(Leaving')]
  BY <1>5, LeavingExcuses, LeavingIsBoolean DEF Inv
<1>8. call' \in [Calls -> SoundCall(Leaving')]
  BY <1>6, <1>7 DEF Finish
<1> QED BY <1>3, <1>4, <1>8 DEF Inv, Rest, Finish

-----------------------------------------------------------------------------
LEMMA NextInv == Inv /\ [Next]_vars => Inv'
<1> SUFFICES ASSUME Inv, [Next]_vars
             PROVE  Inv'
  OBVIOUS
<1>1. CASE Revoke \/ Expire \/ DropCookie \/ Load \/ Navigate
  BY <1>1, RevokeInv, ExpireInv, DropCookieInv, LoadInv, NavigateInv
<1>2. CASE RenewalReply \/ Renew \/ StartupReply \/ Show
  BY <1>2, RenewalReplyInv, RenewInv, StartupReplyInv, ShowInv
<1>3. ASSUME NEW c \in Calls, Request(c) \/ Reply(c) \/ Wait(c) \/ Finish(c)
      PROVE  Inv'
  BY <1>3, RequestInv, UnauthorizedInv, ChooseYourPasswordInv, HandleInv, LoseInv,
     WaitInv, FinishInv DEF Reply
<1>4. CASE UNCHANGED vars
  BY <1>4 DEF vars, Inv, Rest, Leaving
<1> QED BY <1>1, <1>2, <1>3, <1>4 DEF Next

LEMMA Invariance == Spec => []Inv
  BY InitInv, NextInv, PTL DEF Spec

-----------------------------------------------------------------------------
\* The session, its calls and the renewal keep their types (client.ts).
THEOREM SessionTypeCorrect == Spec => []TypeOK
  BY Invariance, InvIsTyped, PTL

\* A call may be sent twice, but the server never runs its handler twice
\* (authMiddleware of client.ts, authenticate of server.go).
THEOREM CallsHandledOnce == Spec => []HandledAtMostOnce
<1>1. Inv => HandledAtMostOnce
  BY DEF Inv, SoundCall, Sound, HandledAtMostOnce
<1> QED BY <1>1, Invariance, PTL

\* A call outside /auth/ is refused for its token only when that was revoked, or the
\* login page is about to open (authMiddleware, refreshAccessToken).
THEOREM ExpiryIsRenewed == Spec => []RenewedUnlessRevoked
<1>1. Inv => RenewedUnlessRevoked
  BY DEF Inv, SoundCall, Sound, RenewedUnlessRevoked
<1> QED BY <1>1, Invariance, PTL
=============================================================================
