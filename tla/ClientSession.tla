---------------------------- MODULE ClientSession -----------------------------
(***************************************************************************)
(* AuthInterceptor and AuthService of the Flutter client, against the      *)
(* refresh endpoint of the server.  A pair of tokens is a number, in the   *)
(* order the server makes them; the client starts logged in with pair 0.   *)
(*                                                                         *)
(* Requests of the client are concurrent: Interceptor does not queue them. *)
(* The requests that onError makes go through the same Dio, so one that is *)
(* answered 401 enters onError again: a request of the app is a stack of   *)
(* the requests that were answered 401 on its behalf, App at the bottom,   *)
(* a number for POST /auth/refresh with that refresh token.                *)
(***************************************************************************)
EXTENDS Integers, Sequences

CONSTANTS
  Requests,
  App, None,
  Throttle,   \* depth at which the server answers 429; the code allows far more
  MaxLost   \* bound: answers that are lost

ASSUME SessionAssumption == Throttle \in Nat \ {0} /\ MaxLost \in Nat
ASSUME NamesAssumption == App \notin Nat /\ None \notin Nat

VARIABLES
  access, refresh,   \* the stored tokens
  live, valid,       \* on the server: refresh tokens not revoked, access tokens not expired
  newestPair,        \* the last pair the server made
  lapsed, isActive,  \* pairs whose refresh token has expired, the oldest ones; User.isActive
  qpc, stack, posted, pair,  \* of each request: its step, its stack, the token posted, the pair got
  lpc, leaving,      \* logout: its step, the token it read
  lostAnswers,
  overlapped,        \* history: two requests were under way at once
  raced,             \* history: a request was under way while logout deleted the tokens
  spoiled            \* history: the server ended the session, or answered with another error

tokensStored  == <<access, refresh>>
server  == <<live, valid, newestPair, lapsed, isActive>>
reqs    == <<qpc, stack, posted, pair>>
logout  == <<lpc, leaving>>
sessionHistory == <<overlapped, raced, spoiled>>
sessionVars    == <<tokensStored, server, reqs, logout, lostAnswers, sessionHistory>>

MaxPairs == 3 * Throttle   \* bound: pairs the server makes
Pairs    == 0 .. MaxPairs
Steps    == {"idle", "read", "post", "rotate", "access", "refresh", "retry", "wipe", "ok", "failed"}
UnderWay(q) == qpc[q] \notin {"idle", "ok", "failed"}
Top(q)      == stack[q][Len(stack[q])]
Pop(q)      == SubSeq(stack[q], 1, Len(stack[q]) - 1)

SessionInit ==
  /\ access = 0 /\ refresh = 0 /\ live = {0} /\ valid = {0} /\ newestPair = 0
  /\ qpc = [q \in Requests |-> "idle"] /\ stack = [q \in Requests |-> <<>>]
  /\ posted = [q \in Requests |-> 0] /\ pair = posted
  /\ lpc = "idle" /\ leaving = 0 /\ lostAnswers = 0 /\ lapsed = 0 /\ isActive = TRUE
  /\ overlapped = FALSE /\ raced = FALSE /\ spoiled = FALSE

\* JwtStrategy, and refreshToken, look the user up.
Admits(t)  == isActive /\ t \in valid
Renews(t)  == isActive /\ t \in live /\ t >= lapsed

GotoQ(q, from, to) == qpc[q] = from /\ qpc' = [qpc EXCEPT ![q] = to]

----------------------------------------------------------------------------
(* onRequest and onError *)

\* An error other than 401 is no matter of onError's.
Send(q) ==
  /\ IF Admits(access)
       THEN GotoQ(q, "idle", "ok") /\ UNCHANGED stack
       ELSE GotoQ(q, "idle", "read") /\ stack' = [stack EXCEPT ![q] = <<App>>]
  /\ overlapped' = (overlapped \/ \E o \in Requests : UnderWay(o))
  /\ raced' = (raced \/ lpc = "refresh")
  /\ UNCHANGED <<tokensStored, server, posted, pair, logout, lostAnswers, spoiled>>

\* The error of the top request is passed on, and thrown at the one below.
PassOn(q) ==
  /\ stack' = [stack EXCEPT ![q] = Pop(q)]
  /\ qpc' = [qpc EXCEPT ![q] = IF Len(stack[q]) = 1 THEN "failed" ELSE "wipe"]

ReadRefresh(q) ==
  /\ qpc[q] = "read"
  /\ IF refresh = None
       THEN PassOn(q) /\ UNCHANGED posted
       ELSE /\ GotoQ(q, "read", "post") /\ UNCHANGED stack
            /\ posted' = [posted EXCEPT ![q] = refresh]
  /\ UNCHANGED <<tokensStored, server, pair, logout, lostAnswers, sessionHistory>>

\* Request r is answered 401, or 429, which onError leaves alone.
Refuse(q, r) ==
  IF Len(stack[q]) < Throttle
    THEN stack' = [stack EXCEPT ![q] = Append(@, r)] /\ qpc' = [qpc EXCEPT ![q] = "read"]
    ELSE UNCHANGED stack /\ qpc' = [qpc EXCEPT ![q] = "wipe"]

\* A request that onError sent is answered with another error, or not at all: the
\* error is thrown inside the try.
Fail(q) ==
  /\ qpc' = [qpc EXCEPT ![q] = "wipe"] /\ spoiled' = TRUE
  /\ UNCHANGED stack

\* The server finds the token good, or revoked, expired or of an inactive user, or
\* does not get as far.
Post(q) ==
  /\ qpc[q] = "post"
  /\ \/ Renews(posted[q]) /\ GotoQ(q, "post", "rotate") /\ UNCHANGED <<stack, spoiled>>
     \/ /\ ~Renews(posted[q]) /\ Refuse(q, posted[q])
        /\ spoiled' = (spoiled \/ posted[q] \in live)
     \/ Fail(q)
  /\ UNCHANGED <<tokensStored, server, posted, pair, logout, lostAnswers, overlapped, raced>>

\* The server rotates; its answer may be lost.
RotatePair(q) ==
  /\ newestPair < MaxPairs /\ newestPair' = newestPair + 1
  /\ live' = (live \ {posted[q]}) \cup {newestPair + 1} /\ valid' = valid \cup {newestPair + 1}
  /\ pair' = [pair EXCEPT ![q] = newestPair + 1] /\ UNCHANGED <<lapsed, isActive>>
  /\ \/ GotoQ(q, "rotate", "access") /\ UNCHANGED lostAnswers
     \/ lostAnswers < MaxLost /\ lostAnswers' = lostAnswers + 1 /\ GotoQ(q, "rotate", "wipe")
  /\ UNCHANGED <<tokensStored, stack, posted, logout, sessionHistory>>

StoreAccess(q) ==
  /\ GotoQ(q, "access", "refresh") /\ access' = pair[q]
  /\ UNCHANGED <<refresh, server, stack, posted, pair, logout, lostAnswers, sessionHistory>>

\* Mutant: only the access token is new.
StoreNoRefresh(q) ==
  /\ GotoQ(q, "refresh", "retry")
  /\ UNCHANGED <<tokensStored, server, stack, posted, pair, logout, lostAnswers, sessionHistory>>

StoreRefresh(q) ==
  /\ GotoQ(q, "refresh", "retry") /\ refresh' = pair[q]
  /\ UNCHANGED <<access, server, stack, posted, pair, logout, lostAnswers, sessionHistory>>

\* Mutant: the request is sent again as it was.
RetryAsItWas(q) ==
  /\ qpc[q] = "retry"
  /\ Refuse(q, Top(q))
  /\ UNCHANGED <<tokensStored, server, posted, pair, logout, lostAnswers, sessionHistory>>

\* The request at the top is sent again, with the new access token.  A refresh
\* carries in its body the token that was refused.
Retry(q) ==
  /\ qpc[q] = "retry"
  /\ \/ /\ Top(q) = App /\ Admits(pair[q])
        /\ GotoQ(q, "retry", "ok") /\ stack' = [stack EXCEPT ![q] = <<>>] /\ UNCHANGED spoiled
     \/ /\ Top(q) # App \/ ~Admits(pair[q])
        /\ Refuse(q, Top(q)) /\ spoiled' = (spoiled \/ ~isActive)
     \/ Fail(q)
  /\ UNCHANGED <<tokensStored, server, posted, pair, logout, lostAnswers, overlapped, raced>>

\* The catch block of onError: deleteAll.
Wipe(q) ==
  /\ qpc[q] = "wipe" /\ PassOn(q)
  /\ access' = None /\ refresh' = None
  /\ UNCHANGED <<server, posted, pair, logout, lostAnswers, sessionHistory>>

----------------------------------------------------------------------------
(* logout, and what the server does by itself *)

Leave ==
  /\ lpc = "idle" /\ leaving' = refresh
  /\ lpc' = IF refresh = None THEN "access" ELSE "post"
  /\ UNCHANGED <<tokensStored, server, reqs, lostAnswers, sessionHistory>>

\* The answer is not looked at, and an error is swallowed.
Revoke ==
  /\ lpc = "post" /\ lpc' = "access"
  /\ \/ live' = live \ {leaving} /\ UNCHANGED lostAnswers
     \/ lostAnswers < MaxLost /\ lostAnswers' = lostAnswers + 1 /\ UNCHANGED live
  /\ UNCHANGED <<tokensStored, valid, newestPair, lapsed, isActive, reqs, leaving, sessionHistory>>

ClearAccess ==
  /\ lpc = "access" /\ lpc' = "refresh" /\ access' = None
  /\ raced' = (\E q \in Requests : UnderWay(q))
  /\ UNCHANGED <<refresh, server, reqs, leaving, lostAnswers, overlapped, spoiled>>

\* Mutant: the refresh token is left.
ClearNothing ==
  /\ lpc = "refresh" /\ lpc' = "done"
  /\ raced' = (raced \/ \E q \in Requests : UnderWay(q))
  /\ UNCHANGED <<tokensStored, server, reqs, leaving, lostAnswers, overlapped, spoiled>>

ClearRefresh ==
  /\ lpc = "refresh" /\ lpc' = "done" /\ refresh' = None
  /\ raced' = (raced \/ \E q \in Requests : UnderWay(q))
  /\ UNCHANGED <<access, server, reqs, leaving, lostAnswers, overlapped, spoiled>>

\* JWT_ACCESS_EXPIRY, 15 minutes, outlasts the request that got the token, which
\* times out after 30 seconds.
ExpireAccess(t) ==
  /\ ~\E q \in Requests : UnderWay(q) /\ pair[q] = t /\ t > 0
  /\ t \in valid /\ valid' = valid \ {t}
  /\ UNCHANGED <<tokensStored, live, newestPair, lapsed, isActive>>
  /\ UNCHANGED <<reqs, logout, lostAnswers, sessionHistory>>

\* JWT_REFRESH_EXPIRY: the oldest expire first.  One that was spent is refused anyway.
ExpireRefresh(t) ==
  /\ t \in live /\ t >= lapsed /\ lapsed' = t + 1
  /\ UNCHANGED <<tokensStored, live, valid, newestPair, isActive>>
  /\ UNCHANGED <<reqs, logout, lostAnswers, sessionHistory>>

\* An admin deactivates the user.  Bound: for good.
Deactivate ==
  /\ isActive /\ isActive' = FALSE
  /\ UNCHANGED <<tokensStored, live, valid, newestPair, lapsed>>
  /\ UNCHANGED <<reqs, logout, lostAnswers, sessionHistory>>

OnError(q) ==
  ReadRefresh(q) \/ Post(q) \/ RotatePair(q) \/ StoreAccess(q) \/ StoreRefresh(q) \/ Retry(q) \/ Wipe(q)

SessionNext ==
  \/ \E q \in Requests : Send(q) \/ OnError(q)
  \/ Leave \/ Revoke \/ ClearAccess \/ ClearRefresh
  \/ Deactivate \/ \E t \in Pairs : ExpireAccess(t) \/ ExpireRefresh(t)

SessionSpec == SessionInit /\ [][SessionNext]_sessionVars
----------------------------------------------------------------------------
(* Properties *)

SessionTypeOK ==
  /\ access \in Pairs \cup {None} /\ refresh \in Pairs \cup {None}
  /\ live \subseteq Pairs /\ valid \subseteq Pairs /\ newestPair \in Pairs
  /\ lapsed \in 0 .. MaxPairs + 1 /\ isActive \in BOOLEAN
  /\ qpc \in [Requests -> Steps]
  /\ stack \in [Requests -> Seq(Pairs \cup {App})]
  /\ \A q \in Requests : Len(stack[q]) <= Throttle /\ (UnderWay(q) => stack[q] # <<>>)
  /\ posted \in [Requests -> Pairs] /\ pair \in [Requests -> Pairs]
  /\ lpc \in {"idle", "post", "access", "refresh", "done"} /\ leaving \in Pairs \cup {None}
  /\ lostAnswers \in 0 .. MaxLost /\ overlapped \in BOOLEAN /\ raced \in BOOLEAN /\ spoiled \in BOOLEAN

Replacing(t) == \E q \in Requests : qpc[q] \in {"access", "refresh"} /\ posted[q] = t

\* While no answer is lost and nobody logs out, the stored refresh token is one
\* that was not spent, or is about to be replaced by the request that rotated it:
\* no late write puts a spent token back (api_client.dart:116).
StoredTokenWorks ==
  lostAnswers = 0 /\ lpc = "idle" /\ refresh # None => refresh \in live \/ Replacing(refresh)

\* A client whose requests never overlap keeps its session, and none of its
\* refreshes is refused, as long as no answer is lost, no request that onError
\* sent is answered with another error, and the server has not refused a token
\* that was not spent.  Only requests that race for a rotation are refused a spent
\* one and clear each other's tokens (api_client.dart:111, 126).
LoneRequestsKeepSession ==
  lostAnswers = 0 /\ lpc = "idle" /\ ~overlapped /\ ~spoiled =>
    /\ access # None /\ refresh # None
    /\ \A q \in Requests : Len(stack[q]) <= 1

\* After a logout the refresh token is gone from the device for good, unless a
\* request was refreshing while it was cleared (auth_service.dart:60,
\* api_client.dart:117).
LogoutSticks == lpc = "done" /\ ~raced => refresh = None /\ access = None

\* "on 401 -> POST /auth/refresh -> stores new tokens -> retries original request;
\* refresh failure clears storage", FRONTEND_SPEC.md:78: a refresh that is refused
\* is the last.  It is answered 401 too, and enters onError again
\* (api_client.dart:109, 113).
RefusalEndsRefreshing ==
  \A q \in Requests : \A p \in DOMAIN stack[q] : stack[q][p] # App => qpc[q] = "wipe"

==============================================================================
