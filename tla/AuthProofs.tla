------------------------------- MODULE AuthProofs -------------------------------
(***************************************************************************)
(* Proofs about AuthSessions, for any users, calls and bounds.  They rest  *)
(* on SessionInv: what a call has done so far, by its step, and what two   *)
(* refreshes of one token have in common.                                  *)
(***************************************************************************)
EXTENDS AuthSessions, FiniteSetTheorems, TLAPS

\* A refresh that found its token good and may make, or has made, another.
Promising(c) == InFlight(c) \/ token[c] # "none"

\* A call has its token from Create on, and knows the token it replaces before that.
StepsInv ==
  \A c \in Calls :
    /\ pc[c] \in {"idle", "compare"} => presented[c] = c
    /\ pc[c] \in {"user", "revoke"} => presented[c] # c
    /\ token[c] # "none" => pc[c] \in {"sign", "done", "lost"}
    /\ pc[c] \in {"sign", "done"} => token[c] # "none"
    /\ pc[c] \in {"create", "sign", "done"} /\ presented[c] # c
         => token[presented[c]] = "revoked"
    /\ presented[c] # c => pc[presented[c]] = "done" /\ token[presented[c]] # "none"

\* Two refreshes that promise a successor of one token raced for it.
RaceInv ==
  \A c, e \in Calls : 
    Promising(c) /\ Promising(e) /\ c # e /\ presented[c] = presented[e]
      => presented[c] \in {c, e} \cup raced

\* Nothing comes of a token that was logged out alone.
ClosedInv ==
  \A t \in closed : /\ token[t] = "revoked"
                    /\ \A c \in Calls \ {t} : presented[c] = t => ~Promising(c)

SessionInv == TypeOK /\ StepsInv /\ SuccessorRetires /\ RaceInv /\ ClosedInv

-----------------------------------------------------------------------------
(* The first state *)

\* No call has begun.
LEMMA InitSession == Init => SessionInv
  <1> SUFFICES ASSUME Init
               PROVE  SessionInv
    OBVIOUS
  <1>1. TypeOK
    BY BoundAssumption DEF Init, TypeOK, CallPc, Ended
  <1>2. StepsInv
    BY DEF Init, StepsInv
  <1>3. \A c \in Calls : ~Promising(c)
    BY DEF Init, Promising, InFlight
  <1>4. SuccessorRetires /\ RaceInv /\ ClosedInv
    BY <1>3 DEF Init, SuccessorRetires, Descends, RaceInv, ClosedInv
  <1> QED
    BY <1>1, <1>2, <1>4 DEF SessionInv

-----------------------------------------------------------------------------
(* Types *)

\* Every step keeps the types.
LEMMA NextTypeOK == TypeOK /\ [Next]_vars => TypeOK'
  <1> SUFFICES ASSUME TypeOK, [Next]_vars
               PROVE  TypeOK'
    OBVIOUS
  <1> USE DEF TypeOK, rows, history
  <1>1. ASSUME NEW c \in Calls, Login(c)
        PROVE  TypeOK'
    BY <1>1 DEF Login, Goto, CallPc, Ended
  <1>2. ASSUME NEW c \in Calls, Compare(c) \/ FindUser(c) \/ Sign(c)
        PROVE  TypeOK'
    BY <1>2 DEF Compare, FindUser, Sign, Goto, CallPc, Ended
  <1>3. ASSUME NEW c \in Calls, Revoke(c)
        PROVE  TypeOK'
    BY <1>3 DEF Revoke, Goto, CallPc, Ended
  <1>4. ASSUME NEW c \in Calls, Create(c)
        PROVE  TypeOK'
    BY <1>4 DEF Create, Goto, CallPc, Ended
  <1>5. ASSUME NEW c \in Calls, Reject(c)
        PROVE  TypeOK'
    BY <1>5, BoundAssumption DEF Reject, Goto, CallPc, Ended
  <1>6. ASSUME NEW c \in Calls, NEW t \in Calls, Refresh(c, t)
        PROVE  TypeOK'
    BY <1>6 DEF Refresh, Goto, CallPc, Ended
  <1>7. ASSUME NEW t \in Calls, Logout(t)
        PROVE  TypeOK'
    BY <1>7 DEF Logout
  <1>8. ASSUME NEW t \in Calls, Expire(t)
        PROVE  TypeOK'
    BY <1>8, BoundAssumption DEF Expire, Tick
  <1>9. ASSUME NEW u \in Users, SetActive(u)
        PROVE  TypeOK'
    BY <1>9, BoundAssumption DEF SetActive, Tick
  <1>10. CASE Crash
    BY <1>10, BoundAssumption DEF Crash, CallPc, Ended
  <1>11. CASE UNCHANGED vars
    BY <1>11 DEF vars
  <1> QED
    BY <1>1, <1>2, <1>3, <1>4, <1>5, <1>6, <1>7, <1>8, <1>9, <1>10, <1>11 DEF Next, Step

-----------------------------------------------------------------------------
(* SessionInv *)

\* A refresh names a token that is done: if it finds it good, nobody has replaced it yet.
LEMMA RefreshKeepsInv ==
  ASSUME SessionInv, NEW c \in Calls, NEW t \in Calls, Refresh(c, t)
  PROVE  StepsInv' /\ SuccessorRetires' /\ RaceInv' /\ ClosedInv'
  <1> USE DEF SessionInv, rows
  <1>1. /\ c # t /\ pc[c] = "idle" /\ pc[t] = "done" /\ presented[c] = c
        /\ token[c] = "none"
    BY DEF Refresh, Goto, StepsInv, TypeOK
  <1>2. /\ UNCHANGED <<token, closed>>
        /\ pc'[c] = IF Good(t) THEN "user" ELSE "denied"
        /\ presented'[c] = t
        /\ \A e \in Calls \ {c} : pc'[e] = pc[e] /\ presented'[e] = presented[e]
    BY DEF Refresh, Goto, TypeOK
  <1>3. Promising(c)' => token[t] = "live" /\ t \notin expired
    BY <1>1, <1>2 DEF Promising, InFlight, Ended, Good
  <1>4. \A e \in Calls \ {c} : Promising(e)' = Promising(e)
    BY <1>2 DEF Promising, InFlight
  <1>5. StepsInv'
    BY <1>1, <1>2 DEF StepsInv, TypeOK
  <1>6. SuccessorRetires'
    BY <1>1, <1>2 DEF SuccessorRetires, Descends
  <1>7. RaceInv'
    <2>1. ASSUME NEW e \in Calls, Promising(c)', Promising(e)', e # c, presented[e] = t, t # e
          PROVE  t \in raced'
      <3>1. token[e] = "none"
        BY <1>2, <1>3, <2>1 DEF SuccessorRetires, Descends
      <3>2. e \in Refreshing(t)
        BY <1>4, <2>1, <3>1 DEF Promising, Refreshing
      <3> QED
        BY <1>3, <2>1, <3>2 DEF Refresh, Good
    <2>2. raced \subseteq raced'
      BY DEF Refresh
    <2> QED
      BY <1>2, <1>4, <2>1, <2>2 DEF RaceInv
  <1>8. ClosedInv'
    <2>1. ASSUME t \in closed
          PROVE  ~Promising(c)'
      BY <1>3, <2>1 DEF ClosedInv
    <2> QED
      BY <1>2, <1>4, <2>1 DEF ClosedInv
  <1> QED
    BY <1>5, <1>6, <1>7, <1>8

\* The new token is of a call that nobody can have presented; the one it replaces is revoked.
LEMMA CreateKeepsInv ==
  ASSUME SessionInv, NEW c \in Calls, Create(c)
  PROVE  StepsInv' /\ SuccessorRetires' /\ RaceInv' /\ ClosedInv'
  <1> USE DEF SessionInv
  <1>1. /\ pc[c] = "create" /\ token[c] = "none"
        /\ presented[c] # c => token[presented[c]] = "revoked"
        /\ presented[c] \in Calls
    BY DEF Create, Goto, StepsInv, TypeOK
  <1>2. /\ UNCHANGED <<presented, raced, closed>>
        /\ pc'[c] = "sign" /\ token'[c] = "live"
        /\ \A e \in Calls \ {c} : pc'[e] = pc[e] /\ token'[e] = token[e]
    BY DEF Create, Goto, TypeOK, history
  <1>3. \A e \in Calls : Promising(e)' = Promising(e)
    BY <1>1, <1>2 DEF Promising, InFlight, Ended
  <1>4. \A e \in Calls \ {c} : presented[e] # c
    BY <1>1 DEF StepsInv
  <1>5. StepsInv'
    BY <1>1, <1>2, <1>4 DEF StepsInv, TypeOK
  <1>6. SuccessorRetires'
    <2>1. ASSUME NEW t \in Calls, NEW e \in Calls \ {t}, token'[e] # "none", presented[e] = t
          PROVE  token'[t] = "revoked"
      <3>1. CASE e = c
        BY <1>1, <1>2, <2>1, <3>1
      <3>2. CASE e # c
        BY <1>2, <1>4, <2>1, <3>2 DEF SuccessorRetires, Descends
      <3> QED
        BY <3>1, <3>2
    <2> QED
      BY <1>2, <2>1 DEF SuccessorRetires, Descends
  <1>7. RaceInv'
    BY <1>2, <1>3 DEF RaceInv
  <1>8. ClosedInv'
    BY <1>1, <1>2, <1>3 DEF ClosedInv, TypeOK
  <1> QED
    BY <1>5, <1>6, <1>7, <1>8

\* A step that revokes a token, the one it logs out or replaces, or changes none.
LEMMA RevocationKeepsInv ==
  ASSUME SessionInv, NEW t \in Calls,
         token' \in {token, [token EXCEPT ![t] = "revoked"]}, token[t] # "none",
         UNCHANGED presented, raced \subseteq raced',
         \A c \in Calls : Promising(c)' => Promising(c)
  PROVE  /\ SuccessorRetires' /\ RaceInv'
         /\ closed' = closed => ClosedInv'
  <1> USE DEF SessionInv
  <1>1. \A c \in Calls : /\ token[c] = "none" <=> token'[c] = "none"
                         /\ token[c] = "revoked" => token'[c] = "revoked"
    BY DEF TypeOK
  <1>2. SuccessorRetires'
    BY <1>1 DEF SuccessorRetires, Descends
  <1>3. RaceInv'
    BY DEF RaceInv
  <1>4. ASSUME closed' = closed
        PROVE  ClosedInv'
    BY <1>1, <1>4 DEF ClosedInv, TypeOK
  <1> QED
    BY <1>2, <1>3, <1>4

\* The steps that write no token.
LEMMA CallKeepsInv ==
  ASSUME SessionInv, NEW c \in Calls, 
         Login(c) \/ Compare(c) \/ FindUser(c) \/ Sign(c) \/ Reject(c)
  PROVE  StepsInv' /\ SuccessorRetires' /\ RaceInv' /\ ClosedInv'
  <1> USE DEF SessionInv
  <1>1. /\ UNCHANGED <<token, presented, raced, closed>>
        /\ \A e \in Calls \ {c} : pc'[e] = pc[e]
        /\ \/ pc[c] = "idle" /\ pc'[c] \in {"compare", "denied", "error"}
           \/ pc[c] = "compare" /\ pc'[c] \in {"create", "denied"}
           \/ pc[c] = "user" /\ pc'[c] \in {"revoke", "denied", "error"}
           \/ pc[c] \in {"revoke", "create"} /\ pc'[c] = "error"
           \/ pc[c] = "sign" /\ pc'[c] = "done"
    BY DEF Login, Compare, FindUser, Sign, Reject, Goto, TypeOK, rows, history
  <1>2. StepsInv'
    BY <1>1 DEF StepsInv, TypeOK
  <1>3. \A e \in Calls \ {c} : Promising(e)' = Promising(e)
    BY <1>1 DEF Promising, InFlight
  <1>4. Promising(c)' => Promising(c) \/ presented[c] = c
    BY <1>1 DEF Promising, InFlight, Ended, StepsInv
  <1>5. SuccessorRetires'
    BY <1>1 DEF SuccessorRetires, Descends
  <1>6. RaceInv'
    BY <1>1, <1>3, <1>4 DEF RaceInv
  <1>7. ClosedInv'
    BY <1>1, <1>3, <1>4 DEF ClosedInv
  <1> QED
    BY <1>2, <1>5, <1>6, <1>7

\* The update by id revokes a token its owner had been given, revoked or not.
LEMMA RevokeKeepsInv ==
  ASSUME SessionInv, NEW c \in Calls, Revoke(c)
  PROVE  StepsInv' /\ SuccessorRetires' /\ RaceInv' /\ ClosedInv'
  <1> USE DEF SessionInv
  <1>1. /\ pc[c] = "revoke" /\ presented[c] # c /\ presented[c] \in Calls
        /\ pc[presented[c]] = "done" /\ token[presented[c]] # "none"
    BY DEF Revoke, Goto, StepsInv, TypeOK
  <1>2. /\ UNCHANGED <<presented, raced, closed>>
        /\ token' = [token EXCEPT ![presented[c]] = "revoked"]
        /\ pc' = [pc EXCEPT ![c] = "create"]
    BY DEF Revoke, Goto, history
  <1>3. \A e \in Calls : Promising(e)' => Promising(e)
    BY <1>1, <1>2 DEF Promising, InFlight, Ended, TypeOK
  <1>4. StepsInv'
    BY <1>1, <1>2 DEF StepsInv, TypeOK
  <1> QED
    BY <1>1, <1>2, <1>3, <1>4, RevocationKeepsInv

\* A logout closes a token unless a refresh of it is under way.
LEMMA LogoutKeepsInv ==
  ASSUME SessionInv, NEW t \in Calls, Logout(t)
  PROVE  StepsInv' /\ SuccessorRetires' /\ RaceInv' /\ ClosedInv'
  <1> USE DEF SessionInv
  <1>1. /\ token[t] = "live" /\ UNCHANGED <<pc, presented, raced>>
        /\ token' = [token EXCEPT ![t] = "revoked"]
    BY DEF Logout
  <1>2. \A e \in Calls : Promising(e)' = Promising(e)
    BY <1>1 DEF Promising, InFlight, TypeOK
  <1>3. StepsInv'
    BY <1>1 DEF StepsInv, TypeOK
  <1>4. ASSUME NEW s \in closed'
        PROVE  /\ token'[s] = "revoked"
               /\ \A c \in Calls \ {s} : presented[c] = s => ~Promising(c)
    <2>1. CASE s \in closed
      BY <1>1, <2>1 DEF ClosedInv, TypeOK
    <2>2. CASE s \notin closed
      <3>1. s = t /\ Refreshing(t) = {}
        BY <1>4, <2>2 DEF Logout
      <3>2. \A c \in Calls \ {t} : presented[c] = t => token[c] = "none"
        BY <1>1 DEF SuccessorRetires, Descends
      <3> QED
        BY <1>1, <3>1, <3>2 DEF Refreshing, Promising, TypeOK
    <2> QED
      BY <2>1, <2>2
  <1>5. ClosedInv'
    BY <1>1, <1>2, <1>4 DEF ClosedInv
  <1> QED
    BY <1>1, <1>2, <1>3, <1>5, RevocationKeepsInv

\* A restart leaves the rows and ends the calls.
LEMMA CrashKeepsInv ==
  ASSUME SessionInv, Crash
  PROVE  StepsInv' /\ SuccessorRetires' /\ RaceInv' /\ ClosedInv'
  <1> USE DEF SessionInv
  <1>1. /\ UNCHANGED <<token, presented, raced, closed>>
        /\ \A c \in Calls : pc'[c] = IF InFlight(c) THEN "lost" ELSE pc[c]
    BY DEF Crash, rows, history
  <1>2. \A c \in Calls : /\ ~InFlight(c)'
                         /\ pc'[c] = pc[c] \/ (pc'[c] = "lost" /\ InFlight(c))
    BY <1>1 DEF InFlight, Ended, TypeOK
  <1>3. StepsInv'
    BY <1>1, <1>2 DEF StepsInv, TypeOK, InFlight, Ended
  <1>4. \A c \in Calls : Promising(c)' => Promising(c)
    BY <1>1, <1>2 DEF Promising
  <1>5. SuccessorRetires' /\ RaceInv' /\ ClosedInv'
    BY <1>1, <1>4 DEF SuccessorRetires, Descends, RaceInv, ClosedInv
  <1> QED
    BY <1>3, <1>5

\* Every step keeps the invariant.
LEMMA NextSession == SessionInv /\ [Next]_vars => SessionInv'
  <1> SUFFICES ASSUME SessionInv, [Next]_vars
               PROVE  SessionInv'
    OBVIOUS
  <1>t. TypeOK'
    BY NextTypeOK DEF SessionInv
  <1> DEFINE Kept == StepsInv' /\ SuccessorRetires' /\ RaceInv' /\ ClosedInv'
  <1> HIDE DEF Kept
  <1>1. ASSUME NEW c \in Calls, Login(c) \/ Step(c) \/ Reject(c)
        PROVE  Kept
    BY <1>1, CallKeepsInv, RevokeKeepsInv, CreateKeepsInv DEF Step, Kept
  <1>2. ASSUME NEW c \in Calls, NEW t \in Calls, Refresh(c, t)
        PROVE  Kept
    BY <1>2, RefreshKeepsInv DEF Kept
  <1>3. ASSUME NEW t \in Calls, Logout(t)
        PROVE  Kept
    BY <1>3, LogoutKeepsInv DEF Kept
  <1>4. ASSUME Crash
        PROVE  Kept
    BY <1>4, CrashKeepsInv DEF Kept
  <1>5. ASSUME \/ \E t \in Calls : Expire(t)
               \/ \E u \in Users : SetActive(u)
               \/ UNCHANGED vars
        PROVE  Kept
    <2>1. UNCHANGED <<token, pc, presented, raced, closed>>
      BY <1>5 DEF Expire, SetActive, vars, rows, history
    <2>2. StepsInv' /\ SuccessorRetires'
      BY <2>1 DEF SessionInv, StepsInv, SuccessorRetires, Descends
    <2>3. \A c \in Calls : Promising(c)' = Promising(c)
      BY <2>1 DEF Promising, InFlight
    <2>4. RaceInv' /\ ClosedInv'
      BY <2>1, <2>3 DEF SessionInv, RaceInv, ClosedInv
    <2> QED
      BY <2>2, <2>4 DEF Kept
  <1>6. Kept
    BY <1>1, <1>2, <1>3, <1>4, <1>5 DEF Next
  <1> QED
    BY <1>t, <1>6 DEF SessionInv, Kept

\* So every reachable state satisfies it.
LEMMA SessionInvariant == Spec => []SessionInv
  <1> QED
    BY InitSession, NextSession, PTL DEF Spec

-----------------------------------------------------------------------------
(* Theorems *)

\* A call is at one of its awaits, and names the token of some call, its own if it began
\* without one (auth.service.ts:109).
THEOREM SessionTypes == Spec => []TypeOK
  <1>1. SessionInv => TypeOK
    BY DEF SessionInv
  <1> QED
    BY <1>1, SessionInvariant, PTL

\* A step that leaves revoked tokens and the calls' presented tokens alone keeps their
\* reasons, as far as the calls that gave them go on.
LEMMA ReasonsStay ==
  ASSUME TypeOK, RevokedForAReason, loggedOut \subseteq loggedOut',
         \A t \in Calls : token'[t] = "revoked" => token[t] = "revoked",
         \A c \in Calls : pc[c] \in {"create", "sign", "done", "error", "lost"} =>
           /\ pc'[c] \in {"create", "sign", "done", "error", "lost"}
           /\ presented'[c] = presented[c]
  PROVE  RevokedForAReason'
  BY DEF RevokedForAReason

\* Wherever the process dies, a token that was replaced is revoked, and a revoked token
\* was logged out or is one that a refresh got as far as revoking (auth.service.ts:131, 165).
THEOREM RevokedAndReplaced == Spec => []RevocationsMatch
  <1> DEFINE Reasons == SessionInv /\ RevokedForAReason
  <1>1. Init => RevokedForAReason
    BY DEF Init, RevokedForAReason
  <1>2. Reasons /\ [Next]_vars => RevokedForAReason'
    <2> SUFFICES ASSUME SessionInv, RevokedForAReason, [Next]_vars
                 PROVE  RevokedForAReason'
      OBVIOUS
    <2> USE DEF SessionInv, rows, history
    <2>1. ASSUME NEW c \in Calls, Login(c) \/ Compare(c) \/ FindUser(c) \/ Sign(c)
                                    \/ Create(c) \/ Reject(c)
          PROVE  RevokedForAReason'
      <3>1. \A t \in Calls : token'[t] = "revoked" => token[t] = "revoked"
        BY <2>1 DEF Login, Compare, FindUser, Sign, Create, Reject, TypeOK
      <3>2. /\ UNCHANGED <<presented, loggedOut>>
            /\ \A e \in Calls \ {c} : pc'[e] = pc[e]
            /\ pc[c] \in {"create", "sign", "done", "error", "lost"}
                 => pc'[c] \in {"sign", "done", "error"}
        BY <2>1 DEF Login, Compare, FindUser, Sign, Create, Reject, Goto, TypeOK
      <3> QED
        BY <3>1, <3>2, ReasonsStay
    <2>2. ASSUME NEW c \in Calls, Revoke(c)
          PROVE  RevokedForAReason'
      <3>1. /\ pc[c] = "revoke" /\ presented[c] # c /\ presented[c] \in Calls
            /\ pc' = [pc EXCEPT ![c] = "create"] /\ UNCHANGED <<presented, loggedOut>>
            /\ token' = [token EXCEPT ![presented[c]] = "revoked"]
        BY <2>2 DEF Revoke, Goto, StepsInv, TypeOK
      <3> QED
        BY <3>1 DEF RevokedForAReason, TypeOK
    <2>3. ASSUME NEW c \in Calls, NEW t \in Calls, Refresh(c, t)
          PROVE  RevokedForAReason'
      <3>1. /\ UNCHANGED <<token, loggedOut>> /\ pc[c] = "idle"
            /\ \A e \in Calls \ {c} : pc'[e] = pc[e] /\ presented'[e] = presented[e]
        BY <2>3 DEF Refresh, Goto, TypeOK
      <3> QED
        BY <3>1, ReasonsStay
    <2>4. ASSUME NEW t \in Calls, Logout(t)
          PROVE  RevokedForAReason'
      BY <2>4 DEF Logout, RevokedForAReason, TypeOK
    <2>5. CASE \/ \E t \in Calls : Expire(t)
               \/ \E u \in Users : SetActive(u)
               \/ UNCHANGED vars
      <3>1. UNCHANGED <<token, pc, presented, loggedOut>>
        BY <2>5 DEF Expire, SetActive, vars
      <3> QED
        BY <3>1, ReasonsStay
    <2>6. CASE Crash
      <3>1. /\ UNCHANGED <<token, presented, loggedOut>>
            /\ \A c \in Calls : pc'[c] \in {pc[c], "lost"}
        BY <2>6 DEF Crash, TypeOK
      <3> QED
        BY <3>1, ReasonsStay
    <2> QED
      BY <2>1, <2>2, <2>3, <2>4, <2>5, <2>6 DEF Next, Step
  <1>3. Reasons => RevocationsMatch
    BY DEF SessionInv, RevocationsMatch
  <1> QED
    BY <1>1, <1>2, <1>3, SessionInvariant, PTL DEF Spec

\* However refreshes of one token overlap, only those that found it good before either
\* revoked it both replace it (auth.service.ts:110).
THEOREM OnlyRacesFork == Spec => []ForksAreRaces
  <1>1. SessionInv => ForksAreRaces
    <2> SUFFICES ASSUME SessionInv, NEW t \in Calls, t \notin raced
                 PROVE  ~(Cardinality(Descends(t)) > 1)
      BY DEF ForksAreRaces
    <2>1. ASSUME NEW c \in Descends(t), NEW e \in Descends(t)
          PROVE  c = e
      BY <2>1 DEF SessionInv, RaceInv, Descends, Promising
    <2>2. Descends(t) = {} \/ \E c : Descends(t) = {c}
      BY <2>1
    <2>3. Cardinality(Descends(t)) \in {0, 1}
      BY <2>2, FS_EmptySet, FS_Singleton
    <2> QED
      BY <2>3
  <1> QED
    BY <1>1, SessionInvariant, PTL

\* A logout that meets no refresh of its token ends the chain for good
\* (auth.service.ts:140).
THEOREM LogoutIsFinal == Spec => []LogoutEndsChain
  <1>1. SessionInv => LogoutEndsChain
    BY DEF SessionInv, TypeOK, ClosedInv, LogoutEndsChain, Descends, Promising
  <1> QED
    BY <1>1, SessionInvariant, PTL

\* No call that begins while a user is inactive gets past the lookup of the user
\* (auth.service.ts:32, 127).
THEOREM DeactivationStops == Spec => []InactiveStartsNothing
  <1>1. Init => InactiveStartsNothing
    BY DEF Init, InactiveStartsNothing
  <1>2. TypeOK /\ InactiveStartsNothing /\ [Next]_vars => InactiveStartsNothing'
    <2> SUFFICES ASSUME TypeOK, InactiveStartsNothing, [Next]_vars
                 PROVE  InactiveStartsNothing'
      OBVIOUS
    <2> DEFINE Past == {"compare", "revoke", "create", "sign"}
    <2>1. CASE \E u \in Users : SetActive(u)
      BY <2>1 DEF SetActive, InactiveStartsNothing, TypeOK
    <2>2. ASSUME \/ \E c \in Calls : Login(c) \/ Step(c) \/ Reject(c)
                 \/ \E c, t \in Calls : Refresh(c, t)
                 \/ \E t \in Calls : Logout(t) \/ Expire(t)
                 \/ Crash \/ UNCHANGED vars
          PROVE  /\ UNCHANGED <<active, late>>
                 /\ \A c \in Calls : pc'[c] \in Past => pc[c] \in Past \/ Owner[c] \in active
      BY <2>2 DEF Login, Step, Compare, FindUser, Revoke, Create, Sign, Reject, Refresh, Logout,
                  Expire, Crash, Goto, vars, rows, history, TypeOK
    <2>3. CASE ~\E u \in Users : SetActive(u)
      BY <2>2, <2>3 DEF Next, InactiveStartsNothing
    <2> QED
      BY <2>1, <2>3
  <1> QED
    BY <1>1, <1>2, SessionTypes, PTL DEF Spec

=================================================================================
