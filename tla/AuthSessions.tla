----------------------------- MODULE AuthSessions -----------------------------
(***************************************************************************)
(* AuthService's refresh tokens: login, refresh with rotation, logout, and *)
(* an admin's switch of a user's isActive.                                 *)
(*                                                                         *)
(* A call is a handler of the Node event loop that the actions take from   *)
(* one await to the next.  A call makes one token at most, so a token is   *)
(* named by the call that made it; presented[c] is the token that a        *)
(* refresh c presented, and c itself for a login.                          *)
(***************************************************************************)
EXTENDS Integers, FiniteSets

CONSTANTS
  Users, Calls,
  Owner,       \* Owner[c]: the user that call c is about
  MaxFaults,   \* bound: rejected database calls and restarts
  MaxSwitches  \* bound: changes of isActive, and expiries

ASSUME OwnerAssumption == Owner \in [Calls -> Users]
ASSUME BoundAssumption == MaxFaults \in Nat /\ MaxSwitches \in Nat

VARIABLES
  token,      \* token[c]: the RefreshToken row that call c made
  expired,    \* tokens past expiresAt
  active,     \* users with isActive
  pc,         \* pc[c]: where the call is
  presented,
  faults, switches,
  raced,      \* history: tokens that two refreshes had both found good
  closed,     \* history: tokens logged out while no refresh of them was under way
  loggedOut,  \* history: tokens that a logout revoked
  late        \* history: calls that had read the user when it was deactivated

rows    == <<token, expired, active>>
history == <<raced, closed, loggedOut, late>>
vars    == <<rows, pc, presented, faults, switches, history>>

Ended    == {"done", "denied", "error", "lost"}
CallPc   == {"idle", "compare", "user", "revoke", "create", "sign"} \cup Ended
InFlight(c)   == pc[c] \notin Ended \cup {"idle"}
Refreshing(t) == {c \in Calls \ {t} : InFlight(c) /\ presented[c] = t}
Descends(t)   == {c \in Calls \ {t} : token[c] # "none" /\ presented[c] = t}

Init ==
  /\ token = [c \in Calls |-> "none"] /\ expired = {} /\ active = Users
  /\ pc = [c \in Calls |-> "idle"] /\ presented = [c \in Calls |-> c]
  /\ faults = 0 /\ switches = 0
  /\ raced = {} /\ closed = {} /\ loggedOut = {} /\ late = {}

Goto(c, from, to) == pc[c] = from /\ pc' = [pc EXCEPT ![c] = to]

----------------------------------------------------------------------------
(* login *)

\* The user is looked up; bcrypt then compares the password off the main thread.
Login(c) ==
  /\ Goto(c, "idle", IF Owner[c] \in active THEN "compare" ELSE "denied")
  /\ UNCHANGED <<rows, presented, faults, switches, history>>

Compare(c) ==
  /\ Goto(c, "compare", "create") \/ Goto(c, "compare", "denied")
  /\ UNCHANGED <<rows, presented, faults, switches, history>>

----------------------------------------------------------------------------
(* refreshToken *)

\* Mutant: the row is found, its revokedAt is not looked at.
GoodUnlessExpired(t) == t \notin expired

Good(t) == token[t] = "live" /\ t \notin expired

\* A client presents a token it was given; the row is looked up.
Refresh(c, t) ==
  /\ pc[t] = "done" /\ Owner[t] = Owner[c]
  /\ Goto(c, "idle", IF Good(t) THEN "user" ELSE "denied")
  /\ presented' = [presented EXCEPT ![c] = t]
  /\ raced' = IF Good(t) /\ Refreshing(t) # {} THEN raced \cup {t} ELSE raced
  /\ UNCHANGED <<rows, faults, switches, closed, loggedOut, late>>

\* Mutant: the user of a stored token is trusted to be active.
FindUserTrusted(c) ==
  /\ Goto(c, "user", "revoke")
  /\ UNCHANGED <<rows, presented, faults, switches, history>>

FindUser(c) ==
  /\ Goto(c, "user", IF Owner[c] \in active THEN "revoke" ELSE "denied")
  /\ UNCHANGED <<rows, presented, faults, switches, history>>

\* Mutant: the revocation is left to the end.
RevokeLater(c) ==
  /\ Goto(c, "revoke", "create")
  /\ UNCHANGED <<rows, presented, faults, switches, history>>

\* The update names the row by id: it succeeds on a row revoked meanwhile.
Revoke(c) ==
  /\ Goto(c, "revoke", "create")
  /\ token' = [token EXCEPT ![presented[c]] = "revoked"]
  /\ UNCHANGED <<expired, active, presented, faults, switches, history>>

----------------------------------------------------------------------------
(* createTokenPair *)

Create(c) ==
  /\ Goto(c, "create", "sign")
  /\ token' = [token EXCEPT ![c] = "live"]
  /\ UNCHANGED <<expired, active, presented, faults, switches, history>>

Sign(c) ==
  /\ Goto(c, "sign", "done")
  /\ UNCHANGED <<rows, presented, faults, switches, history>>

\* The database rejects a call; signing reads the secrets, which never rejects.
Reject(c) ==
  /\ faults < MaxFaults /\ faults' = faults + 1
  /\ \E from \in {"idle", "user", "revoke", "create"} : Goto(c, from, "error")
  /\ UNCHANGED <<rows, presented, switches, history>>

----------------------------------------------------------------------------
(* logout, isActive, time, and the end of the process *)

Logout(t) ==
  /\ pc[t] = "done" /\ token[t] = "live"
  /\ token' = [token EXCEPT ![t] = "revoked"]
  /\ loggedOut' = loggedOut \cup {t}
  /\ closed' = IF Refreshing(t) = {} THEN closed \cup {t} ELSE closed
  /\ UNCHANGED <<expired, active, pc, presented, faults, switches, raced, late>>

Tick == switches < MaxSwitches /\ switches' = switches + 1

\* UsersService.updateMember, by another admin: the tokens stay as they are.
SetActive(u) ==
  /\ Tick
  /\ \/ /\ u \in active /\ active' = active \ {u}
        /\ late' = late \cup {c \in Calls : /\ Owner[c] = u
                                            /\ pc[c] \in {"compare", "revoke", "create", "sign"}}
     \/ u \notin active /\ active' = active \cup {u} /\ UNCHANGED late
  /\ UNCHANGED <<token, expired, pc, presented, faults, raced, closed, loggedOut>>

Expire(t) ==
  /\ Tick
  /\ token[t] # "none" /\ t \notin expired
  /\ expired' = expired \cup {t}
  /\ UNCHANGED <<token, active, pc, presented, faults, history>>

Crash ==
  /\ faults < MaxFaults /\ faults' = faults + 1
  /\ pc' = [c \in Calls |-> IF InFlight(c) THEN "lost" ELSE pc[c]]
  /\ UNCHANGED <<rows, presented, switches, history>>

Step(c) == Compare(c) \/ FindUser(c) \/ Revoke(c) \/ Create(c) \/ Sign(c)

Next ==
  \/ \E c \in Calls : Login(c) \/ Step(c) \/ Reject(c) \/ \E t \in Calls : Refresh(c, t)
  \/ \E t \in Calls : Logout(t) \/ Expire(t)
  \/ \E u \in Users : SetActive(u)
  \/ Crash

Spec == Init /\ [][Next]_vars
----------------------------------------------------------------------------
(* Properties *)

TypeOK ==
  /\ token \in [Calls -> {"none", "live", "revoked"}]
  /\ expired \subseteq Calls /\ active \subseteq Users
  /\ pc \in [Calls -> CallPc] /\ presented \in [Calls -> Calls]
  /\ faults \in 0 .. MaxFaults /\ switches \in 0 .. MaxSwitches
  /\ raced \subseteq Calls /\ closed \subseteq Calls
  /\ loggedOut \subseteq Calls /\ late \subseteq Calls

\* A token that a refresh made never coexists with the live token it replaces,
\* wherever the process dies: the old one is revoked first (auth.service.ts:131).
SuccessorRetires == \A t \in Calls : Descends(t) # {} => token[t] = "revoked"

\* One refresh token becomes two only if two refreshes of it had both found it
\* good before either revoked it (auth.service.ts:110, 131); presenting it again
\* later is refused.
ForksAreRaces == \A t \in Calls : Cardinality(Descends(t)) > 1 => t \in raced

\* A token that was logged out while no refresh of it was under way never yields
\* another one (auth.service.ts:140).
LogoutEndsChain == \A t \in closed : token[t] = "revoked" /\ Descends(t) = {}

\* While a user is inactive, only the calls that had read the user before the
\* switch get any further (auth.service.ts:32, 127).
InactiveStartsNothing ==
  \A c \in Calls : Owner[c] \notin active /\ pc[c] \in {"compare", "revoke", "create", "sign"}
                     => c \in late

\* A token is revoked by a logout, or for a refresh that replaced it, still
\* will, or was cut off in between: only then does a session end unasked
\* (auth.service.ts:131, 165).
RevokedForAReason ==
  \A t \in Calls : token[t] = "revoked" =>
    \/ t \in loggedOut
    \/ \E c \in Calls \ {t} : /\ presented[c] = t
                              /\ pc[c] \in {"create", "sign", "done", "error", "lost"}

\* Tokens are revoked when they are replaced, and not otherwise without a logout.
RevocationsMatch == SuccessorRetires /\ RevokedForAReason

==============================================================================
