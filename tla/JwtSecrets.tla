------------------------------ MODULE JwtSecrets ------------------------------
(***************************************************************************)
(* SecretsService: the secrets that sign and verify access tokens, their   *)
(* rotation into AppSecret rows, and the restart that takes the rotated    *)
(* secret into the environment, as the rotation procedure asks.  Secrets   *)
(* are numbered in the order they are generated; 0 is the first JWT_SECRET *)
(* of the environment.                                                     *)
(***************************************************************************)
EXTENDS Integers, FiniteSets

CONSTANTS Admins,        \* calls of POST /admin/secrets/rotate-jwt
          MaxRestarts    \* bound: restarts

VARIABLES
  rows,      \* AppSecret: [version, secret, active]
  env,       \* the secret in the environment of the running process
  nextSecret,
  read,      \* read[a]: the version rotation a has read as the newest, or -1
  told,      \* secrets returned to an admin
  signed,    \* secrets that signed an access token that has not expired
  restarts

vars == <<rows, env, nextSecret, read, told, signed, restarts>>

Versions == {r.version : r \in rows}
Newest(S) == CHOOSE v \in S : \A w \in S : w <= v
ActiveRows == {r \in rows : r.active}

\* getActiveJwtSecrets, and the one that signs; env alone when the database fails.
Accepted == {r.secret : r \in ActiveRows} \cup {env}
Signing  == IF ActiveRows = {} THEN env
            ELSE (CHOOSE r \in ActiveRows : \A o \in ActiveRows : o.version <= r.version).secret

Init ==
  /\ rows = {} /\ env = 0 /\ nextSecret = 1 /\ told = {} /\ signed = {} /\ restarts = 0
  /\ read = [a \in Admins |-> -1]

Sign ==
  /\ signed' = signed \cup {Signing} \/ signed' = signed \cup {env}
  /\ UNCHANGED <<rows, env, nextSecret, read, told, restarts>>

Expire(s) ==
  /\ s \in signed /\ signed' = signed \ {s}
  /\ UNCHANGED <<rows, env, nextSecret, read, told, restarts>>

ReadNewest(a) ==
  /\ read[a] = -1
  /\ read' = [read EXCEPT ![a] = IF rows = {} THEN 0 ELSE Newest(Versions)]
  /\ UNCHANGED <<rows, env, nextSecret, told, signed, restarts>>

\* The name and version are unique: the second of two rotations is rejected.
CreateRow(a) ==
  /\ read[a] >= 0
  /\ read' = [read EXCEPT ![a] = -1]
  /\ nextSecret' = nextSecret + 1 /\ nextSecret <= Cardinality(Admins)
  /\ IF read[a] + 1 \in Versions
       THEN UNCHANGED <<rows, told>>
       ELSE /\ rows' = rows \cup {[version |-> read[a] + 1, secret |-> nextSecret, active |-> TRUE]}
            /\ told' = told \cup {nextSecret}
  /\ UNCHANGED <<env, signed, restarts>>

Deactivate(r) ==
  /\ r \in ActiveRows
  /\ rows' = (rows \ {r}) \cup {[r EXCEPT !.active = FALSE]}
  /\ UNCHANGED <<env, nextSecret, read, told, signed, restarts>>

\* Step 2 of the procedure: the operator persists a returned secret, or none.
Restart ==
  /\ restarts < MaxRestarts /\ restarts' = restarts + 1
  /\ env' \in told \cup {env}
  /\ read' = [a \in Admins |-> -1]
  /\ UNCHANGED <<rows, nextSecret, told, signed>>

Next ==
  \/ Sign \/ Restart
  \/ \E s \in signed : Expire(s)
  \/ \E a \in Admins : ReadNewest(a) \/ CreateRow(a)
  \/ \E r \in rows : Deactivate(r)

Spec == Init /\ [][Next]_vars

----------------------------------------------------------------------------

\* "Previous secrets stay active: tokens signed before the rotation keep
\* validating until their natural expiry (dual-key grace window)",
\* secrets.service.ts:23, or until "ops deactivates the old rows",
\* SECURITY_SPEC.md:86.  The secret the process booted with is in no row, so a
\* restart that takes over the rotated one drops it (secrets.service.ts:64, 92).
GraceWindow ==
  \A s \in signed : s \in Accepted \/ \E r \in rows : r.secret = s /\ ~r.active

==============================================================================
