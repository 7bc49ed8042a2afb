------------------------------ MODULE SigningKeys ------------------------------
(***************************************************************************)
(* KeycloakService.verifyAccessToken and its cache of signing keys, while  *)
(* Keycloak publishes and withdraws keys.  Tokens are those that pass the  *)
(* checks in front of the key: algorithm, exp, issuer and audience.        *)
(***************************************************************************)
EXTENDS Integers, FiniteSets

CONSTANTS
  Kids,          \* ids of signing keys
  Logins,        \* requests with a token
  CacheTtl,      \* 5 minutes
  FetchTimeout,  \* 5 seconds
  LastTick,      \* bound on the clock
  NoKid

ASSUME KeyAssumption  == Kids # {} /\ NoKid \notin Kids
ASSUME TimeAssumption == CacheTtl \in Nat \ {0} /\ FetchTimeout \in Nat

VARIABLES
  now,
  published,     \* the keys Keycloak shows
  changed,       \* history: when each key was published or withdrawn last
  jwksKeys, jwksExpiry,  \* the cache; no keys stand for null
  verPc, token,  \* of each login that fetches the keys: its step and its token
  since, answer, \* of its fetch: when it began, what it was answered
  lag            \* history: how long the last verdict had been out of date

keyVars == <<now, published, changed, jwksKeys, jwksExpiry, verPc, token, since, answer, lag>>
loginVars == <<verPc, token, since, answer, lag>>

\* The key that signed it, and the one its header names if it names one.
Tokens == {t \in [signer : Kids, kid : Kids \cup {NoKid}] : t.kid \in {t.signer, NoKid}}
FirstKid == CHOOSE k \in Kids : TRUE
NoToken == [signer |-> FirstKid, kid |-> NoKid]

SigningKeysInit ==
  /\ now = 0 /\ published = {FirstKid} /\ changed = [k \in Kids |-> 0]
  /\ jwksKeys = {} /\ jwksExpiry = 0
  /\ verPc = [r \in Logins |-> "idle"] /\ token = [r \in Logins |-> NoToken]
  /\ since = [r \in Logins |-> 0] /\ answer = [r \in Logins |-> {}] /\ lag = 0

\* The key by its id; without one, the first in whatever order Keycloak gives them.
FindSigningKey(ks, t) == IF t.kid = NoKid THEN ks ELSE ks \cap {t.kid}

\* A key that is not the one that signed refuses the token, as does no key at all.
Verdicts(ks, t) ==
  LET found == FindSigningKey(ks, t) IN
  IF found = {} THEN {FALSE} ELSE {k = t.signer : k \in found}

Verify(ks, t) ==
  \E accepted \in Verdicts(ks, t) :
    lag' = IF (accepted <=> t.signer \notin published) /\ (accepted \/ t.kid = t.signer)
           THEN now - changed[t.signer] ELSE 0

CacheLives == jwksKeys # {} /\ jwksExpiry > now

\* Mutant: every use renews the cache.
RenewedExpiry == now + CacheTtl

ExpiryAfterHit == jwksExpiry

VerifyWithCache ==
  /\ CacheLives /\ \E t \in Tokens : Verify(jwksKeys, t)
  /\ jwksExpiry' = ExpiryAfterHit
  /\ UNCHANGED <<now, published, changed, jwksKeys, verPc, token, since, answer>>

FetchKeys(r) ==
  /\ verPc[r] = "idle" /\ ~CacheLives
  /\ verPc' = [verPc EXCEPT ![r] = "fetch"] /\ since' = [since EXCEPT ![r] = now]
  /\ \E t \in Tokens : token' = [token EXCEPT ![r] = t]
  /\ UNCHANGED <<now, published, changed, jwksKeys, jwksExpiry, answer, lag>>

\* Keycloak answers with what it publishes at that time.
AnswerKeys(r) ==
  /\ verPc[r] = "fetch" /\ published # {}
  /\ verPc' = [verPc EXCEPT ![r] = "answered"] /\ answer' = [answer EXCEPT ![r] = published]
  /\ UNCHANGED <<now, published, changed, jwksKeys, jwksExpiry, token, since, lag>>

Done(r) ==
  /\ verPc' = [verPc EXCEPT ![r] = "idle"] /\ token' = [token EXCEPT ![r] = NoToken]
  /\ since' = [since EXCEPT ![r] = 0] /\ answer' = [answer EXCEPT ![r] = {}]

\* An older answer that comes late replaces a newer one.
StoreKeys(r) ==
  /\ verPc[r] = "answered" /\ Done(r)
  /\ jwksKeys' = answer[r] /\ jwksExpiry' = now + CacheTtl /\ Verify(answer[r], token[r])
  /\ UNCHANGED <<now, published, changed>>

\* No answer in time, one that is not ok, or one without a key.
FetchFails(r) ==
  /\ verPc[r] \in {"fetch", "answered"} /\ Done(r)
  /\ UNCHANGED <<now, published, changed, jwksKeys, jwksExpiry, lag>>

ChangeKeys ==
  /\ \E k \in Kids :
       /\ published' = IF k \in published THEN published \ {k} ELSE published \cup {k}
       /\ changed' = [changed EXCEPT ![k] = now]
  /\ UNCHANGED <<now, jwksKeys, jwksExpiry, loginVars>>

\* The abort of a fetch is due no later than its timeout.
TickKeys ==
  /\ now < LastTick /\ now' = now + 1
  /\ \A r \in Logins : verPc[r] \in {"fetch", "answered"} => now < since[r] + FetchTimeout
  /\ UNCHANGED <<published, changed, jwksKeys, jwksExpiry, loginVars>>

SigningKeysNext ==
  \/ VerifyWithCache
  \/ \E r \in Logins : FetchKeys(r) \/ AnswerKeys(r) \/ StoreKeys(r) \/ FetchFails(r)
  \/ ChangeKeys \/ TickKeys

SigningKeysSpec == SigningKeysInit /\ [][SigningKeysNext]_keyVars

----------------------------------------------------------------------------
(* Properties *)

\* A withdrawn key is accepted, and a token signed with a new one turned away, for less
\* than the life of the cache and one fetch: logins that use the keys do not keep them,
\* and slow answers that overtake each other add one timeout at most
\* (keycloak.service.ts:182, 219).
KeysAreFresh == lag < CacheTtl + FetchTimeout

==============================================================================
