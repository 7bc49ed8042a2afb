----------------------------- MODULE Invitations ------------------------------
(***************************************************************************)
(* InvitationsService, with the two other ways an account comes to be:     *)
(* AuthService.register and the provisioning of KeycloakService.ssoLogin.  *)
(* All of it is about one e-mail address, which PostgreSQL lets one user   *)
(* row have per spelling: invitations and provisioning write it in lower   *)
(* case, register and the lookup of ssoLogin take it as it comes.          *)
(*                                                                         *)
(* A call goes from one await to the next.  It makes one invitation, or    *)
(* one organization and one user at most, which bear its name.             *)
(***************************************************************************)
EXTENDS Integers, FiniteSets

CONSTANTS
  Orgs, Calls,
  Org,        \* Org[c]: the organization of the admin who makes call c, or, of
              \* an ssoLogin, the one KEYCLOAK_DEFAULT_ORG_ID names
  Typed,      \* the calls that are given the address with capitals
  NoCall,
  MaxFaults,  \* bound: rejected database calls and restarts
  MaxResends  \* bound: resends, and expiries

ASSUME OrgAssumption    == Org \in [Calls -> Orgs]
ASSUME TypedAssumption  == Typed \subseteq Calls
ASSUME NoCallAssumption == NoCall \notin Calls
ASSUME BoundAssumption  == MaxFaults \in Nat /\ MaxResends \in Nat

VARIABLES
  status, link, expired,  \* of each invitation: link counts the tokens it has had
  account,    \* of each spelling: the call that made its user, or NoCall
  subject,    \* the spelling whose user has the person's keycloakId, or "none"
  newOrgs,    \* register and ssoLogin calls that made an organization
  notified,   \* accept calls that notified the inviter
  pc, about,  \* of each call: where it is, the invitation it is about
  faults, resends,
  raced,      \* history: invitations one call decided on while another was about to write
  twins,      \* history: creates that looked while another was about to insert
  rivals      \* history: calls that set out to make the user while another one was

rows    == <<status, link, expired, account, subject, newOrgs, notified>>
bounds  == <<faults, resends>>
history == <<raced, twins, rivals>>
vars    == <<rows, pc, about, bounds, history>>

Statuses == {"none", "PENDING", "ACCEPTED", "REVOKED"}
Ended    == {"done", "denied", "error", "lost"}
Spellings == {"lower", "typed"}
Spelled(c) == IF c \in Typed THEN "typed" ELSE "lower"
Making   == {"tx", "org", "user", "newOrg", "provision", "link"}  \* about to make a user, or to link one
Deciding == {"revoke", "look", "tx"}         \* found the invitation pending, about to end it
CallPc   == {"idle", "pending", "insert", "resend", "mail", "notify"} \cup Making \cup Deciding \cup Ended
InFlight(c) == pc[c] \notin Ended \cup {"idle"}

Init ==
  /\ status = [i \in Calls |-> "none"] /\ link = [i \in Calls |-> 0] /\ expired = {}
  /\ account = [s \in Spellings |-> NoCall] /\ subject = "none"
  /\ newOrgs = {} /\ notified = {}
  /\ pc = [c \in Calls |-> "idle"] /\ about = [c \in Calls |-> c]
  /\ faults = 0 /\ resends = 0 /\ raced = {} /\ twins = {} /\ rivals = {}

Goto(c, from, to) == pc[c] = from /\ pc' = [pc EXCEPT ![c] = to]
\* The organization the user belongs to: that of the invitation, or a new one.
Member(o) ==
  LET made == account["lower"]
  IN  made # NoCall /\ made \notin newOrgs /\ Org[about[made]] = o

----------------------------------------------------------------------------
(* create *)

Pending(o) == {i \in Calls : status[i] = "PENDING" /\ Org[i] = o}

Invite(c) ==
  /\ Goto(c, "idle", IF Member(Org[c]) THEN "denied" ELSE "pending")
  /\ UNCHANGED <<rows, about, bounds, history>>

\* Mutant: the look for a pending invitation asks for this very call's.
LookForOwn(c) ==
  /\ Goto(c, "pending", "insert")
  /\ UNCHANGED <<rows, about, bounds, history>>

LookForPending(c) ==
  /\ Goto(c, "pending", IF Pending(Org[c]) # {} THEN "denied" ELSE "insert")
  /\ twins' = IF \E b \in Calls : pc[b] = "insert" /\ Org[b] = Org[c] THEN twins \cup {c} ELSE twins
  /\ UNCHANGED <<rows, about, bounds, raced, rivals>>

Insert(c) ==
  /\ Goto(c, "insert", "mail")
  /\ status' = [status EXCEPT ![c] = "PENDING"]
  /\ UNCHANGED <<link, expired, account, subject, newOrgs, notified, about, bounds, history>>

\* create and resend: an e-mail that fails is only logged.
Mail(c) ==
  /\ Goto(c, "mail", "done")
  /\ UNCHANGED <<rows, about, bounds, history>>

----------------------------------------------------------------------------
(* revoke and resend: find the invitation, then update it by id *)

Decides(c, i) ==
  raced' = IF status[i] = "PENDING" /\ \E b \in Calls : pc[b] \in Deciding /\ about[b] = i
             THEN raced \cup {i} ELSE raced

Revoke(c, i) ==
  /\ status[i] # "none"
  /\ Goto(c, "idle", IF status[i] = "PENDING" THEN "revoke" ELSE "denied")
  /\ about' = [about EXCEPT ![c] = i] /\ Decides(c, i)
  /\ UNCHANGED <<rows, bounds, twins, rivals>>

SetRevoked(c) ==
  /\ Goto(c, "revoke", "done")
  /\ status' = [status EXCEPT ![about[c]] = "REVOKED"]
  /\ UNCHANGED <<link, expired, account, subject, newOrgs, notified, about, bounds, history>>

Resend(c, i) ==
  /\ resends < MaxResends /\ resends' = resends + 1
  /\ status[i] # "none"
  /\ Goto(c, "idle", IF status[i] = "PENDING" /\ i \notin expired THEN "resend" ELSE "denied")
  /\ about' = [about EXCEPT ![c] = i]
  /\ UNCHANGED <<rows, faults, history>>

\* Mutant: the update makes the invitation pending again.
RelinkReopens(c) ==
  /\ Goto(c, "resend", "mail")
  /\ link' = [link EXCEPT ![about[c]] = @ + 1] /\ expired' = expired \ {about[c]}
  /\ status' = [status EXCEPT ![about[c]] = "PENDING"]
  /\ UNCHANGED <<account, subject, newOrgs, notified, about, bounds, history>>

Relink(c) ==
  /\ Goto(c, "resend", "mail")
  /\ link' = [link EXCEPT ![about[c]] = @ + 1] /\ expired' = expired \ {about[c]}
  /\ UNCHANGED <<status, account, subject, newOrgs, notified, about, bounds, history>>

----------------------------------------------------------------------------
(* accept *)

Acceptable(i, k) == k = link[i] /\ status[i] = "PENDING" /\ i \notin expired

Accept(c, i, k) ==
  /\ status[i] # "none"
  /\ Goto(c, "idle", IF Acceptable(i, k) THEN "look" ELSE "denied")
  /\ about' = [about EXCEPT ![c] = i] /\ Decides(c, i)
  /\ UNCHANGED <<rows, bounds, twins, rivals>>

\* A call that found no user goes on to make one; bcrypt, which comes first in
\* accept and register, changes nothing and is part of the wait.
SetsOut(c) ==
  rivals' = IF \E b \in Calls : pc[b] \in Making THEN rivals \cup {c} \cup {b \in Calls : pc[b] \in Making}
            ELSE rivals

Look(c) ==
  /\ \/ account["lower"] = NoCall /\ Goto(c, "look", "tx") /\ SetsOut(c)
     \/ account["lower"] # NoCall /\ Goto(c, "look", "denied") /\ UNCHANGED rivals
  /\ UNCHANGED <<rows, about, bounds, raced, twins>>

\* PostgreSQL takes the user row, unless the spelling has one.
Makes(c, s, then) ==
  IF account[s] = NoCall THEN pc' = [pc EXCEPT ![c] = then] /\ account' = [account EXCEPT ![s] = c]
                         ELSE pc' = [pc EXCEPT ![c] = "error"] /\ UNCHANGED account

\* Mutant: the invitation is updated outside the transaction, first.
TransactionSplit(c) ==
  /\ pc[c] = "tx" /\ Makes(c, "lower", "notify")
  /\ status' = [status EXCEPT ![about[c]] = "ACCEPTED"]
  /\ UNCHANGED <<link, expired, subject, newOrgs, notified, about, bounds, history>>

\* One transaction: a user row with the address rolls both writes back.
Transaction(c) ==
  /\ pc[c] = "tx" /\ Makes(c, "lower", "notify")
  /\ status' = IF account["lower"] = NoCall THEN [status EXCEPT ![about[c]] = "ACCEPTED"] ELSE status
  /\ UNCHANGED <<link, expired, subject, newOrgs, notified, about, bounds, history>>

Notify(c) ==
  /\ Goto(c, "notify", "done")
  /\ notified' = notified \cup {c}
  /\ UNCHANGED <<status, link, expired, account, subject, newOrgs, about, bounds, history>>

----------------------------------------------------------------------------
(* register, and ssoLogin of one Keycloak subject *)

Register(c) ==
  /\ IF account[Spelled(c)] = NoCall THEN Goto(c, "idle", "org") /\ SetsOut(c)
                                     ELSE Goto(c, "idle", "denied") /\ UNCHANGED rivals
  /\ UNCHANGED <<rows, about, bounds, raced, twins>>

\* findFirst takes either of the subject's user and the one of the spelling.
SsoLogin(c) ==
  /\ \/ subject # "none" /\ Goto(c, "idle", "done") /\ UNCHANGED rivals
     \/ /\ account[Spelled(c)] # NoCall /\ subject # Spelled(c)
        /\ Goto(c, "idle", "link") /\ SetsOut(c)
     \/ /\ account[Spelled(c)] = NoCall /\ subject = "none"
        /\ Goto(c, "idle", "newOrg") \/ Goto(c, "idle", "provision")
        /\ SetsOut(c)
  /\ UNCHANGED <<rows, about, bounds, raced, twins>>

\* The keycloakId is unique.
LinkSubject(c) ==
  /\ \/ subject \in {"none", Spelled(c)} /\ Goto(c, "link", "done") /\ subject' = Spelled(c)
     \/ subject \notin {"none", Spelled(c)} /\ Goto(c, "link", "error") /\ UNCHANGED subject
  /\ UNCHANGED <<status, link, expired, account, newOrgs, notified, about, bounds, history>>

MakeOrg(c) ==
  /\ Goto(c, "org", "user") \/ Goto(c, "newOrg", "provision")
  /\ newOrgs' = newOrgs \cup {c}
  /\ UNCHANGED <<status, link, expired, account, subject, notified, about, bounds, history>>

MakeUser(c) ==
  /\ pc[c] = "user" /\ Makes(c, Spelled(c), "done")
  /\ UNCHANGED <<status, link, expired, subject, newOrgs, notified, about, bounds, history>>

\* Whatever the spelling it did not find, provisionUser writes the lower case.
ProvisionUser(c) ==
  /\ pc[c] = "provision"
  /\ IF subject = "none"
       THEN Makes(c, "lower", "done") /\ subject' = IF account["lower"] = NoCall THEN "lower" ELSE subject
       ELSE Goto(c, "provision", "error") /\ UNCHANGED <<account, subject>>
  /\ UNCHANGED <<status, link, expired, newOrgs, notified, about, bounds, history>>

----------------------------------------------------------------------------
(* What the database, time and the process do *)

\* PostgreSQL rejects the statement a call waits for; a transaction rolls back.
Reject(c) ==
  /\ faults < MaxFaults /\ faults' = faults + 1
  /\ \E from \in {"idle", "pending", "insert", "resend", "notify"} \cup Making \cup Deciding :
       Goto(c, from, "error")
  /\ UNCHANGED <<rows, about, resends, history>>

Expire(i) ==
  /\ resends < MaxResends /\ resends' = resends + 1
  /\ status[i] = "PENDING" /\ i \notin expired
  /\ expired' = expired \cup {i}
  /\ UNCHANGED <<status, link, account, subject, newOrgs, notified, pc, about, faults, history>>

Crash ==
  /\ faults < MaxFaults /\ faults' = faults + 1
  /\ pc' = [c \in Calls |-> IF InFlight(c) THEN "lost" ELSE pc[c]]
  /\ UNCHANGED <<rows, about, resends, history>>

Administers(c) ==
  \/ Invite(c) \/ LookForPending(c) \/ Insert(c) \/ Mail(c) \/ SetRevoked(c) \/ Relink(c)
  \/ \E i \in Calls : Revoke(c, i) \/ Resend(c, i)
Joins(c) ==
  \/ \E i \in Calls : \E k \in 0 .. link[i] : Accept(c, i, k)
  \/ Look(c) \/ Transaction(c) \/ Notify(c)
  \/ Register(c) \/ SsoLogin(c) \/ LinkSubject(c) \/ MakeOrg(c) \/ MakeUser(c) \/ ProvisionUser(c)

Next ==
  \/ \E c \in Calls : Administers(c) \/ Joins(c) \/ Reject(c)
  \/ \E i \in Calls : Expire(i)
  \/ Crash

Spec == Init /\ [][Next]_vars
----------------------------------------------------------------------------
(* Properties *)

TypeOK ==
  /\ status \in [Calls -> Statuses]
  /\ link \in [Calls -> 0 .. MaxResends] /\ expired \subseteq Calls
  /\ account \in [Spellings -> Calls \cup {NoCall}] /\ subject \in Spellings \cup {"none"}
  /\ newOrgs \subseteq Calls /\ notified \subseteq Calls
  /\ pc \in [Calls -> CallPc] /\ about \in [Calls -> Calls]
  /\ faults \in 0 .. MaxFaults /\ resends \in 0 .. MaxResends
  /\ raced \subseteq Calls /\ twins \subseteq Calls /\ rivals \subseteq Calls

\* An invitation that was accepted or revoked stays so, unless two calls had
\* both found it pending before either wrote (invitations.service.ts:159, 178, 212).
OutcomeFinal ==
  [][\A i \in Calls : status[i] \in {"ACCEPTED", "REVOKED"} /\ i \notin raced
                         => status'[i] = status[i]]_vars

\* An address has two pending invitations of one organization only if one create
\* looked while another had looked and not inserted (invitations.service.ts:43, 56).
OnePendingUnlessTwins ==
  \A o \in Orgs : Cardinality(Pending(o) \ twins) <= 1

\* An accepted invitation has the account it led to, and an account made from an
\* invitation leaves it accepted, unless a revoke raced the acceptance
\* (the transaction, invitations.service.ts:224).
AcceptedHasAccount ==
  \A i \in Calls :
    LET made == account["lower"] IN
    /\ status[i] = "ACCEPTED" => made # NoCall /\ about[made] = i
    /\ made # NoCall /\ status[i] # "none" /\ about[made] = i
         => status[i] = "ACCEPTED" \/ i \in raced

\* An organization without its user is left only by a fault, by a call that had found
\* the address free while another was making the account, or by an ssoLogin of an
\* address with capitals whose user has it in lower case: it does not find that user,
\* and cannot make another (auth.service.ts:85, 94; keycloak.service.ts:87, 224, 256).
OrphansAreLostRaces ==
  \A c \in newOrgs \ {account[s] : s \in Spellings} :
    pc[c] \in {"user", "provision"} \/ c \in rivals \/ faults > 0
      \/ (c \in Typed /\ account["lower"] # NoCall)

\* Whatever overlaps, the account has what it was made with: its invitation accepted, or
\* its organization.
AccountsAgree == AcceptedHasAccount /\ OrphansAreLostRaces

==============================================================================
