----------------------------- MODULE InvitationProofs -----------------------------
(***************************************************************************)
(* Proofs about Invitations, for any calls, organizations and bounds.      *)
(* They rest on JoinInv: what a call has seen when it is about to write,   *)
(* and which histories explain that it saw too little.                     *)
(***************************************************************************)
EXTENDS Invitations, FiniteSetTheorems, TLAPS

\* A link is renewed by a resend that is counted before it writes.
Resending == {c \in Calls : pc[c] = "resend"}
LinksInv ==
  /\ IsFiniteSet(Resending)
  /\ \A i \in Calls : link[i] + Cardinality(Resending) <= resends

\* A call that has inserted nothing, or makes a user of its own, has no invitation and is
\* about no other.
StepsInv ==
  \A c \in Calls :
    pc[c] \in {"idle", "pending", "insert", "org", "user", "newOrg", "provision"}
      => status[c] = "none" /\ about[c] = c

\* A call about to end an invitation may write over the end of another only if the two raced.
RaceInv ==
  \A c \in Calls : pc[c] \in Deciding =>
    /\ status[about[c]] # "none"
    /\ status[about[c]] = "PENDING" \/ about[c] \in raced
    /\ \A b \in Calls : pc[b] \in Deciding /\ about[b] = about[c] => b = c \/ about[c] \in raced

\* Of two creates that are about to insert, or have, one is known to have looked too early.
TwinInv ==
  \A b, c \in Calls :
    /\ Org[b] = Org[c] /\ b # c
    /\ pc[b] = "insert" \/ status[b] = "PENDING"
    /\ pc[c] = "insert" \/ status[c] = "PENDING"
    => b \in twins \/ c \in twins

\* A call about to make the user still finds what it found, unless another was about to.
RivalInv ==
  \A c \in Calls : pc[c] \in Making =>
    /\ \A b \in Calls : pc[b] \in Making /\ b # c => c \in rivals
    /\ c \in rivals \/ pc[c] \in {"tx", "link"} \/ account[Spelled(c)] = NoCall
    /\ c \in rivals \/ pc[c] \notin {"newOrg", "provision"} \/ subject = "none"

\* A call that made a user is over but for its notification, and is about the
\* invitation it took, if any.
MakerInv ==
  \A s \in Spellings : LET c == account[s] IN c # NoCall =>
    /\ pc[c] \in {"notify", "done", "error", "lost"}
    /\ about[c] = c \/ status[about[c]] # "none"

JoinInv ==
  /\ TypeOK /\ LinksInv /\ StepsInv /\ RaceInv /\ TwinInv
  /\ RivalInv /\ MakerInv /\ AccountsAgree


\* A step of call c moves no other call.
StepOf(c) == Administers(c) \/ Joins(c) \/ Reject(c)
LEMMA OthersWait ==
  ASSUME TypeOK, NEW c \in Calls, StepOf(c), NEW b \in Calls \ {c}
  PROVE  pc'[b] = pc[b] /\ about'[b] = about[b]
  BY DEF TypeOK, StepOf, Administers, Joins, Reject, Invite, LookForPending, Insert, Mail, SetRevoked,
         Relink, Revoke, Resend, Accept, Look, Transaction, Notify, Register, SsoLogin, LinkSubject,
         MakeOrg, MakeUser, ProvisionUser, Makes, Goto

-----------------------------------------------------------------------------
(* Types *)

\* Nothing has happened.
LEMMA InitJoin == Init => JoinInv
  <1> SUFFICES ASSUME Init
               PROVE  JoinInv
    OBVIOUS
  <1>1. TypeOK
    BY BoundAssumption DEF Init, TypeOK, Statuses, Spellings, CallPc
  <1>2. LinksInv
    <2>1. Resending = {}
      BY DEF Init, Resending
    <2> QED
      BY <2>1, FS_EmptySet DEF Init, LinksInv
  <1>3. StepsInv /\ RaceInv /\ TwinInv /\ RivalInv /\ MakerInv
    BY DEF Init, StepsInv, RaceInv, TwinInv, RivalInv, MakerInv, Deciding, Making, Spellings
  <1>4. AccountsAgree
    BY NoCallAssumption DEF Init, AccountsAgree, AcceptedHasAccount, OrphansAreLostRaces, Spellings
  <1> QED
    BY <1>1, <1>2, <1>3, <1>4 DEF JoinInv

\* A resend is counted, then renews one link: no link is renewed more often.
LEMMA NextLinks == TypeOK /\ LinksInv /\ [Next]_vars => LinksInv' /\ link' \in [Calls -> Nat]
  <1> SUFFICES ASSUME TypeOK, LinksInv, [Next]_vars
               PROVE  LinksInv' /\ link' \in [Calls -> Nat]
    OBVIOUS
  <1>1. /\ IsFiniteSet(Resending) /\ Cardinality(Resending) \in Nat
        /\ \A i \in Calls : link[i] + Cardinality(Resending) <= resends
        /\ link \in [Calls -> Nat] /\ resends \in Nat
    BY FS_CardinalityType, BoundAssumption DEF LinksInv, TypeOK
  <1>2. ASSUME NEW c \in Calls, NEW i \in Calls, Resend(c, i)
        PROVE  LinksInv' /\ link' = link
    <2>1. /\ link' = link /\ resends' = resends + 1
          /\ Resending' = Resending \/ Resending' = Resending \cup {c}
      BY <1>2 DEF Resend, Goto, rows, TypeOK, Resending
    <2>2. IsFiniteSet(Resending') /\ Cardinality(Resending') <= Cardinality(Resending) + 1
      BY <1>1, <2>1, FS_AddElement
    <2>3. Cardinality(Resending') \in Nat
      BY <2>2, FS_CardinalityType
    <2> QED
      BY <1>1, <2>1, <2>2, <2>3 DEF LinksInv
  <1>3. ASSUME NEW c \in Calls, Relink(c)
        PROVE  LinksInv' /\ link' \in [Calls -> Nat]
    <2>1. /\ link' = [link EXCEPT ![about[c]] = @ + 1] /\ about[c] \in Calls
          /\ resends' = resends /\ c \in Resending /\ Resending' = Resending \ {c}
      BY <1>3 DEF Relink, Goto, bounds, TypeOK, Resending
    <2>2. IsFiniteSet(Resending') /\ Cardinality(Resending') = Cardinality(Resending) - 1
      BY <1>1, <2>1, FS_RemoveElement
    <2>3. Cardinality(Resending') \in Int
      BY <1>1, <2>2
    <2>4. \A i \in Calls : link'[i] \in Nat /\ link'[i] <= link[i] + 1
      BY <1>1, <2>1
    <2>5. link' \in [Calls -> Nat]
      BY <1>1, <2>1
    <2>6. ASSUME NEW i \in Calls
          PROVE  link'[i] + Cardinality(Resending') <= resends'
      <3>1. link[i] + Cardinality(Resending) <= resends /\ link[i] \in Nat
        BY <1>1
      <3> QED
        BY <1>1, <2>1, <2>2, <2>3, <2>4, <3>1
    <2> QED
      BY <2>2, <2>5, <2>6 DEF LinksInv
  <1>4. ASSUME Resending' \subseteq Resending, link' = link, resends' >= resends, resends' \in Nat
        PROVE  LinksInv'
    <2>1. IsFiniteSet(Resending') /\ Cardinality(Resending') <= Cardinality(Resending)
      BY <1>1, <1>4, FS_Subset
    <2>2. Cardinality(Resending') \in Nat
      BY <2>1, FS_CardinalityType
    <2> QED
      BY <1>1, <1>4, <2>1, <2>2 DEF LinksInv
  <1>5. ASSUME NEW c \in Calls, StepOf(c), ~Relink(c), \A i \in Calls : ~Resend(c, i)
        PROVE  Resending' \subseteq Resending /\ UNCHANGED <<link, resends>>
    BY <1>5 DEF TypeOK, Resending, StepOf, Administers, Joins, Reject, Invite, LookForPending, Insert,
         Mail, SetRevoked, Revoke, Accept, Look, Transaction, Notify, Register, SsoLogin,
         LinkSubject, MakeOrg, MakeUser, ProvisionUser, Makes, Goto, rows, bounds, Making, Deciding
  <1>6. ASSUME (\E i \in Calls : Expire(i)) \/ Crash \/ UNCHANGED vars
        PROVE  Resending' \subseteq Resending /\ link' = link /\ resends' >= resends /\ resends' \in Nat
    BY <1>1, <1>6 DEF TypeOK, Resending, Expire, Crash, rows, bounds, vars
  <1> QED
    BY <1>1, <1>2, <1>3, <1>4, <1>5, <1>6 DEF Next, StepOf, Administers

\* Every step keeps the types.
LEMMA NextTypeOK == TypeOK /\ LinksInv /\ [Next]_vars => TypeOK'
  <1> SUFFICES ASSUME TypeOK, LinksInv, [Next]_vars
               PROVE  TypeOK'
    OBVIOUS
  <1> DEFINE Rest ==
        /\ status \in [Calls -> Statuses] /\ expired \subseteq Calls
        /\ account \in [Spellings -> Calls \cup {NoCall}] /\ subject \in Spellings \cup {"none"}
        /\ newOrgs \subseteq Calls /\ notified \subseteq Calls
        /\ pc \in [Calls -> CallPc] /\ about \in [Calls -> Calls]
        /\ faults \in 0 .. MaxFaults /\ resends \in 0 .. MaxResends
        /\ raced \subseteq Calls /\ twins \subseteq Calls /\ rivals \subseteq Calls
  <1>0. Rest
    BY DEF TypeOK
  <1>a. "lower" \in Spellings /\ \A c \in Calls : Spelled(c) \in Spellings
    BY DEF Spellings, Spelled
  <1> USE DEF Goto, CallPc, Making, Deciding, Ended, rows, bounds, history
  <1>1. ASSUME NEW c \in Calls, Invite(c) \/ LookForPending(c) \/ Mail(c) \/ Relink(c) \/ Notify(c)
        PROVE  Rest'
    BY <1>0, <1>1 DEF Invite, LookForPending, Mail, Relink, Notify
  <1>2. ASSUME NEW c \in Calls, Insert(c) \/ SetRevoked(c)
        PROVE  Rest'
    BY <1>0, <1>2 DEF Insert, SetRevoked, Statuses
  <1>3. ASSUME NEW c \in Calls, NEW i \in Calls, Revoke(c, i)
        PROVE  Rest'
    BY <1>0, <1>3 DEF Revoke, Decides
  <1>4. ASSUME NEW c \in Calls, NEW i \in Calls, Resend(c, i)
        PROVE  Rest'
    BY <1>0, <1>4, BoundAssumption DEF Resend
  <1>5. ASSUME NEW c \in Calls, NEW i \in Calls, NEW k, Accept(c, i, k)
        PROVE  Rest'
    BY <1>0, <1>5 DEF Accept, Decides
  <1>6. ASSUME NEW c \in Calls, Look(c) \/ Register(c) \/ SsoLogin(c)
        PROVE  Rest'
    BY <1>0, <1>6 DEF Look, Register, SsoLogin, SetsOut
  <1>7. ASSUME NEW c \in Calls, Transaction(c) \/ MakeUser(c)
        PROVE  Rest'
    BY <1>0, <1>a, <1>7 DEF Transaction, MakeUser, Makes, Statuses
  <1>8. ASSUME NEW c \in Calls, ProvisionUser(c) \/ LinkSubject(c)
        PROVE  Rest'
    BY <1>0, <1>a, <1>8 DEF ProvisionUser, LinkSubject, Makes
  <1>9. ASSUME NEW c \in Calls, MakeOrg(c)
        PROVE  Rest'
    BY <1>0, <1>9 DEF MakeOrg
  <1>10. ASSUME NEW c \in Calls, Reject(c)
        PROVE  Rest'
    BY <1>0, <1>10, BoundAssumption DEF Reject
  <1>11. ASSUME (\E i \in Calls : Expire(i)) \/ Crash \/ UNCHANGED vars
        PROVE  Rest'
    BY <1>0, <1>11, BoundAssumption DEF Expire, Crash, vars
  <1>12. Rest'
    BY <1>1, <1>2, <1>3, <1>4, <1>5, <1>6, <1>7, <1>8, <1>9, <1>10, <1>11
       DEF Next, Administers, Joins
  <1>13. link' \in [Calls -> 0 .. MaxResends]
    <2>1. LinksInv' /\ link' \in [Calls -> Nat]
      BY NextLinks
    <2>2. Cardinality(Resending') \in Nat
      BY <2>1, FS_CardinalityType DEF LinksInv
    <2>3. \A i \in Calls : link'[i] \in 0 .. MaxResends
      BY <1>12, <2>1, <2>2, BoundAssumption DEF LinksInv
    <2> QED
      BY <2>1, <2>3
  <1> QED
    BY <1>12, <1>13 DEF TypeOK

-----------------------------------------------------------------------------
(* The parts of JoinInv *)

\* A call inserts its invitation, and is about another, only after it has begun.
LEMMA NextSteps == TypeOK /\ RaceInv /\ StepsInv /\ [Next]_vars => StepsInv'
  <1> SUFFICES ASSUME TypeOK, RaceInv, StepsInv, [Next]_vars
               PROVE  StepsInv'
    OBVIOUS
  <1>1. ASSUME NEW c \in Calls, StepOf(c)
        PROVE  StepsInv'
    <2>1. pc'[c] \in {"idle", "pending", "insert", "org", "user", "newOrg", "provision"}
            => status'[c] = "none" /\ about'[c] = c
      BY <1>1 DEF TypeOK, StepsInv, StepOf, Administers, Joins, Reject, Invite, LookForPending, Insert,
         Mail, SetRevoked, Relink, Revoke, Resend, Accept, Look, Transaction, Notify, Register,
         SsoLogin, LinkSubject, MakeOrg, MakeUser, ProvisionUser, Makes, Goto, rows
    <2>2. ASSUME NEW b \in Calls \ {c}, status[b] = "none"
          PROVE  status'[b] = "none"
      BY <1>1, <2>2 DEF TypeOK, RaceInv, StepOf, Administers, Joins, Reject, Invite, LookForPending,
         Insert, Mail, SetRevoked, Relink, Revoke, Resend, Accept, Look, Transaction, Notify,
         Register, SsoLogin, LinkSubject, MakeOrg, MakeUser, ProvisionUser, Goto, rows, Deciding
    <2> QED
      BY <1>1, <2>1, <2>2, OthersWait DEF StepsInv
  <1>2. ASSUME (\E i \in Calls : Expire(i)) \/ Crash \/ UNCHANGED vars
        PROVE  StepsInv'
    BY <1>2 DEF TypeOK, StepsInv, Expire, Crash, InFlight, vars, rows
  <1> QED
    BY <1>1, <1>2 DEF Next, StepOf

\* Two calls that both found an invitation pending are known to race.
LEMMA NextRace == TypeOK /\ StepsInv /\ RaceInv /\ [Next]_vars => RaceInv'
  <1> SUFFICES ASSUME TypeOK, StepsInv, RaceInv, [Next]_vars
               PROVE  RaceInv'
    OBVIOUS
  <1>1. ASSUME NEW c \in Calls, NEW i \in Calls, NEW k, Revoke(c, i) \/ Accept(c, i, k)
        PROVE  RaceInv'
    <2>1. /\ status' = status /\ status[i] # "none" /\ Decides(c, i) /\ about'[c] = i
          /\ pc'[c] \in Deciding => status[i] = "PENDING"
          /\ pc[c] = "idle"
          /\ \A b \in Calls \ {c} : pc'[b] = pc[b] /\ about'[b] = about[b]
      BY <1>1 DEF Revoke, Accept, Acceptable, Goto, rows, TypeOK, Deciding
    <2>2. raced \subseteq raced'
      BY <2>1 DEF Decides
    <2>3. ASSUME NEW b \in Calls \ {c}, pc[b] \in Deciding, about[b] = i, status[i] = "PENDING"
          PROVE  i \in raced'
      BY <2>1, <2>3 DEF Decides
    <2>4. ASSUME NEW b \in Calls \ {c}, pc'[b] \in Deciding
          PROVE  /\ status'[about'[b]] # "none"
                 /\ status'[about'[b]] = "PENDING" \/ about'[b] \in raced'
                 /\ \A x \in Calls : pc'[x] \in Deciding /\ about'[x] = about'[b]
                                      => x = b \/ about'[b] \in raced'
      BY <2>1, <2>2, <2>3, <2>4 DEF RaceInv
    <2>5. pc'[c] \in Deciding => /\ status'[about'[c]] = "PENDING"
                                 /\ \A x \in Calls : pc'[x] \in Deciding /\ about'[x] = about'[c]
                                                      => x = c \/ about'[c] \in raced'
      BY <2>1, <2>3
    <2> QED
      BY <2>1, <2>4, <2>5 DEF RaceInv
  <1>2. ASSUME NEW c \in Calls, Insert(c)
        PROVE  RaceInv'
    <2>1. /\ status' = [status EXCEPT ![c] = "PENDING"] /\ UNCHANGED <<about, raced>>
          /\ \A b \in Calls : pc'[b] \in Deciding => pc[b] \in Deciding
      BY <1>2 DEF Insert, Goto, history, TypeOK, Deciding
    <2> QED
      BY <2>1 DEF RaceInv, TypeOK
  <1>3. ASSUME NEW c \in Calls, SetRevoked(c) \/ Transaction(c)
        PROVE  RaceInv'
    <2>1. /\ \A i \in Calls : status'[i] = status[i] \/ (i = about[c] /\ status'[i] # "none")
          /\ UNCHANGED <<about, raced>> /\ pc[c] \in Deciding
          /\ \A b \in Calls : pc'[b] \in Deciding => pc[b] \in Deciding /\ b # c
      BY <1>3 DEF SetRevoked, Transaction, Makes, Goto, history, TypeOK, Deciding
    <2>2. \A b \in Calls : about[b] \in Calls
      BY DEF TypeOK
    <2> QED
      BY <2>1, <2>2 DEF RaceInv
  <1>4. ASSUME NEW c \in Calls, StepOf(c), ~Insert(c), ~SetRevoked(c), ~Transaction(c),
               \A i \in Calls : ~Revoke(c, i) /\ \A k \in 0 .. link[i] : ~Accept(c, i, k)
        PROVE  /\ UNCHANGED <<status, raced>>
               /\ \A b \in Calls : pc'[b] \in Deciding => pc[b] \in Deciding /\ about'[b] = about[b]
    BY <1>4 DEF TypeOK, StepOf, Administers, Joins, Reject, Invite, LookForPending, Mail, Relink,
         Resend, Look, Notify, Register, SsoLogin, LinkSubject, MakeOrg, MakeUser, ProvisionUser,
         Makes, Goto, rows, history, Deciding
  <1>5. ASSUME (\E i \in Calls : Expire(i)) \/ Crash \/ UNCHANGED vars
        PROVE  /\ UNCHANGED <<status, raced>>
               /\ \A b \in Calls : pc'[b] \in Deciding => pc[b] \in Deciding /\ about'[b] = about[b]
    BY <1>5 DEF TypeOK, Expire, Crash, InFlight, vars, rows, history, Deciding
  <1>6. ASSUME /\ UNCHANGED <<status, raced>>
               /\ \A b \in Calls : pc'[b] \in Deciding => pc[b] \in Deciding /\ about'[b] = about[b]
        PROVE  RaceInv'
    BY <1>6 DEF RaceInv
  <1> QED
    BY <1>1, <1>2, <1>3, <1>4, <1>5, <1>6 DEF Next, StepOf

\* A create that looks before another inserts, and inserts after, is known to.
LEMMA NextTwin == TypeOK /\ StepsInv /\ RaceInv /\ TwinInv /\ [Next]_vars => TwinInv'
  <1> SUFFICES ASSUME TypeOK, StepsInv, RaceInv, TwinInv, [Next]_vars
               PROVE  TwinInv'
    OBVIOUS
  <1> DEFINE Has(c) == pc[c] = "insert" \/ status[c] = "PENDING"
  <1>1. ASSUME twins \subseteq twins', \A c \in Calls : Has(c)' => Has(c)
        PROVE  TwinInv'
    BY <1>1 DEF TwinInv
  <1>2. ASSUME NEW c \in Calls, LookForPending(c)
        PROVE  TwinInv'
    <2>1. CASE Pending(Org[c]) # {}
      BY <1>1, <1>2, <2>1 DEF LookForPending, Goto, rows, TypeOK
    <2>2. CASE Pending(Org[c]) = {}
      <3>1. /\ status' = status /\ twins \subseteq twins'
            /\ \A b \in Calls \ {c} : pc'[b] = pc[b]
        BY <1>2, <2>2 DEF LookForPending, Goto, rows, TypeOK
      <3>2. ASSUME NEW b \in Calls \ {c}, Org[b] = Org[c], Has(b)
            PROVE  c \in twins'
        BY <1>2, <2>2, <3>2 DEF LookForPending, Pending
      <3> QED
        BY <3>1, <3>2 DEF TwinInv
    <2> QED
      BY <2>1, <2>2
  <1>3. ASSUME NEW c \in Calls, StepOf(c), ~LookForPending(c)
        PROVE  twins' = twins /\ \A b \in Calls : Has(b)' => Has(b)
    BY <1>3 DEF TypeOK, RaceInv, StepOf, Administers, Joins, Reject, Invite, Insert, Mail, SetRevoked,
         Relink, Revoke, Resend, Accept, Look, Transaction, Notify, Register, SsoLogin,
         LinkSubject, MakeOrg, MakeUser, ProvisionUser, Makes, Goto, rows, history, Making, Deciding
  <1>4. ASSUME (\E i \in Calls : Expire(i)) \/ Crash \/ UNCHANGED vars
        PROVE  twins' = twins /\ \A b \in Calls : Has(b)' => Has(b)
    BY <1>4 DEF TypeOK, Expire, Crash, InFlight, vars, rows, history
  <1> QED
    BY <1>1, <1>2, <1>3, <1>4 DEF Next, StepOf

\* Two calls that are both about to make the user are known to be rivals.
LEMMA NextRival == TypeOK /\ RivalInv /\ [Next]_vars => RivalInv'
  <1> SUFFICES ASSUME TypeOK, RivalInv, [Next]_vars
               PROVE  RivalInv'
    OBVIOUS
  <1> DEFINE Finds(b) ==
        /\ b \in rivals \/ pc[b] \in {"tx", "link"} \/ account[Spelled(b)] = NoCall
        /\ b \in rivals \/ pc[b] \notin {"newOrg", "provision"} \/ subject = "none"
  <1>1. ASSUME NEW c \in Calls, Look(c) \/ Register(c) \/ SsoLogin(c)
        PROVE  RivalInv'
    <2>1. /\ UNCHANGED <<account, subject>> /\ rivals \subseteq rivals'
          /\ pc'[c] \in Making => SetsOut(c) /\ pc[c] \notin Making
          /\ \A b \in Calls \ {c} : pc'[b] = pc[b]
      BY <1>1 DEF Look, Register, SsoLogin, SetsOut, Goto, rows, TypeOK, Making
    <2>2. pc'[c] \in Making => Finds(c)'
      BY <1>1 DEF Look, Register, SsoLogin, Goto, rows, TypeOK, Making
    <2>3. ASSUME NEW b \in Calls \ {c}, pc'[b] \in Making
          PROVE  (pc'[c] \in Making => b \in rivals' /\ c \in rivals') /\ Finds(b)'
      BY <2>1, <2>3 DEF SetsOut, RivalInv
    <2> QED
      BY <2>1, <2>2, <2>3 DEF RivalInv
  <1>2. ASSUME NEW c \in Calls, pc[c] \in Making, rivals' = rivals,
               \A b \in Calls \ {c} : pc'[b] = pc[b],
               pc'[c] \in Making => Finds(c)'
        PROVE  RivalInv'
    <2>1. ASSUME NEW b \in Calls \ {c}, pc'[b] \in Making
          PROVE  b \in rivals'
      BY <1>2, <2>1 DEF RivalInv
    <2>2. ASSUME pc'[c] \in Making, NEW b \in Calls \ {c}, pc'[b] \in Making
          PROVE  c \in rivals'
      BY <1>2, <2>2 DEF RivalInv
    <2> QED
      BY <1>2, <2>1, <2>2 DEF RivalInv
  <1>3. ASSUME NEW c \in Calls,
               Transaction(c) \/ LinkSubject(c) \/ MakeOrg(c) \/ MakeUser(c) \/ ProvisionUser(c)
        PROVE  RivalInv'
    <2>1. /\ pc[c] \in Making /\ rivals' = rivals
          /\ \A b \in Calls \ {c} : pc'[b] = pc[b]
      BY <1>3 DEF Transaction, LinkSubject, MakeOrg, MakeUser, ProvisionUser, Makes, Goto, history,
                  TypeOK, Making
    <2>2. pc'[c] \in Making => MakeOrg(c)
      BY <1>3 DEF Transaction, LinkSubject, MakeUser, ProvisionUser, Makes, Goto, TypeOK, Making
    <2>3. MakeOrg(c) => Finds(c)'
      BY <2>1 DEF MakeOrg, Goto, history, RivalInv, TypeOK, Making
    <2> QED
      BY <1>2, <2>1, <2>2, <2>3
  <1>4. ASSUME UNCHANGED <<account, subject, rivals>>,
               \A b \in Calls : pc'[b] \in Making => pc'[b] = pc[b]
        PROVE  RivalInv'
    BY <1>4 DEF RivalInv
  <1>5. ASSUME NEW c \in Calls, Administers(c) \/ Reject(c) \/ Notify(c)
                 \/ (\E i \in Calls : \E k \in 0 .. link[i] : Accept(c, i, k))
        PROVE  /\ UNCHANGED <<account, subject, rivals>>
               /\ \A b \in Calls : pc'[b] \in Making => pc'[b] = pc[b]
    BY <1>5 DEF TypeOK, Administers, Reject, Notify, Accept, Invite, LookForPending, Insert, Mail,
         SetRevoked, Relink, Revoke, Resend, Goto, rows, history, Making
  <1>6. ASSUME (\E i \in Calls : Expire(i)) \/ Crash \/ UNCHANGED vars
        PROVE  /\ UNCHANGED <<account, subject, rivals>>
               /\ \A b \in Calls : pc'[b] \in Making => pc'[b] = pc[b]
    BY <1>6 DEF TypeOK, Expire, Crash, InFlight, vars, rows, history, Making
  <1> QED
    BY <1>1, <1>3, <1>4, <1>5, <1>6 DEF Next, Joins

\* What a step never undoes: a user, what its maker was about, that an invitation exists,
\* and the histories.
LEMMA Grows ==
  ASSUME TypeOK, RaceInv, MakerInv, [Next]_vars
  PROVE  /\ raced \subseteq raced' /\ rivals \subseteq rivals' /\ faults' >= faults
         /\ \A i \in Calls : status[i] # "none" => status'[i] # "none"
         /\ \A s \in Spellings : account[s] # NoCall =>
              /\ account'[s] = account[s] /\ about'[account[s]] = about[account[s]]
              /\ pc'[account[s]] \in {"notify", "done", "error", "lost"}
  <1>1. ASSUME NEW c \in Calls, StepOf(c)
        PROVE  /\ raced \subseteq raced' /\ rivals \subseteq rivals' /\ faults' >= faults
               /\ \A i \in Calls : status[i] # "none" => status'[i] # "none"
    BY <1>1 DEF TypeOK, StepOf, Administers, Joins, Reject, Invite, LookForPending, Insert, Mail,
         SetRevoked, Relink, Revoke, Resend, Accept, Look, Transaction, Notify, Register, SsoLogin,
         LinkSubject, MakeOrg, MakeUser, ProvisionUser, Decides, SetsOut, rows, history, bounds
  <1>2. ASSUME NEW c \in Calls, StepOf(c)
        PROVE  \A s \in Spellings : account[s] # NoCall => account'[s] = account[s]
    BY <1>2 DEF TypeOK, StepOf, Administers, Joins, Reject, Invite, LookForPending, Insert, Mail,
         SetRevoked, Relink, Revoke, Resend, Accept, Look, Transaction, Notify, Register, SsoLogin,
         LinkSubject, MakeOrg, MakeUser, ProvisionUser, Makes, rows
  <1>3. ASSUME NEW c \in Calls, StepOf(c), pc[c] \in {"notify", "done", "error", "lost"}
        PROVE  about'[c] = about[c] /\ pc'[c] \in {"notify", "done", "error", "lost"}
    BY <1>3 DEF TypeOK, StepOf, Administers, Joins, Reject, Invite, LookForPending, Insert, Mail,
         SetRevoked, Relink, Revoke, Resend, Accept, Look, Transaction, Notify, Register, SsoLogin,
         LinkSubject, MakeOrg, MakeUser, ProvisionUser, Goto, Making, Deciding
  <1>4. ASSUME NEW c \in Calls, StepOf(c), NEW s \in Spellings, account[s] # NoCall
        PROVE  /\ about'[account[s]] = about[account[s]]
               /\ pc'[account[s]] \in {"notify", "done", "error", "lost"}
    <2>1. account[s] \in Calls /\ pc[account[s]] \in {"notify", "done", "error", "lost"}
      BY <1>4 DEF MakerInv, TypeOK
    <2> QED
      BY <1>3, <1>4, <2>1, OthersWait
  <1>5. ASSUME (\E i \in Calls : Expire(i)) \/ Crash \/ UNCHANGED vars
        PROVE  /\ UNCHANGED <<status, account, about, raced, rivals>> /\ faults' >= faults
               /\ \A b \in Calls : pc'[b] \in {pc[b], "lost"}
    BY <1>5 DEF TypeOK, Expire, Crash, vars, rows, history, bounds
  <1>6. \A s \in Spellings : account[s] # NoCall =>
           account[s] \in Calls /\ pc[account[s]] \in {"notify", "done", "error", "lost"}
    BY DEF MakerInv, TypeOK
  <1>7. CASE \E c \in Calls : StepOf(c)
    BY <1>1, <1>2, <1>4, <1>7
  <1>8. CASE (\E i \in Calls : Expire(i)) \/ Crash \/ UNCHANGED vars
    <2>1. /\ UNCHANGED <<status, account, about, raced, rivals>> /\ faults' >= faults
          /\ \A b \in Calls : pc'[b] \in {pc[b], "lost"}
      BY <1>5, <1>8
    <2> QED
      BY <1>6, <2>1
  <1> QED
    BY <1>7, <1>8 DEF Next, StepOf

\* The maker of a user is over, and its invitation is one that was inserted.
LEMMA NextMaker == TypeOK /\ StepsInv /\ RaceInv /\ MakerInv /\ [Next]_vars => MakerInv'
  <1> SUFFICES ASSUME TypeOK, StepsInv, RaceInv, MakerInv, [Next]_vars
               PROVE  MakerInv'
    OBVIOUS
  <1>0. TypeOK => \A s \in Spellings : account[s] # NoCall => account[s] \in Calls /\ about[account[s]] \in Calls
    BY DEF TypeOK
  <1>1. ASSUME NEW s \in Spellings, account[s] # NoCall
        PROVE  /\ account'[s] = account[s] /\ about'[account[s]] = about[account[s]]
               /\ pc'[account[s]] \in {"notify", "done", "error", "lost"}
               /\ about[account[s]] = account[s] \/ status'[about[account[s]]] # "none"
    BY <1>0, <1>1, Grows DEF MakerInv
  <1>2. ASSUME NEW s \in Spellings, account[s] = NoCall, account'[s] # NoCall
        PROVE  \E c \in Calls :
                 /\ account'[s] = c /\ pc'[c] \in {"notify", "done"} /\ about'[c] = about[c]
                 /\ Transaction(c) \/ MakeUser(c) \/ ProvisionUser(c)
    BY <1>2 DEF TypeOK, Next, Administers, Joins, Reject, Invite, LookForPending, Insert, Mail,
         SetRevoked, Relink, Revoke, Resend, Accept, Look, Transaction, Notify, Register, SsoLogin,
         LinkSubject, MakeOrg, MakeUser, ProvisionUser, Makes, Goto, Expire, Crash, rows, vars
  <1>3. ASSUME NEW c \in Calls, Transaction(c) \/ MakeUser(c) \/ ProvisionUser(c)
        PROVE  about[c] = c \/ status[about[c]] # "none"
    BY <1>3 DEF Transaction, MakeUser, ProvisionUser, StepsInv, RaceInv, Deciding
  <1>4. ASSUME NEW s \in Spellings, account[s] = NoCall, account'[s] # NoCall
        PROVE  /\ pc'[account'[s]] \in {"notify", "done"}
               /\ about'[account'[s]] = account'[s] \/ status'[about'[account'[s]]] # "none"
    <2>1. PICK c \in Calls :
            /\ account'[s] = c /\ pc'[c] \in {"notify", "done"} /\ about'[c] = about[c]
            /\ Transaction(c) \/ MakeUser(c) \/ ProvisionUser(c)
      BY <1>2, <1>4
    <2>2. about[c] \in Calls
      BY DEF TypeOK
    <2> QED
      BY <1>3, <2>1, <2>2, Grows
  <1> QED
    BY <1>1, <1>4 DEF MakerInv

\* The transaction of an acceptance writes both rows or neither; only a racing revoke, or
\* a racing acceptance, meets an invitation another call has ended.
LEMMA NextAccepted ==
  TypeOK /\ StepsInv /\ RaceInv /\ MakerInv /\ AcceptedHasAccount /\ [Next]_vars
    => AcceptedHasAccount'
  <1> SUFFICES ASSUME TypeOK, StepsInv, RaceInv, MakerInv, AcceptedHasAccount, [Next]_vars
               PROVE  AcceptedHasAccount'
    OBVIOUS
  <1> DEFINE made == account["lower"]
  <1>0. /\ "lower" \in Spellings
        /\ made # NoCall => /\ made \in Calls /\ about[made] \in Calls
                            /\ pc[made] \in {"notify", "done", "error", "lost"}
                            /\ about[made] = made \/ status[about[made]] # "none"
    BY DEF Spellings, MakerInv, TypeOK
  <1>1. /\ made # NoCall => made' = made /\ about'[made] = about[made]
        /\ raced \subseteq raced'
    BY <1>0, Grows
  <1>2. ASSUME status' = status, made' = made
        PROVE  AcceptedHasAccount'
    BY <1>1, <1>2 DEF AcceptedHasAccount
  <1>3. ASSUME NEW c \in Calls, Insert(c)
        PROVE  AcceptedHasAccount'
    <2>1. /\ status' = [status EXCEPT ![c] = "PENDING"] /\ account' = account
          /\ status[c] = "none" /\ pc[c] = "insert"
      BY <1>3 DEF Insert, Goto, StepsInv
    <2>2. made # NoCall => about[made] # c
      BY <1>0, <2>1
    <2> QED
      BY <1>1, <2>1, <2>2 DEF AcceptedHasAccount, TypeOK
  <1>4. ASSUME NEW c \in Calls, SetRevoked(c)
        PROVE  AcceptedHasAccount'
    <2>1. /\ status' = [status EXCEPT ![about[c]] = "REVOKED"] /\ account' = account
          /\ status[about[c]] = "PENDING" \/ about[c] \in raced
          /\ status[about[c]] # "none"
      BY <1>4 DEF SetRevoked, Goto, RaceInv, Deciding
    <2> QED
      BY <1>1, <2>1 DEF AcceptedHasAccount, TypeOK
  <1>5. ASSUME NEW c \in Calls, Transaction(c)
        PROVE  AcceptedHasAccount'
    <2>1. CASE made # NoCall
      <3>1. status' = status
        BY <1>5, <2>1 DEF Transaction
      <3> QED
        BY <1>1, <1>2, <2>1, <3>1
    <2>2. CASE made = NoCall
      <3>1. status' = [status EXCEPT ![about[c]] = "ACCEPTED"] /\ made' = c /\ about' = about
        BY <1>0, <1>5, <2>2 DEF Transaction, Makes, TypeOK
      <3>2. \A i \in Calls : status[i] # "ACCEPTED"
        BY <2>2 DEF AcceptedHasAccount
      <3> QED
        BY <3>1, <3>2, NoCallAssumption DEF AcceptedHasAccount, TypeOK
    <2> QED
      BY <2>1, <2>2
  <1>6. ASSUME NEW c \in Calls, MakeUser(c) \/ ProvisionUser(c), made' # made
        PROVE  AcceptedHasAccount'
    <2>1. /\ made = NoCall /\ made' = c /\ about' = about /\ status' = status
          /\ status[c] = "none" /\ about[c] = c
      BY <1>0, <1>6 DEF MakeUser, ProvisionUser, Makes, Goto, StepsInv, TypeOK
    <2> QED
      BY <2>1 DEF AcceptedHasAccount
  <1>7. ASSUME NEW c \in Calls, StepOf(c), ~Insert(c), ~SetRevoked(c), ~Transaction(c)
        PROVE  status' = status /\ (MakeUser(c) \/ ProvisionUser(c) \/ made' = made)
    BY <1>7 DEF StepOf, Administers, Joins, Reject, Invite, LookForPending, Mail, Relink, Revoke,
         Resend, Accept, Look, Notify, Register, SsoLogin, LinkSubject, MakeOrg, MakeUser,
         ProvisionUser, rows
  <1>8. ASSUME (\E i \in Calls : Expire(i)) \/ Crash \/ UNCHANGED vars
        PROVE  status' = status /\ made' = made
    BY <1>8 DEF Expire, Crash, rows, vars
  <1> QED
    BY <1>2, <1>3, <1>4, <1>5, <1>6, <1>7, <1>8 DEF Next, StepOf

\* An organization is left without its user only when its call found the address free and
\* then not, or met a fault.
LEMMA NextOrphans ==
  TypeOK /\ TypeOK' /\ RaceInv /\ RivalInv /\ MakerInv /\ OrphansAreLostRaces /\ [Next]_vars
    => OrphansAreLostRaces'
  <1> DEFINE Explained(c) ==
        \/ pc[c] \in {"user", "provision"} \/ c \in rivals \/ faults > 0
        \/ c \in Typed /\ account["lower"] # NoCall
  <1> SUFFICES ASSUME TypeOK, TypeOK', RaceInv, RivalInv, MakerInv, OrphansAreLostRaces, [Next]_vars,
                      NEW c \in Calls, c \in newOrgs', \A s \in Spellings : account'[s] # c
               PROVE  Explained(c)'
    BY DEF OrphansAreLostRaces, TypeOK
  <1>1. /\ rivals \subseteq rivals' /\ faults' >= faults /\ faults \in Nat /\ faults' \in Nat
        /\ \A s \in Spellings : account[s] # NoCall => account'[s] = account[s]
        /\ "lower" \in Spellings /\ Spelled(c) \in Spellings
    BY Grows, BoundAssumption DEF TypeOK, Spellings, Spelled
  <1>2. ASSUME c \in newOrgs
        PROVE  Explained(c)
    <2>1. \A s \in Spellings : account[s] # c
      BY <1>1, NoCallAssumption
    <2> QED
      BY <1>2, <2>1 DEF OrphansAreLostRaces
  <1>3. ASSUME Explained(c), pc[c] \in {"user", "provision"} => pc'[c] = pc[c] \/ faults' > faults
        PROVE  Explained(c)'
    BY <1>1, <1>3
  <1>4. ASSUME MakeOrg(c)
        PROVE  Explained(c)'
    BY <1>4 DEF MakeOrg, Goto, TypeOK
  <1>5. ASSUME MakeUser(c)
        PROVE  Explained(c)'
    <2>1. account[Spelled(c)] # NoCall
      BY <1>1, <1>5 DEF MakeUser, Makes, TypeOK
    <2>2. c \in rivals
      BY <1>5, <2>1 DEF MakeUser, RivalInv, Making
    <2> QED
      BY <1>1, <2>2
  <1>6. ASSUME ProvisionUser(c)
        PROVE  Explained(c)'
    <2>1. pc[c] = "provision"
      BY <1>6 DEF ProvisionUser
    <2>2. CASE subject # "none"
      BY <1>1, <2>1, <2>2 DEF RivalInv, Making
    <2>3. CASE subject = "none"
      <3>1. account["lower"] # NoCall
        BY <1>1, <1>6, <2>3 DEF ProvisionUser, Makes, TypeOK
      <3>2. CASE c \in Typed
        BY <1>1, <3>1, <3>2
      <3>3. CASE c \notin Typed
        BY <1>1, <2>1, <3>1, <3>3 DEF RivalInv, Making, Spelled
      <3> QED
        BY <3>2, <3>3
    <2> QED
      BY <2>2, <2>3
  <1>7. ASSUME NEW b \in Calls, StepOf(b), ~MakeOrg(c), ~MakeUser(c), ~ProvisionUser(c)
        PROVE  c \in newOrgs /\ (pc[c] \in {"user", "provision"} => pc'[c] = pc[c] \/ faults' > faults)
    <2>1. CASE b = c
      BY <1>7, <2>1 DEF TypeOK, StepOf, Administers, Joins, Reject, Invite, LookForPending, Insert,
         Mail, SetRevoked, Relink, Revoke, Resend, Accept, Look, Transaction, Notify, Register,
         SsoLogin, LinkSubject, MakeOrg, Goto, rows
    <2>2. CASE b # c
      <3>1. c \in newOrgs
        BY <1>7, <2>2 DEF StepOf, Administers, Joins, Reject, Invite, LookForPending, Insert, Mail,
           SetRevoked, Relink, Revoke, Resend, Accept, Look, Transaction, Notify, Register,
           SsoLogin, LinkSubject, MakeOrg, MakeUser, ProvisionUser, rows
      <3> QED
        BY <1>7, <2>2, <3>1, OthersWait
    <2> QED
      BY <2>1, <2>2
  <1>8. ASSUME (\E i \in Calls : Expire(i)) \/ Crash \/ UNCHANGED vars
        PROVE  newOrgs' = newOrgs /\ (pc'[c] = pc[c] \/ faults' > faults)
    BY <1>1, <1>8 DEF Expire, Crash, rows, vars
  <1> QED
    BY <1>2, <1>3, <1>4, <1>5, <1>6, <1>7, <1>8 DEF Next, StepOf

-----------------------------------------------------------------------------
(* Theorems *)

\* JoinInv holds throughout.
LEMMA JoinAlways == Spec => []JoinInv
  <1>1. JoinInv /\ [Next]_vars => JoinInv'
    BY NextLinks, NextTypeOK, NextSteps, NextRace, NextTwin, NextRival, NextMaker, NextAccepted,
       NextOrphans DEF JoinInv, AccountsAgree
  <1> QED
    BY <1>1, InitJoin, PTL DEF Spec

\* The invitations, the accounts and the calls about them have their types
\* (invitations.service.ts:43, 212).
THEOREM InvitationTypes == Spec => []TypeOK
  <1>1. JoinInv => TypeOK
    BY DEF JoinInv
  <1> QED
    BY <1>1, JoinAlways, PTL

\* Of the pending invitations of one organization to one address, all but one are of
\* creates that looked while another was about to insert (invitations.service.ts:43, 56).
THEOREM OnePending == Spec => []OnePendingUnlessTwins
  <1>1. ASSUME JoinInv, NEW o \in Orgs
        PROVE  Cardinality(Pending(o) \ twins) <= 1
    <2>1. \A b, c \in Pending(o) \ twins : b = c
      BY <1>1 DEF JoinInv, TwinInv, Pending
    <2>2. CASE Pending(o) \ twins = {}
      BY <2>2, FS_EmptySet
    <2>3. CASE Pending(o) \ twins # {}
      <3>1. PICK b : Pending(o) \ twins = {b}
        BY <2>1, <2>3
      <3>2. Cardinality({b}) = 1
        BY FS_Singleton
      <3> QED
        BY <3>1, <3>2
    <2> QED
      BY <2>2, <2>3
  <1>2. JoinInv => OnePendingUnlessTwins
    BY <1>1 DEF OnePendingUnlessTwins
  <1> QED
    BY <1>2, JoinAlways, PTL

\* The account has its invitation accepted, and an accepted invitation its account; an
\* organization without its user is left by a lost race, a fault or an address in capitals
\* (invitations.service.ts:224; auth.service.ts:85, 94; keycloak.service.ts:87, 224, 256).
THEOREM AccountsHold == Spec => []AccountsAgree
  <1>1. JoinInv => AccountsAgree
    BY DEF JoinInv
  <1> QED
    BY <1>1, JoinAlways, PTL

\* An invitation that was accepted or revoked stays so, unless two calls had both found
\* it pending (invitations.service.ts:159, 178, 212).
THEOREM OutcomesFinal == Spec => OutcomeFinal
  <1> DEFINE Final == \A i \in Calls : status[i] \in {"ACCEPTED", "REVOKED"} /\ i \notin raced
                        => status'[i] = status[i]
  <1>1. ASSUME JoinInv, NEW c \in Calls, Insert(c)
        PROVE  Final
    BY <1>1 DEF JoinInv, TypeOK, StepsInv, Insert, Goto
  <1>2. ASSUME JoinInv, NEW c \in Calls, SetRevoked(c) \/ Transaction(c)
        PROVE  Final
    BY <1>2 DEF JoinInv, TypeOK, RaceInv, SetRevoked, Transaction, Goto, Deciding
  <1>3. ASSUME JoinInv, [Next]_vars, \A c \in Calls : ~Insert(c) /\ ~SetRevoked(c) /\ ~Transaction(c)
        PROVE  status' = status
    BY <1>3 DEF Next, Administers, Joins, Reject, Invite, LookForPending, Mail, Relink, Revoke, Resend,
         Accept, Look, Notify, Register, SsoLogin, LinkSubject, MakeOrg, MakeUser, ProvisionUser,
         Expire, Crash, rows, vars
  <1>4. JoinInv /\ [Next]_vars => [Final]_vars
    BY <1>1, <1>2, <1>3
  <1> QED
    BY <1>4, JoinAlways, PTL DEF Spec, OutcomeFinal

=================================================================================
