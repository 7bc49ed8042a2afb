------------------------------- MODULE OfficeProofs -------------------------------
(***************************************************************************)
(* Proofs about the services of an organization that share no state with   *)
(* each other: Members, Policies with the knowledge gaps, Meetings,        *)
(* Notifications and OutboundMail, each for any constants.                 *)
(***************************************************************************)
EXTENDS Notifications, Members, Policies, Meetings, OutboundMail, TLAPS

-----------------------------------------------------------------------------
(* Members *)

\* A request that passed the guard is not about its actor's own right.
MembersInv ==
  /\ MembersTypeOK
  /\ \A r \in Updates : updPc[r] \in {"find", "update"} => ~SelfProtected(actor[r], target[r], change[r])
  /\ AdminRemains

\* Whoever registered the organization administers it.
LEMMA InitMembers == MembersInit => MembersInv
  <1> SUFFICES ASSUME MembersInit
               PROVE  MembersInv
    OBVIOUS
  <1>1. Somebody \in Staff
    BY AdminsAssumption DEF Somebody
  <1>2. MembersTypeOK
    BY <1>1, AdminsAssumption DEF MembersInit, MembersTypeOK, Changes
  <1> QED
    BY <1>2, AdminsAssumption DEF MembersInit, MembersInv, AdminRemains, MayAdminister

\* An update whose actor still has the right leaves the actor's right alone.
LEMMA NextMembers == MembersInv /\ [MembersNext]_memberVars => MembersInv'
  <1> SUFFICES ASSUME MembersInv, [MembersNext]_memberVars
               PROVE  MembersInv'
    OBVIOUS
  <1> USE DEF MembersInv, MembersTypeOK
  <1>1. ASSUME NEW r \in Updates, RequestUpdate(r)
        PROVE  MembersInv'
    <2>1. PICK u \in Staff, t \in Staff, c \in Changes :
            /\ updPc' = [updPc EXCEPT ![r] = IF ~MayAdminister(u) \/ SelfProtected(u, t, c)
                                             THEN "denied" ELSE "find"]
            /\ actor' = [actor EXCEPT ![r] = u] /\ target' = [target EXCEPT ![r] = t]
            /\ change' = [change EXCEPT ![r] = c]
      BY <1>1 DEF RequestUpdate
    <2>2. UNCHANGED <<admin, active, late>>
      BY <1>1 DEF RequestUpdate
    <2>3. MembersTypeOK'
      BY <2>1, <2>2
    <2> QED
      BY <2>1, <2>2, <2>3 DEF AdminRemains, MayAdminister, SelfProtected
  <1>2. ASSUME NEW r \in Updates, FindTarget(r) \/ UpdateRejected(r)
        PROVE  MembersInv'
    BY <1>2 DEF FindTarget, UpdateRejected, AdminRemains, MayAdminister
  <1>3. ASSUME NEW r \in Updates, WriteMember(r)
        PROVE  MembersInv'
    <2>1. MembersTypeOK'
      BY <1>3 DEF WriteMember
    <2>2. ASSUME late' = {}
          PROVE  \E u \in Staff : MayAdminister(u)'
      <3>1. MayAdminister(actor[r]) /\ ~SelfProtected(actor[r], target[r], change[r])
        BY <1>3, <2>2 DEF WriteMember
      <3>2. MayAdminister(actor[r])'
        BY <1>3, <3>1 DEF WriteMember, MayAdminister, SelfProtected
      <3> QED
        BY <1>3, <3>2 DEF WriteMember, MayAdminister
    <2> QED
      BY <1>3, <2>1, <2>2 DEF WriteMember, AdminRemains
  <1>4. CASE UNCHANGED memberVars
    BY <1>4 DEF memberVars, AdminRemains, MayAdminister
  <1> QED
    BY <1>1, <1>2, <1>3, <1>4 DEF MembersNext

\* An organization keeps an active admin, unless an update was written whose actor had
\* lost the right to it since the guard had let it through (users.service.ts:159).
THEOREM AdminStays == MembersSpec => [](MembersTypeOK /\ AdminRemains)
  <1>1. MembersInv => MembersTypeOK /\ AdminRemains
    BY DEF MembersInv
  <1> QED
    BY <1>1, InitMembers, NextMembers, PTL DEF MembersSpec

-----------------------------------------------------------------------------
(* Meetings *)

\* A request to summarise moves forward; its text is the one it writes.
MeetingsInv ==
  /\ sumPc \in [Summaries -> {"idle", "denied", "model", "write", "done", "error"}]
  /\ text \in [Summaries -> {"none", "summary", "nothing", "unavailable"}]
  /\ SummariesExplained

\* What the meeting's row has is of an answered request; a deleted meeting is summarised
\* by requests that had found it alone (meetings.service.ts:134, 145, 199).
THEOREM SummariesHold == MeetingsSpec => []SummariesExplained
  <1> USE DEF MeetingsInv
  <1>1. MeetingsInit => MeetingsInv
    BY DEF MeetingsInit, SummariesExplained
  <1>2. ASSUME MeetingsInv, [MeetingsNext]_meetingVars
        PROVE  MeetingsInv'
    <2>1. ASSUME NEW s \in Summaries, AskSummary(s) \/ SummaryRejected(s)
          PROVE  MeetingsInv'
      BY <1>2, <2>1 DEF AskSummary, SummaryRejected, FindMeeting, SummariesExplained
    <2>2. ASSUME NEW s \in Summaries, Summarize(s)
          PROVE  MeetingsInv'
      BY <1>2, <2>2 DEF Summarize, SummariesExplained
    <2>3. ASSUME NEW s \in Summaries, WriteSummary(s)
          PROVE  MeetingsInv'
      BY <1>2, <2>3 DEF WriteSummary, SummariesExplained
    <2>4. ASSUME NEW d \in Deletes, FindToDelete(d) \/ DeleteMeeting(d)
          PROVE  MeetingsInv'
      BY <1>2, <2>4 DEF FindToDelete, DeleteMeeting, SummariesExplained
    <2>5. CASE UNCHANGED meetingVars
      BY <1>2, <2>5 DEF meetingVars, SummariesExplained
    <2> QED
      BY <1>2, <2>1, <2>2, <2>3, <2>4, <2>5 DEF MeetingsNext
  <1>3. MeetingsInv => SummariesExplained
    OBVIOUS
  <1> QED
    BY <1>1, <1>2, <1>3, PTL DEF MeetingsSpec

-----------------------------------------------------------------------------
(* OutboundMail *)

\* Before an attempt succeeds, whatever went out went out unconfirmed; then one copy more.
MailInv ==
  /\ copies \in Nat /\ lost \in Nat
  /\ mailPc \in {"loop", "backoff", "gaveUp"} => copies = lost
  /\ mailPc \in {"sent", "delivered"} => copies = lost + 1
  /\ copies = lost \/ copies = lost + 1
  /\ recorded = "undelivered" => mailPc = "gaveUp"

\* A mail goes out twice only when a server took it without saying so; undelivered ones
\* were never confirmed, delivered ones went out (email.service.ts:91, 103, 127).
THEOREM CopiesExplained == MailSpec => []MailCopies
  <1> USE DEF MailInv
  <1>1. MailInit => MailInv
    BY DEF MailInit
  <1>2. ASSUME MailInv, [MailNext]_mailVars
        PROVE  MailInv'
    <2>1. CASE SendMail
      BY <1>2, <2>1 DEF SendMail, Attempting
    <2>2. CASE SendMailRejected
      BY <1>2, <2>2 DEF SendMailRejected, Attempting, Backoff
    <2>3. CASE EndBackoff \/ RecordSent \/ RecordFallback \/ MailDies
      BY <1>2, <2>3 DEF EndBackoff, RecordSent, RecordFallback, MailDies, GivesUp
    <2>4. CASE UNCHANGED mailVars
      BY <1>2, <2>4 DEF mailVars
    <2> QED
      BY <1>2, <2>1, <2>2, <2>3, <2>4 DEF MailNext
  <1>3. MailInv => MailCopies
    BY DEF MailCopies
  <1> QED
    BY <1>1, <1>2, <1>3, PTL DEF MailSpec

-----------------------------------------------------------------------------
(* Policies: versions *)

\* The policies and the edits; a content is whatever an edit wrote.
PolicyTypes ==
  /\ version \in [PolicyIds -> Nat] /\ DOMAIN content = PolicyIds
  /\ content = [p \in PolicyIds |-> content[p]]
  /\ editPc \in [Edits -> {"idle", "write", "done"}]
  /\ DOMAIN edit = Edits /\ edit = [e \in Edits |-> edit[e]]
  /\ seen \in [Edits -> Nat]
  /\ \A e \in Edits : editPc[e] = "write" => edit[e][1] \in PolicyIds
  /\ \A x \in named : x[1] \in PolicyIds /\ x[2] \in Nat

\* While no update was blind, what a policy has is named, under the highest number.
NamesInv ==
  /\ PolicyTypes
  /\ blind = {} =>
       /\ \A p \in PolicyIds : <<p, version[p], content[p]>> \in named
       /\ \A x \in named : x[2] <= version[x[1]]
  /\ VersionNamesContent

\* An update that has read the version the policy has writes it, or the next with the
\* content.
LEMMA WriteNames == NamesInv /\ (\E e \in Edits : WritePolicy(e)) => NamesInv'
  <1> SUFFICES ASSUME NamesInv, NEW e \in Edits, WritePolicy(e)
               PROVE  NamesInv'
    OBVIOUS
  <1> DEFINE p == edit[e][1]
             w == edit[e][2]
             v == NextVersion(seen[e], w)
             c == IF w = "content" THEN e ELSE content[p]
  <1>1. p \in PolicyIds /\ v \in Nat /\ editPc[e] = "write"
    BY DEF WritePolicy, NamesInv, PolicyTypes, NextVersion
  <1>2. /\ version' = [version EXCEPT ![p] = v] /\ content' = [content EXCEPT ![p] = c]
        /\ editPc' = [editPc EXCEPT ![e] = "done"] /\ UNCHANGED <<edit, seen>>
    BY <1>1 DEF WritePolicy, NamesInv, PolicyTypes
  <1>3. version'[p] = v /\ content'[p] = c
    BY <1>1, <1>2 DEF NamesInv, PolicyTypes
  <1>4. named' = named \cup {<<p, v, c>>}
    BY <1>3 DEF WritePolicy
  <1>5. blind' = {} => blind = {} /\ seen[e] = version[p]
    BY DEF WritePolicy
  <1> HIDE DEF p, w, v, c
  <1>6. PolicyTypes'
    <2>1. version' \in [PolicyIds -> Nat] /\ editPc' \in [Edits -> {"idle", "write", "done"}]
      BY <1>1, <1>2 DEF NamesInv, PolicyTypes
    <2>2. DOMAIN content' = PolicyIds /\ content' = [q \in PolicyIds |-> content'[q]]
      BY <1>2 DEF NamesInv, PolicyTypes
    <2>3. \A x \in named' : x[1] \in PolicyIds /\ x[2] \in Nat
      BY <1>1, <1>4 DEF NamesInv, PolicyTypes
    <2> QED
      BY <1>2, <2>1, <2>2, <2>3 DEF NamesInv, PolicyTypes
  <1>7. CASE blind' # {}
    BY <1>6, <1>7 DEF NamesInv, VersionNamesContent
  <1>8. CASE blind' = {}
    <2>1. /\ \A q \in PolicyIds : <<q, version[q], content[q]>> \in named
          /\ \A x \in named : x[1] \in PolicyIds /\ x[2] \in Nat /\ x[2] <= version[x[1]]
          /\ \A x, y \in named : x[1] = y[1] /\ x[2] = y[2] => x[3] = y[3]
          /\ version \in [PolicyIds -> Nat]
      BY <1>5, <1>8 DEF NamesInv, PolicyTypes, VersionNamesContent
    <2>2. \/ v = version[p] /\ c = content[p]
          \/ v = version[p] + 1
      BY <1>5, <1>8 DEF v, c, NextVersion
    <2>3. \A q \in PolicyIds : <<q, version'[q], content'[q]>> \in named'
      <3>1. \A q \in PolicyIds \ {p} : version'[q] = version[q] /\ content'[q] = content[q]
        BY <1>1, <1>2, <2>1 DEF NamesInv, PolicyTypes
      <3> QED
        BY <1>3, <1>4, <2>1, <3>1
    <2>4. \A q \in PolicyIds : version'[q] >= version[q] /\ version'[q] \in Nat
      BY <1>1, <1>2, <2>1, <2>2
    <2>5. \A x \in named' : x[2] <= version'[x[1]]
      <3>1. ASSUME NEW x \in named
            PROVE  x[2] <= version'[x[1]]
        BY <2>1, <2>4
      <3>2. <<p, v, c>>[2] <= version'[<<p, v, c>>[1]]
        BY <1>1, <1>3
      <3> QED
        BY <1>4, <3>1, <3>2
    <2>6. ASSUME NEW x \in named, x[1] = p, x[2] = v
          PROVE  x[3] = c
      <3>1. v = version[p] /\ c = content[p]
        BY <1>1, <2>1, <2>2, <2>6
      <3>2. <<p, version[p], content[p]>> \in named
        BY <1>1, <2>1
      <3>3. x[3] = <<p, version[p], content[p]>>[3]
        BY <2>1, <2>6, <3>1, <3>2
      <3> QED
        BY <3>1, <3>3
    <2>7. \A x, y \in named' : x[1] = y[1] /\ x[2] = y[2] => x[3] = y[3]
      BY <1>4, <2>1, <2>6
    <2> QED
      BY <1>6, <2>3, <2>5, <2>7 DEF NamesInv, VersionNamesContent
  <1> QED
    BY <1>7, <1>8

\* A version number of a policy stands for one content, unless an update had read a
\* version that was no longer the policy's when it wrote (policies.service.ts:103).
THEOREM VersionsHold == PoliciesSpec => []VersionNamesContent
  <1>1. PoliciesInit => NamesInv
    <2> SUFFICES ASSUME PoliciesInit
                 PROVE  NamesInv
      OBVIOUS
    <2>1. PolicyTypes
      BY DEF PoliciesInit, PolicyTypes
    <2>2. VersionNamesContent
      BY DEF PoliciesInit, VersionNamesContent
    <2> QED
      BY <2>1, <2>2 DEF PoliciesInit, NamesInv
  <1>2. ASSUME NamesInv, [PoliciesNext]_policyVars
        PROVE  NamesInv'
    <2>1. ASSUME NEW e \in Edits, FindPolicy(e)
          PROVE  NamesInv'
      <3>1. PICK p \in PolicyIds, w \in What :
              edit' = [edit EXCEPT ![e] = <<p, w>>] /\ seen' = [seen EXCEPT ![e] = version[p]]
        BY <2>1 DEF FindPolicy
      <3>2. UNCHANGED <<version, content, named, blind>> /\ editPc' = [editPc EXCEPT ![e] = "write"]
        BY <2>1 DEF FindPolicy, policyRows
      <3>3. seen' \in [Edits -> Nat] /\ editPc' \in [Edits -> {"idle", "write", "done"}]
        BY <1>2, <3>1, <3>2 DEF NamesInv, PolicyTypes
      <3>4. DOMAIN edit' = Edits /\ edit' = [f \in Edits |-> edit'[f]]
        BY <1>2, <3>1 DEF NamesInv, PolicyTypes
      <3>5. \A f \in Edits : editPc'[f] = "write" => edit'[f][1] \in PolicyIds
        BY <1>2, <3>1, <3>2 DEF NamesInv, PolicyTypes
      <3> QED
        BY <1>2, <3>2, <3>3, <3>4, <3>5 DEF NamesInv, PolicyTypes, VersionNamesContent
    <2>2. ASSUME NEW e \in Edits, WritePolicy(e)
          PROVE  NamesInv'
      BY <1>2, <2>2, WriteNames
    <2>3. ASSUME NEW e \in Edits, DeletePolicy(e)
          PROVE  NamesInv'
      BY <1>2, <2>3 DEF DeletePolicy, NamesInv, PolicyTypes, VersionNamesContent
    <2>4. ASSUME UNCHANGED <<policyRows, policyCalls>>
          PROVE  NamesInv'
      BY <1>2, <2>4 DEF policyRows, policyCalls, NamesInv, PolicyTypes, VersionNamesContent
    <2> QED
      BY <1>2, <2>1, <2>2, <2>3, <2>4 DEF PoliciesNext, Detect, Upsert, AnswerDetect, DetectRejected,
         UpsertRejected, UpsertOn, FindGap, ResolveGap, policyVars
  <1>3. NamesInv => VersionNamesContent
    BY DEF NamesInv
  <1> QED
    BY <1>1, <1>2, <1>3, PTL DEF PoliciesSpec

-----------------------------------------------------------------------------
(* Policies: knowledge gaps *)

GapTypes ==
  /\ gap \in [Keys -> {"none", "open", "resolved"}]
  /\ detPc \in [Detections -> {"idle", "upsert", "failing", "done", "error"}]
  /\ found \in [Detections -> SUBSET Keys] /\ toUpsert \in [Detections -> SUBSET Keys]
  /\ resPc \in [Resolves -> {"idle", "write", "done"}]
  /\ DOMAIN resKey = Resolves /\ resKey = [r \in Resolves |-> resKey[r]]

\* What a detection has left to write it found, and the rest has its row while no upsert
\* was rejected; a row somebody is about to resolve exists.
GapsInv ==
  /\ GapTypes
  /\ \A d \in Detections :
       /\ detPc[d] = "idle" => found[d] = {}
       /\ toUpsert[d] \subseteq found[d]
       /\ detPc[d] = "upsert" => \A k \in found[d] \ toUpsert[d] : gap[k] # "none"
  /\ \A r \in Resolves : resPc[r] = "write" => resKey[r] \in Keys /\ gap[resKey[r]] # "none"
  /\ dismissed \subseteq Keys
  /\ GapsMatchFindings

\* What a detection finds are keys.
LEMMA FoundAreKeys ==
  /\ ConflictingPolicies \subseteq Keys
  /\ \A c : OfCategory(c) \subseteq Keys
  BY DEF ConflictingPolicies, Keys, Conflicts, OfCategory

\* A row is opened once, by a detection that found it.
LEMMA UpsertGap ==
  ASSUME GapsInv, NEW d \in Detections, Upsert(d) \/ UpsertOn(d)
  PROVE  GapsInv'
  <1>1. PICK k \in toUpsert[d] : /\ gap' = [gap EXCEPT ![k] = Refreshed(gap[k])]
                               /\ toUpsert' = [toUpsert EXCEPT ![d] = toUpsert[d] \ {k}]
    BY DEF Upsert, UpsertOn
  <1>2. /\ UNCHANGED <<detPc, found, resPc, resKey, dismissed>>
        /\ detPc[d] \in {"upsert", "failing"}
    BY DEF Upsert, UpsertOn
  <1>3. k \in found[d] /\ k \in Keys
    BY DEF GapsInv, GapTypes
  <1>4. /\ gap' \in [Keys -> {"none", "open", "resolved"}] /\ toUpsert' \in [Detections -> SUBSET Keys]
        /\ \A x \in Keys \ {k} : gap'[x] = gap[x]
        /\ gap'[k] # "none" /\ (gap[k] # "none" => gap'[k] = gap[k])
        /\ \A e \in Detections \ {d} : toUpsert'[e] = toUpsert[e]
        /\ toUpsert'[d] = toUpsert[d] \ {k}
    BY <1>1, <1>3 DEF GapsInv, GapTypes, Refreshed
  <1>5. \A e \in Detections : found[e] \subseteq Keys
    BY DEF GapsInv, GapTypes
  <1>6. GapsMatchFindings'
    BY <1>2, <1>3, <1>4, <1>5 DEF GapsInv, GapsMatchFindings
  <1> QED
    BY <1>2, <1>4, <1>5, <1>6 DEF GapsInv, GapTypes

\* However detections, edits and resolves overlap, a gap a human resolved stays so, a
\* detection that answers has a row for whatever it found, and a row is of something a
\* detection found (gaps.service.ts:36, 39, 125).
THEOREM GapsHold == PoliciesSpec => []GapsMatchFindings
  <1>1. PoliciesInit => GapsInv
    <2> SUFFICES ASSUME PoliciesInit
                 PROVE  GapsInv
      OBVIOUS
    <2>1. GapTypes
      BY DEF PoliciesInit, GapTypes
    <2>2. GapsMatchFindings
      BY DEF PoliciesInit, GapsMatchFindings
    <2> QED
      BY <2>1, <2>2 DEF PoliciesInit, GapsInv
  <1>2. ASSUME GapsInv, [PoliciesNext]_policyVars
        PROVE  GapsInv'
    <2>1. ASSUME NEW d \in Detections, Detect(d)
          PROVE  GapsInv'
      <3>1. PICK s \in UndocumentedServices, o \in OrphanRepositories, x \in StaleDocuments,
                 m \in MissingOwnership :
              /\ found' = [found EXCEPT ![d] = ConflictingPolicies \cup s \cup o \cup x \cup m]
              /\ toUpsert' = [toUpsert EXCEPT ![d] = found'[d]]
        BY <2>1 DEF Detect
      <3>2. ConflictingPolicies \cup s \cup o \cup x \cup m \subseteq Keys
        BY FoundAreKeys DEF UndocumentedServices, OrphanRepositories, StaleDocuments, MissingOwnership
      <3>3. /\ UNCHANGED <<gap, resPc, resKey, dismissed>>
            /\ detPc' = [detPc EXCEPT ![d] = "upsert"] /\ detPc[d] = "idle"
        BY <2>1 DEF Detect
      <3>4. /\ GapTypes' /\ toUpsert'[d] = found'[d]
            /\ \A e \in Detections \ {d} : found'[e] = found[e] /\ toUpsert'[e] = toUpsert[e]
                                          /\ detPc'[e] = detPc[e]
            /\ detPc'[d] = "upsert" /\ found[d] = {}
        <4> DEFINE fs == ConflictingPolicies \cup s \cup o \cup x \cup m
        <4> HIDE DEF fs
        <4>1. found' = [found EXCEPT ![d] = fs] /\ fs \subseteq Keys
          BY <3>1, <3>2 DEF fs
        <4>2. found'[d] = fs /\ toUpsert' = [toUpsert EXCEPT ![d] = fs]
          BY <1>2, <3>1, <4>1 DEF GapsInv, GapTypes
        <4> QED
          BY <1>2, <3>3, <4>1, <4>2 DEF GapsInv, GapTypes
      <3>5. GapsMatchFindings'
        BY <1>2, <3>3, <3>4 DEF GapsInv, GapsMatchFindings
      <3> QED
        BY <1>2, <3>3, <3>4, <3>5 DEF GapsInv
    <2>2. ASSUME NEW d \in Detections, Upsert(d) \/ UpsertOn(d)
          PROVE  GapsInv'
      BY <1>2, <2>2, UpsertGap
    <2>3. ASSUME NEW d \in Detections, AnswerDetect(d) \/ DetectRejected(d)
          PROVE  GapsInv'
      BY <1>2, <2>3 DEF AnswerDetect, DetectRejected, GapsInv, GapTypes, GapsMatchFindings
    <2>4. ASSUME NEW d \in Detections, UpsertRejected(d)
          PROVE  GapsInv'
      <3>1. PICK k \in toUpsert[d] : toUpsert' = [toUpsert EXCEPT ![d] = toUpsert[d] \ {k}]
        BY <2>4 DEF UpsertRejected
      <3>2. /\ UNCHANGED <<gap, found, resPc, resKey, dismissed>>
            /\ detPc' = [detPc EXCEPT ![d] = "failing"]
        BY <2>4 DEF UpsertRejected
      <3>3. GapTypes'
        BY <1>2, <3>1, <3>2 DEF GapsInv, GapTypes
      <3>4. GapsMatchFindings'
        BY <1>2, <3>2 DEF GapsInv, GapTypes, GapsMatchFindings
      <3> QED
        BY <1>2, <2>4, <3>1, <3>2, <3>3, <3>4 DEF UpsertRejected, GapsInv, GapTypes
    <2>5. ASSUME NEW r \in Resolves, FindGap(r)
          PROVE  GapsInv'
      <3>1. PICK k \in Keys : gap[k] # "none" /\ resKey' = [resKey EXCEPT ![r] = k]
                             /\ resPc' = [resPc EXCEPT ![r] = "write"]
        BY <2>5 DEF FindGap
      <3>2. UNCHANGED <<gap, detPc, found, toUpsert, dismissed>>
        BY <2>5 DEF FindGap
      <3>3. GapTypes'
        BY <1>2, <3>1, <3>2 DEF GapsInv, GapTypes
      <3>4. GapsMatchFindings'
        BY <1>2, <3>2 DEF GapsInv, GapsMatchFindings
      <3> QED
        BY <1>2, <3>1, <3>2, <3>3, <3>4 DEF GapsInv, GapTypes
    <2>6. ASSUME NEW r \in Resolves, ResolveGap(r)
          PROVE  GapsInv'
      <3>1. /\ gap' = [gap EXCEPT ![resKey[r]] = "resolved"]
            /\ dismissed' = dismissed \cup {resKey[r]}
            /\ resPc' = [resPc EXCEPT ![r] = "done"] /\ UNCHANGED <<detPc, found, toUpsert, resKey>>
            /\ resKey[r] \in Keys /\ gap[resKey[r]] # "none"
        BY <1>2, <2>6 DEF ResolveGap, GapsInv
      <3>2. GapTypes' /\ dismissed' \subseteq Keys
        BY <1>2, <3>1 DEF GapsInv, GapTypes
      <3>3. \A k \in Keys : (gap'[k] = "none") <=> (gap[k] = "none")
        BY <1>2, <3>1 DEF GapsInv, GapTypes
      <3>4. \A k \in dismissed' : gap'[k] = "resolved"
        BY <1>2, <3>1 DEF GapsInv, GapTypes, GapsMatchFindings
      <3>5. \A d \in Detections : found[d] \subseteq Keys
        BY <1>2 DEF GapsInv, GapTypes
      <3>6. GapsMatchFindings'
        BY <1>2, <3>1, <3>3, <3>4, <3>5 DEF GapsInv, GapsMatchFindings
      <3>7. \A q \in Resolves : resPc'[q] = "write" => resPc[q] = "write"
        BY <1>2, <3>1 DEF GapsInv, GapTypes
      <3> QED
        BY <1>2, <3>1, <3>2, <3>3, <3>5, <3>6, <3>7 DEF GapsInv
    <2>7. ASSUME UNCHANGED gapCalls
          PROVE  GapsInv'
      BY <1>2, <2>7 DEF gapCalls, GapsInv, GapTypes, GapsMatchFindings
    <2> QED
      BY <1>2, <2>1, <2>2, <2>3, <2>4, <2>5, <2>6, <2>7 DEF PoliciesNext, FindPolicy, WritePolicy,
         DeletePolicy, policyVars
  <1>3. GapsInv => GapsMatchFindings
    BY DEF GapsInv
  <1> QED
    BY <1>1, <1>2, <1>3, PTL DEF PoliciesSpec

-----------------------------------------------------------------------------
(* Notifications *)

CountTypes ==
  /\ unread \in [Users -> SUBSET Items] /\ stored \in [Users -> SUBSET Items]
  /\ DOMAIN cache = Users /\ cache = [u \in Users |-> cache[u]]
  /\ pc \in [Calls -> CallPc] /\ item \in [Calls -> Items]
  /\ DOMAIN got = Calls /\ got = [c \in Calls |-> got[c]]
  /\ faults \in Nat

\* A count that waits to be stored is right, unless a change has overtaken it.
CountsInv ==
  /\ CountTypes
  /\ \A c \in Calls : pc[c] = "set" /\ c \notin overtaken => got[c] = Count(Who[c])
  /\ WrongCountExplained

\* Every step keeps the types.
LEMMA NextCountTypes == CountTypes /\ [Next]_vars => CountTypes'
  <1> SUFFICES ASSUME CountTypes, [Next]_vars
               PROVE  CountTypes'
    OBVIOUS
  <1> USE DEF CountTypes, Goto, Answered, Rejected, Fresh, CallPc, Ended, rows, locals
  <1>1. ASSUME NEW c \in Calls, Create(c) \/ MarkAllAsRead(c)
        PROVE  CountTypes'
    BY <1>1, WhoAssumption DEF Create, MarkAllAsRead, Write, Items
  <1>2. ASSUME NEW c \in Calls, MarkAsRead(c) \/ DeleteRow(c)
        PROVE  CountTypes'
    BY <1>2, WhoAssumption DEF MarkAsRead, DeleteRow, Change, Write
  <1>3. ASSUME NEW c \in Calls, Del(c) \/ Peek(c) \/ Set(c)
        PROVE  CountTypes'
    BY <1>3, WhoAssumption, BoundAssumption DEF Del, Peek, Set
  <1>4. ASSUME NEW c \in Calls, CountRows(c) \/ Reject(c)
        PROVE  CountTypes'
    BY <1>4, BoundAssumption DEF CountRows, Reject
  <1>5. ASSUME NEW c \in Calls, NEW i \in Items, Find(c, i)
        PROVE  CountTypes'
    BY <1>5 DEF Find
  <1>6. ASSUME NEW u \in Users, Expire(u)
        PROVE  CountTypes'
    BY <1>6 DEF Expire
  <1>7. ASSUME NEW e \in Events, Deliver(e)
        PROVE  CountTypes'
    BY <1>7 DEF Deliver, Write, Items
  <1>8. ASSUME NEW e \in Events, Publish(e) \/ Stop(e)
        PROVE  CountTypes'
    BY <1>8, BoundAssumption DEF Publish, Stop
  <1>9. CASE Crash
    BY <1>9, BoundAssumption DEF Crash
  <1>10. CASE UNCHANGED vars
    BY <1>10 DEF vars
  <1> QED
    BY <1>1, <1>2, <1>3, <1>4, <1>5, <1>6, <1>7, <1>8, <1>9, <1>10 DEF Next, Writes, Reads

\* A change of u's rows overtakes the counts of u that wait to be stored.
LEMMA WriteOvertakes ==
  ASSUME CountsInv, NEW u \in Users, NEW S, NEW T, Write(u, S, T), UNCHANGED got,
         \A c \in Calls : pc'[c] = "set" => pc[c] = "set"
  PROVE  /\ \A c \in Calls : pc'[c] = "set" /\ c \notin overtaken' => got'[c] = Count(Who[c])'
         /\ \A v \in Users \ {u} : Count(v)' = Count(v)
  <1>1. \A v \in Users \ {u} : Count(v)' = Count(v)
    BY DEF Write, CountsInv, CountTypes, Count
  <1>2. unread'[u] = T
    BY DEF Write, CountsInv, CountTypes
  <1>3. overtaken \subseteq overtaken'
    BY DEF Write
  <1>4. T = unread[u] \/ \A c \in Calls : pc[c] = "set" /\ Who[c] = u => c \in overtaken'
    BY DEF Write
  <1>5. T = unread[u] => Count(u)' = Count(u)
    BY <1>2 DEF Count
  <1> QED
    BY <1>1, <1>3, <1>4, <1>5, WhoAssumption DEF CountsInv

\* Every step keeps the counts explained.
LEMMA NextCounts == CountsInv /\ [Next]_vars => CountsInv'
  <1> SUFFICES ASSUME CountsInv, [Next]_vars
               PROVE  CountsInv'
    OBVIOUS
  <1>0. CountTypes' /\ CountTypes
    BY NextCountTypes DEF CountsInv
  <1>a. faults \in Nat /\ faults' \in Nat /\ \A c \in Calls : Who[c] \in Users
    BY <1>0, WhoAssumption DEF CountTypes
  <1> DEFINE Right(c) == pc[c] = "set" /\ c \notin overtaken => got[c] = Count(Who[c])
             Told(u)  == Wrong(u) => Invalidating(u) \/ u \in tainted \cup bypassed
  <1>1. ASSUME NEW c \in Calls,
               Create(c) \/ MarkAllAsRead(c) \/
                 ((MarkAsRead(c) \/ DeleteRow(c)) /\ item[c] \in stored[Who[c]])
        PROVE  CountsInv'
    <2>1. PICK S, T : Write(Who[c], S, T)
      BY <1>1 DEF Create, MarkAllAsRead, MarkAsRead, DeleteRow, Change
    <2>2. /\ UNCHANGED <<got, cache, tainted, bypassed, faults>> /\ pc'[c] = "del"
          /\ \A b \in Calls \ {c} : pc'[b] = pc[b]
      BY <1>0, <1>1 DEF Create, MarkAllAsRead, MarkAsRead, DeleteRow, Change, Goto, Answered, locals,
                        CountTypes
    <2>3. /\ \A b \in Calls : Right(b)'
          /\ \A v \in Users \ {Who[c]} : Count(v)' = Count(v)
      BY <1>a, <2>1, <2>2, WriteOvertakes
    <2>4. Invalidating(Who[c])' /\ \A v \in Users : Invalidating(v) => Invalidating(v)'
      <3>1. pc[c] # "del"
        BY <1>1 DEF Create, MarkAllAsRead, MarkAsRead, DeleteRow, Change, Goto
      <3> QED
        BY <2>2, <3>1 DEF Invalidating
    <2>5. ASSUME faults' = 0, NEW u \in Users
          PROVE  Told(u)'
      BY <2>2, <2>3, <2>4, <2>5 DEF CountsInv, WrongCountExplained, Wrong
    <2> QED
      BY <1>0, <2>3, <2>5 DEF CountsInv, WrongCountExplained
  <1>2. ASSUME UNCHANGED <<unread, cache, tainted, bypassed>>, overtaken' = overtaken, faults' >= faults,
               \A c \in Calls : pc'[c] = "set" => (pc[c] = "set" /\ got'[c] = got[c]) \/ got'[c] = Count(Who[c]),
               \A c \in Calls : pc[c] = "del" => pc'[c] = "del" \/ faults' > faults
        PROVE  CountsInv'
    <2>1. \A u \in Users : Count(u)' = Count(u)
      BY <1>2 DEF Count
    <2>2. \A c \in Calls : Right(c)'
      BY <1>a, <1>2, <2>1 DEF CountsInv
    <2>3. ASSUME faults' = 0, NEW u \in Users
          PROVE  Told(u)'
      <3>1. faults = 0 /\ \A c \in Calls : pc[c] = "del" => pc'[c] = "del"
        BY <1>a, <1>2, <2>3
      <3>2. Told(u)
        BY <3>1 DEF CountsInv, WrongCountExplained
      <3> QED
        BY <1>2, <2>1, <3>1, <3>2 DEF Wrong, Invalidating
    <2> QED
      BY <1>0, <2>2, <2>3 DEF CountsInv, WrongCountExplained
  <1>3. ASSUME NEW c \in Calls,
               (MarkAsRead(c) \/ DeleteRow(c)) /\ item[c] \notin stored[Who[c]]
        PROVE  CountsInv'
    <2>1. /\ UNCHANGED <<unread, cache, tainted, bypassed, overtaken, faults, got>>
          /\ pc'[c] = "error" /\ pc[c] # "del" /\ \A b \in Calls \ {c} : pc'[b] = pc[b]
      BY <1>0, <1>3 DEF MarkAsRead, DeleteRow, Change, Goto, Answered, rows, locals, CountTypes
    <2> QED
      BY <1>2, <1>a, <2>1
  <1>4. ASSUME NEW c \in Calls, Peek(c) \/ CountRows(c) \/ Reject(c) \/ \E i \in Items : Find(c, i)
        PROVE  CountsInv'
    <2>1. /\ UNCHANGED <<unread, cache, tainted, bypassed, overtaken>> /\ faults' >= faults
          /\ pc[c] # "del" /\ \A b \in Calls \ {c} : pc'[b] = pc[b] /\ got'[b] = got[b]
          /\ pc'[c] = "set" => got'[c] = Count(Who[c])
      BY <1>0, <1>4 DEF Peek, CountRows, Reject, Find, Goto, Answered, Rejected, rows, locals, history,
                        CountTypes
    <2> QED
      BY <1>2, <2>1
  <1>5. ASSUME NEW e \in Events, Publish(e) \/ Stop(e)
        PROVE  CountsInv'
    <2>1. UNCHANGED <<unread, cache, tainted, bypassed, overtaken, pc, got>> /\ faults' >= faults
      BY <1>a, <1>5 DEF Publish, Stop, Rejected, rows, locals, history
    <2> QED
      BY <1>2, <2>1
  <1>6. ASSUME NEW c \in Calls, Del(c)
        PROVE  CountsInv'
    <2>1. /\ UNCHANGED <<unread, got, overtaken>> /\ pc[c] = "del" /\ pc'[c] = "done"
          /\ \A b \in Calls \ {c} : pc'[b] = pc[b]
      BY <1>0, <1>6 DEF Del, Goto, rows, locals, CountTypes
    <2>2. \A u \in Users : Count(u)' = Count(u)
      BY <2>1 DEF Count
    <2>3. \A b \in Calls : Right(b)'
      BY <1>a, <2>1, <2>2 DEF CountsInv
    <2>4. ASSUME faults' = 0, NEW u \in Users
          PROVE  Told(u)'
      <3>1. /\ faults = 0 /\ cache' = [cache EXCEPT ![Who[c]] = Miss]
            /\ tainted' = tainted \ {Who[c]} /\ bypassed' = bypassed \ {Who[c]}
        BY <1>a, <1>6, <2>4 DEF Del, Answered, Rejected, Fresh
      <3>2. CASE u = Who[c]
        BY <1>0, <1>a, <3>1, <3>2 DEF Wrong, CountTypes
      <3>3. CASE u # Who[c]
        <4>1. Told(u) /\ cache'[u] = cache[u]
          BY <1>0, <3>1, <3>3 DEF CountsInv, WrongCountExplained, CountTypes
        <4>2. Invalidating(u) => Invalidating(u)'
          BY <2>1, <3>3 DEF Invalidating
        <4> QED
          BY <2>2, <3>1, <3>3, <4>1, <4>2 DEF Wrong
      <3> QED
        BY <3>2, <3>3
    <2> QED
      BY <1>0, <2>3, <2>4 DEF CountsInv, WrongCountExplained
  <1>7. ASSUME NEW c \in Calls, Set(c)
        PROVE  CountsInv'
    <2>1. /\ UNCHANGED <<unread, got, overtaken>> /\ pc[c] = "set" /\ pc'[c] = "done"
          /\ \A b \in Calls \ {c} : pc'[b] = pc[b]
      BY <1>0, <1>7 DEF Set, Goto, rows, locals, CountTypes
    <2>2. \A u \in Users : Count(u)' = Count(u)
      BY <2>1 DEF Count
    <2>3. \A b \in Calls : Right(b)'
      BY <1>a, <2>1, <2>2 DEF CountsInv
    <2>4. \A u \in Users : Invalidating(u) => Invalidating(u)'
      BY <2>1 DEF Invalidating
    <2>5. ASSUME faults' = 0, NEW u \in Users
          PROVE  Told(u)'
      <3>1. /\ faults = 0 /\ cache' = [cache EXCEPT ![Who[c]] = got[c]]
            /\ tainted' = IF c \in overtaken THEN tainted \cup {Who[c]} ELSE tainted \ {Who[c]}
            /\ bypassed' = bypassed \ {Who[c]}
        BY <1>a, <1>7, <2>5 DEF Set, Answered, Rejected
      <3>2. CASE u = Who[c]
        <4>1. cache'[u] = got[c] /\ (c \in overtaken \/ got[c] = Count(u))
          BY <1>0, <1>a, <2>1, <3>1, <3>2 DEF CountsInv, CountTypes
        <4> QED
          BY <2>2, <3>1, <3>2, <4>1 DEF Wrong
      <3>3. CASE u # Who[c]
        <4>1. Told(u) /\ cache'[u] = cache[u]
          BY <1>0, <3>1, <3>3 DEF CountsInv, WrongCountExplained, CountTypes
        <4> QED
          BY <2>2, <2>4, <3>1, <3>3, <4>1 DEF Wrong
      <3> QED
        BY <3>2, <3>3
    <2> QED
      BY <1>0, <2>3, <2>5 DEF CountsInv, WrongCountExplained
  <1>8. ASSUME NEW v \in Users, Expire(v)
        PROVE  CountsInv'
    <2>1. /\ UNCHANGED <<unread, pc, got, overtaken, faults>> /\ cache' = [cache EXCEPT ![v] = Miss]
          /\ tainted' = tainted \ {v} /\ bypassed' = bypassed \ {v}
      BY <1>8 DEF Expire, Fresh, rows, locals
    <2>2. \A u \in Users : Count(u)' = Count(u) /\ Invalidating(u)' = Invalidating(u)
      BY <2>1 DEF Count, Invalidating
    <2>3. cache'[v] = Miss /\ \A u \in Users \ {v} : cache'[u] = cache[u]
      BY <1>0, <2>1 DEF CountTypes
    <2>4. ASSUME faults = 0, NEW u \in Users
          PROVE  Told(u)'
      BY <2>1, <2>2, <2>3, <2>4 DEF CountsInv, WrongCountExplained, Wrong
    <2>5. \A b \in Calls : Right(b)'
      BY <1>a, <2>1, <2>2 DEF CountsInv
    <2> QED
      BY <1>0, <2>1, <2>4, <2>5 DEF CountsInv, WrongCountExplained
  <1>9. ASSUME NEW e \in Events, Deliver(e)
        PROVE  CountsInv'
    <2>1. PICK v \in Users : /\ Write(v, stored[v] \cup {<<e, v>>}, unread[v] \cup {<<e, v>>})
                           /\ bypassed' = IF cache[v] = Miss THEN bypassed ELSE bypassed \cup {v}
      BY <1>9 DEF Deliver
    <2>2. UNCHANGED <<cache, pc, got, tainted, faults>>
      BY <1>9 DEF Deliver, Answered, locals
    <2>3. /\ \A b \in Calls : Right(b)'
          /\ \A u \in Users \ {v} : Count(u)' = Count(u)
      BY <2>1, <2>2, WriteOvertakes
    <2>4. ASSUME faults = 0, NEW u \in Users
          PROVE  Told(u)'
      BY <2>1, <2>2, <2>3, <2>4 DEF CountsInv, WrongCountExplained, Wrong, Invalidating
    <2> QED
      BY <1>0, <2>2, <2>3, <2>4 DEF CountsInv, WrongCountExplained
  <1>10. CASE Crash
    <2>1. /\ UNCHANGED <<unread, got, overtaken>> /\ faults' > 0
          /\ \A c \in Calls : pc'[c] # "set" \/ pc'[c] = pc[c]
      BY <1>a, <1>10 DEF Crash, Rejected, InFlight, rows, locals
    <2>2. \A u \in Users : Count(u)' = Count(u)
      BY <2>1 DEF Count
    <2>3. \A b \in Calls : Right(b)'
      BY <1>a, <2>1, <2>2 DEF CountsInv
    <2> QED
      BY <1>0, <1>a, <2>1, <2>3 DEF CountsInv, WrongCountExplained
  <1>11. CASE UNCHANGED vars
    <2>1. UNCHANGED <<unread, cache, tainted, bypassed, overtaken, pc, got, faults>>
      BY <1>11 DEF vars, rows, locals, history
    <2> QED
      BY <1>2, <1>a, <2>1
  <1> QED
    BY <1>1, <1>3, <1>4, <1>5, <1>6, <1>7, <1>8, <1>9, <1>10, <1>11 DEF Next, Writes, Reads

\* While no call fails and the process runs, a cached count is wrong only until the write
\* that changed it deletes the key, behind an event, or by a reader that was overtaken
\* (notifications.service.ts:87, 97; notification.handler.ts:23).
THEOREM WrongCounts == Spec => []WrongCountExplained
  <1>1. Init => CountsInv
    <2> SUFFICES ASSUME Init
                 PROVE  CountsInv
      OBVIOUS
    <2>1. CountTypes
      BY DEF Init, CountTypes, CallPc, Items
    <2> QED
      BY <2>1 DEF Init, CountsInv, WrongCountExplained, Wrong
  <1>2. CountsInv => WrongCountExplained
    BY DEF CountsInv
  <1> QED
    BY <1>1, <1>2, NextCounts, PTL DEF Spec

=================================================================================
