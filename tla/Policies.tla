-------------------------------- MODULE Policies -------------------------------
(***************************************************************************)
(* PoliciesService and GapsService: the policies of an organization, which *)
(* are edited and deleted by calls that read and then write, and the       *)
(* knowledge gaps a detection finds in them, in the graph and among the    *)
(* documents, which a human resolves.                                      *)
(***************************************************************************)
EXTENDS Integers, FiniteSets

CONSTANTS
  PolicyIds, Edits,      \* policies of one category; requests to edit or delete one
  Detections, Resolves,  \* requests to detect gaps, to resolve one
  Found                  \* what the graph and the documents may show: <<category, ids>>

VARIABLES
  version, content, enforced, gone,  \* of each policy: its version, the edit that wrote its
                                     \* content, isActive, deletedAt
  editPc, edit, seen,                \* of each edit: step, <<policy, what>>, the version it read
  gap,                               \* of each key: "none", "open", "resolved"
  detPc, found, toUpsert,            \* of each detection: step, what it read, what is left to write
  resPc, resKey,                     \* of each resolve: step and row
  named, blind, dismissed            \* history: versions with their contents; edits that wrote over
                                     \* one they had not read; rows a human resolved

policyRows  == <<version, content, enforced, gone>>
policyCalls == <<editPc, edit, seen, named, blind>>
gapCalls    == <<gap, detPc, found, toUpsert, resPc, resKey, dismissed>>
policyVars  == <<policyRows, policyCalls, gapCalls>>

Original == "original"
Conflict(p, q) == <<"policy_conflict", {p, q}>>
Conflicts == {Conflict(p, q) : p, q \in PolicyIds} \ {Conflict(p, p) : p \in PolicyIds}
\* The key of a finding: its category and the id of what it is about.  Findings of
\* one category without an id share a row.
Keys == Conflicts \cup Found
What == {"content", "title", "activate", "deactivate", "delete"}

PoliciesInit ==
  /\ version = [p \in PolicyIds |-> 1] /\ content = [p \in PolicyIds |-> Original]
  /\ enforced = [p \in PolicyIds |-> TRUE] /\ gone = [p \in PolicyIds |-> FALSE]
  /\ editPc = [e \in Edits |-> "idle"] /\ edit = [e \in Edits |-> <<>>]
  /\ seen = [e \in Edits |-> 0]
  /\ gap = [k \in Keys |-> "none"]
  /\ detPc = [d \in Detections |-> "idle"]
  /\ found = [d \in Detections |-> {}] /\ toUpsert = [d \in Detections |-> {}]
  /\ resPc = [r \in Resolves |-> "idle"] /\ resKey = [r \in Resolves |-> <<>>]
  /\ named = {<<p, 1, Original>> : p \in PolicyIds} /\ blind = {} /\ dismissed = {}

----------------------------------------------------------------------------
(* policies *)

\* findFirst of update and of delete, neither of which asks for deletedAt.
FindPolicy(e) ==
  /\ editPc[e] = "idle" /\ editPc' = [editPc EXCEPT ![e] = "write"]
  /\ \E p \in PolicyIds, w \in What :
       edit' = [edit EXCEPT ![e] = <<p, w>>] /\ seen' = [seen EXCEPT ![e] = version[p]]
  /\ UNCHANGED <<policyRows, named, blind, gapCalls>>

\* Mutant: only a new title counts.
NextVersionOfTitle(v, w) == IF w = "title" THEN v + 1 ELSE v

NextVersion(v, w) == IF w = "content" THEN v + 1 ELSE v

\* Any update writes the version, the one it read or the next.
WritePolicy(e) ==
  LET p == edit[e][1]  w == edit[e][2] IN
  /\ editPc[e] = "write" /\ w # "delete" /\ editPc' = [editPc EXCEPT ![e] = "done"]
  /\ version' = [version EXCEPT ![p] = NextVersion(seen[e], w)]
  /\ content' = IF w = "content" THEN [content EXCEPT ![p] = e] ELSE content
  /\ enforced' = [enforced EXCEPT ![p] = IF w = "activate" THEN TRUE
                                         ELSE IF w = "deactivate" THEN FALSE ELSE @]
  /\ named' = named \cup {<<p, version'[p], content'[p]>>}
  /\ blind' = IF seen[e] = version[p] THEN blind ELSE blind \cup {e}
  /\ UNCHANGED <<gone, edit, seen, gapCalls>>

DeletePolicy(e) ==
  LET p == edit[e][1] IN
  /\ editPc[e] = "write" /\ edit[e][2] = "delete" /\ editPc' = [editPc EXCEPT ![e] = "done"]
  /\ enforced' = [enforced EXCEPT ![p] = FALSE] /\ gone' = [gone EXCEPT ![p] = TRUE]
  /\ UNCHANGED <<version, content, edit, seen, named, blind, gapCalls>>

----------------------------------------------------------------------------
(* gaps *)

\* Pairs of active policies of the category, each pair once whatever its order.
ConflictingPolicies ==
  {Conflict(p, q) : p, q \in {x \in PolicyIds : enforced[x] /\ ~gone[x]}}
    \ {Conflict(p, p) : p \in PolicyIds}

OfCategory(c) == {f \in Found : f[1] = c}
\* A query of the graph that fails finds nothing.
UndocumentedServices == SUBSET OfCategory("documentation")
OrphanRepositories   == SUBSET OfCategory("ownership")
StaleDocuments       == SUBSET OfCategory("stale_content")
MissingOwnership     == SUBSET OfCategory("ownership")

\* The five queries, of which only the policies are rows of this module.
Detect(d) ==
  /\ detPc[d] = "idle" /\ detPc' = [detPc EXCEPT ![d] = "upsert"]
  /\ \E s \in UndocumentedServices, o \in OrphanRepositories, x \in StaleDocuments,
        m \in MissingOwnership :
       /\ found' = [found EXCEPT ![d] = ConflictingPolicies \cup s \cup o \cup x \cup m]
       /\ toUpsert' = [toUpsert EXCEPT ![d] = found'[d]]
  /\ UNCHANGED <<policyRows, policyCalls, gap, resPc, resKey, dismissed>>

\* Mutant: an update opens the row again.
RefreshedOpens(row) == "open"

\* An update leaves resolvedAt alone.
Refreshed(row) == IF row = "none" THEN "open" ELSE row

\* The upserts run side by side.
Upsert(d) ==
  /\ detPc[d] = "upsert"
  /\ \E k \in toUpsert[d] :
       /\ gap' = [gap EXCEPT ![k] = Refreshed(@)]
       /\ toUpsert' = [toUpsert EXCEPT ![d] = @ \ {k}]
  /\ UNCHANGED <<policyRows, policyCalls, detPc, found, resPc, resKey, dismissed>>

AnswerDetect(d) ==
  /\ detPc[d] = "upsert" /\ toUpsert[d] = {} /\ detPc' = [detPc EXCEPT ![d] = "done"]
  /\ UNCHANGED <<policyRows, policyCalls, gap, found, toUpsert, resPc, resKey, dismissed>>

\* A query of the documents or policies that is rejected, before any upsert.
DetectRejected(d) ==
  /\ detPc[d] = "idle" /\ detPc' = [detPc EXCEPT ![d] = "error"]
  /\ UNCHANGED <<policyRows, policyCalls, gap, found, toUpsert, resPc, resKey, dismissed>>

\* An upsert that is rejected: the answer is an error, and the others go on.
UpsertRejected(d) ==
  /\ detPc[d] \in {"upsert", "failing"} /\ detPc' = [detPc EXCEPT ![d] = "failing"]
  /\ \E k \in toUpsert[d] : toUpsert' = [toUpsert EXCEPT ![d] = @ \ {k}]
  /\ UNCHANGED <<policyRows, policyCalls, gap, found, resPc, resKey, dismissed>>

UpsertOn(d) ==
  /\ detPc[d] = "failing"
  /\ \E k \in toUpsert[d] :
       /\ gap' = [gap EXCEPT ![k] = Refreshed(@)]
       /\ toUpsert' = [toUpsert EXCEPT ![d] = @ \ {k}]
  /\ UNCHANGED <<policyRows, policyCalls, detPc, found, resPc, resKey, dismissed>>

FindGap(r) ==
  /\ resPc[r] = "idle"
  /\ \E k \in {x \in Keys : gap[x] # "none"} :
       resKey' = [resKey EXCEPT ![r] = k] /\ resPc' = [resPc EXCEPT ![r] = "write"]
  /\ UNCHANGED <<policyRows, policyCalls, gap, detPc, found, toUpsert, dismissed>>

ResolveGap(r) ==
  /\ resPc[r] = "write" /\ resPc' = [resPc EXCEPT ![r] = "done"]
  /\ gap' = [gap EXCEPT ![resKey[r]] = "resolved"]
  /\ dismissed' = dismissed \cup {resKey[r]}
  /\ UNCHANGED <<policyRows, policyCalls, detPc, found, toUpsert, resKey>>

PoliciesNext ==
  \/ \E e \in Edits : FindPolicy(e) \/ WritePolicy(e) \/ DeletePolicy(e)
  \/ \E d \in Detections :
       Detect(d) \/ Upsert(d) \/ AnswerDetect(d) \/ DetectRejected(d) \/ UpsertRejected(d)
         \/ UpsertOn(d)
  \/ \E r \in Resolves : FindGap(r) \/ ResolveGap(r)

PoliciesSpec == PoliciesInit /\ [][PoliciesNext]_policyVars

----------------------------------------------------------------------------
(* Properties *)

\* A version number of a policy stands for one content, unless an update had read a
\* version that was no longer the policy's when it wrote: even one of the title puts
\* the older number back (policies.service.ts:103).
VersionNamesContent ==
  blind = {} => \A x, y \in named : x[1] = y[1] /\ x[2] = y[2] => x[3] = y[3]

\* However detections, edits and resolves overlap, a gap a human resolved stays so; a
\* detection that answers has a row for whatever it found; and a row is of something
\* some detection found, a conflict of two policies that were both active when it read
\* them (gaps.service.ts:36, 39, 125).
GapsMatchFindings ==
  /\ \A k \in dismissed : gap[k] = "resolved"
  /\ \A d \in Detections : detPc[d] = "done" => \A k \in found[d] : gap[k] # "none"
  /\ \A k \in Keys : gap[k] # "none" => \E d \in Detections : k \in found[d]

==============================================================================
