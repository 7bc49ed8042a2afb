---------------------------- MODULE ConnectorSync -----------------------------
(***************************************************************************)
(* ConnectorsService.sync of one connector, with its deletion: the run     *)
(* row, the documents and chunk rows a run persists, and lastSyncAt.       *)
(* Nothing excludes two runs at once, and nothing matches a document with  *)
(* the one an earlier run made of the same source.                         *)
(***************************************************************************)
EXTENDS Integers, FiniteSets

CONSTANTS
  Runs,       \* requests for a sync
  Items,      \* what the source has
  MaxFaults   \* bound: failed calls and restarts

ASSUME BoundAssumption == MaxFaults \in Nat
ASSUME ItemsAssumption == IsFiniteSet(Items)

VARIABLES
  deleted,         \* the connector's deletedAt is set
  lastSync,        \* the run that wrote lastSyncAt last, or {}
  status, synced,  \* of each run row: its status, its documentsSynced
  document,        \* <<r, i>>: run r made an INDEXED document of item i
  chunked,         \* documents with chunk rows
  pc, todo,        \* of each run: its step, the documents it has yet to persist
  faults,
  early,           \* history: runs that had found the connector when it was deleted
  after            \* history: documents made after the deletion

rows    == <<deleted, lastSync, status, synced, document, chunked>>
history == <<early, after>>
vars    == <<rows, pc, todo, faults, history>>

Docs     == Runs \X Items
Statuses == {"none", "RUNNING", "COMPLETED", "FAILED"}
Ended    == {"done", "denied", "error", "threw", "stuck", "lost"}
RunPc    == {"idle", "create", "fetch", "document", "chunks", "complete", "stamp", "fail"} \cup Ended
InFlight(r) == pc[r] \notin Ended \cup {"idle"}
DocsOf(r)   == {d \in document : d[1] = r}

Init ==
  /\ deleted = FALSE /\ lastSync = {}
  /\ status = [r \in Runs |-> "none"] /\ synced = [r \in Runs |-> 0]
  /\ document = {} /\ chunked = {}
  /\ pc = [r \in Runs |-> "idle"] /\ todo = [r \in Runs |-> {}]
  /\ faults = 0 /\ early = {} /\ after = {}

Goto(r, from, to) == pc[r] = from /\ pc' = [pc EXCEPT ![r] = to]
Answered == UNCHANGED faults
Rejected == faults < MaxFaults /\ faults' = faults + 1

----------------------------------------------------------------------------
(* sync *)

\* assertOwned; isEnabled is not asked.
Request(r) ==
  /\ Goto(r, "idle", IF deleted THEN "denied" ELSE "create") /\ Answered
  /\ UNCHANGED <<rows, todo, history>>

CreateRun(r) ==
  /\ Goto(r, "create", "fetch") /\ Answered
  /\ status' = [status EXCEPT ![r] = "RUNNING"]
  /\ UNCHANGED <<deleted, lastSync, synced, document, chunked, todo, history>>

\* syncAll answers the items it could fetch, any of them: ConnectorAdapters has which.
\* No adapter for the type, or one that throws, fails the run.
Fetch(r) ==
  /\ \/ \E S \in SUBSET Items :
          /\ Goto(r, "fetch", IF S = {} THEN "complete" ELSE "document")
          /\ todo' = [todo EXCEPT ![r] = S]
     \/ Goto(r, "fetch", "fail") /\ UNCHANGED todo
  /\ Answered /\ UNCHANGED <<rows, history>>

PersistDocument(r) ==
  /\ Goto(r, "document", "chunks") /\ Answered
  /\ \E i \in todo[r] :
       /\ document' = document \cup {<<r, i>>}
       /\ after' = IF deleted THEN after \cup {<<r, i>>} ELSE after
       /\ todo' = [todo EXCEPT ![r] = @ \ {i}]
  /\ UNCHANGED <<deleted, lastSync, status, synced, chunked, early>>

\* Mutant: the chunk rows of a document whose content is known are left out.
PersistChunksOnce(r) ==
  /\ Goto(r, "chunks", IF todo[r] = {} THEN "complete" ELSE "document") /\ Answered
  /\ chunked' = IF \E d \in chunked, e \in DocsOf(r) \ chunked : d[2] = e[2] THEN chunked
                ELSE chunked \cup DocsOf(r)
  /\ UNCHANGED <<deleted, lastSync, status, synced, document, todo, history>>

PersistChunks(r) ==
  /\ Goto(r, "chunks", IF todo[r] = {} THEN "complete" ELSE "document") /\ Answered
  /\ chunked' = chunked \cup DocsOf(r)
  /\ UNCHANGED <<deleted, lastSync, status, synced, document, todo, history>>

\* Mutant: the update names the connector's runs.
CompleteAll(r) ==
  /\ Goto(r, "complete", "stamp") /\ Answered
  /\ status' = [o \in Runs |-> IF status[o] = "none" THEN "none" ELSE "COMPLETED"]
  /\ synced' = [synced EXCEPT ![r] = Cardinality(DocsOf(r))]
  /\ UNCHANGED <<deleted, lastSync, document, chunked, todo, history>>

Complete(r) ==
  /\ Goto(r, "complete", "stamp") /\ Answered
  /\ status' = [status EXCEPT ![r] = "COMPLETED"]
  /\ synced' = [synced EXCEPT ![r] = Cardinality(DocsOf(r))]
  /\ UNCHANGED <<deleted, lastSync, document, chunked, todo, history>>

Stamp(r) ==
  /\ Goto(r, "stamp", "done") /\ Answered
  /\ lastSync' = {r}
  /\ UNCHANGED <<deleted, status, synced, document, chunked, todo, history>>

\* A rejected call inside the try block.
TryRejected(r) ==
  /\ \E from \in {"document", "chunks", "complete", "stamp"} : Goto(r, from, "fail")
  /\ Rejected /\ UNCHANGED <<rows, todo, history>>

\* Mutant: the catch block only logs.
FailLogs(r) ==
  /\ Goto(r, "fail", "threw") /\ Answered
  /\ UNCHANGED <<rows, todo, history>>

\* The catch block, whatever the row says by now.
Fail(r) ==
  /\ Goto(r, "fail", "threw") /\ Answered
  /\ status' = [status EXCEPT ![r] = "FAILED"]
  /\ UNCHANGED <<deleted, lastSync, synced, document, chunked, todo, history>>

\* A rejected call outside it.
Throw(r) ==
  /\ Goto(r, "idle", "error") \/ Goto(r, "create", "error") \/ Goto(r, "fail", "stuck")
  /\ Rejected /\ UNCHANGED <<rows, todo, history>>

Sync(r) ==
  \/ CreateRun(r) \/ Fetch(r) \/ PersistDocument(r) \/ PersistChunks(r)
  \/ Complete(r) \/ Stamp(r) \/ TryRejected(r) \/ Fail(r) \/ Throw(r)

----------------------------------------------------------------------------
(* delete, and the end of the process *)

Delete ==
  /\ ~deleted /\ deleted' = TRUE
  /\ early' = {r \in Runs : InFlight(r)}
  /\ UNCHANGED <<lastSync, status, synced, document, chunked, pc, todo, faults, after>>

Crash ==
  /\ Rejected
  /\ pc' = [r \in Runs |-> IF InFlight(r) THEN "lost" ELSE pc[r]]
  /\ UNCHANGED <<rows, todo, history>>

Next ==
  \/ \E r \in Runs : Request(r) \/ Sync(r)
  \/ Delete
  \/ Crash

\* A promise the code awaits is settled in the end; the adapters' requests have
\* an end of their own.
Fairness == \A r \in Runs : WF_vars(Sync(r))

Spec == Init /\ [][Next]_vars /\ Fairness
----------------------------------------------------------------------------
(* Properties *)

TypeOK ==
  /\ deleted \in BOOLEAN /\ lastSync \subseteq Runs /\ Cardinality(lastSync) <= 1
  /\ status \in [Runs -> Statuses] /\ synced \in [Runs -> 0 .. Cardinality(Items)]
  /\ document \subseteq Docs /\ chunked \subseteq document
  /\ pc \in [Runs -> RunPc] /\ todo \in [Runs -> SUBSET Items]
  /\ faults \in 0 .. MaxFaults /\ early \subseteq Runs /\ after \subseteq document

\* A COMPLETED run counts the documents it left, each with its chunk rows; a run
\* that ended otherwise leaves one document without them at most, INDEXED as it is
\* (connectors.service.ts:137, 256, 280).
RunsCountWhatTheyLeft ==
  \A r \in Runs :
    /\ status[r] = "COMPLETED" => synced[r] = Cardinality(DocsOf(r)) /\ DocsOf(r) \subseteq chunked
    /\ Cardinality(DocsOf(r) \ chunked) <= 1
    /\ DocsOf(r) \ chunked # {} => pc[r] \in {"chunks", "fail", "threw", "stuck", "lost"}

\* The status of a run that ended stays, except that a run whose lastSyncAt could
\* not be written turns from COMPLETED to FAILED, its documents and count in place
\* (connectors.service.ts:152, 163).
OutcomesStay ==
  [][\A r \in Runs : status[r] \in {"COMPLETED", "FAILED"} =>
       \/ status'[r] = status[r]
       \/ status'[r] = "FAILED" /\ pc[r] = "fail" /\ faults > 0 /\ r \notin lastSync]_vars

\* lastSyncAt is of a run that completed and stays so, however runs overlap
\* (connectors.service.ts:152).
LastSyncCompleted == \A r \in lastSync : status[r] = "COMPLETED" /\ pc[r] = "done"

\* A document that appears after the connector's deletion is of a run that had
\* found the connector before (connectors.service.ts:110, 130).
LateDocumentsOfEarlyRuns == \A d \in after : d[1] \in early

\* Whatever overlaps, the rows agree with each other: the runs with the documents and
\* chunks, lastSyncAt with the runs, the deletion with both.
SyncRowsAgree == RunsCountWhatTheyLeft /\ LastSyncCompleted /\ LateDocumentsOfEarlyRuns

\* A run does not stay RUNNING for ever, unless the process died in it or the
\* catch block's own update was rejected (connectors.service.ts:163).
RunningEnds ==
  \A r \in Runs : status[r] = "RUNNING" ~> (status[r] # "RUNNING" \/ pc[r] \in {"stuck", "lost"})

==============================================================================
