--------------------------- MODULE DocumentPipeline ---------------------------
(***************************************************************************)
(* DocumentsService with the parts of SearchService it drives: creation    *)
(* and upload, processDocument, soft deletion, and the four stores they    *)
(* write (PostgreSQL, Qdrant, OpenSearch, Neo4j).                          *)
(*                                                                         *)
(* Every call of the service is a process of the Node event loop: it runs  *)
(* to its next await and resumes when the store has answered.  One action  *)
(* is one such answer with the code up to the next await, so the actions   *)
(* interleave as the awaits let them.  Nothing in the code excludes two    *)
(* runs of processDocument for one document.                               *)
(*                                                                         *)
(* Content is abstracted to the number of chunks it makes and to the run   *)
(* that read it: a chunk row, a point of Qdrant and an entry of OpenSearch *)
(* hold the run that wrote them.                                           *)
(***************************************************************************)
EXTENDS Integers, FiniteSets

CONSTANTS
  Docs,          \* documents
  Jobs,          \* requests for a run of processDocument
  Deletes,       \* requests for a delete
  Target,        \* Target[r]: the document that request r is about
  NoJob,         \* marks a chunk id nobody has written
  SearchLimit,   \* the page deleteQdrantChunks lists: 100 in the code
  MaxChunks,     \* bound: the most chunks one content is split into
  MaxFaults      \* bound: rejected calls and restarts in one behaviour

ASSUME RequestAssumption == Target \in [Jobs \cup Deletes -> Docs]
ASSUME NoJobAssumption   == NoJob \notin Jobs
ASSUME BoundsAssumption  == /\ MaxChunks \in Nat \ {0} /\ SearchLimit \in Nat \ {0}
                            /\ MaxFaults \in Nat

VARIABLES
  row,         \* row[d]: the Document row, or status "absent"
  chunk,       \* chunk[d][i]: the run that wrote row d_chunk_i, or NoJob
  point,       \* point[d][i]: the same for Qdrant's points
  entry,       \* entry[d][i]: the same for OpenSearch
  node,        \* documents with a Document node in Neo4j
  entity,      \* documents with an auto-extracted entity node in Neo4j
  keywordUp,   \* OpenSearchService.available: decided when the process boots
  creating,    \* documents inserted by a create that has not returned
  pc, len,     \* of each run: its next step, the chunks it has stored
  dpc, found,  \* of each delete: its next step, the ids it has listed
  faults,      \* rejected calls and restarts so far
  overlapped,  \* history: documents two runs were in flight for at once
  before       \* history: before[c], the runs done with the indexes when
               \* delete c purged them, {} when a call of the purge failed

stores == <<row, chunk, point, entry, node, entity>>
runs   == <<pc, len>>
calls  == <<dpc, found, before>>
vars   == <<stores, runs, calls, keywordUp, creating, faults, overlapped>>

Index    == 0 .. MaxChunks - 1
Contents == 1 .. MaxChunks          \* chunkDocument makes one chunk at least
Writers  == Jobs \cup {NoJob}
Empty    == [i \in Index |-> NoJob]
\* The slots after run j wrote chunks 0 .. n - 1 over what was there.
Written(old, n, j) == [i \in Index |-> IF i < n THEN j ELSE old[i]]

Status  == {"absent", "PENDING", "PROCESSING", "INDEXED", "FAILED", "DELETED"}
Ended   == {"done", "failed", "threw", "lost"}
Working == {"vector", "keyword", "graph", "finish"}
JobPc   == {"idle", "mark", "clear", "store", "fail"} \cup Working \cup Ended
DelPc   == {"idle", "graph", "list", "points", "keyword", "done", "lost"}

Exists(d)   == row[d].status # "absent"
InFlight(j) == pc[j] \notin Ended \cup {"idle"}
Busy(d)     == \E j \in Jobs : InFlight(j) /\ Target[j] = d

Init ==
  /\ row = [d \in Docs |-> [status |-> "absent", deleted |-> FALSE]]
  /\ chunk = [d \in Docs |-> Empty] /\ point = chunk /\ entry = chunk
  /\ node = {} /\ entity = {} /\ creating = {} /\ overlapped = {}
  /\ keywordUp \in BOOLEAN
  /\ pc = [j \in Jobs |-> "idle"] /\ len = [j \in Jobs |-> 0]
  /\ dpc = [c \in Deletes |-> "idle"]
  /\ found = [c \in Deletes |-> {}] /\ before = found
  /\ faults = 0

\* The awaited call is answered, or rejected.
Answered == UNCHANGED faults
Rejected == faults < MaxFaults /\ faults' = faults + 1

----------------------------------------------------------------------------
(* Creation and upload *)

SetStatus(d, s) == row' = [row EXCEPT ![d].status = s]

Insert(d) ==
  /\ ~Exists(d)
  /\ SetStatus(d, "PENDING")
  /\ creating' = creating \cup {d}
  /\ UNCHANGED <<chunk, point, entry, node, entity, runs, calls, keywordUp,
                 faults, overlapped>>

\* A run of processDocument begins: nothing looks at the row's state.
Begin(j) ==
  /\ pc[j] = "idle"
  /\ pc' = [pc EXCEPT ![j] = "mark"]
  /\ overlapped' = IF Busy(Target[j]) THEN overlapped \cup {Target[j]} ELSE overlapped

\* Neo4j has answered, or failed, which create swallows.  POST /documents
\* returns; the upload endpoint begins a run that nobody waits for.
FinishCreate(d) ==
  /\ d \in creating
  /\ creating' = creating \ {d}
  /\ \/ Answered /\ node' = node \cup {d}
     \/ Rejected /\ UNCHANGED node
  /\ \/ UNCHANGED <<pc, overlapped>>
     \/ \E j \in Jobs : Target[j] = d /\ Begin(j)
  /\ UNCHANGED <<row, chunk, point, entry, entity, len, calls, keywordUp>>

RequestProcess(j) ==
  /\ Exists(Target[j])
  /\ Begin(j)
  /\ UNCHANGED <<stores, len, calls, keywordUp, creating, faults>>

----------------------------------------------------------------------------
(* processDocument, one await after another *)

Goto(j, from, to) == pc[j] = from /\ pc' = [pc EXCEPT ![j] = to]

\* Outside the try block a rejected call ends the run where it stands.
Throw(j) ==
  /\ \E from \in {"mark", "clear", "fail"} : Goto(j, from, "threw")
  /\ Rejected
  /\ UNCHANGED <<stores, len, calls, keywordUp, creating, overlapped>>

\* Mutant: marking writes the whole row, and with it deletedAt.
MarkRestores(j) ==
  /\ Goto(j, "mark", "clear") /\ Answered
  /\ row' = [row EXCEPT ![Target[j]] = [status |-> "PROCESSING", deleted |-> FALSE]]
  /\ UNCHANGED <<chunk, point, entry, node, entity, len, calls, keywordUp,
                 creating, overlapped>>

Mark(j) ==
  /\ Goto(j, "mark", "clear") /\ Answered
  /\ SetStatus(Target[j], "PROCESSING")
  /\ UNCHANGED <<chunk, point, entry, node, entity, len, calls, keywordUp,
                 creating, overlapped>>

Clear(j) ==
  /\ Goto(j, "clear", "store") /\ Answered
  /\ chunk' = [chunk EXCEPT ![Target[j]] = Empty]
  /\ UNCHANGED <<row, point, entry, node, entity, len, calls, keywordUp,
                 creating, overlapped>>

\* Mutant: createMany with skipDuplicates never rejects.
CollidesNever(d, n) == FALSE

\* createMany is one statement: an id that exists rejects all of it.
Collides(d, n) == \E i \in Index : i < n /\ chunk[d][i] # NoJob

Store(j) ==
  /\ \E n \in Contents :
       /\ ~Collides(Target[j], n)
       /\ len' = [len EXCEPT ![j] = n]
       /\ chunk' = [chunk EXCEPT ![Target[j]] = Written(@, n, j)]
  /\ Goto(j, "store", "vector") /\ Answered
  /\ UNCHANGED <<row, point, entry, node, entity, calls, keywordUp, creating,
                 overlapped>>

\* Mutant: chunkDocument swallows the error and returns the chunks it made.
StoreSwallowed(j) ==
  /\ \E n \in Contents :
       /\ Collides(Target[j], n)
       /\ point' = [point EXCEPT ![Target[j]] = Written(@, n, j)]
  /\ Goto(j, "store", "keyword") /\ Answered
  /\ UNCHANGED <<row, chunk, entry, node, entity, len, calls, keywordUp,
                 creating, overlapped>>

StoreRejected(j) ==
  /\ \/ Answered /\ \E n \in Contents : Collides(Target[j], n)
     \/ Rejected
  /\ Goto(j, "store", "fail")
  /\ UNCHANGED <<stores, len, calls, keywordUp, creating, overlapped>>

\* Qdrant takes the points, or fails and indexDocumentChunks goes on.
IndexPoints(j) ==
  /\ Goto(j, "vector", "keyword")
  /\ \/ Answered /\ point' = [point EXCEPT ![Target[j]] = Written(@, len[j], j)]
     \/ Rejected /\ UNCHANGED point
  /\ UNCHANGED <<row, chunk, entry, node, entity, len, calls, keywordUp,
                 creating, overlapped>>

\* The bulk call writes the items it does not refuse.
IndexEntries(j) ==
  /\ Goto(j, "keyword", "graph")
  /\ \E taken \in SUBSET {i \in Index : i < len[j]} :
       /\ IF keywordUp /\ taken # {i \in Index : i < len[j]}
            THEN Rejected
            ELSE Answered /\ (~keywordUp => taken = {})
       /\ entry' = [entry EXCEPT ![Target[j]] =
                      [i \in Index |-> IF i \in taken THEN j ELSE @[i]]]
  /\ UNCHANGED <<row, chunk, point, node, entity, len, calls, keywordUp,
                 creating, overlapped>>

ExtractEntity(j) ==
  /\ Goto(j, "graph", "finish")
  /\ \/ Answered /\ entity' = entity \cup {Target[j]}
     \/ Rejected /\ UNCHANGED entity
  /\ UNCHANGED <<row, chunk, point, entry, node, len, calls, keywordUp,
                 creating, overlapped>>

\* The last update of a run that went well, and its DocumentProcessed event.
Finish(j) ==
  /\ Goto(j, "finish", "done") /\ Answered
  /\ SetStatus(Target[j], "INDEXED")
  /\ UNCHANGED <<chunk, point, entry, node, entity, len, calls, keywordUp,
                 creating, overlapped>>

FinishRejected(j) ==
  /\ Goto(j, "finish", "fail") /\ Rejected
  /\ UNCHANGED <<stores, len, calls, keywordUp, creating, overlapped>>

\* Mutant: the catch block removes the document's chunk rows.
FailCleansUp(j) ==
  /\ Goto(j, "fail", "failed") /\ Answered
  /\ SetStatus(Target[j], "FAILED")
  /\ chunk' = [chunk EXCEPT ![Target[j]] = Empty]
  /\ UNCHANGED <<point, entry, node, entity, len, calls, keywordUp, creating,
                 overlapped>>

\* Mutant: the final update stands in a finally block.
FailFinishes(j) ==
  /\ Goto(j, "fail", "failed") /\ Answered
  /\ SetStatus(Target[j], "INDEXED")
  /\ UNCHANGED <<chunk, point, entry, node, entity, len, calls, keywordUp,
                 creating, overlapped>>

\* Mutant: the catch block only logs.
FailLogs(j) ==
  /\ Goto(j, "fail", "failed") /\ Answered
  /\ UNCHANGED <<stores, len, calls, keywordUp, creating, overlapped>>

\* The catch block, with its event: whatever was written stays written.
Fail(j) ==
  /\ Goto(j, "fail", "failed") /\ Answered
  /\ SetStatus(Target[j], "FAILED")
  /\ UNCHANGED <<chunk, point, entry, node, entity, len, calls, keywordUp,
                 creating, overlapped>>

Run(j) ==
  \/ Mark(j) \/ Clear(j) \/ Store(j) \/ StoreRejected(j) \/ IndexPoints(j)
  \/ IndexEntries(j) \/ ExtractEntity(j) \/ Finish(j) \/ FinishRejected(j)
  \/ Fail(j) \/ Throw(j)

----------------------------------------------------------------------------
(* delete *)

GotoD(c, from, to) == dpc[c] = from /\ dpc' = [dpc EXCEPT ![c] = to]

SoftDelete(c) ==
  /\ Exists(Target[c])
  /\ GotoD(c, "idle", "graph")
  /\ row' = [row EXCEPT ![Target[c]] = [status |-> "DELETED", deleted |-> TRUE]]
  /\ UNCHANGED <<chunk, point, entry, node, entity, runs, found, before,
                 keywordUp, creating, faults, overlapped>>

DropNode(c) ==
  /\ GotoD(c, "graph", "list")
  /\ \/ Answered /\ node' = node \ {Target[c]}
     \/ Rejected /\ UNCHANGED node
  /\ UNCHANGED <<row, chunk, point, entry, entity, runs, found, before,
                 keywordUp, creating, overlapped>>

Points(d) == {i \in Index : point[d][i] # NoJob}

\* Mutant: the filter names a payload key the points do not have.
PageUnmatched(d) == {{}}

\* The search that lists the document's points answers one page of them.
Page(d) == {S \in SUBSET Points(d) :
              IF Cardinality(Points(d)) <= SearchLimit
                THEN S = Points(d) ELSE Cardinality(S) = SearchLimit}

\* The runs that will write to neither index any more.
PastIndexing == {j \in Jobs : pc[j] \in Ended \cup {"graph", "finish", "fail"}}

ListPoints(c) ==
  /\ \/ \E S \in Page(Target[c]) :
          /\ GotoD(c, "list", IF S = {} THEN "keyword" ELSE "points") /\ Answered
          /\ found' = [found EXCEPT ![c] = S]
          /\ before' = [before EXCEPT ![c] = PastIndexing]
     \/ /\ GotoD(c, "list", "keyword") /\ Rejected      \* swallowed
        /\ UNCHANGED <<found, before>>
  /\ UNCHANGED <<stores, runs, keywordUp, creating, overlapped>>

DropPoints(c) ==
  /\ GotoD(c, "points", "keyword")
  /\ \/ /\ Answered
        /\ point' = [point EXCEPT ![Target[c]] =
                       [i \in Index |-> IF i \in found[c] THEN NoJob ELSE @[i]]]
        /\ UNCHANGED before
     \/ Rejected /\ before' = [before EXCEPT ![c] = {}] /\ UNCHANGED point
  /\ UNCHANGED <<row, chunk, entry, node, entity, runs, found, keywordUp,
                 creating, overlapped>>

\* And the DocumentDeleted event.  An OpenSearch that was not there at boot is
\* not asked, and one that fails is not asked again.
DropEntries(c) ==
  /\ GotoD(c, "keyword", "done")
  /\ \/ /\ keywordUp /\ Answered
        /\ entry' = [entry EXCEPT ![Target[c]] = Empty]
        /\ UNCHANGED before
     \/ /\ IF keywordUp THEN Rejected ELSE Answered
        /\ before' = [before EXCEPT ![c] = {}] /\ UNCHANGED entry
  /\ UNCHANGED <<row, chunk, point, node, entity, runs, found, keywordUp,
                 creating, overlapped>>

Delete(c) == SoftDelete(c) \/ DropNode(c) \/ ListPoints(c) \/ DropPoints(c) \/ DropEntries(c)

----------------------------------------------------------------------------

\* The process ends: the calls in flight are gone, the stores stay.  The next
\* boot decides anew whether OpenSearch is there.
Crash ==
  /\ Rejected
  /\ pc' = [j \in Jobs |-> IF InFlight(j) THEN "lost" ELSE pc[j]]
  /\ dpc' = [c \in Deletes |-> IF dpc[c] \in {"idle", "done"} THEN dpc[c] ELSE "lost"]
  /\ creating' = {}
  /\ keywordUp' \in BOOLEAN
  /\ UNCHANGED <<stores, len, found, before, overlapped>>

Next ==
  \/ \E d \in Docs : Insert(d) \/ FinishCreate(d)
  \/ \E j \in Jobs : RequestProcess(j) \/ Run(j)
  \/ \E c \in Deletes : Delete(c)
  \/ Crash

\* A promise the code awaits is settled in the end, so a run that began takes
\* its next step unless the process dies; requests come or do not come.
Fairness == \A j \in Jobs : WF_vars(Run(j))

Spec == Init /\ [][Next]_vars /\ Fairness

----------------------------------------------------------------------------
(* Properties *)

\* The types, and that a run past createMany stored one chunk at least.
TypeOK ==
  /\ row \in [Docs -> [status : Status, deleted : BOOLEAN]]
  /\ chunk \in [Docs -> [Index -> Writers]]
  /\ point \in [Docs -> [Index -> Writers]]
  /\ entry \in [Docs -> [Index -> Writers]]
  /\ node \subseteq Docs /\ entity \subseteq Docs
  /\ creating \subseteq Docs /\ overlapped \subseteq Docs
  /\ keywordUp \in BOOLEAN /\ faults \in 0 .. MaxFaults
  /\ pc \in [Jobs -> JobPc] /\ len \in [Jobs -> 0 .. MaxChunks]
  /\ \A j \in Jobs : pc[j] \in Working \cup {"done"} => len[j] > 0
  /\ dpc \in [Deletes -> DelPc]
  /\ found \in [Deletes -> SUBSET Index] /\ before \in [Deletes -> SUBSET Jobs]

\* The chunk rows of a document are all of one run, and all that run made: two
\* runs that overlap never leave a mixture, because createMany is one statement
\* on ids that both runs would use (documents.service.ts:410).
WholeChunkSets ==
  \A d \in Docs : \/ chunk[d] = Empty
                  \/ \E j \in Jobs : /\ Target[j] = d /\ len[j] > 0
                                     /\ chunk[d] = Written(Empty, len[j], j)

\* What Qdrant and OpenSearch hold of a document was written by runs on that
\* document whose chunk rows went in, and is no longer than those: a run that
\* lost the race for the ids reaches neither index (documents.service.ts:170).
IndexEntriesBacked ==
  \A d \in Docs, i \in Index, j \in Jobs :
    j \in {point[d][i], entry[d][i]} => Target[j] = d /\ i < len[j]

\* When no two runs were ever in flight for a document, INDEXED means what it
\* says, through rejected calls and restarts: the run that wrote it completed,
\* and its chunk rows are exactly the ones stored (documents.service.ts:174).
SerialIndexedIsComplete ==
  \A d \in Docs \ overlapped : row[d].status = "INDEXED" =>
    \E j \in Jobs : /\ Target[j] = d /\ pc[j] = "done"
                    /\ chunk[d] = Written(Empty, len[j], j)

\* Overlapping runs undo each other's work, but while no call is rejected the
\* last one out leaves an INDEXED document with chunk rows: a run that fails on
\* the ids found another's rows there (documents.service.ts:161, 410).
OverlapKeepsChunks ==
  faults = 0 => \A d \in Docs : row[d].status = "INDEXED" /\ ~Busy(d) => chunk[d] # Empty

\* A delete whose calls to the indexes went through leaves, of the runs that
\* were done with them when it listed the points, only what exceeds the page in
\* Qdrant and nothing in OpenSearch; a later run may write the document back
\* (search.service.ts:366, 349).
PurgeLeavesOnlyLateWrites ==
  \A c \in Deletes : dpc[c] = "done" =>
    LET old(index) == {i \in Index : index[Target[c]][i] \in before[c]} IN
    /\ old(entry) = {}
    /\ Cardinality(old(point)) <= IF MaxChunks > SearchLimit THEN MaxChunks - SearchLimit ELSE 0

\* What the documents API shows of every document follows DocumentLifecycle: no
\* outcome before PROCESSING, and nothing ever again after a delete, although a
\* run that outlives the delete writes the row's status (documents.service.ts:174).
Shown == [d \in Docs |-> CASE ~Exists(d)       -> "absent"
                           [] row[d].deleted   -> "gone"
                           [] OTHER            -> row[d].status]
Lifecycle == INSTANCE DocumentLifecycle WITH shown <- Shown
LifecycleHolds == Lifecycle!LSpec

\* No document stays PROCESSING for ever unless a run of it was cut off: by a
\* restart, or by a rejected call outside the try block, and nothing takes such a
\* run up again (documents.service.ts:157, 161, 211; upload.controller.ts:101).
CutOff(d) == \E j \in Jobs : Target[j] = d /\ pc[j] \in {"threw", "lost"}
ProcessingEnds ==
  \A d \in Docs : (row[d].status = "PROCESSING")
                    ~> (row[d].status # "PROCESSING" \/ CutOff(d))

==============================================================================
