----------------------------- MODULE ConnectorProofs -----------------------------
(***************************************************************************)
(* Proofs about ConnectorSync, for any runs and bound and any finite       *)
(* source.  They rest on RunsInv: what a run has written, by its step.     *)
(***************************************************************************)
EXTENDS ConnectorSync, FiniteSetTheorems, TLAPS

\* Documents of a run that have no chunk rows.
Bare(r) == DocsOf(r) \ chunked

\* The status and the documents a run has at each of its steps.
StageOf(r) ==
  /\ pc[r] \in {"idle", "denied", "create", "error"} => status[r] = "none"
  /\ pc[r] \in {"fetch", "document", "chunks", "complete"} => status[r] = "RUNNING"
  /\ pc[r] \in {"stamp", "done"} => status[r] = "COMPLETED"
  /\ pc[r] \in {"fail", "stuck"} => status[r] \in {"RUNNING", "COMPLETED"}
  /\ pc[r] = "threw" => status[r] = "FAILED"
  /\ pc[r] = "lost" => status[r] # "FAILED"
  /\ pc[r] = "fail" /\ status[r] = "COMPLETED" => faults > 0

\* What a run says of its documents, and which of them may lack their chunk rows.
DocumentsOf(r) ==
  /\ status[r] = "COMPLETED" => synced[r] = Cardinality(DocsOf(r))
  /\ Bare(r) # {} => status[r] # "COMPLETED" /\ pc[r] \in {"chunks", "fail", "threw", "stuck", "lost"}
  /\ \A d, e \in Bare(r) : d = e

RunsInv ==
  /\ TypeOK
  /\ \A r \in Runs : StageOf(r) /\ DocumentsOf(r)
  /\ \A r \in lastSync : pc[r] = "done"
  /\ deleted => \A r \in Runs : InFlight(r) => r \in early
  /\ ~deleted => after = {}
  /\ LateDocumentsOfEarlyRuns

\* A run's documents are finitely many, no more than the source has items.
LEMMA DocsAreFinite ==
  ASSUME TypeOK, NEW r \in Runs
  PROVE  IsFiniteSet(DocsOf(r)) /\ Cardinality(DocsOf(r)) \in 0 .. Cardinality(Items)
  <1>1. /\ IsFiniteSet({r} \X Items)
        /\ Cardinality({r} \X Items) = Cardinality({r}) * Cardinality(Items)
        /\ Cardinality({r}) = 1
    BY ItemsAssumption, FS_Singleton, FS_Product
  <1>2. Cardinality(Items) \in Nat
    BY ItemsAssumption, FS_CardinalityType
  <1>3. DocsOf(r) \in SUBSET ({r} \X Items)
    BY DEF DocsOf, TypeOK, Docs
  <1>4. IsFiniteSet(DocsOf(r)) /\ Cardinality(DocsOf(r)) <= Cardinality(Items)
    BY <1>1, <1>2, <1>3, FS_Subset
  <1>5. Cardinality(DocsOf(r)) \in Nat
    BY <1>4, FS_CardinalityType
  <1> QED
    BY <1>2, <1>4, <1>5

-----------------------------------------------------------------------------
(* Types *)

\* No run has begun.
LEMMA InitRuns == Init => RunsInv
  <1> SUFFICES ASSUME Init
               PROVE  RunsInv
    OBVIOUS
  <1>1. Cardinality(Items) \in Nat /\ Cardinality({}) = 0
    BY ItemsAssumption, FS_CardinalityType, FS_EmptySet
  <1>0. 0 \in 0 .. Cardinality(Items) /\ 0 \in 0 .. MaxFaults
    BY <1>1, BoundAssumption
  <1>2. TypeOK
    <2>1. /\ synced \in [Runs -> 0 .. Cardinality(Items)]
          /\ status \in [Runs -> Statuses] /\ pc \in [Runs -> RunPc]
      BY <1>0 DEF Init, Statuses, RunPc
    <2>2. lastSync \subseteq Runs /\ Cardinality(lastSync) <= 1 /\ faults \in 0 .. MaxFaults
      BY <1>0, <1>1 DEF Init
    <2> QED
      BY <2>1, <2>2 DEF Init, TypeOK
  <1>3. ASSUME NEW r \in Runs
        PROVE  StageOf(r) /\ DocumentsOf(r) /\ ~InFlight(r)
    BY DEF Init, StageOf, DocumentsOf, Bare, DocsOf, InFlight
  <1> QED
    BY <1>2, <1>3 DEF Init, RunsInv, LateDocumentsOfEarlyRuns

\* Every step keeps the types.
LEMMA NextTypeOK == TypeOK /\ [Next]_vars => TypeOK'
  <1> SUFFICES ASSUME TypeOK, [Next]_vars
               PROVE  TypeOK'
    OBVIOUS
  <1> USE DEF TypeOK, rows, history, Answered, Goto, RunPc, Ended, Statuses
  <1>1. ASSUME NEW r \in Runs, Request(r) \/ CreateRun(r) \/ Fail(r)
        PROVE  TypeOK'
    BY <1>1 DEF Request, CreateRun, Fail
  <1>2. ASSUME NEW r \in Runs, Fetch(r)
        PROVE  TypeOK'
    BY <1>2 DEF Fetch
  <1>3. ASSUME NEW r \in Runs, PersistDocument(r)
        PROVE  TypeOK'
    BY <1>3 DEF PersistDocument, Docs
  <1>4. ASSUME NEW r \in Runs, PersistChunks(r)
        PROVE  TypeOK'
    BY <1>4 DEF PersistChunks, DocsOf
  <1>5. ASSUME NEW r \in Runs, Complete(r)
        PROVE  TypeOK'
    BY <1>5, DocsAreFinite DEF Complete
  <1>6. ASSUME NEW r \in Runs, Stamp(r)
        PROVE  TypeOK'
    <2>1. Cardinality({r}) <= 1
      BY FS_Singleton
    <2> QED
      BY <1>6, <2>1 DEF Stamp
  <1>7. ASSUME NEW r \in Runs, TryRejected(r) \/ Throw(r)
        PROVE  TypeOK'
    BY <1>7, BoundAssumption DEF TryRejected, Throw, Rejected
  <1>8. CASE Delete
    BY <1>8 DEF Delete
  <1>9. CASE Crash
    BY <1>9, BoundAssumption DEF Crash, Rejected
  <1>10. CASE UNCHANGED vars
    BY <1>10 DEF vars
  <1> QED
    BY <1>1, <1>2, <1>3, <1>4, <1>5, <1>6, <1>7, <1>8, <1>9, <1>10 DEF Next, Sync

-----------------------------------------------------------------------------
(* RunsInv *)

\* What a step of run r leaves alone: the other runs' rows, and what they wrote.
Others(r) ==
  \A q \in Runs \ {r} :
    /\ pc'[q] = pc[q] /\ status'[q] = status[q] /\ synced'[q] = synced[q]
    /\ DocsOf(q)' = DocsOf(q) /\ Bare(q)' = Bare(q)

\* A step of one run keeps what holds of the others.
LEMMA OthersKept ==
  ASSUME RunsInv, TypeOK', NEW r \in Runs, Others(r), faults' >= faults,
         NEW q \in Runs \ {r}
  PROVE  StageOf(q)' /\ DocumentsOf(q)'
  <1>1. StageOf(q) /\ DocumentsOf(q)
    BY DEF RunsInv
  <1>2. faults \in Int /\ faults' \in Int
    BY DEF RunsInv, TypeOK
  <1>3. StageOf(q)'
    BY <1>1, <1>2 DEF Others, StageOf
  <1>4. DocumentsOf(q)'
    BY <1>1 DEF Others, DocumentsOf
  <1> QED
    BY <1>3, <1>4

\* A run only moves on: the runs that had found the connector are known once it is deleted.
LEMMA SyncKeepsEarly ==
  ASSUME RunsInv, NEW r \in Runs, Request(r) \/ Sync(r)
  PROVE  /\ UNCHANGED <<deleted, early>>
         /\ \A q \in Runs : InFlight(q)' => InFlight(q) \/ ~deleted
  BY DEF RunsInv, TypeOK, Request, Sync, CreateRun, Fetch, PersistDocument, PersistChunks,
         Complete, Stamp, TryRejected, Fail, Throw, Goto, InFlight, Ended, rows, history

\* Steps that move a run on and write its status at most.
LEMMA StatusStep ==
  ASSUME RunsInv, TypeOK', NEW r \in Runs,
         Request(r) \/ CreateRun(r) \/ Fetch(r) \/ TryRejected(r) \/ Fail(r) \/ Throw(r)
  PROVE  /\ faults' >= faults /\ UNCHANGED <<lastSync, after>>
         /\ \A q \in Runs : StageOf(q)' /\ DocumentsOf(q)'
  <1> USE DEF RunsInv
  <1>1. /\ UNCHANGED <<lastSync, synced, document, chunked, after>>
        /\ \A q \in Runs \ {r} : pc'[q] = pc[q] /\ status'[q] = status[q]
        /\ faults' >= faults
    BY DEF Request, CreateRun, Fetch, TryRejected, Fail, Throw, Goto, Answered, Rejected, rows,
           history, TypeOK
  <1>2. \A q \in Runs : DocsOf(q)' = DocsOf(q) /\ Bare(q)' = Bare(q)
    BY <1>1 DEF DocsOf, Bare
  <1>3. StageOf(r)'
    BY DEF Request, CreateRun, Fetch, TryRejected, Fail, Throw, Goto, Answered, Rejected, rows,
           StageOf, TypeOK
  <1>4. DocumentsOf(r)'
    <2>1. status'[r] = "COMPLETED" => status[r] = "COMPLETED"
      BY DEF Request, CreateRun, Fetch, TryRejected, Fail, Throw, rows, TypeOK
    <2>2. pc[r] \in {"chunks", "fail", "threw", "stuck", "lost"}
            => pc'[r] \in {"chunks", "fail", "threw", "stuck", "lost"}
      BY DEF Request, CreateRun, Fetch, TryRejected, Fail, Throw, Goto, TypeOK
    <2> QED
      BY <1>1, <1>2, <2>1, <2>2 DEF DocumentsOf
  <1> QED
    BY <1>1, <1>2, <1>3, <1>4, OthersKept DEF Others

\* A document without chunk rows, then its chunk rows: it is the run's only bare one.
LEMMA DocumentStep ==
  ASSUME RunsInv, TypeOK', NEW r \in Runs, PersistDocument(r) \/ PersistChunks(r)
  PROVE  /\ UNCHANGED <<faults, lastSync>>
         /\ \A q \in Runs : StageOf(q)' /\ DocumentsOf(q)'
  <1> USE DEF RunsInv
  <1>1. /\ UNCHANGED <<faults, lastSync, status, synced>>
        /\ \A q \in Runs \ {r} : pc'[q] = pc[q]
        /\ pc[r] \in {"document", "chunks"} /\ pc'[r] \in {"document", "chunks", "complete"}
    BY DEF PersistDocument, PersistChunks, Goto, Answered, history, TypeOK
  <1>2. status[r] = "RUNNING"
    BY <1>1 DEF StageOf
  <1>3. StageOf(r)'
    BY <1>1, <1>2 DEF StageOf
  <1>4. CASE PersistDocument(r)
    <2>1. PICK i \in todo[r] : document' = document \cup {<<r, i>>}
      BY <1>4 DEF PersistDocument
    <2>2. chunked' = chunked /\ pc[r] = "document" /\ pc'[r] = "chunks"
      BY <1>4 DEF PersistDocument, Goto, TypeOK
    <2>3. \A q \in Runs \ {r} : DocsOf(q)' = DocsOf(q)
      BY <2>1 DEF DocsOf
    <2>4. Bare(r) = {}
      BY <2>2 DEF DocumentsOf
    <2>5. Bare(r)' \subseteq {<<r, i>>}
      BY <2>1, <2>2, <2>4 DEF Bare, DocsOf
    <2>6. DocumentsOf(r)'
      BY <1>1, <1>2, <2>2, <2>5 DEF DocumentsOf
    <2>7. Others(r)
      BY <1>1, <2>2, <2>3 DEF Others, Bare
    <2> QED
      BY <1>1, <1>3, <2>6, <2>7, OthersKept DEF TypeOK
  <1>5. CASE PersistChunks(r)
    <2>1. document' = document /\ chunked' = chunked \cup DocsOf(r)
      BY <1>5 DEF PersistChunks
    <2>2. \A q \in Runs : DocsOf(q)' = DocsOf(q)
      BY <2>1 DEF DocsOf
    <2>3. \A q \in Runs \ {r} : Bare(q)' = Bare(q)
      BY <2>1 DEF Bare, DocsOf
    <2>4. Bare(r)' = {}
      BY <2>1, <2>2 DEF Bare
    <2>5. DocumentsOf(r)'
      BY <1>1, <1>2, <2>4 DEF DocumentsOf
    <2>6. Others(r)
      BY <1>1, <2>2, <2>3 DEF Others
    <2> QED
      BY <1>1, <1>3, <2>5, <2>6, OthersKept DEF TypeOK
  <1> QED
    BY <1>4, <1>5

\* A run that ends well counts the documents it made, every one with its chunk rows.
LEMMA EndStep ==
  ASSUME RunsInv, TypeOK', NEW r \in Runs, Complete(r) \/ Stamp(r)
  PROVE  /\ UNCHANGED <<faults, after>>
         /\ \A q \in Runs : StageOf(q)' /\ DocumentsOf(q)'
         /\ \A q \in lastSync' : pc'[q] = "done"
  <1> USE DEF RunsInv
  <1>1. /\ UNCHANGED <<faults, document, chunked, after>>
        /\ \A q \in Runs \ {r} : pc'[q] = pc[q] /\ status'[q] = status[q] /\ synced'[q] = synced[q]
        /\ pc[r] \in {"complete", "stamp"} /\ pc'[r] \in {"stamp", "done"}
    BY DEF Complete, Stamp, Goto, Answered, history, TypeOK
  <1>2. \A q \in Runs : DocsOf(q)' = DocsOf(q) /\ Bare(q)' = Bare(q)
    BY <1>1 DEF DocsOf, Bare
  <1>3. status'[r] = "COMPLETED" /\ synced'[r] = Cardinality(DocsOf(r))
    BY DEF Complete, Stamp, Goto, StageOf, DocumentsOf, TypeOK
  <1>4. StageOf(r)'
    BY <1>1, <1>3 DEF StageOf
  <1>5. Bare(r) = {}
    BY <1>1 DEF DocumentsOf
  <1>6. DocumentsOf(r)'
    BY <1>2, <1>3, <1>5 DEF DocumentsOf
  <1>7. \A q \in lastSync' : pc'[q] = "done"
    BY <1>1 DEF Complete, Stamp, Goto, TypeOK
  <1> QED
    BY <1>1, <1>2, <1>4, <1>6, <1>7, OthersKept DEF Others, TypeOK

\* What appears after the deletion is of a run in flight, which had found the connector.
LEMMA LateOnes ==
  ASSUME RunsInv, NEW r \in Runs, Request(r) \/ Sync(r)
  PROVE  LateDocumentsOfEarlyRuns' /\ (~deleted' => after' = {})
  <1>1. early' = early /\ deleted' = deleted
    BY SyncKeepsEarly
  <1>2. CASE PersistDocument(r)
    <2>1. deleted => r \in early
      BY <1>2 DEF RunsInv, PersistDocument, Goto, InFlight, Ended
    <2>2. PICK i \in todo[r] : after' = IF deleted THEN after \cup {<<r, i>>} ELSE after
      BY <1>2 DEF PersistDocument
    <2> QED
      BY <1>1, <2>1, <2>2 DEF RunsInv, LateDocumentsOfEarlyRuns
  <1>3. CASE ~PersistDocument(r)
    <2>1. after' = after
      BY <1>3 DEF Request, Sync, CreateRun, Fetch, PersistChunks, Complete, Stamp, TryRejected,
                  Fail, Throw, history
    <2> QED
      BY <1>1, <2>1 DEF RunsInv, LateDocumentsOfEarlyRuns
  <1> QED
    BY <1>2, <1>3

\* Every step keeps RunsInv.
LEMMA NextRuns == RunsInv /\ [Next]_vars => RunsInv'
  <1> SUFFICES ASSUME RunsInv, [Next]_vars
               PROVE  RunsInv'
    OBVIOUS
  <1>0. TypeOK'
    BY NextTypeOK DEF RunsInv
  <1>1. ASSUME NEW r \in Runs, Request(r) \/ Sync(r)
        PROVE  RunsInv'
    <2>1. \A q \in Runs : StageOf(q)' /\ DocumentsOf(q)'
      BY <1>0, <1>1, StatusStep, DocumentStep, EndStep DEF Sync
    <2>2. \A q \in lastSync' : pc'[q] = "done"
      <3>1. CASE Complete(r) \/ Stamp(r)
        BY <1>0, <3>1, EndStep
      <3>2. CASE ~(Complete(r) \/ Stamp(r))
        <4>1. lastSync' = lastSync
          BY <1>0, <1>1, <3>2, StatusStep, DocumentStep DEF Sync
        <4>2. pc[r] # "done" /\ \A q \in Runs \ {r} : pc'[q] = pc[q]
          BY <1>1 DEF RunsInv, TypeOK, Request, Sync, CreateRun, Fetch, PersistDocument,
                      PersistChunks, Complete, Stamp, TryRejected, Fail, Throw, Goto
        <4> QED
          BY <4>1, <4>2 DEF RunsInv, TypeOK
      <3> QED
        BY <3>1, <3>2
    <2>3. deleted' => \A q \in Runs : InFlight(q)' => q \in early'
      BY <1>1, SyncKeepsEarly DEF RunsInv
    <2>4. LateDocumentsOfEarlyRuns' /\ (~deleted' => after' = {})
      BY <1>1, LateOnes
    <2> QED
      BY <1>0, <2>1, <2>2, <2>3, <2>4 DEF RunsInv
  <1>2. CASE Delete
    <2>1. /\ UNCHANGED <<lastSync, status, synced, document, chunked, pc, faults, after>>
          /\ ~deleted /\ early' = {r \in Runs : InFlight(r)}
      BY <1>2 DEF Delete
    <2>2. \A q \in Runs : StageOf(q)' /\ DocumentsOf(q)' /\ InFlight(q)' = InFlight(q)
      BY <2>1 DEF RunsInv, StageOf, DocumentsOf, Bare, DocsOf, InFlight
    <2>3. after' = {}
      BY <2>1 DEF RunsInv
    <2> QED
      BY <1>0, <2>1, <2>2, <2>3 DEF RunsInv, LateDocumentsOfEarlyRuns
  <1>3. CASE Crash
    <2>1. /\ UNCHANGED <<deleted, lastSync, status, synced, document, chunked, early, after>>
          /\ \A q \in Runs : pc'[q] = IF InFlight(q) THEN "lost" ELSE pc[q]
          /\ faults' >= faults /\ faults \in Int /\ faults' \in Int
      BY <1>3, BoundAssumption DEF Crash, Rejected, rows, history, RunsInv, TypeOK
    <2>2. ASSUME NEW q \in Runs
          PROVE  StageOf(q)' /\ DocumentsOf(q)' /\ (InFlight(q)' => InFlight(q))
      <3>1. Bare(q)' = Bare(q) /\ DocsOf(q)' = DocsOf(q)
        BY <2>1 DEF Bare, DocsOf
      <3>2. StageOf(q) /\ DocumentsOf(q) /\ pc[q] \in RunPc
        BY DEF RunsInv, TypeOK
      <3> QED
        BY <2>1, <3>1, <3>2 DEF StageOf, DocumentsOf, InFlight, Ended, RunPc
    <2>3. \A q \in lastSync : pc'[q] = "done"
      BY <2>1 DEF RunsInv, TypeOK, InFlight, Ended
    <2> QED
      BY <1>0, <2>1, <2>2, <2>3 DEF RunsInv, LateDocumentsOfEarlyRuns
  <1>4. CASE UNCHANGED vars
    <2>1. UNCHANGED <<rows, pc, todo, faults, early, after>>
      BY <1>4 DEF vars, history
    <2>2. ASSUME NEW q \in Runs
          PROVE  StageOf(q)' /\ DocumentsOf(q)' /\ InFlight(q)' = InFlight(q)
      BY <2>1 DEF rows, RunsInv, StageOf, DocumentsOf, Bare, DocsOf, InFlight
    <2> QED
      BY <1>0, <2>1, <2>2 DEF rows, RunsInv, LateDocumentsOfEarlyRuns
  <1> QED
    BY <1>1, <1>2, <1>3, <1>4 DEF Next

-----------------------------------------------------------------------------
(* Theorems *)

\* RunsInv holds throughout.
LEMMA RunsAlways == Spec => []RunsInv
  BY InitRuns, NextRuns, PTL DEF Spec

\* The rows and the steps of any number of runs of a connector have their types
\* (connectors.service.ts:110).
THEOREM RunTypes == Spec => []TypeOK
  <1>1. RunsInv => TypeOK
    BY DEF RunsInv
  <1> QED
    BY <1>1, RunsAlways, PTL

\* A COMPLETED run counts the documents it left, each with its chunk rows, any other
\* run leaves one without them at most; lastSyncAt is of a run that stays COMPLETED;
\* a document made after the deletion is of a run that had found the connector
\* (connectors.service.ts:110, 130, 137, 152, 256).
THEOREM RowsAgree == Spec => []SyncRowsAgree
  <1>1. ASSUME RunsInv, NEW r \in Runs
        PROVE  Cardinality(Bare(r)) <= 1
    <2>1. CASE Bare(r) = {}
      BY <2>1, FS_EmptySet
    <2>2. CASE Bare(r) # {}
      <3>1. PICK d : d \in Bare(r)
        BY <2>2
      <3>2. Bare(r) = {d}
        BY <1>1, <3>1 DEF RunsInv, DocumentsOf
      <3> QED
        BY <3>2, FS_Singleton
    <2> QED
      BY <2>1, <2>2
  <1>2. ASSUME RunsInv
        PROVE  RunsCountWhatTheyLeft
    BY <1>1, <1>2 DEF RunsInv, DocumentsOf, RunsCountWhatTheyLeft, Bare
  <1>3. RunsInv => LastSyncCompleted /\ LateDocumentsOfEarlyRuns
    BY DEF RunsInv, TypeOK, StageOf, LastSyncCompleted
  <1>4. RunsInv => SyncRowsAgree
    BY <1>2, <1>3 DEF SyncRowsAgree
  <1> QED
    BY <1>4, RunsAlways, PTL

\* The status of a run that ended stays, but for a run whose lastSyncAt could not be
\* written: the catch block turns COMPLETED into FAILED (connectors.service.ts:152, 163).
THEOREM OutcomesHold == Spec => OutcomesStay
  <1> DEFINE Stays(r) ==
        status[r] \in {"COMPLETED", "FAILED"} =>
          \/ status'[r] = status[r]
          \/ status'[r] = "FAILED" /\ pc[r] = "fail" /\ faults > 0 /\ r \notin lastSync
  <1>1. ASSUME RunsInv, NEW r \in Runs, Fail(r)
        PROVE  Stays(r)
    BY <1>1 DEF RunsInv, TypeOK, StageOf, Fail, Goto
  <1>2. ASSUME RunsInv, NEW r \in Runs, Request(r) \/ Sync(r), ~Fail(r)
        PROVE  Stays(r)
    BY <1>2 DEF RunsInv, TypeOK, StageOf, Request, Sync, CreateRun, Fetch, PersistDocument,
                PersistChunks, Complete, Stamp, TryRejected, Throw, Goto, rows
  <1>3. ASSUME RunsInv, NEW r \in Runs, Request(r) \/ Sync(r), NEW q \in Runs \ {r}
        PROVE  status'[q] = status[q]
    BY <1>3 DEF RunsInv, TypeOK, Request, Sync, CreateRun, Fetch, PersistDocument, PersistChunks,
                Complete, Stamp, TryRejected, Fail, Throw, rows
  <1>4. RunsInv /\ [Next]_vars => [\A r \in Runs : Stays(r)]_vars
    BY <1>1, <1>2, <1>3 DEF Next, Delete, Crash, rows, vars
  <1> QED
    BY <1>4, RunsAlways, PTL DEF Spec, OutcomesStay

=================================================================================
