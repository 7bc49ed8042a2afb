------------------------ MODULE DocumentPipelineProofs ------------------------
(***************************************************************************)
(* Proofs about DocumentPipeline for every set of documents and requests   *)
(* and every bound: types, chunk rows and index entries, what runs of      *)
(* processDocument that overlap, or do not, leave behind, that the         *)
(* documents API follows DocumentLifecycle, and what a purge leaves.       *)
(***************************************************************************)
EXTENDS DocumentPipeline, FiniteSetTheorems, TLAPS

\* The document of a request is a document.
LEMMA TargetIsDoc == \A r \in Jobs \cup Deletes : Target[r] \in Docs
  BY RequestAssumption

\* Slots stay slots when a run writes its chunks over them.
LEMMA WrittenType ==
  ASSUME NEW old \in [Index -> Writers], NEW n \in Nat, NEW j \in Jobs
  PROVE  Written(old, n, j) \in [Index -> Writers]
  BY DEF Written, Writers

\* No chunk rows are a row of slots too.
LEMMA EmptyType == Empty \in [Index -> Writers]
  BY DEF Empty, Writers

-----------------------------------------------------------------------------
(* Types *)

\* The types hold before the first request.
LEMMA InitTypeOK == Init => TypeOK
  <1> SUFFICES ASSUME Init
               PROVE  TypeOK
    OBVIOUS
  <1>1. chunk \in [Docs -> [Index -> Writers]]
    BY EmptyType DEF Init
  <1>2. /\ point \in [Docs -> [Index -> Writers]]
        /\ entry \in [Docs -> [Index -> Writers]]
    BY <1>1 DEF Init
  <1>3. faults \in 0 .. MaxFaults /\ len \in [Jobs -> 0 .. MaxChunks]
    BY BoundsAssumption DEF Init
  <1>4. /\ pc \in [Jobs -> JobPc] /\ dpc \in [Deletes -> DelPc]
        /\ \A j \in Jobs : pc[j] \notin Working \cup {"done"}
    BY DEF Init, JobPc, DelPc, Working
  <1>5. row \in [Docs -> [status : Status, deleted : BOOLEAN]]
    BY DEF Init, Status
  <1> QED
    BY <1>1, <1>2, <1>3, <1>4, <1>5 DEF Init, TypeOK

\* A step of a run keeps the types, and counts a chunk at least before it goes on.
LEMMA RunTypeOK ==
  ASSUME TypeOK, NEW j \in Jobs, Run(j)
  PROVE  TypeOK'
  <1> USE DEF TypeOK
  <1>t. Target[j] \in Docs
    BY TargetIsDoc
  <1>a. Answered \/ Rejected
    BY DEF Run, Mark, Clear, Store, StoreRejected, IndexPoints, IndexEntries,
       ExtractEntity, Finish, FinishRejected, Fail, Throw
  <1>f. faults' \in 0 .. MaxFaults
    BY <1>a, BoundsAssumption DEF Answered, Rejected
  <1>1. CASE Mark(j)
    BY <1>1, <1>t, <1>f DEF Mark, Goto, SetStatus, Status, JobPc, Working, Ended, calls
  <1>2. CASE Clear(j)
    BY <1>2, <1>t, <1>f, EmptyType DEF Clear, Goto, JobPc, Working, Ended, calls
  <1>3. CASE Store(j)
    <2>1. PICK n \in Contents : /\ len' = [len EXCEPT ![j] = n]
                                /\ chunk' = [chunk EXCEPT ![Target[j]] = Written(@, n, j)]
      BY <1>3 DEF Store
    <2>2. n \in Nat \ {0} /\ n \in 0 .. MaxChunks
      BY BoundsAssumption DEF Contents
    <2>3. Written(chunk[Target[j]], n, j) \in [Index -> Writers]
      BY <1>t, <2>2, WrittenType
    <2>4. chunk' \in [Docs -> [Index -> Writers]]
      BY <1>t, <2>1, <2>3
    <2> QED
      BY <1>3, <1>f, <2>1, <2>2, <2>4 DEF Store, Goto, JobPc, Working, Ended, calls
  <1>4. CASE StoreRejected(j)
    BY <1>4, <1>f DEF StoreRejected, Goto, JobPc, Working, Ended, calls, stores
  <1>5. CASE IndexPoints(j)
    <2>1. len[j] \in Nat
      BY BoundsAssumption
    <2>2. Written(point[Target[j]], len[j], j) \in [Index -> Writers]
      BY <1>t, <2>1, WrittenType
    <2>3. point' \in [Docs -> [Index -> Writers]]
      BY <1>5, <1>t, <2>2 DEF IndexPoints
    <2> QED
      BY <1>5, <1>f, <2>3 DEF IndexPoints, Goto, JobPc, Working, Ended, calls
  <1>6. CASE IndexEntries(j)
    <2>1. PICK taken \in SUBSET Index :
             entry' = [entry EXCEPT ![Target[j]] =
                         [i \in Index |-> IF i \in taken THEN j ELSE @[i]]]
      BY <1>6 DEF IndexEntries
    <2>2. [i \in Index |-> IF i \in taken THEN j ELSE entry[Target[j]][i]]
            \in [Index -> Writers]
      BY <1>t DEF Writers
    <2>3. entry' \in [Docs -> [Index -> Writers]]
      BY <1>t, <2>1, <2>2
    <2> QED
      BY <1>6, <1>f, <2>3 DEF IndexEntries, Goto, JobPc, Working, Ended, calls
  <1>7. CASE ExtractEntity(j)
    BY <1>7, <1>t, <1>f DEF ExtractEntity, Goto, JobPc, Working, Ended, calls
  <1>8. CASE Finish(j)
    BY <1>8, <1>t, <1>f DEF Finish, Goto, SetStatus, Status, JobPc, Working, Ended, calls
  <1>9. CASE FinishRejected(j)
    BY <1>9, <1>f DEF FinishRejected, Goto, JobPc, Working, Ended, calls, stores
  <1>10. CASE Fail(j)
    BY <1>10, <1>t, <1>f DEF Fail, Goto, SetStatus, Status, JobPc, Working, Ended, calls
  <1>11. CASE Throw(j)
    BY <1>11, <1>f DEF Throw, Goto, JobPc, Working, Ended, calls, stores
  <1> QED
    BY <1>1, <1>2, <1>3, <1>4, <1>5, <1>6, <1>7, <1>8, <1>9, <1>10, <1>11 DEF Run

\* A step of a delete keeps the types.
LEMMA DeleteTypeOK ==
  ASSUME TypeOK, NEW c \in Deletes, Delete(c)
  PROVE  TypeOK'
  <1> USE DEF TypeOK
  <1>t. Target[c] \in Docs
    BY TargetIsDoc
  <1>f. faults' \in 0 .. MaxFaults
    BY BoundsAssumption DEF Delete, SoftDelete, DropNode, ListPoints, DropPoints, DropEntries,
       Answered, Rejected
  <1>1. CASE SoftDelete(c)
    BY <1>1, <1>t, <1>f DEF SoftDelete, GotoD, Status, DelPc, runs
  <1>2. CASE DropNode(c)
    BY <1>2, <1>f DEF DropNode, GotoD, DelPc, runs
  <1>3. CASE ListPoints(c)
    <2>a. Page(Target[c]) \subseteq SUBSET Index /\ PastIndexing \subseteq Jobs
      BY DEF Page, Points, PastIndexing
    <2>b. \/ UNCHANGED <<found, before>>
          \/ \E S \in SUBSET Index : /\ found' = [found EXCEPT ![c] = S]
                                    /\ before' = [before EXCEPT ![c] = PastIndexing]
      BY <1>3, <2>a DEF ListPoints
    <2>1. /\ found' \in [Deletes -> SUBSET Index]
          /\ before' \in [Deletes -> SUBSET Jobs]
      <3>1. CASE UNCHANGED <<found, before>>
        BY <3>1
      <3>2. ASSUME NEW S \in SUBSET Index,
                   found' = [found EXCEPT ![c] = S],
                   before' = [before EXCEPT ![c] = PastIndexing]
            PROVE  /\ found' \in [Deletes -> SUBSET Index]
                   /\ before' \in [Deletes -> SUBSET Jobs]
        <4>1. found' \in [Deletes -> SUBSET Index]
          BY <3>2
        <4>2. before' \in [Deletes -> SUBSET Jobs]
          BY <2>a, <3>2
        <4> QED
          BY <4>1, <4>2
      <3> QED
        BY <2>b, <3>1, <3>2
    <2> QED
      BY <1>3, <1>f, <2>1 DEF ListPoints, GotoD, DelPc, runs, stores
  <1>4. CASE DropPoints(c)
    <2>1. point' \in [Docs -> [Index -> Writers]]
      BY <1>4, <1>t DEF DropPoints, Writers
    <2> QED
      BY <1>4, <1>f, <2>1 DEF DropPoints, GotoD, DelPc, runs
  <1>5. CASE DropEntries(c)
    <2>1. entry' \in [Docs -> [Index -> Writers]]
      BY <1>5, <1>t, EmptyType DEF DropEntries
    <2> QED
      BY <1>5, <1>f, <2>1 DEF DropEntries, GotoD, DelPc, runs
  <1> QED
    BY <1>1, <1>2, <1>3, <1>4, <1>5 DEF Delete

\* So does every other step.
LEMMA NextTypeOK == TypeOK /\ [Next]_vars => TypeOK'
  <1> SUFFICES ASSUME TypeOK, [Next]_vars
               PROVE  TypeOK'
    OBVIOUS
  <1> USE DEF TypeOK
  <1>1. ASSUME NEW d \in Docs, Insert(d) PROVE TypeOK'
    BY <1>1 DEF Insert, SetStatus, Status, runs, calls
  <1>2. ASSUME NEW d \in Docs, FinishCreate(d) PROVE TypeOK'
    <2>1. faults' \in 0 .. MaxFaults
      BY <1>2, BoundsAssumption DEF FinishCreate, Answered, Rejected
    <2>2. /\ pc' \in [Jobs -> JobPc] /\ overlapped' \subseteq Docs
          /\ \A j \in Jobs : pc'[j] = pc[j] \/ pc'[j] = "mark"
      BY <1>2 DEF FinishCreate, Begin, JobPc
    <2> QED
      BY <1>2, <2>1, <2>2 DEF FinishCreate, calls, Working
  <1>3. ASSUME NEW j \in Jobs, RequestProcess(j) PROVE TypeOK'
    <2>1. /\ pc' \in [Jobs -> JobPc] /\ overlapped' \subseteq Docs
          /\ \A k \in Jobs : pc'[k] = pc[k] \/ pc'[k] = "mark"
      BY <1>3, TargetIsDoc DEF RequestProcess, Begin, JobPc
    <2> QED
      BY <1>3, <2>1 DEF RequestProcess, calls, stores, Working
  <1>4. ASSUME NEW j \in Jobs, Run(j) PROVE TypeOK'
    BY <1>4, RunTypeOK
  <1>5. ASSUME NEW c \in Deletes, Delete(c) PROVE TypeOK'
    BY <1>5, DeleteTypeOK
  <1>6. CASE Crash
    <2>1. faults' \in 0 .. MaxFaults
      BY <1>6, BoundsAssumption DEF Crash, Rejected
    <2> QED
      BY <1>6, <2>1 DEF Crash, InFlight, JobPc, DelPc, Working, Ended, stores
  <1>7. CASE UNCHANGED vars
    BY <1>7 DEF vars, stores, runs, calls
  <1> QED
    BY <1>1, <1>2, <1>3, <1>4, <1>5, <1>6, <1>7 DEF Next

\* Every variable keeps its type, and a run past createMany stored a chunk.
THEOREM TypeCorrect == Spec => []TypeOK
  BY InitTypeOK, NextTypeOK, PTL DEF Spec

-----------------------------------------------------------------------------
(* Chunk rows and index entries *)

\* A run that has not passed createMany has stored nothing.
Early == {"idle", "mark", "clear", "store"}
EarlyUnstored == \A j \in Jobs : pc[j] \in Early => len[j] = 0

\* Only two steps touch the chunk rows, or the count of a run.
LEMMA ChunkFrame ==
  ASSUME [Next]_vars
  PROVE  \/ \E j \in Jobs : Clear(j) \/ Store(j)
         \/ UNCHANGED <<chunk, len>>
  BY DEF Next, vars, stores, runs, calls, Insert, FinishCreate, RequestProcess, Run, Mark,
     StoreRejected, IndexPoints, IndexEntries, ExtractEntity, Finish, FinishRejected, Fail,
     Throw, Delete, SoftDelete, DropNode, ListPoints, DropPoints, DropEntries, Crash

\* No step takes a run back to where it was before createMany.
LEMMA EarlyOnlyLeft ==
  ASSUME TypeOK, [Next]_vars, NEW j \in Jobs, pc'[j] \in Early
  PROVE  pc[j] \in Early
  <1> USE DEF TypeOK, Early
  <1>1. ASSUME NEW d \in Docs, Insert(d) \/ FinishCreate(d) PROVE pc[j] \in Early
    BY <1>1 DEF Insert, FinishCreate, Begin, runs
  <1>2. ASSUME NEW k \in Jobs, RequestProcess(k) PROVE pc[j] \in Early
    BY <1>2 DEF RequestProcess, Begin
  <1>3. ASSUME NEW k \in Jobs, Run(k) PROVE pc[j] \in Early
    BY <1>3 DEF Run, Mark, Clear, Store, StoreRejected, IndexPoints, IndexEntries,
       ExtractEntity, Finish, FinishRejected, Fail, Throw, Goto
  <1>4. ASSUME NEW c \in Deletes, Delete(c) PROVE pc[j] \in Early
    BY <1>4 DEF Delete, SoftDelete, DropNode, ListPoints, DropPoints, DropEntries, runs
  <1>5. CASE Crash
    BY <1>5 DEF Crash
  <1>6. CASE UNCHANGED vars
    BY <1>6 DEF vars, runs
  <1> QED
    BY <1>1, <1>2, <1>3, <1>4, <1>5, <1>6 DEF Next

\* A run counts its chunks with createMany, not before.
LEMMA EarlyUnstoredStep ==
  ASSUME TypeOK, EarlyUnstored, [Next]_vars
  PROVE  EarlyUnstored'
  <1> SUFFICES ASSUME NEW j \in Jobs, pc'[j] \in Early
               PROVE  len'[j] = 0
    BY DEF EarlyUnstored
  <1>1. pc[j] \in Early /\ len[j] = 0
    BY EarlyOnlyLeft DEF EarlyUnstored
  <1>2. CASE UNCHANGED <<chunk, len>>
    BY <1>1, <1>2
  <1>3. ASSUME NEW k \in Jobs, Clear(k) PROVE len'[j] = 0
    BY <1>1, <1>3 DEF Clear
  <1>4. ASSUME NEW k \in Jobs, Store(k) PROVE len'[j] = 0
    <2>1. pc' = [pc EXCEPT ![k] = "vector"] /\ \E n \in Contents : len' = [len EXCEPT ![k] = n]
      BY <1>4 DEF Store, Goto
    <2>2. j # k
      BY <2>1 DEF TypeOK, Early
    <2> QED
      BY <1>1, <2>1, <2>2 DEF TypeOK
  <1> QED
    BY <1>2, <1>3, <1>4, ChunkFrame

\* A run writes its chunks only where there are none: rows that are there are
\* the rows of one run, so the first id exists and createMany is rejected.
LEMMA StoreIntoEmpty ==
  ASSUME TypeOK, WholeChunkSets, NEW d \in Docs, NEW n \in Contents, ~Collides(d, n)
  PROVE  chunk[d] = Empty
  <1> SUFFICES ASSUME NEW j \in Jobs, len[j] > 0, chunk[d] = Written(Empty, len[j], j)
               PROVE  FALSE
    BY DEF WholeChunkSets
  <1>1. 0 \in Index /\ 0 < n
    BY BoundsAssumption DEF Index, Contents
  <1>2. chunk[d][0] = j
    BY <1>1, BoundsAssumption DEF Written, TypeOK
  <1> QED
    BY <1>1, <1>2, NoJobAssumption DEF Collides

\* Only createMany writes rows, and only where there were none; they go all at once.
LEMMA WholeChunkSetsStep ==
  ASSUME TypeOK, EarlyUnstored, WholeChunkSets, [Next]_vars
  PROVE  WholeChunkSets'
  <1>1. CASE UNCHANGED <<chunk, len>>
    BY <1>1 DEF WholeChunkSets
  <1>2. ASSUME NEW j \in Jobs, Clear(j) PROVE WholeChunkSets'
    BY <1>2, TargetIsDoc DEF Clear, WholeChunkSets, TypeOK
  <1>3. ASSUME NEW j \in Jobs, Store(j) PROVE WholeChunkSets'
    <2>t. Target[j] \in Docs
      BY TargetIsDoc
    <2>1. PICK n \in Contents : /\ ~Collides(Target[j], n)
                                /\ len' = [len EXCEPT ![j] = n]
                                /\ chunk' = [chunk EXCEPT ![Target[j]] = Written(@, n, j)]
      BY <1>3 DEF Store
    <2>2. len[j] = 0
      BY <1>3 DEF Store, Goto, EarlyUnstored, Early
    <2>3. chunk'[Target[j]] = Written(Empty, n, j) /\ len'[j] = n /\ n > 0
      BY <2>1, <2>t, StoreIntoEmpty DEF TypeOK, Contents
    <2>4. \A k \in Jobs : len[k] > 0 => len'[k] = len[k]
      BY <2>1, <2>2 DEF TypeOK
    <2>5. ASSUME NEW d \in Docs, d # Target[j] PROVE chunk'[d] = chunk[d]
      BY <2>1, <2>5 DEF TypeOK
    <2> QED
      BY <2>t, <2>3, <2>4, <2>5 DEF WholeChunkSets
  <1> QED
    BY <1>1, <1>2, <1>3, ChunkFrame

ChunkInv == TypeOK /\ EarlyUnstored /\ WholeChunkSets

\* What the chunk rows rest on is inductive.
LEMMA ChunkInvInductive ==
  /\ Init => ChunkInv
  /\ ChunkInv /\ [Next]_vars => ChunkInv'
  <1>1. Init => EarlyUnstored /\ WholeChunkSets
    BY DEF Init, EarlyUnstored, WholeChunkSets
  <1> QED
    BY <1>1, InitTypeOK, NextTypeOK, EarlyUnstoredStep, WholeChunkSetsStep DEF ChunkInv

\* The chunk rows of a document are always those of one run, complete: two runs
\* of processDocument that overlap never leave a mixture.
THEOREM ChunksAreOneRuns == Spec => []WholeChunkSets
  <1>1. Spec => []ChunkInv
    BY ChunkInvInductive, PTL DEF Spec
  <1>2. ChunkInv => WholeChunkSets
    BY DEF ChunkInv
  <1> QED
    BY <1>1, <1>2, PTL

\* Only these steps touch what the indexes hold, or the count of a run.
LEMMA EntryFrame ==
  ASSUME [Next]_vars
  PROVE  \/ \E j \in Jobs : Store(j) \/ IndexPoints(j) \/ IndexEntries(j)
         \/ \E c \in Deletes : DropPoints(c) \/ DropEntries(c)
         \/ UNCHANGED <<point, entry, len>>
  BY DEF Next, vars, stores, runs, calls, Insert, FinishCreate, RequestProcess, Run, Mark, Clear,
     StoreRejected, ExtractEntity, Finish, FinishRejected, Fail, Throw, Delete, SoftDelete,
     DropNode, ListPoints, Crash

\* A run writes to an index as itself and no further than its chunks.
LEMMA IndexEntriesBackedStep ==
  ASSUME TypeOK, EarlyUnstored, IndexEntriesBacked, [Next]_vars
  PROVE  IndexEntriesBacked'
  <1> USE DEF TypeOK
  <1> SUFFICES ASSUME NEW d \in Docs, NEW i \in Index, NEW j \in Jobs,
                      j \in {point'[d][i], entry'[d][i]}
               PROVE  Target[j] = d /\ i < len'[j]
    BY DEF IndexEntriesBacked
  <1>o. j \in {point[d][i], entry[d][i]} => Target[j] = d /\ i < len[j]
    BY DEF IndexEntriesBacked
  <1>1. CASE UNCHANGED <<point, entry, len>>
    BY <1>1, <1>o
  <1>2. ASSUME NEW k \in Jobs, Store(k) PROVE Target[j] = d /\ i < len'[j]
    <2>1. len[k] = 0
      BY <1>2 DEF Store, Goto, EarlyUnstored, Early
    <2>2. Target[j] = d /\ i < len[j]
      BY <1>2, <1>o DEF Store
    <2>3. j # k
      BY <2>1, <2>2 DEF Index
    <2> QED
      BY <1>2, <2>2, <2>3 DEF Store
  <1>3. ASSUME NEW k \in Jobs, IndexPoints(k) PROVE Target[j] = d /\ i < len'[j]
    <2>1. j \in {point[d][i], entry[d][i]} \/ (j = k /\ d = Target[k] /\ i < len[k])
      BY <1>3, TargetIsDoc DEF IndexPoints, Written
    <2> QED
      BY <1>3, <1>o, <2>1 DEF IndexPoints
  <1>4. ASSUME NEW k \in Jobs, IndexEntries(k) PROVE Target[j] = d /\ i < len'[j]
    <2>1. PICK taken \in SUBSET {n \in Index : n < len[k]} :
             entry' = [entry EXCEPT ![Target[k]] =
                         [n \in Index |-> IF n \in taken THEN k ELSE @[n]]]
      BY <1>4 DEF IndexEntries
    <2>2. j \in {point[d][i], entry[d][i]} \/ (j = k /\ d = Target[k] /\ i < len[k])
      BY <1>4, <2>1, TargetIsDoc DEF IndexEntries
    <2> QED
      BY <1>4, <1>o, <2>2 DEF IndexEntries
  <1>5. ASSUME NEW c \in Deletes, DropPoints(c) PROVE Target[j] = d /\ i < len'[j]
    <2>a. \/ point' = point
          \/ point' = [point EXCEPT ![Target[c]] =
                         [n \in Index |-> IF n \in found[c] THEN NoJob ELSE @[n]]]
      BY <1>5 DEF DropPoints
    <2>b. CASE d # Target[c]
      BY <2>a, <2>b, <1>o, <1>5, NoJobAssumption DEF DropPoints, runs
    <2>c. CASE d = Target[c]
      <3>1. point'[d][i] \in {point[d][i], NoJob}
        BY <2>a, <2>c
      <3> QED
        BY <3>1, <1>o, <1>5, NoJobAssumption DEF DropPoints, runs
    <2> QED
      BY <2>b, <2>c
  <1>6. ASSUME NEW c \in Deletes, DropEntries(c) PROVE Target[j] = d /\ i < len'[j]
    <2>1. entry'[d] \in {entry[d], Empty} /\ point' = point
      BY <1>6, TargetIsDoc DEF DropEntries
    <2>2. entry'[d][i] \in {entry[d][i], NoJob}
      BY <2>1 DEF Empty
    <2> QED
      BY <1>6, <1>o, <2>1, <2>2, NoJobAssumption DEF DropEntries, runs
  <1> QED
    BY <1>1, <1>2, <1>3, <1>4, <1>5, <1>6, EntryFrame

\* Whatever either index holds of a document was written by a run on it whose
\* chunk rows went in: the run that loses the race for the ids reaches neither.
THEOREM EntriesAreBacked == Spec => []IndexEntriesBacked
  <1>1. Init => IndexEntriesBacked
    BY NoJobAssumption DEF Init, IndexEntriesBacked, Empty
  <1>2. ChunkInv /\ IndexEntriesBacked /\ [Next]_vars => IndexEntriesBacked'
    BY IndexEntriesBackedStep DEF ChunkInv
  <1> QED
    BY <1>1, <1>2, ChunkInvInductive, PTL DEF Spec

-----------------------------------------------------------------------------
(* What the steps of runs and deletes touch *)


\* A step of a run moves that run, which was in flight, and touches the row and
\* the chunk rows of its own document only.
LEMMA RunFrame ==
  ASSUME TypeOK, NEW j \in Jobs, Run(j)
  PROVE  /\ InFlight(j)
         /\ pc' = [pc EXCEPT ![j] = pc'[j]]
         /\ \A k \in Jobs \ {j} : len'[k] = len[k]
         /\ \A e \in Docs \ {Target[j]} : row'[e] = row[e] /\ chunk'[e] = chunk[e]
         /\ overlapped' = overlapped /\ creating' = creating
  BY TargetIsDoc
  DEF TypeOK, Run, Mark, Clear, Store, StoreRejected, IndexPoints, IndexEntries, ExtractEntity,
      Finish, FinishRejected, Fail, Throw, Goto, SetStatus, InFlight, Ended, stores

\* A step of a delete touches no run and no chunk row; of the rows it touches
\* the one it deletes.
LEMMA DeleteFrame ==
  ASSUME TypeOK, NEW c \in Deletes, Delete(c)
  PROVE  /\ UNCHANGED <<chunk, pc, len, overlapped, creating>>
         /\ \A d \in Docs : row'[d] = row[d] \/ row'[d] = [status |-> "DELETED", deleted |-> TRUE]
  BY DEF TypeOK, Delete, SoftDelete, DropNode, ListPoints, DropPoints, DropEntries, runs, stores

\* A run begins from "idle" and waits at "mark".
LEMMA BeginFrame ==
  ASSUME TypeOK, NEW j \in Jobs, Begin(j)
  PROVE  /\ pc' = [pc EXCEPT ![j] = "mark"] /\ pc[j] = "idle"
         /\ overlapped \subseteq overlapped'
         /\ Busy(Target[j]) => Target[j] \in overlapped'
  BY DEF Begin

\* Inserting a document and creating its node: a run may begin, no chunk moves.
LEMMA CreateFrame ==
  ASSUME TypeOK, NEW d \in Docs, Insert(d) \/ FinishCreate(d)
  PROVE  /\ UNCHANGED <<chunk, len>>
         /\ \/ UNCHANGED <<pc, overlapped>>
            \/ \E j \in Jobs : Begin(j)
         /\ \A e \in Docs : row'[e] = row[e] \/ row'[e].status = "PENDING"
  BY DEF TypeOK, Insert, FinishCreate, SetStatus, runs

-----------------------------------------------------------------------------
(* Overlapping runs *)

\* A run that got past createMany, or failed on the ids, leaves chunk rows,
\* unless another run has just cleared them.
Past == Working \cup {"done", "fail", "failed"}
Refilled(d) ==
  /\ row[d].status = "INDEXED" => \E j \in Jobs : Target[j] = d /\ pc[j] = "done"
  /\ (\E j \in Jobs : Target[j] = d /\ pc[j] \in Past)
       => chunk[d] # Empty \/ \E k \in Jobs : Target[k] = d /\ pc[k] = "store"
Refill == faults = 0 => \A d \in Docs : Refilled(d)

\* While no call is rejected, a run that clears a document's rows is about to write others.
LEMMA RefillRun ==
  ASSUME TypeOK, NEW d \in Docs, Refilled(d), NEW j \in Jobs, Run(j), Answered
  PROVE  Refilled(d)'
  <1> USE DEF TypeOK, Past, Working
  <1>t. Target[j] \in Docs
    BY TargetIsDoc
  <1>f. pc' = [pc EXCEPT ![j] = pc'[j]]
    BY RunFrame
  <1>e. CASE Target[j] # d
    BY <1>e, <1>f, RunFrame DEF Refilled
  <1>1. CASE Target[j] = d /\ Mark(j)
    BY <1>1, <1>f DEF Refilled, Mark, Goto, SetStatus
  <1>2. CASE Target[j] = d /\ Clear(j)
    BY <1>2, <1>f DEF Refilled, Clear, Goto
  <1>3. CASE Target[j] = d /\ Store(j)
    <2>1. PICK n \in Contents : chunk' = [chunk EXCEPT ![d] = Written(@, n, j)]
      BY <1>3 DEF Store
    <2>2. 0 \in Index /\ 0 < n
      BY BoundsAssumption DEF Index, Contents
    <2>3. chunk'[d][0] = j /\ Empty[0] = NoJob
      BY <2>1, <2>2 DEF Written, Empty
    <2>4. chunk'[d] # Empty
      BY <2>3, NoJobAssumption
    <2> QED
      BY <1>3, <1>f, <2>4 DEF Refilled, Store, Goto
  <1>4. CASE Target[j] = d /\ StoreRejected(j)
    <2>1. \E n \in Contents : Collides(d, n)
      BY <1>4, BoundsAssumption DEF StoreRejected, Answered, Rejected
    <2>2. chunk[d] # Empty
      BY <2>1 DEF Collides, Empty
    <2> QED
      BY <1>4, <1>f, <2>2 DEF Refilled, StoreRejected, Goto, stores
  <1>5. CASE Target[j] = d /\ (IndexPoints(j) \/ IndexEntries(j) \/ ExtractEntity(j))
    BY <1>5, <1>f DEF Refilled, IndexPoints, IndexEntries, ExtractEntity, Goto
  <1>6. CASE Target[j] = d /\ Finish(j)
    BY <1>6, <1>f DEF Refilled, Finish, Goto, SetStatus
  <1>7. CASE Target[j] = d /\ Fail(j)
    BY <1>7, <1>f DEF Refilled, Fail, Goto, SetStatus
  <1>8. ~FinishRejected(j) /\ ~Throw(j)
    BY BoundsAssumption DEF FinishRejected, Throw, Answered, Rejected
  <1> QED
    BY <1>e, <1>1, <1>2, <1>3, <1>4, <1>5, <1>6, <1>7, <1>8 DEF Run

\* Nor does any other step leave a document that has been indexed without rows.
LEMMA RefillStep ==
  ASSUME TypeOK, Refill, [Next]_vars
  PROVE  Refill'
  <1> SUFFICES ASSUME faults' = 0, NEW d \in Docs
               PROVE  Refilled(d)'
    BY DEF Refill
  <1>0. ~Rejected
    BY BoundsAssumption DEF Rejected, TypeOK
  <1>r. faults = 0 => Refilled(d)
    BY DEF Refill
  <1>b. ASSUME NEW j \in Jobs, Begin(j), Refilled(d), UNCHANGED <<chunk>>,
               row'[d] = row[d] \/ row'[d].status = "PENDING"
        PROVE  Refilled(d)'
    BY <1>b, BeginFrame DEF Refilled, TypeOK, Past, Working
  <1>u. ASSUME UNCHANGED <<chunk, pc>>, Refilled(d),
               row'[d] = row[d] \/ row'[d].status # "INDEXED"
        PROVE  Refilled(d)'
    BY <1>u DEF Refilled
  <1>1. ASSUME NEW e \in Docs, Insert(e) \/ FinishCreate(e) PROVE Refilled(d)'
    <2>1. faults' = faults
      BY <1>1, <1>0 DEF Insert, FinishCreate, Answered
    <2> QED
      BY <1>1, <1>r, <1>b, <1>u, <2>1, CreateFrame
  <1>2. ASSUME NEW j \in Jobs, RequestProcess(j) PROVE Refilled(d)'
    BY <1>2, <1>r, <1>b DEF RequestProcess, stores
  <1>3. ASSUME NEW j \in Jobs, Run(j) PROVE Refilled(d)'
    <2>1. Answered
      BY <1>3, <1>0 DEF Run, Mark, Clear, Store, StoreRejected, IndexPoints, IndexEntries,
         ExtractEntity, Finish, FinishRejected, Fail, Throw
    <2> QED
      BY <1>3, <1>r, <2>1, RefillRun DEF Answered
  <1>4. ASSUME NEW c \in Deletes, Delete(c) PROVE Refilled(d)'
    <2>1. faults' = faults
      BY <1>4, <1>0 DEF Delete, SoftDelete, DropNode, ListPoints, DropPoints, DropEntries, Answered
    <2>2. row'[d] = row[d] \/ row'[d].status # "INDEXED"
      BY <1>4, DeleteFrame
    <2> QED
      BY <1>4, <1>r, <1>u, <2>1, <2>2, DeleteFrame
  <1>5. ~Crash
    BY <1>0 DEF Crash
  <1>6. CASE UNCHANGED vars
    BY <1>6, <1>r, <1>u DEF vars, stores, runs
  <1> QED
    BY <1>1, <1>2, <1>3, <1>4, <1>5, <1>6 DEF Next

\* Runs of processDocument that overlap undo each other's work, but while no
\* call is rejected an INDEXED document that no run works on has chunk rows.
THEOREM OverlapLeavesChunks == Spec => []OverlapKeepsChunks
  <1>1. Init => TypeOK /\ Refill
    BY InitTypeOK DEF Init, Refill, Refilled, Past, Working
  <1>2. TypeOK /\ Refill /\ [Next]_vars => (TypeOK /\ Refill)'
    BY NextTypeOK, RefillStep
  <1>3. TypeOK /\ Refill => OverlapKeepsChunks
    BY DEF Refill, Refilled, Past, OverlapKeepsChunks, Busy, InFlight, Ended
  <1> QED
    BY <1>1, <1>2, <1>3, PTL DEF Spec

-----------------------------------------------------------------------------
(* Runs that never overlap *)

Owns(j) == chunk[Target[j]] = Written(Empty, len[j], j)

\* For a document no two runs were in flight for: its one run in flight owns the
\* chunk rows once it stored them, and INDEXED means that a run completed, owns
\* them, and that a new run in flight has not moved yet.
Alone(d)    == \A j, k \in {r \in Jobs : Target[r] = d /\ InFlight(r)} : j = k
Owned(d)    == \A j \in Jobs : Target[j] = d /\ pc[j] \in Working => Owns(j)
Complete(d) == row[d].status = "INDEXED" =>
                 /\ \E j \in Jobs : Target[j] = d /\ pc[j] = "done" /\ Owns(j)
                 /\ \A j \in Jobs : Target[j] = d /\ InFlight(j) => pc[j] = "mark"
Serial(d)   == Alone(d) /\ Owned(d) /\ Complete(d)
SerialInv   == \A d \in Docs \ overlapped : Serial(d)

\* A run that is alone on its document owns the rows it has written.
LEMMA SerialRun ==
  ASSUME ChunkInv, NEW d \in Docs, Serial(d), NEW j \in Jobs, Run(j)
  PROVE  Serial(d)'
  <1> USE DEF TypeOK, ChunkInv, InFlight, Ended
  <1>f. /\ InFlight(j) /\ pc' = [pc EXCEPT ![j] = pc'[j]]
        /\ \A k \in Jobs \ {j} : len'[k] = len[k]
    BY RunFrame
  <1>a. Alone(d)'
    BY <1>f DEF Serial, Alone
  <1>e. CASE Target[j] # d
    <2>1. row'[d] = row[d] /\ chunk'[d] = chunk[d]
      BY <1>e, RunFrame
    <2>2. \A k \in Jobs : Target[k] = d => pc'[k] = pc[k] /\ len'[k] = len[k]
      BY <1>e, <1>f
    <2> QED
      BY <1>a, <2>1, <2>2, ZenonT(40) DEF Serial, Owned, Owns, Complete
  <1>d. CASE Target[j] = d
    <2>o. \A k \in Jobs : Target[k] = d /\ k # j => pc'[k] = pc[k] /\ ~InFlight(k)
      BY <1>d, <1>f DEF Serial, Alone
    <2>w. \A k \in Jobs : Target[k] = d /\ k # j => pc'[k] \notin Working
      BY <2>o DEF Working
    <2>i. row[d].status = "INDEXED" => pc[j] = "mark"
      BY <1>d, <1>f DEF Serial, Complete
    <2>1. CASE Mark(j) \/ Fail(j)
      <3>1. row'[d].status # "INDEXED"
        BY <1>d, <2>1 DEF Mark, Fail, SetStatus
      <3>2. pc'[j] \notin Working
        BY <2>1 DEF Mark, Fail, Goto, Working
      <3> QED
        BY <1>a, <2>w, <3>1, <3>2 DEF Serial, Owned, Complete
    <2>2. CASE Clear(j) \/ StoreRejected(j) \/ FinishRejected(j)
      <3>1. row'[d].status # "INDEXED"
        BY <2>2, <2>i DEF Clear, StoreRejected, FinishRejected, Goto, stores
      <3>2. pc'[j] \notin Working
        BY <2>2 DEF Clear, StoreRejected, FinishRejected, Goto, Working
      <3> QED
        BY <1>a, <2>w, <3>1, <3>2 DEF Serial, Owned, Complete
    <2>3. CASE Store(j)
      <3>1. PICK n \in Contents : /\ ~Collides(d, n)
                                  /\ len' = [len EXCEPT ![j] = n]
                                  /\ chunk' = [chunk EXCEPT ![d] = Written(@, n, j)]
        BY <1>d, <2>3 DEF Store
      <3>2. chunk'[d] = Written(Empty, len'[j], j)
        BY <3>1, StoreIntoEmpty
      <3>3. row'[d].status # "INDEXED"
        BY <2>3, <2>i DEF Store, Goto
      <3> QED
        BY <1>a, <1>d, <2>w, <3>2, <3>3 DEF Serial, Owned, Owns, Complete
    <2>4. CASE IndexPoints(j) \/ IndexEntries(j) \/ ExtractEntity(j)
      <3>1. /\ UNCHANGED <<row, chunk, len>>
            /\ pc[j] \in Working /\ pc[j] # "mark"
        BY <2>4 DEF IndexPoints, IndexEntries, ExtractEntity, Goto, Working
      <3>2. Owns(j)'
        BY <1>d, <3>1 DEF Serial, Owned, Owns
      <3> QED
        BY <1>a, <2>i, <2>w, <3>1, <3>2 DEF Serial, Owned, Complete
    <2>5. CASE Finish(j)
      <3>1. UNCHANGED <<chunk, len>> /\ pc[j] \in Working /\ pc'[j] = "done"
        BY <2>5 DEF Finish, Goto, Working
      <3>2. Owns(j)'
        BY <1>d, <3>1 DEF Serial, Owned, Owns
      <3>3. \A k \in Jobs : Target[k] = d => ~InFlight(k)'
        BY <2>o, <3>1
      <3> QED
        BY <1>a, <1>d, <2>w, <3>1, <3>2, <3>3 DEF Serial, Owned, Complete, Working
    <2>6. CASE Throw(j)
      <3>1. UNCHANGED <<row, chunk, len>> /\ pc'[j] = "threw" /\ pc[j] # "done"
        BY <2>6 DEF Throw, Goto, stores
      <3> QED
        BY <1>a, <2>o, <2>w, <3>1 DEF Serial, Owned, Owns, Complete, Working
    <2> QED
      BY <2>1, <2>2, <2>3, <2>4, <2>5, <2>6 DEF Run
  <1> QED
    BY <1>d, <1>e

\* Nothing but a run touches what a run alone has written.
LEMMA SerialInvStep ==
  ASSUME ChunkInv, SerialInv, [Next]_vars
  PROVE  SerialInv'
  <1> USE DEF TypeOK, ChunkInv
  <1> SUFFICES ASSUME NEW d \in Docs, d \notin overlapped'
               PROVE  Serial(d)'
    BY DEF SerialInv
  <1>s. overlapped \subseteq overlapped' => Serial(d)
    BY DEF SerialInv
  <1>b. ASSUME NEW j \in Jobs, Begin(j), UNCHANGED <<chunk, len>>,
               row'[d] = row[d] \/ row'[d].status = "PENDING"
        PROVE  Serial(d)'
    <2>1. Serial(d) /\ pc' = [pc EXCEPT ![j] = "mark"] /\ pc[j] = "idle"
      BY <1>b, <1>s, BeginFrame
    <2>2. Target[j] = d => \A k \in Jobs : Target[k] = d => ~InFlight(k)
      BY <1>b, BeginFrame DEF Busy
    <2>3. Alone(d)'
      BY <2>1, <2>2 DEF Serial, Alone, InFlight
    <2>4. Owned(d)'
      BY <1>b, <2>1 DEF Serial, Owned, Owns, Working
    <2>5. Complete(d)'
      BY <1>b, <2>1 DEF Serial, Complete, Owns, InFlight
    <2> QED
      BY <2>3, <2>4, <2>5 DEF Serial
  <1>u. ASSUME UNCHANGED <<chunk, len, pc, overlapped>>,
               row'[d] = row[d] \/ row'[d].status # "INDEXED"
        PROVE  Serial(d)'
    BY <1>u, <1>s DEF Serial, Alone, Owned, Owns, Complete, InFlight
  <1>1. ASSUME NEW e \in Docs, Insert(e) \/ FinishCreate(e) PROVE Serial(d)'
    BY <1>1, <1>b, <1>u, CreateFrame
  <1>2. ASSUME NEW j \in Jobs, RequestProcess(j) PROVE Serial(d)'
    BY <1>2, <1>b DEF RequestProcess, stores
  <1>3. ASSUME NEW j \in Jobs, Run(j) PROVE Serial(d)'
    BY <1>3, <1>s, RunFrame, SerialRun
  <1>4. ASSUME NEW c \in Deletes, Delete(c) PROVE Serial(d)'
    BY <1>4, <1>u, DeleteFrame
  <1>5. CASE Crash
    <2>1. Serial(d) /\ UNCHANGED <<row, chunk, len>>
      BY <1>5, <1>s DEF Crash, stores
    <2>2. \A j \in Jobs : IF InFlight(j) THEN pc'[j] = "lost" ELSE pc'[j] = pc[j]
      BY <1>5 DEF Crash
    <2>3. /\ \A j \in Jobs : ~InFlight(j)'
          /\ \A j \in Jobs : pc'[j] \in Working \cup {"done"} => pc'[j] = pc[j]
          /\ \A j \in Jobs : pc[j] = "done" => pc'[j] = "done"
      BY <2>2 DEF InFlight, Ended, Working
    <2> QED
      BY <2>1, <2>3 DEF Serial, Alone, Owned, Owns, Complete
  <1>6. CASE UNCHANGED vars
    BY <1>6, <1>u DEF vars, stores, runs
  <1> QED
    BY <1>1, <1>2, <1>3, <1>4, <1>5, <1>6 DEF Next

\* As long as no two runs of processDocument are ever in flight for a document,
\* INDEXED means that a run completed and that the chunk rows are all its own,
\* whatever calls are rejected and however often the process restarts.
THEOREM IndexedIsComplete == Spec => []SerialIndexedIsComplete
  <1>1. Init => ChunkInv /\ SerialInv
    <2>1. Init => \A d \in Docs : row[d].status # "INDEXED"
      BY DEF Init
    <2>2. Init => \A j \in Jobs : pc[j] = "idle"
      BY DEF Init
    <2>3. ASSUME Init, NEW d \in Docs PROVE Alone(d)
      BY <2>2, <2>3 DEF Alone, InFlight
    <2>4. ASSUME Init, NEW d \in Docs PROVE Owned(d)
      BY <2>2, <2>4 DEF Owned, Working
    <2>5. ASSUME Init, NEW d \in Docs PROVE Complete(d)
      BY <2>1, <2>5 DEF Complete
    <2>6. Init => SerialInv
      BY <2>3, <2>4, <2>5 DEF SerialInv, Serial
    <2> QED
      BY <2>6, ChunkInvInductive
  <1>2. ChunkInv /\ SerialInv /\ [Next]_vars => (ChunkInv /\ SerialInv)'
    BY ChunkInvInductive, SerialInvStep
  <1>3. SerialInv => SerialIndexedIsComplete
    BY DEF SerialInv, Serial, Complete, Owns, SerialIndexedIsComplete
  <1> QED
    BY <1>1, <1>2, <1>3, PTL DEF Spec

-----------------------------------------------------------------------------
(* The documents API implements DocumentLifecycle *)

\* No row is DELETED without deletedAt, and no run, delete or create is about a
\* document without a row; a run past "mark" has taken the row out of PENDING.
Moved == Working \cup {"clear", "store", "fail"}
RowInv ==
  /\ \A d \in Docs : row[d].status = "DELETED" => row[d].deleted
  /\ \A d \in Docs : row[d].deleted => row[d].status # "absent"
  /\ \A j \in Jobs : pc[j] # "idle" => row[Target[j]].status # "absent"
  /\ \A d \in creating : row[d].status # "absent"
  /\ \A j \in Jobs : pc[j] \in Moved => row[Target[j]].status # "PENDING"
LifeInv == TypeOK /\ RowInv

\* A run may change the status of its document, and nothing else of the row.
LEMMA RunRow ==
  ASSUME TypeOK, NEW j \in Jobs, Run(j), NEW d \in Docs
  PROVE  \/ row'[d] = row[d]
         \/ /\ row'[d].status \in {"PROCESSING", "INDEXED", "FAILED"}
            /\ row'[d].deleted = row[d].deleted
  <1>1. \/ row' = row
        \/ \E s \in {"PROCESSING", "INDEXED", "FAILED"} : SetStatus(Target[j], s)
    BY DEF Run, Mark, Clear, Store, StoreRejected, IndexPoints, IndexEntries, ExtractEntity,
       Finish, FinishRejected, Fail, Throw, stores
  <1>2. row \in [Docs -> [status : Status, deleted : BOOLEAN]] /\ Target[j] \in Docs
    BY TargetIsDoc DEF TypeOK
  <1>3. ASSUME NEW s \in {"PROCESSING", "INDEXED", "FAILED"}, SetStatus(Target[j], s)
        PROVE  \/ row'[d] = row[d]
               \/ row'[d] = [status |-> s, deleted |-> row[d].deleted]
    BY <1>2, <1>3 DEF SetStatus
  <1> QED
    BY <1>1, <1>3

\* What may happen to a row that is there: neither does it disappear, nor does
\* its status return to PENDING or its deletedAt to null.
LEMMA RowFrame ==
  ASSUME LifeInv, [Next]_vars, NEW d \in Docs, Exists(d)
  PROVE  \/ row'[d] = row[d]
         \/ /\ row'[d].status \in {"PROCESSING", "INDEXED", "FAILED"}
            /\ row'[d].deleted = row[d].deleted
         \/ row'[d].status = "DELETED" /\ row'[d].deleted
  <1> USE DEF LifeInv, TypeOK
  <1>1. ASSUME NEW e \in Docs, Insert(e) \/ FinishCreate(e)
        PROVE  row'[d] = row[d]
    BY <1>1 DEF Insert, FinishCreate, SetStatus, Exists
  <1>2. ASSUME NEW j \in Jobs, RequestProcess(j) PROVE row'[d] = row[d]
    BY <1>2 DEF RequestProcess, stores
  <1>3. ASSUME NEW j \in Jobs, Run(j)
        PROVE  \/ row'[d] = row[d]
               \/ /\ row'[d].status \in {"PROCESSING", "INDEXED", "FAILED"}
                  /\ row'[d].deleted = row[d].deleted
    BY <1>3, RunRow
  <1>4. ASSUME NEW c \in Deletes, Delete(c)
        PROVE  row'[d] = row[d] \/ row'[d] = [status |-> "DELETED", deleted |-> TRUE]
    BY <1>4, DeleteFrame
  <1>5. Crash \/ UNCHANGED vars => row'[d] = row[d]
    BY DEF Crash, vars, stores
  <1> QED
    BY <1>1, <1>2, <1>3, <1>4, <1>5 DEF Next

\* No step but a delete touches deletedAt, and a run in flight has a row.
LEMMA RowInvStep ==
  ASSUME LifeInv, [Next]_vars
  PROVE  RowInv'
  <1>x. \A d \in Docs : Exists(d) => /\ row'[d].status # "absent"
                                     /\ row[d].status # "PENDING" => row'[d].status # "PENDING"
    <2>1. ASSUME NEW d \in Docs, Exists(d)
          PROVE  row'[d].status # "absent" /\ (row[d].status # "PENDING" => row'[d].status # "PENDING")
      BY <2>1, RowFrame DEF Exists
    <2> QED
      BY <2>1
  <1>t. /\ TypeOK /\ creating \subseteq Docs /\ pc \in [Jobs -> JobPc]
        /\ row \in [Docs -> [status : Status, deleted : BOOLEAN]]
    BY DEF LifeInv, TypeOK
  <1>i. RowInv
    BY DEF LifeInv
  <1> USE DEF RowInv, Exists
  <1>b. ASSUME NEW j \in Jobs, Begin(j), Exists(Target[j]), creating' \subseteq creating,
               UNCHANGED row
        PROVE  RowInv'
    BY <1>b, <1>t, <1>i, BeginFrame DEF Exists, Moved, Working
  <1>u. ASSUME UNCHANGED <<pc, row>>, creating' \subseteq creating
        PROVE  RowInv'
    BY <1>u, <1>i
  <1>1. ASSUME NEW d \in Docs, Insert(d) PROVE RowInv'
    <2>1. /\ row' = [row EXCEPT ![d].status = "PENDING"] /\ ~Exists(d)
          /\ creating' = creating \cup {d} /\ UNCHANGED pc
      BY <1>1 DEF Insert, SetStatus, runs
    <2>2. \A j \in Jobs : pc[j] # "idle" => Target[j] # d
      BY <2>1, <1>i
    <2> QED
      BY <2>1, <2>2, <1>t, <1>i, TargetIsDoc DEF Moved, Working
  <1>2. ASSUME NEW d \in Docs, FinishCreate(d) PROVE RowInv'
    BY <1>2, <1>b, <1>u, <1>i DEF FinishCreate
  <1>3. ASSUME NEW j \in Jobs, RequestProcess(j) PROVE RowInv'
    BY <1>3, <1>b DEF RequestProcess, stores
  <1>4. ASSUME NEW j \in Jobs, Run(j) PROVE RowInv'
    <2>1. pc[j] # "idle" /\ Target[j] \in Docs /\ pc' = [pc EXCEPT ![j] = pc'[j]] /\ creating' = creating
      BY <1>4, <1>t, RunFrame, TargetIsDoc DEF InFlight
    <2>2. /\ \A d \in Docs : row'[d].deleted = row[d].deleted
          /\ \A d \in Docs : row'[d].status = "DELETED" => row[d].status = "DELETED"
      BY <1>4, <1>t, <2>1, RunRow
    <2>3. pc'[j] \in Moved => row'[Target[j]].status # "PENDING"
      BY <1>4, <1>t, <1>i, <2>1
      DEF Run, Mark, Clear, Store, StoreRejected, IndexPoints, IndexEntries, ExtractEntity,
          Finish, FinishRejected, Fail, Throw, Goto, SetStatus, stores, Moved, Working
    <2>4. \A k \in Jobs : pc'[k] \in Moved => row'[Target[k]].status # "PENDING"
      <3>1. ASSUME NEW k \in Jobs, k # j, pc'[k] \in Moved
            PROVE  row'[Target[k]].status # "PENDING"
        <4>1. pc[k] \in Moved /\ pc[k] # "idle"
          BY <1>t, <2>1, <3>1 DEF Moved, Working
        <4> QED
          BY <1>x, <1>i, <4>1, TargetIsDoc
      <3> QED
        BY <2>3, <3>1
    <2>5. \A k \in Jobs : pc'[k] # "idle" => row'[Target[k]].status # "absent"
      BY <1>x, <1>i, <1>t, <2>1, TargetIsDoc
    <2>6. /\ \A d \in Docs : row'[d].status = "DELETED" => row'[d].deleted
          /\ \A d \in Docs : row'[d].deleted => row'[d].status # "absent"
      BY <1>x, <1>i, <2>2
    <2>7. \A d \in creating : row'[d].status # "absent"
      BY <1>x, <1>i, <1>t
    <2>8. creating' = creating
      BY <2>1
    <2> QED
      BY <2>4, <2>5, <2>6, <2>7, <2>8
  <1>5. ASSUME NEW c \in Deletes, Delete(c) PROVE RowInv'
    <2>1. \A d \in Docs : \/ row'[d] = row[d]
                          \/ row'[d].status = "DELETED" /\ row'[d].deleted
      BY <1>5, <1>t, DeleteFrame
    <2>2. UNCHANGED <<pc, creating>>
      BY <1>5, <1>t, DeleteFrame
    <2>3. \A j \in Jobs : pc'[j] \in Moved => row'[Target[j]].status # "PENDING"
      BY <1>i, <2>1, <2>2, TargetIsDoc
    <2> QED
      BY <1>i, <1>t, <2>1, <2>2, <2>3, TargetIsDoc
  <1>6. CASE Crash
    <2>1. \A j \in Jobs : pc'[j] = pc[j] \/ (pc'[j] = "lost" /\ pc[j] # "idle")
      BY <1>6, <1>t DEF Crash, InFlight
    <2> QED
      BY <1>6, <1>i, <2>1 DEF Crash, stores, Moved, Working
  <1>7. CASE UNCHANGED vars
    BY <1>7, <1>u DEF vars, stores, runs
  <1> QED
    BY <1>1, <1>2, <1>3, <1>4, <1>5, <1>6, <1>7 DEF Next

\* What the API shows is a function, before a step and after it.
LEMMA ShownIsFunction ==
  /\ Shown = [e \in Docs |-> Shown[e]]
  /\ Shown' = [e \in Docs |-> Shown'[e]]
  BY DEF Shown

\* What is shown of one document changes when only its row does.
LEMMA ShownOfOne ==
  ASSUME NEW d \in Docs, \A e \in Docs \ {d} : row'[e] = row[e]
  PROVE  Shown' = [Shown EXCEPT ![d] = Shown'[d]]
  <1>1. \A e \in Docs \ {d} : Shown'[e] = Shown[e]
    BY DEF Shown, Exists
  <1> QED
    BY <1>1, ShownIsFunction

\* What a step of the system is to the documents API.
LEMMA LifecycleStep ==
  ASSUME LifeInv, [Next]_vars
  PROVE  [Lifecycle!LNext]_Shown
  <1> USE DEF LifeInv, TypeOK, RowInv, Exists
  <1>u. UNCHANGED row => UNCHANGED Shown
    BY DEF Shown
  <1>1. ASSUME NEW d \in Docs, Insert(d) PROVE Lifecycle!Appear(d)
    <2>1. Shown[d] = "absent" /\ Shown'[d] = "PENDING"
      BY <1>1 DEF Insert, SetStatus, Shown
    <2> QED
      BY <1>1, <2>1, ShownOfOne DEF Insert, SetStatus, Lifecycle!Appear, Lifecycle!Show
  <1>2. ASSUME NEW d \in Docs, FinishCreate(d) PROVE UNCHANGED Shown
    BY <1>2, <1>u DEF FinishCreate
  <1>3. ASSUME NEW j \in Jobs, RequestProcess(j) PROVE UNCHANGED Shown
    BY <1>3, <1>u DEF RequestProcess, stores
  <1>4. ASSUME NEW j \in Jobs, Run(j) PROVE [Lifecycle!LNext]_Shown
    <2> DEFINE d == Target[j]
    <2>1. d \in Docs /\ pc[j] # "idle" /\ row[d].status # "absent"
      BY <1>4, RunFrame, TargetIsDoc DEF InFlight
    <2>2. Shown' = [Shown EXCEPT ![d] = Shown'[d]]
      BY <1>4, <2>1, RunFrame, ShownOfOne
    <2>3. CASE row[d].deleted
      <3>1. row'[d].deleted /\ row'[d].status # "absent"
        BY <1>4, <2>1, <2>3, RunRow
      <3>2. Shown'[d] = Shown[d]
        BY <2>1, <2>3, <3>1 DEF Shown
      <3>3. Shown' = Shown
        BY <2>2, <3>2, ShownIsFunction
      <3> QED
        BY <3>3
    <2>4. CASE ~row[d].deleted
      <3>1. Shown[d] = row[d].status /\ row[d].status \in Lifecycle!Visible
        BY <2>1, <2>4 DEF Shown, Status, Lifecycle!Visible, Lifecycle!Outcomes
      <3>2. CASE Mark(j)
        <4>1. Shown'[d] = "PROCESSING"
          BY <2>1, <2>4, <3>2 DEF Mark, SetStatus, Shown
        <4>2. Lifecycle!Begin(d)
          BY <2>2, <3>1, <4>1 DEF Lifecycle!Begin, Lifecycle!Show
        <4> QED
          BY <2>1, <4>2 DEF Lifecycle!LNext
      <3>3. CASE Finish(j) \/ Fail(j)
        <4>1. row[d].status # "PENDING"
          BY <3>3 DEF Finish, Fail, Goto, Moved, Working
        <4>a. row' = [row EXCEPT ![d].status = "INDEXED"] \/ row' = [row EXCEPT ![d].status = "FAILED"]
          BY <3>3 DEF Finish, Fail, SetStatus
        <4>b. /\ ~row'[d].deleted
              /\ row'[d].status \in {"INDEXED", "FAILED"}
          BY <2>1, <2>4, <4>a
        <4>2. Shown'[d] \in Lifecycle!Outcomes
          BY <2>1, <4>b DEF Shown, Lifecycle!Outcomes
        <4>3. Lifecycle!Settle(d)
          BY <2>2, <3>1, <4>1, <4>2 DEF Lifecycle!Settle, Lifecycle!Show
        <4> QED
          BY <2>1, <4>3 DEF Lifecycle!LNext
      <3>4. CASE ~(Mark(j) \/ Finish(j) \/ Fail(j))
        BY <1>4, <1>u, <3>4
        DEF Run, Clear, Store, StoreRejected, IndexPoints, IndexEntries, ExtractEntity,
            FinishRejected, Throw, stores
      <3> QED
        BY <3>2, <3>3, <3>4
    <2> QED
      BY <2>3, <2>4
  <1>5. ASSUME NEW c \in Deletes, Delete(c) PROVE [Lifecycle!LNext]_Shown
    <2> DEFINE d == Target[c]
    <2>1. CASE SoftDelete(c)
      <3>1. /\ d \in Docs /\ row[d].status # "absent"
            /\ row' = [row EXCEPT ![d] = [status |-> "DELETED", deleted |-> TRUE]]
        BY <2>1, TargetIsDoc DEF SoftDelete
      <3>2. Shown'[d] = "gone" /\ Shown' = [Shown EXCEPT ![d] = Shown'[d]]
        BY <3>1, ShownOfOne DEF Shown
      <3>3. CASE row[d].deleted
        BY <3>1, <3>2, <3>3 DEF Shown
      <3>4. CASE ~row[d].deleted
        <4>1. Shown[d] \in Lifecycle!Visible
          BY <3>1, <3>4 DEF Shown, Status, Lifecycle!Visible, Lifecycle!Outcomes
        <4>2. Lifecycle!Hide(d)
          BY <3>2, <4>1 DEF Lifecycle!Hide, Lifecycle!Show
        <4> QED
          BY <3>1, <4>2 DEF Lifecycle!LNext
      <3> QED
        BY <3>3, <3>4
    <2>2. CASE ~SoftDelete(c)
      BY <1>5, <1>u, <2>2 DEF Delete, DropNode, ListPoints, DropPoints, DropEntries, stores
    <2> QED
      BY <2>1, <2>2
  <1>6. Crash \/ UNCHANGED vars => UNCHANGED Shown
    BY <1>u DEF Crash, vars, stores
  <1> QED
    BY <1>1, <1>2, <1>3, <1>4, <1>5, <1>6 DEF Next, Lifecycle!LNext

\* The documents API implements DocumentLifecycle: what it shows of a document
\* appears, is processed, settles and, once deleted, is gone for good.
THEOREM ImplementsLifecycle == Spec => LifecycleHolds
  <1>1. Init => LifeInv
    BY InitTypeOK DEF Init, LifeInv, RowInv, Moved, Working, Exists
  <1>2. LifeInv /\ [Next]_vars => LifeInv'
    BY NextTypeOK, RowInvStep DEF LifeInv
  <1>3. Init => Lifecycle!LInit
    BY DEF Init, Shown, Exists, Lifecycle!LInit
  <1>4. LifeInv /\ [Next]_vars => [Lifecycle!LNext]_Shown
    BY LifecycleStep
  <1> QED
    BY <1>1, <1>2, <1>3, <1>4, PTL DEF Spec, LifecycleHolds, Lifecycle!LSpec

-----------------------------------------------------------------------------
(* What a purge leaves *)

\* What an index holds of the runs that were done with it when the delete listed it.
Old(index, c) == {i \in Index : index[Target[c]][i] \in before[c]}
\* What the page of deleteQdrantChunks leaves at most.
Excess == IF MaxChunks > SearchLimit THEN MaxChunks - SearchLimit ELSE 0

PurgeInv ==
  \A c \in Deletes :
    /\ before[c] \subseteq PastIndexing
    /\ dpc[c] \in {"idle", "graph", "list"} => before[c] = {}
    /\ dpc[c] = "points" => Cardinality(Old(point, c) \ found[c]) <= Excess
    /\ dpc[c] \in {"keyword", "done"} => Cardinality(Old(point, c)) <= Excess
    /\ dpc[c] = "done" => Old(entry, c) = {}

\* The slots are as many as the most chunks.
LEMMA Slots ==
  /\ IsFiniteSet(Index) /\ Cardinality(Index) = MaxChunks /\ Excess \in Nat
  /\ \A S \in SUBSET Index : IsFiniteSet(S) /\ Cardinality(S) \in 0 .. MaxChunks
  /\ \A S, T \in SUBSET Index : S \subseteq T => Cardinality(S) <= Cardinality(T)
  <1>1. 0 \in Int /\ MaxChunks - 1 \in Int /\ ~(0 > MaxChunks - 1) /\ MaxChunks \in Nat
    BY BoundsAssumption
  <1>2. IsFiniteSet(Index) /\ Cardinality(Index) = MaxChunks
    BY <1>1, FS_Interval DEF Index
  <1>3. ASSUME NEW S \in SUBSET Index
        PROVE  IsFiniteSet(S) /\ Cardinality(S) \in 0 .. MaxChunks
    <2>1. IsFiniteSet(S) /\ Cardinality(S) <= MaxChunks
      BY <1>2, FS_Subset
    <2> QED
      BY <1>1, <2>1, FS_CardinalityType
  <1>4. ASSUME NEW S \in SUBSET Index, NEW T \in SUBSET Index, S \subseteq T
        PROVE  Cardinality(S) <= Cardinality(T)
    BY <1>3, <1>4, FS_Subset
  <1> QED
    BY <1>2, <1>3, <1>4, BoundsAssumption DEF Excess

\* A page leaves no more than the chunks exceed it by.
LEMMA PageLeaves ==
  ASSUME NEW d \in Docs, NEW S \in Page(d)
  PROVE  /\ S \subseteq Points(d)
         /\ Cardinality(Points(d) \ S) <= Excess
         /\ S = {} => Points(d) = {}
  <1>1. S \subseteq Points(d) /\ Points(d) \subseteq Index
    BY DEF Page, Points
  <1>2. CASE Cardinality(Points(d)) <= SearchLimit
    <2>1. S = Points(d)
      BY <1>2 DEF Page
    <2>2. Points(d) \ S = {}
      BY <2>1
    <2> QED
      BY <1>1, <2>1, <2>2, FS_EmptySet, Slots
  <1>3. CASE ~(Cardinality(Points(d)) <= SearchLimit)
    <2>1. Cardinality(S) = SearchLimit
      BY <1>3 DEF Page
    <2>2. IsFiniteSet(S) /\ IsFiniteSet(Points(d)) /\ Cardinality(Points(d)) \in 0 .. MaxChunks
      BY <1>1, Slots
    <2>3. MaxChunks > SearchLimit /\ Excess = MaxChunks - SearchLimit
      BY <1>3, <2>2, BoundsAssumption DEF Excess
    <2>4. S # {}
      BY <2>1, FS_EmptySet, BoundsAssumption
    <2>5. IsFiniteSet(Points(d) \ S) /\ Cardinality(Points(d) \ S) \in Nat
      <3>1. Points(d) \ S \in SUBSET Index
        BY <1>1
      <3> QED
        BY <3>1, Slots
    <2>6. (Points(d) \ S) \cup S = Points(d) /\ (Points(d) \ S) \cap S = {}
      BY <1>1
    <2>7. Cardinality(Points(d)) =
            Cardinality(Points(d) \ S) + Cardinality(S) - Cardinality((Points(d) \ S) \cap S)
      BY <2>2, <2>5, <2>6, FS_Union
    <2>8. Cardinality(Points(d)) = Cardinality(Points(d) \ S) + SearchLimit
      <3>1. Cardinality((Points(d) \ S) \cap S) = 0
        BY <2>6, FS_EmptySet
      <3> QED
        BY <2>1, <2>5, <2>7, <3>1, BoundsAssumption
    <2>9. Cardinality(Points(d) \ S) <= MaxChunks - SearchLimit
      BY <2>2, <2>5, <2>8, BoundsAssumption
    <2> QED
      BY <1>1, <2>3, <2>4, <2>9
  <1> QED
    BY <1>2, <1>3

\* A run that is done with the indexes stays so.
LEMMA PastStays ==
  ASSUME TypeOK, [Next]_vars, NEW j \in PastIndexing
  PROVE  j \in PastIndexing'
  <1> DEFINE PastPc == Ended \cup {"graph", "finish", "fail"}
  <1> SUFFICES pc'[j] \in PastPc
    BY DEF PastIndexing
  <1>0. j \in Jobs /\ pc[j] \in PastPc /\ pc \in [Jobs -> JobPc]
    BY DEF PastIndexing, TypeOK
  <1>1. ASSUME NEW d \in Docs, Insert(d) \/ FinishCreate(d) PROVE pc'[j] \in PastPc
    BY <1>0, <1>1 DEF Insert, FinishCreate, Begin, runs, Ended
  <1>2. ASSUME NEW k \in Jobs, RequestProcess(k) PROVE pc'[j] \in PastPc
    BY <1>0, <1>2 DEF RequestProcess, Begin, Ended
  <1>3. ASSUME NEW k \in Jobs, Run(k) PROVE pc'[j] \in PastPc
    BY <1>0, <1>3 DEF Run, Mark, Clear, Store, StoreRejected, IndexPoints, IndexEntries,
       ExtractEntity, Finish, FinishRejected, Fail, Throw, Goto, Ended
  <1>4. ASSUME NEW c \in Deletes, Delete(c) PROVE pc'[j] \in PastPc
    BY <1>0, <1>4 DEF Delete, SoftDelete, DropNode, ListPoints, DropPoints, DropEntries, runs
  <1>5. CASE Crash
    BY <1>0, <1>5 DEF Crash, Ended
  <1>6. CASE UNCHANGED vars
    BY <1>0, <1>6 DEF vars, runs
  <1> QED
    BY <1>1, <1>2, <1>3, <1>4, <1>5, <1>6 DEF Next

\* No step adds to what an index holds of runs that are done with it.
LEMMA OldShrinks ==
  ASSUME TypeOK, PurgeInv, [Next]_vars, NEW c \in Deletes, before'[c] = before[c]
  PROVE  Old(point, c)' \subseteq Old(point, c) /\ Old(entry, c)' \subseteq Old(entry, c)
  <1>0. /\ Target[c] \in Docs /\ before[c] \subseteq PastIndexing /\ NoJob \notin before[c]
        /\ point \in [Docs -> [Index -> Writers]] /\ entry \in [Docs -> [Index -> Writers]]
    BY TargetIsDoc, NoJobAssumption DEF PurgeInv, TypeOK
  <1>1. ASSUME \A i \in Index : \/ point'[Target[c]][i] = point[Target[c]][i]
                                \/ point'[Target[c]][i] \notin before[c],
               \A i \in Index : \/ entry'[Target[c]][i] = entry[Target[c]][i]
                                \/ entry'[Target[c]][i] \notin before[c]
        PROVE  Old(point, c)' \subseteq Old(point, c) /\ Old(entry, c)' \subseteq Old(entry, c)
    BY <1>1 DEF Old
  <1>2. ASSUME NEW j \in Jobs, Store(j)
        PROVE  point' = point /\ entry' = entry
    BY <1>2 DEF Store
  <1>3. ASSUME NEW j \in Jobs, IndexPoints(j)
        PROVE  /\ entry' = entry
               /\ \A i \in Index : \/ point'[Target[c]][i] = point[Target[c]][i]
                                   \/ point'[Target[c]][i] \notin before[c]
    <2>1. j \notin before[c]
      BY <1>0, <1>3 DEF IndexPoints, Goto, PastIndexing, Ended
    <2>2. \/ point' = point
          \/ point' = [point EXCEPT ![Target[j]] = Written(@, len[j], j)]
      BY <1>3 DEF IndexPoints
    <2>3. \A i \in Index : point'[Target[c]][i] \in {point[Target[c]][i], j}
      BY <1>0, <2>2 DEF Written
    <2> QED
      BY <1>3, <2>1, <2>3 DEF IndexPoints
  <1>4. ASSUME NEW j \in Jobs, IndexEntries(j)
        PROVE  /\ point' = point
               /\ \A i \in Index : \/ entry'[Target[c]][i] = entry[Target[c]][i]
                                   \/ entry'[Target[c]][i] \notin before[c]
    <2>1. j \notin before[c]
      BY <1>0, <1>4 DEF IndexEntries, Goto, PastIndexing, Ended
    <2>2. PICK taken : entry' = [entry EXCEPT ![Target[j]] =
                                   [i \in Index |-> IF i \in taken THEN j ELSE @[i]]]
      BY <1>4 DEF IndexEntries
    <2>3. \A i \in Index : entry'[Target[c]][i] \in {entry[Target[c]][i], j}
      BY <1>0, <2>2
    <2> QED
      BY <1>4, <2>1, <2>3 DEF IndexEntries
  <1>5. ASSUME NEW e \in Deletes, DropPoints(e)
        PROVE  /\ entry' = entry
               /\ \A i \in Index : \/ point'[Target[c]][i] = point[Target[c]][i]
                                   \/ point'[Target[c]][i] \notin before[c]
    <2>1. \/ point' = point
          \/ point' = [point EXCEPT ![Target[e]] =
                         [i \in Index |-> IF i \in found[e] THEN NoJob ELSE @[i]]]
      BY <1>5 DEF DropPoints
    <2>2. \A i \in Index : point'[Target[c]][i] \in {point[Target[c]][i], NoJob}
      BY <1>0, <2>1
    <2> QED
      BY <1>0, <1>5, <2>2 DEF DropPoints
  <1>6. ASSUME NEW e \in Deletes, DropEntries(e)
        PROVE  /\ point' = point
               /\ \A i \in Index : \/ entry'[Target[c]][i] = entry[Target[c]][i]
                                   \/ entry'[Target[c]][i] \notin before[c]
    <2>1. entry' = entry \/ entry' = [entry EXCEPT ![Target[e]] = Empty]
      BY <1>6 DEF DropEntries
    <2>2. \A i \in Index : entry'[Target[c]][i] \in {entry[Target[c]][i], NoJob}
      BY <1>0, <2>1 DEF Empty
    <2> QED
      BY <1>0, <1>6, <2>2 DEF DropEntries
  <1> QED
    BY <1>1, <1>2, <1>3, <1>4, <1>5, <1>6, EntryFrame

\* Another call's step leaves a delete where it was, or cuts it off.
LEMMA CallFrame ==
  ASSUME TypeOK, [Next]_vars, NEW c \in Deletes, ~Delete(c)
  PROVE  /\ before'[c] = before[c] /\ found'[c] = found[c]
         /\ dpc'[c] = dpc[c] \/ dpc'[c] = "lost"
  <1>1. ASSUME NEW d \in Docs, Insert(d) \/ FinishCreate(d) PROVE UNCHANGED calls
    BY <1>1 DEF Insert, FinishCreate
  <1>2. ASSUME NEW j \in Jobs, RequestProcess(j) \/ Run(j) PROVE UNCHANGED calls
    BY <1>2 DEF RequestProcess, Run, Mark, Clear, Store, StoreRejected, IndexPoints, IndexEntries,
       ExtractEntity, Finish, FinishRejected, Fail, Throw
  <1>3. ASSUME NEW e \in Deletes \ {c}, Delete(e)
        PROVE  before'[c] = before[c] /\ found'[c] = found[c] /\ dpc'[c] = dpc[c]
    BY <1>3 DEF TypeOK, Delete, SoftDelete, DropNode, ListPoints, DropPoints, DropEntries, GotoD
  <1>4. CASE Crash
    BY <1>4 DEF Crash
  <1>5. CASE UNCHANGED vars
    BY <1>5 DEF vars, calls
  <1> QED
    BY <1>1, <1>2, <1>3, <1>4, <1>5 DEF Next, calls

\* A delete's own steps take what it listed, and all the entries, or forget whom it met.
LEMMA PurgeSteps ==
  ASSUME TypeOK, PurgeInv, [Next]_vars, NEW c \in Deletes, Delete(c)
  PROVE  /\ before'[c] \subseteq PastIndexing
         /\ dpc'[c] \in {"idle", "graph", "list"} => before'[c] = {}
         /\ dpc'[c] = "points" => Cardinality(Old(point, c)' \ found'[c]) <= Excess
         /\ dpc'[c] \in {"keyword", "done"} => Cardinality(Old(point, c)') <= Excess
         /\ dpc'[c] = "done" => Old(entry, c)' = {}
  <1>0. /\ before[c] \subseteq PastIndexing /\ Target[c] \in Docs
        /\ dpc \in [Deletes -> DelPc] /\ before \in [Deletes -> SUBSET Jobs]
        /\ found \in [Deletes -> SUBSET Index]
        /\ point \in [Docs -> [Index -> Writers]] /\ entry \in [Docs -> [Index -> Writers]]
    BY TargetIsDoc DEF PurgeInv, TypeOK
  <1>1. ASSUME before'[c] = {}
        PROVE  Old(entry, c)' = {} /\ Old(point, c)' = {} /\ Cardinality(Old(point, c)') <= Excess
    <2>1. Old(entry, c)' = {} /\ Old(point, c)' = {}
      BY <1>1 DEF Old
    <2> QED
      BY <2>1, FS_EmptySet, Slots
  <1>2. CASE SoftDelete(c) \/ DropNode(c)
    <2>1. dpc[c] \in {"idle", "graph"} /\ dpc'[c] \in {"graph", "list"} /\ before' = before
      BY <1>0, <1>2 DEF SoftDelete, DropNode, GotoD
    <2>2. before[c] = {}
      BY <2>1 DEF PurgeInv
    <2> QED
      BY <2>1, <2>2
  <1>3. CASE ListPoints(c)
    <2>1. dpc[c] = "list" /\ point' = point /\ before[c] = {} /\ dpc'[c] \in {"keyword", "points"}
      BY <1>0, <1>3 DEF ListPoints, GotoD, stores, PurgeInv
    <2>2. CASE before' = before /\ dpc'[c] = "keyword"
      BY <1>1, <2>1, <2>2
    <2>3. CASE ~(before' = before /\ dpc'[c] = "keyword")
      <3>1. PICK S \in Page(Target[c]) :
              /\ dpc' = [dpc EXCEPT ![c] = IF S = {} THEN "keyword" ELSE "points"]
              /\ found' = [found EXCEPT ![c] = S]
              /\ before' = [before EXCEPT ![c] = PastIndexing]
        BY <1>0, <1>3, <2>3 DEF ListPoints, GotoD
      <3>2. /\ before'[c] = PastIndexing /\ found'[c] = S
            /\ dpc'[c] = IF S = {} THEN "keyword" ELSE "points"
        BY <1>0, <3>1
      <3>3. PastIndexing \subseteq Jobs /\ NoJob \notin PastIndexing
        BY NoJobAssumption DEF PastIndexing
      <3>4. Old(point, c)' \subseteq Points(Target[c])
        BY <2>1, <3>2, <3>3 DEF Old, Points
      <3>5. CASE S = {}
        <4>1. Old(point, c)' = {}
          BY <1>0, <3>4, <3>5, PageLeaves
        <4> QED
          BY <3>2, <3>5, <4>1, FS_EmptySet, Slots
      <3>6. CASE S # {}
        <4>1. Old(point, c)' \ S \subseteq Points(Target[c]) \ S
          BY <3>4
        <4>2. Cardinality(Points(Target[c]) \ S) <= Excess
          BY <1>0, PageLeaves
        <4>3. Points(Target[c]) \ S \in SUBSET Index /\ Old(point, c)' \ S \in SUBSET Index
          BY DEF Points, Old
        <4>4. Cardinality(Old(point, c)' \ S) <= Cardinality(Points(Target[c]) \ S)
          BY <4>1, <4>3, Slots
        <4>5. /\ Cardinality(Old(point, c)' \ S) \in Nat /\ Excess \in Nat
              /\ Cardinality(Points(Target[c]) \ S) \in Nat
          BY <4>3, Slots
        <4>6. Cardinality(Old(point, c)' \ S) <= Excess
          BY <4>2, <4>4, <4>5
        <4> QED
          BY <3>2, <3>6, <4>6
      <3> QED
        BY <3>5, <3>6
    <2> QED
      BY <2>2, <2>3
  <1>4. CASE DropPoints(c)
    <2>1. dpc[c] = "points" /\ dpc'[c] = "keyword"
      BY <1>0, <1>4 DEF DropPoints, GotoD
    <2>2. CASE before' = [before EXCEPT ![c] = {}]
      BY <1>0, <1>1, <2>1, <2>2
    <2>3. CASE /\ point' = [point EXCEPT ![Target[c]] =
                              [i \in Index |-> IF i \in found[c] THEN NoJob ELSE @[i]]]
               /\ before' = before
      <3>1. NoJob \notin before[c]
        BY <1>0, NoJobAssumption
      <3>2. Old(point, c)' \subseteq Old(point, c) \ found[c]
        BY <1>0, <2>3, <3>1 DEF Old
      <3>3. Old(point, c) \ found[c] \in SUBSET Index /\ Old(point, c)' \in SUBSET Index
        BY DEF Old
      <3>4. Cardinality(Old(point, c)') <= Cardinality(Old(point, c) \ found[c])
        BY <3>2, <3>3, Slots
      <3>5. Cardinality(Old(point, c) \ found[c]) <= Excess
        BY <2>1 DEF PurgeInv
      <3>6. /\ Cardinality(Old(point, c)') \in Nat /\ Excess \in Nat
            /\ Cardinality(Old(point, c) \ found[c]) \in Nat
        BY <3>3, Slots
      <3>7. Cardinality(Old(point, c)') <= Excess
        BY <3>4, <3>5, <3>6
      <3> QED
        BY <1>0, <2>1, <2>3, <3>7
    <2> QED
      BY <1>4, <2>2, <2>3 DEF DropPoints
  <1>5. CASE DropEntries(c)
    <2>1. dpc[c] = "keyword" /\ dpc'[c] = "done" /\ point' = point
      BY <1>0, <1>5 DEF DropEntries, GotoD
    <2>2. CASE before' = [before EXCEPT ![c] = {}]
      BY <1>0, <1>1, <2>1, <2>2
    <2>3. CASE entry' = [entry EXCEPT ![Target[c]] = Empty] /\ before' = before
      <3>1. NoJob \notin before[c]
        BY <1>0, NoJobAssumption
      <3>2. Old(entry, c)' = {}
        BY <1>0, <2>3, <3>1 DEF Old, Empty
      <3>3. Old(point, c)' = Old(point, c)
        BY <2>1, <2>3 DEF Old
      <3>4. Cardinality(Old(point, c)) <= Excess
        BY <2>1 DEF PurgeInv
      <3> QED
        BY <1>0, <2>1, <2>3, <3>2, <3>3, <3>4
    <2> QED
      BY <1>5, <2>2, <2>3 DEF DropEntries
  <1> QED
    BY <1>2, <1>3, <1>4, <1>5 DEF Delete

\* What deletes leave stays within the page.
LEMMA PurgeInvStep ==
  ASSUME TypeOK, PurgeInv, [Next]_vars
  PROVE  PurgeInv'
  <1> SUFFICES ASSUME NEW c \in Deletes
               PROVE  /\ before'[c] \subseteq PastIndexing'
                      /\ dpc'[c] \in {"idle", "graph", "list"} => before'[c] = {}
                      /\ dpc'[c] = "points" => Cardinality(Old(point, c)' \ found'[c]) <= Excess
                      /\ dpc'[c] \in {"keyword", "done"} => Cardinality(Old(point, c)') <= Excess
                      /\ dpc'[c] = "done" => Old(entry, c)' = {}
    BY DEF PurgeInv
  <1>1. PastIndexing \subseteq PastIndexing'
    BY PastStays
  <1>2. CASE Delete(c)
    BY <1>1, <1>2, PurgeSteps
  <1>3. CASE ~Delete(c)
    <2>1. /\ before'[c] = before[c] /\ found'[c] = found[c]
          /\ dpc'[c] = dpc[c] \/ dpc'[c] = "lost"
      BY <1>3, CallFrame
    <2>2. Old(point, c)' \subseteq Old(point, c) /\ Old(entry, c)' \subseteq Old(entry, c)
      BY <2>1, OldShrinks
    <2>3. /\ before[c] \subseteq PastIndexing
          /\ dpc[c] \in {"idle", "graph", "list"} => before[c] = {}
          /\ dpc[c] = "points" => Cardinality(Old(point, c) \ found[c]) <= Excess
          /\ dpc[c] \in {"keyword", "done"} => Cardinality(Old(point, c)) <= Excess
          /\ dpc[c] = "done" => Old(entry, c) = {}
      BY DEF PurgeInv
    <2>4. /\ Old(point, c) \in SUBSET Index /\ Old(point, c)' \in SUBSET Index
          /\ Old(point, c) \ found[c] \in SUBSET Index
          /\ Old(point, c)' \ found'[c] \in SUBSET Index
      BY DEF Old
    <2>5. /\ Cardinality(Old(point, c)') <= Cardinality(Old(point, c))
          /\ Cardinality(Old(point, c)' \ found'[c]) <= Cardinality(Old(point, c) \ found[c])
      BY <2>1, <2>2, <2>4, Slots
    <2>6. /\ Cardinality(Old(point, c)) \in Nat /\ Cardinality(Old(point, c)') \in Nat
          /\ Cardinality(Old(point, c) \ found[c]) \in Nat
          /\ Cardinality(Old(point, c)' \ found'[c]) \in Nat /\ Excess \in Nat
      BY <2>4, Slots
    <2>7. dpc'[c] = "points" => Cardinality(Old(point, c)' \ found'[c]) <= Excess
      BY <2>1, <2>3, <2>5, <2>6
    <2>8. dpc'[c] \in {"keyword", "done"} => Cardinality(Old(point, c)') <= Excess
      BY <2>1, <2>3, <2>5, <2>6
    <2> QED
      BY <1>1, <2>1, <2>2, <2>3, <2>7, <2>8
  <1> QED
    BY <1>2, <1>3

\* A delete that went through leaves, of the runs that were done with the indexes, nothing
\* but what the page of its search could not show, for any page and any number of chunks.
THEOREM PurgeBounded == Spec => []PurgeLeavesOnlyLateWrites
  <1>1. Init => PurgeInv
    BY DEF Init, PurgeInv
  <1>2. PurgeInv => PurgeLeavesOnlyLateWrites
    BY DEF PurgeInv, PurgeLeavesOnlyLateWrites, Old, Excess
  <1>3. TypeOK /\ PurgeInv /\ [Next]_vars => PurgeInv'
    BY PurgeInvStep
  <1> QED
    BY <1>1, <1>2, <1>3, TypeCorrect, PTL DEF Spec

==============================================================================
