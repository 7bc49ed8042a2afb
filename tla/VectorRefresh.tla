----------------------------- MODULE VectorRefresh -----------------------------
(***************************************************************************)
(* refresh-vector.ts, which writes the chunk rows of PostgreSQL to the     *)
(* vector store again, while the server indexes and deletes documents and  *)
(* the store may lose its volume.                                          *)
(*                                                                         *)
(* A document has one chunk row.  Its point is without organization        *)
(* ("bare") where the script wrote it, with it ("scoped") where the server *)
(* did.  The runs of one document do not overlap here: DocumentPipeline    *)
(* has those that do.                                                      *)
(***************************************************************************)
EXTENDS Integers, FiniteSets, FiniteSetsExt

CONSTANTS
  Texts,       \* documents of the organization
  Take,        \* the most rows the script reads: 20000 in the code
  BatchSize    \* 100 in the code

ASSUME RefreshAssumption == Take \in Nat \ {0} /\ BatchSize \in Nat \ {0}

VARIABLES
  chunkRows, trash,        \* documents with a chunk row; those that are soft-deleted
  vector,                  \* of each document: its point, "none", "bare" or "scoped"
  collection,              \* whether the collection exists
  indexing, purging,       \* of each document: the next step of its run, of its delete
  script, fetched, unwritten,  \* the script: step, the rows it read, those left to write
  tardy,                   \* history: documents indexed after their purge, or never purged
  dropped                  \* history: documents that lost their point since the script read

serverVars  == <<chunkRows, trash, indexing, purging>>
scriptVars  == <<script, fetched, unwritten>>
refreshVars == <<serverVars, scriptVars, vector, collection, tardy, dropped>>

RefreshInit ==
  /\ chunkRows = {} /\ trash = {} /\ vector = [d \in Texts |-> "none"]
  /\ collection = TRUE
  /\ indexing = [d \in Texts |-> "idle"] /\ purging = [d \in Texts |-> "idle"]
  /\ script = "idle" /\ fetched = {} /\ unwritten = {}
  /\ tardy = {} /\ dropped = {}

----------------------------------------------------------------------------
(* the server *)

\* processDocument removes the rows, deleted document or not, and stores new ones.
ClearRows(d) ==
  /\ indexing[d] = "idle" /\ indexing' = [indexing EXCEPT ![d] = "store"]
  /\ chunkRows' = chunkRows \ {d}
  /\ UNCHANGED <<trash, purging, scriptVars, vector, collection, tardy, dropped>>

StoreRows(d) ==
  /\ indexing[d] = "store" /\ indexing' = [indexing EXCEPT ![d] = "points"]
  /\ chunkRows' = chunkRows \cup {d}
  /\ UNCHANGED <<trash, purging, scriptVars, vector, collection, tardy, dropped>>

\* indexDocumentChunks, which swallows what fails.
UpsertPoints(d) ==
  /\ indexing[d] = "points" /\ indexing' = [indexing EXCEPT ![d] = "idle"]
  /\ \/ /\ collection /\ vector' = [vector EXCEPT ![d] = "scoped"]
        /\ tardy' = IF purging[d] = "done" THEN tardy \cup {d} ELSE tardy
     \/ UNCHANGED <<vector, tardy>>
  /\ UNCHANGED <<chunkRows, trash, purging, scriptVars, collection, dropped>>

TrashDocument(d) ==
  /\ purging[d] = "idle" /\ purging' = [purging EXCEPT ![d] = "points"]
  /\ trash' = trash \cup {d}
  /\ UNCHANGED <<chunkRows, indexing, scriptVars, vector, collection, tardy, dropped>>

\* deleteQdrantChunks asks for documentId alone, and swallows what fails.
PurgePoints(d) ==
  /\ purging[d] = "points" /\ purging' = [purging EXCEPT ![d] = "done"]
  /\ \/ /\ vector' = [vector EXCEPT ![d] = "none"] /\ dropped' = dropped \cup {d}
        /\ UNCHANGED tardy
     \/ tardy' = tardy \cup {d} /\ UNCHANGED <<vector, dropped>>
  /\ UNCHANGED <<chunkRows, trash, indexing, scriptVars, collection>>

LoseVolume ==
  /\ collection /\ collection' = FALSE
  /\ vector' = [d \in Texts |-> "none"] /\ dropped' = Texts
  /\ UNCHANGED <<serverVars, scriptVars, tardy>>

\* A server that boots makes the collection, if Qdrant answers, and has no run of before.
Boot ==
  /\ collection' \in {collection, TRUE}
  /\ indexing' = [d \in Texts |-> "idle"]
  /\ purging' = [d \in Texts |-> IF purging[d] = "points" THEN "done" ELSE purging[d]]
  /\ tardy' = tardy \cup {d \in Texts : purging[d] = "points"}
  /\ UNCHANGED <<chunkRows, trash, scriptVars, vector, dropped>>

----------------------------------------------------------------------------
(* the script *)

\* The first n rows of S, whatever their order, or all if there are fewer.
FirstOf(n, S) == kSubset(IF Cardinality(S) < n THEN Cardinality(S) ELSE n, S)

\* The rows of deleted documents are read like the others'.
ReadRows ==
  /\ script = "idle"
  /\ \E S \in FirstOf(Take, chunkRows) :
       fetched' = S /\ unwritten' = S /\ script' = IF S = {} THEN "done" ELSE "ensure"
  /\ dropped' = {}
  /\ UNCHANGED <<serverVars, vector, collection, tardy>>

EnsureCollection ==
  /\ script = "ensure" /\ script' = "upsert" /\ collection' = TRUE
  /\ UNCHANGED <<serverVars, fetched, unwritten, vector, tardy, dropped>>

\* Mutant: the payload has the organization.
PointWithOrganization == "scoped"
\* The payload names the document, not the organization.
Point == "bare"

\* Embeddings do not fail: the fallback makes them.
UpsertBatch ==
  /\ script = "upsert" /\ collection
  /\ \E B \in FirstOf(BatchSize, unwritten) :
       /\ vector' = [d \in Texts |-> IF d \in B THEN Point ELSE vector[d]]
       /\ unwritten' = unwritten \ B
       /\ script' = IF unwritten' = {} THEN "done" ELSE "upsert"
       /\ dropped' = dropped \ B
  /\ UNCHANGED <<serverVars, fetched, collection, tardy>>

\* PostgreSQL or Qdrant fails: the script exits with what it has written.
RefreshFails ==
  /\ script \in {"idle", "ensure", "upsert"} /\ script' = "failed"
  /\ UNCHANGED <<serverVars, fetched, unwritten, vector, collection, tardy, dropped>>

RefreshAgain ==
  /\ script \in {"done", "failed"} /\ script' = "idle" /\ fetched' = {} /\ unwritten' = {}
  /\ UNCHANGED <<serverVars, vector, collection, tardy, dropped>>

RefreshNext ==
  \/ \E d \in Texts : ClearRows(d) \/ StoreRows(d) \/ UpsertPoints(d) \/ TrashDocument(d)
                        \/ PurgePoints(d)
  \/ LoseVolume \/ Boot
  \/ ReadRows \/ EnsureCollection \/ UpsertBatch \/ RefreshFails \/ RefreshAgain

RefreshSpec == RefreshInit /\ [][RefreshNext]_refreshVars

----------------------------------------------------------------------------
(* Properties *)

\* What a vector search of the organization shows: it asks for organizationId.
ByVector == {d \in Texts : vector[d] = "scoped"}

\* Whenever the script runs, a search shows a purged document only where a run indexed it
\* after the purge, or the purge failed; and each row a script that ends well has read
\* has a point, unless it was dropped since (refresh-vector.ts:19, 70).
RefreshRevivesNothing ==
  /\ \A d \in ByVector : purging[d] = "done" => d \in tardy
  /\ script = "done" => \A d \in fetched \ dropped : vector[d] # "none"

\* "Qdrant is derivable (re-indexable)", adrs/0002-polyglot-persistence.md:13: once the
\* script has written the rows, a search shows those of them whose documents are live.
\* The points it writes lack what the searches ask for (refresh-vector.ts:79,
\* search.service.ts:201, chat.service.ts:115).
RefreshRestoresSearch ==
  script = "done" => fetched \ (dropped \cup trash) \subseteq ByVector

==============================================================================
