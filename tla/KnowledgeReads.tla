---------------------------- MODULE KnowledgeReads ----------------------------
(***************************************************************************)
(* The read paths over the stores that DocumentPipeline writes: which      *)
(* documents each may show to a user of the organization, the query        *)
(* abstracted to one that every text matches.                              *)
(***************************************************************************)
EXTENDS DocumentPipeline

Live == {d \in Docs : Exists(d) /\ ~row[d].deleted}
HasChunks == {d \in Docs : chunk[d] # Empty}

\* SearchService.keywordSearchFallback: indexed documents, and chunks of live ones.
SearchFallback == {d \in Live : row[d].status = "INDEXED"} \cup (HasChunks \cap Live)

\* SearchService.getSearchSuggestions: the titles of live documents, and chunks.
SuggestedRows == Live \cup HasChunks

\* ChatService.keywordSearch where OpenSearch is not available.
ChatFallback == {d \in Live : row[d].status = "INDEXED"} \cup HasChunks

\* What users read of PostgreSQL, the store with deletedAt.
PostgresReads == SearchFallback \cup SuggestedRows \cup ChatFallback

\* "Soft-delete filtering everywhere (deletedAt: null)", DATABASE_SPEC.md:94: no
\* query of documents or chunks shows a document that was deleted.  A soft delete
\* keeps the chunk rows, and two queries ask for the chunks of the organization's
\* documents, deleted or not: the chat's fallback (chat.service.ts:195) and the
\* suggestions (search.service.ts:260).
SoftDeleteFilteredEverywhere == \A d \in Docs : row[d].deleted => d \notin PostgresReads

==============================================================================
