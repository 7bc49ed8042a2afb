----------------------------- MODULE SearchRequests ----------------------------
(***************************************************************************)
(* One GET /search: the controller's call of SearchService.hybridSearch,   *)
(* its sources asked one after another, and the page it answers, while     *)
(* documents are indexed and deleted and the stores may fail.              *)
(*                                                                         *)
(* A document has one chunk, in PostgreSQL and both indexes.  What it      *)
(* mentions is a constant, the scores of the hits are any.                 *)
(***************************************************************************)
EXTENDS Integers, FiniteSets, FiniteSetsExt

CONSTANTS
  Orgs, Words,     \* organization ids; other strings one can search for
  Papers, Owner,   \* documents; the organization of each
  Mentions,        \* <<paper, string>>: its title and its chunk contain the string
  Limits, Pages,   \* what `limit` and `page` may be, 0 for absent
  SourceLimit      \* the hits asked of each source: 20 in the code

VARIABLES
  shelf,           \* of each paper: "absent", "indexed", "deleted" (soft), "purged"
  opensearch,      \* whether OpenSearch was there at boot
  searchPc,        \* the source asked next
  caller, typed,   \* the user's organization, and `q`
  args,            \* what hybridSearch was called with
  hits,            \* <<source, document>> so far
  shown, total,    \* the page, and meta.total
  settled          \* history: documents indexed all along

searchVars == <<shelf, opensearch, searchPc, caller, typed, args, hits, shown, total, settled>>

Modes == {"keyword", "semantic", "hybrid"}

SearchInit ==
  /\ shelf = [d \in Papers |-> "absent"] /\ opensearch \in BOOLEAN
  /\ searchPc = "idle" /\ args = <<>> /\ hits = {} /\ shown = {} /\ total = 0
  /\ caller \in Orgs /\ typed \in Orgs \cup Words
  /\ settled = {}

\* A document is indexed, soft-deleted, purged.
Shelve(d, from, to) ==
  /\ shelf[d] = from /\ shelf' = [shelf EXCEPT ![d] = to]
  /\ settled' = settled \ {d}
  /\ UNCHANGED <<opensearch, searchPc, caller, typed, args, hits, shown, total>>

----------------------------------------------------------------------------
(* GET /search *)

PageOf(n)  == IF n = 0 THEN 1 ELSE n
LimitOf(n) == IF n = 0 THEN 20 ELSE IF n > 100 THEN 100 ELSE n

HybridSearch(organizationId, query, mode, page, limit) ==
  /\ args' = [organizationId |-> organizationId, query |-> query, mode |-> mode,
              page |-> PageOf(page), limit |-> LimitOf(limit)]
  /\ searchPc' = IF mode = "semantic" THEN "semantic" ELSE "keyword"

\* The controller names what was typed first, the user's organization second.
Search ==
  /\ searchPc = "idle"
  /\ \E mode \in Modes, page \in Pages, limit \in Limits :
       HybridSearch(typed, caller, mode, page, limit)
  /\ settled' = {d \in Papers : shelf[d] = "indexed"}
  /\ UNCHANGED <<shelf, opensearch, caller, typed, hits, shown, total>>

\* At most n of S, the best.
Best(n, S) == kSubset(IF Cardinality(S) < n THEN Cardinality(S) ELSE n, S)

\* The documents of the organization that was named, in the given states.
Held(states) == {d \in Papers : shelf[d] \in states /\ Owner[d] = args.organizationId}
Matching(states) == {d \in Held(states) : <<d, args.query>> \in Mentions}

Hear(to, source, found) ==
  /\ searchPc' = to
  /\ hits' = hits \cup ({source} \X found)
  /\ UNCHANGED <<shelf, opensearch, caller, typed, args, shown, total, settled>>

AfterKeyword  == IF args.mode = "keyword" THEN "answer" ELSE "semantic"
AfterSemantic == IF args.mode = "semantic" THEN "answer" ELSE "graph"

\* OpenSearch has what is deleted and not yet purged, too.
KeywordSearch ==
  /\ searchPc = "keyword" /\ opensearch
  /\ \E S \in Best(SourceLimit, Matching({"indexed", "deleted"})) :
       Hear(AfterKeyword, "keyword", S)

\* OpenSearch was not there, or fails now.
KeywordSearchFallback ==
  /\ searchPc = "keyword"
  /\ \E S \in Best(SourceLimit, Matching({"indexed"})) : Hear(AfterKeyword, "keyword", S)

\* PostgreSQL fails as well.
SearchRejected ==
  /\ searchPc = "keyword" /\ searchPc' = "error"
  /\ UNCHANGED <<shelf, opensearch, caller, typed, args, hits, shown, total, settled>>

\* The points near enough, which need not match; none if Qdrant fails.
SemanticSearch ==
  /\ searchPc = "semantic"
  /\ \E S \in SUBSET Held({"indexed", "deleted"}) :
       Cardinality(S) <= SourceLimit /\ Hear(AfterSemantic, "semantic", S)

\* Entities, which are no documents.
GraphSearch == searchPc = "graph" /\ Hear("answer", "graph", {})

\* The hits by their scores, cut into pages.
Answer ==
  LET skipped == (args.page - 1) * args.limit
      left    == IF Cardinality(hits) > skipped THEN Cardinality(hits) - skipped ELSE 0
  IN  /\ searchPc = "answer" /\ searchPc' = "answered"
      /\ shown' \in kSubset(IF left < args.limit THEN left ELSE args.limit, hits)
      /\ total' = Cardinality(hits)
      /\ UNCHANGED <<shelf, opensearch, caller, typed, args, hits, settled>>

SearchNext ==
  \/ \E d \in Papers : \/ Shelve(d, "absent", "indexed") \/ Shelve(d, "indexed", "deleted")
                       \/ Shelve(d, "deleted", "purged")
  \/ Search \/ KeywordSearch \/ KeywordSearchFallback \/ SearchRejected
  \/ SemanticSearch \/ GraphSearch \/ Answer

SearchSpec == SearchInit /\ [][SearchNext]_searchVars

----------------------------------------------------------------------------
(* Properties *)

\* hybridSearch takes the organization first and the query second, as its test calls it
\* ('org-1', 'onboarding', search.service.spec.ts:85): a search by keyword counts every
\* document of the caller's organization that contains what was typed and was indexed
\* all along.  The controller passes the two the other way round
\* (search.controller.ts:24), and gets those of an organization named by the query.
SearchFindsOwnDocuments ==
  searchPc = "answered" /\ args.mode # "semantic" =>
    LET own == {d \in settled : Owner[d] = caller /\ <<d, typed>> \in Mentions}
    IN  Cardinality(own) <= SourceLimit => Cardinality(own) <= total

==============================================================================
