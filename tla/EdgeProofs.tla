-------------------------------- MODULE EdgeProofs --------------------------------
(***************************************************************************)
(* Proofs about the parts at the edges of the server, each for any         *)
(* constants: SigningKeys, Credentials, VectorRefresh, ClientSearch and    *)
(* ClientSession.                                                          *)
(***************************************************************************)
EXTENDS SigningKeys, Credentials, VectorRefresh, ClientSearch, ClientSession, TLAPS

-----------------------------------------------------------------------------
(* SigningKeys *)

KeysTypeOK ==
  /\ now \in Nat /\ published \subseteq Kids /\ changed \in [Kids -> Nat]
  /\ jwksKeys \subseteq Kids /\ jwksExpiry \in Nat
  /\ verPc \in [Logins -> {"idle", "fetch", "answered"}] /\ token \in [Logins -> Tokens]
  /\ since \in [Logins -> Nat] /\ answer \in [Logins -> SUBSET Kids]

\* A set of keys that was right at some time from then on.
RightSince(ks, then) == \A k \in Kids : (k \in ks) # (k \in published) => changed[k] >= then

\* The cache outlives what it holds by its own life and the fetch that filled it at most.
CacheInv ==
  /\ \A k \in Kids : changed[k] <= now
  /\ jwksExpiry <= now + CacheTtl
  /\ RightSince(jwksKeys, jwksExpiry - CacheTtl - FetchTimeout)

\* A fetch is over in time, and was answered since it began.
FetchInv ==
  \A r \in Logins :
    /\ verPc[r] # "idle" => since[r] <= now /\ now <= since[r] + FetchTimeout
    /\ verPc[r] = "answered" => RightSince(answer[r], since[r])

FreshInv == KeysTypeOK /\ CacheInv /\ FetchInv /\ KeysAreFresh

\* A verdict is out of date for as long only as the key it turns on has changed.
LEMMA WrongVerdict ==
  ASSUME NEW ks, ks \subseteq Kids, NEW t \in Tokens, Verify(ks, t)
  PROVE  \/ lag' = 0
         \/ \E k \in Kids : (k \in ks) # (k \in published) /\ lag' = now - changed[k]
  <1>1. PICK accepted \in Verdicts(ks, t) :
          lag' = IF (accepted <=> t.signer \notin published) /\ (accepted \/ t.kid = t.signer)
                 THEN now - changed[t.signer] ELSE 0
    BY DEF Verify
  <1>2. t.signer \in Kids /\ t.kid \in {t.signer, NoKid}
    BY DEF Tokens
  <1>3. CASE (accepted <=> t.signer \notin published) /\ (accepted \/ t.kid = t.signer)
    <2>1. lag' = now - changed[t.signer]
      BY <1>1, <1>3
    <2> DEFINE found == FindSigningKey(ks, t)
    <2>2. accepted \in IF found = {} THEN {FALSE} ELSE {k = t.signer : k \in found}
      BY <1>1 DEF Verdicts
    <2>3. found \subseteq ks
      BY DEF FindSigningKey
    <2>4. CASE accepted
      <3>1. \E k \in found : k = t.signer
        BY <2>2, <2>4
      <3>2. t.signer \in ks /\ t.signer \notin published
        BY <2>3, <2>4, <3>1, <1>3
      <3> QED
        BY <1>2, <2>1, <3>2
    <2>5. CASE ~accepted
      <3>1. t.kid = t.signer /\ t.kid # NoKid
        BY <1>2, <1>3, <2>5, KeyAssumption
      <3>2. found = ks \cap {t.signer}
        BY <3>1 DEF FindSigningKey
      <3>3. t.signer \notin ks /\ t.signer \in published
        BY <1>3, <2>2, <2>5, <3>2
      <3> QED
        BY <1>2, <2>1, <3>3
    <2> QED
      BY <2>4, <2>5
  <1>4. CASE ~((accepted <=> t.signer \notin published) /\ (accepted \/ t.kid = t.signer))
    BY <1>1, <1>4
  <1> QED
    BY <1>3, <1>4

\* The server starts with an empty cache.
LEMMA InitKeys == SigningKeysInit => FreshInv
  <1> SUFFICES ASSUME SigningKeysInit
               PROVE  FreshInv
    OBVIOUS
  <1>1. FirstKid \in Kids
    BY KeyAssumption DEF FirstKid
  <1>2. NoToken \in Tokens
    BY <1>1 DEF NoToken, Tokens
  <1>3. KeysTypeOK
    BY <1>1, <1>2 DEF SigningKeysInit, KeysTypeOK
  <1>4. CacheInv /\ KeysAreFresh
    BY TimeAssumption DEF SigningKeysInit, CacheInv, RightSince, KeysAreFresh
  <1>5. FetchInv
    BY DEF SigningKeysInit, FetchInv
  <1> QED
    BY <1>3, <1>4, <1>5 DEF FreshInv

\* Each step keeps the cache and the fetches within their time.
LEMMA NextKeys == FreshInv /\ [SigningKeysNext]_keyVars => FreshInv'
  <1> SUFFICES ASSUME FreshInv, [SigningKeysNext]_keyVars
               PROVE  FreshInv'
    OBVIOUS
  <1> USE TimeAssumption DEF FreshInv
  <1>0. NoToken \in Tokens
    BY KeyAssumption DEF FirstKid, NoToken, Tokens
  <1>1. CASE VerifyWithCache
    <2>1. PICK t \in Tokens : Verify(jwksKeys, t)
      BY <1>1 DEF VerifyWithCache
    <2>2. UNCHANGED <<now, published, changed, jwksKeys, jwksExpiry, verPc, token, since, answer>>
      BY <1>1 DEF VerifyWithCache, ExpiryAfterHit
    <2>3. KeysTypeOK' /\ CacheInv' /\ FetchInv'
      BY <2>2 DEF KeysTypeOK, CacheInv, FetchInv, RightSince
    <2>4. now < jwksExpiry
      BY <1>1 DEF VerifyWithCache, CacheLives, KeysTypeOK
    <2>5. ASSUME NEW k \in Kids, (k \in jwksKeys) # (k \in published)
          PROVE  now - changed[k] < CacheTtl + FetchTimeout
      BY <2>4, <2>5 DEF CacheInv, RightSince, KeysTypeOK
    <2>6. jwksKeys \subseteq Kids
      BY DEF KeysTypeOK
    <2>7. lag' = 0 \/ \E k \in Kids : /\ (k \in jwksKeys) # (k \in published)
                                      /\ lag' = now - changed[k]
      BY <2>1, <2>6, WrongVerdict
    <2>8. KeysAreFresh'
      BY <2>5, <2>7 DEF KeysAreFresh
    <2> QED
      BY <2>3, <2>8
  <1>2. ASSUME NEW r \in Logins, FetchKeys(r)
        PROVE  FreshInv'
    <2>1. UNCHANGED <<now, published, changed, jwksKeys, jwksExpiry, answer, lag>>
      BY <1>2 DEF FetchKeys
    <2>2. KeysTypeOK'
      BY <1>2 DEF FetchKeys, KeysTypeOK
    <2>3. CacheInv' /\ KeysAreFresh'
      BY <2>1 DEF CacheInv, RightSince, KeysAreFresh
    <2>4. /\ verPc'[r] = "fetch" /\ since'[r] = now
          /\ \A o \in Logins \ {r} : verPc'[o] = verPc[o] /\ since'[o] = since[o]
      BY <1>2 DEF FetchKeys, KeysTypeOK
    <2>5. FetchInv'
      BY <2>1, <2>4 DEF FetchInv, RightSince, KeysTypeOK
    <2> QED
      BY <2>2, <2>3, <2>5
  <1>3. ASSUME NEW r \in Logins, AnswerKeys(r)
        PROVE  FreshInv'
    <2>1. UNCHANGED <<now, published, changed, jwksKeys, jwksExpiry, since, token, lag>>
      BY <1>3 DEF AnswerKeys
    <2>2. KeysTypeOK'
      BY <1>3 DEF AnswerKeys, KeysTypeOK
    <2>3. CacheInv' /\ KeysAreFresh'
      BY <2>1 DEF CacheInv, RightSince, KeysAreFresh
    <2>4. /\ verPc[r] = "fetch" /\ verPc'[r] = "answered" /\ answer'[r] = published
          /\ \A o \in Logins \ {r} : verPc'[o] = verPc[o] /\ answer'[o] = answer[o]
      BY <1>3 DEF AnswerKeys, KeysTypeOK
    <2>5. FetchInv'
      BY <2>1, <2>4 DEF FetchInv, RightSince
    <2> QED
      BY <2>2, <2>3, <2>5
  <1>4. ASSUME NEW r \in Logins, Done(r), UNCHANGED <<now, published, changed>>
        PROVE  FetchInv'
    <2>1. /\ verPc'[r] = "idle"
          /\ \A o \in Logins \ {r} : /\ verPc'[o] = verPc[o] /\ answer'[o] = answer[o]
                                     /\ since'[o] = since[o]
      BY <1>4 DEF Done, KeysTypeOK
    <2> QED
      BY <1>4, <2>1 DEF FetchInv, RightSince
  <1>5. ASSUME NEW r \in Logins, StoreKeys(r)
        PROVE  FreshInv'
    <2>1. UNCHANGED <<now, published, changed>> /\ Done(r)
      BY <1>5 DEF StoreKeys
    <2>2. KeysTypeOK'
      BY <1>5, <1>0 DEF StoreKeys, Done, KeysTypeOK
    <2>3. FetchInv'
      BY <2>1, <1>4
    <2>4. now <= since[r] + FetchTimeout /\ RightSince(answer[r], since[r])
      BY <1>5 DEF StoreKeys, FetchInv
    <2>5. ASSUME NEW k \in Kids, (k \in answer[r]) # (k \in published)
          PROVE  changed[k] >= now - FetchTimeout
      BY <2>4, <2>5 DEF RightSince, KeysTypeOK
    <2>6. jwksKeys' = answer[r] /\ jwksExpiry' = now + CacheTtl
      BY <1>5 DEF StoreKeys
    <2>7. jwksExpiry' - CacheTtl - FetchTimeout = now - FetchTimeout
      BY <2>6 DEF KeysTypeOK
    <2>8. CacheInv'
      BY <2>1, <2>5, <2>6, <2>7 DEF CacheInv, RightSince, KeysTypeOK
    <2>9. answer[r] \subseteq Kids /\ token[r] \in Tokens /\ Verify(answer[r], token[r])
      BY <1>5 DEF StoreKeys, KeysTypeOK
    <2>10. lag' = 0 \/ \E k \in Kids : /\ (k \in answer[r]) # (k \in published)
                                       /\ lag' = now - changed[k]
      BY <2>9, WrongVerdict
    <2>11. KeysAreFresh'
      BY <2>5, <2>10 DEF KeysAreFresh, KeysTypeOK
    <2> QED
      BY <2>2, <2>3, <2>8, <2>11
  <1>6. ASSUME NEW r \in Logins, FetchFails(r)
        PROVE  FreshInv'
    <2>1. UNCHANGED <<now, published, changed, jwksKeys, jwksExpiry, lag>> /\ Done(r)
      BY <1>6 DEF FetchFails
    <2>2. KeysTypeOK'
      BY <2>1, <1>0 DEF Done, KeysTypeOK
    <2> QED
      BY <2>1, <2>2, <1>4 DEF CacheInv, RightSince, KeysAreFresh
  <1>7. CASE ChangeKeys
    <2>1. PICK k \in Kids :
            /\ published' = IF k \in published THEN published \ {k} ELSE published \cup {k}
            /\ changed' = [changed EXCEPT ![k] = now]
      BY <1>7 DEF ChangeKeys
    <2>2. UNCHANGED <<now, jwksKeys, jwksExpiry, verPc, token, since, answer, lag>>
      BY <1>7 DEF ChangeKeys, loginVars
    <2>3. KeysTypeOK' /\ KeysAreFresh'
      BY <2>1, <2>2 DEF KeysTypeOK, KeysAreFresh
    <2>4. /\ changed'[k] = now
          /\ \A j \in Kids \ {k} : changed'[j] = changed[j] /\ (j \in published' <=> j \in published)
      BY <2>1 DEF KeysTypeOK
    <2>5. ASSUME NEW ks, NEW then \in Int, then <= now, RightSince(ks, then)
          PROVE  RightSince(ks, then)'
      BY <2>4, <2>5 DEF RightSince, KeysTypeOK
    <2>6. CacheInv'
      <3>1. jwksExpiry - CacheTtl - FetchTimeout \in Int
        BY DEF KeysTypeOK
      <3>2. jwksExpiry - CacheTtl - FetchTimeout <= now
        BY DEF CacheInv, KeysTypeOK
      <3>3. RightSince(jwksKeys, jwksExpiry - CacheTtl - FetchTimeout)'
        BY <3>1, <3>2, <2>2, <2>4 DEF CacheInv, RightSince, KeysTypeOK
      <3> QED
        BY <2>2, <2>4, <3>3 DEF CacheInv, KeysTypeOK
    <2>7. FetchInv'
      <3>1. ASSUME NEW r \in Logins, verPc[r] = "answered"
            PROVE  RightSince(answer[r], since[r])'
        <4>1. since[r] \in Int /\ since[r] <= now /\ RightSince(answer[r], since[r])
          BY <3>1 DEF FetchInv, KeysTypeOK
        <4> QED
          BY <4>1, <2>2, <2>4 DEF RightSince, KeysTypeOK
      <3> QED
        BY <3>1, <2>2 DEF FetchInv
    <2> QED
      BY <2>3, <2>6, <2>7
  <1>8. CASE TickKeys
    <2>1. /\ now' = now + 1
          /\ \A r \in Logins : verPc[r] \in {"fetch", "answered"} => now < since[r] + FetchTimeout
          /\ UNCHANGED <<published, changed, jwksKeys, jwksExpiry, verPc, token, since, answer, lag>>
      BY <1>8 DEF TickKeys, loginVars
    <2>2. KeysTypeOK' /\ KeysAreFresh'
      BY <2>1 DEF KeysTypeOK, KeysAreFresh
    <2>3. CacheInv'
      BY <2>1 DEF CacheInv, RightSince, KeysTypeOK
    <2>4. FetchInv'
      BY <2>1 DEF FetchInv, RightSince, KeysTypeOK
    <2> QED
      BY <2>2, <2>3, <2>4
  <1>9. CASE UNCHANGED keyVars
    BY <1>9 DEF keyVars, KeysTypeOK, CacheInv, FetchInv, RightSince, KeysAreFresh
  <1> QED
    BY <1>1, <1>2, <1>3, <1>5, <1>6, <1>7, <1>8, <1>9 DEF SigningKeysNext

\* No token is judged by keys out of date for as long as the life of the cache and one
\* timeout of a fetch, whatever Keycloak withdraws and however answers overtake each other.
THEOREM VerdictsFresh == SigningKeysSpec => []KeysAreFresh
  <1>1. FreshInv => KeysAreFresh
    BY DEF FreshInv
  <1> QED
    BY <1>1, InitKeys, NextKeys, PTL DEF SigningKeysSpec

-----------------------------------------------------------------------------
(* VectorRefresh *)

RefreshTypeOK ==
  /\ trash \subseteq Texts /\ vector \in [Texts -> {"none", "bare", "scoped"}]
  /\ indexing \in [Texts -> {"idle", "store", "points"}]
  /\ purging \in [Texts -> {"idle", "points", "done"}]
  /\ script \in {"idle", "ensure", "upsert", "done", "failed"}
  /\ chunkRows \subseteq Texts /\ fetched \subseteq Texts /\ unwritten \subseteq fetched

\* Of the rows it read, those it has written have points; before it writes it has none.
WrittenInv ==
  /\ \A d \in fetched \ (unwritten \cup dropped) : vector[d] # "none"
  /\ script = "done" => unwritten = {}
  /\ script = "ensure" => unwritten = fetched

PointsInv == RefreshTypeOK /\ WrittenInv /\ RefreshRevivesNothing

\* Rows are read, and batches taken, from those there are.
LEMMA FirstOnesAreSome == \A n, S : \A B \in FirstOf(n, S) : B \subseteq S
  BY DEF FirstOf, kSubset

\* Nothing is indexed at first.
LEMMA InitRefresh == RefreshInit => PointsInv
  BY DEF RefreshInit, PointsInv, RefreshTypeOK, WrittenInv, RefreshRevivesNothing, ByVector

\* A point of the organization is made by the server alone, one without by the script.
LEMMA NextRefresh == PointsInv /\ [RefreshNext]_refreshVars => PointsInv'
  <1> SUFFICES ASSUME PointsInv, [RefreshNext]_refreshVars
               PROVE  PointsInv'
    OBVIOUS
  <1> USE DEF PointsInv, RefreshTypeOK, WrittenInv, RefreshRevivesNothing, ByVector
  <1>1. ASSUME NEW d \in Texts, ClearRows(d) \/ StoreRows(d) \/ TrashDocument(d)
        PROVE  PointsInv'
    BY <1>1 DEF ClearRows, StoreRows, TrashDocument, scriptVars
  <1>2. ASSUME NEW d \in Texts, UpsertPoints(d)
        PROVE  PointsInv'
    BY <1>2 DEF UpsertPoints, scriptVars
  <1>3. ASSUME NEW d \in Texts, PurgePoints(d)
        PROVE  PointsInv'
    BY <1>3 DEF PurgePoints, scriptVars
  <1>4. CASE LoseVolume
    BY <1>4 DEF LoseVolume, serverVars, scriptVars
  <1>5. CASE Boot
    BY <1>5 DEF Boot, scriptVars
  <1>6. CASE ReadRows
    BY <1>6, FirstOnesAreSome DEF ReadRows, serverVars
  <1>7. CASE EnsureCollection \/ RefreshFails \/ RefreshAgain
    BY <1>7 DEF EnsureCollection, RefreshFails, RefreshAgain, serverVars
  <1>8. CASE UpsertBatch
    <2>1. PICK B \in FirstOf(BatchSize, unwritten) :
            /\ vector' = [d \in Texts |-> IF d \in B THEN Point ELSE vector[d]]
            /\ unwritten' = unwritten \ B
            /\ script' = IF unwritten' = {} THEN "done" ELSE "upsert"
            /\ dropped' = dropped \ B
      BY <1>8 DEF UpsertBatch
    <2>2. B \subseteq unwritten
      BY FirstOnesAreSome
    <2>3. UNCHANGED <<serverVars, fetched, collection, tardy>> /\ script = "upsert"
      BY <1>8 DEF UpsertBatch
    <2>4. RefreshTypeOK' /\ WrittenInv'
      BY <2>1, <2>2, <2>3 DEF serverVars, Point
    <2>5. \A d \in ByVector' : d \in ByVector
      BY <2>1 DEF Point
    <2> QED
      BY <2>1, <2>2, <2>3, <2>4, <2>5 DEF serverVars
  <1>9. CASE UNCHANGED refreshVars
    BY <1>9 DEF refreshVars, serverVars, scriptVars
  <1> QED
    BY <1>1, <1>2, <1>3, <1>4, <1>5, <1>6, <1>7, <1>8, <1>9 DEF RefreshNext

\* However the script meets the runs and deletes of the server, and the loss of the
\* store, it makes no purged document searchable, and leaves no row it read without a
\* point.
THEOREM NothingRevived == RefreshSpec => []RefreshRevivesNothing
  <1>1. PointsInv => RefreshRevivesNothing
    BY DEF PointsInv
  <1> QED
    BY <1>1, InitRefresh, NextRefresh, PTL DEF RefreshSpec

-----------------------------------------------------------------------------
(* ClientSearch *)

NotifierTypeOK ==
  /\ isLoading \in BOOLEAN /\ crossed \in BOOLEAN /\ outrun \in BOOLEAN
  /\ latest \in 0 .. MaxSearches /\ results \in 0 .. MaxSearches
  /\ asked \in [Searches -> {"none", "sent", "answered", "failed"}]

\* Searches begin in their order, and two at once have crossed; an answer to the last one
\* stays what is shown until an earlier one ends.
AskedInOrder ==
  /\ \A n \in Searches : asked[n] = "none" <=> n > latest
  /\ \A n, o \in Searches : n # o /\ asked[n] = "sent" /\ asked[o] = "sent" => crossed
  /\ ~outrun /\ latest > 0 /\ asked[latest] = "answered" => results = latest

ShownInv == NotifierTypeOK /\ AskedInOrder /\ ResultsOfTheLastSearch

\* Nothing has been searched for.
LEMMA InitNotifier == NotifierInit => ShownInv
  <1> SUFFICES ASSUME NotifierInit
               PROVE  ShownInv
    OBVIOUS
  <1>1. latest = 0 /\ asked = [n \in Searches |-> "none"] /\ \A n \in Searches : n > 0
    BY SearchesAssumption DEF NotifierInit, Searches
  <1>2. isLoading \in BOOLEAN /\ crossed \in BOOLEAN /\ outrun \in BOOLEAN
    BY Zenon DEF NotifierInit
  <1>3. results \in 0 .. MaxSearches /\ latest \in 0 .. MaxSearches
    BY SearchesAssumption DEF NotifierInit
  <1>4. NotifierTypeOK
    BY <1>1, <1>2, <1>3 DEF NotifierTypeOK
  <1>5. AskedInOrder
    BY <1>1 DEF AskedInOrder
  <1>6. ResultsOfTheLastSearch
    BY <1>1 DEF NotifierInit, ResultsOfTheLastSearch, Searching
  <1> QED
    BY <1>4, <1>5, <1>6 DEF ShownInv

\* A new search is the last one, and any other that ends has been outrun.
LEMMA NextNotifier == ShownInv /\ [NotifierNext]_notifierVars => ShownInv'
  <1> SUFFICES ASSUME ShownInv, [NotifierNext]_notifierVars
               PROVE  ShownInv'
    OBVIOUS
  <1> USE SearchesAssumption
      DEF ShownInv, NotifierTypeOK, AskedInOrder, ResultsOfTheLastSearch, Searching, Searches
  <1>1. ASSUME NEW q, SetQuery(q)
        PROVE  ShownInv'
    BY <1>1 DEF SetQuery
  <1>2. CASE ClearResults
    <2>1. latest' = latest + 1 /\ latest' \in Searches /\ results' = latest'
      BY <1>2 DEF ClearResults
    <2>2. /\ asked'[latest'] = "answered"
          /\ \A n \in Searches \ {latest'} : asked'[n] = asked[n]
      BY <1>2, <2>1 DEF ClearResults
    <2>3. UNCHANGED <<isLoading, crossed, outrun>>
      BY <1>2 DEF ClearResults
    <2>4. NotifierTypeOK'
      BY <1>2 DEF ClearResults
    <2>5. AskedInOrder'
      BY <2>1, <2>2, <2>3
    <2>6. Searching' <=> Searching
      BY <2>1, <2>2
    <2>7. ResultsOfTheLastSearch'
      BY <2>1, <2>3, <2>6
    <2> QED
      BY <2>4, <2>5, <2>7
  <1>3. CASE BeginSearch
    <2>1. latest' = latest + 1 /\ latest' \in Searches /\ isLoading'
      BY <1>3 DEF BeginSearch
    <2>2. /\ asked'[latest'] = "sent"
          /\ \A n \in Searches \ {latest'} : asked'[n] = asked[n]
      BY <1>3, <2>1 DEF BeginSearch
    <2>3. crossed' = (crossed \/ Searching) /\ UNCHANGED <<results, outrun>>
      BY <1>3 DEF BeginSearch
    <2>4. NotifierTypeOK'
      BY <1>3 DEF BeginSearch
    <2>5. AskedInOrder'
      BY <2>1, <2>2, <2>3
    <2> QED
      BY <2>1, <2>2, <2>4, <2>5
  <1>4. ASSUME NEW n \in Searches, ShowResults(n)
        PROVE  ShownInv'
    <2>1. /\ asked[n] = "sent" /\ asked'[n] = "answered"
          /\ \A o \in Searches \ {n} : asked'[o] = asked[o]
      BY <1>4 DEF ShowResults, Ends
    <2>2. /\ outrun' = (outrun \/ n < latest) /\ UNCHANGED <<latest, crossed>>
          /\ isLoading' = FALSE /\ results' = n
      BY <1>4 DEF ShowResults, Ends
    <2>3. asked' \in [Searches -> {"none", "sent", "answered", "failed"}]
      BY <1>4 DEF ShowResults, Ends
    <2>4. outrun' \in BOOLEAN
      BY <2>2
    <2>5. isLoading' \in BOOLEAN
      BY <2>2, Zenon
    <2>6. results' \in 0 .. MaxSearches
      BY <2>2
    <2>7. NotifierTypeOK'
      BY <2>2, <2>3, <2>4, <2>5, <2>6
    <2>8. AskedInOrder'
      BY <2>1, <2>2
    <2> QED
      BY <2>1, <2>2, <2>7, <2>8
  <1>5. ASSUME NEW n \in Searches, ShowError(n)
        PROVE  ShownInv'
    <2>1. /\ asked[n] = "sent" /\ asked'[n] = "failed"
          /\ \A o \in Searches \ {n} : asked'[o] = asked[o]
      BY <1>5 DEF ShowError, Ends
    <2>2. /\ outrun' = (outrun \/ n < latest) /\ UNCHANGED <<latest, crossed, results>>
          /\ isLoading' = FALSE
      BY <1>5 DEF ShowError, Ends
    <2>3. NotifierTypeOK'
      BY <1>5 DEF ShowError, Ends
    <2>4. AskedInOrder'
      BY <2>1, <2>2
    <2> QED
      BY <2>1, <2>2, <2>3, <2>4
  <1>6. CASE UNCHANGED notifierVars
    BY <1>6 DEF notifierVars
  <1> QED
    BY <1>1, <1>2, <1>3, <1>4, <1>5, <1>6 DEF NotifierNext

\* The spinner tells whether a search is under way, and what is shown at rest is the
\* answer to the last one, save where two crossed or one outran the other.
THEOREM LastSearchShown == NotifierSpec => []ResultsOfTheLastSearch
  <1>1. ShownInv => ResultsOfTheLastSearch
    BY DEF ShownInv
  <1> QED
    BY <1>1, InitNotifier, NextNotifier, PTL DEF NotifierSpec

-----------------------------------------------------------------------------
(* Credentials *)

\* Keys are made in their order, and dropped from the oldest.
RunOfKeys(ks) ==
  /\ ks \in Seq(Nat) /\ ks # <<>>
  /\ \A i \in 1 .. Len(ks) : ks[i] = ks[1] + i - 1

Layers == [version : Nat, key : Nat]

CredentialsTypeOK ==
  /\ newest \in Nat /\ RunOfKeys(deployed) /\ deployed[Len(deployed)] = newest
  /\ \A n \in Instances : RunOfKeys(keys[n])
  /\ keys \in [Instances -> Seq(Nat)]
  /\ row \in Seq(Layers) /\ row # <<>>
  /\ screen.text \in Seq(Layers) /\ screen.good \in BOOLEAN
  /\ moved \in BOOLEAN /\ spoilt \in BOOLEAN

\* The number of a row tells its key while the numbers stand, and only what was no
\* secret when it was saved has more than one layer.
LayersInv ==
  /\ ~spoilt => Tail(row) = Entered
  /\ ~moved /\ row[1].version # 0 => row[1].key = deployed[1] + row[1].version - 1
  /\ screen.good => screen.text = Entered

ReadableInv == CredentialsTypeOK /\ LayersInv

\* The last of a run is the newest of its keys, and each key has one number.
LEMMA RunNumbers ==
  ASSUME NEW ks, RunOfKeys(ks)
  PROVE  /\ Head(ks) = ks[1] /\ Last(ks) = ks[Len(ks)] /\ Len(ks) \in Nat \ {0}
         /\ Last(ks) = ks[1] + Len(ks) - 1 /\ ks[1] \in Nat /\ Last(ks) \in Nat
         /\ \A k \in Range(ks) : \E i \in 1 .. Len(ks) : ks[i] = k
  <1>1. Len(ks) \in Nat \ {0} /\ DOMAIN ks = 1 .. Len(ks)
    BY DEF RunOfKeys
  <1>2. 1 \in 1 .. Len(ks) /\ Len(ks) \in 1 .. Len(ks)
    BY <1>1
  <1>3. ks[1] \in Nat /\ ks[Len(ks)] \in Nat
    BY <1>1, <1>2 DEF RunOfKeys
  <1> QED
    BY <1>1, <1>2, <1>3 DEF RunOfKeys, Last, Range

\* What is invariant makes what is not excused readable.
LEMMA ReadableByNumber == ReadableInv => CredentialsReadable
  <1> SUFFICES ASSUME ReadableInv, NEW n \in Instances, ~Excused(n)
               PROVE  Expose(n) = Entered
    BY DEF CredentialsReadable
  <1>1. RunOfKeys(keys[n]) /\ RunOfKeys(deployed)
    BY DEF ReadableInv, CredentialsTypeOK
  <1>2. row \in Seq(Layers) /\ row # <<>> /\ Head(row) = row[1] /\ row[1] \in Layers
    BY DEF ReadableInv, CredentialsTypeOK
  <1>3. ~spoilt /\ row[1].key \in Range(keys[n])
    BY <1>2 DEF Excused
  <1>4. row[1].version # 0 => ~moved /\ keys[n][1] = deployed[1]
    BY <1>1, <1>2, RunNumbers DEF Excused
  <1>5. Opens(keys[n], row[1])
    <2>1. CASE row[1].version = 0
      BY <2>1, <1>3 DEF Opens
    <2>2. CASE row[1].version # 0
      <3>1. PICK i \in 1 .. Len(keys[n]) : keys[n][i] = row[1].key
        BY <1>1, <1>3, RunNumbers
      <3>2. keys[n][i] = keys[n][1] + i - 1
        BY <1>1 DEF RunOfKeys
      <3>3. row[1].key = keys[n][1] + row[1].version - 1
        BY <1>4, <2>2 DEF ReadableInv, LayersInv
      <3>4. row[1].version \in Nat /\ keys[n][1] \in Nat /\ i \in Int
        BY <1>1, <1>2, RunNumbers DEF Layers
      <3>5. keys[n][1] + i - 1 = keys[n][1] + row[1].version - 1
        BY <3>1, <3>2, <3>3
      <3>6. \A a, x, y \in Int : a + x - 1 = a + y - 1 => x = y
        OBVIOUS
      <3>7. i = row[1].version
        BY <3>4, <3>5, <3>6
      <3> QED
        BY <1>1, <3>1, <3>7, <2>2 DEF Opens, RunOfKeys
    <2> QED
      BY <2>1, <2>2
  <1>6. Tail(row) = Entered
    BY <1>3 DEF ReadableInv, LayersInv
  <1> QED
    BY <1>2, <1>5, <1>6 DEF Expose, TryDecrypt, Entered

\* The first row has no version.
LEMMA InitCredentials == CredentialsInit => ReadableInv
  <1> SUFFICES ASSUME CredentialsInit
               PROVE  ReadableInv
    OBVIOUS
  <1>1. RunOfKeys(<<1>>)
    BY DEF RunOfKeys
  <1>2. row = <<[version |-> 0, key |-> 1]>> /\ row[1] \in Layers
    BY DEF CredentialsInit, Unversioned, Layers
  <1>3. CredentialsTypeOK
    <2>1. newest \in Nat /\ RunOfKeys(deployed) /\ deployed[Len(deployed)] = newest
      BY <1>1 DEF CredentialsInit
    <2>2. keys = [n \in Instances |-> deployed] /\ deployed \in Seq(Nat)
      BY <2>1 DEF CredentialsInit, RunOfKeys
    <2>3. row \in Seq(Layers) /\ row # <<>>
      BY <1>2
    <2>4. screen.text \in Seq(Layers) /\ screen.good \in BOOLEAN
      BY DEF CredentialsInit, Entered
    <2>5. moved \in BOOLEAN /\ spoilt \in BOOLEAN
      BY Zenon DEF CredentialsInit
    <2> QED
      BY <2>1, <2>2, <2>3, <2>4, <2>5 DEF CredentialsTypeOK
  <1>4. LayersInv
    BY <1>2 DEF CredentialsInit, LayersInv, Entered
  <1> QED
    BY <1>3, <1>4 DEF ReadableInv

\* What is saved is numbered by the keys of the instance that saves it.
LEMMA SaveNumbers ==
  ASSUME ReadableInv, NEW n \in Instances, NEW text \in Seq(Layers), NEW good \in BOOLEAN,
         good => text = Entered, Save(n, text, good)
  PROVE  /\ row' \in Seq(Layers) /\ row' # <<>>
         /\ moved' \in BOOLEAN /\ spoilt' \in BOOLEAN
         /\ UNCHANGED <<deployed, newest, keys>>
         /\ ~spoilt' => Tail(row') = Entered
         /\ ~moved' /\ row'[1].version # 0 => row'[1].key = deployed[1] + row'[1].version - 1
  <1> DEFINE layer == [version |-> Len(keys[n]), key |-> Last(keys[n])]
  <1>1. RunOfKeys(keys[n]) /\ RunOfKeys(deployed)
    BY DEF ReadableInv, CredentialsTypeOK
  <1>2. layer \in Layers
    BY <1>1, RunNumbers DEF Layers
  <1>3. row' = <<layer>> \o text /\ spoilt' = ~good /\ UNCHANGED <<deployed, newest, keys>>
    BY DEF Save, Encrypt
  <1>4. row' \in Seq(Layers) /\ row' # <<>> /\ row'[1] = layer
    BY <1>2, <1>3
  <1>5. moved' = (keys[n][1] # deployed[1])
    BY <1>1, RunNumbers DEF Save
  <1>6. layer.key = keys[n][1] + layer.version - 1
    BY <1>1, RunNumbers
  <1>7. good => row' = <<layer>>
    BY <1>3, <1>2 DEF Entered
  <1>8. ~spoilt' => Tail(row') = Entered
    <2>1. Tail(<<layer>>) = Entered
      BY DEF Entered
    <2>2. ~spoilt' => good
      BY <1>3
    <2> QED
      BY <1>7, <2>1, <2>2
  <1> QED
    BY <1>3, <1>4, <1>5, <1>6, <1>8

\* Rotation keeps the oldest key, and dropping it is remembered.
LEMMA NextCredentials == ReadableInv /\ [CredentialsNext]_credentialVars => ReadableInv'
  <1> SUFFICES ASSUME ReadableInv, [CredentialsNext]_credentialVars
               PROVE  ReadableInv'
    OBVIOUS
  <1>0. CredentialsTypeOK /\ LayersInv
    BY DEF ReadableInv
  <1>1. CASE Rotate
    <2>1. /\ newest' = newest + 1 /\ deployed' = Append(deployed, newest + 1)
          /\ UNCHANGED <<keys, row, screen, moved, spoilt>>
      BY <1>1 DEF Rotate
    <2>2. RunOfKeys(deployed) /\ newest \in Nat /\ deployed[Len(deployed)] = newest
      BY <1>0 DEF CredentialsTypeOK
    <2>3. /\ Len(deployed') = Len(deployed) + 1 /\ deployed'[Len(deployed')] = newest + 1
          /\ \A i \in 1 .. Len(deployed) : deployed'[i] = deployed[i]
          /\ deployed' \in Seq(Nat) /\ deployed' # <<>>
      BY <2>1, <2>2 DEF RunOfKeys
    <2>4. deployed'[1] = deployed[1] /\ Len(deployed) \in Nat \ {0} /\ deployed[1] \in Nat
      BY <2>2, <2>3, RunNumbers
    <2>5. newest = deployed[1] + Len(deployed) - 1
      BY <2>2, RunNumbers
    <2>6. ASSUME NEW i \in 1 .. Len(deployed')
          PROVE  deployed'[i] = deployed'[1] + i - 1
      <3>1. CASE i \in 1 .. Len(deployed)
        BY <3>1, <2>2, <2>3, <2>4 DEF RunOfKeys
      <3>2. CASE i = Len(deployed')
        BY <3>2, <2>3, <2>4, <2>5
      <3> QED
        BY <3>1, <3>2, <2>3, <2>4
    <2>7. RunOfKeys(deployed')
      BY <2>3, <2>6 DEF RunOfKeys
    <2>8. CredentialsTypeOK'
      BY <1>0, <2>1, <2>2, <2>3, <2>7 DEF CredentialsTypeOK
    <2> QED
      BY <1>0, <2>1, <2>4, <2>8 DEF ReadableInv, LayersInv
  <1>2. CASE Compact
    <2>1. /\ Len(deployed) > 1 /\ deployed' = Tail(deployed) /\ moved' = TRUE
          /\ UNCHANGED <<newest, keys, row, screen, spoilt>>
      BY <1>2 DEF Compact
    <2>2. RunOfKeys(deployed) /\ newest \in Nat /\ deployed[Len(deployed)] = newest
      BY <1>0 DEF CredentialsTypeOK
    <2>3. /\ Len(deployed') = Len(deployed) - 1 /\ deployed' \in Seq(Nat) /\ deployed' # <<>>
          /\ \A i \in 1 .. Len(deployed') : deployed'[i] = deployed[i + 1]
      <3>1. deployed \in Seq(Nat) /\ deployed # <<>> /\ Len(deployed) \in Nat
        BY <2>2 DEF RunOfKeys
      <3>2. Tail(deployed) \in Seq(Nat) /\ Len(Tail(deployed)) = Len(deployed) - 1
        BY <3>1
      <3>3. \A i \in 1 .. Len(deployed) - 1 : Tail(deployed)[i] = deployed[i + 1]
        BY <3>1
      <3>4. Tail(deployed) # <<>>
        BY <3>1, <3>2, <2>1
      <3> QED
        BY <2>1, <3>2, <3>3, <3>4
    <2>4. Len(deployed) \in Nat \ {0} /\ deployed[1] \in Nat
      BY <2>2, RunNumbers
    <2>5. \A i \in 1 .. Len(deployed') : deployed'[i] = deployed[1] + i
      BY <2>2, <2>3, <2>4, SMTT(30) DEF RunOfKeys
    <2>6. 1 \in 1 .. Len(deployed') /\ deployed'[1] = deployed[1] + 1
      BY <2>1, <2>3, <2>4, <2>5
    <2>7. RunOfKeys(deployed')
      BY <2>3, <2>4, <2>5, <2>6 DEF RunOfKeys
    <2>8. Len(deployed') \in 1 .. Len(deployed')
      BY <2>1, <2>3, <2>4
    <2>9. deployed'[Len(deployed')] = newest
      BY <2>2, <2>3, <2>4, <2>8
    <2>10. CredentialsTypeOK'
      BY <1>0, <2>1, <2>7, <2>9 DEF CredentialsTypeOK
    <2> QED
      BY <1>0, <2>1, <2>10 DEF ReadableInv, LayersInv
  <1>3. ASSUME NEW n \in Instances, Start(n)
        PROVE  ReadableInv'
    <2>1. keys' = [keys EXCEPT ![n] = deployed]
      BY <1>3 DEF Start
    <2>2. UNCHANGED <<deployed, newest, row, screen, moved, spoilt>>
      BY <1>3 DEF Start
    <2>3. /\ keys' \in [Instances -> Seq(Nat)] /\ keys'[n] = deployed
          /\ \A o \in Instances \ {n} : keys'[o] = keys[o]
      BY <1>0, <2>1 DEF CredentialsTypeOK, RunOfKeys
    <2>4. \A o \in Instances : RunOfKeys(keys'[o])
      BY <1>0, <2>3 DEF CredentialsTypeOK
    <2>5. CredentialsTypeOK'
      BY <1>0, <2>2, <2>3, <2>4 DEF CredentialsTypeOK
    <2> QED
      BY <1>0, <2>2, <2>5 DEF ReadableInv, LayersInv
  <1>4. ASSUME NEW n \in Instances, Read(n)
        PROVE  ReadableInv'
    <2>1. screen' = [text |-> Expose(n), good |-> ~Excused(n)]
      BY <1>4 DEF Read
    <2>2. UNCHANGED <<deployed, newest, keys, row, moved, spoilt>>
      BY <1>4 DEF Read
    <2>3. Expose(n) \in Seq(Layers)
      BY <1>0 DEF Expose, TryDecrypt, CredentialsTypeOK, Entered
    <2>4. ~Excused(n) => Expose(n) = Entered
      BY ReadableByNumber DEF CredentialsReadable
    <2>5. screen'.text \in Seq(Layers) /\ screen'.good \in BOOLEAN
      BY <2>1, <2>3
    <2>6. screen'.good => screen'.text = Entered
      BY <2>1, <2>4
    <2>7. CredentialsTypeOK'
      BY <1>0, <2>2, <2>5 DEF CredentialsTypeOK
    <2> QED
      BY <1>0, <2>2, <2>6, <2>7 DEF ReadableInv, LayersInv
  <1>5. ASSUME NEW n \in Instances, Enter(n) \/ PutBack(n)
        PROVE  ReadableInv'
    <2>1. PICK text \in Seq(Layers), good \in BOOLEAN :
            (good => text = Entered) /\ Save(n, text, good)
      <3>1. CASE Enter(n)
        <4>1. Save(n, Entered, TRUE)
          BY <3>1, Zenon DEF Enter
        <4>2. Entered \in Seq(Layers)
          BY DEF Entered
        <4> QED
          BY <4>1, <4>2, Zenon
      <3>2. CASE PutBack(n)
        <4>1. Save(n, screen.text, screen.good)
          BY <3>2 DEF PutBack
        <4>2. screen.text \in Seq(Layers) /\ screen.good \in BOOLEAN
          BY <1>0 DEF CredentialsTypeOK
        <4>3. screen.good => screen.text = Entered
          BY <1>0 DEF LayersInv
        <4> QED
          BY <4>1, <4>2, <4>3
      <3> QED
        BY <1>5, <3>1, <3>2
    <2>2. screen' = [text |-> row', good |-> FALSE]
      BY <1>5 DEF Enter, PutBack
    <2>3. /\ row' \in Seq(Layers) /\ row' # <<>>
          /\ moved' \in BOOLEAN /\ spoilt' \in BOOLEAN
          /\ UNCHANGED <<deployed, newest, keys>>
          /\ ~spoilt' => Tail(row') = Entered
          /\ ~moved' /\ row'[1].version # 0 => row'[1].key = deployed[1] + row'[1].version - 1
      BY <2>1, SaveNumbers
    <2>4. screen'.text \in Seq(Layers) /\ screen'.good = FALSE
      BY <2>2, <2>3
    <2>5. CredentialsTypeOK'
      BY <1>0, <2>3, <2>4 DEF CredentialsTypeOK
    <2>6. LayersInv'
      BY <2>3, <2>4 DEF LayersInv
    <2> QED
      BY <2>5, <2>6 DEF ReadableInv
  <1>6. CASE UNCHANGED credentialVars
    BY <1>0, <1>6 DEF credentialVars, ReadableInv, CredentialsTypeOK, LayersInv
  <1> QED
    BY <1>1, <1>2, <1>3, <1>4, <1>5, <1>6 DEF CredentialsNext

\* No order of rotations, restarts and saves costs a connector its credentials: an
\* instance that has the key, by the number it has now, shows what was entered.
THEOREM NothingUnreadable == CredentialsSpec => []CredentialsReadable
  <1> QED
    BY ReadableByNumber, InitCredentials, NextCredentials, PTL DEF CredentialsSpec

-----------------------------------------------------------------------------
(* ClientSession *)

Stacked == Pairs \cup {App}

\* The bounds are numbers.
LEMMA PairNumbers ==
  /\ MaxPairs \in Nat /\ Pairs \subseteq Nat /\ 0 \in Pairs
  /\ None \notin Pairs /\ App \notin Pairs /\ 1 <= Throttle /\ 0 \in 0 .. MaxLost
  <1>1. MaxPairs \in Nat
    BY SessionAssumption DEF MaxPairs
  <1> QED
    BY <1>1, SessionAssumption, NamesAssumption DEF Pairs

\* A step of one request is of no other.
LEMMA OneRequest ==
  ASSUME SessionTypeOK, NEW q \in Requests, Send(q) \/ OnError(q)
  PROVE  \A o \in Requests \ {q} : /\ qpc'[o] = qpc[o] /\ stack'[o] = stack[o]
                                    /\ posted'[o] = posted[o] /\ pair'[o] = pair[o]
  <1>1. /\ qpc' = qpc \/ \E x : qpc' = [qpc EXCEPT ![q] = x]
        /\ stack' = stack \/ \E x : stack' = [stack EXCEPT ![q] = x]
        /\ posted' = posted \/ \E x : posted' = [posted EXCEPT ![q] = x]
        /\ pair' = pair \/ \E x : pair' = [pair EXCEPT ![q] = x]
    <2>1. CASE Post(q) \/ Retry(q)
      <3>1. /\ qpc' = qpc \/ \E x : qpc' = [qpc EXCEPT ![q] = x]
            /\ stack' = stack \/ \E x : stack' = [stack EXCEPT ![q] = x]
        BY <2>1 DEF Post, Retry, GotoQ, Refuse, Fail
      <3>2. posted' = posted /\ pair' = pair
        BY <2>1 DEF Post, Retry
      <3> QED
        BY <3>1, <3>2
    <2>2. CASE Send(q) \/ ReadRefresh(q) \/ RotatePair(q) \/ StoreAccess(q) \/ StoreRefresh(q) \/ Wipe(q)
      BY <2>2 DEF Send, ReadRefresh, RotatePair, StoreAccess, StoreRefresh, Wipe, GotoQ, PassOn
    <2> QED
      BY <2>1, <2>2 DEF OnError
  <1>2. qpc = [o \in Requests |-> qpc[o]] /\ stack = [o \in Requests |-> stack[o]]
    BY DEF SessionTypeOK
  <1>3. posted = [o \in Requests |-> posted[o]] /\ pair = [o \in Requests |-> pair[o]]
    BY DEF SessionTypeOK
  <1>4. \A o \in Requests \ {q} : qpc'[o] = qpc[o]
    BY <1>1, <1>2
  <1>5. \A o \in Requests \ {q} : stack'[o] = stack[o]
    BY <1>1, <1>2
  <1>6. \A o \in Requests \ {q} : posted'[o] = posted[o] /\ pair'[o] = pair[o]
    BY <1>1, <1>3
  <1> QED
    BY <1>4, <1>5, <1>6

\* What a request moves to.
LEMMA Going ==
  ASSUME SessionTypeOK, NEW q \in Requests, NEW from, NEW to \in Steps, GotoQ(q, from, to)
  PROVE  qpc[q] = from /\ qpc'[q] = to /\ qpc' \in [Requests -> Steps]
  BY DEF GotoQ, SessionTypeOK

\* An error that is passed on ends the request, or has the one below it wipe the tokens.
LEMMA Passing ==
  ASSUME SessionTypeOK, NEW q \in Requests, UnderWay(q), PassOn(q)
  PROVE  /\ qpc'[q] \in {"failed", "wipe"} /\ qpc' \in [Requests -> Steps]
         /\ stack'[q] \in Seq(Stacked) /\ stack' \in [Requests -> Seq(Stacked)]
         /\ Len(stack'[q]) <= Throttle
         /\ qpc'[q] = "wipe" => stack'[q] # <<>>
  <1>1. stack[q] \in Seq(Stacked) /\ stack[q] # <<>> /\ Len(stack[q]) <= Throttle
    BY DEF SessionTypeOK, Stacked
  <1>2. Len(stack[q]) \in Nat \ {0}
    BY <1>1
  <1>3. Pop(q) \in Seq(Stacked) /\ Len(Pop(q)) = Len(stack[q]) - 1
    BY <1>1, <1>2 DEF Pop
  <1>4. stack' = [stack EXCEPT ![q] = Pop(q)] /\ stack \in [Requests -> Seq(Stacked)]
    BY DEF PassOn, SessionTypeOK, Stacked
  <1>5. stack'[q] = Pop(q) /\ stack' \in [Requests -> Seq(Stacked)]
    BY <1>3, <1>4
  <1>6. qpc'[q] = (IF Len(stack[q]) = 1 THEN "failed" ELSE "wipe") /\ qpc' \in [Requests -> Steps]
    BY DEF PassOn, SessionTypeOK, Steps
  <1>7. qpc'[q] = "wipe" => Pop(q) # <<>>
    <2>1. qpc'[q] = "wipe" => Len(Pop(q)) # 0
      BY <1>2, <1>3, <1>6
    <2> QED
      BY <2>1
  <1> QED
    BY <1>1, <1>2, <1>3, <1>5, <1>6, <1>7, SessionAssumption

\* A refusal is one more request that was answered 401, until the server answers 429.
LEMMA Refusing ==
  ASSUME SessionTypeOK, NEW q \in Requests, UnderWay(q), NEW r \in Stacked, Refuse(q, r)
  PROVE  /\ qpc'[q] \in {"read", "wipe"} /\ qpc' \in [Requests -> Steps]
         /\ stack' \in [Requests -> Seq(Stacked)]
         /\ Len(stack'[q]) <= Throttle /\ stack'[q] # <<>>
  <1>1. /\ stack[q] \in Seq(Stacked) /\ stack[q] # <<>> /\ Len(stack[q]) <= Throttle
        /\ stack \in [Requests -> Seq(Stacked)]
    BY DEF SessionTypeOK, Stacked
  <1>2. CASE Len(stack[q]) < Throttle
    <2>1. stack' = [stack EXCEPT ![q] = Append(@, r)] /\ qpc' = [qpc EXCEPT ![q] = "read"]
      BY <1>2 DEF Refuse
    <2>2. /\ Append(stack[q], r) \in Seq(Stacked) /\ Append(stack[q], r) # <<>>
          /\ Len(Append(stack[q], r)) <= Throttle
      BY <1>1, <1>2, SessionAssumption
    <2>3. stack'[q] = Append(stack[q], r) /\ stack' \in [Requests -> Seq(Stacked)]
      BY <1>1, <2>1, <2>2
    <2> QED
      BY <2>1, <2>2, <2>3 DEF SessionTypeOK, Steps
  <1>3. CASE ~(Len(stack[q]) < Throttle)
    BY <1>1, <1>3 DEF Refuse, SessionTypeOK, Steps
  <1> QED
    BY <1>2, <1>3

\* A request that is answered with another error, or not at all, has the tokens wiped.
LEMMA Failing ==
  ASSUME SessionTypeOK, NEW q \in Requests, UnderWay(q), Fail(q)
  PROVE  /\ qpc'[q] = "wipe" /\ qpc' \in [Requests -> Steps]
         /\ stack' = stack /\ stack' \in [Requests -> Seq(Stacked)]
         /\ Len(stack'[q]) <= Throttle /\ stack'[q] # <<>>
  BY DEF Fail, SessionTypeOK, Stacked, Steps

\* The client starts logged in.
LEMMA InitSessionTypes == SessionInit => SessionTypeOK
  <1> SUFFICES ASSUME SessionInit
               PROVE  SessionTypeOK
    OBVIOUS
  <1>1. stack = [q \in Requests |-> <<>>] /\ <<>> \in Seq(Pairs \cup {App}) /\ Len(<<>>) = 0
    BY DEF SessionInit
  <1>2. \A q \in Requests : ~UnderWay(q)
    BY DEF SessionInit, UnderWay
  <1>3. overlapped \in BOOLEAN /\ raced \in BOOLEAN /\ spoiled \in BOOLEAN /\ isActive \in BOOLEAN
    BY Zenon DEF SessionInit
  <1>4. stack \in [Requests -> Seq(Pairs \cup {App})] /\ \A q \in Requests : Len(stack[q]) = 0
    BY <1>1
  <1>5. \A q \in Requests : Len(stack[q]) <= Throttle
    BY <1>4, SessionAssumption
  <1>6. lapsed \in 0 .. MaxPairs + 1
    BY PairNumbers DEF SessionInit
  <1> QED
    BY <1>2, <1>3, <1>4, <1>5, <1>6, PairNumbers DEF SessionInit, SessionTypeOK, Steps

\* Every step keeps the types.
LEMMA NextSessionTypes == SessionTypeOK /\ [SessionNext]_sessionVars => SessionTypeOK'
  <1> SUFFICES ASSUME SessionTypeOK, [SessionNext]_sessionVars
               PROVE  SessionTypeOK'
    OBVIOUS
  <1> DEFINE Rest(q) == /\ qpc' \in [Requests -> Steps] /\ stack' \in [Requests -> Seq(Stacked)]
                        /\ Len(stack'[q]) <= Throttle
                        /\ qpc'[q] \notin {"idle", "ok", "failed"} => stack'[q] # <<>>
             Plain == /\ access' \in Pairs \cup {None} /\ refresh' \in Pairs \cup {None}
                      /\ live' \subseteq Pairs /\ valid' \subseteq Pairs /\ newestPair' \in Pairs
                      /\ posted' \in [Requests -> Pairs] /\ pair' \in [Requests -> Pairs]
                      /\ lpc' \in {"idle", "post", "access", "refresh", "done"}
                      /\ leaving' \in Pairs \cup {None} /\ lostAnswers' \in 0 .. MaxLost
                      /\ overlapped' \in BOOLEAN /\ raced' \in BOOLEAN /\ spoiled' \in BOOLEAN
                      /\ lapsed' \in 0 .. MaxPairs + 1 /\ isActive' \in BOOLEAN
  <1>1. ASSUME NEW q \in Requests, Send(q) \/ OnError(q), Rest(q), Plain
        PROVE  SessionTypeOK'
    <2>1. \A o \in Requests \ {q} : qpc'[o] = qpc[o] /\ stack'[o] = stack[o]
      BY <1>1, OneRequest
    <2>2. \A o \in Requests : /\ Len(stack[o]) <= Throttle
                              /\ qpc[o] \notin {"idle", "ok", "failed"} => stack[o] # <<>>
      BY DEF SessionTypeOK, UnderWay
    <2>3. \A o \in Requests : /\ Len(stack'[o]) <= Throttle
                              /\ qpc'[o] \notin {"idle", "ok", "failed"} => stack'[o] # <<>>
      BY <1>1, <2>1, <2>2
    <2> QED
      BY <1>1, <2>3 DEF SessionTypeOK, UnderWay, Stacked
  <1>2. ASSUME NEW q \in Requests, Send(q)
        PROVE  SessionTypeOK'
    <2>1. /\ overlapped' = (overlapped \/ \E o \in Requests : UnderWay(o))
          /\ raced' = (raced \/ lpc = "refresh")
          /\ UNCHANGED <<tokensStored, server, posted, pair, logout, lostAnswers, spoiled>>
      BY <1>2 DEF Send
    <2>2. overlapped' \in BOOLEAN /\ raced' \in BOOLEAN
      BY <2>1
    <2>3. Plain
      BY <2>1, <2>2 DEF SessionTypeOK, tokensStored, server, logout
    <2>4. Rest(q)
      <3>1. CASE Admits(access)
        <4>1. GotoQ(q, "idle", "ok") /\ stack' = stack
          BY <1>2, <3>1 DEF Send
        <4> QED
          BY <4>1, Going DEF SessionTypeOK, Stacked, Steps
      <3>2. CASE ~Admits(access)
        <4>1. GotoQ(q, "idle", "read") /\ stack' = [stack EXCEPT ![q] = <<App>>]
          BY <1>2, <3>2 DEF Send
        <4>2. <<App>> \in Seq(Stacked) /\ Len(<<App>>) = 1 /\ <<App>> # <<>>
          BY DEF Stacked
        <4>3. stack' \in [Requests -> Seq(Stacked)] /\ stack'[q] = <<App>>
          BY <4>1, <4>2 DEF SessionTypeOK, Stacked
        <4> QED
          BY <4>1, <4>2, <4>3, Going, SessionAssumption DEF Steps
      <3> QED
        BY <3>1, <3>2
    <2> QED
      BY <1>1, <1>2, <2>3, <2>4
  <1>3. ASSUME NEW q \in Requests, OnError(q)
        PROVE  SessionTypeOK'
    <2>1. CASE ReadRefresh(q)
      <3>1. Plain
        BY <2>1 DEF ReadRefresh, SessionTypeOK, tokensStored, server, logout, sessionHistory
      <3>2. CASE refresh = None
        <4>1. PassOn(q) /\ UnderWay(q)
          BY <2>1, <3>2 DEF ReadRefresh, UnderWay
        <4>2. Rest(q)
          BY <4>1, Passing
        <4> QED
          BY <1>1, <1>3, <3>1, <4>2
      <3>3. CASE refresh # None
        <4>1. GotoQ(q, "read", "post") /\ stack' = stack /\ UnderWay(q)
          BY <2>1, <3>3 DEF ReadRefresh, UnderWay
        <4>2. Rest(q)
          BY <4>1, Going DEF SessionTypeOK, Stacked, Steps
        <4> QED
          BY <1>1, <1>3, <3>1, <4>2
      <3> QED
        BY <3>2, <3>3
    <2>2. CASE Post(q)
      <3>1. Plain
        <4>1. /\ spoiled' = spoiled \/ spoiled' = (spoiled \/ posted[q] \in live) \/ spoiled' = TRUE
              /\ UNCHANGED <<tokensStored, server, posted, pair, logout, lostAnswers, overlapped, raced>>
          BY <2>2 DEF Post, Fail
        <4>2. spoiled' \in BOOLEAN
          BY <4>1, Zenon DEF SessionTypeOK
        <4> QED
          BY <4>1, <4>2 DEF SessionTypeOK, tokensStored, server, logout
      <3>2. UnderWay(q) /\ posted[q] \in Stacked
        BY <2>2 DEF Post, UnderWay, SessionTypeOK, Stacked
      <3>3. CASE GotoQ(q, "post", "rotate") /\ stack' = stack
        <4>1. Rest(q)
          BY <3>2, <3>3, Going DEF SessionTypeOK, UnderWay, Stacked, Steps
        <4> QED
          BY <1>1, <1>3, <3>1, <4>1
      <3>4. CASE Refuse(q, posted[q])
        <4>1. Rest(q)
          BY <3>2, <3>4, Refusing
        <4> QED
          BY <1>1, <1>3, <3>1, <4>1
      <3>5. CASE Fail(q)
        <4>1. Rest(q)
          BY <3>2, <3>5, Failing
        <4> QED
          BY <1>1, <1>3, <3>1, <4>1
      <3> QED
        BY <2>2, <3>3, <3>4, <3>5 DEF Post
    <2>3. CASE RotatePair(q)
      <3>1. newestPair + 1 \in Pairs /\ UnderWay(q) /\ lostAnswers' \in 0 .. MaxLost
        <4>1. newestPair + 1 \in Pairs
          BY <2>3, PairNumbers DEF RotatePair, SessionTypeOK, Pairs
        <4>2. lostAnswers' = lostAnswers \/ (lostAnswers < MaxLost /\ lostAnswers' = lostAnswers + 1)
          BY <2>3 DEF RotatePair
        <4>3. lostAnswers' \in 0 .. MaxLost
          BY <4>2, SessionAssumption DEF SessionTypeOK
        <4> QED
          BY <2>3, <4>1, <4>3 DEF RotatePair, GotoQ, UnderWay
      <3>2. Plain
        BY <2>3, <3>1 DEF RotatePair, SessionTypeOK, tokensStored, logout, sessionHistory
      <3>3. (GotoQ(q, "rotate", "access") \/ GotoQ(q, "rotate", "wipe")) /\ stack' = stack
        BY <2>3 DEF RotatePair
      <3>4. Rest(q)
        BY <3>1, <3>3, Going DEF SessionTypeOK, UnderWay, Stacked, Steps
      <3> QED
        BY <1>1, <1>3, <3>2, <3>4
    <2>4. CASE StoreAccess(q) \/ StoreRefresh(q)
      <3>1. Plain
        BY <2>4
        DEF StoreAccess, StoreRefresh, SessionTypeOK, server, logout, sessionHistory
      <3>2. /\ GotoQ(q, "access", "refresh") \/ GotoQ(q, "refresh", "retry")
            /\ stack' = stack /\ UnderWay(q)
        BY <2>4 DEF StoreAccess, StoreRefresh, GotoQ, UnderWay
      <3>3. Rest(q)
        BY <3>2, Going DEF SessionTypeOK, UnderWay, Stacked, Steps
      <3> QED
        BY <1>1, <1>3, <3>1, <3>3
    <2>5. CASE Retry(q)
      <3>1. Plain
        <4>1. /\ spoiled' = spoiled \/ spoiled' = (spoiled \/ ~isActive) \/ spoiled' = TRUE
              /\ UNCHANGED <<tokensStored, server, posted, pair, logout, lostAnswers, overlapped, raced>>
          BY <2>5 DEF Retry, Fail
        <4>2. spoiled' \in BOOLEAN
          BY <4>1, Zenon DEF SessionTypeOK
        <4> QED
          BY <4>1, <4>2 DEF SessionTypeOK, tokensStored, server, logout
      <3>2. UnderWay(q) /\ Top(q) \in Stacked
        <4>1. UnderWay(q)
          BY <2>5 DEF Retry, UnderWay
        <4>2. stack[q] \in Seq(Stacked) /\ stack[q] # <<>>
          BY <4>1 DEF SessionTypeOK, Stacked
        <4> QED
          BY <4>1, <4>2 DEF Top
      <3>3. CASE GotoQ(q, "retry", "ok") /\ stack' = [stack EXCEPT ![q] = <<>>]
        <4>1. <<>> \in Seq(Stacked) /\ Len(<<>>) = 0
          OBVIOUS
        <4>2. stack' \in [Requests -> Seq(Stacked)] /\ stack'[q] = <<>>
          BY <3>3, <4>1 DEF SessionTypeOK, Stacked
        <4>3. Rest(q)
          BY <3>3, <4>1, <4>2, Going, SessionAssumption DEF Steps
        <4> QED
          BY <1>1, <1>3, <3>1, <4>3
      <3>4. CASE Refuse(q, Top(q))
        <4>1. Rest(q)
          BY <3>2, <3>4, Refusing
        <4> QED
          BY <1>1, <1>3, <3>1, <4>1
      <3>5. CASE Fail(q)
        <4>1. Rest(q)
          BY <3>2, <3>5, Failing
        <4> QED
          BY <1>1, <1>3, <3>1, <4>1
      <3> QED
        BY <2>5, <3>3, <3>4, <3>5 DEF Retry
    <2>6. CASE Wipe(q)
      <3>1. Plain
        BY <2>6 DEF Wipe, SessionTypeOK, server, logout, sessionHistory
      <3>2. PassOn(q) /\ UnderWay(q)
        BY <2>6 DEF Wipe, UnderWay
      <3>3. Rest(q)
        BY <3>2, Passing
      <3> QED
        BY <1>1, <1>3, <3>1, <3>3
    <2> QED
      BY <1>3, <2>1, <2>2, <2>3, <2>4, <2>5, <2>6 DEF OnError
  <1>4. ASSUME UNCHANGED reqs, Plain
        PROVE  SessionTypeOK'
    BY <1>4 DEF SessionTypeOK, UnderWay, reqs
  <1>5. CASE Leave \/ Revoke
    <2>1. lostAnswers' = lostAnswers \/ (lostAnswers < MaxLost /\ lostAnswers' = lostAnswers + 1)
      BY <1>5 DEF Leave, Revoke
    <2>2. lostAnswers' \in 0 .. MaxLost
      BY <2>1, SessionAssumption DEF SessionTypeOK
    <2>3. live' \subseteq Pairs
      BY <1>5 DEF Leave, Revoke, server, SessionTypeOK
    <2>4. UNCHANGED reqs /\ Plain
      BY <1>5, <2>2, <2>3
      DEF Leave, Revoke, SessionTypeOK, tokensStored, server, reqs, sessionHistory
    <2> QED
      BY <1>4, <2>4
  <1>6. CASE ClearAccess \/ ClearRefresh
    <2>1. raced' \in BOOLEAN
      BY <1>6 DEF ClearAccess, ClearRefresh
    <2>2. UNCHANGED reqs /\ Plain
      BY <1>6, <2>1 DEF ClearAccess, ClearRefresh, SessionTypeOK, server, reqs
    <2> QED
      BY <1>4, <2>2
  <1>7. ASSUME NEW t \in Pairs, ExpireAccess(t)
        PROVE  SessionTypeOK'
    <2>1. UNCHANGED reqs /\ Plain
      BY <1>7 DEF ExpireAccess, SessionTypeOK, tokensStored, reqs, logout, sessionHistory
    <2> QED
      BY <1>4, <2>1
  <1>8. ASSUME NEW t \in Pairs, ExpireRefresh(t)
        PROVE  SessionTypeOK'
    <2>1. t + 1 \in 0 .. MaxPairs + 1
      BY PairNumbers DEF Pairs
    <2>2. UNCHANGED reqs /\ Plain
      BY <1>8, <2>1 DEF ExpireRefresh, SessionTypeOK, tokensStored, reqs, logout, sessionHistory
    <2> QED
      BY <1>4, <2>2
  <1>9. CASE Deactivate
    <2>1. UNCHANGED reqs /\ Plain
      BY <1>9 DEF Deactivate, SessionTypeOK, tokensStored, reqs, logout, sessionHistory
    <2> QED
      BY <1>4, <2>1
  <1>10. CASE UNCHANGED sessionVars
    <2>1. UNCHANGED reqs /\ UNCHANGED <<tokensStored, server, logout, lostAnswers, sessionHistory>>
      BY <1>10 DEF sessionVars
    <2>2. UNCHANGED <<posted, pair>>
      BY <2>1 DEF reqs
    <2>3. Plain
      BY <2>1, <2>2 DEF SessionTypeOK, tokensStored, server, logout, sessionHistory
    <2> QED
      BY <1>4, <2>1, <2>3
  <1> QED
    BY <1>2, <1>3, <1>5, <1>6, <1>7, <1>8, <1>9, <1>10 DEF SessionNext

Storing(q) == qpc[q] \in {"access", "refresh"}

\* A pair that is being stored is newer than what is stored or posted, and is of no other
\* request.
PairsInv ==
  /\ refresh # None => refresh <= newestPair
  /\ \A t \in live : t <= newestPair
  /\ \A q \in Requests : posted[q] <= newestPair /\ pair[q] <= newestPair
  /\ \A q \in Requests : Storing(q) =>
       /\ pair[q] # refresh
       /\ lpc = "idle" => pair[q] \in live
       /\ \A o \in Requests : posted[o] # pair[q] /\ (o # q /\ Storing(o) => pair[o] # pair[q])

\* While requests do not overlap, the one under way is the first of its stack, posts the
\* token that is stored and gets an access token that is good.
Alone(q) ==
  /\ stack[q] = <<App>> /\ qpc[q] # "wipe" /\ \A o \in Requests \ {q} : ~UnderWay(o)
  /\ qpc[q] = "post" => posted[q] = refresh
  /\ qpc[q] \in {"access", "refresh", "retry"} => pair[q] \in valid /\ pair[q] > 0

LoneInv ==
  lostAnswers = 0 /\ lpc = "idle" /\ ~overlapped /\ ~spoiled =>
    /\ access # None /\ refresh # None
    /\ \A q \in Requests : IF UnderWay(q) THEN Alone(q) ELSE stack[q] = <<>>

\* After a logout that met no request, no request gets as far as a token.
LeftInv ==
  /\ lpc = "refresh" /\ ~raced => access = None /\ \A q \in Requests : ~UnderWay(q)
  /\ lpc = "done" /\ ~raced =>
       /\ access = None /\ refresh = None
       /\ \A q \in Requests : UnderWay(q) => qpc[q] \in {"read", "wipe"}

ClientInv == SessionTypeOK /\ PairsInv /\ StoredTokenWorks /\ LoneInv /\ LeftInv

\* No request is under way at first.
LEMMA InitClient == SessionInit => ClientInv
  <1> SUFFICES ASSUME SessionInit
               PROVE  ClientInv
    OBVIOUS
  <1>1. \A q \in Requests : qpc[q] = "idle" /\ posted[q] = 0 /\ pair[q] = 0 /\ stack[q] = <<>>
    BY DEF SessionInit
  <1>2. \A q \in Requests : ~UnderWay(q) /\ ~Storing(q)
    BY <1>1 DEF UnderWay, Storing
  <1>3. access = 0 /\ refresh = 0 /\ live = {0} /\ newestPair = 0 /\ lpc = "idle" /\ 0 # None
    BY NamesAssumption DEF SessionInit
  <1>4. PairsInv
    BY <1>1, <1>2, <1>3 DEF PairsInv
  <1>5. StoredTokenWorks
    BY <1>3 DEF StoredTokenWorks
  <1>6. LoneInv /\ LeftInv
    BY <1>1, <1>2, <1>3 DEF LoneInv, LeftInv
  <1> QED
    BY <1>4, <1>5, <1>6, InitSessionTypes DEF ClientInv

\* What a step of a request leaves to the others, as the invariant sees it.
LEMMA NextPairs ==
  ClientInv /\ SessionTypeOK' /\ [SessionNext]_sessionVars => PairsInv' /\ StoredTokenWorks'
  <1> SUFFICES ASSUME ClientInv, SessionTypeOK', [SessionNext]_sessionVars
               PROVE  PairsInv' /\ StoredTokenWorks'
    OBVIOUS
  <1>0. SessionTypeOK /\ PairsInv /\ StoredTokenWorks
    BY DEF ClientInv
  <1>1. /\ newestPair \in Nat /\ lostAnswers \in Nat /\ (refresh \in Nat \/ refresh = None)
        /\ posted \in [Requests -> Nat] /\ pair \in [Requests -> Nat] /\ live \subseteq Nat
    <2>1. newestPair \in Nat /\ (refresh \in Nat \/ refresh = None) /\ live \subseteq Nat
      BY <1>0, PairNumbers DEF SessionTypeOK
    <2>2. lostAnswers \in Nat
      BY <1>0, SessionAssumption DEF SessionTypeOK
    <2>3. posted \in [Requests -> Nat] /\ pair \in [Requests -> Nat]
      BY <1>0, PairNumbers DEF SessionTypeOK
    <2> QED
      BY <2>1, <2>2, <2>3
  <1>2. ASSUME NEW q \in Requests, Send(q) \/ OnError(q), UNCHANGED <<refresh, live, newestPair>>,
               posted'[q] <= newestPair, pair'[q] <= newestPair,
               lostAnswers' = lostAnswers, lpc' = lpc,
               posted'[q] = posted[q] \/ posted'[q] = refresh,
               pair'[q] = pair[q], Storing(q)' => Storing(q),
               Storing(q) => Storing(q)' /\ posted'[q] = posted[q]
        PROVE  PairsInv' /\ StoredTokenWorks'
    <2>1. \A o \in Requests \ {q} : qpc'[o] = qpc[o] /\ posted'[o] = posted[o] /\ pair'[o] = pair[o]
      BY <1>0, <1>2, OneRequest
    <2>2. \A o \in Requests : (Storing(o)' <=> Storing(o)) /\ pair'[o] = pair[o]
      BY <1>2, <2>1 DEF Storing
    <2>3. \A o \in Requests : posted'[o] = posted[o] \/ posted'[o] = refresh
      BY <1>2, <2>1
    <2>4. PairsInv'
      BY <1>0, <1>2, <2>1, <2>2, <2>3 DEF PairsInv
    <2>5. \A t : Replacing(t) => Replacing(t)'
      BY <1>2, <2>1 DEF Replacing, Storing
    <2>6. StoredTokenWorks'
      BY <1>0, <1>2, <2>5 DEF StoredTokenWorks
    <2> QED
      BY <2>4, <2>6
  <1>3. ASSUME NEW q \in Requests, Send(q)
        PROVE  PairsInv' /\ StoredTokenWorks'
    <2>1. /\ UNCHANGED <<tokensStored, server, posted, pair, logout, lostAnswers>>
          /\ GotoQ(q, "idle", "ok") \/ GotoQ(q, "idle", "read")
      BY <1>3 DEF Send
    <2>2. ~Storing(q) /\ ~Storing(q)'
      BY <1>0, <2>1, Going DEF Storing, Steps
    <2> QED
      BY <1>0, <1>2, <1>3, <2>1, <2>2 DEF tokensStored, server, logout, PairsInv
  <1>4. ASSUME NEW q \in Requests, OnError(q)
        PROVE  PairsInv' /\ StoredTokenWorks'
    <2>1. \A o \in Requests \ {q} : qpc'[o] = qpc[o] /\ posted'[o] = posted[o] /\ pair'[o] = pair[o]
      BY <1>0, <1>4, OneRequest
    <2>2. CASE ReadRefresh(q)
      <3>1. /\ UNCHANGED <<tokensStored, server, pair, logout, lostAnswers>>
            /\ qpc[q] = "read" /\ UnderWay(q)
        BY <2>2 DEF ReadRefresh, UnderWay
      <3>2. ~Storing(q)' /\ (posted'[q] = posted[q] \/ (refresh # None /\ posted'[q] = refresh))
        <4>1. CASE refresh = None
          <5>1. PassOn(q) /\ posted' = posted
            BY <2>2, <4>1 DEF ReadRefresh
          <5>2. qpc'[q] \in {"failed", "wipe"}
            BY <1>0, <3>1, <5>1, Passing
          <5> QED
            BY <5>1, <5>2 DEF Storing
        <4>2. CASE refresh # None
          <5>1. GotoQ(q, "read", "post") /\ posted' = [posted EXCEPT ![q] = refresh]
            BY <2>2, <4>2 DEF ReadRefresh
          <5>2. posted'[q] = refresh
            BY <1>1, <5>1
          <5>3. qpc'[q] = "post"
            BY <1>0, <5>1, Going DEF Steps
          <5> QED
            BY <4>2, <5>2, <5>3 DEF Storing
        <4> QED
          BY <4>1, <4>2
      <3>3. UNCHANGED <<refresh, live, newestPair, lpc, lostAnswers>> /\ pair'[q] = pair[q]
        BY <3>1 DEF tokensStored, server, logout
      <3>4. posted'[q] <= newestPair /\ pair'[q] <= newestPair
        BY <1>0, <3>2, <3>3 DEF PairsInv
      <3>5. ~Storing(q)
        BY <3>1 DEF Storing
      <3> QED
        BY <1>2, <1>4, <3>2, <3>3, <3>4, <3>5
    <2>3. CASE Post(q) \/ Retry(q)
      <3>1. /\ UNCHANGED <<tokensStored, server, posted, pair, logout, lostAnswers>>
            /\ qpc[q] \in {"post", "retry"} /\ UnderWay(q)
        BY <2>3 DEF Post, Retry, UnderWay
      <3>2. /\ UNCHANGED <<refresh, live, newestPair, lpc, lostAnswers>>
            /\ pair'[q] = pair[q] /\ posted'[q] = posted[q] /\ ~Storing(q)
        BY <3>1 DEF tokensStored, server, logout, Storing
      <3>3. \/ GotoQ(q, "post", "rotate") \/ GotoQ(q, "retry", "ok") \/ Fail(q)
            \/ \E r \in Stacked : Refuse(q, r)
        <4>1. CASE Post(q)
          <5>1. posted[q] \in Stacked
            BY <1>0 DEF SessionTypeOK, Stacked
          <5> QED
            BY <4>1, <5>1 DEF Post
        <4>2. CASE Retry(q)
          <5>1. stack[q] \in Seq(Stacked) /\ stack[q] # <<>>
            BY <1>0, <3>1 DEF SessionTypeOK, Stacked
          <5>2. Top(q) \in Stacked
            BY <5>1 DEF Top
          <5> QED
            BY <4>2, <5>2 DEF Retry
        <4> QED
          BY <2>3, <4>1, <4>2
      <3>4. qpc'[q] \in {"rotate", "ok", "read", "wipe"}
        BY <1>0, <3>1, <3>3, Going, Refusing, Failing DEF Steps
      <3>5. ~Storing(q)'
        BY <3>4 DEF Storing
      <3>6. posted'[q] <= newestPair /\ pair'[q] <= newestPair
        BY <1>0, <3>2 DEF PairsInv
      <3> QED
        BY <1>2, <1>4, <3>2, <3>5, <3>6
    <2>4. CASE RotatePair(q)
      <3>1. /\ newestPair' = newestPair + 1
            /\ live' = (live \ {posted[q]}) \cup {newestPair + 1}
            /\ pair'[q] = newestPair + 1 /\ UNCHANGED <<refresh, posted, lpc>>
            /\ qpc[q] = "rotate"
        BY <1>1, <2>4 DEF RotatePair, GotoQ, tokensStored, logout
      <3>2. \/ qpc'[q] = "access" /\ lostAnswers' = lostAnswers
            \/ qpc'[q] = "wipe" /\ lostAnswers' = lostAnswers + 1
        BY <1>0, <2>4, Going DEF RotatePair, Steps
      <3>3. ~Storing(q) /\ \A o \in Requests \ {q} : Storing(o)' <=> Storing(o)
        BY <2>1, <3>1 DEF Storing
      <3>4. /\ refresh # None => refresh <= newestPair'
            /\ \A t \in live' : t <= newestPair'
            /\ \A o \in Requests : posted'[o] <= newestPair' /\ pair'[o] <= newestPair'
        BY <1>0, <1>1, <2>1, <3>1 DEF PairsInv
      <3>5. /\ pair'[q] # refresh /\ pair'[q] \in live'
            /\ \A o \in Requests : posted'[o] # pair'[q]
            /\ \A o \in Requests \ {q} : pair'[o] # pair'[q]
        BY <1>0, <1>1, <2>1, <3>1, NamesAssumption DEF PairsInv
      <3>6. ASSUME NEW o \in Requests \ {q}, Storing(o)
            PROVE  /\ pair'[o] # refresh /\ (lpc = "idle" => pair'[o] \in live')
                   /\ \A e \in Requests : posted'[e] # pair'[o]
                   /\ \A e \in Requests \ {o, q} : Storing(e) => pair'[e] # pair'[o]
        BY <1>0, <2>1, <3>1, <3>6 DEF PairsInv
      <3>7. PairsInv'
        BY <3>1, <3>3, <3>4, <3>5, <3>6 DEF PairsInv
      <3>8. StoredTokenWorks'
        <4>1. SUFFICES ASSUME lostAnswers' = 0, lpc = "idle", refresh # None
                       PROVE  refresh \in live' \/ Replacing(refresh)'
          BY <3>1 DEF StoredTokenWorks
        <4>2. qpc'[q] = "access" /\ lostAnswers = 0
          BY <1>1, <3>2, <4>1
        <4>3. CASE refresh = posted[q]
          BY <3>1, <4>2, <4>3 DEF Replacing
        <4>4. CASE refresh # posted[q] /\ refresh \in live
          BY <3>1, <4>4
        <4>5. CASE Replacing(refresh)
          <5>1. PICK o \in Requests : qpc[o] \in {"access", "refresh"} /\ posted[o] = refresh
            BY <4>5 DEF Replacing
          <5>2. qpc'[o] = qpc[o] /\ posted'[o] = refresh
            BY <2>1, <3>1, <5>1
          <5> QED
            BY <3>1, <5>1, <5>2 DEF Replacing
        <4> QED
          BY <1>0, <4>1, <4>2, <4>3, <4>4, <4>5 DEF StoredTokenWorks
      <3> QED
        BY <3>7, <3>8
    <2>5. CASE StoreAccess(q)
      <3>1. /\ GotoQ(q, "access", "refresh")
            /\ UNCHANGED <<refresh, server, posted, pair, logout, lostAnswers>>
        BY <2>5 DEF StoreAccess
      <3>2. Storing(q) /\ Storing(q)'
        BY <1>0, <3>1, Going DEF Storing, Steps
      <3> QED
        BY <1>0, <1>2, <1>4, <3>1, <3>2 DEF server, logout, PairsInv
    <2>6. CASE StoreRefresh(q)
      <3>1. /\ refresh' = pair[q] /\ UNCHANGED <<live, newestPair, posted, pair, lpc, lostAnswers>>
            /\ GotoQ(q, "refresh", "retry")
        BY <2>6 DEF StoreRefresh, server, logout
      <3>2. Storing(q) /\ ~Storing(q)'
        BY <1>0, <3>1, Going DEF Storing, Steps
      <3>3. \A o \in Requests \ {q} : Storing(o)' <=> Storing(o)
        BY <2>1 DEF Storing
      <3>4. PairsInv'
        BY <1>0, <3>1, <3>2, <3>3 DEF PairsInv
      <3>5. StoredTokenWorks'
        BY <1>0, <3>1, <3>2 DEF PairsInv, StoredTokenWorks
      <3> QED
        BY <3>4, <3>5
    <2>7. CASE Wipe(q)
      <3>1. /\ refresh' = None /\ UNCHANGED <<live, newestPair, posted, pair, lpc, lostAnswers>>
            /\ PassOn(q) /\ UnderWay(q)
        BY <2>7 DEF Wipe, server, logout, UnderWay
      <3>2. qpc'[q] \in {"failed", "wipe"}
        BY <1>0, <3>1, Passing
      <3>3. ~Storing(q)' /\ \A o \in Requests \ {q} : Storing(o)' <=> Storing(o)
        BY <2>1, <3>2 DEF Storing
      <3>4. \A o \in Requests : pair[o] # None
        BY <1>1, NamesAssumption
      <3>5. PairsInv' /\ StoredTokenWorks'
        BY <1>0, <3>1, <3>3, <3>4 DEF PairsInv, StoredTokenWorks
      <3> QED
        BY <3>5
    <2> QED
      BY <1>4, <2>2, <2>3, <2>4, <2>5, <2>6, <2>7 DEF OnError
  <1>5. CASE Leave \/ Revoke
    <2>1. /\ UNCHANGED <<refresh, newestPair, qpc, posted, pair>> /\ live' \subseteq live
          /\ lpc' # "idle"
      BY <1>5 DEF Leave, Revoke, tokensStored, server, reqs
    <2> QED
      BY <1>0, <2>1 DEF PairsInv, StoredTokenWorks, Storing
  <1>6. CASE ClearAccess \/ ClearRefresh
    <2>1. /\ UNCHANGED <<live, newestPair, qpc, posted, pair>> /\ lpc' # "idle"
          /\ refresh' \in {refresh, None}
      BY <1>6 DEF ClearAccess, ClearRefresh, server, reqs
    <2>2. \A o \in Requests : pair[o] # None
      BY <1>1, NamesAssumption
    <2> QED
      BY <1>0, <2>1, <2>2 DEF PairsInv, StoredTokenWorks, Storing
  <1>7. CASE \/ \E t \in Pairs : ExpireAccess(t) \/ ExpireRefresh(t)
             \/ Deactivate \/ UNCHANGED sessionVars
    <2>1. UNCHANGED <<refresh, live, newestPair, qpc, posted, pair, lpc, lostAnswers>>
      BY <1>7 DEF ExpireAccess, ExpireRefresh, Deactivate, sessionVars, tokensStored, server, reqs,
                  logout
    <2> QED
      BY <1>0, <2>1 DEF PairsInv, StoredTokenWorks, Storing, Replacing
  <1> QED
    BY <1>3, <1>4, <1>5, <1>6, <1>7 DEF SessionNext

\* A request that meets no other gets through its refresh without a refusal.
LEMMA NextLone == ClientInv /\ SessionTypeOK' /\ [SessionNext]_sessionVars => LoneInv'
  <1> SUFFICES ASSUME ClientInv, SessionTypeOK', [SessionNext]_sessionVars,
                      lostAnswers' = 0, lpc' = "idle", ~overlapped', ~spoiled'
               PROVE  /\ access' # None /\ refresh' # None
                      /\ \A q \in Requests : IF UnderWay(q)' THEN Alone(q)' ELSE stack'[q] = <<>>
    BY DEF LoneInv
  <1>0. SessionTypeOK /\ StoredTokenWorks /\ lostAnswers \in Nat
    BY SessionAssumption DEF ClientInv, SessionTypeOK
  <1>1. lostAnswers = 0 /\ lpc = "idle" /\ ~overlapped /\ ~spoiled
    <2>1. CASE \E q \in Requests : Send(q) \/ OnError(q)
      <3>1. lostAnswers' \in {lostAnswers, lostAnswers + 1} /\ lpc' = lpc
        BY <2>1 DEF Send, OnError, ReadRefresh, Post, RotatePair, StoreAccess, StoreRefresh,
                    Retry, Wipe, logout
      <3>2. (overlapped => overlapped') /\ (spoiled => spoiled')
        <4>1. PICK q \in Requests : Send(q) \/ OnError(q)
          BY <2>1
        <4>2. CASE Post(q) \/ Retry(q)
          <5>1. overlapped' = overlapped
            BY <4>2 DEF Post, Retry
          <5>2. spoiled => spoiled'
            BY <4>2, Zenon DEF Post, Retry, Fail
          <5> QED
            BY <5>1, <5>2
        <4>3. CASE Send(q)
          BY <4>3 DEF Send
        <4>4. CASE ReadRefresh(q) \/ RotatePair(q) \/ StoreAccess(q) \/ StoreRefresh(q) \/ Wipe(q)
          BY <4>4 DEF ReadRefresh, RotatePair, StoreAccess, StoreRefresh, Wipe, sessionHistory
        <4> QED
          BY <4>1, <4>2, <4>3, <4>4 DEF OnError
      <3> QED
        BY <1>0, <3>1, <3>2
    <2>2. CASE Leave \/ Revoke \/ ClearAccess \/ ClearRefresh
      BY <2>2 DEF Leave, Revoke, ClearAccess, ClearRefresh
    <2>3. CASE \/ \E t \in Pairs : ExpireAccess(t) \/ ExpireRefresh(t)
               \/ Deactivate \/ UNCHANGED sessionVars
      BY <2>3 DEF ExpireAccess, ExpireRefresh, Deactivate, sessionVars, logout, sessionHistory
    <2> QED
      BY <2>1, <2>2, <2>3 DEF SessionNext
  <1>2. /\ access # None /\ refresh # None
        /\ \A q \in Requests : IF UnderWay(q) THEN Alone(q) ELSE stack[q] = <<>>
    BY <1>1 DEF ClientInv, LoneInv
  <1>3. ASSUME NEW q \in Requests, Send(q) \/ OnError(q), access' # None, refresh' # None,
               UnderWay(q) \/ \A o \in Requests : ~UnderWay(o),
               IF UnderWay(q)'
               THEN /\ stack'[q] = <<App>> /\ qpc'[q] # "wipe"
                    /\ qpc'[q] = "post" => posted'[q] = refresh'
                    /\ qpc'[q] \in {"access", "refresh", "retry"} => pair'[q] \in valid' /\ pair'[q] > 0
               ELSE stack'[q] = <<>>
        PROVE  /\ access' # None /\ refresh' # None
               /\ \A o \in Requests : IF UnderWay(o)' THEN Alone(o)' ELSE stack'[o] = <<>>
    <2>1. \A o \in Requests \ {q} : qpc'[o] = qpc[o] /\ stack'[o] = stack[o]
      BY <1>0, <1>3, OneRequest
    <2>2. \A o \in Requests \ {q} : ~UnderWay(o)
      BY <1>2, <1>3 DEF Alone
    <2>3. \A o \in Requests \ {q} : ~UnderWay(o)' /\ stack'[o] = <<>>
      BY <1>2, <2>1, <2>2 DEF UnderWay
    <2>4. IF UnderWay(q)' THEN Alone(q)' ELSE stack'[q] = <<>>
      BY <1>3, <2>3 DEF Alone
    <2> QED
      BY <1>3, <2>3, <2>4
  <1>4. ASSUME NEW q \in Requests, Send(q)
        PROVE  /\ access' # None /\ refresh' # None
               /\ \A o \in Requests : IF UnderWay(o)' THEN Alone(o)' ELSE stack'[o] = <<>>
    <2>1. /\ overlapped' = (overlapped \/ \E o \in Requests : UnderWay(o))
          /\ access' = access /\ refresh' = refresh
      BY <1>4 DEF Send, tokensStored
    <2>2. \A o \in Requests : ~UnderWay(o)
      BY <2>1
    <2>3. \/ GotoQ(q, "idle", "ok") /\ stack' = stack
          \/ GotoQ(q, "idle", "read") /\ stack' = [stack EXCEPT ![q] = <<App>>]
      BY <1>4 DEF Send
    <2>4. stack[q] = <<>>
      BY <1>2, <2>2
    <2>5. \/ qpc'[q] = "ok" /\ stack'[q] = <<>>
          \/ qpc'[q] = "read" /\ stack'[q] = <<App>>
      BY <1>0, <2>3, <2>4, Going DEF Steps, SessionTypeOK
    <2> QED
      BY <1>2, <1>3, <1>4, <2>1, <2>2, <2>5 DEF UnderWay
  <1>5. ASSUME NEW q \in Requests, OnError(q)
        PROVE  /\ access' # None /\ refresh' # None
               /\ \A o \in Requests : IF UnderWay(o)' THEN Alone(o)' ELSE stack'[o] = <<>>
    <2>1. UnderWay(q)
      BY <1>5 DEF OnError, ReadRefresh, Post, RotatePair, StoreAccess, StoreRefresh, Retry, Wipe,
                  GotoQ, UnderWay
    <2>2. /\ stack[q] = <<App>> /\ qpc[q] # "wipe" /\ \A o \in Requests \ {q} : ~UnderWay(o)
          /\ qpc[q] = "post" => posted[q] = refresh
          /\ qpc[q] \in {"access", "refresh", "retry"} => pair[q] \in valid /\ pair[q] > 0
      BY <1>2, <2>1 DEF Alone
    <2>3. CASE ReadRefresh(q)
      <3>1. GotoQ(q, "read", "post") /\ stack' = stack /\ posted' = [posted EXCEPT ![q] = refresh]
        BY <1>2, <2>3 DEF ReadRefresh
      <3>2. qpc'[q] = "post" /\ posted'[q] = refresh
        BY <1>0, <3>1, Going DEF Steps, SessionTypeOK
      <3>3. access' = access /\ refresh' = refresh
        BY <2>3 DEF ReadRefresh, tokensStored
      <3> QED
        BY <1>2, <1>3, <1>5, <2>1, <2>2, <3>1, <3>2, <3>3 DEF UnderWay
    <2>4. CASE Post(q)
      <3>1. qpc[q] = "post" /\ posted[q] = refresh
        BY <2>2, <2>4 DEF Post
      <3>2. ~Replacing(refresh)
        BY <2>2, <3>1 DEF Replacing, UnderWay
      <3>3. posted[q] \in live
        BY <1>0, <1>1, <1>2, <3>1, <3>2 DEF StoredTokenWorks
      <3>4. /\ GotoQ(q, "post", "rotate") /\ stack' = stack
            /\ access' = access /\ refresh' = refresh
        BY <2>4, <3>3 DEF Post, Fail, tokensStored
      <3>5. qpc'[q] = "rotate"
        BY <1>0, <3>4, Going DEF Steps
      <3> QED
        BY <1>2, <1>3, <1>5, <2>1, <2>2, <3>4, <3>5 DEF UnderWay
    <2>5. CASE RotatePair(q)
      <3>1. /\ pair' = [pair EXCEPT ![q] = newestPair + 1] /\ valid' = valid \cup {newestPair + 1}
            /\ stack' = stack /\ access' = access /\ refresh' = refresh
        BY <2>5 DEF RotatePair, tokensStored
      <3>2. GotoQ(q, "rotate", "access") \/ lostAnswers' = lostAnswers + 1
        BY <2>5 DEF RotatePair
      <3>3. GotoQ(q, "rotate", "access")
        BY <1>1, <3>2
      <3>4. qpc'[q] = "access" /\ pair'[q] = newestPair + 1 /\ newestPair \in Nat
        BY <1>0, <3>1, <3>3, Going, PairNumbers DEF Steps, SessionTypeOK
      <3>5. pair'[q] \in valid' /\ pair'[q] > 0
        BY <3>1, <3>4
      <3> QED
        BY <1>2, <1>3, <1>5, <2>1, <2>2, <3>1, <3>4, <3>5 DEF UnderWay
    <2>6. CASE StoreAccess(q) \/ StoreRefresh(q)
      <3>1. pair[q] # None /\ access' \in {access, pair[q]} /\ refresh' \in {refresh, pair[q]}
        BY <1>0, <2>6, PairNumbers DEF StoreAccess, StoreRefresh, SessionTypeOK
      <3>2. /\ UNCHANGED <<stack, pair, valid>> /\ qpc[q] \in {"access", "refresh"}
            /\ GotoQ(q, "access", "refresh") \/ GotoQ(q, "refresh", "retry")
        BY <2>6 DEF StoreAccess, StoreRefresh, server, GotoQ
      <3>3. qpc'[q] \in {"refresh", "retry"}
        BY <1>0, <3>2, Going DEF Steps
      <3> QED
        BY <1>2, <1>3, <1>5, <2>1, <2>2, <3>1, <3>2, <3>3 DEF UnderWay
    <2>7. CASE Retry(q)
      <3>1. Top(q) = App /\ pair[q] \in valid
        BY <2>2, <2>7 DEF Retry, Top
      <3>4. Admits(pair[q]) \/ ~isActive
        BY <3>1 DEF Admits
      <3>2. /\ GotoQ(q, "retry", "ok") /\ stack' = [stack EXCEPT ![q] = <<>>]
            /\ access' = access /\ refresh' = refresh
        BY <2>7, <3>1, <3>4 DEF Retry, Fail, tokensStored
      <3>3. qpc'[q] = "ok" /\ stack'[q] = <<>>
        BY <1>0, <3>2, Going DEF Steps, SessionTypeOK
      <3> QED
        BY <1>2, <1>3, <1>5, <2>1, <3>2, <3>3 DEF UnderWay
    <2>8. CASE Wipe(q)
      BY <2>2, <2>8 DEF Wipe
    <2> QED
      BY <1>5, <2>3, <2>4, <2>5, <2>6, <2>7, <2>8 DEF OnError
  <1>6. CASE Leave \/ Revoke \/ ClearAccess \/ ClearRefresh
    BY <1>1, <1>6 DEF Leave, Revoke, ClearAccess, ClearRefresh
  <1>7. ASSUME NEW t \in Pairs, ExpireAccess(t)
        PROVE  /\ access' # None /\ refresh' # None
               /\ \A q \in Requests : IF UnderWay(q)' THEN Alone(q)' ELSE stack'[q] = <<>>
    <2>1. /\ UNCHANGED <<access, refresh, qpc, stack, posted, pair>> /\ valid' = valid \ {t}
          /\ ~\E q \in Requests : UnderWay(q) /\ pair[q] = t /\ t > 0
      BY <1>7 DEF ExpireAccess, tokensStored, reqs
    <2>2. \A q \in Requests : UnderWay(q)' <=> UnderWay(q)
      BY <2>1 DEF UnderWay
    <2>3. ASSUME NEW q \in Requests, UnderWay(q)
          PROVE  Alone(q)'
      <3>1. Alone(q)
        BY <1>2, <2>3
      <3>2. qpc[q] \in {"access", "refresh", "retry"} => pair[q] \in valid \ {t} /\ pair[q] > 0
        BY <2>1, <2>3, <3>1 DEF Alone
      <3> QED
        BY <2>1, <2>2, <3>1, <3>2 DEF Alone
    <2> QED
      BY <1>2, <2>1, <2>2, <2>3
  <1>8. CASE (\E t \in Pairs : ExpireRefresh(t)) \/ Deactivate \/ UNCHANGED sessionVars
    <2>1. UNCHANGED <<access, refresh, valid, qpc, stack, posted, pair>>
      BY <1>8 DEF ExpireRefresh, Deactivate, sessionVars, tokensStored, server, reqs
    <2> QED
      BY <1>2, <2>1 DEF UnderWay, Alone
  <1> QED
    BY <1>4, <1>5, <1>6, <1>7, <1>8 DEF SessionNext

\* A request that is sent without a token reads none, and is over.
LEMMA NextLeft == ClientInv /\ SessionTypeOK' /\ [SessionNext]_sessionVars => LeftInv'
  <1> SUFFICES ASSUME ClientInv, SessionTypeOK', [SessionNext]_sessionVars
               PROVE  LeftInv'
    OBVIOUS
  <1>0. SessionTypeOK /\ LeftInv
    BY DEF ClientInv
  <1>1. ASSUME NEW q \in Requests, Send(q)
        PROVE  LeftInv'
    <2>1. /\ raced' = (raced \/ lpc = "refresh") /\ UNCHANGED <<access, refresh, lpc, valid>>
      BY <1>1 DEF Send, tokensStored, server, logout
    <2>2. \A o \in Requests \ {q} : qpc'[o] = qpc[o]
      BY <1>0, <1>1, OneRequest
    <2>3. GotoQ(q, "idle", "ok") \/ GotoQ(q, "idle", "read")
      BY <1>1 DEF Send
    <2>4. qpc'[q] \in {"ok", "read"}
      BY <1>0, <2>3, Going DEF Steps
    <2> QED
      BY <1>0, <2>1, <2>2, <2>4 DEF LeftInv, UnderWay
  <1>2. ASSUME NEW q \in Requests, OnError(q)
        PROVE  LeftInv'
    <2>1. raced' = raced /\ lpc' = lpc
      BY <1>2 DEF OnError, ReadRefresh, Post, RotatePair, StoreAccess, StoreRefresh, Retry, Wipe,
                  logout, sessionHistory
    <2>2. \A o \in Requests \ {q} : qpc'[o] = qpc[o]
      BY <1>0, <1>2, OneRequest
    <2>3. UnderWay(q)
      BY <1>2 DEF OnError, ReadRefresh, Post, RotatePair, StoreAccess, StoreRefresh, Retry, Wipe,
                  GotoQ, UnderWay
    <2>4. ASSUME lpc = "done", ~raced
          PROVE  access' = None /\ refresh' = None /\ qpc'[q] \in {"failed", "wipe"}
      <3>1. access = None /\ refresh = None /\ qpc[q] \in {"read", "wipe"}
        BY <1>0, <2>3, <2>4 DEF LeftInv
      <3>2. ReadRefresh(q) \/ Wipe(q)
        BY <1>2, <3>1 DEF OnError, Post, RotatePair, StoreAccess, StoreRefresh, Retry, GotoQ
      <3>3. PassOn(q) /\ access' = None /\ refresh' = None
        BY <3>1, <3>2 DEF ReadRefresh, Wipe, tokensStored
      <3> QED
        BY <1>0, <2>3, <3>3, Passing
    <2>5. ~(lpc = "refresh" /\ ~raced)
      BY <1>0, <2>3 DEF LeftInv
    <2> QED
      BY <1>0, <2>1, <2>2, <2>4, <2>5 DEF LeftInv, UnderWay
  <1>3. CASE Leave \/ Revoke
    BY <1>3 DEF Leave, Revoke, LeftInv
  <1>4. CASE ClearAccess
    <2>1. /\ access' = None /\ lpc' = "refresh" /\ qpc' = qpc
          /\ raced' = (\E q \in Requests : UnderWay(q))
      BY <1>4 DEF ClearAccess, reqs
    <2> QED
      BY <2>1 DEF LeftInv, UnderWay
  <1>5. CASE ClearRefresh
    <2>1. /\ access' = access /\ refresh' = None /\ lpc = "refresh" /\ lpc' = "done" /\ qpc' = qpc
          /\ raced' = (raced \/ \E q \in Requests : UnderWay(q))
      BY <1>5 DEF ClearRefresh, reqs
    <2> QED
      BY <1>0, <2>1 DEF LeftInv, UnderWay
  <1>6. CASE \/ \E t \in Pairs : ExpireAccess(t) \/ ExpireRefresh(t)
             \/ Deactivate \/ UNCHANGED sessionVars
    <2>1. UNCHANGED <<access, refresh, qpc, lpc, raced>>
      BY <1>6 DEF ExpireAccess, ExpireRefresh, Deactivate, sessionVars, tokensStored, reqs, logout,
                  sessionHistory
    <2> QED
      BY <1>0, <2>1 DEF LeftInv, UnderWay
  <1> QED
    BY <1>1, <1>2, <1>3, <1>4, <1>5, <1>6 DEF SessionNext

\* What the properties follow from is invariant.
LEMMA ClientAlways == SessionSpec => []ClientInv
  <1>1. ClientInv /\ [SessionNext]_sessionVars => ClientInv'
    <2>1. ClientInv /\ [SessionNext]_sessionVars => SessionTypeOK'
      BY NextSessionTypes DEF ClientInv
    <2> QED
      BY <2>1, NextPairs, NextLone, NextLeft DEF ClientInv
  <1> QED
    BY <1>1, InitClient, PTL DEF SessionSpec

\* The state of the client stays what its types say: the bound of the server on failing
\* logins ends the refreshes that refuse each other, whatever the numbers.
THEOREM ClientTypes == SessionSpec => []SessionTypeOK
  <1>1. ClientInv => SessionTypeOK
    BY DEF ClientInv
  <1> QED
    BY <1>1, ClientAlways, PTL

\* However many requests refresh at once, none stores a token that another has spent.
THEOREM StoredTokens == SessionSpec => []StoredTokenWorks
  <1>1. ClientInv => StoredTokenWorks
    BY DEF ClientInv
  <1> QED
    BY <1>1, ClientAlways, PTL

\* A client that makes one request at a time is not logged out by its own refreshes: what
\* ends its session is a lost answer, an error of a request onError sent, or the server.
THEOREM LoneSessions == SessionSpec => []LoneRequestsKeepSession
  <1>1. ClientInv => LoneRequestsKeepSession
    <2> SUFFICES ASSUME ClientInv, lostAnswers = 0, lpc = "idle", ~overlapped, ~spoiled
                 PROVE  /\ access # None /\ refresh # None
                        /\ \A q \in Requests : Len(stack[q]) <= 1
      BY DEF LoneRequestsKeepSession
    <2>1. \A q \in Requests : stack[q] = <<App>> \/ stack[q] = <<>>
      BY DEF ClientInv, LoneInv, Alone
    <2>2. Len(<<App>>) = 1 /\ Len(<<>>) = 0
      OBVIOUS
    <2>3. ASSUME NEW q \in Requests
          PROVE  Len(stack[q]) <= 1
      <3>1. CASE stack[q] = <<App>>
        BY <3>1, <2>2
      <3>2. CASE stack[q] = <<>>
        BY <3>2, <2>2
      <3> QED
        BY <2>1, <3>1, <3>2
    <2> QED
      BY <2>3 DEF ClientInv, LoneInv
  <1> QED
    BY <1>1, ClientAlways, PTL

\* A logout that met no refresh leaves no token on the device, then or later.
THEOREM LogoutKept == SessionSpec => []LogoutSticks
  <1>1. ClientInv => LogoutSticks
    BY DEF ClientInv, LeftInv, LogoutSticks
  <1> QED
    BY <1>1, ClientAlways, PTL

==============================================================================
