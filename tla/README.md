# AI Knowledge Graph for Organizations: TLA+ verification

TLA+ modules of the server and of the client's session and search, TLC models of
them, and TLAPS proofs of what the runs check of safety. The code is the reference:
every definition in `PROJECT.json` `map` names the lines it stands for, and a
property quotes the lines where it would break.

    tlc -workers 2 -config MCChat.cfg MCChat      # model-check one component
    tlapm DocumentPipelineProofs.tla              # check the proofs of a module

## 1. The system

A NestJS server (`backend/`) with a Flutter client (`frontend/`). The server is
one Node process: a handler runs alone up to its next `await`, and any other
handler may run before it resumes. There is no worker process and no queue
(`QueueModule` and `MinioStorageService` exist and nothing calls them), so
"background" work is a promise nobody awaits. Paths below are relative to
`backend/src` unless they begin with `frontend` or name a specification of `docs/`.

| Component | State | Operations | Talks to |
|---|---|---|---|
| Documents (`modules/documents`, `modules/upload`) | `Document`, `Chunk` rows | create, upload, process, delete | search service, Neo4j, event bus |
| Search (`modules/search`) | Qdrant points, OpenSearch entries | index, purge, hybrid search, suggestions | Qdrant, OpenSearch, PostgreSQL, Neo4j |
| Refresh script (`infrastructure/vectors/refresh-vector.ts`) | none | re-embed all chunk rows | PostgreSQL, Qdrant |
| Sessions (`modules/auth/auth.service.ts`) | `RefreshToken` rows | login, register, refresh, logout | PostgreSQL, secrets |
| Secrets (`infrastructure/security/secrets.service.ts`) | `AppSecret` rows, the environment | rotate, accepted and signing secrets | PostgreSQL |
| SSO (`modules/auth/keycloak.service.ts`) | cached signing keys | ssoLogin, provisioning | Keycloak, PostgreSQL |
| Invitations (`modules/invitations`) | `Invitation`, `User` rows | create, revoke, resend, accept | mail, notifications |
| Mail (`infrastructure/mail`) | `OutboundEmail` rows | send with retries | SMTP |
| Notifications (`modules/notifications`) | rows, cached unread count | create, read, mark, delete | cache, event bus |
| Events (`infrastructure/events`) | none | emit, two handlers | notifications, audit log |
| Connectors (`modules/connectors`) | `Connector`, `ConnectorRun`, documents | create, update, sync, delete, test | adapters, encryption |
| Adapters (`infrastructure/connectors/adapters`) | an access token (Microsoft, Dropbox) | syncAll, testConnection | 14 services over HTTP |
| Encryption (`infrastructure/security/encryption.service.ts`) | the list of keys | encrypt, decrypt, encrypt anew | environment |
| Chat (`modules/chat`) | `Conversation`, `Message` rows, connected sockets | question (REST, socket), delete, handshake | Qdrant, Neo4j, OpenSearch, model |
| Users, policies, gaps, meetings | one table each | create, update, delete, detect, summarise | PostgreSQL, Neo4j, model |
| Expertise, recommendations, admin, graph | cached summaries | reads | PostgreSQL, Neo4j, Qdrant |
| Client session (`frontend/lib/core/api`) | two stored tokens | request, refresh on 401, logout | server |
| Client notifiers (`frontend/lib/features`) | results, spinner, messages | search, chat, CRUD | server |

What makes them correct, and what makes that hard:

* **Documents.** A row, chunk rows, points, entries and a graph node must tell one
  story, and no transaction spans them. Two runs of `processDocument` for one
  document are not excluded; a run may outlive the delete of its document; the
  indexes' failures are swallowed; the upload endpoint's run is lost with the
  process. The refresh script is one more writer of the points.
* **Search.** Three sources with fallbacks, scores that do not compare, a page cut
  out of what they found, and stores that lag behind each other.
* **Sessions.** A refresh token is for one use, a session must not end unasked, and
  a logout or a deactivation must mean something, although lookup, revocation and
  insertion are three awaits.
* **Secrets and keys.** Tokens signed before a rotation must stay valid until they
  expire; a withdrawn signing key must stop being accepted; what an old encryption
  key closed must stay readable while instances start with the new keys one by one.
* **Invitations and accounts.** One account per address, outcomes that stay, no
  organization without its user: `findFirst` and then `create` or `update` by id,
  with one transaction in all of it, and addresses that some calls put in lower
  case and others do not.
* **Notifications.** A cached count beside the rows, with writers that know of the
  cache and one that does not.
* **Connectors.** Runs that end, count what they left and do not claim what they
  did not do; two runs of one connector are not excluded. An adapter pages through a
  service that changes meanwhile and must lose nothing but what its limit says.
* **Chat.** Two transports into one conversation, a deletion beside them, and a
  set of sockets that a handshake with two awaits maintains.
* **Administration.** A role, a policy, a gap or a summary is read, and written by
  id afterwards, whatever has become of the row.
* **Client.** Concurrent requests refresh with one stored token, through the very
  interceptor that refreshes; searches overtake each other.

The hazards, each with its line and the properties that watch it, are in
`PROJECT.json` `hazards`.

## 2. Modules

An action is the answer to one awaited call with the code up to the next
`await`; its guard is the program counter of that call plus the conditions in the
code, and a call that can be rejected has a disjunct (or an action) for that. The
bound `MaxFaults` counts rejections and restarts; `Crash` loses the calls in
flight and keeps the stores. Variables under the heading *history* are read by
no guard; the properties use them to name the race that explains a state.

| Module | Code | State | Actions |
|---|---|---|---|
| `DocumentPipeline` | `documents.service.ts`, `upload.controller.ts`, `search.service.ts:286-389` | `row`, `chunk`, `point`, `entry`, `node`, `entity`; `pc`, `len` per run; `dpc`, `found` per delete | `Insert`/`FinishCreate` (create, upload), `RequestProcess`, `Mark` ... `Finish`/`Fail`/`Throw` (processDocument), `SoftDelete` ... `DropEntries` (delete) |
| `DocumentLifecycle` | what `GET /documents` promises | `shown` | `Appear`, `Begin`, `Settle`, `Hide` |
| `KnowledgeReads` | the PostgreSQL reads of search, suggestions and chat | none of its own | operators over `DocumentPipeline` |
| `Chunking` | `chunkDocument` of documents and connectors | `lines`, `current`, `chunks` | `TakeLine` and the last chunk: one iteration of the loop a step |
| `SearchRequests` | `search.controller.ts`, `hybridSearch` and its sources | `shelf` per document, `args`, `hits`, `shown`, `total` | `Search`, `KeywordSearch` and its fallback, `SemanticSearch`, `GraphSearch`, `Answer` |
| `VectorRefresh` | `refresh-vector.ts`, `qdrant.service.ts` | `chunkRows`, `trash`, `vector`, `collection`, the script's `fetched`, `unwritten` | the script's read and batches, indexing and purging by the server, loss of the volume |
| `AuthSessions` | `auth.service.ts:26-45, 109-188`, `users.service.ts:153` | `token`, `expired`, `active` | `Login`, `Compare`, `Refresh`, `FindUser`, `Revoke`, `Create`, `Sign`, `Logout`, `SetActive`, `Expire` |
| `JwtSecrets` | `secrets.service.ts` | `rows`, `env`, `signed` | `ReadNewest`/`CreateRow` (rotate), `Restart`, `Sign`, `Expire`, `Deactivate` |
| `SigningKeys` | `keycloak.service.ts` (verification, JWKS) | `jwksKeys`, `jwksExpiry`, fetches under way; what Keycloak publishes | verify with the cache, fetch, answer, time-out |
| `Invitations` | `invitations.service.ts`, `auth.service.ts:74-107`, `keycloak.service.ts:73-110, 223-272` | `status`, `link`, `account` per spelling, `subject`, `newOrgs` | create, revoke, resend, accept, register, SSO lookup, linking and provisioning, one to four steps each |
| `Credentials` | `encryption.service.ts`, create, update and reads of `connectors.service.ts` | `deployed`, `keys` per instance, `row`, `screen` | save, read, rotate, drop a key, start an instance, encrypt anew |
| `OutboundMail` | `email.service.ts:80-130` | `attempt`, `copies`, `recorded` | an attempt and its outcomes, the backoff, the row |
| `Notifications` | `notifications.service.ts`, `notification.handler.ts`, `cache.service.ts` | `stored`, `unread`, `cache` | the operations of the service, and `Publish`/`Deliver`/`Stop` of the handler |
| `ConnectorSync` | `connectors.service.ts:85-176, 248-338` | `status`, `synced`, `document`, `chunked`, `lastSync` | `Request`, `CreateRun`, `Fetch`, `PersistDocument`, `PersistChunks`, `Complete`, `Stamp`, `Fail`, `Delete` |
| `ConnectorAdapters` | the files of `connectors/adapters` | `got`, `rest`, `listed`, the answer, the token: fetched, or `own` (Dropbox, from the configuration) | one action per adapter and request: first page, next page, entry; token requests; a request that arrives with an expired token; the service's changes and the clock |
| `Chat` | `chat.service.ts`, `chat.gateway.ts` | `talk`, `said`, `up`, `clients` | question, delete and handshake, await by await |
| `Members` | `users.service.ts:153` behind the roles guard | `admin`, `active` | `RequestUpdate`, `FindTarget`, `WriteMember` |
| `Policies` | `policies.service.ts`, `gaps.service.ts` | `version`, `content`, `enforced`, `gone`; `gap` | find and write or delete a policy; detect, upsert by upsert; find and resolve a gap |
| `Meetings` | `meetings.service.ts:112-227` | `summary`, `trashed` | ask, summarise, write; delete |
| `ClientSession` | `api_client.dart`, `auth_service.dart`, with `auth.service.ts:109-137` | stored tokens, server tokens with `lapsed` and `isActive`, a stack per request | `Send`, `ReadRefresh`, `Post`, `RotatePair`, `StoreAccess`, `StoreRefresh`, `Retry` and what either may `Fail` with, `Wipe`, logout; `ExpireAccess`, `ExpireRefresh`, `Deactivate` |
| `ClientSearch` | `search_provider.dart` | `results`, `isLoading`, searches under way | search, answer, failure, clear |

Composition. `KnowledgeReads` extends `DocumentPipeline`, which instantiates
`DocumentLifecycle` with `shown <- Shown`. `Invitations` holds the three services
that make accounts, `Notifications` the service and the event handler, `Policies`
the rows that the detection of gaps reads while they are edited, `Credentials`
the encryption and the connector rows, `VectorRefresh` the script and the server,
`ClientSession` the client and the server's rotation, seen as two steps.
`ConnectorSync.Fetch` takes any subset of the items with any split into documents
and failures, which is wider than what `ConnectorAdapters` answers.

Abstractions that matter:

* A content is the number of chunks it makes and the run that read it; a chunk row,
  a point or an entry holds the run that wrote it. Extraction never rejects (it
  falls back to other text) and chunking makes one chunk at least, which
  `ChunksHoldTheText` checks of the loop itself.
* A store answers after it has applied a call, or rejects it without an effect;
  the exceptions are explicit (the bulk call of OpenSearch takes a part of its
  items, an SMTP server takes a mail and fails to say so).
* `createMany` and `$transaction` are atomic, unique keys and foreign keys reject,
  as `schema.prisma` declares them.
* Qdrant is taken to accept the ids `<document>_chunk_<n>` the code gives it. A
  server that takes only UUIDs and integers is the rejected branch of `IndexPoints`,
  every time: then there are no points at all, and no property needs them.
* In `SearchRequests` and `VectorRefresh` a document has one chunk, and scores and
  nearness are any; `DocumentPipeline` has the chunks.
* In `Chunking` a character is the number of its line or a blank.
* In `ClientSession` a user who is deactivated stays so, and refresh tokens expire in the
  order they were made.
* The cipher is ideal: a text opens with the key that closed it and no other.
* In `Invitations` an address has two spellings, `typed` (with capitals) and
  `lower`; a call of `Typed` comes with the first.
* The remote service of an adapter fills every page but the last; a cursor goes on
  with what it began with, an offset counts in what there is now.
* `Policies` starts with the policies that exist, `Members` with the members,
  `Meetings` with one meeting: creating them is one insert.

## 3. Runs

| Run | Bounds | Distinct states | What it shows |
|---|---|---|---|
| `documents` | 1 document, 2 runs, 1 delete, 1 fault, 2 chunks, a page of 1 | 658 000 | chunk rows are one run's; index entries are backed; INDEXED is complete when runs do not overlap; what a purge leaves; the refinement; PROCESSING ends |
| `knowledge_reads` | 1 document, 1 run, 1 delete | violation | the chat's fallback and the suggestions read chunks of deleted documents |
| `search_arguments` | 1 organization, 1 word, 1 document | violation | the controller swaps organization and query |
| `vector_refresh` | 1 document, the code's sizes | violation | what the script writes is found by no search |
| `auth` | 1 user, 4 calls, 1 fault, 1 switch or expiry | 877 000 | rotation, forks, logout, deactivation |
| `jwt_secrets` | 1 rotation, 1 restart | violation | the booted secret is lost in the rotation procedure |
| `invitations` | 2 organizations, 4 calls of which 1 with capitals, 1 fault, 1 resend or expiry | 1 422 000 | outcomes, duplicates, accounts, orphans |
| `connectors` | 2 runs, 2 items, 2 faults | 84 000 | what runs leave and claim; RUNNING ends |
| `connector_adapters` | each adapter, 3 entries and a new one, pages of 1, 2, 4, limits 1 to 3, 1 fault, 1 change, 4 ticks | 1 549 000 | what a listing may miss, what an answer accounts for, tokens, termination |
| `chat` | 2 questions, 2 deletes, 1 socket, 1 fault | 420 000 | answers, lost questions, failed deletes, leaked sockets |
| `services` | one scene per service, below | 1 484 000 | the services that share no state |
| `client_refusal` | 2 requests, depth 3, 1 lost answer | violation | a refused refresh refreshes again |

`services` (`MCServices`) puts the services that share no state side by side: the
variable `scene` is chosen in the initial state, and from then on only that service
moves. Their states add up and do not multiply, and each is explored as if it were
alone; nothing is lost, since no variable of one is read by another. The scenes:

| Scene | Bounds | Properties |
|---|---|---|
| notifications | 2 users, 3 calls, 1 event, 1 fault | `WrongCountExplained`, `EveryoneHears` |
| members | 3 members of whom 2 admins, 2 updates | `AdminRemains` |
| policies | 2 policies, 2 edits | `VersionNamesContent` |
| gaps | 2 policies, 1 edit, 2 detections, 1 resolution, 2 other findings | `GapsMatchFindings` |
| meetings | 2 summaries, 1 delete | `SummariesExplained` |
| credentials | 2 instances, 3 keys, 2 layers | `CredentialsReadable` |
| keys | 2 key ids, 2 logins, a cache of 2 ticks, a time-out of 1, 3 ticks | `KeysAreFresh` |
| mail | 0 to 3 retries, with a transport or without | `MailCopies` |
| vectors | 2 documents, a read of 2 rows in batches of 1 | `RefreshRevivesNothing` |
| chunks | every text of at most 3 lines of 1 to 4 characters with white space anywhere, chunks of 3 with an overlap of 2 | `ChunksHoldTheText` |
| session | 2 requests, depth 2, 1 lost answer, any number of other errors, tokens that expire, 1 deactivation | `StoredTokenWorks`, `LoneRequestsKeepSession`, `LogoutSticks` |
| searches | 2 words, 4 searches | `ResultsOfTheLastSearch` |

Why these are enough to be of interest. Every race of the code is between two
actors at one row, so two runs of a document, two refreshes of a token, two
creates of an invitation, two admins, two edits or two fetches of the keys meet
every interleaving of the pair; the third and fourth calls are there to arrive after
the race (a delete, a logout, a second organization). One fault puts a rejection or
a restart at every step; two in `ConnectorSync`, because a run that stays RUNNING
needs a failure and a failure of its catch block. Two chunks and a page of one are
the smallest content that outgrows the page of 100. Pages of 1, 2 and 4 entries
against limits of 1 to 3 put the limit inside a page, at its end and past it, and a
page past the whole service. Three keys let one be dropped while another is
new. Chunks of 3 characters with an overlap of 2 meet lines shorter than the
overlap, as long as a chunk, and longer, with white space at either edge of a chunk
for `trim` to cut. In the session scene the second request of a stack is answered
429 when it is refused; `client_refusal` goes one deeper (`Throttle = 3`), where a
nested refresh is itself refused before the throttle ends it. Every property holds for a
reason in the code: `PROJECT.json` `mutants` pairs each with a change of a mapped
definition, made the way such code is got wrong, that breaks it under the same
bounds. `CHECK_DEADLOCK FALSE` stands in every configuration because requests are
finite and a system that has answered them rests.

The properties are of three kinds. Some say what holds whatever happens
(`WholeChunkSets`, `RevocationsMatch`, `SyncRowsAgree`, `GapsMatchFindings`,
`Accounted`, `MailCopies`, `ChunksHoldTheText`). Some name the only race or fault
that can explain an undesirable state (`ForksAreRaces`, `OnePendingUnlessTwins`,
`AccountsAgree`, `WrongCountExplained`, `AdminRemains`, `VersionNamesContent`,
`DeleteFailsInRaces`, `ClientsExplained`, `CredentialsReadable`, `ListsAPrefix`,
`ResultsOfTheLastSearch`): the state is reachable, and the property says that
nothing else leads to it. Some are about a history of states (`OutcomeFinal`,
`OutcomesStay`, `LifecycleHolds`, `ProcessingEnds`, `RunningEnds`, `SyncEnds`,
`EveryoneHears`). Where two or three such statements are about one pair of
stores they are conjuncts of one property (`RevocationsMatch`, `AccountsAgree`,
`SyncRowsAgree`, `QuestionsPairUp`, `ClientsExplained`).

Only `DocumentPipeline` has its type invariant in a run; those of the other modules
are theorems, stated for every value of the constants.

**Fairness.** A promise the code awaits is settled in the end, by an answer or a
rejection, so a run of `processDocument`, a sync, an adapter's listing or a
handler's loop that has begun takes its next step unless the process dies: weak
fairness of `Run(j)`, `Sync(r)`, the adapters' `Sync` and `Deliver(e) \/ Stop(e)`.
In `ConnectorAdapters` it is of the steps that answer (`UNCHANGED faults`), so that
`SyncEnds` cannot lean on a failure to end a listing; elsewhere an answer and a
rejection both count as the next step.
Requests, restarts, deletions, the changes of a remote service and the clock have
none. The liveness properties say where this is not enough: a document stays
PROCESSING if its run was cut off (`CutOff`: a restart, or a rejection outside the
`try` block), a sync stays RUNNING if the process died in it or its catch block was
rejected. `SyncEnds` has no such exception: neither what a service
does between two pages nor the offset it is asked for makes a listing endless.

**Findings** (`PROJECT.json` `findings`). Each violation run checks a sentence of
the repository against the model: soft-delete filtering (`DATABASE_SPEC.md:94`),
the grace window of a rotation (`secrets.service.ts:23`), the derivable vector index
(`adrs/0002-polyglot-persistence.md:12`), the order of the arguments of
`hybridSearch` (`search.service.spec.ts:85`), and the refresh that clears the storage
(`FRONTEND_SPEC.md:78`).

Seen while modelling, and not runs of their own:

* `email.service.ts:91` makes `SMTP_RETRIES` attempts, none for 0, where
  `BACKEND_SPEC.md:100` says one more.
* The count that the event handler leaves stale, against `BACKEND_SPEC.md:72`, is the
  exception `bypassed` of `WrongCountExplained`.
* A key dropped from `ENCRYPTION_KEYS` shifts the version of every later one
  (`encryption.service.ts:34, 80`): the exception `moved` of `CredentialsReadable`.
* `API_SPEC.md:41` links an SSO user "by `keycloakId` then email"; the query takes
  either, in no order. A claim with capitals does not find the user who has the
  address in lower case, and cannot make another: each such login may leave an
  organization (`OrphansAreLostRaces`).
* A chunk may be longer than 512 characters: by one line break, or by the overlap
  before a line that is too long itself.
* A `deleteAll` of the client follows not only a refresh that fails (`FRONTEND_SPEC.md:78`)
  but any error of the request that is sent again after a good one, a 404 or a time-out
  too: it is thrown inside the same `try` (`api_client.dart:121-127`). It is the exception
  `spoiled` of `LoneRequestsKeepSession`.
* A Dropbox connector with an access token and no refresh token holds it as if it never
  expired (`dropbox.adapter.ts:71`); once it has, every sync answers an error. It is the
  exception `own` of `TokensAreFresh`.
* White space around a line of text is lost where the line begins or ends a chunk
  (`documents.service.ts:394, 402`).
* `GET /search` takes `type` and ignores it. The client's chat service calls
  `POST /chat/conversations`, `GET /chat/conversations/:id/messages` and
  `POST /chat/send` (`frontend/lib/core/api/chat_service.dart:10, 24, 31`), its search
  service `/search/documents`, `/search/people` and `/search/hybrid`
  (`search_service.dart:17, 24, 31`); the server has none of these.

## 4. Proofs

Every invariant and action property that a passing run checks is also a theorem, for
any number of documents, calls, users, items, messages, faults and so on; the runs show
that the states the properties speak of are reached. `tlapm` proves all obligations
with Z3, Zenon and LS4.

| Module | Theorems |
|---|---|
| `DocumentPipelineProofs` | `TypeCorrect`, `ChunksAreOneRuns`, `EntriesAreBacked`, `OverlapLeavesChunks`, `IndexedIsComplete`, `PurgeBounded`, `ImplementsLifecycle` (the refinement) |
| `AuthProofs` | `SessionTypes`, `RevokedAndReplaced`, `OnlyRacesFork`, `LogoutIsFinal`, `DeactivationStops` |
| `InvitationProofs` | `InvitationTypes`, `OnePending`, `AccountsHold`, `OutcomesFinal` |
| `ConnectorProofs` | `RunTypes`, `RowsAgree`, `OutcomesHold` |
| `AdapterProofs` (`ConnectorAdapters`, `Chunking`) | `AdapterTypes`, `PrefixesListed`, `AllAccounted`, `EmptyExplained`, `TokensLast`; `TextIsChunked` |
| `ChatProofs` | `ChatTypes`, `PairsHold`, `DeletesExplained`, `SocketsExplained` |
| `OfficeProofs` (`Members`, `Meetings`, `OutboundMail`, `Policies`, `Notifications`) | `AdminStays`, `SummariesHold`, `CopiesExplained`, `VersionsHold`, `GapsHold`, `WrongCounts` |
| `EdgeProofs` (`SigningKeys`, `VectorRefresh`, `ClientSearch`, `Credentials`, `ClientSession`) | `VerdictsFresh`, `NothingRevived`, `LastSearchShown`, `NothingUnreadable`, `ClientTypes`, `StoredTokens`, `LoneSessions`, `LogoutKept` |

### Assumptions

They are the `ASSUME`s of the modules, and TLC evaluates each in a passing run. Most
say only that a request is about something that exists, that a bound is a natural
number, or that a name for "none" is no value (`RequestAssumption`, `OwnerAssumption`,
`WhoAssumption`, `OrgAssumption`, `ViaAssumption`, `NoJobAssumption`, `NoCallAssumption`,
`MissAssumption`, `NamesAssumption`, the `BoundAssumption`s). The others are facts of
the program or its surroundings:

* a connector's items and a service's entries are finitely many (`ItemsAssumption`,
  `ServiceAssumption`); a page has at least one entry, and an adapter's cap is positive;
* an access token that an adapter fetches lives longer than the skew its holder looks
  ahead (`TokenAssumption`: an hour and a minute); of a configured one nothing is assumed;
* an organization begins with an admin (`AdminsAssumption`: whoever registered it);
* the key cache lives for some time and Keycloak has a key (`TimeAssumption`,
  `KeyAssumption`);
* a chunk is longer than its overlap, which is not zero (`ChunkAssumption`: 512 and 64);
* the throttle lets one call in (`SessionAssumption`).

### Arguments

An invariant is seldom inductive alone. What each proof adds, and why:

* **Documents.** `ChunkInv` adds `EarlyUnstored` (a run before `createMany` has stored
  nothing): without it a run that stores might already own rows of another length. That
  what it stores meets no other rows is `StoreIntoEmpty`: ids start at 0 for every run,
  so a document with rows always collides. `Refill` (for `OverlapKeepsChunks`) remembers
  that a run which cleared the rows is at `createMany`, and stores or collides with rows
  another run put there. `SerialInv` says of a document never overlapped that its one run
  in flight owns what it stored, and that INDEXED is of a completed run while a new one
  has not marked. `RowInv` (for the refinement) relates DELETED to `deletedAt` and PENDING
  to runs that have not begun; `shown` is mapped to `Shown`, every step is one of
  `DocumentLifecycle` or none, and a run that settles a deleted document stutters because
  `deletedAt` is never cleared. `PurgeInv` counts: of the points written before a delete
  began, those left after its listing are those the page did not show.
* **Sessions.** `SessionInv`: which calls have a token and at which await (`StepsInv`), a
  successor's predecessor is revoked (`SuccessorRetires`), of two calls that will make or
  made a successor of one token, the token is in `raced` (`RaceInv`), and nothing comes of
  a token that was logged out unraced (`ClosedInv`). `raced` alone says nothing of the calls
  between `revoke` and `create`; these promise a successor without having one.
* **Invitations.** `JoinInv`: a decision about to be written still finds PENDING or races
  (`RaceInv`), of two creates about to insert one is a twin (`TwinInv`), a call about to
  make a user still finds no account, or has a rival (`RivalInv`), the maker of an account is
  past its transaction (`MakerInv`), and the links of an invitation are bounded by the
  resends left and under way (`LinksInv`), which the type of `link` needs.
* **Connectors.** `RunsInv` gives each step of a run its status, and has of the documents
  without chunk rows that there is one at most, of a run at `chunks` or one that ended there;
  the count of a COMPLETED run is the cardinality of what it left, by `FiniteSetTheorems`.
* **Adapters.** Every disjunct of `Next` is one of eight kinds of step (`StepKinds`), so
  that the invariant is proved for a kind and not for thirteen adapters. `ScopeInv` says
  where a listing stands between two requests: what it has and what the cursor has left are
  together what the service had; by offset it has a prefix of it, while nothing changed.
  That the loop's end then covers the reach is a lemma for each way of paging
  (`CursorLists`, `OffsetLists`, `OnceLists`), over `Without`, which is defined by rank so
  that it can be reasoned about without induction. `CountInv` accounts for the entries
  handled so far, `PhaseInv` ties failure and outcome to the step, and `TokenInv` says that
  a fetched token in hand has as much life left as it may still be on its way, and that a
  request which arrived with an expired one of the configuration has left an error.
* **Chunking.** The loop is a state machine, and so what it computes is an invariant:
  a line that was read is whole in a chunk or in `current`, in order; what `current`
  repeats of a line in the last chunk is no longer than the overlap; its length is bounded
  by the last line added (`CutInv`). `Trim` cuts nothing
  but white space (`TrimKeeps`), so a text that is whole in `current` is whole in the chunk.
* **Chat.** `TalkInv`: a question in flight has its row, unless its conversation was purged
  (`AskedInv`); what a delete finds after purging is of questions that had not ended
  (`DeleteInv`); a socket being let in is connected or was cut short (`SocketInv`).
* **Administration.** `MembersInv`: an update past its check is not one that
  `SelfProtected` refuses. `NamesInv`: while no update was blind, a policy's own content is
  named under the highest number. `GapsInv`: what a detection has left to write, it found,
  and the rest has its row. `CountsInv`: a count about to be cached is right unless
  overtaken. `MailInv`: copies are the confirmations lost, and one more once sent.
* **Keys and the client.** `FreshInv`: the cached keys were right at some time since the
  fetch that filled the cache began. `ReadableInv`: deployed keys are consecutive and, while
  no number has shifted, a row's version is its key's. `PointsInv` and `ShownInv` follow the
  script's batches and the order of searches. `ClientInv` is the largest: a pair being stored
  is newer than any posted or stored and is of no other request (`PairsInv`), the lone
  request posts the stored token (`LoneInv`, unless `spoiled`), no request under way has a
  token after a clean logout (`LeftInv`), and a stack of refreshes is no deeper than the
  throttle allows.

Model-checked only: the liveness properties (`ProcessingEnds`, `RunningEnds`, `SyncEnds`,
`EveryoneHears`), which rest on fairness and `ENABLED`, and the five violations, which are
counterexamples. `JwtSecrets`, `SearchRequests` and `KnowledgeReads` have violation runs
only, so nothing is proved of them.

## 5. Not modelled

* Text extraction, OCR, embeddings, the sanitiser of prompts, mail bodies: they
  turn data into data; what may fail in them is an outcome of the await that calls
  them.
* Object storage and the queue module: nothing calls them.
* Dashboard, expertise and recommendation reads, queries of the graph: they write
  nothing; the cached summaries expire and nothing invalidates them.
* `updateProfile` of a user, `create` of policies and meetings and `update` of a
  meeting: single statements nothing else depends on. The preferences of the client
  are local.
* The role mapping of SSO, and the strategy and guards of a request but for what
  they refuse, which is in the guards of the actions.
* The audit handler: one insert per event, its failure swallowed, its rows read by
  a list only. The handler of `connector.sync.completed`: nothing publishes it.
* The client's chat notifier, which calls routes the server does not have; screens,
  routing and themes. Metrics, logging, health, deployment.

## 6. Plan

Written, in this order: `DocumentPipeline` with `DocumentLifecycle`,
`KnowledgeReads` and the proofs; `AuthSessions`, `JwtSecrets`, `ClientSession`;
`Invitations`, `OutboundMail`; `Notifications`; `ConnectorSync`; `Chat`; then
`ConnectorAdapters`; `Members`, `Policies`, `Meetings`; `Credentials`,
`SigningKeys`; `SearchRequests`, `VectorRefresh`, `Chunking`; `ClientSearch`; then the
proofs of section 4.

To come: abstract specifications of the other components, each shown to be
implemented: a token of one use, up to `raced` (`AuthSessions`), and a job with one
outcome, up to the fault of `Stamp` (`ConnectorSync`).
