--------------------------- MODULE ConnectorAdapters ---------------------------
(***************************************************************************)
(* One syncAll of one connector adapter: it lists what the remote service  *)
(* has, page by page, then makes a document of every entry it kept. The    *)
(* service may change meanwhile, any request may fail, and the Microsoft   *)
(* and Dropbox adapters ask for an access token before each request.       *)
(* The service is external: pages are full except the last, a cursor goes  *)
(* on with what it began with, an offset counts in what there is now.      *)
(***************************************************************************)
EXTENDS Integers, Sequences, FiniteSets, SequencesExt

CONSTANTS
  Entries, New,           \* what the service has at first; an entry it gets later
  Channels,               \* the Slack channels a connector may name
  ConfiguredLimits, Cap,  \* `limit` of a configuration, and the adapter's own maximum
  PageSizes,              \* how many entries the service gives at once
  Life, Skew,             \* of an access token; TOKEN_EXPIRY_SKEW_MS
  MaxClock, MaxFaults, MaxChanges  \* bounds

\* An access token lives longer than its holder looks ahead.
ASSUME TokenAssumption == Life \in Nat /\ Skew \in Nat /\ Skew < Life
\* A service has finitely many entries and gives one at a time at least.
ASSUME ServiceAssumption ==
  /\ IsFiniteSet(Entries) /\ PageSizes \subseteq Nat \ {0}
  /\ ConfiguredLimits \subseteq Int /\ Cap \in Nat \ {0}
\* No entry is taken for a channel, nor for the error of a listing.
ASSUME NamesAssumption == (Entries \cup {New}) \cap (Channels \cup {"listing"}) = {}
ASSUME BoundsAssumption == {MaxClock, MaxFaults, MaxChanges} \subseteq Nat

VARIABLES
  adapter, limit, page,   \* the adapter and its limit; the service's page
  folders,                \* entries that are no files
  own,                    \* Dropbox without a refresh token: when the given one expires, or 0
  chatter,                \* Slack: channels still to export
  remote,                 \* what the service has, in the order it lists
  pc, got, rest,          \* the listing: entries so far, what the cursor has left
  listed, at,             \* the entries kept, the next to handle
  docs, errs, skips,      \* the answer: documents, errors, entries counted as skipped
  outcome,                \* "documents", "bare" (none of them in the answer), "thrown"
  token, held, waited,    \* expiry of the cached token, of the one in hand, and since when
  now, faults, changes,
  snap, moved,            \* history: the service at the first request; it changed since
  failed, blanks, stale   \* history: listing failed; entries dropped; an expired token sent

source  == <<adapter, limit, page, folders, own>>
listing == <<got, rest, listed, snap>>
answer  == <<docs, errs, skips, outcome, blanks>>
tokens  == <<token, held, waited, stale>>
vars    == <<source, chatter, remote, pc, listing, at, answer, tokens, now, faults, changes,
             moved, failed>>

Expiring == {"DROPBOX", "ONEDRIVE", "OUTLOOK", "TEAMS"}  \* SharePoint is as OneDrive
Offset   == {"JIRA", "CONFLUENCE"}
OnePage  == {"GITLAB", "SLACK", "LINEAR", "GOOGLE_DRIVE"}
Types    == Expiring \cup Offset \cup OnePage \cup {"GITHUB", "NOTION", "GMAIL"}
WithFolders == {"GITHUB", "GITLAB", "DROPBOX", "ONEDRIVE", "GOOGLE_DRIVE"}

Least(a, b) == IF a < b THEN a ELSE b
Most(a, b)  == IF a > b THEN a ELSE b
Take(s, n)  == SubSeq(s, 1, Least(n, Len(s)))
Drop(s, n)  == SubSeq(s, n + 1, Len(s))
Listing     == {"first", "more"}

\* The n-th entry that stays is the one with n of them up to it.
Without(s, F) ==
  LET stay == {k \in DOMAIN s : s[k] \notin F}
  IN  [n \in 1 .. Cardinality(stay) |->
         s[CHOOSE k \in stay : Cardinality(stay \cap (1 .. k)) = n]]
Files(s) == Without(s, folders)

\* The limit of a configuration.
LimitOf(n) == Least(Most(n, 1), Cap)

Init ==
  /\ adapter \in Types
  /\ limit \in {LimitOf(n) : n \in ConfiguredLimits} /\ page \in PageSizes
  /\ folders \in IF adapter \in WithFolders THEN SUBSET Entries ELSE {{}}
  /\ own \in IF adapter = "DROPBOX" THEN 0 .. MaxClock ELSE {0}
  /\ chatter \in IF adapter = "SLACK" THEN SUBSET Channels ELSE {{}}
  /\ remote = SetToSeq(Entries)
  /\ pc = IF chatter # {} THEN "channels" ELSE "first"
  /\ got = <<>> /\ rest = <<>> /\ listed = <<>> /\ at = 1 /\ snap = <<>>
  /\ docs = <<>> /\ errs = <<>> /\ skips = 0 /\ outcome = "none" /\ blanks = 0
  /\ token = 0 /\ held = 0 /\ waited = 0 /\ stale = FALSE
  /\ now = 0 /\ faults = 0 /\ changes = 0 /\ moved = FALSE /\ failed = FALSE

----------------------------------------------------------------------------
(* requests and their tokens *)

Expired == adapter \in Expiring /\ now >= held

\* A request takes the token in hand with it.
Arrives ==
  /\ adapter \in Expiring => held # 0
  /\ stale' = (stale \/ Expired)
  /\ held' = 0 /\ waited' = 0
  /\ UNCHANGED <<token, faults>>

Asks == Arrives /\ ~Expired

\* It is answered 401; or it fails, or the one for its token does.
Rejected ==
  \/ Arrives /\ Expired
  \/ /\ faults < MaxFaults /\ faults' = faults + 1
     /\ held' = 0 /\ waited' = 0 /\ UNCHANGED <<token, stale>>

\* Teams makes its documents from what it listed.
NeedsToken == pc \in Listing \/ (pc = "items" /\ at <= Len(listed) /\ adapter # "TEAMS")

Holds(expiry) ==
  /\ token' = expiry /\ held' = expiry
  /\ UNCHANGED <<source, chatter, remote, pc, listing, at, answer, waited, stale, now, faults,
                 changes, moved, failed>>

\* Mutant: a token is good until the moment it expires.
MicrosoftTokenNoSkew ==
  /\ adapter \in Expiring \ {"DROPBOX"} /\ NeedsToken /\ held = 0
  /\ Holds(IF token # 0 /\ now < token THEN token ELSE now + Life)

MicrosoftToken ==
  /\ adapter \in Expiring \ {"DROPBOX"} /\ NeedsToken /\ held = 0
  /\ Holds(IF token # 0 /\ now < token - Skew THEN token ELSE now + Life)

\* Without a refresh token the given one is held for ever: tokenExpiresAt = Infinity.
DropboxToken ==
  /\ adapter = "DROPBOX" /\ NeedsToken /\ held = 0
  /\ Holds(IF own # 0 THEN own
           ELSE IF token # 0 /\ now < token - Skew THEN token ELSE now + Life)

----------------------------------------------------------------------------
(* what the adapters' loops have in common *)

Began == IF pc = "first" THEN snap' = remote ELSE UNCHANGED snap

ToItems(kept) == pc' = "items" /\ listed' = kept

\* The whole listing is one request.
ListOnce(kept) ==
  /\ pc = "first" /\ Asks /\ Began /\ ToItems(kept)
  /\ UNCHANGED <<source, chatter, remote, got, rest, at, answer, now, changes, moved, failed>>

\* One request of a loop: Kept(got') is the listing once it ends.
ListPage(served, left, Ends(_), Kept(_)) ==
  /\ pc \in Listing /\ Asks /\ Began
  /\ got' = got \o served /\ rest' = left
  /\ IF Ends(got') THEN ToItems(Kept(got')) ELSE pc' = "more" /\ UNCHANGED listed
  /\ UNCHANGED <<source, chatter, remote, at, answer, now, changes, moved, failed>>

Unserved == IF pc = "first" THEN remote ELSE rest
AtLimit(g) == Len(g) >= limit
Limited(g) == Take(g, limit)
LimitedFiles(g) == Take(Files(g), limit)

\* A loop over a cursor asks while there is more and the limit is not reached.
ListCursor(size, Kept(_)) ==
  ListPage(Take(Unserved, size), Drop(Unserved, size),
           LAMBDA g : AtLimit(g) \/ Len(Unserved) <= size, Kept)

Fails(to, out, e) ==
  /\ pc \in Listing /\ Rejected
  /\ pc' = to /\ outcome' = out /\ errs' = errs \o e /\ failed' = TRUE
  /\ snap' = IF pc = "first" THEN remote ELSE snap
  /\ UNCHANGED <<source, chatter, remote, got, rest, listed, at, docs, skips, blanks, now,
                 changes, moved>>

\* Caught around the listing: one error, and no `documents` in the answer.
FailsBare == Fails("end", "bare", <<"listing">>)
FailsThrown == Fails("end", "thrown", <<>>)

\* One entry: what becomes of it is `fate[c]` for the content c it has.
Becomes(what) ==
  /\ at' = at + 1
  /\ docs' = IF what = "document" THEN Append(docs, listed[at]) ELSE docs
  /\ errs' = IF what = "error" THEN Append(errs, listed[at]) ELSE errs
  /\ skips' = IF what = "skipped" THEN skips + 1 ELSE skips
  /\ blanks' = IF what = "dropped" THEN blanks + 1 ELSE blanks
  /\ UNCHANGED <<source, chatter, remote, pc, listing, outcome, now, changes, moved, failed>>

Handling == pc = "items" /\ at <= Len(listed)
Present  == listed[at] \in ToSet(remote)

EachListed(fate) ==
  /\ Handling /\ UNCHANGED <<tokens, faults>>
  /\ \E c \in DOMAIN fate : Becomes(fate[c])

\* The entry is fetched first: a request that fails is an error of the answer, and
\* so is an entry that is gone.
EachFetched(fate) ==
  /\ Handling
  /\ \/ Asks /\ \E c \in DOMAIN fate : Becomes(IF Present THEN fate[c] ELSE "error")
     \/ Rejected /\ Becomes("error")

Return ==
  /\ pc = "items" /\ at > Len(listed)
  /\ pc' = "end" /\ outcome' = "documents"
  /\ UNCHANGED <<source, chatter, remote, listing, at, docs, errs, skips, blanks, tokens, now,
                 faults, changes, moved, failed>>

----------------------------------------------------------------------------
(* the adapters *)

\* An empty file has no `content` in GitHub's answer.
GitHubContent == [text |-> "document", binary |-> "skipped", huge |-> "error", empty |-> "error"]
GitHubTree == LimitedFiles(remote)
GitHub ==
  /\ adapter = "GITHUB"
  /\ ListOnce(GitHubTree) \/ FailsBare \/ EachFetched(GitHubContent)

Bytes == [text |-> "document", binary |-> "skipped", huge |-> "error"]

\* Folders take places of the only page.
GitLabTree == LimitedFiles(Take(remote, Least(page, limit)))
GitLab ==
  /\ adapter = "GITLAB"
  /\ ListOnce(GitLabTree) \/ FailsThrown \/ EachFetched(Bytes)

\* A channel that cannot be exported is an error of the answer.
SlackChannel ==
  /\ pc = "channels" /\ chatter # {}
  /\ \E c \in chatter :
       /\ chatter' = chatter \ {c}
       /\ \/ Asks /\ docs' = Append(docs, c) /\ UNCHANGED errs
          \/ Rejected /\ errs' = Append(errs, c) /\ UNCHANGED docs
  /\ pc' = IF chatter' = {} THEN "first" ELSE "channels"
  /\ UNCHANGED <<source, remote, listing, at, skips, outcome, blanks, now, changes, moved, failed>>

SlackFiles == Limited(Take(remote, page))
SlackBytes == [text |-> "document", binary |-> "skipped", huge |-> "error", noUrl |-> "error"]
Slack ==
  /\ adapter = "SLACK"
  /\ \/ SlackChannel
     \/ ListOnce(SlackFiles) \/ Fails("items", "none", <<"listing">>) \/ EachFetched(SlackBytes)

DropboxEntries == ListCursor(Least(page, limit), LimitedFiles)
DropboxBytes == Bytes
Dropbox ==
  /\ adapter = "DROPBOX"
  /\ DropboxEntries \/ FailsBare \/ EachFetched(DropboxBytes)

NotionPages == ListCursor(Least(page, limit), Limited)
\* A page without text becomes a placeholder.
NotionBlocks == [text |-> "document", empty |-> "document"]
Notion ==
  /\ adapter = "NOTION"
  /\ NotionPages \/ FailsThrown \/ EachFetched(NotionBlocks)

\* Mutant: startAt grows by what was asked for, not by what was given.
JiraIssuesByLimit ==
  ListPage(Take(Drop(remote, IF got = <<>> THEN 0 ELSE limit), Least(page, limit)), <<>>,
           LAMBDA g : AtLimit(g) \/ Len(g) >= Len(remote) \/ g = got, Limited)

\* startAt is the number of issues so far.
JiraIssues ==
  ListPage(Take(Drop(remote, Len(got)), Least(page, limit)), <<>>,
           LAMBDA g : AtLimit(g) \/ Len(g) >= Len(remote) \/ g = got, Limited)
\* An issue without fields cannot be rendered.
JiraFields == [text |-> "document", odd |-> "error"]
Jira ==
  /\ adapter = "JIRA"
  /\ JiraIssues \/ FailsThrown \/ EachListed(JiraFields)

\* Mutant: a page shorter than the service's own limit is asked after.
ConfluenceContentOn ==
  ListPage(Take(Drop(remote, Len(got)), Least(page, limit)), <<>>, AtLimit, Limited)

ConfluenceContent ==
  ListPage(Take(Drop(remote, Len(got)), Least(page, limit)), <<>>,
           LAMBDA g : AtLimit(g) \/ Len(g) - Len(got) < Least(page, limit), Limited)
Confluence ==
  /\ adapter = "CONFLUENCE"
  /\ ConfluenceContent \/ FailsThrown \/ EachFetched(NotionBlocks)

GmailIds == ListCursor(Least(page, limit - Len(got)), Limited)
GmailMessage == [text |-> "document"]
Gmail ==
  /\ adapter = "GMAIL"
  /\ GmailIds \/ FailsBare \/ EachFetched(GmailMessage)

\* Mutant: a file past the download limit is passed over without an error.
GoogleBytesOn ==
  [text |-> "document", export |-> "document", form |-> "skipped", binary |-> "skipped",
   huge |-> "lost"]

\* Forms and drawings have no export.
GoogleBytes ==
  [text |-> "document", export |-> "document", form |-> "skipped", binary |-> "skipped",
   huge |-> "error"]
GoogleFiles == Files(Take(remote, page))
\* Mutant: the outer catch block only logs.
GoogleDriveLogs ==
  /\ adapter = "GOOGLE_DRIVE"
  /\ ListOnce(GoogleFiles) \/ Fails("end", "documents", <<>>) \/ EachFetched(GoogleBytes)

GoogleDrive ==
  /\ adapter = "GOOGLE_DRIVE"
  /\ ListOnce(GoogleFiles) \/ Fails("end", "documents", <<"listing">>) \/ EachFetched(GoogleBytes)

LinearIssues == Take(remote, Least(page, limit))
Linear ==
  /\ adapter = "LINEAR"
  /\ ListOnce(LinearIssues) \/ FailsThrown \/ EachListed(JiraFields)

\* The service's own page, which may be longer than the limit.
DriveItems == ListCursor(page, LimitedFiles)
DriveBytes == Bytes
GraphDrive ==
  /\ adapter = "ONEDRIVE"
  /\ DriveItems \/ FailsBare \/ EachFetched(DriveBytes)

OutlookMessages == ListCursor(Least(page, limit), Limited)
Outlook ==
  /\ adapter = "OUTLOOK"
  /\ OutlookMessages \/ FailsBare \/ EachFetched(GmailMessage)

TeamsMessages == ListCursor(Least(page, limit), Limited)
\* An empty or system message is passed over and not counted.
TeamsBody == [text |-> "document", empty |-> "dropped"]
Teams ==
  /\ adapter = "TEAMS"
  /\ TeamsMessages \/ FailsBare \/ EachListed(TeamsBody)

Sync ==
  \/ GitHub \/ GitLab \/ Slack \/ Dropbox \/ Notion \/ Jira \/ Confluence \/ Gmail
  \/ GoogleDrive \/ Linear \/ GraphDrive \/ Outlook \/ Teams
  \/ MicrosoftToken \/ DropboxToken \/ Return

----------------------------------------------------------------------------
(* the service, and time *)

\* An entry is edited and listed first now, is removed, or a new one comes first.
Change ==
  /\ changes < MaxChanges /\ changes' = changes + 1 /\ pc # "end"
  /\ \/ \E e \in ToSet(remote) :
          \E front \in {<<e>>, <<>>} : remote' = front \o Without(remote, {e})
     \/ New \notin ToSet(remote) /\ remote' = <<New>> \o remote
  /\ moved' = (moved \/ pc = "more")
  /\ UNCHANGED <<source, chatter, pc, listing, at, answer, tokens, now, faults, failed>>

\* A token in hand is on its way for no longer than Skew.
Tick ==
  /\ adapter \in Expiring /\ pc # "end" /\ now < MaxClock /\ now' = now + 1
  /\ IF held = 0 THEN UNCHANGED waited ELSE waited < Skew /\ waited' = waited + 1
  /\ UNCHANGED <<source, chatter, remote, pc, listing, at, answer, token, held, stale, faults,
                 changes, moved, failed>>

Next == Sync \/ Change \/ Tick

\* Every request is answered in the end; none has to fail.
Fairness == WF_vars(Sync /\ UNCHANGED faults)

Spec == Init /\ [][Next]_vars /\ Fairness
----------------------------------------------------------------------------
(* Properties *)

TypeOK ==
  /\ adapter \in Types /\ limit \in 1 .. Cap /\ page \in PageSizes
  /\ folders \subseteq Entries /\ own \in 0 .. MaxClock /\ chatter \subseteq Channels
  /\ {remote, got, rest, listed, snap} \subseteq Seq(Entries \cup {New})
  /\ pc \in Listing \cup {"channels", "items", "end"}
  /\ at \in 1 .. Len(listed) + 1
  /\ docs \in Seq(Entries \cup {New} \cup Channels)
  /\ errs \in Seq(Entries \cup {New} \cup Channels \cup {"listing"})
  /\ skips \in 0 .. Len(listed) /\ blanks \in 0 .. Len(listed)
  /\ outcome \in {"none", "documents", "bare", "thrown"}
  /\ held \in 0 .. MaxClock + Life /\ token \in 0 .. MaxClock + Life /\ waited \in 0 .. Skew
  /\ now \in 0 .. MaxClock /\ faults \in 0 .. MaxFaults /\ changes \in 0 .. MaxChanges
  /\ {stale, moved, failed} \subseteq BOOLEAN

\* Every entry a sync kept is a document, an error or one it counts as skipped, each
\* exactly once and each time it was listed; only Teams passes entries over uncounted,
\* and nothing else is in the answer but channels and the listing's own failure
\* (google-drive.adapter.ts:190, teams.adapter.ts:211).
Accounted ==
  outcome = "documents" =>
    LET Times(s, e) == Cardinality({k \in DOMAIN s : s[k] = e})
        told == {e \in ToSet(docs \o errs) : e \notin Channels \cup {"listing"}}
    IN  /\ \A e \in told : Times(docs, e) + Times(errs, e) <= Times(listed, e)
        /\ Cardinality({k \in DOMAIN (docs \o errs) : (docs \o errs)[k] \in told}) + skips + blanks
             = Len(listed)
        /\ blanks > 0 => adapter = "TEAMS"

\* What bounds a listing: how many entries of the service it may stop after.
Reach == IF adapter \in OnePage THEN Least(page, IF adapter = "GOOGLE_DRIVE" THEN page ELSE limit)
         ELSE limit

\* A listing that did not fail has the first files of what the service had at its
\* first request, none of them twice, and leaves a file out only past the limit
\* (folders counted) or past the one page of GitLab, Slack, Linear and Google Drive;
\* only the two adapters that page by offset lose this, and only when the service
\* changed between two pages (jira.adapter.ts:148, confluence.adapter.ts:133,
\* gitlab.adapter.ts:103, dropbox.adapter.ts:162).
ListsAPrefix ==
  pc \in {"items", "end"} /\ ~failed /\ ~(moved /\ adapter \in Offset) =>
    /\ IsPrefix(listed, Files(snap))
    /\ \A k \in DOMAIN snap : snap[k] \in folders \cup ToSet(listed) \/ k > Reach

\* An answer without documents and errors, which the connector's run records as a
\* success of nothing, is one of a service with no file within the adapter's reach,
\* or whose files were all skipped: never one of a listing that failed
\* (dropbox.adapter.ts:261, google-drive.adapter.ts:239, connectors.service.ts:135).
EmptyAnswerExplained ==
  outcome \in {"documents", "bare"} /\ docs = <<>> /\ errs = <<>> =>
    /\ ~failed /\ skips + blanks = Len(listed)
    /\ listed = <<>> => moved \/ \A k \in DOMAIN snap : snap[k] \in folders \/ k > Reach

\* However long a sync takes, an adapter that asks for its tokens itself sends none that
\* has expired: that is left to a Dropbox connector which was given an access token and
\* no refresh token, whose expiry it does not know; and such a sync answers an error
\* (microsoft-graph-auth.ts:53, dropbox.adapter.ts:57, 71, 262).
TokensAreFresh == stale => own # 0 /\ errs # <<>>

\* Every sync ends, whatever the service does between its pages
\* (confluence.adapter.ts:134, jira.adapter.ts:149).
SyncEnds == <>(pc = "end")

==============================================================================
