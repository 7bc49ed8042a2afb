------------------------------ MODULE ClientSearch -----------------------------
(***************************************************************************)
(* SearchNotifier of the client: what is typed, the searches under way and *)
(* the results shown.  A search is not cancelled, and answers come in any  *)
(* order.  Results are abstracted to the number of the search they answer. *)
(***************************************************************************)
EXTENDS Integers

CONSTANTS
  Typed,          \* what a user may type, besides nothing
  MaxSearches     \* bound

ASSUME SearchesAssumption == MaxSearches \in Nat

VARIABLES
  query, isLoading, error, results,  \* SearchState; its mode only names the route
  asked,                             \* of each search: "none", "sent", "answered", "failed"
  latest,                            \* the searches so far
  crossed, outrun                    \* history: two searches were under way at once; one
                                     \* ended after a later one had begun

notifierVars == <<query, isLoading, error, results, asked, latest, crossed, outrun>>

Nothing == ""
Searches == 1 .. MaxSearches

NotifierInit ==
  /\ query = Nothing /\ isLoading = FALSE /\ error = FALSE /\ results = 0
  /\ asked = [n \in Searches |-> "none"] /\ latest = 0
  /\ crossed = FALSE /\ outrun = FALSE

\* copyWith keeps what it is not given, except the error.
SetQuery(q) ==
  /\ query' = q /\ error' = FALSE
  /\ UNCHANGED <<isLoading, results, asked, latest, crossed, outrun>>

\* The user searches for nothing: an empty list, and the searches go on.
ClearResults ==
  /\ latest < MaxSearches /\ latest' = latest + 1
  /\ query = Nothing
  /\ results' = latest' /\ error' = FALSE
  /\ asked' = [asked EXCEPT ![latest'] = "answered"]
  /\ UNCHANGED <<query, isLoading, crossed, outrun>>

Searching == \E n \in Searches : asked[n] = "sent"

BeginSearch ==
  /\ latest < MaxSearches /\ latest' = latest + 1
  /\ query # Nothing
  /\ isLoading' = TRUE /\ error' = FALSE
  /\ asked' = [asked EXCEPT ![latest'] = "sent"]
  /\ crossed' = (crossed \/ Searching)
  /\ UNCHANGED <<query, results, outrun>>

Ends(n, how) ==
  /\ asked[n] = "sent" /\ asked' = [asked EXCEPT ![n] = how]
  /\ outrun' = (outrun \/ n < latest)

ShowResults(n) ==
  /\ Ends(n, "answered")
  /\ isLoading' = FALSE /\ error' = FALSE /\ results' = n
  /\ UNCHANGED <<query, latest, crossed>>

\* Mutant: the catch block leaves the spinner on.
ShowErrorOnly(n) ==
  /\ Ends(n, "failed")
  /\ error' = TRUE
  /\ UNCHANGED <<query, isLoading, results, latest, crossed>>

\* The results of before stay below the error.
ShowError(n) ==
  /\ Ends(n, "failed")
  /\ isLoading' = FALSE /\ error' = TRUE
  /\ UNCHANGED <<query, results, latest, crossed>>

NotifierNext ==
  \/ \E q \in Typed \cup {Nothing} : SetQuery(q)
  \/ ClearResults \/ BeginSearch
  \/ \E n \in Searches : ShowResults(n) \/ ShowError(n)

NotifierSpec == NotifierInit /\ [][NotifierNext]_notifierVars

----------------------------------------------------------------------------
(* Properties *)

\* The spinner turns only while a search is under way, and all the while unless two
\* were at once; when none is, the results are those of the last search, unless that one
\* failed or an earlier one answered after it had begun: nothing tells the two apart
\* (search_provider.dart:58, 67).
ResultsOfTheLastSearch ==
  /\ isLoading => Searching
  /\ Searching => isLoading \/ crossed
  /\ ~Searching /\ ~outrun /\ latest > 0 => results = latest \/ asked[latest] = "failed"

==============================================================================
