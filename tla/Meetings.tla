-------------------------------- MODULE Meetings -------------------------------
(***************************************************************************)
(* MeetingsService.generateSummary and delete of one meeting with a        *)
(* transcript.  A model is asked between the read and the write.           *)
(***************************************************************************)
EXTENDS FiniteSets

CONSTANTS Summaries, Deletes  \* requests to summarise, to delete

VARIABLES
  summary, trashed,  \* of the row: what summary it has, deletedAt
  sumPc, text,       \* of each request to summarise: its step, what the model gave
  delPc,             \* of each delete
  opened             \* history: requests that had found the meeting when it was deleted

meetingVars == <<summary, trashed, sumPc, text, delPc, opened>>

MeetingsInit ==
  /\ summary = "none" /\ trashed = FALSE
  /\ sumPc = [s \in Summaries |-> "idle"] /\ text = [s \in Summaries |-> "none"]
  /\ delPc = [d \in Deletes |-> "idle"] /\ opened = {}

\* Mutant: the meeting is found as delete finds it.
FindAny == "model"

\* findById asks for deletedAt.
FindMeeting == IF trashed THEN "denied" ELSE "model"

AskSummary(s) ==
  /\ sumPc[s] = "idle" /\ sumPc' = [sumPc EXCEPT ![s] = FindMeeting]
  /\ UNCHANGED <<summary, trashed, text, delPc, opened>>

\* An answer that is no JSON is a failure; one without a summary has its own words.
\* A failure is caught and has a text of its own.
Summarize(s) ==
  /\ sumPc[s] = "model" /\ sumPc' = [sumPc EXCEPT ![s] = "write"]
  /\ \E t \in {"summary", "nothing", "unavailable"} : text' = [text EXCEPT ![s] = t]
  /\ UNCHANGED <<summary, trashed, delPc, opened>>

\* By id, whatever the row has by now.
WriteSummary(s) ==
  /\ sumPc[s] = "write" /\ sumPc' = [sumPc EXCEPT ![s] = "done"] /\ summary' = text[s]
  /\ UNCHANGED <<trashed, text, delPc, opened>>

SummaryRejected(s) ==
  /\ sumPc[s] = "write" /\ sumPc' = [sumPc EXCEPT ![s] = "error"]
  /\ UNCHANGED <<summary, trashed, text, delPc, opened>>

\* delete does not ask for deletedAt.
FindToDelete(d) ==
  /\ delPc[d] = "idle" /\ delPc' = [delPc EXCEPT ![d] = "write"]
  /\ UNCHANGED <<summary, trashed, sumPc, text, opened>>

DeleteMeeting(d) ==
  /\ delPc[d] = "write" /\ delPc' = [delPc EXCEPT ![d] = "done"] /\ trashed' = TRUE
  /\ opened' = IF trashed THEN opened
               ELSE {s \in Summaries : sumPc[s] \notin {"idle", "denied"}}
  /\ UNCHANGED <<summary, sumPc, text>>

MeetingsNext ==
  \/ \E s \in Summaries : AskSummary(s) \/ Summarize(s) \/ WriteSummary(s) \/ SummaryRejected(s)
  \/ \E d \in Deletes : FindToDelete(d) \/ DeleteMeeting(d)

MeetingsSpec == MeetingsInit /\ [][MeetingsNext]_meetingVars

----------------------------------------------------------------------------
(* Properties *)

\* A deleted meeting is summarised only by requests that had found it before, and what
\* the row has in the end is what one of the answered requests was told, even where two
\* wrote over each other and one of them had no model (meetings.service.ts:134, 145, 199).
SummariesExplained ==
  LET told == {s \in Summaries : sumPc[s] = "done"} IN
  /\ trashed => {s \in Summaries : sumPc[s] \notin {"idle", "denied"}} \subseteq opened
  /\ told # {} => \E s \in told : text[s] = summary

==============================================================================
