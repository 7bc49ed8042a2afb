--------------------------------- MODULE Chat ---------------------------------
(***************************************************************************)
(* ChatService and ChatGateway for one user: questions over REST and over  *)
(* sockets, the conversations they are kept in, and their deletion.        *)
(*                                                                         *)
(* A question goes from one await to the next.  A conversation bears the   *)
(* name of the question that opened it.                                    *)
(***************************************************************************)
EXTENDS Integers, Sequences

CONSTANTS
  Asks,       \* questions
  Via,        \* Via[a]: the socket question a comes over, or Rest
  Sockets, Rest,
  Deletes,    \* requests to delete a conversation
  MaxFaults   \* bound: failed calls and restarts, and switches of isActive

ASSUME ViaAssumption   == Rest \notin Sockets /\ Via \in [Asks -> Sockets \cup {Rest}]
ASSUME BoundAssumption == MaxFaults \in Nat

VARIABLES
  talk,       \* talk[k]: the state of conversation k
  said,       \* said[k]: its Message rows in the order of createdAt
  pc, conv,   \* of each question: its step, its conversation
  dpc, of,    \* of each delete: its step, its conversation
  active,     \* the user's isActive
  up,         \* sockets that are connected
  hand,       \* hand[s]: how far handleConnection got
  clients,    \* connectedClients
  faults,
  failed,     \* history: questions whose stream failed
  purged,     \* history: conversations whose messages were deleted
  bySent,     \* history: of each delete, the questions that had not ended when it purged
  cutShort,   \* history: sockets that closed while handleConnection awaited
  heldOver    \* history: sockets in connectedClients when the user was deactivated

rows    == <<talk, said, active>>
asks    == <<pc, conv>>
deletes == <<dpc, of>>
sockets == <<up, hand, clients>>
history == <<failed, purged, bySent, cutShort, heldOver>>
vars    == <<rows, asks, deletes, sockets, faults, history>>

Ended  == {"done", "denied", "error", "lost"}
AskPc  == {"idle", "open", "ask", "retrieve", "generate", "answer"} \cup Ended
DelPc  == {"idle", "messages", "row"} \cup Ended
InFlight(p) == p \notin Ended \cup {"idle"}
Texts  == {"USER", "ASSISTANT"} \X Asks
Says(k, t)  == \E p \in DOMAIN said[k] : said[k][p] = t

Init ==
  /\ talk = [k \in Asks |-> "none"] /\ said = [k \in Asks |-> <<>>] /\ active = TRUE
  /\ pc = [a \in Asks |-> "idle"] /\ conv = [a \in Asks |-> a]
  /\ dpc = [d \in Deletes |-> "idle"] /\ of \in [Deletes -> Asks]
  /\ up = {} /\ hand = [s \in Sockets |-> "new"] /\ clients = {} /\ faults = 0
  /\ failed = {} /\ purged = {} /\ bySent = [d \in Deletes |-> {}]
  /\ cutShort = {} /\ heldOver = {}

Goto(a, from, to)  == pc[a] = from /\ pc' = [pc EXCEPT ![a] = to]
GotoD(d, from, to) == dpc[d] = from /\ dpc' = [dpc EXCEPT ![d] = to]
Answered == UNCHANGED faults
Rejected == faults < MaxFaults /\ faults' = faults + 1
Add(k, t) == said' = [said EXCEPT ![k] = Append(@, t)]

----------------------------------------------------------------------------
(* sendMessage over REST, handleMessage over a socket *)

\* The guard of a REST call asks whether the user is active; a socket was asked
\* when it connected.
MayAsk(a) == IF Via[a] = Rest THEN active ELSE Via[a] \in up /\ hand[Via[a]] = "open"

\* getOrCreateConversation finds k, or not; a question may name none.
Begin(a, k) ==
  /\ MayAsk(a)
  /\ \/ talk[k] = "open" /\ Goto(a, "idle", "ask") /\ conv' = [conv EXCEPT ![a] = k]
     \/ (talk[k] # "open" \/ k = a) /\ Goto(a, "idle", "open") /\ UNCHANGED conv
  /\ Answered /\ UNCHANGED <<rows, deletes, sockets, history>>

Open(a) ==
  /\ Goto(a, "open", "ask") /\ Answered
  /\ talk' = [talk EXCEPT ![a] = "open"]
  /\ UNCHANGED <<said, active, conv, deletes, sockets, history>>

\* Mutant: the first question of a conversation is kept as its title only.
SaveFollowUp(a) ==
  /\ Goto(a, "ask", "retrieve") /\ Answered
  /\ IF conv[a] = a THEN UNCHANGED said ELSE Add(conv[a], <<"USER", a>>)
  /\ UNCHANGED <<talk, active, conv, deletes, sockets, history>>

\* The foreign key rejects a message of a conversation that is gone.
SaveQuestion(a) ==
  /\ Goto(a, "ask", IF talk[conv[a]] = "open" THEN "retrieve" ELSE "error") /\ Answered
  /\ IF talk[conv[a]] = "open" THEN Add(conv[a], <<"USER", a>>) ELSE UNCHANGED said
  /\ UNCHANGED <<talk, active, conv, deletes, sockets, history>>

\* retrieveContext makes do without Qdrant, Neo4j and OpenSearch.
Retrieve(a) ==
  /\ Goto(a, "retrieve", "generate") /\ Answered
  /\ UNCHANGED <<rows, conv, deletes, sockets, history>>

\* Over REST a failing model is answered for; over a socket the stream throws.
Generate(a) ==
  /\ \/ Goto(a, "generate", "answer") /\ UNCHANGED failed
     \/ Via[a] # Rest /\ Goto(a, "generate", "error") /\ failed' = failed \cup {a}
  /\ Answered /\ UNCHANGED <<rows, conv, deletes, sockets, purged, bySent, cutShort, heldOver>>

SaveAnswer(a) ==
  /\ Goto(a, "answer", IF talk[conv[a]] = "open" THEN "done" ELSE "error") /\ Answered
  /\ IF talk[conv[a]] = "open" THEN Add(conv[a], <<"ASSISTANT", a>>) ELSE UNCHANGED said
  /\ UNCHANGED <<talk, active, conv, deletes, sockets, history>>

Reject(a) ==
  /\ \E from \in {"idle", "open", "ask", "retrieve", "answer"} : Goto(a, from, "error")
  /\ Rejected /\ UNCHANGED <<rows, conv, deletes, sockets, history>>

----------------------------------------------------------------------------
(* deleteConversation *)

\* conversation:delete comes over a socket.
FindConversation(d) ==
  /\ \E s \in up : hand[s] = "open"
  /\ GotoD(d, "idle", IF talk[of[d]] = "open" THEN "messages" ELSE "done")
  /\ Answered /\ UNCHANGED <<rows, asks, of, sockets, history>>

\* Mutant: the messages are left to the conversation's own deletion.
LeaveMessages(d) ==
  /\ GotoD(d, "messages", "row") /\ Answered
  /\ bySent' = [bySent EXCEPT ![d] = {a \in Asks : pc[a] \notin Ended}]
  /\ UNCHANGED <<rows, asks, of, sockets, failed, purged, cutShort, heldOver>>

DeleteMessages(d) ==
  /\ GotoD(d, "messages", "row") /\ Answered
  /\ said' = [said EXCEPT ![of[d]] = <<>>]
  /\ purged' = purged \cup {of[d]}
  /\ bySent' = [bySent EXCEPT ![d] = {a \in Asks : pc[a] \notin Ended}]
  /\ UNCHANGED <<talk, active, asks, of, sockets, failed, cutShort, heldOver>>

\* A conversation that has messages again, or is gone, rejects the call.
DeleteRow(d) ==
  /\ IF talk[of[d]] = "open" /\ said[of[d]] = <<>>
       THEN GotoD(d, "row", "done") /\ talk' = [talk EXCEPT ![of[d]] = "deleted"]
       ELSE GotoD(d, "row", "error") /\ UNCHANGED talk
  /\ Answered /\ UNCHANGED <<said, active, asks, of, sockets, history>>

RejectDelete(d) ==
  /\ \E from \in {"idle", "messages", "row"} : GotoD(d, from, "error")
  /\ Rejected /\ UNCHANGED <<rows, asks, of, sockets, history>>

----------------------------------------------------------------------------
(* handleConnection, handleDisconnect *)

Hand(s, from, to) == hand[s] = from /\ hand' = [hand EXCEPT ![s] = to]

Connect(s) ==
  /\ Hand(s, "new", "verify") /\ up' = up \cup {s}
  /\ UNCHANGED <<rows, asks, deletes, clients, faults, history>>

\* client.disconnect() runs handleDisconnect.
Refuse(s) == up' = up \ {s} /\ clients' = clients \ {s}

Verify(s) ==
  /\ \/ Hand(s, "verify", "lookup") /\ UNCHANGED <<up, clients>>
     \/ Hand(s, "verify", "refused") /\ Refuse(s)
  /\ UNCHANGED <<rows, asks, deletes, faults, history>>

\* Whether the socket is still connected is not asked.
LookUp(s) ==
  /\ IF active THEN Hand(s, "lookup", "open") /\ clients' = clients \cup {s} /\ UNCHANGED up
               ELSE Hand(s, "lookup", "refused") /\ Refuse(s)
  /\ UNCHANGED <<rows, asks, deletes, faults, history>>

\* Mutant: the entry stays.
DisconnectKeeps(s) ==
  /\ s \in up /\ up' = up \ {s} /\ UNCHANGED clients
  /\ cutShort' = IF hand[s] \in {"verify", "lookup"} THEN cutShort \cup {s} ELSE cutShort
  /\ UNCHANGED <<rows, asks, deletes, hand, faults, failed, purged, bySent, heldOver>>

Disconnect(s) ==
  /\ s \in up /\ up' = up \ {s} /\ clients' = clients \ {s}
  /\ cutShort' = IF hand[s] \in {"verify", "lookup"} THEN cutShort \cup {s} ELSE cutShort
  /\ UNCHANGED <<rows, asks, deletes, hand, faults, failed, purged, bySent, heldOver>>

----------------------------------------------------------------------------

Deactivate ==
  /\ active /\ active' = FALSE
  /\ heldOver' = clients
  /\ UNCHANGED <<talk, said, asks, deletes, sockets, faults, failed, purged, bySent, cutShort>>

Crash ==
  /\ Rejected
  /\ pc' = [a \in Asks |-> IF InFlight(pc[a]) THEN "lost" ELSE pc[a]]
  /\ dpc' = [d \in Deletes |-> IF InFlight(dpc[d]) THEN "lost" ELSE dpc[d]]
  /\ up' = {} /\ clients' = {}
  /\ hand' = [s \in Sockets |-> IF hand[s] = "new" THEN "new" ELSE "refused"]
  /\ UNCHANGED <<rows, conv, of, history>>

Ask(a) == Open(a) \/ SaveQuestion(a) \/ Retrieve(a) \/ Generate(a) \/ SaveAnswer(a) \/ Reject(a)
Delete(d) == FindConversation(d) \/ DeleteMessages(d) \/ DeleteRow(d) \/ RejectDelete(d)

Next ==
  \/ \E a \in Asks : Ask(a) \/ \E k \in Asks : Begin(a, k)
  \/ \E d \in Deletes : Delete(d)
  \/ \E s \in Sockets : Connect(s) \/ Verify(s) \/ LookUp(s) \/ Disconnect(s)
  \/ Deactivate \/ Crash

Spec == Init /\ [][Next]_vars
----------------------------------------------------------------------------
(* Properties *)

TypeOK ==
  /\ talk \in [Asks -> {"none", "open", "deleted"}] /\ active \in BOOLEAN
  /\ said \in [Asks -> Seq(Texts)] /\ \A k \in Asks : said[k] # <<>> => talk[k] = "open"
  /\ pc \in [Asks -> AskPc] /\ conv \in [Asks -> Asks]
  /\ dpc \in [Deletes -> DelPc] /\ of \in [Deletes -> Asks]
  /\ up \subseteq Sockets /\ clients \subseteq Sockets
  /\ hand \in [Sockets -> {"new", "verify", "lookup", "open", "refused"}] /\ faults \in 0 .. MaxFaults
  /\ failed \subseteq Asks /\ purged \subseteq Asks /\ bySent \in [Deletes -> SUBSET Asks]
  /\ cutShort \subseteq Sockets /\ heldOver \subseteq Sockets

\* In a conversation nobody purged, an answer follows its own question, however
\* questions to one conversation overlap (chat.service.ts:44, 51).
AnswersFollowQuestions ==
  \A k \in Asks \ purged : \A p \in DOMAIN said[k] :
    said[k][p][1] = "ASSISTANT" =>
      \E q \in 1 .. p - 1 : said[k][q] = <<"USER", said[k][p][2]>>

\* While no other call is rejected, a question whose handling ended stays without
\* an answer only if its stream failed, over a socket, or the conversation was
\* being deleted (chat.service.ts:258, chat.gateway.ts:150).
UnansweredExplained ==
  faults = 0 => \A a \in Asks : LET k == conv[a] IN
    pc[a] \in Ended /\ Says(k, <<"USER", a>>) =>
      Says(k, <<"ASSISTANT", a>>) \/ a \in failed

\* The rows of a conversation pair up: an answer has its question, and a question its
\* answer or a reason to have none.
QuestionsPairUp == AnswersFollowQuestions /\ UnansweredExplained

\* A delete that fails, no call being rejected, met another delete or a question
\* that had not ended when the messages were deleted; what it leaves in the
\* conversation is of such questions alone (chat.service.ts:320, 321).
DeleteFailsInRaces ==
  faults = 0 => \A d \in Deletes : LET k == of[d] IN
    dpc[d] = "error" => /\ talk[k] = "deleted" \/ bySent[d] # {}
                        /\ \A p \in DOMAIN said[k] : said[k][p][2] \in bySent[d]

\* A closed socket stays in connectedClients only if it closed while
\* handleConnection awaited the token or the user (chat.gateway.ts:59, 73).
LeaksAreCutShort == clients \ up \subseteq cutShort

\* A deactivated user keeps the sockets that had connected before, and gets no
\* other (chat.gateway.ts:62).
InactiveHoldsOver == ~active => clients \subseteq heldOver

\* Whoever is in connectedClients without a right to it came in, or went, in one of
\* these two ways.
ClientsExplained == LeaksAreCutShort /\ InactiveHoldsOver

==============================================================================
