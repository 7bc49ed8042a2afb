-------------------------------- MODULE ChatProofs --------------------------------
(***************************************************************************)
(* Proofs about Chat, for any questions, sockets, deletes and bound.  They *)
(* rest on TalkInv: what a question has in its conversation by its step,   *)
(* whose rows a delete may meet, and which sockets are known.              *)
(***************************************************************************)
EXTENDS Chat, TLAPS

\* A question that waits for its answer is in its conversation, unless that was purged.
AskedInv ==
  \A a \in Asks : pc[a] \in {"retrieve", "generate", "answer"} /\ conv[a] \notin purged
    => Says(conv[a], <<"USER", a>>)

\* A question that has not opened its conversation has none.
OpenInv == \A a \in Asks : pc[a] \in {"idle", "open"} => talk[a] = "none"

\* What a delete finds after it purged is of questions that had not ended then.
DeleteInv ==
  \A d \in Deletes :
    /\ dpc[d] \in {"messages", "row"} => talk[of[d]] # "none"
    /\ dpc[d] = "row" \/ (dpc[d] = "error" /\ faults = 0)
         => /\ \A a \in Asks : pc[a] \notin Ended => a \in bySent[d]
            /\ \A p \in DOMAIN said[of[d]] : said[of[d]][p][2] \in bySent[d]
    /\ dpc[d] = "error" /\ faults = 0 => talk[of[d]] = "deleted" \/ bySent[d] # {}

\* A socket that is still being let in is connected, or closed meanwhile.
SocketInv == \A s \in Sockets : hand[s] \in {"verify", "lookup"} => s \in up \/ s \in cutShort

TalkInv ==
  /\ TypeOK /\ AskedInv /\ QuestionsPairUp
  /\ OpenInv /\ DeleteInv /\ SocketInv /\ ClientsExplained

-----------------------------------------------------------------------------
(* Conversations *)

\* Appending a row keeps the rows before it where they are.
LEMMA Appended ==
  ASSUME TypeOK, NEW k \in Asks, NEW t \in Texts, Add(k, t)
  PROVE  /\ said' \in [Asks -> Seq(Texts)]
         /\ DOMAIN said'[k] = DOMAIN said[k] \cup {Len(said[k]) + 1}
         /\ DOMAIN said[k] = 1 .. Len(said[k]) /\ Len(said[k]) \in Nat
         /\ \A p \in DOMAIN said[k] : said'[k][p] = said[k][p]
         /\ said'[k][Len(said[k]) + 1] = t
         /\ \A j \in Asks \ {k} : said'[j] = said[j]
         /\ said'[k] # <<>>
  <1>1. /\ said \in [Asks -> Seq(Texts)] /\ said[k] \in Seq(Texts)
        /\ said' = [said EXCEPT ![k] = Append(said[k], t)]
    BY DEF TypeOK, Add
  <1>2. /\ Append(said[k], t) \in Seq(Texts) /\ Len(Append(said[k], t)) = Len(said[k]) + 1
        /\ \A p \in 1 .. Len(said[k]) : Append(said[k], t)[p] = said[k][p]
        /\ Append(said[k], t)[Len(said[k]) + 1] = t
        /\ DOMAIN said[k] = 1 .. Len(said[k]) /\ Len(said[k]) \in Nat
        /\ DOMAIN Append(said[k], t) = 1 .. Len(said[k]) + 1
    BY <1>1
  <1>3. said'[k] = Append(said[k], t) /\ \A j \in Asks \ {k} : said'[j] = said[j]
    BY <1>1
  <1>4. DOMAIN said'[k] = DOMAIN said[k] \cup {Len(said[k]) + 1}
    BY <1>2, <1>3
  <1>5. said' \in [Asks -> Seq(Texts)]
    BY <1>1, <1>2
  <1>6. said'[k] # <<>>
    BY <1>2, <1>3
  <1> QED
    BY <1>2, <1>3, <1>4, <1>5, <1>6

\* A conversation says what it said, and the row that was appended.
LEMMA SaysMore ==
  ASSUME TypeOK, NEW k \in Asks, NEW t \in Texts, Add(k, t), NEW j \in Asks, NEW u
  PROVE  Says(j, u)' <=> Says(j, u) \/ (j = k /\ u = t)
  BY Appended DEF Says

-----------------------------------------------------------------------------
(* Types *)

\* Nothing has been asked.
LEMMA InitTalk == Init => TalkInv
  <1> SUFFICES ASSUME Init
               PROVE  TalkInv
    OBVIOUS
  <1>1. TypeOK
    <2>1. 0 \in 0 .. MaxFaults /\ <<>> \in Seq(Texts)
      BY BoundAssumption
    <2> QED
      BY <2>1 DEF Init, TypeOK, AskPc, DelPc
  <1>2. AskedInv /\ QuestionsPairUp /\ OpenInv /\ DeleteInv
    BY DEF Init, OpenInv, AskedInv, QuestionsPairUp, AnswersFollowQuestions, UnansweredExplained, DeleteInv, Ended
  <1>3. SocketInv /\ ClientsExplained
    BY DEF Init, SocketInv, ClientsExplained, LeaksAreCutShort, InactiveHoldsOver
  <1> QED
    BY <1>1, <1>2, <1>3 DEF TalkInv

\* Every step keeps the types.
LEMMA NextTypeOK == TypeOK /\ [Next]_vars => TypeOK'
  <1> SUFFICES ASSUME TypeOK, [Next]_vars
               PROVE  TypeOK'
    OBVIOUS
  <1>0. TypeOK
    OBVIOUS
  <1>a. ASSUME NEW a \in Asks
        PROVE  <<"USER", a>> \in Texts /\ <<"ASSISTANT", a>> \in Texts /\ conv[a] \in Asks
    BY DEF Texts, TypeOK
  <1>1. ASSUME NEW a \in Asks, NEW k \in Asks, Begin(a, k)
        PROVE  TypeOK'
    <2>1. pc' = [pc EXCEPT ![a] = "ask"] \/ pc' = [pc EXCEPT ![a] = "open"]
      BY <1>1 DEF Begin, Goto
    <2>3. conv' = [conv EXCEPT ![a] = k] \/ conv' = conv
      BY <1>1 DEF Begin
    <2>2. UNCHANGED <<rows, deletes, sockets, faults, history>>
      BY <1>1 DEF Begin, Answered
    <2>4. pc' \in [Asks -> AskPc]
      BY <2>1 DEF TypeOK, AskPc
    <2>5. conv' \in [Asks -> Asks]
      BY <2>3 DEF TypeOK
    <2> QED
      BY <1>0, <2>2, <2>4, <2>5 DEF TypeOK, rows, deletes, sockets, history
  <1>2. ASSUME NEW a \in Asks, Open(a) \/ Retrieve(a) \/ Generate(a)
        PROVE  TypeOK'
    BY <1>0, <1>2 DEF TypeOK, Open, Retrieve, Generate, Goto, Answered, rows, deletes, sockets, history,
                      AskPc, Ended
  <1>3. ASSUME NEW a \in Asks, SaveQuestion(a) \/ SaveAnswer(a)
        PROVE  TypeOK'
    <2>1. said' \in [Asks -> Seq(Texts)] /\ \A k \in Asks : said'[k] # <<>> => talk[k] = "open"
      <3>1. CASE talk[conv[a]] = "open"
        <4>1. Add(conv[a], <<"USER", a>>) \/ Add(conv[a], <<"ASSISTANT", a>>)
          BY <1>3, <3>1 DEF SaveQuestion, SaveAnswer
        <4>2. said' \in [Asks -> Seq(Texts)] /\ \A j \in Asks \ {conv[a]} : said'[j] = said[j]
          BY <1>a, <4>1, Appended
        <4> QED
          BY <3>1, <4>2 DEF TypeOK
      <3>2. CASE talk[conv[a]] # "open"
        BY <1>3, <3>2 DEF SaveQuestion, SaveAnswer, TypeOK
      <3> QED
        BY <3>1, <3>2
    <2>2. pc' \in [Asks -> AskPc]
      BY <1>3, ZenonT(40) DEF SaveQuestion, SaveAnswer, Goto, TypeOK, AskPc, Ended
    <2> QED
      BY <1>3, <2>1, <2>2 DEF TypeOK, SaveQuestion, SaveAnswer, Answered, deletes, sockets, history
  <1>4. ASSUME NEW a \in Asks, Reject(a)
        PROVE  TypeOK'
    BY <1>0, <1>4, BoundAssumption DEF TypeOK, Reject, Goto, Rejected, rows, deletes, sockets, history,
                                       AskPc, Ended
  <1>5. ASSUME NEW d \in Deletes, FindConversation(d) \/ DeleteMessages(d) \/ DeleteRow(d)
        PROVE  TypeOK'
    <2>1. /\ dpc' \in [Deletes -> DelPc]
          /\ UNCHANGED <<pc, conv, of, up, hand, clients, faults, active, failed, cutShort, heldOver>>
      BY <1>5 DEF TypeOK, FindConversation, DeleteMessages, DeleteRow, GotoD, Answered, rows, asks,
                  sockets, history, DelPc, Ended
    <2>2. CASE FindConversation(d)
      <3>1. UNCHANGED <<talk, said, purged, bySent>>
        BY <2>2 DEF FindConversation, rows, history
      <3> QED
        BY <1>0, <2>1, <3>1 DEF TypeOK
    <2>3. CASE DeleteMessages(d)
      <3>1. of[d] \in Asks /\ talk' = talk /\ said' = [said EXCEPT ![of[d]] = <<>>]
        BY <2>3 DEF TypeOK, DeleteMessages
      <3>2. said' \in [Asks -> Seq(Texts)] /\ \A k \in Asks : said'[k] = said[k] \/ said'[k] = <<>>
        <4>1. <<>> \in Seq(Texts)
          OBVIOUS
        <4>2. said \in [Asks -> Seq(Texts)]
          BY DEF TypeOK
        <4> QED
          BY <3>1, <4>1, <4>2
      <3>3. purged' \subseteq Asks
        BY <2>3, <3>1 DEF TypeOK, DeleteMessages
      <3>4. bySent' \in [Deletes -> SUBSET Asks]
        BY <2>3 DEF TypeOK, DeleteMessages
      <3> QED
        BY <2>1, <3>1, <3>2, <3>3, <3>4 DEF TypeOK
    <2>4. CASE DeleteRow(d)
      <3>1. UNCHANGED <<said, purged, bySent>> /\ of[d] \in Asks
        BY <2>4 DEF TypeOK, DeleteRow, history
      <3>2. \/ talk' = talk
            \/ said[of[d]] = <<>> /\ talk' = [talk EXCEPT ![of[d]] = "deleted"]
        BY <2>4 DEF DeleteRow
      <3> QED
        BY <2>1, <3>1, <3>2 DEF TypeOK
    <2> QED
      BY <1>5, <2>2, <2>3, <2>4
  <1>6. ASSUME NEW d \in Deletes, RejectDelete(d)
        PROVE  TypeOK'
    BY <1>0, <1>6, BoundAssumption DEF TypeOK, RejectDelete, GotoD, Rejected, rows, asks, sockets,
                                       history, DelPc, Ended
  <1>7. ASSUME NEW s \in Sockets, Connect(s) \/ Verify(s) \/ LookUp(s) \/ Disconnect(s)
        PROVE  TypeOK'
    BY <1>0, <1>7 DEF TypeOK, Connect, Verify, LookUp, Disconnect, Hand, Refuse, rows, asks, deletes,
                      history
  <1>8. CASE Deactivate
    BY <1>0, <1>8 DEF TypeOK, Deactivate, asks, deletes, sockets
  <1>9. CASE Crash
    BY <1>0, <1>9, BoundAssumption DEF TypeOK, Crash, Rejected, rows, history, AskPc, DelPc, Ended
  <1>10. CASE UNCHANGED vars
    BY <1>0, <1>10 DEF TypeOK, vars, rows, asks, deletes, sockets, history
  <1> QED
    BY <1>1, <1>2, <1>3, <1>4, <1>5, <1>6, <1>7, <1>8, <1>9, <1>10 DEF Next, Ask, Delete

-----------------------------------------------------------------------------
(* Questions and answers *)

\* The steps that write no message and delete none.
Silent == UNCHANGED <<said, purged>>

\* What such a step may do to a question: move it on, but into its conversation only.
LEMMA SilentMoves ==
  ASSUME TypeOK, [Next]_vars,
         \A a \in Asks : ~SaveQuestion(a) /\ ~SaveAnswer(a), \A d \in Deletes : ~DeleteMessages(d)
  PROVE  /\ Silent /\ faults' >= faults /\ failed \subseteq failed'
         /\ \A a \in Asks :
              /\ pc[a] # "idle" => conv'[a] = conv[a]
              /\ pc'[a] \in {"retrieve", "generate", "answer"}
                   => pc[a] \in {"retrieve", "generate", "answer"}
              /\ pc'[a] \in Ended => pc[a] \in Ended \/ faults' > faults \/ a \in failed'
  <1>1. ASSUME NEW a \in Asks, Ask(a) \/ \E k \in Asks : Begin(a, k)
        PROVE  /\ Silent /\ faults' >= faults /\ failed \subseteq failed'
               /\ \A b \in Asks \ {a} : pc'[b] = pc[b] /\ conv'[b] = conv[b]
               /\ pc[a] # "idle" => conv'[a] = conv[a]
               /\ pc'[a] \in {"retrieve", "generate", "answer"}
                    => pc[a] \in {"retrieve", "generate", "answer"}
               /\ pc'[a] \in Ended => faults' > faults \/ a \in failed'
    BY <1>1 DEF Silent, TypeOK, Ask, Begin, Open, Retrieve, Generate, Reject, Goto, Answered, Rejected,
                rows, history, Ended
  <1>2. ASSUME (\E d \in Deletes : Delete(d)) \/ Deactivate \/ UNCHANGED vars
                 \/ \E s \in Sockets : Connect(s) \/ Verify(s) \/ LookUp(s) \/ Disconnect(s)
        PROVE  Silent /\ faults' >= faults /\ failed' = failed /\ UNCHANGED <<pc, conv>>
    BY <1>2 DEF Silent, TypeOK, Delete, FindConversation, DeleteRow, RejectDelete, Connect, Verify,
                LookUp, Disconnect, Deactivate, Answered, Rejected, rows, asks, sockets, history, vars
  <1>3. CASE Crash
    BY <1>3 DEF Silent, TypeOK, Crash, Rejected, InFlight, rows, history, Ended
  <1>4. CASE \E a \in Asks : Ask(a) \/ \E k \in Asks : Begin(a, k)
    BY <1>1, <1>4
  <1>5. CASE (\E d \in Deletes : Delete(d)) \/ Deactivate \/ UNCHANGED vars
               \/ \E s \in Sockets : Connect(s) \/ Verify(s) \/ LookUp(s) \/ Disconnect(s)
    BY <1>2, <1>5
  <1> QED
    BY <1>3, <1>4, <1>5 DEF Next

\* In these rows every answer follows its question.
Follows(s) ==
  \A p \in DOMAIN s : s[p][1] = "ASSISTANT" => \E q \in 1 .. p - 1 : s[q] = <<"USER", s[p][2]>>
LEMMA FollowsEach == AnswersFollowQuestions <=> \A k \in Asks \ purged : Follows(said[k])
  BY DEF AnswersFollowQuestions, Follows

\* A question keeps its own row in a conversation nobody purged, until it is answered.
LEMMA NextAsked ==
  TypeOK /\ AskedInv /\ AnswersFollowQuestions /\ [Next]_vars => AskedInv' /\ AnswersFollowQuestions'
  <1> SUFFICES ASSUME TypeOK, AskedInv, AnswersFollowQuestions, [Next]_vars
               PROVE  AskedInv' /\ AnswersFollowQuestions'
    OBVIOUS
  <1>a. ASSUME NEW a \in Asks
        PROVE  <<"USER", a>> \in Texts /\ <<"ASSISTANT", a>> \in Texts /\ conv[a] \in Asks
    BY DEF Texts, TypeOK
  <1>1. ASSUME NEW a \in Asks, SaveQuestion(a) \/ SaveAnswer(a), talk[conv[a]] # "open"
        PROVE  AskedInv' /\ AnswersFollowQuestions'
    <2>1. /\ UNCHANGED <<said, conv, purged>> /\ pc'[a] = "error"
          /\ \A b \in Asks \ {a} : pc'[b] = pc[b]
      BY <1>1 DEF SaveQuestion, SaveAnswer, Goto, history, TypeOK
    <2> QED
      BY <2>1, ZenonT(40) DEF AskedInv, AnswersFollowQuestions, Says
  <1>2. ASSUME NEW a \in Asks, SaveQuestion(a), talk[conv[a]] = "open"
        PROVE  AskedInv' /\ AnswersFollowQuestions'
    <2>1. /\ Add(conv[a], <<"USER", a>>) /\ UNCHANGED <<conv, purged>> /\ pc'[a] = "retrieve"
          /\ \A b \in Asks \ {a} : pc'[b] = pc[b]
      BY <1>2 DEF SaveQuestion, Goto, history, TypeOK
    <2> DEFINE k == conv[a]
               n == Len(said[k])
    <2>a. k \in Asks /\ <<"USER", a>> \in Texts
      BY <1>a
    <2>b. \A j \in Asks : \A u : Says(j, u)' <=> Says(j, u) \/ (j = k /\ u = <<"USER", a>>)
      BY <2>1, <2>a, SaysMore
    <2>c. /\ DOMAIN said'[k] = DOMAIN said[k] \cup {n + 1}
          /\ DOMAIN said[k] = 1 .. n /\ n \in Nat
          /\ \A q \in DOMAIN said[k] : said'[k][q] = said[k][q]
          /\ said'[k][n + 1] = <<"USER", a>>
          /\ \A j \in Asks \ {k} : said'[j] = said[j]
      BY <2>1, <2>a, Appended
    <2> HIDE DEF k, n
    <2>2. AskedInv'
      BY <1>a, <2>1, <2>b DEF AskedInv, k
    <2>3. AnswersFollowQuestions'
      <3>1. \A j \in Asks \ purged : Follows(said[j])
        BY FollowsEach
      <3>2. ASSUME k \notin purged, NEW p \in DOMAIN said'[k], said'[k][p][1] = "ASSISTANT"
            PROVE  \E q \in 1 .. p - 1 : said'[k][q] = <<"USER", said'[k][p][2]>>
        <4>1. p \in 1 .. n
          BY <2>c, <3>2
        <4>2. Follows(said[k]) /\ said[k][p] = said'[k][p]
          BY <2>a, <2>c, <3>1, <3>2, <4>1
        <4>3. PICK q \in 1 .. p - 1 : said[k][q] = <<"USER", said[k][p][2]>>
          BY <2>c, <3>2, <4>1, <4>2 DEF Follows
        <4> QED
          BY <2>c, <4>1, <4>2, <4>3
      <3> QED
        <4>1. k \notin purged => Follows(said'[k])
          BY <3>2 DEF Follows
        <4>2. \A j \in Asks \ purged' : Follows(said'[j])
          BY <2>1, <2>c, <3>1, <4>1
        <4> QED
          BY <4>2 DEF Follows, AnswersFollowQuestions
    <2> QED
      BY <2>2, <2>3
  <1>3. ASSUME NEW a \in Asks, SaveAnswer(a), talk[conv[a]] = "open"
        PROVE  AskedInv' /\ AnswersFollowQuestions'
    <2>1. /\ Add(conv[a], <<"ASSISTANT", a>>) /\ UNCHANGED <<conv, purged>>
          /\ pc[a] = "answer" /\ pc'[a] = "done"
          /\ \A b \in Asks \ {a} : pc'[b] = pc[b]
      BY <1>3 DEF SaveAnswer, Goto, history, TypeOK
    <2> DEFINE k == conv[a]
               n == Len(said[k])
    <2>a. k \in Asks /\ <<"ASSISTANT", a>> \in Texts
      BY <1>a
    <2>b. \A j \in Asks : \A u : Says(j, u)' <=> Says(j, u) \/ (j = k /\ u = <<"ASSISTANT", a>>)
      BY <2>1, <2>a, SaysMore
    <2>c. /\ DOMAIN said'[k] = DOMAIN said[k] \cup {n + 1}
          /\ DOMAIN said[k] = 1 .. n /\ n \in Nat
          /\ \A q \in DOMAIN said[k] : said'[k][q] = said[k][q]
          /\ said'[k][n + 1] = <<"ASSISTANT", a>>
          /\ \A j \in Asks \ {k} : said'[j] = said[j]
      BY <2>1, <2>a, Appended
    <2> HIDE DEF k, n
    <2>2. AskedInv'
      BY <1>a, <2>1, <2>b DEF AskedInv, k
    <2>3. AnswersFollowQuestions'
      <3>1. \A j \in Asks \ purged : Follows(said[j])
        BY FollowsEach
      <3>2. ASSUME k \notin purged, NEW p \in DOMAIN said'[k], said'[k][p][1] = "ASSISTANT"
            PROVE  \E q \in 1 .. p - 1 : said'[k][q] = <<"USER", said'[k][p][2]>>
        <4>1. CASE p \in 1 .. n
          <5>1. Follows(said[k]) /\ said[k][p] = said'[k][p]
            BY <2>a, <2>c, <3>1, <3>2, <4>1
          <5>2. PICK q \in 1 .. p - 1 : said[k][q] = <<"USER", said[k][p][2]>>
            BY <2>c, <3>2, <4>1, <5>1 DEF Follows
          <5> QED
            BY <2>c, <4>1, <5>1, <5>2
        <4>2. CASE p \notin 1 .. n
          <5>1. p = n + 1 /\ said'[k][p] = <<"ASSISTANT", a>>
            BY <2>c, <3>2, <4>2
          <5>2. Says(k, <<"USER", a>>)
            BY <2>1, <3>2 DEF AskedInv, k
          <5>3. PICK q \in 1 .. n : said[k][q] = <<"USER", a>>
            BY <2>c, <5>2 DEF Says
          <5> QED
            BY <2>c, <5>1, <5>3
        <4> QED
          BY <4>1, <4>2
      <3> QED
        <4>1. k \notin purged => Follows(said'[k])
          BY <3>2 DEF Follows
        <4>2. \A j \in Asks \ purged' : Follows(said'[j])
          BY <2>1, <2>c, <3>1, <4>1
        <4> QED
          BY <4>2 DEF Follows, AnswersFollowQuestions
    <2> QED
      BY <2>2, <2>3
  <1>4. ASSUME NEW d \in Deletes, DeleteMessages(d)
        PROVE  AskedInv' /\ AnswersFollowQuestions'
    <2>1. /\ UNCHANGED <<pc, conv>> /\ purged' = purged \cup {of[d]}
          /\ \A k \in Asks \ {of[d]} : said'[k] = said[k]
      BY <1>4 DEF DeleteMessages, asks, TypeOK
    <2>2. AskedInv'
      BY <1>a, <2>1 DEF AskedInv, Says
    <2>3. AnswersFollowQuestions'
      <3>1. \A k \in Asks \ purged' : Follows(said'[k])
        BY <2>1, FollowsEach
      <3> QED
        BY <3>1 DEF AnswersFollowQuestions, Follows
    <2> QED
      BY <2>2, <2>3
  <1>5. CASE /\ \A a \in Asks : ~SaveQuestion(a) /\ ~SaveAnswer(a)
             /\ \A d \in Deletes : ~DeleteMessages(d)
    BY <1>5, SilentMoves, SMTT(30) DEF Silent, AskedInv, AnswersFollowQuestions, Says
  <1> QED
    BY <1>1, <1>2, <1>3, <1>4, <1>5

\* A question ends without its answer when a call is rejected, its stream fails, or its
\* conversation is gone; then it says nothing there.
LEMMA NextUnanswered == TypeOK /\ UnansweredExplained /\ [Next]_vars => UnansweredExplained'
  <1> SUFFICES ASSUME TypeOK, UnansweredExplained, [Next]_vars
               PROVE  UnansweredExplained'
    OBVIOUS
  <1> DEFINE Explained(a) ==
        pc[a] \in Ended /\ Says(conv[a], <<"USER", a>>)
          => Says(conv[a], <<"ASSISTANT", a>>) \/ a \in failed
  <1>a. ASSUME NEW a \in Asks
        PROVE  <<"USER", a>> \in Texts /\ <<"ASSISTANT", a>> \in Texts /\ conv[a] \in Asks
    BY DEF Texts, TypeOK
  <1>b. faults \in Nat
    BY BoundAssumption DEF TypeOK
  <1>1. ASSUME NEW a \in Asks, SaveQuestion(a) \/ SaveAnswer(a), talk[conv[a]] # "open"
        PROVE  UnansweredExplained'
    <2>1. /\ UNCHANGED <<said, conv, failed, faults>> /\ \A b \in Asks \ {a} : pc'[b] = pc[b]
      BY <1>1 DEF SaveQuestion, SaveAnswer, Goto, Answered, history, TypeOK
    <2>2. said[conv[a]] = <<>>
      BY <1>a, <1>1 DEF TypeOK
    <2>3. ~Says(conv[a], <<"USER", a>>)'
      BY <2>1, <2>2 DEF Says
    <2> QED
      BY <2>1, <2>3 DEF UnansweredExplained, Says
  <1>2. ASSUME NEW a \in Asks, NEW who \in {"USER", "ASSISTANT"}, Add(conv[a], <<who, a>>),
               UNCHANGED <<conv, failed, faults>>, \A b \in Asks \ {a} : pc'[b] = pc[b],
               who = "USER" => pc'[a] \notin Ended
        PROVE  UnansweredExplained'
    <2>1. \A j \in Asks : \A u : Says(j, u)' <=> Says(j, u) \/ (j = conv[a] /\ u = <<who, a>>)
      BY <1>a, <1>2, SaysMore
    <2>2. ASSUME NEW b \in Asks, faults = 0
          PROVE  Explained(b)'
      BY <1>a, <1>2, <2>1, <2>2 DEF UnansweredExplained
    <2> QED
      BY <1>2, <2>2 DEF UnansweredExplained
  <1>3. ASSUME NEW a \in Asks, SaveQuestion(a) \/ SaveAnswer(a), talk[conv[a]] = "open"
        PROVE  UnansweredExplained'
    <2>1. /\ UNCHANGED <<conv, failed, faults>> /\ \A b \in Asks \ {a} : pc'[b] = pc[b]
      BY <1>3 DEF SaveQuestion, SaveAnswer, Goto, Answered, history, TypeOK
    <2>2. CASE SaveQuestion(a)
      <3>1. Add(conv[a], <<"USER", a>>) /\ pc'[a] \notin Ended
        BY <1>3, <2>2 DEF SaveQuestion, Goto, TypeOK, Ended
      <3> QED
        BY <1>2, <2>1, <3>1
    <2>3. CASE SaveAnswer(a)
      <3>1. Add(conv[a], <<"ASSISTANT", a>>)
        BY <1>3, <2>3 DEF SaveAnswer
      <3> QED
        BY <1>2, <2>1, <3>1
    <2> QED
      BY <1>3, <2>2, <2>3
  <1>4. ASSUME NEW d \in Deletes, DeleteMessages(d)
        PROVE  UnansweredExplained'
    <2>1. /\ UNCHANGED <<pc, conv, failed, faults>> /\ said'[of[d]] = <<>>
          /\ \A k \in Asks \ {of[d]} : said'[k] = said[k]
      BY <1>4 DEF DeleteMessages, Answered, asks, TypeOK
    <2>2. \A k \in Asks : \A u : Says(k, u)' <=> Says(k, u) /\ k # of[d]
      BY <2>1 DEF Says
    <2> QED
      BY <1>a, <2>1, <2>2 DEF UnansweredExplained
  <1>5. CASE /\ \A a \in Asks : ~SaveQuestion(a) /\ ~SaveAnswer(a)
             /\ \A d \in Deletes : ~DeleteMessages(d)
    <2>1. /\ Silent /\ faults' >= faults /\ failed \subseteq failed' /\ faults' \in Nat
          /\ \A a \in Asks : /\ pc[a] # "idle" => conv'[a] = conv[a]
                             /\ pc'[a] \in Ended => pc[a] \in Ended \/ faults' > faults \/ a \in failed'
      BY <1>5, SilentMoves, NextTypeOK, BoundAssumption DEF TypeOK
    <2>2. \A k : \A u : Says(k, u)' <=> Says(k, u)
      BY <2>1 DEF Silent, Says
    <2>3. ASSUME NEW a \in Asks, faults' = 0
          PROVE  Explained(a)'
      <3>1. faults = 0 /\ (pc'[a] \in Ended => pc[a] \in Ended \/ a \in failed')
        BY <1>b, <2>1, <2>3
      <3>2. pc[a] \in Ended => conv'[a] = conv[a]
        BY <2>1 DEF Ended
      <3> QED
        BY <2>1, <2>2, <3>1, <3>2 DEF UnansweredExplained
    <2> QED
      BY <2>3 DEF UnansweredExplained
  <1> QED
    BY <1>1, <1>3, <1>4, <1>5

-----------------------------------------------------------------------------
(* Deletes *)

\* A conversation is opened once, by its own question.
LEMMA NextOpen == TypeOK /\ OpenInv /\ [Next]_vars => OpenInv'
  <1> SUFFICES ASSUME TypeOK, OpenInv, [Next]_vars, NEW a \in Asks, pc'[a] \in {"idle", "open"}
               PROVE  talk'[a] = "none"
    BY DEF OpenInv
  <1>1. ASSUME NEW b \in Asks, Ask(b) \/ \E k \in Asks : Begin(b, k)
        PROVE  pc[a] \in {"idle", "open"} /\ talk'[a] = talk[a]
    <2>1. pc[a] \in {"idle", "open"} /\ ~(b = a /\ Open(b))
      BY <1>1 DEF TypeOK, Ask, Begin, Open, SaveQuestion, Retrieve, Generate, SaveAnswer, Reject, Goto
    <2> QED
      BY <1>1, <2>1 DEF TypeOK, Ask, Begin, Open, SaveQuestion, Retrieve, Generate, SaveAnswer, Reject,
                        rows
  <1>2. ASSUME NEW d \in Deletes, Delete(d)
        PROVE  pc'[a] = pc[a] /\ (talk'[a] = talk[a] \/ talk[a] = "open")
    BY <1>2 DEF TypeOK, Delete, FindConversation, DeleteMessages, DeleteRow, RejectDelete, rows, asks
  <1>3. ASSUME Deactivate \/ Crash \/ UNCHANGED vars
                 \/ \E s \in Sockets : Connect(s) \/ Verify(s) \/ LookUp(s) \/ Disconnect(s)
        PROVE  pc[a] \in {"idle", "open"} /\ talk'[a] = talk[a]
    BY <1>3 DEF TypeOK, Deactivate, Crash, Connect, Verify, LookUp, Disconnect, rows, asks, vars
  <1> QED
    BY <1>1, <1>2, <1>3 DEF Next, OpenInv

\* What a question does to a conversation a delete is busy with.
LEMMA AskMeetsDelete ==
  ASSUME TypeOK, OpenInv, NEW a \in Asks, Ask(a) \/ \E k \in Asks : Begin(a, k)
  PROVE  /\ UNCHANGED <<dpc, of, bySent>> /\ faults' >= faults
         /\ \A k \in Asks : talk[k] # "none" => talk'[k] = talk[k]
         /\ \A b \in Asks : pc'[b] \notin Ended => pc[b] \notin Ended
         /\ \A k \in Asks : \A p \in DOMAIN said'[k] :
              (p \in DOMAIN said[k] /\ said'[k][p] = said[k][p]) \/ (said'[k][p][2] = a /\ pc[a] \notin Ended)
  <1>1. UNCHANGED <<dpc, of, bySent>> /\ faults' >= faults
    BY DEF TypeOK, Ask, Begin, Open, SaveQuestion, Retrieve, Generate, SaveAnswer, Reject, Answered,
           Rejected, deletes, history
  <1>2. \A k \in Asks : talk[k] # "none" => talk'[k] = talk[k]
    BY DEF TypeOK, OpenInv, Ask, Begin, Open, SaveQuestion, Retrieve, Generate, SaveAnswer, Reject, Goto,
           rows
  <1>3. pc[a] \notin Ended /\ \A b \in Asks \ {a} : pc'[b] = pc[b]
    BY DEF TypeOK, Ask, Begin, Open, SaveQuestion, Retrieve, Generate, SaveAnswer, Reject, Goto, Ended
  <1>4. CASE \E who \in {"USER", "ASSISTANT"} : Add(conv[a], <<who, a>>)
    <2>1. PICK who \in {"USER", "ASSISTANT"} : Add(conv[a], <<who, a>>)
      BY <1>4
    <2>2. conv[a] \in Asks /\ <<who, a>> \in Texts /\ <<who, a>>[2] = a
      BY DEF TypeOK, Texts
    <2>3. /\ \A k \in Asks \ {conv[a]} : said'[k] = said[k]
          /\ \A p \in DOMAIN said'[conv[a]] :
               (p \in DOMAIN said[conv[a]] /\ said'[conv[a]][p] = said[conv[a]][p])
                 \/ said'[conv[a]][p] = <<who, a>>
      BY <2>1, <2>2, Appended
    <2> QED
      BY <1>1, <1>2, <1>3, <2>2, <2>3
  <1>5. CASE said' = said
    BY <1>1, <1>2, <1>3, <1>5
  <1>6. said' = said \/ \E who \in {"USER", "ASSISTANT"} : Add(conv[a], <<who, a>>)
    BY DEF Ask, Begin, Open, SaveQuestion, Retrieve, Generate, SaveAnswer, Reject, rows
  <1> QED
    BY <1>4, <1>5, <1>6

\* What a delete finds is of the questions it met.
LEMMA NextDelete == TypeOK /\ OpenInv /\ DeleteInv /\ [Next]_vars => DeleteInv'
  <1> SUFFICES ASSUME TypeOK, OpenInv, DeleteInv, [Next]_vars
               PROVE  DeleteInv'
    OBVIOUS
  <1> DEFINE Purges(d) == dpc[d] = "row" \/ (dpc[d] = "error" /\ faults = 0)
             Met(d) ==
               /\ dpc[d] \in {"messages", "row"} => talk[of[d]] # "none"
               /\ Purges(d) => /\ \A a \in Asks : pc[a] \notin Ended => a \in bySent[d]
                              /\ \A p \in DOMAIN said[of[d]] : said[of[d]][p][2] \in bySent[d]
               /\ dpc[d] = "error" /\ faults = 0 => talk[of[d]] = "deleted" \/ bySent[d] # {}
  <1>a. faults \in Nat /\ faults' \in Nat /\ \A d \in Deletes : of[d] \in Asks
    BY NextTypeOK, BoundAssumption DEF TypeOK
  <1>1. ASSUME UNCHANGED <<dpc, of, bySent>>, faults' >= faults,
               \A k \in Asks : talk[k] # "none" => talk'[k] = talk[k],
               \A b \in Asks : pc'[b] \notin Ended => pc[b] \notin Ended,
               \A k \in Asks : \A p \in DOMAIN said'[k] :
                 (p \in DOMAIN said[k] /\ said'[k][p] = said[k][p])
                   \/ \E a \in Asks : said'[k][p][2] = a /\ pc[a] \notin Ended
        PROVE  DeleteInv'
    <2>1. ASSUME NEW d \in Deletes
          PROVE  Met(d)'
      <3>1. Met(d) /\ (Purges(d)' => Purges(d)) /\ of[d] \in Asks
        BY <1>a, <1>1, SMTT(30) DEF DeleteInv
      <3>2. dpc'[d] \in {"messages", "row"} => talk'[of'[d]] # "none"
        BY <1>1, <3>1
      <3>3. Purges(d)' => /\ \A a \in Asks : pc'[a] \notin Ended => a \in bySent'[d]
                         /\ \A p \in DOMAIN said'[of'[d]] : said'[of'[d]][p][2] \in bySent'[d]
        BY <1>1, <3>1
      <3>4. dpc'[d] = "error" /\ faults' = 0 => talk'[of'[d]] = "deleted" \/ bySent'[d] # {}
        BY <1>a, <1>1, <3>1
      <3> QED
        BY <3>2, <3>3, <3>4
    <2> QED
      BY <2>1 DEF DeleteInv
  <1>2. ASSUME NEW a \in Asks, Ask(a) \/ \E k \in Asks : Begin(a, k)
        PROVE  DeleteInv'
    <2>1. /\ UNCHANGED <<dpc, of, bySent>> /\ faults' >= faults
          /\ \A k \in Asks : talk[k] # "none" => talk'[k] = talk[k]
          /\ \A b \in Asks : pc'[b] \notin Ended => pc[b] \notin Ended
          /\ \A k \in Asks : \A p \in DOMAIN said'[k] :
               (p \in DOMAIN said[k] /\ said'[k][p] = said[k][p])
                 \/ \E b \in Asks : said'[k][p][2] = b /\ pc[b] \notin Ended
      BY <1>2, AskMeetsDelete
    <2> QED
      BY <1>1, <2>1
  <1>3. ASSUME Deactivate \/ UNCHANGED vars
                 \/ \E s \in Sockets : Connect(s) \/ Verify(s) \/ LookUp(s) \/ Disconnect(s)
        PROVE  DeleteInv'
    <2>1. UNCHANGED <<dpc, of, bySent, faults, talk, said, pc>>
      BY <1>3 DEF Deactivate, Connect, Verify, LookUp, Disconnect, rows, asks, deletes, history, vars
    <2> QED
      BY <1>a, <1>1, <2>1
  <1>4. CASE Crash
    <2>1. /\ UNCHANGED <<of, bySent, talk, said>> /\ faults' > 0
          /\ \A d \in Deletes : dpc'[d] \notin {"messages", "row"}
      BY <1>a, <1>4 DEF Crash, Rejected, InFlight, Ended, rows, history, TypeOK
    <2> QED
      BY <1>a, <2>1 DEF DeleteInv
  <1>5. ASSUME NEW d \in Deletes, Delete(d)
        PROVE  DeleteInv'
    <2>1. /\ UNCHANGED <<pc, of>> /\ faults' >= faults
          /\ \A c \in Deletes \ {d} : dpc'[c] = dpc[c] /\ bySent'[c] = bySent[c]
          /\ \A k \in Asks : said'[k] = said[k] \/ said'[k] = <<>>
          /\ \A k \in Asks : talk[k] # "none" => talk'[k] \in {talk[k], "deleted"}
      BY <1>5 DEF Delete, FindConversation, DeleteMessages, DeleteRow, RejectDelete, GotoD, Answered,
                  Rejected, rows, asks, history, TypeOK
    <2>2. ASSUME NEW c \in Deletes \ {d}
          PROVE  Met(c)'
      <3>1. Met(c) /\ of[c] \in Asks
        BY <1>a DEF DeleteInv
      <3>2. faults' = 0 => faults = 0
        BY <1>a, <2>1
      <3>3. Purges(c)' => Purges(c)
        BY <2>1, <3>2
      <3> QED
        BY <2>1, <3>1, <3>2, <3>3
    <2>3. Met(d)'
      <3>1. CASE FindConversation(d)
        <4>1. /\ UNCHANGED <<talk, said, of>> /\ dpc'[d] \in {"messages", "done"}
              /\ dpc'[d] = "messages" => talk[of[d]] = "open"
          BY <3>1 DEF FindConversation, GotoD, rows, TypeOK
        <4> QED
          BY <4>1
      <3>2. CASE DeleteMessages(d)
        <4>1. /\ UNCHANGED <<talk, of, pc>> /\ said'[of[d]] = <<>>
              /\ dpc[d] = "messages" /\ dpc'[d] = "row"
              /\ bySent'[d] = {a \in Asks : pc[a] \notin Ended}
          BY <1>a, <3>2 DEF DeleteMessages, GotoD, asks, TypeOK
        <4>2. talk[of[d]] # "none"
          BY <4>1 DEF DeleteInv
        <4> QED
          BY <4>1, <4>2
      <3>3. CASE DeleteRow(d)
        <4>1. /\ UNCHANGED <<said, of, pc, bySent, faults>> /\ dpc[d] = "row" /\ dpc'[d] \in {"done", "error"}
              /\ dpc'[d] = "error" => talk' = talk /\ (talk[of[d]] = "open" => said[of[d]] # <<>>)
          BY <3>3 DEF DeleteRow, GotoD, Answered, asks, history, TypeOK
        <4>2. Met(d) /\ talk[of[d]] \in {"open", "deleted"}
          BY <1>a, <4>1 DEF DeleteInv, TypeOK
        <4>3. said[of[d]] # <<>> => bySent[d] # {}
          <5>1. said[of[d]] \in Seq(Texts)
            BY <1>a DEF TypeOK
          <5>2. said[of[d]] # <<>> => 1 \in DOMAIN said[of[d]]
            BY <5>1
          <5> QED
            BY <4>1, <4>2, <5>2
        <4> QED
          BY <4>1, <4>2, <4>3
      <3>4. CASE RejectDelete(d)
        <4>1. faults' > 0 /\ dpc'[d] = "error"
          BY <1>a, <3>4 DEF RejectDelete, Rejected, GotoD, TypeOK
        <4> QED
          BY <4>1
      <3> QED
        BY <1>5, <3>1, <3>2, <3>3, <3>4 DEF Delete
    <2> QED
      BY <2>2, <2>3 DEF DeleteInv
  <1> QED
    BY <1>2, <1>3, <1>4, <1>5 DEF Next

-----------------------------------------------------------------------------
(* Sockets *)

\* A socket gets into connectedClients while it is let in, and leaves when it closes.
LEMMA NextSockets ==
  TypeOK /\ SocketInv /\ ClientsExplained /\ [Next]_vars => SocketInv' /\ ClientsExplained'
  <1> SUFFICES ASSUME TypeOK, SocketInv, ClientsExplained, [Next]_vars
               PROVE  SocketInv' /\ ClientsExplained'
    OBVIOUS
  <1> USE DEF SocketInv, ClientsExplained, LeaksAreCutShort, InactiveHoldsOver
  <1>1. ASSUME UNCHANGED <<up, hand, clients, cutShort, active, heldOver>>
        PROVE  SocketInv' /\ ClientsExplained'
    BY <1>1
  <1>2. ASSUME (\E a \in Asks : Ask(a) \/ \E k \in Asks : Begin(a, k))
                 \/ (\E d \in Deletes : Delete(d)) \/ UNCHANGED vars
        PROVE  UNCHANGED <<up, hand, clients, cutShort, active, heldOver>>
    BY <1>2 DEF Ask, Begin, Open, SaveQuestion, Retrieve, Generate, SaveAnswer, Reject, Delete,
         FindConversation, DeleteMessages, DeleteRow, RejectDelete, rows, sockets, history, vars
  <1>3. ASSUME NEW s \in Sockets, Connect(s) \/ Verify(s) \/ LookUp(s) \/ Disconnect(s)
        PROVE  SocketInv' /\ ClientsExplained'
    BY <1>3 DEF TypeOK, Connect, Verify, LookUp, Disconnect, Hand, Refuse, rows, history
  <1>4. ASSUME Deactivate \/ Crash
        PROVE  SocketInv' /\ ClientsExplained'
    BY <1>4 DEF TypeOK, Deactivate, Crash, rows, sockets, history
  <1> QED
    BY <1>1, <1>2, <1>3, <1>4 DEF Next

-----------------------------------------------------------------------------
(* Theorems *)

\* TalkInv holds throughout.
LEMMA TalkAlways == Spec => []TalkInv
  <1>1. TalkInv /\ [Next]_vars => TalkInv'
    BY NextTypeOK, NextAsked, NextUnanswered, NextOpen, NextDelete, NextSockets
       DEF TalkInv, QuestionsPairUp
  <1> QED
    BY <1>1, InitTalk, PTL DEF Spec

\* Conversations, questions, deletes and sockets have their types; a conversation with
\* messages is open (chat.service.ts:44, 320).
THEOREM ChatTypes == Spec => []TypeOK
  <1>1. TalkInv => TypeOK
    BY DEF TalkInv
  <1> QED
    BY <1>1, TalkAlways, PTL

\* In a conversation nobody purged an answer follows its question, and a question stays
\* without one only for a rejected call, a failed stream or a deletion
\* (chat.service.ts:44, 51, 258; chat.gateway.ts:150).
THEOREM PairsHold == Spec => []QuestionsPairUp
  <1>1. TalkInv => QuestionsPairUp
    BY DEF TalkInv
  <1> QED
    BY <1>1, TalkAlways, PTL

\* A delete fails, no call being rejected, after another delete or a question in flight,
\* and leaves rows of such questions alone (chat.service.ts:320, 321).
THEOREM DeletesExplained == Spec => []DeleteFailsInRaces
  <1>1. TalkInv => DeleteFailsInRaces
    BY DEF TalkInv, DeleteInv, DeleteFailsInRaces
  <1> QED
    BY <1>1, TalkAlways, PTL

\* A closed socket in connectedClients closed while it was let in, and a deactivated
\* user's had been let in before (chat.gateway.ts:59, 62, 73).
THEOREM SocketsExplained == Spec => []ClientsExplained
  <1>1. TalkInv => ClientsExplained
    BY DEF TalkInv
  <1> QED
    BY <1>1, TalkAlways, PTL

=================================================================================
