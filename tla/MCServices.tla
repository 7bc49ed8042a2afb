------------------------------ MODULE MCServices ------------------------------
(* The parts that share no state with another: each is a scene of its own, so *)
(* that their states add up and do not multiply.                               *)
EXTENDS Notifications, Members, Policies, Meetings, Credentials, SigningKeys, OutboundMail,
        VectorRefresh, Chunking, ClientSession, ClientSearch

CONSTANTS u1, u2, a, b, c, e1, p1, p2

MCWho == [x \in {a, b, c} |-> u1]
\* A service nobody documents, and what both queries about ownership find without an id.
MCFound == {<<"documentation", {"service"}>>, <<"ownership", {}>>}

VARIABLE scene

office  == <<memberVars, policyVars, meetingVars>>
secrets == <<credentialVars, keyVars>>
texts == <<refreshVars, chunkVars>>
client  == <<sessionVars, notifierVars>>

Scenes == {"notifications", "members", "policies", "gaps", "meetings", "credentials", "keys",
           "mail", "vectors", "chunks", "session", "searches"}

SceneInit ==
  /\ scene \in Scenes
  /\ lines \in IF scene = "chunks" THEN ChunkTexts ELSE {<<>>}
  /\ Init /\ MembersInit /\ PoliciesInit /\ MeetingsInit /\ CredentialsInit
  /\ SigningKeysInit /\ MailInit /\ RefreshInit /\ ChunkingInit /\ SessionInit /\ NotifierInit
  /\ scene # "mail" => transporter /\ maxRetries = 2

Play(s, step) == scene = s /\ step /\ UNCHANGED scene
Idle(others)  == UNCHANGED others

PlayNotifications ==
  Play("notifications", Next) /\ Idle(<<office, secrets, mailVars, texts, client>>)

PlayOffice ==
  \/ Play("members", MembersNext) /\ Idle(<<policyVars, meetingVars>>)
  \/ Play("policies", PoliciesNext /\ UNCHANGED gapCalls) /\ Idle(<<memberVars, meetingVars>>)
  \/ Play("gaps", PoliciesNext /\ editPc'[b] = "idle") /\ Idle(<<memberVars, meetingVars>>)
  \/ Play("meetings", MeetingsNext) /\ Idle(<<memberVars, policyVars>>)

PlaySecrets ==
  \/ Play("credentials", CredentialsNext) /\ Idle(keyVars)
  \/ Play("keys", SigningKeysNext) /\ Idle(credentialVars)

PlayContent ==
  \/ Play("vectors", RefreshNext) /\ Idle(chunkVars)
  \/ Play("chunks", ChunkingNext) /\ Idle(refreshVars)

PlayClient ==
  \/ Play("session", SessionNext) /\ Idle(notifierVars)
  \/ Play("searches", NotifierNext) /\ Idle(sessionVars)

SceneNext ==
  \/ PlayNotifications
  \/ PlayOffice /\ Idle(<<vars, secrets, mailVars, texts, client>>)
  \/ PlaySecrets /\ Idle(<<vars, office, mailVars, texts, client>>)
  \/ Play("mail", MailNext) /\ Idle(<<vars, office, secrets, texts, client>>)
  \/ PlayContent /\ Idle(<<vars, office, secrets, mailVars, client>>)
  \/ PlayClient /\ Idle(<<vars, office, secrets, mailVars, texts>>)

sceneVars == <<scene, vars, office, secrets, mailVars, texts, client>>

\* Of the services only the handler of events promises to end.
ServicesSpec == SceneInit /\ [][SceneNext]_sceneVars /\ Fairness
==============================================================================
