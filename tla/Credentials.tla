------------------------------ MODULE Credentials ------------------------------
(***************************************************************************)
(* The credentials of one connector: EncryptionService with its numbered   *)
(* keys on several instances, the ConnectorsService calls that encrypt and *)
(* decrypt, and the rotation of the keys.  A text is the credentials       *)
(* somebody entered under as many layers of encryption as it was put, the  *)
(* outermost first.                                                        *)
(***************************************************************************)
EXTENDS Integers, SequencesExt

CONSTANTS
  Instances,
  MaxKeys,    \* keys ever deployed
  MaxLayers   \* bound on what is encrypted again

VARIABLES
  deployed,     \* ENCRYPTION_KEYS and then ENCRYPTION_KEY, as they are configured
  newest,       \* the last key ever made
  keys,         \* of each instance, as it read them when it started
  row,          \* Connector.credentials
  screen,       \* what a client has before it
  moved,        \* history: the row is numbered by keys of which the oldest is gone
  spoilt        \* history: what was saved was no secret to begin with

credentialVars == <<deployed, newest, keys, row, screen, moved, spoilt>>

Entered == <<>>
\* Rows from before the versions have none; 0 stands for it.
Unversioned(k) == [version |-> 0, key |-> k]

CredentialsInit ==
  /\ deployed = <<1>> /\ newest = 1 /\ keys = [n \in Instances |-> deployed]
  /\ row = <<Unversioned(1)>>
  /\ screen = [text |-> Entered, good |-> TRUE] /\ moved = FALSE /\ spoilt = FALSE

Encrypt(ks, text) == <<[version |-> Len(ks), key |-> Last(ks)]>> \o text

\* Mutant: the versions are counted from the newest key.
OpensFromNewest(ks, layer) ==
  IF layer.version = 0 THEN layer.key \in Range(ks)
  ELSE layer.version \in DOMAIN ks /\ ks[Len(ks) - layer.version + 1] = layer.key

\* A versioned text is tried with that key alone, any other with each.
Opens(ks, layer) ==
  IF layer.version = 0 THEN layer.key \in Range(ks)
  ELSE layer.version \in DOMAIN ks /\ ks[layer.version] = layer.key

\* What cannot be decrypted is returned as it is.
TryDecrypt(ks, text) ==
  IF text # Entered /\ Opens(ks, Head(text)) THEN Tail(text) ELSE text

Expose(n) == TryDecrypt(keys[n], row)

\* Reasons to find the row closed: the instance has not been started since the key was
\* made, or the key has been dropped, or the numbers have moved.
Excused(n) ==
  \/ spoilt
  \/ Head(row).key \notin Range(keys[n])
  \/ Head(row).version # 0 /\ (moved \/ Head(keys[n]) # Head(deployed))

----------------------------------------------------------------------------

\* The current key goes to the end of ENCRYPTION_KEYS and a new one takes its place.
Rotate ==
  /\ newest < MaxKeys /\ newest' = newest + 1 /\ deployed' = Append(deployed, newest + 1)
  /\ UNCHANGED <<keys, row, screen, moved, spoilt>>

\* The oldest key is taken from ENCRYPTION_KEYS.
Compact ==
  /\ Len(deployed) > 1 /\ deployed' = Tail(deployed) /\ moved' = TRUE
  /\ UNCHANGED <<newest, keys, row, screen, spoilt>>

Start(n) ==
  /\ keys' = [keys EXCEPT ![n] = deployed]
  /\ UNCHANGED <<deployed, newest, row, screen, moved, spoilt>>

\* findById or findAll.
Read(n) ==
  /\ screen' = [text |-> Expose(n), good |-> ~Excused(n)]
  /\ UNCHANGED <<deployed, newest, keys, row, moved, spoilt>>

Save(n, text, good) ==
  /\ Len(text) < MaxLayers
  /\ row' = Encrypt(keys[n], text)
  /\ moved' = (Head(keys[n]) # Head(deployed)) /\ spoilt' = ~good
  /\ UNCHANGED <<deployed, newest, keys>>

\* create, and an update with new credentials.  The answer is the row as it is stored.
Enter(n) ==
  /\ Save(n, Entered, TRUE) /\ screen' = [text |-> row', good |-> FALSE]

\* update with what the client has before it, which is also how a row is encrypted anew.
PutBack(n) ==
  /\ Save(n, screen.text, screen.good) /\ screen' = [text |-> row', good |-> FALSE]

CredentialsNext ==
  \/ Rotate \/ Compact
  \/ \E n \in Instances : Start(n) \/ Read(n) \/ Enter(n) \/ PutBack(n)

CredentialsSpec == CredentialsInit /\ [][CredentialsNext]_credentialVars

----------------------------------------------------------------------------
(* Properties *)

\* Instances that start with the new keys one after another, rotation and encryption
\* anew never cost a connector its credentials: whoever reads them is shown what was
\* entered, unless a key the row needs is missing on that instance, the numbers of the
\* keys have moved since the row was written, or a client had put back a ciphertext it
\* was shown for credentials (encryption.service.ts:80, 101).
CredentialsReadable == \A n \in Instances : Excused(n) \/ Expose(n) = Entered

==============================================================================
