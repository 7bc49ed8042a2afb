----------------------------- MODULE OutboundMail -----------------------------
(***************************************************************************)
(* EmailService.send: the attempts, the backoff between them and the       *)
(* OutboundEmail row.  An SMTP server may take a mail and still fail to    *)
(* say so.                                                                 *)
(***************************************************************************)
EXTENDS Integers

CONSTANTS SmtpRetries  \* what SMTP_RETRIES may be, 2 unless set

VARIABLES
  transporter, maxRetries,
  mailPc, attempt,
  tries, copies,  \* history: calls of sendMail, and the mails the server took
  lost,           \* history: those of them it did not confirm
  recorded        \* the row of the mail

mailVars == <<transporter, maxRetries, mailPc, attempt, tries, copies, lost, recorded>>

MailInit ==
  /\ transporter \in BOOLEAN /\ maxRetries \in SmtpRetries
  /\ mailPc = "loop" /\ attempt = 1 /\ tries = 0 /\ copies = 0 /\ lost = 0
  /\ recorded = "none"

Attempting == transporter /\ mailPc = "loop" /\ attempt <= maxRetries
\* Nothing left to try, or nothing to try it with.
GivesUp == mailPc = "loop" /\ ~(transporter /\ attempt <= maxRetries)

SendMail ==
  /\ Attempting
  /\ tries' = tries + 1 /\ copies' = copies + 1 /\ mailPc' = "sent"
  /\ UNCHANGED <<transporter, maxRetries, attempt, lost, recorded>>

Backoff == mailPc' = IF attempt < maxRetries THEN "backoff" ELSE "loop"

SendMailRejected ==
  /\ Attempting
  /\ tries' = tries + 1 /\ attempt' = attempt + 1 /\ Backoff
  /\ \E taken \in 0 .. 1 : copies' = copies + taken /\ lost' = lost + taken
  /\ UNCHANGED <<transporter, maxRetries, recorded>>

EndBackoff ==
  /\ mailPc = "backoff" /\ mailPc' = "loop"
  /\ UNCHANGED <<transporter, maxRetries, attempt, tries, copies, lost, recorded>>

\* Mutant: the loop goes on after a mail that was sent.
NoReturn ==
  /\ mailPc = "sent" /\ recorded' \in {"delivered", "none"}
  /\ attempt' = attempt + 1 /\ Backoff
  /\ UNCHANGED <<transporter, maxRetries, tries, copies, lost>>

\* The row is written as well as may be, and not at all if the process dies.
RecordSent ==
  /\ mailPc = "sent" /\ recorded' \in {"delivered", "none"} /\ mailPc' = "delivered"
  /\ UNCHANGED <<transporter, maxRetries, attempt, tries, copies, lost>>

RecordFallback ==
  /\ GivesUp /\ recorded' \in {"undelivered", "none"} /\ mailPc' = "gaveUp"
  /\ UNCHANGED <<transporter, maxRetries, attempt, tries, copies, lost>>

\* Nothing resumes a send.
MailDies ==
  /\ mailPc \in {"loop", "backoff", "sent"} /\ mailPc' = "dead"
  /\ UNCHANGED <<transporter, maxRetries, attempt, tries, copies, lost, recorded>>

MailNext ==
  SendMail \/ SendMailRejected \/ EndBackoff \/ RecordSent \/ RecordFallback \/ MailDies

MailSpec == MailInit /\ [][MailNext]_mailVars

----------------------------------------------------------------------------
(* Properties *)

\* A mail goes out twice only if a server took it without saying so; one that is
\* recorded as undelivered was never confirmed, and one the caller is told of went out
\* (email.service.ts:91, 103, 127).
MailCopies ==
  /\ copies <= lost + 1
  /\ recorded = "undelivered" => copies = lost
  /\ mailPc = "delivered" => copies > lost

==============================================================================
