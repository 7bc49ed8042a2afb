-------------------------- MODULE DocumentLifecycle --------------------------
(***************************************************************************)
(* What a user of GET /documents is promised about a document, whatever    *)
(* happens behind it: it appears as PENDING, shows an outcome only after   *)
(* it showed PROCESSING, may be processed again, and once deleted is never *)
(* shown again.  DocumentPipeline is shown to implement this.              *)
(***************************************************************************)
CONSTANT Docs

VARIABLE shown   \* shown[d]: the status findAll and findById report for d

Outcomes == {"INDEXED", "FAILED"}
Visible  == {"PENDING", "PROCESSING"} \cup Outcomes

LInit == shown = [d \in Docs |-> "absent"]

Show(d, from, to) ==
  /\ shown[d] \in from
  /\ shown' = [shown EXCEPT ![d] = to]

Appear(d) == Show(d, {"absent"}, "PENDING")
Begin(d)  == Show(d, Visible, "PROCESSING")
Settle(d) == \E s \in Outcomes : Show(d, Visible \ {"PENDING"}, s)
Hide(d)   == Show(d, Visible, "gone")

LNext == \E d \in Docs : Appear(d) \/ Begin(d) \/ Settle(d) \/ Hide(d)

LSpec == LInit /\ [][LNext]_shown
==============================================================================
