-------------------------------- MODULE MCChat --------------------------------
(* A question over REST and one over a socket, two deletes, one failure; the   *)
(* second question may go to the conversation the first one opened.            *)
EXTENDS Chat

CONSTANTS a, b, d1, d2, s1

MCVia == [x \in {a, b} |-> IF x = a THEN Rest ELSE s1]
==============================================================================
