--------------------------- MODULE MCClientSession ----------------------------
(* Two requests, a logout, one lost answer, and a server that answers 429   *)
(* at the third refusal.                                                      *)
EXTENDS ClientSession

CONSTANTS q1, q2
==============================================================================
