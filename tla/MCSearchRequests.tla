--------------------------- MODULE MCSearchRequests ----------------------------
(* One document of one organization, which contains one word.                 *)
EXTENDS SearchRequests

CONSTANTS o1, w1, d1

MCOwner    == [d \in Papers |-> o1]
MCMentions == {<<d1, w1>>}
==============================================================================
