--------------------------- MODULE MCKnowledgeReads ---------------------------
(* One document, one run and one delete are enough to read a deleted one. *)
EXTENDS KnowledgeReads

CONSTANTS d1, j1, c1, none

MCTarget == [r \in {j1, c1} |-> d1]
==============================================================================
