-------------------------- MODULE MCDocumentPipeline --------------------------
(***************************************************************************)
(* One document, two runs of processDocument and a delete, all of which    *)
(* may overlap, with one rejected call or restart anywhere.  A page of one *)
(* point makes the listing of a delete fall short of two.                  *)
(***************************************************************************)
EXTENDS DocumentPipeline

CONSTANTS d1, j1, j2, c1, none

MCTarget == [r \in {j1, j2, c1} |-> d1]
==============================================================================
