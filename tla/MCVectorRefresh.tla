---------------------------- MODULE MCVectorRefresh ----------------------------
(* One document, indexed before the script reads it.                          *)
EXTENDS VectorRefresh

CONSTANT d1
==============================================================================
