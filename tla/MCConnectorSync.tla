--------------------------- MODULE MCConnectorSync ----------------------------
(* Two runs over two items, a deletion, two failures.                         *)
EXTENDS ConnectorSync

CONSTANTS r1, r2, i1, i2
==============================================================================
