------------------------- MODULE MCConnectorAdapters ---------------------------
(* Each adapter against a service of three entries, any of them folders where  *)
(* the service has folders; pages shorter than, as long as and longer than the *)
(* limit; one failure and one change of the service at any moment.             *)
EXTENDS ConnectorAdapters

CONSTANTS e1, e2, e3, e4, c1
==============================================================================
