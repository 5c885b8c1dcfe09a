--------------------------- MODULE MCPop3Download ---------------------------
(* Small instances of Pop3Download. *)
EXTENDS Pop3Download

CONSTANTS small, big
=============================================================================
