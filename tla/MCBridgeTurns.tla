--------------------------- MODULE MCBridgeTurns ---------------------------
(* BridgeTurns on small instances.                                         *)
EXTENDS BridgeTurns
=============================================================================
