--------------------------- MODULE MCBridgeClient ---------------------------
(* Small instances of BridgeClient for TLC. *)
EXTENDS BridgeClient

CONSTANTS c1, c2, s1
=============================================================================
