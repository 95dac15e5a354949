-------------------------- MODULE MCBridgeSession ---------------------------
(* TLC instance of BridgeSession: two requests, of one client or of two,   *)
(* that compete for the client's one slot and its one attempt per window.  *)
EXTENDS BridgeSession
=============================================================================
