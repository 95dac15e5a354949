---------------------------- MODULE MCKeepalive -----------------------------
(* TLC instance of Keepalive: all valid configurations and surroundings up *)
(* to the bounds, the ones with just enough room for a pong included.      *)
EXTENDS Keepalive
=============================================================================
