-------------------------- MODULE MCWebSocketConn ---------------------------
(* TLC instance of WebSocketConn: two writers, messages of up to two bytes *)
(* in one, two or no frames, and a network that takes two frames.          *)
EXTENDS WebSocketConn
=============================================================================
