----------------------------- MODULE MCWasmConn -----------------------------
(* TLC instance of BrowserConn: a queue of four messages and three bytes,  *)
(* so that each limit is reached without the other, over an array that     *)
(* starts with two cells and has to grow and to be compacted.              *)
EXTENDS BrowserConn
=============================================================================
