---------------------------- MODULE MCAbuseGuard ----------------------------
(* TLC instance of AbuseGuard: three requests of three clients (one of     *)
(* them without a host) for two slots, one slot and two attempts a client, *)
(* so that each of the three limits refuses requests the others would let  *)
(* in; a request may wait for the lock for as long as a window lasts.      *)
EXTENDS AbuseGuard, TLC

HandlerSymmetry == Permutations(Handler) \cup Permutations(Host)
=============================================================================
