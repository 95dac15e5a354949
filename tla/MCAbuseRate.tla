---------------------------- MODULE MCAbuseRate -----------------------------
(* TLC instance of AbuseRate: one key, so that all attempts compete for    *)
(* one budget.                                                             *)
EXTENDS AbuseRate, TLC

HandlerSymmetry == Permutations(Handler)
=============================================================================
