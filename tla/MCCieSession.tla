----------------------------- MODULE MCCieSession -----------------------------
(***************************************************************************)
(* CieSession for TLC: two workers, as in entrypoint.sh, and one login     *)
(* attempt.  All counters of the model are bounded by themselves (lives by *)
(* TTL, budgets by Harakiri, histories by the guards).                     *)
(***************************************************************************)
EXTENDS CieSession
==============================================================================
