---------------------------- MODULE MCLoginLimiter ----------------------------
(* LoginLimiter for TLC: rows and requests are interchangeable. *)
EXTENDS LoginLimiter, TLC

Sym == Permutations(Ids) \cup Permutations(Handlers)
==============================================================================
