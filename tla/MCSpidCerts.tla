----------------------------- MODULE MCSpidCerts -----------------------------
(* SpidCerts for TLC: certificates and requests are interchangeable. *)
EXTENDS SpidCerts, TLC

Sym == Permutations(Certs) \cup Permutations(Handlers)
==============================================================================
