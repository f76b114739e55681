------------------------------ MODULE MCSamlFlow ------------------------------
(* SamlFlow for TLC: tabs and AuthnRequests are interchangeable. *)
EXTENDS SamlFlow, TLC

Sym == Permutations(Tabs) \cup Permutations(Ids)
==============================================================================
