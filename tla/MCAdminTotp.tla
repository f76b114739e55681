----------------------------- MODULE MCAdminTotp -----------------------------
(* AdminTotp for TLC: secrets and requests are interchangeable. *)
EXTENDS AdminTotp, TLC

(* One request at a time among resets, or overlapping requests without. *)
OneOrTheOther == {[serial |-> b, resets |-> b] : b \in BOOLEAN}

Sym == Permutations(Secrets) \cup Permutations(Handlers)
==============================================================================
