----------------------------- MODULE OneTimeLogin -----------------------------
(***************************************************************************)
(* What the session store promises to the login flow, without workers,     *)
(* keys or clocks: a login attempt is drawn once, its session is redeemed   *)
(* at most once, and the OIDC client is answered at most once and only      *)
(* for a redeemed session.  The promise for an attempt is void once its     *)
(* single-use marker was set for less time than its request may run.        *)
(***************************************************************************)
EXTENDS Naturals

CONSTANT States   \* the login attempts

VARIABLES
    drawn,     \* the attempts started so far
    redeemed,  \* how often the session of each attempt was handed out
    answered,  \* how often its client got a login
    void       \* the promise does not cover this attempt

vars == <<drawn, redeemed, answered, void>>

Init ==
    /\ drawn = {}
    /\ redeemed = [s \in States |-> 0]
    /\ answered = [s \in States |-> 0]
    /\ void = [s \in States |-> FALSE]

Draw(s) ==
    /\ s \notin drawn
    /\ drawn' = drawn \cup {s}
    /\ UNCHANGED <<redeemed, answered, void>>

Void(s) ==
    /\ s \in drawn
    /\ void' = [void EXCEPT ![s] = TRUE]
    /\ UNCHANGED <<drawn, redeemed, answered>>

Redeem(s) ==
    /\ s \in drawn
    /\ void[s] \/ redeemed[s] = 0
    /\ redeemed' = [redeemed EXCEPT ![s] = @ + 1]
    /\ UNCHANGED <<drawn, answered, void>>

Answer(s) ==
    /\ redeemed[s] > 0
    /\ void[s] \/ answered[s] = 0
    /\ answered' = [answered EXCEPT ![s] = @ + 1]
    /\ UNCHANGED <<drawn, redeemed, void>>

Next == \E s \in States : Draw(s) \/ Void(s) \/ Redeem(s) \/ Answer(s)

Spec == Init /\ [][Next]_vars
==============================================================================
