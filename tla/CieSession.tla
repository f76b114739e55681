------------------------------ MODULE CieSession ------------------------------
(***************************************************************************)
(* The CIE OIDC login session kept in Redis, and the uWSGI workers that    *)
(* create it (authorization endpoint) and redeem it (callback endpoint).   *)
(*                                                                         *)
(* Every Redis command is one step, so the steps of two workers serving    *)
(* the same `state` interleave as the commands do.  Three keys belong to a *)
(* login attempt s:                                                        *)
(*     cie:sess:<id>    the OidcAuthentication document                    *)
(*     cie:state:<s>    the pointer from `state` to <id>                   *)
(*     cie:used:<s>     the single-use marker written with SET NX          *)
(* Each is modelled by the half seconds it still has to live; 0 is "no     *)
(* such key".  Redis answers TTL in whole seconds, rounded, and EX takes   *)
(* whole seconds: that is why the clock ticks in half seconds.             *)
(*                                                                         *)
(* `state` and <id> are random and drawn together, one document per state, *)
(* so a login attempt is named by its `state`.                             *)
(***************************************************************************)
EXTENDS Integers, FiniteSets

CONSTANTS
    States,    \* the `state` values of the login attempts
    Workers,   \* the uWSGI workers (each serves one request at a time)
    TTL,       \* session lifetime in seconds (init_params.ttl)
    Harakiri   \* half seconds a request may run before uWSGI kills it

ASSUME TTLAssumption == TTL \in Nat \ {0}
ASSUME HarakiriAssumption == Harakiri \in Nat \ {0}
ASSUME WorkersAssumption == IsFiniteSet(Workers)

VARIABLES
    sessLeft,  \* life of cie:sess, per state
    sessDoc,   \* the document under cie:sess (meaningful while it lives)
    ptrLeft,   \* life of cie:state
    usedLeft,  \* life of cie:used
    pc,        \* where the request of each worker is
    st,        \* the `state` it is about
    ttl,       \* the last TTL reply it holds
    doc,       \* the document it holds in memory
    budget,    \* half seconds left before harakiri
    answer,    \* what its last request answered
    (* history *)
    issued,    \* the states drawn so far
    wins,      \* how many requests consume_session gave the session to
    logins,    \* how many requests reached the SATOSA auth callback
    lapsed,    \* a marker was set that its request could outlive
    faults     \* whether requests may fail, be killed, and Redis restart

keys    == <<sessLeft, sessDoc, ptrLeft, usedLeft>>
request == <<pc, st, ttl, doc, budget, answer>>
history == <<issued, wins, logins, lapsed, faults>>
vars    == <<keys, request, history>>

------------------------------------------------------------------------------
(* The OidcAuthentication document: `token` stands for code and access_token, *)
(* written together.                                                          *)
Documents == [completed : BOOLEAN, token : BOOLEAN, user : BOOLEAN]
Fresh     == [completed |-> FALSE, token |-> FALSE, user |-> FALSE]

(* authorization_already_used, and the same test inside consume_session *)
Used(d) == d.completed \/ d.token \/ d.user

Completed(d) == [completed |-> TRUE, token |-> d.token, user |-> d.user]

(* The TTL of a key with `left` half seconds to live.  Redis rounds to the   *)
(* nearest second: a key in its last half second may answer 0 or 1.  A dead  *)
(* key answers -2, which the code treats like 0.                             *)
TtlReplies(left) == {t \in 0..left : left <= 2 * t + 1 /\ 2 * t <= left + 1}

(* `ttl if ttl > 0 else self._ttl`, in half seconds *)
Expiry(t) == 2 * (IF t > 0 THEN t ELSE TTL)

(* An open document: consume_session would still hand it out. *)
Open(s) == sessLeft[s] > 0 /\ ~Used(sessDoc[s])

(* A request between winning SET NX and storing completed = True ... *)
Claiming == {"read", "mark", "mark_set"}
(* ... and the part of it that already holds an open document. *)
Holding == {"mark", "mark_set"}
(* A request whose session is consumed: it redeems the code. *)
Redeeming == {"redeem", "token", "token_set", "userinfo", "user", "user_set", "login"}

Pcs == {"idle", "pointer", "lookup", "ttl", "claim", "again", "inspect"}
         \cup Claiming \cup Redeeming
Answers == {"none", "redirected", "login", "used", "empty", "failed"}

TypeOK ==
    /\ sessLeft \in [States -> Nat]
    /\ sessDoc \in [States -> Documents]
    /\ ptrLeft \in [States -> Nat]
    /\ usedLeft \in [States -> Nat]
    /\ pc \in [Workers -> Pcs]
    /\ st \in [Workers -> States]
    /\ ttl \in [Workers -> Nat]
    /\ doc \in [Workers -> Documents]
    /\ budget \in [Workers -> Nat]
    /\ answer \in [Workers -> Answers]
    /\ issued \subseteq States
    /\ wins \in [States -> Nat]
    /\ logins \in [States -> Nat]
    /\ lapsed \in [States -> BOOLEAN]
    /\ faults \in BOOLEAN

Init ==
    /\ sessLeft = [s \in States |-> 0]
    /\ sessDoc = [s \in States |-> Fresh]
    /\ ptrLeft = [s \in States |-> 0]
    /\ usedLeft = [s \in States |-> 0]
    /\ pc = [w \in Workers |-> "idle"]
    /\ st \in [Workers -> States]
    /\ ttl = [w \in Workers |-> 0]
    /\ doc = [w \in Workers |-> Fresh]
    /\ budget = [w \in Workers |-> 0]
    /\ answer = [w \in Workers |-> "none"]
    /\ issued = {}
    /\ wins = [s \in States |-> 0]
    /\ logins = [s \in States |-> 0]
    /\ lapsed = [s \in States |-> FALSE]
    /\ faults \in BOOLEAN

------------------------------------------------------------------------------
(* Steps of a request.  Goto moves worker w on; End answers and frees it.  *)
Goto(w, label) == pc' = [pc EXCEPT ![w] = label]

End(w, what) ==
    /\ pc' = [pc EXCEPT ![w] = "idle"]
    /\ answer' = [answer EXCEPT ![w] = what]
    /\ doc' = [doc EXCEPT ![w] = Fresh]
    /\ ttl' = [ttl EXCEPT ![w] = 0]
    /\ budget' = [budget EXCEPT ![w] = 0]

Begin(w, s, label) ==
    /\ pc[w] = "idle"
    /\ pc' = [pc EXCEPT ![w] = label]
    /\ st' = [st EXCEPT ![w] = s]
    /\ budget' = [budget EXCEPT ![w] = Harakiri]
    /\ answer' = [answer EXCEPT ![w] = "none"]

(* AuthorizationHandler.endpoint: a new state; add_session SETs the document *)
(* first and the pointer second.                                             *)
AddDocument(w, s) ==
    /\ s \notin issued
    /\ Begin(w, s, "pointer")
    /\ issued' = issued \cup {s}
    /\ sessLeft' = [sessLeft EXCEPT ![s] = 2 * TTL]
    /\ sessDoc' = [sessDoc EXCEPT ![s] = Fresh]
    /\ UNCHANGED <<ptrLeft, usedLeft, ttl, doc, wins, logins, lapsed, faults>>

AddPointer(w) ==
    /\ pc[w] = "pointer"
    /\ ptrLeft' = [ptrLeft EXCEPT ![st[w]] = 2 * TTL]
    /\ End(w, "redirected")
    /\ UNCHANGED <<sessLeft, sessDoc, usedLeft, st, history>>

(* The callback endpoint is called with `state` s: by the user's browser, or *)
(* again (a reload, a replayed URL), or with a state this proxy never drew.  *)
Callback(w, s) ==
    /\ Begin(w, s, "lookup")
    /\ UNCHANGED <<keys, ttl, doc, history>>

(* With an `error` parameter (_handle_idp_error), or when the SATOSA cookie  *)
(* is gone (_handle_lost_state), it answers without touching the session.    *)
CallbackRefused(w, s) ==
    /\ pc[w] = "idle"
    /\ st' = [st EXCEPT ![w] = s]
    /\ End(w, "failed")
    /\ UNCHANGED <<keys, history>>

(* consume_session: GET cie:state *)
LookupPointer(w) ==
    /\ pc[w] = "lookup"
    /\ Goto(w, IF ptrLeft[st[w]] > 0 THEN "ttl" ELSE "again")
    /\ UNCHANGED <<keys, st, ttl, doc, budget, answer, history>>

AfterTtl == [ttl |-> "claim", mark |-> "mark_set", token |-> "token_set", user |-> "user_set"]

(* TTL cie:sess, in consume_session and in each of the update_session calls *)
ReadTtl(w) ==
    /\ pc[w] \in DOMAIN AfterTtl
    /\ \E t \in TtlReplies(sessLeft[st[w]]) : ttl' = [ttl EXCEPT ![w] = t]
    /\ Goto(w, AfterTtl[pc[w]])
    /\ UNCHANGED <<keys, st, doc, budget, answer, history>>

(* Mutant: SET without NX. *)
WinMarkerNoNX(w) ==
    /\ pc[w] = "claim"
    /\ usedLeft' = [usedLeft EXCEPT ![st[w]] = Expiry(ttl[w])]
    /\ lapsed' = [lapsed EXCEPT ![st[w]] = @ \/ Expiry(ttl[w]) <= budget[w]]
    /\ ttl' = [ttl EXCEPT ![w] = 0]
    /\ Goto(w, "read")
    /\ UNCHANGED <<sessLeft, sessDoc, ptrLeft, st, doc, budget, answer,
                   issued, wins, logins, faults>>

(* Mutant: the reply of SET NX is read the wrong way round. *)
WinMarkerMisread(w) ==
    /\ pc[w] = "claim"
    /\ usedLeft[st[w]] = 0
    /\ usedLeft' = [usedLeft EXCEPT ![st[w]] = Expiry(ttl[w])]
    /\ lapsed' = [lapsed EXCEPT ![st[w]] = @ \/ Expiry(ttl[w]) <= budget[w]]
    /\ ttl' = [ttl EXCEPT ![w] = 0]
    /\ Goto(w, "again")
    /\ UNCHANGED <<sessLeft, sessDoc, ptrLeft, st, doc, budget, answer,
                   issued, wins, logins, faults>>

(* SET cie:used NX EX: only one caller gets it while the marker lives. *)
WinMarker(w) ==
    /\ pc[w] = "claim"
    /\ usedLeft[st[w]] = 0
    /\ usedLeft' = [usedLeft EXCEPT ![st[w]] = Expiry(ttl[w])]
    /\ lapsed' = [lapsed EXCEPT ![st[w]] = @ \/ Expiry(ttl[w]) <= budget[w]]
    /\ ttl' = [ttl EXCEPT ![w] = 0]      \* not used again
    /\ Goto(w, "read")
    /\ UNCHANGED <<sessLeft, sessDoc, ptrLeft, st, doc, budget, answer,
                   issued, wins, logins, faults>>

(* Mutant: the loser of the marker goes on with the session it looked up. *)
LoseMarkerGoesOn(w) ==
    /\ pc[w] = "claim"
    /\ usedLeft[st[w]] > 0
    /\ ttl' = [ttl EXCEPT ![w] = 0]
    /\ Goto(w, "redeem")
    /\ UNCHANGED <<keys, st, doc, budget, answer, history>>

LoseMarker(w) ==
    /\ pc[w] = "claim"
    /\ usedLeft[st[w]] > 0
    /\ ttl' = [ttl EXCEPT ![w] = 0]
    /\ Goto(w, "again")
    /\ UNCHANGED <<keys, st, doc, budget, answer, history>>

(* Mutant: consume_session stores the session without marking it. *)
ReadOpenUnmarked(w) ==
    /\ pc[w] = "read"
    /\ Open(st[w])
    /\ doc' = [doc EXCEPT ![w] = sessDoc[st[w]]]
    /\ Goto(w, "mark")
    /\ UNCHANGED <<keys, st, ttl, budget, answer, history>>

(* GET cie:sess; an open document is marked completed in memory ... *)
ReadOpen(w) ==
    /\ pc[w] = "read"
    /\ Open(st[w])
    /\ doc' = [doc EXCEPT ![w] = Completed(sessDoc[st[w]])]
    /\ Goto(w, "mark")
    /\ UNCHANGED <<keys, st, ttl, budget, answer, history>>

(* ... and a used or missing one is not handed out. *)
ReadClosed(w) ==
    /\ pc[w] = "read"
    /\ ~Open(st[w])
    /\ Goto(w, "again")
    /\ UNCHANGED <<keys, st, ttl, doc, budget, answer, history>>

AfterStore == [mark_set |-> "redeem", token_set |-> "userinfo", user_set |-> "login"]

(* update_session: SET cie:sess with the life read before.  The first one    *)
(* stores completed = True and ends consume_session: its caller has won.     *)
StoreDocument(w) ==
    /\ pc[w] \in DOMAIN AfterStore
    /\ sessLeft' = [sessLeft EXCEPT ![st[w]] = Expiry(ttl[w])]
    /\ sessDoc' = [sessDoc EXCEPT ![st[w]] = doc[w]]
    /\ wins' = IF pc[w] = "mark_set" THEN [wins EXCEPT ![st[w]] = @ + 1] ELSE wins
    /\ Goto(w, AfterStore[pc[w]])
    /\ ttl' = [ttl EXCEPT ![w] = 0]
    /\ UNCHANGED <<ptrLeft, usedLeft, st, doc, budget, answer, issued, logins,
                   lapsed, faults>>

(* The token endpoint answered and every check on the tokens passed. *)
Redeem(w) ==
    /\ pc[w] = "redeem"
    /\ doc' = [doc EXCEPT ![w].token = TRUE]
    /\ Goto(w, "token")
    /\ UNCHANGED <<keys, st, ttl, budget, answer, history>>

(* The userinfo endpoint answered and the attributes make a user. *)
FetchUser(w) ==
    /\ pc[w] = "userinfo"
    /\ doc' = [doc EXCEPT ![w].user = TRUE]
    /\ Goto(w, "user")
    /\ UNCHANGED <<keys, st, ttl, budget, answer, history>>

(* _auth_callback: SATOSA answers the OIDC client. *)
Login(w) ==
    /\ pc[w] = "login"
    /\ logins' = [logins EXCEPT ![st[w]] = @ + 1]
    /\ End(w, "login")
    /\ UNCHANGED <<keys, st, issued, wins, lapsed, faults>>

(* consume_session gave nothing: get_sessions tells "used" from "empty". *)
LookAgain(w) ==
    /\ pc[w] = "again"
    /\ ptrLeft[st[w]] > 0
    /\ Goto(w, "inspect")
    /\ UNCHANGED <<keys, st, ttl, doc, budget, answer, history>>

PointerGone(w) ==
    /\ pc[w] = "again"
    /\ ptrLeft[st[w]] = 0
    /\ End(w, "empty")
    /\ UNCHANGED <<keys, st, history>>

(* Mutant: the marker is taken for a used session. *)
InspectMarker(w) ==
    /\ pc[w] = "inspect"
    /\ End(w, IF usedLeft[st[w]] > 0 THEN "used" ELSE "empty")
    /\ UNCHANGED <<keys, st, history>>

Inspect(w) ==
    /\ pc[w] = "inspect"
    /\ End(w, IF sessLeft[st[w]] > 0 /\ Used(sessDoc[st[w]]) THEN "used" ELSE "empty")
    /\ UNCHANGED <<keys, st, history>>

(* A remote call times out, a token check fails or the attributes make no    *)
(* user: the endpoint raises and leaves the session as it is.                *)
Fail(w) ==
    /\ faults
    /\ pc[w] \in {"redeem", "userinfo"}
    /\ End(w, "failed")
    /\ UNCHANGED <<keys, st, history>>

(* The request stops anywhere: harakiri, reload, crash or a Redis error. *)
Kill(w) ==
    /\ faults
    /\ pc[w] # "idle"
    /\ End(w, "failed")
    /\ UNCHANGED <<keys, st, history>>

(* Redis has no persistence: a restart loses every key. *)
RedisRestart ==
    /\ faults
    /\ sessLeft' = [s \in States |-> 0]
    /\ ptrLeft' = [s \in States |-> 0]
    /\ usedLeft' = [s \in States |-> 0]
    /\ UNCHANGED <<sessDoc, request, history>>

(* Mutant: a life that is over goes on counting. *)
DownForever(n) == n - 1

(* Half a second passes.  Harakiri: no request is still running when its    *)
(* budget is spent.                                                          *)
Down(n) == IF n > 0 THEN n - 1 ELSE 0

Tick ==
    /\ \A w \in Workers : pc[w] # "idle" => budget[w] > 0
    /\ sessLeft' = [s \in States |-> Down(sessLeft[s])]
    /\ ptrLeft' = [s \in States |-> Down(ptrLeft[s])]
    /\ usedLeft' = [s \in States |-> Down(usedLeft[s])]
    /\ budget' = [w \in Workers |-> Down(budget[w])]
    /\ UNCHANGED <<sessDoc, pc, st, ttl, doc, answer, history>>

Step(w) ==
    \/ AddPointer(w)
    \/ LookupPointer(w) \/ ReadTtl(w) \/ WinMarker(w) \/ LoseMarker(w)
    \/ ReadOpen(w) \/ ReadClosed(w) \/ StoreDocument(w)
    \/ Redeem(w) \/ FetchUser(w) \/ Login(w)
    \/ LookAgain(w) \/ PointerGone(w) \/ Inspect(w)

Next ==
    \/ \E w \in Workers, s \in States :
          AddDocument(w, s) \/ Callback(w, s) \/ CallbackRefused(w, s)
    \/ \E w \in Workers : Step(w) \/ Fail(w) \/ Kill(w)
    \/ RedisRestart
    \/ Tick

Spec == Init /\ [][Next]_vars

(* A worker that serves a request goes on with it.  Neither the users nor   *)
(* the clock owe the system anything.                                        *)
FairSpec == Spec /\ \A w \in Workers : WF_vars(Step(w))

(* What OneTimeLogin promises, in terms of this module's history. *)
OneTime == INSTANCE OneTimeLogin WITH
    drawn <- issued, redeemed <- wins, answered <- logins, void <- lapsed

------------------------------------------------------------------------------
(* One login attempt is handed out once: of all the callbacks with the same *)
(* state, over all workers, at most one gets the session from                *)
(* consume_session, as long as no marker lapsed before its request ended.    *)
SingleUse == \A s \in States : ~lapsed[s] => wins[s] <= 1

(* The docstring of consume_session without the proviso: only the first     *)
(* caller gets the session.                                                  *)
OnlyFirstCallerWins == \A s \in States : wins[s] <= 1

(* A stored document that was used is never replaced by one that is open:   *)
(* "completed" stays True at every later update, whatever request writes     *)
(* and however late.                                                         *)
NeverReopened ==
    [][\A s \in States :
          sessLeft[s] > 0 /\ Used(sessDoc[s]) /\ sessLeft'[s] > 0
            => sessDoc'[s].completed]_vars

(* A request that is told "already used" was beaten by another one that did *)
(* consume the session: a lost or killed claim never reads as a used login.  *)
UsedMeansConsumed ==
    \A w \in Workers : answer[w] = "used" => wins[st[w]] > 0

(* Tokens and user data reach Redis only for a login that was consumed, and *)
(* no login is completed that was not.                                       *)
TokensOnlyIfConsumed ==
    \A s \in States :
       /\ sessLeft[s] > 0 /\ (sessDoc[s].token \/ sessDoc[s].user) => wins[s] > 0
       /\ logins[s] <= wins[s]

(* When nothing fails the single-use marker locks nobody out: once it is    *)
(* set the login completes, or the session was already at its end.           *)
MarkerLeadsToLogin ==
    \A s \in States :
       usedLeft[s] > 0 ~> (logins[s] > 0 \/ sessLeft[s] = 0 \/ faults)

(* The store and the callbacks implement the one-time login: every step of  *)
(* the workers is a step of OneTimeLogin or invisible to it.                 *)
ImplementsOneTimeLogin == OneTime!Spec
==============================================================================
