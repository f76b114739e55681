------------------------------- MODULE SamlFlow -------------------------------
(***************************************************************************)
(* The SPID and eIDAS login of one browser: the OIDC request of a client,  *)
(* the choice of a provider (authn_request) and the provider's answer      *)
(* (authn_response).                                                       *)
(*                                                                         *)
(* The proxy keeps nothing between these requests: the generated           *)
(* configuration allows unsolicited responses, so outstanding_queries is   *)
(* not used, and all there is to match an answer with is the cookie of     *)
(* SATOSA.  Every request carries a copy of it and every response          *)
(* replaces it, so that overlapping requests of two tabs overwrite each    *)
(* other's.  A user can send an answer again, go back to an old page, drop *)
(* a login and begin another one.                                          *)
(*                                                                         *)
(* The ACS index, the level asked for and the texts of errors are left out *)
(* (the index of a company is asked for together with Purpose=PG).         *)
(***************************************************************************)
EXTENDS FiniteSets

CONSTANTS
    Tabs,    \* the tabs of the browser
    Logins,  \* OIDC requests
    Legal,   \* those with the scope legal_entity
    Ids,     \* ids of AuthnRequests (a bound); each has its own relay state
    None

ASSUME LegalAssumption == Legal \subseteq Logins
ASSUME NoneAssumption == None \notin Logins \cup Ids

VARIABLES
    jar,     \* the cookie in the browser
    flight,  \* the request each tab waits for
    sent,    \* AuthnRequest, per id
    codes,   \* logins that an answer has completed, per id (history)
    prior,   \* ids that were out when a login began (history)
    raced,   \* two requests of the browser have overlapped (history)
    again,   \* until then: ids whose answers have completed a login twice
    newest   \* until then: the AuthnRequest the browser got last

program == <<jar, flight, sent>>
history == <<codes, prior, raced, again, newest>>
vars == <<program, history>>

------------------------------------------------------------------------------
(* What the backend reads of the cookie: the OIDC request, and the id of the *)
(* AuthnRequest with its relay state (req_args is written with the relay     *)
(* state and not looked at without it).                                      *)
Jars == [login : Logins \cup {None}, saml : Ids \cup {None}]

Empty == [login |-> None, saml |-> None]

Idps == {"spid", "eidas"}

(* AuthnRequests; pg says that it has the extension Purpose=PG. *)
Requests == [login : Logins \cup {None}, idp : Idps, pg : BOOLEAN]

ASSUME RequestAssumption == None \notin Requests

(* Requests of a tab, each with the cookie as it was. *)
Idle == [op |-> "none", jar |-> Empty, arg |-> None]

Flights ==
    {Idle} \cup [op : {"authorize"}, jar : Jars, arg : Logins]
           \cup [op : {"choose"}, jar : Jars, arg : Idps]
           \cup [op : {"answer"}, jar : Jars, arg : Ids]

TypeOK ==
    /\ jar \in Jars
    /\ flight \in [Tabs -> Flights]
    /\ sent \in [Ids -> Requests \cup {None}]
    /\ codes \in [Ids -> SUBSET Logins]
    /\ again \subseteq Ids
    /\ prior \in [Logins -> SUBSET Ids]
    /\ newest \in Ids \cup {None}
    /\ raced \in BOOLEAN

Init ==
    /\ jar = Empty
    /\ flight = [t \in Tabs |-> Idle]
    /\ sent = [i \in Ids |-> None]
    /\ codes = [i \in Ids |-> {}]
    /\ again = {}
    /\ prior = [l \in Logins |-> {}]
    /\ newest = None
    /\ raced = FALSE

------------------------------------------------------------------------------
(* A tab sends a request with the cookie of the moment. *)
Waiting(t) == flight[t].op # "none"

Send(t, op, arg) ==
    /\ ~Waiting(t)
    /\ flight' = [flight EXCEPT ![t] = [op |-> op, jar |-> jar, arg |-> arg]]
    /\ raced' = (raced \/ \E u \in Tabs : Waiting(u))
    /\ again' = IF raced' THEN {} ELSE again
    /\ newest' = IF raced' THEN None ELSE newest
    /\ UNCHANGED <<jar, sent, codes, prior>>

(* The client sends the user to the proxy, which shows the discovery page.   *)
Authorize(t, l) == Send(t, "authorize", l)

(* A provider is chosen on a discovery page, which may be an old one ...     *)
Choose(t, idp) == Send(t, "choose", idp)

(* ... and its answer posted, possibly not for the first time.               *)
Answer(t, i) == sent[i] # None /\ Send(t, "answer", i)

(* The response arrives with its cookie. *)
Respond(t, op, j) ==
    /\ flight[t].op = op
    /\ flight' = [flight EXCEPT ![t] = Idle]
    /\ jar' = j
    /\ UNCHANGED raced

(* Or it never does: whatever the proxy made of the request stays unused.    *)
Lose(t) ==
    /\ Waiting(t)
    /\ flight' = [flight EXCEPT ![t] = Idle]
    /\ UNCHANGED <<jar, sent, history>>

(* The frontend puts the OIDC request in the cookie. *)
Authorized(t) ==
    LET j == flight[t].jar
        l == flight[t].arg
    IN /\ Respond(t, "authorize", [j EXCEPT !.login = l])
       /\ prior' = [prior EXCEPT ![l] = @ \cup {i \in Ids : sent[i] # None}]
       /\ UNCHANGED <<sent, codes, again, newest>>

------------------------------------------------------------------------------
(* authn_request.  _legal_entity_requested reads the cookie of the request.  *)
LegalRequested(j) == j.login \in Legal

(* Mutant: the guard left to the discovery page. *)
MayAskAny(j, idp) == TRUE

(* Not eIDAS for a company.  Without an eIDAS provider ficep_entity_id is    *)
(* not configured and the comparison fails, but nor do the metadata have it. *)
MayAsk(j, idp) == ~(LegalRequested(j) /\ idp = "eidas")

(* Mutant: a relay state already in the cookie is kept. *)
AskedOnce(j, i) == IF j.saml = None THEN [j EXCEPT !.saml = i] ELSE j

(* Mutant: the state is replaced, not extended. *)
AskedOver(j, i) == [saml |-> i]

(* The relay state and req_args replace those of an earlier request.         *)
Asked(j, i) == [j EXCEPT !.saml = i]

Ask(t) ==
    LET j == flight[t].jar
        idp == flight[t].arg
    IN \E i \in Ids :
          /\ sent[i] = None
          /\ Respond(t, "choose", Asked(j, i))
          /\ MayAsk(j, idp)
          /\ sent' = [sent EXCEPT ![i] =
                         [login |-> j.login, idp |-> idp, pg |-> LegalRequested(j)]]
          /\ newest' = IF raced THEN None ELSE i
          /\ UNCHANGED <<codes, again, prior>>

(* Refused, blacklisted or failed: an error page, or an error to the client. *)
NotAsked(t) ==
    /\ Respond(t, "choose", flight[t].jar)
    /\ UNCHANGED <<sent, codes, again, prior, newest>>

------------------------------------------------------------------------------
(* authn_response.                                                           *)

(* Mutant: the state is there, but what is in it is not compared. *)
MatchesAny(j, i) == j.saml # None

(* RelayState is the cookie's and in_response_to is that of req_args.        *)
Matches(j, i) == j.saml = i

(* Mutant: the relay state stays in the cookie. *)
NotPopped(j) == j

Popped(j) == [j EXCEPT !.saml = None]

(* A login completed: the frontend sends the user back to the client of the  *)
(* cookie.  It may drop the rest of the cookie.                              *)
Complete(t) ==
    LET j == flight[t].jar
        i == flight[t].arg
    IN /\ \E left \in {Popped(j), Empty} : Respond(t, "answer", left)
       /\ Matches(j, i)
       /\ j.login # None
       /\ codes' = [codes EXCEPT ![i] = @ \cup {j.login}]
       /\ again' = IF raced \/ codes[i] = {} THEN again ELSE again \cup {i}
       /\ UNCHANGED <<sent, prior, newest>>

(* Without an OIDC request in the cookie there is nobody to send it to.      *)
Lost(t) ==
    /\ \E left \in {Popped(flight[t].jar), Empty} : Respond(t, "answer", left)
    /\ Matches(flight[t].jar, flight[t].arg)
    /\ flight[t].jar.login = None
    /\ UNCHANGED <<sent, codes, again, prior, newest>>

(* handle_error: the provider says no, the answer does not verify, or does   *)
(* not match.  The error goes to the client of the cookie, which is kept.    *)
Refuse(t) ==
    /\ Respond(t, "answer", flight[t].jar)
    /\ UNCHANGED <<sent, codes, again, prior, newest>>

------------------------------------------------------------------------------
Next ==
    \E t \in Tabs :
       \/ \E l \in Logins : Authorize(t, l)
       \/ \E idp \in Idps : Choose(t, idp)
       \/ \E i \in Ids : Answer(t, i)
       \/ Authorized(t) \/ Ask(t) \/ NotAsked(t)
       \/ Complete(t) \/ Lost(t) \/ Refuse(t) \/ Lose(t)

Spec == Init /\ [][Next]_vars

------------------------------------------------------------------------------
(* As long as no two requests of the browser overlap, an answer completes a  *)
(* login at most once, whatever is sent again or lost, though the proxy      *)
(* remembers no request: authn_response takes the relay state out of the     *)
(* cookie.                                                                   *)
CodeOnce == again = {}

(* And only the answer to the newest AuthnRequest completes a login: one     *)
(* that was given up, on an old page or in another tab, does not.            *)
NewestOnly ==
    [][\A i \in Ids :
          codes'[i] # codes[i] \/ i \in again' \ again => raced \/ i = newest]_vars

(* A login for a company rests on an AuthnRequest to a SPID provider with    *)
(* Purpose=PG, from whichever old discovery page the provider was chosen and *)
(* however requests overlap - unless that AuthnRequest was already out when  *)
(* the login began.                                                          *)
LegalServed ==
    \A i \in Ids : \A l \in codes[i] \cap Legal :
        i \in prior[l] \/ (sent[i].idp = "spid" /\ sent[i].pg)
==============================================================================
