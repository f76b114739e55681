---------------------------- MODULE SamlFlow_proofs ----------------------------
(***************************************************************************)
(* Proofs about SamlFlow, for any tabs, OIDC requests and AuthnRequests.   *)
(*                                                                         *)
(* Two invariants.  Whatever overlaps, every copy of the cookie pairs an   *)
(* AuthnRequest with the login it was made for or with a later one.  Until *)
(* requests overlap, there is one cookie, and the relay state in it is     *)
(* that of the newest AuthnRequest, which nobody has answered yet.         *)
(***************************************************************************)
EXTENDS SamlFlow, TLAPS

(* What one tab may do. *)
Act(t) ==
    \/ \E l \in Logins : Authorize(t, l)
    \/ \E idp \in Idps : Choose(t, idp)
    \/ \E i \in Ids : Answer(t, i)
    \/ Authorized(t) \/ Ask(t) \/ NotAsked(t)
    \/ Complete(t) \/ Lost(t) \/ Refuse(t) \/ Lose(t)

------------------------------------------------------------------------------
(* A request sent leaves everything but the tab's flight and, if it overlaps *)
(* another, the two short histories. *)
LEMMA SendType ==
    ASSUME TypeOK, NEW t \in Tabs, NEW op, NEW arg, Send(t, op, arg),
           [op |-> op, jar |-> jar, arg |-> arg] \in Flights
    PROVE  TypeOK'
BY DEF TypeOK, Send

LEMMA RespondType ==
    ASSUME TypeOK, NEW t \in Tabs, NEW op, NEW j \in Jars, Respond(t, op, j)
    PROVE  /\ flight' \in [Tabs -> Flights]
           /\ jar' \in Jars
           /\ raced' \in BOOLEAN
BY DEF TypeOK, Respond, Flights

(* What the flight of a tab holds. *)
LEMMA FlightType ==
    ASSUME TypeOK, NEW t \in Tabs
    PROVE  /\ flight[t].jar \in Jars
           /\ flight[t].op = "authorize" => flight[t].arg \in Logins
           /\ flight[t].op = "choose" => flight[t].arg \in Idps
           /\ flight[t].op = "answer" => flight[t].arg \in Ids
<1>1. flight[t] \in Flights
  BY DEF TypeOK
<1>2. Empty \in Jars
  BY DEF Empty, Jars
<1> QED
  BY <1>1, <1>2 DEF Flights, Idle

LEMMA TypeStep == TypeOK /\ [Next]_vars => TypeOK'
<1> SUFFICES ASSUME TypeOK, [Next]_vars PROVE TypeOK'
  OBVIOUS
<1>1. CASE UNCHANGED vars
  BY <1>1 DEF TypeOK, vars, program, history
<1>2. ASSUME NEW t \in Tabs, Act(t) PROVE TypeOK'
  <2> DEFINE j == flight[t].jar
  <2>t. /\ j \in Jars
        /\ jar \in Jars
        /\ flight[t].op = "authorize" => flight[t].arg \in Logins
        /\ flight[t].op = "choose" => flight[t].arg \in Idps
        /\ flight[t].op = "answer" => flight[t].arg \in Ids
    BY FlightType DEF TypeOK
  <2>j. Popped(j) \in Jars /\ Empty \in Jars
    BY <2>t DEF Popped, Empty, Jars
  <2>1. ASSUME NEW l \in Logins, Authorize(t, l) PROVE TypeOK'
    BY <2>1, <2>t, SendType DEF Authorize, Flights
  <2>2. ASSUME NEW idp \in Idps, Choose(t, idp) PROVE TypeOK'
    BY <2>2, <2>t, SendType DEF Choose, Flights
  <2>3. ASSUME NEW i \in Ids, Answer(t, i) PROVE TypeOK'
    BY <2>3, <2>t, SendType DEF Answer, Flights
  <2>4. CASE Authorized(t)
    <3> DEFINE l == flight[t].arg
    <3>1. l \in Logins /\ Respond(t, "authorize", [j EXCEPT !.login = l])
      BY <2>4, <2>t DEF Authorized, Respond
    <3>2. [j EXCEPT !.login = l] \in Jars
      BY <3>1, <2>t DEF Jars
    <3>3. prior' \in [Logins -> SUBSET Ids]
      BY <2>4, <3>1 DEF Authorized, TypeOK
    <3> QED
      BY <2>4, <3>1, <3>2, <3>3, RespondType DEF Authorized, TypeOK
  <2>5. CASE Ask(t)
    <3>1. PICK i \in Ids :
             /\ Respond(t, "choose", Asked(j, i))
             /\ sent' = [sent EXCEPT ![i] =
                   [login |-> j.login, idp |-> flight[t].arg, pg |-> LegalRequested(j)]]
             /\ newest' = IF raced THEN None ELSE i
             /\ UNCHANGED <<codes, again, prior>>
      BY <2>5 DEF Ask
    <3>2. Asked(j, i) \in Jars
      BY <2>t DEF Asked, Jars
    <3>3. flight[t].arg \in Idps
      BY <3>1, <2>t DEF Respond
    <3>4. LegalRequested(j) \in BOOLEAN /\ j.login \in Logins \cup {None}
      BY <2>t DEF LegalRequested, Jars
    <3>5. sent' \in [Ids -> Requests \cup {None}]
      BY <3>1, <3>3, <3>4 DEF TypeOK, Requests
    <3> QED
      BY <3>1, <3>2, <3>5, RespondType DEF TypeOK
  <2>6. CASE NotAsked(t)
    BY <2>6, <2>t, RespondType DEF NotAsked, TypeOK
  <2>7. CASE Complete(t)
    <3>1. PICK left \in {Popped(j), Empty} : Respond(t, "answer", left)
      BY <2>7 DEF Complete
    <3>2. flight[t].arg \in Ids /\ j.login \in Logins
      BY <2>7, <2>t, <3>1 DEF Respond, Complete, Jars
    <3>3. codes' \in [Ids -> SUBSET Logins] /\ again' \subseteq Ids
      BY <2>7, <3>2 DEF Complete, TypeOK
    <3> QED
      BY <2>7, <2>j, <3>1, <3>3, RespondType DEF Complete, TypeOK
  <2>8. CASE Lost(t)
    BY <2>8, <2>j, RespondType DEF Lost, TypeOK
  <2>9. CASE Refuse(t)
    BY <2>9, <2>t, RespondType DEF Refuse, TypeOK
  <2>10. CASE Lose(t)
    BY <2>10 DEF Lose, TypeOK, Flights, history
  <2> QED
    BY <1>2, <2>1, <2>2, <2>3, <2>4, <2>5, <2>6, <2>7, <2>8, <2>9, <2>10 DEF Act
<1> QED
  BY <1>1, <1>2 DEF Next, Act

LEMMA InitType == Init => TypeOK
<1>1. Empty \in Jars /\ Idle \in Flights
  BY DEF Jars, Empty, Flights
<1> QED
  BY <1>1 DEF Init, TypeOK

(* Every variable keeps its type. *)
THEOREM TypeCorrect == Spec => []TypeOK
BY InitType, TypeStep, PTL DEF Spec

------------------------------------------------------------------------------
(* A cookie pairs AuthnRequest i with the login it was made for, or with one *)
(* that began when it was out. *)
Served(i, l) == sent[i] # None /\ (sent[i].login = l \/ (l \in Logins /\ i \in prior[l]))

ServedNext(i, l) ==
    sent'[i] # None /\ (sent'[i].login = l \/ (l \in Logins /\ i \in prior'[l]))

Sound(j) == j.saml # None => Served(j.saml, j.login)

(* Whatever overlaps. *)
Pairs ==
    /\ Sound(jar)
    /\ \A t \in Tabs : Sound(flight[t].jar)
    /\ \A i \in Ids : \A l \in codes[i] : Served(i, l)
    /\ \A i \in Ids : sent[i] # None /\ sent[i].login \in Legal
                         => sent[i].idp = "spid" /\ sent[i].pg

(* AuthnRequests are not changed, and logins keep what was out. *)
Grows ==
    /\ \A i \in Ids : sent[i] # None => sent'[i] = sent[i]
    /\ \A l \in Logins : prior[l] \subseteq prior'[l]

LEMMA GrowsKeeps ==
    ASSUME Grows, NEW i \in Ids, NEW l, Served(i, l)
    PROVE  ServedNext(i, l)
BY DEF Grows, Served, ServedNext

LEMMA SoundKeeps ==
    ASSUME Grows, NEW j \in Jars, Sound(j)
    PROVE  j.saml # None => ServedNext(j.saml, j.login)
BY GrowsKeeps DEF Sound, Jars

LEMMA FrameKeeps ==
    ASSUME TypeOK, Pairs, Grows, NEW t \in Tabs,
           flight'[t].jar \in Jars, jar' \in Jars,
           Sound(flight[t].jar)' , Sound(jar)',
           \A u \in Tabs \ {t} : flight'[u] = flight[u],
           \A i \in Ids : \A l \in codes'[i] : l \in codes[i] \/ Served(i, l),
           \A i \in Ids : sent'[i] # None /\ sent'[i].login \in Legal
                         => sent'[i].idp = "spid" /\ sent'[i].pg
    PROVE  Pairs'
<1>1. \A u \in Tabs : Sound(flight[u].jar)'
  <2> SUFFICES ASSUME NEW u \in Tabs \ {t} PROVE Sound(flight[u].jar)'
    OBVIOUS
  <2>1. flight[u].jar \in Jars /\ Sound(flight[u].jar)
    BY FlightType DEF Pairs
  <2>2. flight[u].jar.saml # None => ServedNext(flight[u].jar.saml, flight[u].jar.login)
    BY <2>1, SoundKeeps
  <2> QED
    BY <2>2 DEF Sound, Served, ServedNext
<1>2. \A i \in Ids : \A l \in codes'[i] : Served(i, l)'
  BY GrowsKeeps DEF Pairs, Served, ServedNext
<1> QED
  BY <1>1, <1>2 DEF Pairs

LEMMA SendKeeps ==
    ASSUME TypeOK, Pairs, NEW t \in Tabs, NEW op, NEW arg, Send(t, op, arg)
    PROVE  Pairs'
<1>1. flight'[t].jar = jar /\ \A u \in Tabs \ {t} : flight'[u] = flight[u]
  BY DEF Send, TypeOK
<1>2. jar' = jar /\ sent' = sent /\ codes' = codes /\ prior' = prior
  BY DEF Send
<1>3. jar \in Jars /\ Sound(jar)
  BY DEF TypeOK, Pairs
<1> QED
  BY <1>1, <1>2, <1>3 DEF Pairs, Sound, Served

(* After a response the tab holds the empty cookie. *)
LEMMA RespondKeeps ==
    ASSUME TypeOK, Pairs, Grows, NEW t \in Tabs, NEW op, NEW j \in Jars, Respond(t, op, j),
           j.saml # None => ServedNext(j.saml, j.login),
           \A i \in Ids : \A l \in codes'[i] : l \in codes[i] \/ Served(i, l),
           \A i \in Ids : sent'[i] # None /\ sent'[i].login \in Legal
                         => sent'[i].idp = "spid" /\ sent'[i].pg
    PROVE  Pairs'
<1>1. flight'[t] = Idle /\ \A u \in Tabs \ {t} : flight'[u] = flight[u]
  BY DEF Respond, TypeOK
<1>2. Idle.jar = Empty /\ Empty \in Jars /\ Empty.saml = None
  BY DEF Idle, Empty, Jars
<1>3. jar' = j
  BY DEF Respond
<1>4. Sound(jar)' /\ Sound(flight[t].jar)'
  BY <1>1, <1>2, <1>3 DEF Sound, Served, ServedNext
<1> QED
  BY <1>1, <1>2, <1>3, <1>4, FrameKeeps

LEMMA PairsStep == TypeOK /\ Pairs /\ [Next]_vars => Pairs'
<1> SUFFICES ASSUME TypeOK, Pairs, [Next]_vars PROVE Pairs'
  OBVIOUS
<1>1. CASE UNCHANGED vars
  BY <1>1 DEF Pairs, Sound, Served, vars, program, history
<1>2. ASSUME NEW t \in Tabs, Act(t) PROVE Pairs'
  <2> DEFINE j == flight[t].jar
  <2>t. /\ j \in Jars /\ Sound(j)
        /\ flight[t].op = "authorize" => flight[t].arg \in Logins
        /\ flight[t].op = "choose" => flight[t].arg \in Idps
        /\ flight[t].op = "answer" => flight[t].arg \in Ids
    BY FlightType DEF Pairs
  <2>p. \A i \in Ids : sent[i] # None /\ sent[i].login \in Legal
                         => sent[i].idp = "spid" /\ sent[i].pg
    BY DEF Pairs
  <2>e. /\ Popped(j) \in Jars /\ Popped(j).saml = None
        /\ Empty \in Jars /\ Empty.saml = None
    BY <2>t DEF Popped, Empty, Jars
  <2>1. CASE \/ \E l \in Logins : Authorize(t, l)
             \/ \E idp \in Idps : Choose(t, idp)
             \/ \E i \in Ids : Answer(t, i)
    BY <2>1, SendKeeps DEF Authorize, Choose, Answer
  <2>2. CASE Authorized(t)
    <3> DEFINE l == flight[t].arg
               k == [j EXCEPT !.login = l]
    <3>1. Respond(t, "authorize", k) /\ UNCHANGED <<sent, codes>>
          /\ prior' = [prior EXCEPT ![l] = @ \cup {i \in Ids : sent[i] # None}]
      BY <2>2 DEF Authorized
    <3>2. l \in Logins
      BY <3>1, <2>t DEF Respond
    <3>3. k \in Jars /\ k.saml = j.saml /\ k.login = l
      BY <3>2, <2>t DEF Jars
    <3>4. Grows
      BY <3>1, <3>2 DEF Grows, TypeOK
    <3>5. \A i \in Ids : sent[i] # None => i \in prior'[l]
      BY <3>1, <3>2 DEF TypeOK
    <3>6. j.saml # None => sent[j.saml] # None /\ j.saml \in Ids
      BY <2>t DEF Sound, Served, Jars
    <3>7. k.saml # None => ServedNext(k.saml, k.login)
      BY <3>1, <3>2, <3>3, <3>5, <3>6 DEF ServedNext
    <3> HIDE DEF k
    <3> QED
      BY <3>1, <3>3, <3>4, <3>7, <2>p, RespondKeeps
  <2>3. CASE Ask(t)
    <3>1. PICK i \in Ids :
             /\ sent[i] = None
             /\ Respond(t, "choose", Asked(j, i))
             /\ MayAsk(j, flight[t].arg)
             /\ sent' = [sent EXCEPT ![i] =
                   [login |-> j.login, idp |-> flight[t].arg, pg |-> LegalRequested(j)]]
             /\ UNCHANGED <<codes, prior>>
      BY <2>3 DEF Ask
    <3>2. Asked(j, i) \in Jars /\ Asked(j, i).saml = i /\ Asked(j, i).login = j.login
      BY <2>t DEF Asked, Jars
    <3>3. Grows
      BY <3>1 DEF Grows, TypeOK
    <3>4. /\ sent'[i] = [login |-> j.login, idp |-> flight[t].arg, pg |-> LegalRequested(j)]
          /\ \A h \in Ids \ {i} : sent'[h] = sent[h]
      BY <3>1 DEF TypeOK
    <3>5. flight[t].arg \in Idps
      BY <3>1, <2>t DEF Respond
    <3>6. sent'[i] \in Requests
      BY <3>4, <3>5, <2>t DEF LegalRequested, Jars, Requests
    <3>7. ServedNext(i, j.login)
      BY <3>4, <3>6, RequestAssumption DEF ServedNext
    <3>8. j.login \in Legal => flight[t].arg = "spid" /\ LegalRequested(j)
      BY <3>1, <3>5 DEF MayAsk, LegalRequested, Idps
    <3>9. \A h \in Ids : sent'[h] # None /\ sent'[h].login \in Legal
                         => sent'[h].idp = "spid" /\ sent'[h].pg
      BY <3>4, <3>8, <2>p
    <3> QED
      BY <3>1, <3>2, <3>3, <3>7, <3>9, <2>p, RespondKeeps
  <2>4. CASE NotAsked(t) \/ Refuse(t)
    <3>1. UNCHANGED <<sent, codes, prior>> /\ \E op \in {"choose", "answer"} : Respond(t, op, j)
      BY <2>4 DEF NotAsked, Refuse
    <3>2. Grows
      BY <3>1 DEF Grows
    <3>3. j.saml # None => ServedNext(j.saml, j.login)
      BY <3>2, <2>t, SoundKeeps
    <3> QED
      BY <3>1, <3>2, <3>3, <2>t, <2>p, RespondKeeps
  <2>5. CASE Complete(t) \/ Lost(t)
    <3>1. PICK left \in {Popped(j), Empty} : Respond(t, "answer", left)
      BY <2>5 DEF Complete, Lost
    <3>2. left \in Jars /\ left.saml = None
      BY <2>e
    <3>3. UNCHANGED <<sent, prior>> /\ Matches(j, flight[t].arg)
      BY <2>5 DEF Complete, Lost
    <3>4. flight[t].arg \in Ids /\ j.saml = flight[t].arg
      BY <3>1, <3>3, <2>t DEF Respond, Matches
    <3>5. Served(flight[t].arg, j.login)
      BY <3>4, <2>t, NoneAssumption DEF Sound
    <3>6. codes' = codes \/ codes' = [codes EXCEPT ![flight[t].arg] = @ \cup {j.login}]
      BY <2>5 DEF Complete, Lost
    <3>7. \A i \in Ids : \A l \in codes'[i] : l \in codes[i] \/ Served(i, l)
      BY <3>4, <3>5, <3>6 DEF TypeOK
    <3>8. Grows
      BY <3>3 DEF Grows
    <3>9. \A i \in Ids : sent'[i] # None /\ sent'[i].login \in Legal
                         => sent'[i].idp = "spid" /\ sent'[i].pg
      BY <3>3, <2>p
    <3> QED
      BY <3>1, <3>2, <3>7, <3>8, <3>9, RespondKeeps
  <2>6. CASE Lose(t)
    <3>1. flight' = [flight EXCEPT ![t] = Idle] /\ UNCHANGED <<jar, sent, codes, prior>>
      BY <2>6 DEF Lose, history
    <3>2. Idle.jar.saml = None
      BY DEF Idle, Empty
    <3>3. \A u \in Tabs : flight'[u] = flight[u] \/ flight'[u].jar.saml = None
      BY <3>1, <3>2 DEF TypeOK
    <3> QED
      BY <3>1, <3>3 DEF Pairs, Sound, Served
  <2> QED
    BY <1>2, <2>1, <2>2, <2>3, <2>4, <2>5, <2>6 DEF Act
<1> QED
  BY <1>1, <1>2 DEF Next, Act

(* A login for a company is served by SPID with Purpose=PG, however the      *)
(* requests of the browser overlap. *)
THEOREM CompaniesServed == Spec => []LegalServed
<1>1. Init => TypeOK /\ Pairs
  <2>1. Init => Pairs
    BY DEF Init, Pairs, Sound, Idle, Empty
  <2> QED
    BY <2>1, InitType
<1>2. TypeOK /\ Pairs => LegalServed
  BY DEF TypeOK, Pairs, Served, LegalServed
<1> QED
  BY <1>1, <1>2, TypeStep, PairsStep, PTL DEF Spec

(* Nobody gets another's login by overlapping requests: an answer completes  *)
(* the login its AuthnRequest was made for, or one that the same browser     *)
(* began when that AuthnRequest was already out.                             *)
CompletesItsOwn ==
    \A i \in Ids : \A l \in codes[i] : sent[i] # None /\ (sent[i].login = l \/ i \in prior[l])

(* Whatever the tabs overlap, send again, lose or leave behind: the identity *)
(* in an answer goes to the login for which it was asked or to one that      *)
(* began later in the same browser, never to an earlier one.                 *)
THEOREM CompletesOwn == Spec => []CompletesItsOwn
<1>1. Init => TypeOK /\ Pairs
  BY InitType DEF Init, Pairs, Sound, Idle, Empty
<1>2. TypeOK /\ Pairs => CompletesItsOwn
  BY DEF TypeOK, Pairs, Served, CompletesItsOwn
<1> QED
  BY <1>1, <1>2, TypeStep, PairsStep, PTL DEF Spec

------------------------------------------------------------------------------
(* Until requests overlap. *)
Alone ==
    ~raced =>
       /\ \A t \in Tabs : Waiting(t) => flight[t].jar = jar
       /\ \A t, u \in Tabs : Waiting(t) /\ Waiting(u) => t = u
       /\ jar.saml # None => jar.saml = newest /\ codes[jar.saml] = {}

(* A step that sends nothing takes the only request there is. *)
LEMMA RespondAlone ==
    ASSUME TypeOK, Alone, NEW t \in Tabs, NEW op \in {"authorize", "choose", "answer"}, NEW j,
           Respond(t, op, j)
    PROVE  /\ raced' = raced
           /\ ~raced => flight[t].jar = jar /\ \A u \in Tabs : ~Waiting(u)'
<1>1. Waiting(t) /\ flight'[t] = Idle /\ \A u \in Tabs \ {t} : flight'[u] = flight[u]
  BY DEF Respond, Waiting, TypeOK
<1> QED
  BY <1>1 DEF Alone, Respond, Waiting, Idle

LEMMA SendAlone ==
    ASSUME TypeOK, Alone, NEW t \in Tabs, NEW op, NEW arg, Send(t, op, arg)
    PROVE  Alone'
<1> SUFFICES ASSUME ~raced' PROVE Alone'
  BY DEF Alone
<1>1. ~raced /\ \A u \in Tabs : ~Waiting(u)
  BY DEF Send, TypeOK
<1>2. newest' = newest /\ jar' = jar /\ codes' = codes
  BY DEF Send
<1>3. flight'[t].jar = jar' /\ \A u \in Tabs \ {t} : flight'[u] = flight[u]
  BY DEF Send, TypeOK
<1>4. \A u \in Tabs : Waiting(u)' => u = t
  BY <1>1, <1>3 DEF Waiting
<1> QED
  BY <1>1, <1>2, <1>3, <1>4 DEF Alone

(* What one step does to the histories. *)
Once ==
    /\ again' = {} \/ again' = again
    /\ \A i \in Ids : codes'[i] # codes[i] => raced \/ i = newest

LEMMA AloneStep ==
    TypeOK /\ Pairs /\ Alone /\ [Next]_vars => Alone' /\ Once
<1> SUFFICES ASSUME TypeOK, Pairs, Alone, [Next]_vars PROVE Alone' /\ Once
  OBVIOUS
<1>1. CASE UNCHANGED vars
  BY <1>1 DEF Alone, Waiting, Once, vars, program, history
<1>2. ASSUME NEW t \in Tabs, Act(t) PROVE Alone' /\ Once
  <2> DEFINE j == flight[t].jar
  <2>t. /\ j \in Jars
        /\ flight[t].op = "answer" => flight[t].arg \in Ids
    BY FlightType
  <2>e. Popped(j).saml = None /\ Empty.saml = None
    BY <2>t DEF Popped, Empty, Jars
  <2>1. ASSUME NEW op, NEW arg, Send(t, op, arg) PROVE Alone' /\ Once
    BY <2>1, SendAlone DEF Once, Send
  <2>2. CASE Authorized(t)
    <3> DEFINE k == [j EXCEPT !.login = flight[t].arg]
    <3>1. Respond(t, "authorize", k) /\ UNCHANGED <<codes, again, newest>>
      BY <2>2 DEF Authorized
    <3>2. k.saml = j.saml /\ jar' = k
      BY <3>1, <2>t DEF Jars, Respond
    <3> HIDE DEF k
    <3>3. raced' = raced /\ (~raced => j = jar /\ \A u \in Tabs : ~Waiting(u)')
      BY <3>1, RespondAlone
    <3> QED
      BY <3>1, <3>2, <3>3 DEF Alone, Once
  <2>3. CASE Ask(t)
    <3>1. PICK i \in Ids :
             /\ sent[i] = None
             /\ Respond(t, "choose", Asked(j, i))
             /\ newest' = IF raced THEN None ELSE i
             /\ UNCHANGED <<codes, again>>
      BY <2>3 DEF Ask
    <3>2. Asked(j, i).saml = i /\ jar' = Asked(j, i)
      BY <3>1, <2>t DEF Asked, Jars, Respond
    <3>3. codes[i] = {}
      BY <3>1 DEF Pairs, Served
    <3>4. raced' = raced /\ (~raced => \A u \in Tabs : ~Waiting(u)')
      BY <3>1, RespondAlone
    <3> QED
      BY <3>1, <3>2, <3>3, <3>4 DEF Alone, Once
  <2>4. CASE NotAsked(t) \/ Refuse(t)
    <3>1. PICK op \in {"choose", "answer"} : Respond(t, op, j)
      BY <2>4 DEF NotAsked, Refuse
    <3>2. UNCHANGED <<codes, again, newest>> /\ jar' = j
      BY <2>4, <3>1 DEF NotAsked, Refuse, Respond
    <3>3. raced' = raced /\ (~raced => j = jar /\ \A u \in Tabs : ~Waiting(u)')
      BY <3>1, RespondAlone
    <3> QED
      BY <3>2, <3>3 DEF Alone, Once
  <2>5. CASE Complete(t)
    <3> DEFINE i == flight[t].arg
    <3>1. PICK left \in {Popped(j), Empty} : Respond(t, "answer", left)
      BY <2>5 DEF Complete
    <3>2. /\ j.saml = i
          /\ codes' = [codes EXCEPT ![i] = @ \cup {j.login}]
          /\ again' = IF raced \/ codes[i] = {} THEN again ELSE again \cup {i}
      BY <2>5 DEF Complete, Matches
    <3>3. i \in Ids /\ left.saml = None /\ jar' = left
      BY <3>1, <2>t, <2>e DEF Respond
    <3>4. raced' = raced /\ (~raced => j = jar /\ \A u \in Tabs : ~Waiting(u)')
      BY <3>1, RespondAlone
    <3>5. ~raced => i = newest /\ codes[i] = {}
      BY <3>2, <3>3, <3>4, NoneAssumption DEF Alone
    <3>6. \A h \in Ids \ {i} : codes'[h] = codes[h]
      BY <3>2 DEF TypeOK
    <3>7. Once
      BY <3>2, <3>5, <3>6 DEF Once
    <3> QED
      BY <3>3, <3>4, <3>7 DEF Alone
  <2>6. CASE Lost(t)
    <3>1. PICK left \in {Popped(j), Empty} : Respond(t, "answer", left)
      BY <2>6 DEF Lost
    <3>2. left.saml = None /\ jar' = left /\ UNCHANGED <<codes, again>>
      BY <2>6, <3>1, <2>e DEF Lost, Respond
    <3>3. raced' = raced /\ (~raced => \A u \in Tabs : ~Waiting(u)')
      BY <3>1, RespondAlone
    <3> QED
      BY <3>2, <3>3 DEF Alone, Once
  <2>7. CASE Lose(t)
    <3>1. flight'[t] = Idle /\ \A u \in Tabs \ {t} : flight'[u] = flight[u]
      BY <2>7 DEF Lose, TypeOK
    <3>2. UNCHANGED <<jar, raced, codes, again, newest>>
      BY <2>7 DEF Lose, history
    <3>3. \A u \in Tabs : Waiting(u)' => Waiting(u) /\ flight'[u] = flight[u]
      BY <3>1 DEF Waiting, Idle
    <3> QED
      BY <3>2, <3>3 DEF Alone, Once
  <2> QED
    BY <1>2, <2>1, <2>2, <2>3, <2>4, <2>5, <2>6, <2>7 DEF Act, Authorize, Choose, Answer
<1> QED
  BY <1>1, <1>2 DEF Next, Act

LEMMA Follows == Spec => [](TypeOK /\ Pairs /\ Alone /\ CodeOnce)
<1>1. Init => TypeOK /\ Pairs /\ Alone /\ CodeOnce
  <2>1. Init => Pairs /\ Alone /\ CodeOnce
    BY DEF Init, Pairs, Sound, Alone, Waiting, CodeOnce, Idle, Empty
  <2> QED
    BY <2>1, InitType
<1>2. TypeOK /\ Pairs /\ Alone /\ CodeOnce /\ [Next]_vars => (TypeOK /\ Pairs /\ Alone /\ CodeOnce)'
  <2>1. Once /\ CodeOnce => CodeOnce'
    BY DEF Once, CodeOnce
  <2> QED
    BY <2>1, TypeStep, PairsStep, AloneStep
<1> QED
  BY <1>1, <1>2, PTL DEF Spec

(* Until two requests of the browser overlap, an answer completes a login at *)
(* most once. *)
THEOREM AnsweredOnce == Spec => []CodeOnce
BY Follows, PTL

(* And it answers the newest AuthnRequest. *)
THEOREM AnsweredNewest == Spec => NewestOnly
<1> DEFINE A == \A i \in Ids :
                  codes'[i] # codes[i] \/ i \in again' \ again => raced \/ i = newest
<1>1. TypeOK /\ Pairs /\ Alone /\ [Next]_vars => [A]_vars
  <2>1. Once => A
    BY DEF Once
  <2> QED
    BY <2>1, AloneStep
<1> QED
  BY <1>1, Follows, PTL DEF Spec, NewestOnly
==============================================================================
