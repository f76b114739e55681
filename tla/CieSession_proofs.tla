--------------------------- MODULE CieSession_proofs ---------------------------
(***************************************************************************)
(* Proofs about CieSession, for every set of login attempts and workers,   *)
(* every TTL and every harakiri limit.                                     *)
(*                                                                         *)
(* Why a session is handed out once: the request that won the marker holds  *)
(* it for longer than it may still run (MarkerOutlives), so while the      *)
(* document is open nobody else gets past SET NX (Alone); whoever stores    *)
(* completed = True closes the document for ever (Closed), and nobody else  *)
(* can hold an open copy of it then (OneHolder, NoHolderAfterWin).          *)
(* When a marker can lapse, and whose it is while nothing fails, is proved  *)
(* on top of that (EndKnown, HeldInv).                                      *)
(***************************************************************************)
EXTENDS CieSession, FiniteSetTheorems, TLAPS

(* A request that got past GET cie:state, or that writes the pointer *)
Inside == {"pointer", "ttl", "claim"} \cup Claiming \cup Redeeming

OnlyIssued ==
    /\ \A w \in Workers : pc[w] \in Inside => st[w] \in issued
    /\ \A s \in States \ issued :
          sessLeft[s] = 0 /\ ptrLeft[s] = 0 /\ wins[s] = 0 /\ logins[s] = 0

(* What is or will be stored by a winner is completed. *)
CopiesCompleted ==
    /\ \A w \in Workers : pc[w] \in Holding \cup Redeeming => doc[w].completed
    /\ \A s \in States : Used(sessDoc[s]) => sessDoc[s].completed

MarkerOutlives ==
    \A w \in Workers :
       pc[w] \in Claiming /\ ~lapsed[st[w]] /\ Open(st[w])
         => usedLeft[st[w]] > budget[w]

Alone ==
    \A v, w \in Workers :
       v # w /\ st[v] = st[w] /\ pc[v] \in Claiming /\ pc[w] \in Claiming
         => lapsed[st[w]] \/ ~Open(st[w])

OneHolder ==
    \A v, w \in Workers :
       v # w /\ st[v] = st[w] /\ pc[v] \in Holding /\ pc[w] \in Holding
         => lapsed[st[w]]

Closed == \A s \in States : wins[s] > 0 => ~Open(s)

NoHolderAfterWin ==
    \A w \in Workers :
       pc[w] \in Holding /\ wins[st[w]] > 0 => lapsed[st[w]]

(* Redeeming requests won before, and only one of them does the login. *)
RedeemersWon ==
    /\ \A w \in Workers :
          pc[w] \in Redeeming
            => wins[st[w]] > 0 /\ (lapsed[st[w]] \/ logins[st[w]] = 0)
    /\ \A v, w \in Workers :
          v # w /\ st[v] = st[w] /\ pc[v] \in Redeeming /\ pc[w] \in Redeeming
            => lapsed[st[w]]
    /\ \A s \in States : logins[s] > 0 => wins[s] > 0

UsedByWinner ==
    \A s \in States : sessLeft[s] > 0 /\ Used(sessDoc[s]) => wins[s] > 0

IInv ==
    /\ TypeOK
    /\ OnlyIssued
    /\ CopiesCompleted
    /\ MarkerOutlives
    /\ Alone
    /\ OneHolder
    /\ Closed
    /\ NoHolderAfterWin
    /\ RedeemersWon
    /\ UsedByWinner
    /\ SingleUse
    /\ UsedMeansConsumed

------------------------------------------------------------------------------
(* Type correctness *)

LEMMA InitTypeOK == Init => TypeOK
  BY DEF Init, TypeOK, Pcs, Answers, Documents, Fresh, Claiming, Redeeming

LEMMA TtlType ==
    ASSUME NEW n \in Nat, NEW t \in TtlReplies(n)
    PROVE  t \in Nat
  BY DEF TtlReplies

LEMMA ExpiryType ==
    ASSUME NEW t \in Nat
    PROVE  Expiry(t) \in Nat /\ Expiry(t) > 0
  BY TTLAssumption DEF Expiry

LEMMA TypeOKInductive == TypeOK /\ [Next]_vars => TypeOK'
<1> SUFFICES ASSUME TypeOK, [Next]_vars PROVE TypeOK'
  OBVIOUS
<1> USE DEF TypeOK, Pcs, Answers, Documents, Claiming, Redeeming, keys, request, history
<1>1. ASSUME NEW w \in Workers, NEW s \in States, AddDocument(w, s) PROVE TypeOK'
  BY <1>1, TTLAssumption, HarakiriAssumption DEF AddDocument, Begin, Fresh
<1>2. ASSUME NEW w \in Workers, NEW s \in States, Callback(w, s) PROVE TypeOK'
  BY <1>2, HarakiriAssumption DEF Callback, Begin
<1>3. ASSUME NEW w \in Workers, NEW s \in States, CallbackRefused(w, s) PROVE TypeOK'
  BY <1>3 DEF CallbackRefused, End, Fresh
<1>4. ASSUME NEW w \in Workers, AddPointer(w) PROVE TypeOK'
  BY <1>4, TTLAssumption DEF AddPointer, End, Fresh
<1>5. ASSUME NEW w \in Workers, LookupPointer(w) PROVE TypeOK'
  BY <1>5 DEF LookupPointer, Goto
<1>6. ASSUME NEW w \in Workers, ReadTtl(w) PROVE TypeOK'
  BY <1>6, TtlType DEF ReadTtl, Goto, AfterTtl
<1>7. ASSUME NEW w \in Workers, WinMarker(w) PROVE TypeOK'
  BY <1>7, ExpiryType DEF WinMarker, Goto
<1>8. ASSUME NEW w \in Workers, LoseMarker(w) PROVE TypeOK'
  BY <1>8 DEF LoseMarker, Goto
<1>9. ASSUME NEW w \in Workers, ReadOpen(w) PROVE TypeOK'
  BY <1>9 DEF ReadOpen, Goto, Completed
<1>10. ASSUME NEW w \in Workers, ReadClosed(w) PROVE TypeOK'
  BY <1>10 DEF ReadClosed, Goto
<1>11. ASSUME NEW w \in Workers, StoreDocument(w) PROVE TypeOK'
  BY <1>11, ExpiryType DEF StoreDocument, Goto, AfterStore
<1>12. ASSUME NEW w \in Workers, Redeem(w) PROVE TypeOK'
  BY <1>12 DEF Redeem, Goto
<1>13. ASSUME NEW w \in Workers, FetchUser(w) PROVE TypeOK'
  BY <1>13 DEF FetchUser, Goto
<1>14. ASSUME NEW w \in Workers, Login(w) PROVE TypeOK'
  BY <1>14 DEF Login, End, Fresh
<1>15. ASSUME NEW w \in Workers, LookAgain(w) PROVE TypeOK'
  BY <1>15 DEF LookAgain, Goto
<1>16. ASSUME NEW w \in Workers, PointerGone(w) PROVE TypeOK'
  BY <1>16 DEF PointerGone, End, Fresh
<1>17. ASSUME NEW w \in Workers, Inspect(w) PROVE TypeOK'
  BY <1>17 DEF Inspect, End, Fresh
<1>18. ASSUME NEW w \in Workers, Fail(w) PROVE TypeOK'
  BY <1>18 DEF Fail, End, Fresh
<1>19. ASSUME NEW w \in Workers, Kill(w) PROVE TypeOK'
  BY <1>19 DEF Kill, End, Fresh
<1>20. ASSUME RedisRestart PROVE TypeOK'
  BY <1>20 DEF RedisRestart
<1>21. ASSUME Tick PROVE TypeOK'
  BY <1>21 DEF Tick, Down
<1>22. CASE UNCHANGED vars
  BY <1>22 DEF vars
<1> QED
  BY <1>1, <1>2, <1>3, <1>4, <1>5, <1>6, <1>7, <1>8, <1>9, <1>10, <1>11, <1>12, <1>13, <1>14, <1>15, <1>16, <1>17, <1>18, <1>19, <1>20, <1>21, <1>22 DEF Next, Step

(* Every behaviour keeps the store, the requests and the history well typed. *)
THEOREM TypeCorrect == Spec => []TypeOK
  BY InitTypeOK, TypeOKInductive, PTL DEF Spec

------------------------------------------------------------------------------
(* The inductive invariant *)
LEMMA LocalStep ==
    ASSUME IInv, TypeOK', NEW w \in Workers,
           UNCHANGED keys, UNCHANGED history,
           \A v \in Workers \ {w} :
              /\ pc'[v] = pc[v] /\ st'[v] = st[v] /\ doc'[v] = doc[v]
              /\ budget'[v] = budget[v] /\ answer'[v] = answer[v],
           pc'[w] \in Claiming
              => pc[w] \in Claiming /\ st'[w] = st[w] /\ budget'[w] = budget[w],
           pc'[w] \in Holding => pc[w] \in Holding /\ st'[w] = st[w],
           pc'[w] \in Redeeming => pc[w] \in Redeeming /\ st'[w] = st[w],
           pc'[w] \in Holding \cup Redeeming => doc'[w].completed,
           pc'[w] \in Inside => st'[w] \in issued,
           answer'[w] = "used" => wins[st'[w]] > 0
    PROVE  IInv'
<1> USE DEF keys, history
<1>1. OnlyIssued' /\ CopiesCompleted'
  BY DEF IInv, OnlyIssued, CopiesCompleted
<1>2. MarkerOutlives' /\ Alone' /\ OneHolder'
  BY DEF IInv, MarkerOutlives, Alone, OneHolder, Open
<1>3. Closed' /\ NoHolderAfterWin' /\ RedeemersWon'
  BY DEF IInv, Closed, NoHolderAfterWin, RedeemersWon, Open
<1>4. UsedByWinner' /\ SingleUse' /\ UsedMeansConsumed'
  BY DEF IInv, UsedByWinner, SingleUse, UsedMeansConsumed
<1> QED
  BY <1>1, <1>2, <1>3, <1>4 DEF IInv

LEMMA InitIInv == Init => IInv
  BY InitTypeOK DEF Init, IInv, TypeOK, OnlyIssued, CopiesCompleted, MarkerOutlives,
     Alone, OneHolder, Closed, NoHolderAfterWin, RedeemersWon, UsedByWinner, SingleUse,
     UsedMeansConsumed, Used, Fresh, Inside, Claiming, Holding, Redeeming

(* Steps that move one request and touch neither keys nor history *)
LEMMA LocalSteps ==
    ASSUME IInv, TypeOK', NEW w \in Workers, NEW s \in States,
           \/ Callback(w, s)
           \/ CallbackRefused(w, s)
           \/ LookupPointer(w)
           \/ ReadTtl(w)
           \/ LoseMarker(w)
           \/ ReadClosed(w)
           \/ Redeem(w)
           \/ FetchUser(w)
           \/ LookAgain(w)
           \/ PointerGone(w)
           \/ Inspect(w)
           \/ Fail(w)
           \/ Kill(w)
    PROVE  IInv'
<1> USE DEF IInv, TypeOK, keys, history, Inside, Claiming, Holding, Redeeming
<1>1. CASE Callback(w, s)
  BY <1>1, LocalStep DEF Callback, Begin
<1>2. CASE CallbackRefused(w, s)
  BY <1>2, LocalStep DEF CallbackRefused, End, Fresh
<1>3. CASE LookupPointer(w)
  BY <1>3, LocalStep DEF LookupPointer, Goto, OnlyIssued, CopiesCompleted, UsedMeansConsumed
<1>4. CASE ReadTtl(w)
  BY <1>4, LocalStep DEF ReadTtl, Goto, AfterTtl, OnlyIssued, CopiesCompleted, UsedMeansConsumed
<1>5. CASE LoseMarker(w)
  BY <1>5, LocalStep DEF LoseMarker, Goto, OnlyIssued, CopiesCompleted, UsedMeansConsumed
<1>6. CASE ReadClosed(w)
  BY <1>6, LocalStep DEF ReadClosed, Goto, OnlyIssued, CopiesCompleted, UsedMeansConsumed
<1>7. CASE Redeem(w)
  BY <1>7, LocalStep DEF Redeem, Goto, OnlyIssued, CopiesCompleted, UsedMeansConsumed
<1>8. CASE FetchUser(w)
  BY <1>8, LocalStep DEF FetchUser, Goto, OnlyIssued, CopiesCompleted, UsedMeansConsumed
<1>9. CASE LookAgain(w)
  BY <1>9, LocalStep DEF LookAgain, Goto, OnlyIssued, CopiesCompleted, UsedMeansConsumed
<1>10. CASE PointerGone(w)
  BY <1>10, LocalStep DEF PointerGone, End, Fresh
<1>11. CASE Inspect(w)
  BY <1>11, LocalStep DEF Inspect, End, Fresh, UsedByWinner
<1>12. CASE Fail(w)
  BY <1>12, LocalStep DEF Fail, End, Fresh
<1>13. CASE Kill(w)
  BY <1>13, LocalStep DEF Kill, End, Fresh
<1> QED
  BY <1>1, <1>2, <1>3, <1>4, <1>5, <1>6, <1>7, <1>8, <1>9, <1>10, <1>11, <1>12, <1>13

LEMMA AddDocumentIInv ==
    ASSUME IInv, TypeOK', NEW w \in Workers, NEW s \in States, AddDocument(w, s)
    PROVE  IInv'
<1> USE TTLAssumption, HarakiriAssumption DEF IInv, TypeOK, keys, request, history, Inside, Claiming, Holding, Redeeming, Open, Used, AddDocument, Begin, Fresh
<1>1. OnlyIssued' /\ CopiesCompleted'
  BY DEF OnlyIssued, CopiesCompleted
<1>2. MarkerOutlives'
  BY DEF MarkerOutlives, OnlyIssued, CopiesCompleted
<1>3. Alone' /\ OneHolder'
  BY DEF Alone, OneHolder, MarkerOutlives, OnlyIssued, CopiesCompleted
<1>4. Closed' /\ NoHolderAfterWin'
  BY DEF Closed, NoHolderAfterWin, OnlyIssued, CopiesCompleted, OneHolder
<1>5. RedeemersWon'
  BY DEF RedeemersWon, OnlyIssued, NoHolderAfterWin
<1>6. UsedByWinner' /\ SingleUse' /\ UsedMeansConsumed'
  BY DEF UsedByWinner, SingleUse, UsedMeansConsumed, OnlyIssued, RedeemersWon, NoHolderAfterWin
<1> QED
  BY <1>1, <1>2, <1>3, <1>4, <1>5, <1>6

LEMMA AddPointerIInv ==
    ASSUME IInv, TypeOK', NEW w \in Workers, AddPointer(w)
    PROVE  IInv'
<1> USE TTLAssumption DEF IInv, TypeOK, keys, request, history, Inside, Claiming, Holding, Redeeming, Open, Used, AddPointer, End, Fresh
<1>1. OnlyIssued' /\ CopiesCompleted'
  BY DEF OnlyIssued, CopiesCompleted
<1>2. MarkerOutlives'
  BY DEF MarkerOutlives, OnlyIssued, CopiesCompleted
<1>3. Alone' /\ OneHolder'
  BY DEF Alone, OneHolder, MarkerOutlives, OnlyIssued, CopiesCompleted
<1>4. Closed' /\ NoHolderAfterWin'
  BY DEF Closed, NoHolderAfterWin, OnlyIssued, CopiesCompleted, OneHolder
<1>5. RedeemersWon'
  BY DEF RedeemersWon, OnlyIssued, NoHolderAfterWin
<1>6. UsedByWinner' /\ SingleUse' /\ UsedMeansConsumed'
  BY DEF UsedByWinner, SingleUse, UsedMeansConsumed, OnlyIssued, RedeemersWon, NoHolderAfterWin
<1> QED
  BY <1>1, <1>2, <1>3, <1>4, <1>5, <1>6

LEMMA WinMarkerIInv ==
    ASSUME IInv, TypeOK', NEW w \in Workers, WinMarker(w)
    PROVE  IInv'
<1> USE ExpiryType DEF IInv, TypeOK, keys, request, history, Inside, Claiming, Holding, Redeeming, Open, Used, WinMarker, Goto
<1>1. OnlyIssued' /\ CopiesCompleted'
  BY DEF OnlyIssued, CopiesCompleted
<1>2. MarkerOutlives'
  <2> SUFFICES ASSUME NEW v \in Workers, (pc[v] \in Claiming)', ~lapsed'[st'[v]], Open(st[v])'
               PROVE  usedLeft'[st'[v]] > budget'[v]
    BY DEF MarkerOutlives
  <2>1. CASE v = w
    <3>1. ~(Expiry(ttl[w]) <= budget[w])
      BY <2>1, Zenon
    <3>2. usedLeft'[st[w]] = Expiry(ttl[w]) /\ budget'[w] = budget[w] /\ st'[w] = st[w]
      OBVIOUS
    <3> QED
      BY <2>1, <3>1, <3>2, ExpiryType
  <2>2. CASE v # w /\ st[v] = st[w]
    <3>1. usedLeft[st[v]] > budget[v]
      BY <2>2 DEF MarkerOutlives
    <3> QED
      BY <2>2, <3>1
  <2>3. CASE v # w /\ st[v] # st[w]
    BY <2>3 DEF MarkerOutlives
  <2> QED
    BY <2>1, <2>2, <2>3
<1>3. Alone' /\ OneHolder'
  BY DEF Alone, OneHolder, MarkerOutlives, OnlyIssued, CopiesCompleted
<1>4. Closed' /\ NoHolderAfterWin'
  BY DEF Closed, NoHolderAfterWin, OnlyIssued, CopiesCompleted, OneHolder
<1>5. RedeemersWon'
  BY DEF RedeemersWon, OnlyIssued, NoHolderAfterWin
<1>6. UsedByWinner' /\ SingleUse' /\ UsedMeansConsumed'
  BY DEF UsedByWinner, SingleUse, UsedMeansConsumed, OnlyIssued, RedeemersWon, NoHolderAfterWin
<1> QED
  BY <1>1, <1>2, <1>3, <1>4, <1>5, <1>6

LEMMA ReadOpenIInv ==
    ASSUME IInv, TypeOK', NEW w \in Workers, ReadOpen(w)
    PROVE  IInv'
<1> USE DEF IInv, TypeOK, keys, request, history, Inside, Claiming, Holding, Redeeming, Open, Used, ReadOpen, Goto, Completed
<1>1. OnlyIssued' /\ CopiesCompleted'
  BY DEF OnlyIssued, CopiesCompleted
<1>2. MarkerOutlives'
  BY DEF MarkerOutlives, OnlyIssued, CopiesCompleted
<1>3. Alone' /\ OneHolder'
  BY DEF Alone, OneHolder, MarkerOutlives, OnlyIssued, CopiesCompleted
<1>4. Closed' /\ NoHolderAfterWin'
  BY DEF Closed, NoHolderAfterWin, OnlyIssued, CopiesCompleted, OneHolder
<1>5. RedeemersWon'
  BY DEF RedeemersWon, OnlyIssued, NoHolderAfterWin
<1>6. UsedByWinner' /\ SingleUse' /\ UsedMeansConsumed'
  BY DEF UsedByWinner, SingleUse, UsedMeansConsumed, OnlyIssued, RedeemersWon, NoHolderAfterWin
<1> QED
  BY <1>1, <1>2, <1>3, <1>4, <1>5, <1>6

LEMMA StoreDocumentIInv ==
    ASSUME IInv, TypeOK', NEW w \in Workers, StoreDocument(w)
    PROVE  IInv'
<1> USE ExpiryType DEF IInv, TypeOK, keys, request, history, Inside, Claiming, Holding, Redeeming, Open, Used, StoreDocument, Goto, AfterStore
<1>1. OnlyIssued' /\ CopiesCompleted'
  BY DEF OnlyIssued, CopiesCompleted
<1>2. MarkerOutlives'
  BY DEF MarkerOutlives, OnlyIssued, CopiesCompleted
<1>3. Alone' /\ OneHolder'
  BY DEF Alone, OneHolder, MarkerOutlives, OnlyIssued, CopiesCompleted
<1>4. Closed' /\ NoHolderAfterWin'
  BY DEF Closed, NoHolderAfterWin, OnlyIssued, CopiesCompleted, OneHolder
<1>5. RedeemersWon'
  BY DEF RedeemersWon, OnlyIssued, NoHolderAfterWin
<1>6. UsedByWinner' /\ SingleUse' /\ UsedMeansConsumed'
  BY DEF UsedByWinner, SingleUse, UsedMeansConsumed, OnlyIssued, RedeemersWon, NoHolderAfterWin
<1> QED
  BY <1>1, <1>2, <1>3, <1>4, <1>5, <1>6

LEMMA LoginIInv ==
    ASSUME IInv, TypeOK', NEW w \in Workers, Login(w)
    PROVE  IInv'
<1> USE DEF IInv, TypeOK, keys, request, history, Inside, Claiming, Holding, Redeeming, Open, Used, Login, End, Fresh
<1>1. OnlyIssued' /\ CopiesCompleted'
  BY DEF OnlyIssued, CopiesCompleted
<1>2. MarkerOutlives'
  BY DEF MarkerOutlives, OnlyIssued, CopiesCompleted
<1>3. Alone' /\ OneHolder'
  BY DEF Alone, OneHolder, MarkerOutlives, OnlyIssued, CopiesCompleted
<1>4. Closed' /\ NoHolderAfterWin'
  BY DEF Closed, NoHolderAfterWin, OnlyIssued, CopiesCompleted, OneHolder
<1>5. RedeemersWon'
  BY DEF RedeemersWon, OnlyIssued, NoHolderAfterWin
<1>6. UsedByWinner' /\ SingleUse' /\ UsedMeansConsumed'
  BY DEF UsedByWinner, SingleUse, UsedMeansConsumed, OnlyIssued, RedeemersWon, NoHolderAfterWin
<1> QED
  BY <1>1, <1>2, <1>3, <1>4, <1>5, <1>6

LEMMA RedisRestartIInv ==
    ASSUME IInv, TypeOK', RedisRestart
    PROVE  IInv'
<1> USE DEF IInv, TypeOK, keys, request, history, Inside, Claiming, Holding, Redeeming, Open, Used, RedisRestart
<1>1. OnlyIssued' /\ CopiesCompleted'
  BY DEF OnlyIssued, CopiesCompleted
<1>2. MarkerOutlives'
  BY DEF MarkerOutlives, OnlyIssued, CopiesCompleted
<1>3. Alone' /\ OneHolder'
  BY DEF Alone, OneHolder, MarkerOutlives, OnlyIssued, CopiesCompleted
<1>4. Closed' /\ NoHolderAfterWin'
  BY DEF Closed, NoHolderAfterWin, OnlyIssued, CopiesCompleted, OneHolder
<1>5. RedeemersWon'
  BY DEF RedeemersWon, OnlyIssued, NoHolderAfterWin
<1>6. UsedByWinner' /\ SingleUse' /\ UsedMeansConsumed'
  BY DEF UsedByWinner, SingleUse, UsedMeansConsumed, OnlyIssued, RedeemersWon, NoHolderAfterWin
<1> QED
  BY <1>1, <1>2, <1>3, <1>4, <1>5, <1>6

LEMMA TickIInv ==
    ASSUME IInv, TypeOK', Tick
    PROVE  IInv'
<1> USE DEF IInv, TypeOK, keys, request, history, Inside, Claiming, Holding, Redeeming, Open, Used, Tick, Down
<1>1. OnlyIssued' /\ CopiesCompleted'
  BY DEF OnlyIssued, CopiesCompleted
<1>2. MarkerOutlives'
  BY DEF MarkerOutlives, OnlyIssued, CopiesCompleted
<1>3. Alone' /\ OneHolder'
  BY DEF Alone, OneHolder, MarkerOutlives, OnlyIssued, CopiesCompleted
<1>4. Closed' /\ NoHolderAfterWin'
  BY DEF Closed, NoHolderAfterWin, OnlyIssued, CopiesCompleted, OneHolder
<1>5. RedeemersWon'
  BY DEF RedeemersWon, OnlyIssued, NoHolderAfterWin
<1>6. UsedByWinner' /\ SingleUse' /\ UsedMeansConsumed'
  BY DEF UsedByWinner, SingleUse, UsedMeansConsumed, OnlyIssued, RedeemersWon, NoHolderAfterWin
<1> QED
  BY <1>1, <1>2, <1>3, <1>4, <1>5, <1>6

LEMMA InvInductive == IInv /\ [Next]_vars => IInv'
<1> SUFFICES ASSUME IInv, [Next]_vars PROVE IInv'
  OBVIOUS
<1>1. TypeOK'
  BY TypeOKInductive DEF IInv
<1>2. ASSUME NEW w \in Workers, NEW s \in States,
             AddDocument(w, s) \/ Callback(w, s) \/ CallbackRefused(w, s)
      PROVE  IInv'
  BY <1>1, <1>2, AddDocumentIInv, LocalSteps
<1>3. ASSUME NEW w \in Workers, Step(w) \/ Fail(w) \/ Kill(w)
      PROVE  IInv'
  <2>1. st[w] \in States
    BY DEF IInv, TypeOK
  <2> QED
    BY <1>1, <1>3, <2>1, AddPointerIInv, WinMarkerIInv, ReadOpenIInv, StoreDocumentIInv,
       LoginIInv, LocalSteps DEF Step
<1>4. CASE RedisRestart
  BY <1>1, <1>4, RedisRestartIInv
<1>5. CASE Tick
  BY <1>1, <1>5, TickIInv
<1>6. CASE UNCHANGED vars
  BY <1>6 DEF vars, keys, request, history, IInv, TypeOK, OnlyIssued, CopiesCompleted,
     MarkerOutlives, Alone, OneHolder, Closed, NoHolderAfterWin, RedeemersWon,
     UsedByWinner, SingleUse, UsedMeansConsumed, Open
<1> QED
  BY <1>2, <1>3, <1>4, <1>5, <1>6 DEF Next

LEMMA InvHolds == Spec => []IInv
  BY InitIInv, InvInductive, PTL DEF Spec

------------------------------------------------------------------------------
(* A login attempt is redeemed at most once, whatever the workers interleave *)
(* and wherever they are killed, unless a marker was set for less time than   *)
(* its request may run.                                                       *)
THEOREM RedeemedOnce == Spec => []SingleUse
<1>1. IInv => SingleUse
  BY DEF IInv
<1> QED
  BY <1>1, InvHolds, PTL

(* "Already used" is said only of a session that some request consumed. *)
THEOREM UsedIsTrue == Spec => []UsedMeansConsumed
<1>1. IInv => UsedMeansConsumed
  BY DEF IInv
<1> QED
  BY <1>1, InvHolds, PTL

(* A stored document that was used stays used until it expires. *)
THEOREM StaysUsed == Spec => NeverReopened
<1> DEFINE Closes == \A s \in States :
          sessLeft[s] > 0 /\ Used(sessDoc[s]) /\ sessLeft'[s] > 0 => sessDoc'[s].completed
<1>1. IInv /\ [Next]_vars => [Closes]_vars
  <2> SUFFICES ASSUME IInv, Next PROVE Closes
    OBVIOUS
  <2> USE DEF IInv, TypeOK, CopiesCompleted, Used, Closes
  <2>1. ASSUME NEW w \in Workers, NEW s \in States, AddDocument(w, s) PROVE Closes
    BY <2>1 DEF AddDocument, OnlyIssued
  <2>2. ASSUME NEW w \in Workers, StoreDocument(w) PROVE Closes
    BY <2>2 DEF StoreDocument, AfterStore, Holding, Redeeming
  <2>3. CASE UNCHANGED sessDoc
    BY <2>3
  <2> QED
    BY <2>1, <2>2, <2>3 DEF Next, Step, Callback, CallbackRefused, AddPointer,
       LookupPointer, ReadTtl, WinMarker, LoseMarker, ReadOpen, ReadClosed, Redeem,
       FetchUser, Login, LookAgain, PointerGone, Inspect, Fail, Kill, RedisRestart,
       Tick, keys
<1> QED
  BY <1>1, InvHolds, PTL DEF Spec, NeverReopened

(* The workers and the store implement the one-time login: drawing, voiding, *)
(* redeeming and answering are the only visible steps, each within the        *)
(* promise.                                                                   *)
THEOREM Implements == Spec => ImplementsOneTimeLogin
<1> USE DEF OneTime!Next, OneTime!vars, OneTime!Draw, OneTime!Void, OneTime!Redeem,
            OneTime!Answer
<1>1. Init => OneTime!Init
  BY DEF Init, OneTime!Init
<1>2. IInv /\ [Next]_vars => [OneTime!Next]_(OneTime!vars)
  <2> SUFFICES ASSUME IInv, Next PROVE [OneTime!Next]_(OneTime!vars)
    BY DEF vars, history
  <2> USE DEF IInv, TypeOK, OnlyIssued
  <2>1. ASSUME NEW w \in Workers, NEW s \in States, AddDocument(w, s)
        PROVE  OneTime!Draw(s)
    BY <2>1 DEF AddDocument
  <2>2. ASSUME NEW w \in Workers, WinMarker(w)
        PROVE  OneTime!Void(st[w]) \/ UNCHANGED OneTime!vars
    <3>1. st[w] \in issued
      BY <2>2 DEF WinMarker, Inside
    <3>2. CASE Expiry(ttl[w]) <= budget[w]
      BY <2>2, <3>1, <3>2, Zenon DEF WinMarker
    <3>3. CASE ~(Expiry(ttl[w]) <= budget[w])
      BY <2>2, <3>3 DEF WinMarker
    <3> QED
      BY <3>2, <3>3
  <2>3. ASSUME NEW w \in Workers, StoreDocument(w)
        PROVE  OneTime!Redeem(st[w]) \/ UNCHANGED OneTime!vars
    BY <2>3 DEF StoreDocument, AfterStore, Inside, Claiming, Holding, NoHolderAfterWin
  <2>4. ASSUME NEW w \in Workers, Login(w)
        PROVE  OneTime!Answer(st[w])
    BY <2>4 DEF Login, RedeemersWon, Redeeming
  <2>5. CASE UNCHANGED history
    BY <2>5 DEF history
  <2> QED
    BY <2>1, <2>2, <2>3, <2>4, <2>5 DEF Next, Step, Callback, CallbackRefused,
       AddPointer, LookupPointer, ReadTtl, LoseMarker, ReadOpen, ReadClosed, Redeem,
       FetchUser, LookAgain, PointerGone, Inspect, Fail, Kill, RedisRestart, Tick
<1> QED
  BY <1>1, <1>2, InvHolds, PTL DEF Spec, ImplementsOneTimeLogin, OneTime!Spec

------------------------------------------------------------------------------
(* Every win is owed one login at most: to a request that is redeeming, or    *)
(* that already answered.                                                     *)
Redeemers(s) == {w \in Workers : pc[w] \in Redeeming /\ st[w] = s}

Owed == \A s \in States : logins[s] + Cardinality(Redeemers(s)) <= wins[s]

LEMMA RedeemersFinite ==
    ASSUME NEW s \in States
    PROVE  IsFiniteSet(Redeemers(s)) /\ Cardinality(Redeemers(s)) \in Nat
<1>1. Redeemers(s) \in SUBSET Workers
  BY DEF Redeemers
<1> QED
  BY <1>1, FS_Subset, FS_CardinalityType, WorkersAssumption

LEMMA InitOwed == Init => Owed
<1> SUFFICES ASSUME Init, NEW s \in States
             PROVE  logins[s] + Cardinality(Redeemers(s)) <= wins[s]
  BY DEF Owed
<1>1. Redeemers(s) = {}
  BY DEF Init, Redeemers, Redeeming
<1> QED
  BY <1>1, FS_EmptySet DEF Init

(* A step in which no request joins the redeemers, but for one that wins, and *)
(* one that logs in leaves them.                                              *)
LEMMA FewerRedeemers ==
    ASSUME TypeOK, TypeOK', Owed,
           \A s \in States : Redeemers(s)' \subseteq Redeemers(s),
           UNCHANGED <<wins, logins>>
    PROVE  Owed'
<1> SUFFICES ASSUME NEW s \in States
             PROVE  logins'[s] + Cardinality(Redeemers(s)') <= wins'[s]
  BY DEF Owed
<1>1. Redeemers(s)' \in SUBSET Redeemers(s)
  OBVIOUS
<1>2. Cardinality(Redeemers(s)') <= Cardinality(Redeemers(s))
  BY <1>1, RedeemersFinite, FS_Subset
<1>3. Cardinality(Redeemers(s)') \in Nat
  BY <1>1, RedeemersFinite, FS_Subset, FS_CardinalityType
<1>4. logins[s] + Cardinality(Redeemers(s)) <= wins[s]
  BY DEF Owed
<1> QED
  BY <1>2, <1>3, <1>4, RedeemersFinite DEF TypeOK

LEMMA StoreOwed ==
    ASSUME TypeOK, TypeOK', Owed, NEW w \in Workers, StoreDocument(w)
    PROVE  Owed'
<1> USE DEF StoreDocument, AfterStore, Goto
<1>1. CASE pc[w] = "mark_set"
  <2> SUFFICES ASSUME NEW s \in States
               PROVE  logins'[s] + Cardinality(Redeemers(s)') <= wins'[s]
    BY DEF Owed
  <2>1. logins[s] + Cardinality(Redeemers(s)) <= wins[s]
    BY DEF Owed
  <2>2. CASE s = st[w]
    <3>1. Redeemers(s)' = Redeemers(s) \cup {w} /\ w \notin Redeemers(s)
      BY <1>1, <2>2 DEF Redeemers, Redeeming, TypeOK
    <3>2. Cardinality(Redeemers(s)') = Cardinality(Redeemers(s)) + 1
      BY <3>1, RedeemersFinite, FS_AddElement
    <3> QED
      BY <1>1, <2>1, <2>2, <3>2, RedeemersFinite DEF TypeOK
  <2>3. CASE s # st[w]
    <3>1. Redeemers(s)' = Redeemers(s)
      BY <1>1, <2>3 DEF Redeemers, Redeeming, TypeOK
    <3> QED
      BY <1>1, <2>1, <2>3, <3>1 DEF TypeOK
  <2> QED
    BY <2>2, <2>3
<1>2. CASE pc[w] # "mark_set"
  <2>1. \A s \in States : Redeemers(s)' \subseteq Redeemers(s)
    BY <1>2 DEF Redeemers, Redeeming, TypeOK
  <2> QED
    BY <1>2, <2>1, FewerRedeemers
<1> QED
  BY <1>1, <1>2

LEMMA LoginOwed ==
    ASSUME TypeOK, TypeOK', Owed, NEW w \in Workers, Login(w)
    PROVE  Owed'
<1> USE DEF Login, End
<1> SUFFICES ASSUME NEW s \in States
             PROVE  logins'[s] + Cardinality(Redeemers(s)') <= wins'[s]
  BY DEF Owed
<1>1. logins[s] + Cardinality(Redeemers(s)) <= wins[s]
  BY DEF Owed
<1>2. CASE s = st[w]
  <2>1. Redeemers(s)' = Redeemers(s) \ {w} /\ w \in Redeemers(s)
    BY <1>2 DEF Redeemers, Redeeming, TypeOK
  <2>2. Cardinality(Redeemers(s)') = Cardinality(Redeemers(s)) - 1
    BY <2>1, RedeemersFinite, FS_RemoveElement
  <2> QED
    BY <1>1, <1>2, <2>2, RedeemersFinite DEF TypeOK
<1>3. CASE s # st[w]
  <2>1. Redeemers(s)' = Redeemers(s)
    BY <1>3 DEF Redeemers, Redeeming, TypeOK
  <2> QED
    BY <1>1, <1>3, <2>1 DEF TypeOK
<1> QED
  BY <1>2, <1>3

LEMMA OwedInductive == IInv /\ Owed /\ [Next]_vars => Owed'
<1> SUFFICES ASSUME IInv, Owed, [Next]_vars PROVE Owed'
  OBVIOUS
<1>1. TypeOK /\ TypeOK'
  BY TypeOKInductive DEF IInv
<1>2. ASSUME NEW w \in Workers, StoreDocument(w) PROVE Owed'
  BY <1>1, <1>2, StoreOwed
<1>3. ASSUME NEW w \in Workers, Login(w) PROVE Owed'
  BY <1>1, <1>3, LoginOwed
<1>4. ASSUME NEW w \in Workers, NEW s \in States,
             AddDocument(w, s) \/ Callback(w, s) \/ CallbackRefused(w, s)
      PROVE  Owed'
  <2>1. \A r \in States : Redeemers(r)' \subseteq Redeemers(r)
    BY <1>1, <1>4 DEF AddDocument, Callback, CallbackRefused, Begin, End, Redeemers,
       Redeeming, TypeOK
  <2>2. UNCHANGED <<wins, logins>>
    BY <1>4 DEF AddDocument, Callback, CallbackRefused, history
  <2> QED
    BY <1>1, <2>1, <2>2, FewerRedeemers
<1>5. ASSUME NEW w \in Workers, Step(w) \/ Fail(w) \/ Kill(w),
             ~StoreDocument(w), ~Login(w)
      PROVE  Owed'
  <2>1. \A r \in States : Redeemers(r)' \subseteq Redeemers(r)
    BY <1>1, <1>5 DEF Step, AddPointer, LookupPointer, ReadTtl, AfterTtl, WinMarker,
       LoseMarker, ReadOpen, ReadClosed, Redeem, FetchUser, LookAgain, PointerGone,
       Inspect, Fail, Kill, Goto, End, Redeemers, Redeeming, TypeOK
  <2>2. UNCHANGED <<wins, logins>>
    BY <1>5 DEF Step, AddPointer, LookupPointer, ReadTtl, WinMarker, LoseMarker,
       ReadOpen, ReadClosed, Redeem, FetchUser, LookAgain, PointerGone, Inspect,
       Fail, Kill, history
  <2> QED
    BY <1>1, <2>1, <2>2, FewerRedeemers
<1>6. CASE RedisRestart \/ Tick \/ UNCHANGED vars
  <2>1. UNCHANGED <<pc, st, wins, logins>>
    BY <1>6 DEF RedisRestart, Tick, vars, request, history
  <2>2. \A r \in States : Redeemers(r)' \subseteq Redeemers(r)
    BY <2>1 DEF Redeemers
  <2> QED
    BY <1>1, <2>1, <2>2, FewerRedeemers
<1> QED
  BY <1>2, <1>3, <1>4, <1>5, <1>6 DEF Next

(* Tokens and user data reach Redis only for a consumed login, and there are *)
(* never more logins than wins.                                              *)
THEOREM LoginsAreWon == Spec => []TokensOnlyIfConsumed
<1>1. IInv /\ Owed => TokensOnlyIfConsumed
  <2> SUFFICES ASSUME IInv, Owed, NEW s \in States
               PROVE  /\ sessLeft[s] > 0 /\ (sessDoc[s].token \/ sessDoc[s].user) => wins[s] > 0
                      /\ logins[s] <= wins[s]
    BY DEF TokensOnlyIfConsumed
  <2>1. sessLeft[s] > 0 /\ (sessDoc[s].token \/ sessDoc[s].user) => wins[s] > 0
    BY DEF IInv, UsedByWinner, Used
  <2>2. logins[s] <= wins[s]
    BY RedeemersFinite DEF IInv, TypeOK, Owed
  <2> QED
    BY <2>1, <2>2
<1> QED
  BY <1>1, InvHolds, InitOwed, OwedInductive, PTL DEF Spec

------------------------------------------------------------------------------
(* No marker is left behind *)

(* A request that claims or redeems s *)
Serving(s)      == \E w \in Workers : st[w] = s /\ pc[w] \in Claiming \cup Redeeming
RedeemerUp(s)   == \E w \in Workers : st[w] = s /\ pc[w] \in Redeeming

(* The single-use marker of a login that has not completed belongs to a      *)
(* request that is still at work, while the session lives: the safety half   *)
(* of MarkerLeadsToLogin, whose other half is that requests go on.           *)
MarkerHeld ==
    \A s \in States :
       ~faults /\ usedLeft[s] > 0 /\ sessLeft[s] > 0 => logins[s] > 0 \/ Serving(s)

(* A consumed session has its login, or a request that redeems the code. *)
WinnerUp == \A s \in States : ~faults /\ wins[s] > 0 => logins[s] > 0 \/ RedeemerUp(s)

MarkerOfIssued == \A s \in States \ issued : usedLeft[s] = 0

HeldInv == MarkerHeld /\ WinnerUp /\ MarkerOfIssued

LEMMA InitHeld == Init => HeldInv
  BY DEF Init, HeldInv, MarkerHeld, WinnerUp, MarkerOfIssued

(* A step that gives up no claim and no redemption keeps both. *)
LEMMA ServesOn ==
    ASSUME TypeOK, TypeOK', HeldInv,
           faults' = faults, wins' = wins, issued \subseteq issued',
           \A s \in States : /\ usedLeft'[s] > 0 => usedLeft[s] > 0
                             /\ sessLeft'[s] > 0 /\ s \in issued => sessLeft[s] > 0
                             /\ logins'[s] >= logins[s],
           \A v \in Workers : pc[v] \in Claiming
             => pc'[v] \in Claiming \cup Redeeming /\ st'[v] = st[v],
           \A v \in Workers : pc[v] \in Redeeming
             => \/ pc'[v] \in Redeeming /\ st'[v] = st[v]
                \/ logins'[st[v]] > 0
    PROVE  HeldInv'
<1>1. \A s \in States : RedeemerUp(s) => RedeemerUp(s)' \/ logins'[s] > 0
  BY DEF RedeemerUp
<1>2. \A s \in States : Serving(s) => Serving(s)' \/ logins'[s] > 0
  BY DEF Serving
<1>3. MarkerOfIssued'
  BY DEF HeldInv, MarkerOfIssued, TypeOK
<1>4. WinnerUp'
  BY <1>1 DEF HeldInv, WinnerUp, TypeOK
<1>5. MarkerHeld'
  BY <1>2 DEF HeldInv, MarkerHeld, MarkerOfIssued, TypeOK
<1> QED
  BY <1>3, <1>4, <1>5 DEF HeldInv

LEMMA WinMarkerHeld ==
    ASSUME IInv, TypeOK', HeldInv, NEW w \in Workers, WinMarker(w)
    PROVE  HeldInv'
<1> USE DEF WinMarker, Goto, HeldInv
<1>1. st[w] \in States /\ st[w] \in issued /\ pc[w] = "claim" /\ pc' = [pc EXCEPT ![w] = "read"]
  BY DEF IInv, TypeOK, OnlyIssued, Inside
<1>2. MarkerOfIssued'
  BY <1>1 DEF MarkerOfIssued, IInv, TypeOK
<1>3. \A s \in States : RedeemerUp(s) => RedeemerUp(s)'
  BY <1>1 DEF RedeemerUp, Redeeming, IInv, TypeOK
<1>4. WinnerUp'
  BY <1>3 DEF WinnerUp
<1>5. Serving(st[w])' /\ \A s \in States : Serving(s) => Serving(s)'
  BY <1>1 DEF Serving, Claiming, Redeeming, IInv, TypeOK
<1>6. MarkerHeld'
  BY <1>1, <1>5 DEF MarkerHeld, IInv, TypeOK
<1> QED
  BY <1>2, <1>4, <1>6

LEMMA ReadClosedHeld ==
    ASSUME IInv, TypeOK', HeldInv, NEW w \in Workers, ReadClosed(w)
    PROVE  HeldInv'
<1> USE DEF ReadClosed, Goto, HeldInv, keys, history
<1>1. pc[w] = "read" /\ pc' = [pc EXCEPT ![w] = "again"]
  OBVIOUS
<1>2. \A s \in States : RedeemerUp(s) => RedeemerUp(s)'
  BY <1>1 DEF RedeemerUp, Redeeming, IInv, TypeOK
<1>3. WinnerUp' /\ MarkerOfIssued'
  BY <1>2 DEF WinnerUp, MarkerOfIssued
<1>4. MarkerHeld'
  <2> SUFFICES ASSUME NEW s \in States, ~faults, usedLeft[s] > 0, sessLeft[s] > 0, logins[s] = 0
               PROVE  Serving(s)'
    BY DEF MarkerHeld, IInv, TypeOK
  <2>1. CASE s = st[w]
    <3>1. wins[s] > 0
      BY <2>1 DEF Open, IInv, UsedByWinner
    <3>2. RedeemerUp(s)'
      BY <1>2, <3>1 DEF WinnerUp
    <3> QED
      BY <3>2 DEF RedeemerUp, Serving
  <2>2. CASE s # st[w]
    BY <1>1, <2>2 DEF MarkerHeld, Serving, IInv, TypeOK
  <2> QED
    BY <2>1, <2>2
<1> QED
  BY <1>3, <1>4

LEMMA StoreDocumentHeld ==
    ASSUME IInv, TypeOK', HeldInv, NEW w \in Workers, StoreDocument(w)
    PROVE  HeldInv'
<1> USE DEF StoreDocument, Goto, HeldInv
<1>1. pc[w] \in DOMAIN AfterStore /\ pc'[w] \in Redeeming /\ st' = st
      /\ \A v \in Workers \ {w} : pc'[v] = pc[v]
  BY DEF AfterStore, Redeeming, IInv, TypeOK
<1>2. \A s \in States : RedeemerUp(s) => RedeemerUp(s)'
  BY <1>1 DEF RedeemerUp
<1>3. RedeemerUp(st[w])' /\ \A s \in States : s # st[w] => wins'[s] = wins[s] /\ sessLeft'[s] = sessLeft[s]
  BY <1>1 DEF RedeemerUp, IInv, TypeOK
<1>4. WinnerUp' /\ MarkerOfIssued'
  BY <1>2, <1>3 DEF WinnerUp, MarkerOfIssued
<1>5. MarkerHeld'
  <2>1. \A s \in States : Serving(s) => Serving(s)'
    BY <1>1 DEF Serving
  <2>2. Serving(st[w])'
    BY <1>3 DEF RedeemerUp, Serving
  <2> QED
    BY <1>3, <2>1, <2>2 DEF MarkerHeld
<1> QED
  BY <1>4, <1>5

LEMMA HeldInductive == IInv /\ HeldInv /\ [Next]_vars => HeldInv'
<1> SUFFICES ASSUME IInv, HeldInv, [Next]_vars PROVE HeldInv'
  OBVIOUS
<1> USE DEF Claiming, Redeeming
<1>1. TypeOK /\ TypeOK'
  BY TypeOKInductive DEF IInv
<1>2. ASSUME NEW w \in Workers, WinMarker(w) \/ ReadClosed(w) \/ StoreDocument(w)
      PROVE  HeldInv'
  BY <1>1, <1>2, WinMarkerHeld, ReadClosedHeld, StoreDocumentHeld
<1>3. ASSUME NEW w \in Workers, NEW s \in States, AddDocument(w, s)
      PROVE  HeldInv'
  BY <1>1, <1>3, ServesOn DEF AddDocument, Begin, TypeOK
<1>4. ASSUME NEW w \in Workers, NEW s \in States, Callback(w, s) \/ CallbackRefused(w, s)
      PROVE  HeldInv'
  BY <1>1, <1>4, ServesOn DEF Callback, CallbackRefused, Begin, End, keys, history, TypeOK
<1>5. ASSUME NEW w \in Workers, AddPointer(w) \/ LookupPointer(w) \/ ReadTtl(w) \/ LoseMarker(w)
      PROVE  HeldInv'
  BY <1>1, <1>5, ServesOn DEF AddPointer, LookupPointer, ReadTtl, AfterTtl, LoseMarker,
     Goto, End, keys, history, TypeOK
<1>6. ASSUME NEW w \in Workers,
             ReadOpen(w) \/ Redeem(w) \/ FetchUser(w) \/ LookAgain(w) \/ PointerGone(w) \/ Inspect(w)
      PROVE  HeldInv'
  BY <1>1, <1>6, ServesOn DEF ReadOpen, Redeem, FetchUser, LookAgain, PointerGone, Inspect,
     Goto, End, keys, history, TypeOK
<1>7. ASSUME NEW w \in Workers, Login(w) PROVE HeldInv'
  <2>1. logins'[st[w]] > 0 /\ \A s \in States : logins'[s] >= logins[s]
    BY <1>1, <1>7 DEF Login, TypeOK
  <2> QED
    BY <1>1, <1>7, <2>1, ServesOn DEF Login, End, keys, TypeOK
<1>8. ASSUME faults, faults' PROVE HeldInv' \/ ~MarkerOfIssued'
  BY <1>8 DEF HeldInv, MarkerHeld, WinnerUp
<1>9. ASSUME NEW w \in Workers, Fail(w) \/ Kill(w) PROVE HeldInv'
  BY <1>8, <1>9 DEF Fail, Kill, keys, history, HeldInv, MarkerOfIssued
<1>10. CASE RedisRestart
  BY <1>8, <1>10 DEF RedisRestart, history, HeldInv, MarkerOfIssued
<1>11. CASE Tick
  BY <1>1, <1>11, ServesOn DEF Tick, Down, history, TypeOK
<1>12. CASE UNCHANGED vars
  BY <1>1, <1>12, ServesOn DEF vars, keys, request, history, TypeOK
<1> QED
  BY <1>2, <1>3, <1>4, <1>5, <1>6, <1>7, <1>9, <1>10, <1>11, <1>12 DEF Next, Step

(* While no request fails or is killed, for any logins and workers: as long  *)
(* as the session lives, the marker that consume_session set belongs to a    *)
(* request that is still claiming or redeeming it, until a login completes.  *)
THEOREM MarkerNotOrphaned == Spec => []MarkerHeld
<1>1. HeldInv => MarkerHeld
  BY DEF HeldInv
<1> QED
  BY <1>1, InvHolds, InitHeld, HeldInductive, PTL DEF Spec

------------------------------------------------------------------------------
(* When a marker lapses *)

(* The proviso of SingleUse bites only at the end of a session: a marker that *)
(* its request could outlive is set for an open session in the last moments  *)
(* of its life, no longer than a request may run and the rounding of TTL.    *)
LapsesLate ==
    [][\A s \in States :
          lapsed'[s] /\ ~lapsed[s] /\ Open(s) => sessLeft[s] <= Harakiri + 1]_vars

(* The reply a claim holds is still an upper bound: while the document is    *)
(* open nobody has stored it again.                                          *)
EndKnown ==
    \A w \in Workers :
       /\ budget[w] <= Harakiri
       /\ pc[w] = "claim" /\ Open(st[w]) => sessLeft[st[w]] <= 2 * ttl[w] + 1

LEMMA InitEndKnown == Init => EndKnown
  BY HarakiriAssumption DEF Init, EndKnown

(* A step of w that opens no session and makes none live longer. *)
LEMMA EndStillKnown ==
    ASSUME TypeOK, TypeOK', EndKnown, NEW w \in Workers,
           \A v \in Workers \ {w} :
              pc'[v] = pc[v] /\ st'[v] = st[v] /\ ttl'[v] = ttl[v] /\ budget'[v] = budget[v],
           budget'[w] <= Harakiri,
           \A v \in Workers : pc[v] = "claim" /\ Open(st[v])'
             => Open(st[v]) /\ sessLeft'[st[v]] <= sessLeft[st[v]],
           pc'[w] = "claim" /\ Open(st[w])' => sessLeft'[st'[w]] <= 2 * ttl'[w] + 1
    PROVE  EndKnown'
<1> SUFFICES ASSUME NEW v \in Workers
             PROVE  /\ budget'[v] <= Harakiri
                    /\ pc'[v] = "claim" /\ Open(st[v])' => sessLeft'[st'[v]] <= 2 * ttl'[v] + 1
  BY DEF EndKnown
<1>1. CASE v = w
  BY <1>1
<1>2. CASE v # w
  <2>1. sessLeft'[st[v]] \in Nat /\ sessLeft[st[v]] \in Nat /\ ttl[v] \in Nat
    BY DEF TypeOK
  <2> QED
    BY <1>2, <2>1 DEF EndKnown
<1> QED
  BY <1>1, <1>2

LEMMA EndKnownInductive == IInv /\ EndKnown /\ [Next]_vars => EndKnown'
<1> SUFFICES ASSUME IInv, EndKnown, [Next]_vars PROVE EndKnown'
  OBVIOUS
<1>t. TypeOK /\ TypeOK'
  BY TypeOKInductive DEF IInv
<1>b. \A w \in Workers : budget[w] <= Harakiri
  BY DEF EndKnown
<1> USE HarakiriAssumption
<1>1. ASSUME NEW w \in Workers, NEW s \in States, AddDocument(w, s) PROVE EndKnown'
  <2>1. \A v \in Workers : pc[v] = "claim" => st[v] # s
    BY <1>1 DEF AddDocument, IInv, OnlyIssued, Inside
  <2>2. \A v \in Workers : pc[v] = "claim" /\ Open(st[v])'
          => Open(st[v]) /\ sessLeft'[st[v]] <= sessLeft[st[v]]
    BY <1>1, <1>t, <2>1 DEF AddDocument, Begin, Open, TypeOK
  <2>3. /\ pc'[w] = "pointer" /\ budget'[w] = Harakiri
        /\ \A v \in Workers \ {w} :
              pc'[v] = pc[v] /\ st'[v] = st[v] /\ ttl'[v] = ttl[v] /\ budget'[v] = budget[v]
    BY <1>1, <1>t DEF AddDocument, Begin, TypeOK
  <2> QED
    BY <1>t, <2>2, <2>3, EndStillKnown
<1>2. ASSUME NEW w \in Workers, NEW s \in States, Callback(w, s) \/ CallbackRefused(w, s)
      PROVE  EndKnown'
  <2>1. sessLeft' = sessLeft /\ sessDoc' = sessDoc /\ ttl'[w] \in Nat
    BY <1>2, <1>t DEF Callback, CallbackRefused, keys, TypeOK
  <2>2. \A v \in Workers : pc[v] = "claim" /\ Open(st[v])'
          => Open(st[v]) /\ sessLeft'[st[v]] <= sessLeft[st[v]]
    <3>1. ASSUME NEW v \in Workers, pc[v] = "claim", Open(st[v])'
          PROVE  Open(st[v]) /\ sessLeft'[st[v]] <= sessLeft[st[v]]
      <4>1. v # w /\ st'[v] = st[v]
        BY <1>2, <1>t, <3>1 DEF Callback, CallbackRefused, Begin, TypeOK
      <4> QED
        BY <1>t, <2>1, <3>1, <4>1 DEF Open, TypeOK
    <3> QED
      BY <3>1
  <2>3. /\ pc'[w] # "claim" /\ budget'[w] <= Harakiri
        /\ \A v \in Workers \ {w} :
              pc'[v] = pc[v] /\ st'[v] = st[v] /\ ttl'[v] = ttl[v] /\ budget'[v] = budget[v]
    BY <1>2, <1>t DEF Callback, CallbackRefused, Begin, End, TypeOK
  <2> QED
    BY <1>t, <2>2, <2>3, EndStillKnown
<1>3. ASSUME NEW w \in Workers, ReadTtl(w) PROVE EndKnown'
  <2>1. PICK t \in TtlReplies(sessLeft[st[w]]) : ttl' = [ttl EXCEPT ![w] = t]
    BY <1>3 DEF ReadTtl
  <2>2. sessLeft[st[w]] <= 2 * t + 1 /\ ttl'[w] = t
    BY <2>1, <1>t DEF TtlReplies, TypeOK
  <2>3. sessLeft' = sessLeft /\ sessDoc' = sessDoc /\ st' = st /\ budget' = budget
    BY <1>3 DEF ReadTtl, keys
  <2> QED
    BY <1>3, <1>b, <1>t, <2>1, <2>2, <2>3, EndStillKnown DEF ReadTtl, Goto, Open, TypeOK
<1>4. ASSUME NEW w \in Workers, StoreDocument(w) PROVE EndKnown'
  <2>1. doc[w].completed /\ sessDoc' = [sessDoc EXCEPT ![st[w]] = doc[w]]
    BY <1>4 DEF StoreDocument, AfterStore, IInv, CopiesCompleted, Holding, Redeeming
  <2>2. ~Open(st[w])'
    BY <1>4, <1>t, <2>1 DEF StoreDocument, Open, Used, TypeOK
  <2>3. \A v \in Workers : pc[v] = "claim" /\ Open(st[v])'
          => Open(st[v]) /\ sessLeft'[st[v]] <= sessLeft[st[v]]
    BY <1>4, <1>t, <2>2 DEF StoreDocument, Open, TypeOK
  <2> QED
    BY <1>4, <1>b, <1>t, <2>2, <2>3, EndStillKnown DEF StoreDocument, Goto, AfterStore, TypeOK
<1>5. ASSUME NEW w \in Workers,
             \/ AddPointer(w) \/ LookupPointer(w) \/ WinMarker(w) \/ LoseMarker(w)
             \/ ReadOpen(w) \/ ReadClosed(w)
      PROVE  EndKnown'
  BY <1>5, <1>b, <1>t, EndStillKnown DEF AddPointer, LookupPointer, WinMarker, LoseMarker,
     ReadOpen, ReadClosed, Goto, End, keys, Open, TypeOK
<1>6. ASSUME NEW w \in Workers,
             \/ Redeem(w) \/ FetchUser(w) \/ Login(w) \/ LookAgain(w) \/ PointerGone(w)
             \/ Inspect(w) \/ Fail(w) \/ Kill(w)
      PROVE  EndKnown'
  BY <1>6, <1>b, <1>t, EndStillKnown DEF Redeem, FetchUser, Login, LookAgain, PointerGone,
     Inspect, Fail, Kill, Goto, End, keys, Open, TypeOK
<1>7. CASE RedisRestart
  BY <1>7, <1>b, <1>t DEF RedisRestart, request, EndKnown, Open, TypeOK
<1>8. CASE Tick
  BY <1>8, <1>b, <1>t DEF Tick, Down, EndKnown, Open, TypeOK
<1>9. CASE UNCHANGED vars
  BY <1>9 DEF vars, keys, request, EndKnown, Open
<1> QED
  BY <1>1, <1>2, <1>3, <1>4, <1>5, <1>6, <1>7, <1>8, <1>9 DEF Next, Step

(* For any logins, workers and limits, with or without failures: the marker  *)
(* of an open session lapses only if the session had no longer to live than  *)
(* a request may run, give or take the rounding of TTL.                      *)
THEOREM LapsesOnlyLate == Spec => LapsesLate
<1>1. TypeOK /\ EndKnown /\ [Next]_vars
        => [\A s \in States :
              lapsed'[s] /\ ~lapsed[s] /\ Open(s) => sessLeft[s] <= Harakiri + 1]_vars
  <2> SUFFICES ASSUME TypeOK, EndKnown, Next,
                      NEW s \in States, lapsed'[s], ~lapsed[s], Open(s)
               PROVE  sessLeft[s] <= Harakiri + 1
    OBVIOUS
  <2>1. PICK w \in Workers : WinMarker(w)
    BY DEF Next, Step, AddDocument, Callback, CallbackRefused, AddPointer, LookupPointer,
       ReadTtl, LoseMarker, ReadOpen, ReadClosed, StoreDocument, Redeem, FetchUser, Login,
       LookAgain, PointerGone, Inspect, Fail, Kill, RedisRestart, Tick, history
  <2>2. s = st[w] /\ Expiry(ttl[w]) <= budget[w]
    BY <2>1 DEF WinMarker, TypeOK
  <2>3. sessLeft[s] <= 2 * ttl[w] + 1 /\ budget[w] <= Harakiri
    BY <2>1, <2>2 DEF WinMarker, EndKnown
  <2>4. ttl[w] \in Nat /\ budget[w] \in Nat /\ sessLeft[s] \in Nat
    BY DEF TypeOK
  <2>5. 2 * ttl[w] <= Expiry(ttl[w]) /\ Expiry(ttl[w]) \in Nat
    BY <2>4, TTLAssumption DEF Expiry
  <2> QED
    BY <2>2, <2>3, <2>4, <2>5, HarakiriAssumption
<1>2. IInv => TypeOK
  BY DEF IInv
<1> QED
  BY <1>1, <1>2, InvHolds, InitEndKnown, EndKnownInductive, PTL DEF Spec, LapsesLate
==============================================================================
