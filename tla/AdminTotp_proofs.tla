--------------------------- MODULE AdminTotp_proofs ---------------------------
(***************************************************************************)
(* For any number of requests, secrets and time steps, the confirmed row   *)
(* holds a secret the admin has.  There are two reasons.  While the second *)
(* factor is not reset and SESSION_SECRET stays there is one secret: the   *)
(* rows of the table and of the requests agree on it, and all are readable,*)
(* so that none is replaced, however the requests overlap.  When they do   *)
(* not, a request holds the row as it is.                                  *)
(***************************************************************************)
EXTENDS AdminTotp, TLAPS

Known == \A r \in table : r.confirmed => \E c \in used : c.secret = r.secret

OneSecret ==
    /\ table = {} => \A h \in Handlers : saw[h] = {}
    /\ \A r, q \in table : r.secret = q.secret
    /\ \A h \in Handlers : \A r \in table, q \in saw[h] : q.secret = r.secret

AllReadable ==
    /\ \A r \in table : r.readable
    /\ \A h \in Handlers : \A q \in saw[h] : q.readable

Creating == \A h \in Handlers : pc[h] = "create" => saw[h] = {}

IInv == TypeOK /\ OneSecret /\ AllReadable /\ Creating /\ Known

------------------------------------------------------------------------------
LEMMA NewRowType ==
  \A s \in Secrets : /\ NewRow(s) \in Row
                     /\ NewRow(s).secret = s /\ ~NewRow(s).confirmed /\ NewRow(s).readable
  BY DEF NewRow, Row

LEMMA TypeOKInductive == TypeOK /\ [Next]_vars => TypeOK'
<1>. SUFFICES ASSUME TypeOK, [Next]_vars PROVE TypeOK'
  OBVIOUS
<1>. mode' = mode
  BY DEF Next, vars
<1>. USE DEF TypeOK, Pcs, Goto
<1>1. ASSUME NEW h \in Handlers, NEW r \in {"setup", "login"}, NEW c \in Entered \cup {NoCode},
             Request(h, r, c)
      PROVE  TypeOK'
  <2>1. c \in Codes \cup {NoCode}
    BY DEF Entered, Codes
  <2>. QED BY <2>1, <1>1 DEF Request
<1>2. ASSUME NEW h \in Handlers,
             LookAway(h) \/ LookAgainFails(h) \/ CreateFails(h) \/ Shown(h)
                \/ Reject(h) \/ Leave(h) \/ Abandon(h)
      PROVE  TypeOK'
  <2>1. End(h) /\ UNCHANGED <<table, drawn, now, used>>
    BY <1>2 DEF LookAway, LookAgainFails, CreateFails, Shown, Reject, Leave, Abandon
  <2>. QED BY <2>1 DEF End
<1>3. ASSUME NEW h \in Handlers, LookLogin(h) \/ LookSetup(h) PROVE TypeOK'
  BY <1>3 DEF LookLogin, LookSetup
<1>4. ASSUME NEW h \in Handlers, LookAgain(h) PROVE TypeOK'
  <2>1. SeenAgain(h) \in SUBSET Row
    BY DEF SeenAgain
  <2>. QED BY <2>1, <1>4 DEF LookAgain
<1>5. ASSUME NEW h \in Handlers, Insert(h) PROVE TypeOK'
  BY <1>5, NewRowType DEF Insert
<1>6. ASSUME NEW h \in Handlers, Replace(h) PROVE TypeOK'
  <2>1. PICK s \in Secrets \ drawn :
          /\ drawn' = drawn \cup {s}
          /\ table' = {[r EXCEPT !.secret = s, !.readable = TRUE,
                               !.last = IF \E q \in saw[h] : q.last # 0 THEN 0 ELSE r.last] :
                          r \in table}
          /\ saw' = [saw EXCEPT ![h] = {NewRow(s)}]
    BY <1>6 DEF Replace
  <2>2. ASSUME NEW n \in table' PROVE n \in Row
    <3>1. PICK r \in table :
            n = [r EXCEPT !.secret = s, !.readable = TRUE,
                          !.last = IF \E q \in saw[h] : q.last # 0 THEN 0 ELSE r.last]
      BY <2>1
    <3>2. (IF \E q \in saw[h] : q.last # 0 THEN 0 ELSE r.last) \in Nat
      BY DEF Row
    <3>. QED BY <3>1, <3>2 DEF Row
  <2>. QED BY <2>1, <2>2, <1>6, NewRowType DEF Replace
<1>7. ASSUME NEW h \in Handlers, Accept(h) PROVE TypeOK'
  <2>1. code[h] \in Codes /\ code[h].step \in Nat
    BY <1>7 DEF Accept, Codes
  <2>2. table' \subseteq Row
    BY <1>7, <2>1 DEF Accept, Row, Confirmed
  <2>. QED BY <2>1, <2>2, <1>7 DEF Accept
<1>8. CASE Reset
  BY <1>8 DEF Reset
<1>9. CASE Rekey
  BY <1>9 DEF Rekey, Row
<1>10. CASE Tick
  BY <1>10 DEF Tick
<1>11. CASE UNCHANGED vars
  BY <1>11 DEF vars
<1>. QED
  BY <1>1, <1>2, <1>3, <1>4, <1>5, <1>6, <1>7, <1>8, <1>9, <1>10, <1>11 DEF Next, Step

(* Every variable keeps its type, with resets and changes of the key too. *)
THEOREM TypeCorrect == Spec => []TypeOK
<1>1. Init => TypeOK
  BY DEF Init, TypeOK, Pcs
<1>. QED BY <1>1, TypeOKInductive, PTL DEF Spec

------------------------------------------------------------------------------
LEMMA ModeStays == [Next]_vars => mode' = mode
  BY DEF Next, vars

LEMMA IInvInductive == ~mode.resets /\ IInv /\ [Next]_vars => IInv'
<1>. SUFFICES ASSUME ~mode.resets, IInv, [Next]_vars PROVE IInv'
  OBVIOUS
<1>0. TypeOK /\ TypeOK'
  BY TypeOKInductive DEF IInv
<1>. DEFINE J == OneSecret /\ AllReadable /\ Creating /\ Known
<1>. SUFFICES J'
  BY <1>0 DEF IInv
<1>j. J
  BY DEF IInv
<1>. USE DEF OneSecret, AllReadable, Creating, Known, Goto
(* A request that ends forgets its row; the table stays. *)
<1>1. ASSUME NEW h \in Handlers,
             LookAway(h) \/ LookAgainFails(h) \/ CreateFails(h) \/ Shown(h)
                \/ Reject(h) \/ Leave(h) \/ Abandon(h)
      PROVE  J'
  <2>1. End(h) /\ UNCHANGED <<table, drawn, now, used>>
    BY <1>1 DEF LookAway, LookAgainFails, CreateFails, Shown, Reject, Leave, Abandon
  <2>. QED BY <2>1, <1>j, <1>0 DEF End, TypeOK
<1>2. ASSUME NEW h \in Handlers, NEW r \in {"setup", "login"}, NEW c \in Entered \cup {NoCode},
             Request(h, r, c)
      PROVE  J'
  BY <1>2, <1>j, <1>0 DEF Request, TypeOK
<1>3. ASSUME NEW h \in Handlers, LookLogin(h) \/ LookSetup(h) PROVE J'
  BY <1>3, <1>j, <1>0 DEF LookLogin, LookSetup, TypeOK
(* The object seen again is readable when there is one. *)
<1>4. ASSUME NEW h \in Handlers, LookAgain(h) PROVE J'
  <2>1. SeenAgain(h) = saw[h] \/ SeenAgain(h) = table
    BY DEF SeenAgain
  <2>2. pc'[h] = "create" => SeenAgain(h) = {}
    BY <1>4, <1>j, <1>0, <2>1 DEF LookAgain, Readable, TypeOK
  <2>3. table = {} => SeenAgain(h) = {}
    BY <1>j DEF SeenAgain
  <2>. HIDE DEF Goto
  <2>4. /\ saw' = [saw EXCEPT ![h] = SeenAgain(h)]
        /\ UNCHANGED <<table, used>>
        /\ \A g \in Handlers : g # h => pc'[g] = pc[g]
    BY <1>4, <1>0 DEF LookAgain, Goto, TypeOK
  <2>. QED BY <2>1, <2>2, <2>3, <2>4, <1>j, <1>0 DEF TypeOK
(* The first row: no request had one. *)
<1>5. ASSUME NEW h \in Handlers, Insert(h) PROVE J'
  BY <1>5, <1>j, <1>0, NewRowType DEF Insert, TypeOK
<1>6. ASSUME NEW h \in Handlers, Replace(h) PROVE J'
  BY <1>6, <1>j DEF Replace
(* The code accepted is of the secret in the table. *)
<1>7. ASSUME NEW h \in Handlers, Accept(h) PROVE J'
  <2>1. PICK q \in saw[h] : code[h].secret = q.secret
    BY <1>7 DEF Accept, Matches
  <2>2. \A r \in table : r.secret = code[h].secret
    BY <2>1, <1>j
  <2>3. \A r \in table' : r.secret = code[h].secret /\ r.readable
    <3>1. SUFFICES ASSUME NEW n \in table'
                   PROVE  n.secret = code[h].secret /\ n.readable
      OBVIOUS
    <3>2. PICK r \in table : n = [r EXCEPT !.last = code[h].step,
                                           !.confirmed = r.confirmed \/ ~Confirmed(saw[h])]
      BY <1>7 DEF Accept
    <3>3. r \in Row
      BY <1>0 DEF TypeOK
    <3>4. n.secret = r.secret /\ n.readable = r.readable
      BY <3>2, <3>3 DEF Row
    <3>. QED BY <3>4, <2>2, <1>j
  <2>4. code[h] \in used' /\ table # {} /\ saw' = saw /\ Creating'
    BY <1>7, <1>j, <1>0 DEF Accept, TypeOK
  <2>5. \A g \in Handlers : \A p \in saw[g] : p.secret = code[h].secret
    BY <2>2, <2>4, <1>j
  <2>6. table' # {}
    BY <2>4, <1>7 DEF Accept
  <2>. QED BY <2>3, <2>4, <2>5, <2>6, <1>j
<1>8. CASE Tick
  BY <1>8, <1>j DEF Tick
<1>9. CASE Reset \/ Rekey
  BY <1>9 DEF Reset, Rekey
<1>10. CASE UNCHANGED vars
  BY <1>10, <1>j DEF vars
<1>. QED
  BY <1>1, <1>2, <1>3, <1>4, <1>5, <1>6, <1>7, <1>8, <1>9, <1>10 DEF Next, Step

------------------------------------------------------------------------------
(* Requests that do not overlap.  The row in memory is the row of the table, *)
(* and the last step bounds every accepted code of the secret.               *)
Alone == \A g, h \in Handlers : pc[g] # "idle" /\ pc[h] # "idle" => g = h

Current == \A h \in Handlers : pc[h] \in {"again", "create", "check"} => saw[h] = table

Unconfirmed == \A h \in Handlers : pc[h] = "create" => \A r \in saw[h] : ~r.confirmed

OneRow == \A r, q \in table : r = q

Bounds ==
    /\ \A r \in table : r.secret \in drawn
    /\ \A c \in used : c.secret \in drawn
    /\ \A c \in used, r \in table : c.secret = r.secret => c.step <= r.last

SInv == TypeOK /\ Alone /\ Current /\ Unconfirmed /\ OneRow /\ Bounds /\ Known

Once == \A h \in Handlers : pc[h] # "in" /\ pc'[h] = "in" => code[h] \notin used

Forward == \A r \in table, q \in table' : q.secret = r.secret => q.last >= r.last

LEMMA AcceptSerial ==
  ASSUME SInv, NEW h \in Handlers, Accept(h)
  PROVE  (Alone /\ Current /\ Unconfirmed /\ OneRow /\ Bounds /\ Known)' /\ Once /\ Forward
<1>0. TypeOK /\ Alone /\ Current /\ OneRow /\ Bounds
  BY DEF SInv
<1>1. saw[h] = table /\ pc[h] = "check" /\ code[h] \in Codes /\ table \subseteq Row
  BY <1>0 DEF Accept, Current, TypeOK
<1>2. PICK r \in table : code[h].secret = r.secret /\ code[h].step > r.last
  BY <1>1 DEF Accept, Matches
<1>3. r \in Row /\ table = {r} /\ r.last \in Nat /\ code[h].step \in Nat
  BY <1>0, <1>1, <1>2 DEF OneRow, Row, Codes
<1>4. PICK n \in table' : n = [r EXCEPT !.last = code[h].step,
                                      !.confirmed = r.confirmed \/ ~Confirmed(saw[h])]
  BY <1>3 DEF Accept
<1>5. table' = {n} /\ n.secret = r.secret /\ n.last = code[h].step
  BY <1>3, <1>4 DEF Accept, Row
<1>6. used \subseteq Codes /\ used' = used \cup {code[h]} /\ drawn' = drawn /\ code' = code
  BY <1>0 DEF Accept, TypeOK
<1>7. Once
  <2>1. \A g \in Handlers : pc[g] # "in" /\ pc'[g] = "in" => g = h
    BY <1>0 DEF Accept, Goto, TypeOK
  <2>2. code[h] \notin used
    BY <1>0, <1>2, <1>3 DEF Bounds
  <2>. QED BY <2>1, <2>2 DEF Once
<1>8. Forward
  BY <1>2, <1>3, <1>5 DEF Forward
<1>9. Bounds'
  <2>1. \A c \in used : c.secret = r.secret => c.step <= r.last /\ c.step \in Nat
    BY <1>0, <1>2, <1>6 DEF Bounds, Codes
  <2>. QED BY <2>1, <1>0, <1>2, <1>3, <1>5, <1>6 DEF Bounds
<1>10. Alone' /\ Current' /\ Unconfirmed' /\ OneRow'
  <2>1. pc' = [pc EXCEPT ![h] = "in"] /\ saw' = saw
    BY DEF Accept, Goto
  <2>2. \A g \in Handlers : g # h => pc[g] = "idle"
    BY <1>0, <1>1 DEF Alone
  <2>. QED BY <2>1, <2>2, <1>0, <1>5 DEF Alone, Current, Unconfirmed, OneRow, TypeOK
<1>11. Known'
  BY <1>2, <1>5 DEF Accept, Known
<1>. QED BY <1>7, <1>8, <1>9, <1>10, <1>11

LEMMA SInvInductive == mode.serial /\ SInv /\ [Next]_vars => SInv' /\ Once /\ Forward
<1>. SUFFICES ASSUME mode.serial, SInv, [Next]_vars PROVE SInv' /\ Once /\ Forward
  OBVIOUS
<1>0. TypeOK /\ TypeOK'
  BY TypeOKInductive DEF SInv
<1>. DEFINE J == Alone /\ Current /\ Unconfirmed /\ OneRow /\ Bounds /\ Known
<1>. SUFFICES J' /\ Once /\ Forward
  BY <1>0 DEF SInv
<1>j. J
  BY DEF SInv
<1>last. \A r \in table : r.last \in Nat
  BY <1>0 DEF TypeOK, Row
<1>. USE DEF Alone, Current, Unconfirmed, OneRow, Bounds, Known, Once, Forward, Goto
<1>1. ASSUME NEW h \in Handlers,
             LookAway(h) \/ LookAgainFails(h) \/ CreateFails(h) \/ Shown(h)
                \/ Reject(h) \/ Leave(h) \/ Abandon(h)
      PROVE  J' /\ Once /\ Forward
  <2>1. End(h) /\ UNCHANGED <<table, drawn, now, used>>
    BY <1>1 DEF LookAway, LookAgainFails, CreateFails, Shown, Reject, Leave, Abandon
  <2>. QED BY <2>1, <1>j, <1>0, <1>last DEF End, TypeOK
<1>2. ASSUME NEW h \in Handlers, NEW r \in {"setup", "login"}, NEW c \in Entered \cup {NoCode},
             Request(h, r, c)
      PROVE  J' /\ Once /\ Forward
  BY <1>2, <1>j, <1>0, <1>last DEF Request, Quiet, TypeOK
<1>3. ASSUME NEW h \in Handlers, LookLogin(h) \/ LookSetup(h) PROVE J' /\ Once /\ Forward
  BY <1>3, <1>j, <1>0, <1>last DEF LookLogin, LookSetup, TypeOK
<1>4. ASSUME NEW h \in Handlers, LookAgain(h) PROVE J' /\ Once /\ Forward
  <2>1. SeenAgain(h) = table
    BY <1>4, <1>j DEF SeenAgain, LookAgain
  <2>2. PICK next \in {"check", "create"} : pc' = [pc EXCEPT ![h] = next]
    BY <1>4 DEF LookAgain
  <2>3. \A r \in table : ~r.confirmed
    BY <2>1, <1>4 DEF LookAgain, Confirmed
  <2>. QED BY <2>1, <2>2, <2>3, <1>4, <1>j, <1>0, <1>last DEF LookAgain, TypeOK
(* The new secret is in no row and no accepted code. *)
<1>5. ASSUME NEW h \in Handlers, Insert(h) PROVE J' /\ Once /\ Forward
  BY <1>5, <1>j, <1>0, NewRowType DEF Insert, TypeOK
<1>6. ASSUME NEW h \in Handlers, Replace(h) PROVE J' /\ Once /\ Forward
  <2>1. PICK s \in Secrets \ drawn :
          /\ drawn' = drawn \cup {s}
          /\ table' = {[r EXCEPT !.secret = s, !.readable = TRUE,
                               !.last = IF \E q \in saw[h] : q.last # 0 THEN 0 ELSE r.last] :
                          r \in table}
          /\ saw' = [saw EXCEPT ![h] = {NewRow(s)}]
    BY <1>6 DEF Replace
  <2>2. saw[h] = table /\ pc' = [pc EXCEPT ![h] = "check"] /\ code' = code /\ used' = used
    BY <1>6, <1>j DEF Replace
  <2>3. PICK r \in table : TRUE
    BY <1>6 DEF Replace
  <2>4. table = {r} /\ saw[h] = {r} /\ r \in Row
    BY <2>2, <2>3, <1>j, <1>0 DEF TypeOK
  <2>. DEFINE n == [r EXCEPT !.secret = s, !.readable = TRUE,
                           !.last = IF \E q \in saw[h] : q.last # 0 THEN 0 ELSE r.last]
  <2>5. table' = {n}
    BY <2>1, <2>4
  <2>6. ~r.confirmed
    BY <1>6, <1>j, <2>4 DEF Replace
  <2>7. n = NewRow(s)
    <3>. DEFINE l == IF \E q \in saw[h] : q.last # 0 THEN 0 ELSE r.last
    <3>1. l = 0
      BY <2>4
    <3>2. n = [r EXCEPT !.secret = s, !.readable = TRUE, !.last = 0]
      BY <3>1
    <3>. HIDE DEF n
    <3>. QED BY <3>2, <2>4, <2>6 DEF NewRow, Row
  <2>. HIDE DEF n
  <2>8. n.secret = s /\ s # r.secret /\ \A c \in used : c.secret # s
    BY <2>1, <2>3, <2>7, <1>j, NewRowType
  <2>9. \A g \in Handlers : g # h => pc[g] = "idle"
    BY <1>6, <1>j DEF Replace
  <2>10. Known'
    BY <2>1, <2>5, <2>7, NewRowType
  <2>11. (Alone /\ Current /\ Unconfirmed /\ OneRow /\ Bounds)' /\ Once /\ Forward
    BY <2>1, <2>2, <2>4, <2>5, <2>7, <2>8, <2>9, <1>j, <1>0 DEF TypeOK
  <2>. QED BY <2>10, <2>11
<1>7. ASSUME NEW h \in Handlers, Accept(h) PROVE J' /\ Once /\ Forward
  BY <1>7, AcceptSerial
<1>8. CASE Reset
  BY <1>8, <1>j DEF Reset, Quiet
<1>9. CASE Rekey
  <2>1. pc' = [h \in Handlers |-> "idle"] /\ used' = used /\ drawn' = drawn
    BY <1>9 DEF Rekey
  <2>2. ASSUME NEW n \in table'
        PROVE  \E r \in table : /\ n = [r EXCEPT !.readable = FALSE]
                                /\ n.secret = r.secret /\ n.last = r.last
                                /\ n.confirmed = r.confirmed
    BY <2>2, <1>9, <1>0 DEF Rekey, TypeOK, Row
  <2>3. Alone' /\ Current' /\ Unconfirmed' /\ Once
    BY <2>1
  <2>4. OneRow'
    BY <1>9, <1>j DEF Rekey
  <2>5. Bounds' /\ Known'
    BY <2>1, <2>2, <1>j
  <2>6. Forward
    BY <2>2, <1>j, <1>last
  <2>. QED BY <2>3, <2>4, <2>5, <2>6
<1>10. CASE Tick
  BY <1>10, <1>j, <1>last DEF Tick
<1>11. CASE UNCHANGED vars
  BY <1>11, <1>j, <1>last DEF vars
<1>. QED
  BY <1>1, <1>2, <1>3, <1>4, <1>5, <1>6, <1>7, <1>8, <1>9, <1>10, <1>11 DEF Next, Step

------------------------------------------------------------------------------
(* Each mode with its invariant. *)
Both == /\ ~mode.resets => IInv
        /\ mode.serial => SInv

LEMMA BothInit == Init => Both
  BY DEF Init, Both, IInv, SInv, TypeOK, Pcs, OneSecret, AllReadable, Creating, Known,
         Alone, Current, Unconfirmed, OneRow, Bounds

LEMMA BothInductive ==
  Both /\ [Next]_vars => Both' /\ [mode.serial => Once /\ Forward]_vars
<1>1. Both /\ [Next]_vars => Both'
  BY ModeStays, IInvInductive, SInvInductive DEF Both
<1>2. Both /\ [Next]_vars => [mode.serial => Once /\ Forward]_vars
  BY SInvInductive DEF Both
<1>. QED BY <1>1, <1>2

(* A confirmed row never holds a secret the admin does not have: however the *)
(* requests overlap while the second factor is not reset and the key stays,  *)
(* and across resets and changes of the key when they do not overlap.        *)
THEOREM KeepsTheKey == Spec => []NotLockedOut
<1>1. Both => NotLockedOut
  BY DEF Both, IInv, SInv, Known, NotLockedOut
<1>. QED BY <1>1, BothInit, BothInductive, PTL DEF Spec

(* When requests do not overlap a code counts once: resets, new enrolments   *)
(* and changes of the key included.                                          *)
THEOREM CountsOnce == Spec => CodeOnce
<1>1. Both /\ [Next]_vars => Both' /\ [mode.serial => Once]_vars
  BY BothInductive
<1>. QED BY <1>1, BothInit, PTL DEF Spec, CodeOnce, Once

(* Nor does the remembered step go back.                                     *)
THEOREM GoesForward == Spec => StepForward
<1>1. Both /\ [Next]_vars => Both' /\ [mode.serial => Forward]_vars
  BY BothInductive
<1>. QED BY <1>1, BothInit, PTL DEF Spec, StepForward, Forward
==============================================================================
