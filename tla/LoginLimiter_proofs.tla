------------------------- MODULE LoginLimiter_proofs -------------------------
(***************************************************************************)
(* For any number of requests, rows and minutes, the recent failures in the *)
(* window stay bounded.  The bound counts the failures recorded together   *)
(* with those still to be recorded, which makes it inductive: a request    *)
(* is admitted only below the limit or when no failure is recent, and      *)
(* recording moves one failure from the second set to the first.           *)
(***************************************************************************)
EXTENDS LoginLimiter, FiniteSetTheorems, WellFoundedInduction, TLAPS

LEMMA InitTypeOK == Init => TypeOK
  BY DEF Init, TypeOK, Pcs

LEMMA OlderType == \A n \in Nat : Older(n) \in Nat /\ Older(n) >= n
  BY MinutesAssumption DEF Older

LEMMA LongestType == \A m, n \in Int : Longest(m, n) \in Int /\ (n >= 0 => Longest(m, n) \in Nat)
  BY DEF Longest

LEMMA TypeOKInductive == TypeOK /\ [Next]_vars => TypeOK'
<1>. SUFFICES ASSUME TypeOK, [Next]_vars PROVE TypeOK'
  OBVIOUS
<1>. USE DEF TypeOK, Pcs
<1>1. ASSUME NEW h \in Handlers, Refuse(h) PROVE TypeOK'
  <2>1. PICK i \in Last : ban' = Longest(Ban - age[i], 0)
    BY <1>1 DEF Refuse
  <2>2. Ban - age[i] \in Int
    <3>1. i \in Ids
      BY <2>1 DEF Last
    <3>2. age[i] \in Nat
      BY <3>1
    <3>. QED BY <3>2, MinutesAssumption
  <2>3. ban' \in Nat
    <3>. DEFINE d == Ban - age[i]
    <3>1. d \in Int /\ ban' = Longest(d, 0)
      BY <2>1, <2>2
    <3>. HIDE DEF d
    <3>. QED BY <3>1, LongestType
  <2>. QED BY <2>3, <1>1 DEF Refuse
<1>2. ASSUME NEW h \in Handlers, Wrong(h) \/ Right(h) \/ Abort(h) PROVE TypeOK'
  BY <1>2 DEF Wrong, Right, Abort
<1>3. ASSUME NEW h \in Handlers, Record(h) PROVE TypeOK'
  BY <1>3 DEF Record
<1>4. ASSUME NEW h \in Handlers, Clear(h) PROVE TypeOK'
  BY <1>4 DEF Clear
<1>5. CASE Tick
  <2>1. age' \in [Ids -> Nat] /\ begun' \in [Handlers -> Nat]
    BY <1>5, OlderType DEF Tick
  <2>2. ban' \in Nat
    BY <1>5, LongestType DEF Tick
  <2>. QED BY <2>1, <2>2, <1>5 DEF Tick
<1>6. CASE UNCHANGED vars
  BY <1>6 DEF vars
<1>. QED BY <1>1, <1>2, <1>3, <1>4, <1>5, <1>6 DEF Next

(* Every variable keeps its type, whatever the limits. *)
THEOREM TypeCorrect == Spec => []TypeOK
<1>. QED BY InitTypeOK, TypeOKInductive, PTL DEF Spec

------------------------------------------------------------------------------
(* The counted sets are finite. *)
LEMMA Counted ==
  ASSUME TypeOK
  PROVE  /\ IsFiniteSet(InWindow) /\ IsFiniteSet(Recent) /\ IsFiniteSet(Recording)
         /\ Cardinality(InWindow) \in Nat
         /\ Cardinality(Recent) \in Nat
         /\ Cardinality(Recent) <= Cardinality(InWindow)
         /\ Cardinality(Recording) \in Nat
         /\ Cardinality(Recording) <= Cardinality(Handlers)
         /\ Cardinality(Handlers) \in Nat
<1>1. InWindow \subseteq Ids /\ Recent \subseteq InWindow /\ Recording \subseteq Handlers
  BY DEF InWindow, Recent, Recording, TypeOK
<1>2. IsFiniteSet(InWindow) /\ IsFiniteSet(Recent) /\ Cardinality(Recent) <= Cardinality(InWindow)
  BY <1>1, IdsAssumption, FS_Subset
<1>3. IsFiniteSet(Recording) /\ Cardinality(Recording) <= Cardinality(Handlers)
  BY <1>1, HandlersAssumption, FS_Subset
<1>. QED BY <1>2, <1>3, HandlersAssumption, FS_CardinalityType

(* There is a last attempt when there is any. *)
LEMMA LastExists ==
  ASSUME TypeOK, rows # {}
  PROVE  Last # {}
<1>. DEFINE T == {age[i] : i \in rows}
<1>1. T \subseteq Nat /\ T # {}
  BY DEF TypeOK
<1>2. PICK x \in T : \A y \in T : <<y, x>> \notin OpToRel(<, Nat)
  BY <1>1, WFMin, NatLessThanWellFounded, Zenon
<1>3. ASSUME NEW y \in T PROVE ~(y < x)
  <2>1. y \in Nat /\ x \in Nat
    BY <1>1
  <2>. QED BY <2>1, <1>2, Zenon DEF OpToRel
<1>4. PICK i \in rows : age[i] = x
  BY <1>2
<1>5. \A j \in rows : age[j] \in Nat /\ ~(age[j] < age[i])
  BY <1>3, <1>4 DEF TypeOK
<1>. QED BY <1>4, <1>5 DEF Last, TypeOK

(* A request is admitted below the limit, or when the last attempt, and so  *)
(* every other, is older than a ban.                                         *)
LEMMA AdmittedBelow ==
  ASSUME TypeOK, ~Banned
  PROVE  Cardinality(Recent) < Max
<1>1. CASE Cardinality(InWindow) >= Max
  <2>1. ASSUME NEW j \in Recent PROVE FALSE
    <3>1. PICK i \in Last : TRUE
      BY LastExists DEF Recent, InWindow
    <3>2. age[i] <= age[j] /\ age[j] < Ban /\ age[i] \in Nat /\ age[j] \in Nat
      BY <2>1, <3>1 DEF Last, Recent, InWindow, TypeOK
    <3>3. age[i] < Ban
      BY <3>2, MinutesAssumption
    <3>. QED BY <1>1, <3>1, <3>3 DEF Banned
  <2>2. Recent = {}
    BY <2>1
  <2>. QED BY <2>2, FS_EmptySet, MaxAssumption
<1>2. CASE ~(Cardinality(InWindow) >= Max)
  BY <1>2, Counted, MaxAssumption
<1>. QED BY <1>1, <1>2

(* A step that adds at most nothing to either set keeps the bound. *)
LEMMA Shrinks ==
  ASSUME TypeOK, FailuresBounded,
         Recent' \subseteq Recent, Recording' \subseteq Recording
  PROVE  FailuresBounded'
<1>1. Cardinality(Recent') <= Cardinality(Recent) /\ Cardinality(Recent') \in Nat
  BY Counted, FS_Subset, FS_CardinalityType
<1>2. Cardinality(Recording') <= Cardinality(Recording) /\ Cardinality(Recording') \in Nat
  BY Counted, FS_Subset, FS_CardinalityType
<1>. QED BY <1>1, <1>2, Counted, MaxAssumption DEF FailuresBounded

LEMMA RecordBounded ==
  ASSUME TypeOK, FailuresBounded, NEW h \in Handlers, Record(h)
  PROVE  FailuresBounded'
<1>1. PICK i \in Ids \ rows : /\ age' = [age EXCEPT ![i] = begun[h]]
                              /\ rows' = {j \in rows \cup {i} : age'[j] <= Keep}
  BY DEF Record
<1>2. Recent' \subseteq Recent \cup {i}
  BY <1>1 DEF Recent, InWindow, TypeOK
<1>. DEFINE n == Cardinality(Recent)
            m == Cardinality(Recent \cup {i})
<1>0. n \in Nat /\ IsFiniteSet(Recent) /\ IsFiniteSet(Recording)
  BY Counted
<1>3. IsFiniteSet(Recent \cup {i}) /\ m <= n + 1
  <2>1. IsFiniteSet(Recent \cup {i}) /\ m = IF i \in Recent THEN n ELSE n + 1
    BY <1>0, FS_AddElement
  <2>. HIDE DEF n, m
  <2>. QED BY <2>1, <1>0
<1>4. Cardinality(Recent') \in Nat /\ Cardinality(Recent') <= Cardinality(Recent \cup {i})
  BY <1>2, <1>3, FS_Subset, FS_CardinalityType
<1>5. h \in Recording /\ Recording' = Recording \ {h}
  BY DEF Record, Recording, TypeOK
<1>6. Cardinality(Recording') = Cardinality(Recording) - 1
  BY <1>5, Counted, FS_RemoveElement
<1>7. Cardinality(Recent \cup {i}) \in Nat
  BY <1>3, FS_CardinalityType
<1>. QED BY <1>3, <1>4, <1>6, <1>7, Counted, MaxAssumption DEF FailuresBounded

LEMMA WrongBounded ==
  ASSUME TypeOK, TypeOK', NEW h \in Handlers, Wrong(h)
  PROVE  FailuresBounded'
<1>1. Cardinality(Recent) < Max
  BY AdmittedBelow DEF Wrong
<1>2. Recent' = Recent
  BY DEF Wrong, Recent, InWindow
<1>3. Recording' \subseteq Handlers
  BY DEF Recording
<1>4. Cardinality(Recording') \in Nat /\ Cardinality(Recording') <= Cardinality(Handlers)
  BY <1>3, HandlersAssumption, FS_Subset, FS_CardinalityType
<1>. QED BY <1>1, <1>2, <1>4, Counted, MaxAssumption DEF FailuresBounded

LEMMA BoundedInductive ==
  ASSUME TypeOK, TypeOK', FailuresBounded, [Next]_vars
  PROVE  FailuresBounded'
<1>1. ASSUME NEW h \in Handlers, Refuse(h) PROVE FailuresBounded'
  BY <1>1, Shrinks DEF Refuse, Recent, InWindow, Recording
<1>2. ASSUME NEW h \in Handlers, Wrong(h) PROVE FailuresBounded'
  BY <1>2, WrongBounded
<1>3. ASSUME NEW h \in Handlers, Right(h) PROVE FailuresBounded'
  BY <1>3, Shrinks DEF Right, Recent, InWindow, Recording, TypeOK
<1>4. ASSUME NEW h \in Handlers, Record(h) PROVE FailuresBounded'
  BY <1>4, RecordBounded
<1>5. ASSUME NEW h \in Handlers, Clear(h) PROVE FailuresBounded'
  BY <1>5, Shrinks DEF Clear, Recent, InWindow, Recording, TypeOK
<1>6. ASSUME NEW h \in Handlers, Abort(h) PROVE FailuresBounded'
  BY <1>6, Shrinks DEF Abort, Recent, InWindow, Recording, TypeOK
<1>7. CASE Tick
  <2>1. Recording' = Recording
    BY <1>7 DEF Tick, Recording
  <2>2. \A i \in rows : age[i] \in Nat /\ age'[i] >= age[i] /\ age'[i] \in Nat
    BY <1>7, OlderType DEF Tick, TypeOK
  <2>3. Recent' \subseteq Recent
    BY <1>7, <2>2, MinutesAssumption DEF Tick, Recent, InWindow
  <2>. QED BY <2>1, <2>3, Shrinks
<1>8. CASE UNCHANGED vars
  BY <1>8, Shrinks DEF vars, Recent, InWindow, Recording
<1>. QED BY <1>1, <1>2, <1>3, <1>4, <1>5, <1>6, <1>7, <1>8 DEF Next

LEMMA InitBounded == Init => FailuresBounded
<1>. SUFFICES ASSUME Init PROVE FailuresBounded
  OBVIOUS
<1>1. Recent = {} /\ Recording = {}
  BY DEF Init, Recent, InWindow, Recording
<1>2. Cardinality(Handlers) \in Nat /\ Cardinality(Handlers) # 0
  BY HandlersAssumption, FS_EmptySet, FS_CardinalityType
<1>. QED BY <1>1, <1>2, FS_EmptySet, MaxAssumption DEF FailuresBounded

(* Whatever the limits: the failed attempts of one address that are in the   *)
(* window and younger than a ban never exceed the limit by more than the     *)
(* overlapping requests less one.                                            *)
THEOREM Bounded == Spec => []FailuresBounded
<1>1. Init => TypeOK /\ FailuresBounded
  BY InitTypeOK, InitBounded
<1>2. TypeOK /\ FailuresBounded /\ [Next]_vars => (TypeOK /\ FailuresBounded)'
  BY TypeOKInductive, BoundedInductive
<1>. QED BY <1>1, <1>2, PTL DEF Spec

(* When a ban is longer than the window, as the defaults are (15 and 10      *)
(* minutes), that bounds all the attempts is_ip_banned counts.               *)
WindowBounded ==
    Cardinality(InWindow) + Cardinality(Recording) <= Max + Cardinality(Handlers) - 1

(* With the defaults every attempt in the window is younger than a ban. *)
THEOREM BoundedInWindow ==
  ASSUME Window < Ban
  PROVE  Spec => []WindowBounded
<1>1. TypeOK /\ FailuresBounded => WindowBounded
  <2>. SUFFICES ASSUME TypeOK, FailuresBounded PROVE WindowBounded
    OBVIOUS
  <2>1. \A i \in InWindow : age[i] \in Nat /\ age[i] <= Window
    BY DEF InWindow, TypeOK
  <2>2. Recent = InWindow
    BY <2>1, MinutesAssumption DEF Recent
  <2>. QED BY <2>2 DEF FailuresBounded, WindowBounded
<1>. QED BY <1>1, TypeCorrect, Bounded, PTL

------------------------------------------------------------------------------
(* A ban is lifted by the clock or by a login that was admitted before it.   *)
(* In particular not by a request that records its failure late: neither its *)
(* row, whose time may be before the last attempt, nor its clean-up of old   *)
(* rows changes the answer of is_ip_banned.                                  *)
BanStands == [][Banned /\ ~Banned' => Tick \/ \E h \in Handlers : Clear(h)]_vars

LEMMA RecordKeepsBan ==
  ASSUME TypeOK, TypeOK', Banned, NEW h \in Handlers, Record(h)
  PROVE  Banned'
<1>1. PICK i \in Ids \ rows : /\ age' = [age EXCEPT ![i] = begun[h]]
                              /\ rows' = {j \in rows \cup {i} : age'[j] <= Keep}
  BY DEF Record
<1>2. \A j \in InWindow : j \in rows' /\ age'[j] = age[j]
  <2>. SUFFICES ASSUME NEW j \in InWindow PROVE j \in rows' /\ age'[j] = age[j]
    OBVIOUS
  <2>1. j \in rows /\ j # i /\ age[j] <= Window /\ age[j] \in Nat /\ age'[j] = age[j]
    BY <1>1 DEF InWindow, TypeOK
  <2>2. age'[j] <= Keep
    BY <2>1, MinutesAssumption
  <2>. QED BY <1>1, <2>1, <2>2
<1>3. InWindow \subseteq InWindow'
  BY <1>2 DEF InWindow
<1>4. Cardinality(InWindow') >= Max
  <2>1. IsFiniteSet(InWindow')
    BY IdsAssumption, FS_Subset DEF InWindow, TypeOK
  <2>2. /\ Cardinality(InWindow) <= Cardinality(InWindow')
        /\ Cardinality(InWindow') \in Nat /\ Cardinality(InWindow) \in Nat
    BY <1>3, <2>1, Counted, FS_Subset, FS_CardinalityType
  <2>. QED BY <2>2, MaxAssumption DEF Banned
<1>5. PICK l \in Last : age[l] < Ban
  BY DEF Banned
<1>6. \A j \in rows : age[l] <= age[j]
  BY <1>5 DEF Last
<1>7. l \in rows'
  <2>1. InWindow # {}
    BY FS_EmptySet, MaxAssumption DEF Banned
  <2>2. PICK j \in InWindow : TRUE
    BY <2>1
  <2>3. age[l] <= age[j] /\ age[j] <= Window /\ age[l] \in Nat /\ age[j] \in Nat
    BY <1>5, <1>6, <2>2 DEF Last, InWindow, TypeOK
  <2>4. l \in InWindow
    BY <1>5, <2>3, MinutesAssumption DEF Last, InWindow
  <2>. QED BY <1>2, <2>4
<1>8. PICK k \in Last' : TRUE
  <2>1. (rows # {})'
    BY <1>7
  <2>2. (Last # {})'
    BY <2>1, LastExists, PTL
  <2>. QED BY <2>2
<1>9. age'[k] <= age'[l] /\ age'[l] = age[l]
  BY <1>1, <1>5, <1>7, <1>8 DEF Last, TypeOK
<1>10. age'[k] \in Nat /\ age[l] \in Nat
  BY <1>5, <1>8 DEF Last, TypeOK
<1>11. age'[k] < Ban
  BY <1>5, <1>9, <1>10, MinutesAssumption
<1>. QED BY <1>4, <1>8, <1>11 DEF Banned

(* For any requests and limits, a ban is lifted by the clock or by a login   *)
(* that was admitted before it, never by the late record of another request. *)
THEOREM BanIsKept == Spec => BanStands
<1>1. TypeOK /\ [Next]_vars => [Banned /\ ~Banned' => Tick \/ \E h \in Handlers : Clear(h)]_vars
  <2>. SUFFICES ASSUME TypeOK, Next, Banned, ~Banned', ~Tick, ~(\E h \in Handlers : Clear(h))
                PROVE  FALSE
    OBVIOUS
  <2>1. TypeOK'
    BY TypeOKInductive
  <2>2. PICK h \in Handlers : Refuse(h) \/ Wrong(h) \/ Right(h) \/ Record(h) \/ Abort(h)
    BY DEF Next
  <2>3. CASE Record(h)
    BY <2>1, <2>3, RecordKeepsBan
  <2>4. CASE UNCHANGED <<rows, age>>
    BY <2>4 DEF Banned, InWindow, Last
  <2>. QED BY <2>2, <2>3, <2>4 DEF Refuse, Wrong, Right, Abort
<1>. QED BY <1>1, TypeCorrect, PTL DEF Spec, BanStands
==============================================================================
