----------------------- MODULE MetadataVersions_proofs ------------------------
(***************************************************************************)
(* Theorems about the metadata history and the "Esposto" badge, for any      *)
(* handlers, toggles, uploads and scenarios.                                 *)
(*                                                                         *)
(* TypeInv adds to the types what each step relies on having read.  BInv      *)
(* says that ids grow and that a request no other overlapped is alone with    *)
(* the badge and still sees the table as it is.  TInv says that no other      *)
(* toggles than the stored ones are under way between the handlers, the       *)
(* volume and SATOSA.  CInv says what a request that was not overlapped goes  *)
(* by, and HInv what the history and the badge tell while nothing marred     *)
(* them, also between the two commits of a snapshot and between the commit   *)
(* and the file of an exposure.                                              *)
(***************************************************************************)
EXTENDS MetadataVersions, TLAPS, FiniteSetTheorems, WellFoundedInduction

(* A finite set that is not empty has a greatest element in any total order. *)
LEMMA Greatest ==
  ASSUME NEW S, IsFiniteSet(S), S # {},
         NEW R,
         \A x, y \in S : <<x, y>> \in R \/ <<y, x>> \in R,
         \A x, y, z \in S : <<x, y>> \in R /\ <<y, z>> \in R => <<x, z>> \in R
  PROVE  \E x \in S : \A y \in S : <<y, x>> \in R
<1>. DEFINE Bounded(U) == \E x \in U : \A y \in U : <<y, x>> \in R
            T == {U \in FiniteSubsetsOf(S) : U # {} /\ ~Bounded(U)}
<1>1. T = {}
  <2>. SUFFICES ASSUME T # {} PROVE FALSE
    OBVIOUS
  <2>1. PICK U \in T : \A V \in T : <<V, U>> \notin StrictSubsetOrdering(S)
    <3>1. T \subseteq FiniteSubsetsOf(S)
      OBVIOUS
    <3>. HIDE DEF T
    <3>. QED  BY <3>1, FS_StrictSubsetOrderingWellFounded, WFMin
  <2>2. PICK x \in U : TRUE
    OBVIOUS
  <2>3. U \ {x} \in FiniteSubsetsOf(S)
    BY FS_RemoveElement DEF FiniteSubsetsOf
  <2>4. <<U \ {x}, U>> \in StrictSubsetOrdering(S)
    BY <2>2, <2>3 DEF StrictSubsetOrdering, FiniteSubsetsOf
  <2>5. U \subseteq S
    BY DEF FiniteSubsetsOf
  <2>6. CASE U \ {x} = {}
    BY <2>6, <2>5, <2>2
  <2>7. CASE U \ {x} # {}
    <3>1. PICK m \in U \ {x} : \A y \in U \ {x} : <<y, m>> \in R
      BY <2>1, <2>3, <2>4, <2>7
    <3>2. CASE <<x, m>> \in R
      BY <3>1, <3>2, <2>2
    <3>3. CASE <<m, x>> \in R
      <4>1. \A y \in U : <<y, x>> \in R
        BY <3>1, <3>3, <2>2, <2>5
      <4>. QED  BY <4>1, <2>2
    <3>. QED  BY <3>1, <3>2, <3>3, <2>2, <2>5
  <2>. QED  BY <2>6, <2>7
<1>2. S \in FiniteSubsetsOf(S)
  BY DEF FiniteSubsetsOf
<1>. QED  BY <1>1, <1>2

LEMMA MaxIn ==
  ASSUME NEW S, S \subseteq Nat, IsFiniteSet(S), S # {}
  PROVE  Max(S) \in S /\ \A y \in S : Max(S) >= y
<1>. DEFINE R == {p \in Nat \X Nat : p[1] <= p[2]}
<1>1. \E x \in S : \A y \in S : <<y, x>> \in R
  <2>1. \A x, y \in S : <<x, y>> \in R \/ <<y, x>> \in R
    OBVIOUS
  <2>2. \A x, y, z \in S : <<x, y>> \in R /\ <<y, z>> \in R => <<x, z>> \in R
    OBVIOUS
  <2>. HIDE DEF R
  <2>. QED  BY <2>1, <2>2, Greatest
<1>2. \E x \in S : \A y \in S : x >= y
  BY <1>1
<1>. QED  BY <1>2 DEF Max

(* The ids and the times that a state holds are finitely many. *)
LEMMA FiniteIds == \A S \in SUBSET Ids : IsFiniteSet(S)
<1>1. IsFiniteSet(Ids)
  BY FS_Interval, MaxRowsAssumption DEF Ids
<1>. QED  BY <1>1, FS_Subset

LEMMA FiniteImage ==
  ASSUME NEW S, IsFiniteSet(S), NEW f, DOMAIN f = S, f = [x \in S |-> f[x]]
  PROVE  IsFiniteSet({f[x] : x \in S})
<1>1. f \in Surjection(S, {f[x] : x \in S})
  BY DEF Surjection
<1>. QED  BY <1>1, FS_Surjection

LatestIn ==
    /\ LastById = 0 <=> Generated = {}
    /\ LastById # 0 => LastById \in Generated /\ \A i \in Generated : i <= LastById
    /\ LastByDate = 0 <=> Generated = {}
    /\ LastByDate # 0 => /\ LastByDate \in Generated
                         /\ \A j \in Generated :
                               \/ rows[j].at < rows[LastByDate].at
                               \/ rows[j].at = rows[LastByDate].at /\ j <= LastByDate

LEMMA LastIn == TypeOK => LatestIn
<1>. SUFFICES ASSUME TypeOK PROVE LatestIn
  OBVIOUS
<1>1. Generated \subseteq Ids /\ Ids \subseteq Nat \ {0} /\ IsFiniteSet(Generated)
  BY FiniteIds, MaxRowsAssumption DEF Generated, Rows, Ids
<1>2. \A i \in Generated : rows[i].at \in Nat
  BY DEF TypeOK, Row, Generated, Rows
<1>3. Generated # {} => Max(Generated) \in Generated /\ \A i \in Generated : i <= Max(Generated)
  BY <1>1, MaxIn
<1>. DEFINE Later(i, j) == rows[j].at < rows[i].at \/ (rows[j].at = rows[i].at /\ j <= i)
            R == {p \in Ids \X Ids : Later(p[2], p[1])}
<1>4. Generated # {} => \E i \in Generated : \A j \in Generated : Later(i, j)
  <2>1. \A x, y \in Generated : <<x, y>> \in R \/ <<y, x>> \in R
    BY <1>1, <1>2
  <2>2. \A x, y, z \in Generated : <<x, y>> \in R /\ <<y, z>> \in R => <<x, z>> \in R
    BY <1>1, <1>2
  <2>3. Generated # {} => \E i \in Generated : \A j \in Generated : <<j, i>> \in R
    <3>. HIDE DEF R
    <3>. QED  BY <2>1, <2>2, <1>1, Greatest
  <2>. QED  BY <2>3
<1>5. Generated # {} => LastByDate \in Generated /\ \A j \in Generated : Later(LastByDate, j)
  BY <1>4 DEF LastByDate
<1>6. LastByDate = 0 <=> Generated = {}
  BY <1>1, <1>5 DEF LastByDate
<1>7. LastById = 0 <=> Generated = {}
  BY <1>1, <1>3 DEF LastById
<1>8. LastById # 0 => LastById \in Generated /\ \A i \in Generated : i <= LastById
  BY <1>3 DEF LastById
<1>. QED  BY <1>5, <1>6, <1>7, <1>8 DEF LatestIn

LEMMA LastInNext == TypeOK' => LatestIn'
BY LastIn, PTL

LEMMA NowIsLater ==
  ASSUME TypeOK
  PROVE  /\ Now \in Nat
         /\ \A i \in Rows : rows[i].at < Now
         /\ \A h \in Handlers : req[h].at < Now
<1>. DEFINE A == {rows[i].at : i \in Rows}
            B == {req[h].at : h \in Handlers}
<1>1. IsFiniteSet(A)
  <2>. DEFINE f == [i \in Rows |-> rows[i].at]
  <2>1. IsFiniteSet(Rows)
    BY FiniteIds DEF Rows
  <2>2. IsFiniteSet({f[i] : i \in Rows})
    BY <2>1, FiniteImage
  <2>. QED  BY <2>2
<1>2. IsFiniteSet(B)
  <2>. DEFINE f == [h \in Handlers |-> req[h].at]
  <2>2. IsFiniteSet({f[h] : h \in Handlers})
    BY HandlersAssumption, FiniteImage
  <2>. QED  BY <2>2
<1>3. IsFiniteSet({0} \cup A \cup B)
  BY <1>1, <1>2, FS_Union, FS_Singleton
<1>4. {0} \cup A \cup B \subseteq Nat
  BY DEF TypeOK, Requests, Row, Rows
<1>. DEFINE All == {0} \cup A \cup B
            m == Max(All)
<1>5. m \in Nat /\ \A y \in All : y \in Nat /\ y <= m
  <2>. HIDE DEF A, B
  <2>. QED  BY <1>3, <1>4, MaxIn
<1>6. Now = 1 + m
  BY DEF Now
<1>7. \A y \in All : y \in Nat /\ y < Now
  <2>. HIDE DEF All, m
  <2>. QED  BY <1>5, <1>6
<1>8. /\ \A i \in Rows : rows[i].at \in All
      /\ \A h \in Handlers : req[h].at \in All
  OBVIOUS
<1>. HIDE DEF All, m
<1>. QED  BY <1>5, <1>6, <1>7, <1>8

------------------------------------------------------------------------------
(* What the steps of a request rely on having read *)
Ready(r) ==
    /\ r.pc = "sn_insert" => r.doc \in Settings
    /\ r.pc = "upload" => r.doc \in Uploads
    /\ r.pc = "write" => r.conf \in Settings

TypeInv == TypeOK /\ \A h \in Handlers : Ready(req[h])

LEMMA SeenTyped ==
  ASSUME TypeOK, NEW h \in Handlers, NEW is, is \subseteq Rows \cup DOMAIN req[h].seen
  PROVE  /\ See(h, "exposed", is) \in UNION {[ids -> BOOLEAN] : ids \in SUBSET Ids}
         /\ See(h, "validated", is) \in UNION {[ids -> BOOLEAN] : ids \in SUBSET Ids}
<1>. DEFINE old == req[h].seen
<1>0. req[h] \in Requests
  BY DEF TypeOK
<1>1. PICK ids \in SUBSET Ids : old \in [ids -> BOOLEAN]
  BY <1>0 DEF Requests
<1>2. \A i \in Rows : rows[i].exposed \in BOOLEAN /\ rows[i].validated \in BOOLEAN
  BY DEF TypeOK, Rows, Row
<1>3. is \in SUBSET Ids
  BY <1>1 DEF Rows
<1>. HIDE DEF old
<1>4. See(h, "exposed", is) \in [is -> BOOLEAN]
  BY <1>1, <1>2 DEF See, old
<1>5. See(h, "validated", is) \in [is -> BOOLEAN]
  BY <1>1, <1>2 DEF See, old
<1>. QED  BY <1>3, <1>4, <1>5

LEMMA Nothing == NothingSeen \in UNION {[ids -> BOOLEAN] : ids \in SUBSET Ids}
<1>1. NothingSeen \in [{} -> BOOLEAN]
  BY DEF NothingSeen
<1>. QED  BY <1>1

LEMMA NoRequestTyped == NoRequest \in Requests
BY Nothing, MaxRowsAssumption DEF NoRequest, Requests, Pcs

LEMMA MoveTyped ==
  ASSUME NEW r \in Requests, NEW label \in Pcs
  PROVE  [r EXCEPT !.pc = label, !.seen = NothingSeen] \in Requests
BY Nothing DEF Requests

LEMMA FlagTyped ==
  ASSUME TypeOK, NEW i \in Rows, NEW b \in BOOLEAN
  PROVE  /\ [rows[i] EXCEPT !["exposed"] = b] \in Row
         /\ [rows[i] EXCEPT !["validated"] = b] \in Row
         /\ \A r \in {[rows[i] EXCEPT !["exposed"] = b]} :
               /\ r.exposed = b /\ r.src = rows[i].src /\ r.doc = rows[i].doc
               /\ r.conf = rows[i].conf /\ r.at = rows[i].at
         /\ \A r \in {[rows[i] EXCEPT !["validated"] = b]} :
               /\ r.exposed = rows[i].exposed /\ r.src = rows[i].src /\ r.doc = rows[i].doc
               /\ r.conf = rows[i].conf /\ r.at = rows[i].at
BY DEF TypeOK, Row, Rows

(* The rows whose flag a request found otherwise than it wants it *)
Changed(h) == {i \in DOMAIN req[h].seen : req[h].seen[i] # (i = req[h].row)}

Flagged(h, flag) ==
    [i \in Ids |-> IF i \in Changed(h) THEN [rows[i] EXCEPT ![flag] = (i = req[h].row)]
                   ELSE rows[i]]

LEMMA FlagsTyped ==
  ASSUME TypeOK, NEW h \in Handlers, NEW flag \in {"exposed", "validated"},
         Changed(h) \subseteq Rows
  PROVE  Flagged(h, flag) \in [Ids -> Row \cup {None}]
<1>1. ASSUME NEW i \in Ids
      PROVE  (IF i \in Changed(h) THEN [rows[i] EXCEPT ![flag] = (i = req[h].row)]
              ELSE rows[i]) \in Row \cup {None}
  <2>1. CASE i \in Changed(h)
    <3>1. (i = req[h].row) \in BOOLEAN
      OBVIOUS
    <3>2. i \in Rows
      BY <2>1
    <3>. QED  BY <3>1, <3>2, <2>1, FlagTyped
  <2>2. CASE i \notin Changed(h)
    BY <2>2 DEF TypeOK
  <2>. QED  BY <2>1, <2>2
<1>. QED  BY <1>1 DEF Flagged

LEMMA Serves ==
  ASSUME TypeInv, NEW h \in Handlers, NEW r \in Requests, Ready(r),
         req' = [req EXCEPT ![h] = r]
  PROVE  req' \in [Handlers -> Requests] /\ \A g \in Handlers : Ready(req'[g])
BY DEF TypeInv, TypeOK

LEMMA SeenOne ==
  ASSUME TypeOK, NEW v \in Rows
  PROVE  /\ [i \in {v} |-> rows[v].exposed] \in UNION {[ids -> BOOLEAN] : ids \in SUBSET Ids}
         /\ [i \in {v} |-> rows[v].validated] \in UNION {[ids -> BOOLEAN] : ids \in SUBSET Ids}
<1>1. rows[v].exposed \in BOOLEAN /\ rows[v].validated \in BOOLEAN /\ {v} \in SUBSET Ids
  BY DEF TypeOK, Rows, Row
<1>2. [i \in {v} |-> rows[v].exposed] \in [{v} -> BOOLEAN]
  BY <1>1
<1>3. [i \in {v} |-> rows[v].validated] \in [{v} -> BOOLEAN]
  BY <1>1
<1>. QED  BY <1>1, <1>2, <1>3

LEMMA TypeInvInductive == TypeInv /\ [Next]_vars => TypeInv'
<1>. SUFFICES ASSUME TypeInv, [Next]_vars PROVE TypeInv'
  OBVIOUS
<1>0. UNCHANGED scenario
  BY DEF Next, vars
<1>. USE <1>0, NoRequestTyped, Nothing, NoneAssumption, MaxRowsAssumption
     DEF TypeInv, TypeOK, Ready, Begin, Continue, Move, Done, Meets, db, vol, hist
<1>1. ASSUME NEW h \in Handlers, SnapshotKnown(h) PROVE TypeInv'
  BY <1>1 DEF SnapshotKnown
<1>2. ASSUME NEW h \in Handlers, SnapshotNew(h) PROVE TypeInv'
  <2>. DEFINE r == [NoRequest EXCEPT
                      !.pc = "sn_insert", !.doc = report, !.row = LastById, !.at = Now,
                      !.live = LastById # 0 /\ rows[LastById].exposed]
  <2>1. LastById \in 0..MaxRows
    BY LastIn DEF LatestIn, Generated, Rows, Ids
  <2>2. (LastById # 0 /\ rows[LastById].exposed) \in BOOLEAN
    BY LastIn DEF LatestIn, Generated, Rows, Row
  <2>3. r \in Requests /\ Ready(r)
    BY <1>2, <2>1, <2>2, NowIsLater DEF SnapshotNew, NoRequest, Requests, Pcs, Docs
  <2>. QED  BY <1>2, <2>3, Serves DEF SnapshotNew
<1>3. ASSUME NEW h \in Handlers, SnapshotInsert(h) PROVE TypeInv'
  <2>1. nextId \in Ids /\ nextId' \in 1..MaxRows + 1
    BY <1>3 DEF SnapshotInsert, Insert, Ids
  <2>2. rows' \in [Ids -> Row \cup {None}]
    BY <1>3, <2>1 DEF SnapshotInsert, Insert, Row, Docs, Requests
  <2>3. [req[h] EXCEPT !.pc = "sn_clear", !.seen = NothingSeen] \in Requests
    BY MoveTyped DEF Pcs
  <2>4. \E r \in {NoRequest, [req[h] EXCEPT !.pc = "sn_clear", !.seen = NothingSeen]} :
           Ready(r) /\ req' = [req EXCEPT ![h] = r]
    BY <1>3 DEF SnapshotInsert, NoRequest, Requests
  <2>5. req' \in [Handlers -> Requests] /\ \A g \in Handlers : Ready(req'[g])
    BY <2>3, <2>4, Serves
  <2>. QED  BY <1>3, <2>1, <2>2, <2>5 DEF SnapshotInsert
<1>4. ASSUME NEW h \in Handlers, SnapshotClear(h) PROVE TypeInv'
  BY <1>4, FlagTyped DEF SnapshotClear, NoRequest, Rows
<1>5. ASSUME NEW h \in Handlers, NEW v \in Ids, ExposeStart(h, v) PROVE TypeInv'
  <2>. DEFINE r == [NoRequest EXCEPT
                      !.pc = "ex_latest", !.row = v, !.doc = rows[v].doc, !.conf = rows[v].conf,
                      !.seen = [i \in {v} |-> rows[v].exposed]]
  <2>1. v \in 0..MaxRows /\ rows[v] \in Row
    BY <1>5 DEF ExposeStart, Rows, Ids
  <2>2. r \in Requests /\ Ready(r)
    BY <1>5, <2>1, SeenOne DEF ExposeStart, NoRequest, Requests, Pcs, Row
  <2>. QED  BY <1>5, <2>2, Serves DEF ExposeStart
<1>6. ASSUME NEW h \in Handlers, ExposeLatest(h) PROVE TypeInv'
  <2>. DEFINE r == [req[h] EXCEPT !.pc = "ex_all", !.latest = LastByDate,
                      !.seen = See(h, "exposed", DOMAIN req[h].seen \cup (Generated \cap {LastByDate}))]
  <2>1. LastByDate \in 0..MaxRows /\ Generated \cap {LastByDate} \subseteq Rows
    BY LastIn DEF LatestIn, Generated, Rows, Ids
  <2>2. r \in Requests /\ Ready(r)
    BY <2>1, SeenTyped DEF Requests, Pcs
  <2>. QED  BY <1>6, <2>2, Serves DEF ExposeLatest
<1>7. ASSUME NEW h \in Handlers, ExposeAll(h) PROVE TypeInv'
  <2>. DEFINE r == [req[h] EXCEPT !.pc = "ex_commit", !.seen = See(h, "exposed", Rows)]
  <2>1. r \in Requests /\ Ready(r)
    BY SeenTyped DEF Requests, Pcs
  <2>. QED  BY <1>7, <2>1, Serves DEF ExposeAll
<1>8. ASSUME NEW h \in Handlers, ExposeCommit(h) PROVE TypeInv'
  <2>1. [req[h] EXCEPT !.pc = "ex_file", !.seen = NothingSeen] \in Requests
    BY MoveTyped DEF Pcs
  <2>2. rows' \in [Ids -> Row \cup {None}]
    BY <1>8, FlagsTyped DEF ExposeCommit, CommitFlag, Changed, Flagged
  <2>3. \E r \in {NoRequest, [req[h] EXCEPT !.pc = "ex_file", !.seen = NothingSeen]} :
           Ready(r) /\ req' = [req EXCEPT ![h] = r]
    BY <1>8 DEF ExposeCommit, CommitFlag, NoRequest, Requests
  <2>4. clashed' \subseteq Handlers
    BY <1>8 DEF ExposeCommit, CommitFlag
  <2>5. req' \in [Handlers -> Requests] /\ \A g \in Handlers : Ready(req'[g])
    BY <2>1, <2>3, Serves
  <2>. QED  BY <1>8, <2>2, <2>4, <2>5 DEF ExposeCommit
<1>9. ASSUME NEW h \in Handlers, ExposeFile(h) PROVE TypeInv'
  BY <1>9 DEF ExposeFile, NoRequest, Requests, Pcs
<1>10. ASSUME NEW h \in Handlers, ExposeRestore(h) PROVE TypeInv'
  <2>1. [req[h] EXCEPT !.pc = "write", !.seen = NothingSeen] \in Requests
    BY MoveTyped DEF Pcs
  <2>2. req[h].conf \in Settings \cup {None}
    BY DEF Requests
  <2>3. \E r \in {NoRequest, [req[h] EXCEPT !.pc = "write", !.seen = NothingSeen]} :
           Ready(r) /\ req' = [req EXCEPT ![h] = r]
    BY <1>10, <2>2 DEF ExposeRestore, NoRequest, Requests
  <2>4. req' \in [Handlers -> Requests] /\ \A g \in Handlers : Ready(req'[g])
    BY <2>1, <2>3, Serves
  <2>5. settings' \in Settings /\ clashed' \subseteq Handlers /\ hurried' \in BOOLEAN
    BY <1>10, <2>2 DEF ExposeRestore, Settled
  <2>. QED  BY <1>10, <2>4, <2>5 DEF ExposeRestore
<1>11. ASSUME NEW h \in Handlers, NEW c \in Settings, Toggle(h, c) PROVE TypeInv'
  BY <1>11 DEF Toggle, NoRequest, Requests, Pcs
<1>12. ASSUME NEW h \in Handlers, Regenerate(h) PROVE TypeInv'
  BY <1>12 DEF Regenerate, NoRequest, Requests, Pcs
<1>13. ASSUME NEW h \in Handlers, Write(h) PROVE TypeInv'
  BY <1>13 DEF Write, NoRequest, Requests, Pcs
<1>14. ASSUME NEW h \in Handlers, Reload(h) PROVE TypeInv'
  BY <1>14 DEF Reload, NoRequest
<1>15. ASSUME NEW h \in Handlers, NEW d \in Uploads, UploadCheck(h, d) PROVE TypeInv'
  BY <1>15 DEF UploadCheck, NoRequest, Requests, Pcs, Docs
<1>16. ASSUME NEW h \in Handlers, UploadInsert(h) PROVE TypeInv'
  BY <1>16 DEF UploadInsert, Insert, NoRequest, Row, Ids, Docs
<1>17. ASSUME NEW h \in Handlers, NEW v \in Ids, ValidateStart(h, v) PROVE TypeInv'
  <2>. DEFINE r == [NoRequest EXCEPT
                      !.pc = "va_all", !.row = v, !.seen = [i \in {v} |-> rows[v].validated]]
  <2>1. v \in 0..MaxRows
    BY DEF Ids
  <2>2. r \in Requests /\ Ready(r)
    BY <1>17, <2>1, SeenOne DEF ValidateStart, NoRequest, Requests, Pcs
  <2>. QED  BY <1>17, <2>2, Serves DEF ValidateStart
<1>18. ASSUME NEW h \in Handlers, ValidateAll(h) PROVE TypeInv'
  <2>. DEFINE r == [req[h] EXCEPT !.pc = "va_commit", !.seen = See(h, "validated", Rows)]
  <2>1. r \in Requests /\ Ready(r)
    BY SeenTyped DEF Requests, Pcs
  <2>. QED  BY <1>18, <2>1, Serves DEF ValidateAll
<1>19. ASSUME NEW h \in Handlers, ValidateCommit(h) PROVE TypeInv'
  <2>1. rows' \in [Ids -> Row \cup {None}]
    BY <1>19, FlagsTyped DEF ValidateCommit, CommitFlag, Changed, Flagged
  <2>2. req' = [req EXCEPT ![h] = NoRequest] /\ clashed' = clashed \ {h}
    BY <1>19 DEF ValidateCommit, CommitFlag
  <2>. QED  BY <1>19, <2>1, <2>2 DEF ValidateCommit, NoRequest
<1>20. ASSUME NEW h \in Handlers, NEW v \in Ids, DeleteCheck(h, v) PROVE TypeInv'
  <2>1. [NoRequest EXCEPT !.pc = "delete", !.row = v] \in Requests
    <3>1. v \in 0..MaxRows
      BY DEF Ids
    <3>. QED  BY <3>1 DEF NoRequest, Requests, Pcs
  <2>. QED  BY <1>20, <2>1 DEF DeleteCheck, NoRequest
<1>21. ASSUME NEW h \in Handlers, DeleteCommit(h) PROVE TypeInv'
  BY <1>21 DEF DeleteCommit, NoRequest
<1>22. CASE SatosaLoad \/ SatosaRestart
  BY <1>22 DEF SatosaLoad, SatosaRestart, SatosaLoads
<1>23. CASE LoseReport
  BY <1>23 DEF LoseReport
<1>24. ASSUME NEW h \in Handlers, Kill(h) PROVE TypeInv'
  BY <1>24 DEF Kill, NoRequest
<1>25. CASE UNCHANGED vars
  BY <1>25 DEF vars
<1>. QED
  BY <1>1, <1>2, <1>3, <1>4, <1>5, <1>6, <1>7, <1>8, <1>9, <1>10, <1>11, <1>12, <1>13, <1>14,
     <1>15, <1>16, <1>17, <1>18, <1>19, <1>20, <1>21, <1>22, <1>23, <1>24, <1>25
  DEF Next, Request, Proceed

------------------------------------------------------------------------------
(* What a request that touches the badge and was not overlapped has read is   *)
(* still so.                                                                  *)
Alone(h) == req[h].pc \in Badge => \A g \in Handlers \ {h} : req[g].pc \notin Badge

Current(h) ==
    LET q == req[h] IN
    /\ q.pc \in {"sn_insert", "sn_clear"} => q.row < nextId
    /\ q.pc = "sn_clear" => \E i \in Exposed : i # q.row
    /\ q.pc \in {"ex_latest", "ex_all", "ex_commit"}
          => /\ q.row \in DOMAIN q.seen
             /\ DOMAIN q.seen \subseteq Rows
             /\ \A i \in DOMAIN q.seen : q.seen[i] = rows[i].exposed
    /\ q.pc = "ex_commit" => Exposed \subseteq DOMAIN q.seen
    /\ q.pc = "delete" => q.row \notin Exposed

BInv ==
    /\ \A i \in Rows : i < nextId
    /\ \A h \in Handlers \ clashed : Alone(h) /\ Current(h)

(* A request that begins: the others read nothing anew. *)
LEMMA BeginKeeps ==
  ASSUME TypeInv, BInv, NEW h \in Handlers, req[h].pc = "idle", NEW r \in Requests,
         Begin(h, r), UNCHANGED <<rows, nextId>>,
         r.pc = "sn_insert" => r.row < nextId,
         r.pc = "ex_latest" => /\ r.row \in DOMAIN r.seen
                               /\ DOMAIN r.seen \subseteq Rows
                               /\ \A i \in DOMAIN r.seen : r.seen[i] = rows[i].exposed,
         r.pc = "delete" => r.row \notin Exposed,
         r.pc \notin {"sn_clear", "ex_all", "ex_commit"}
  PROVE  BInv'
<1>1. /\ req' = [req EXCEPT ![h] = r]
      /\ \A g \in Handlers \ clashed' : g \notin clashed
  BY DEF Begin, Meets
<1>2. ASSUME NEW g \in Handlers \ clashed', g # h PROVE Alone(g)' /\ Current(g)'
  <2>1. g \notin clashed /\ req'[g] = req[g]
    BY <1>1, <1>2 DEF TypeInv, TypeOK
  <2>2. Current(g)'
    BY <2>1 DEF BInv, Current, Exposed, Rows
  <2>3. req[g].pc \in Badge => r.pc \notin Badge
    BY <1>2 DEF Begin, Meets
  <2>4. Alone(g)'
    BY <1>1, <2>1, <2>3 DEF BInv, Alone, TypeInv, TypeOK
  <2>. QED  BY <2>2, <2>4
<1>3. h \notin clashed' => Alone(h)'
  <2>1. r.pc \in Badge /\ h \notin clashed' => \A g \in Handlers \ {h} : req[g].pc \notin Badge
    BY DEF Begin, Meets
  <2>. QED  BY <1>1, <2>1 DEF Alone, TypeInv, TypeOK
<1>4. Current(h)'
  <2>1. req'[h] = r
    BY <1>1 DEF TypeInv, TypeOK
  <2>. QED  BY <2>1 DEF Current, Exposed, Rows
<1>. QED  BY <1>2, <1>3, <1>4 DEF BInv, Rows

(* What a step does to the table: ids grow, and the badge may stay where it is. *)
Fits  == nextId' \in Nat /\ nextId <= nextId' /\ \A i \in Rows' : i < nextId'
Still == /\ Exposed' = Exposed
         /\ \A i \in Rows : i \in Rows' /\ rows'[i].exposed = rows[i].exposed

LEMMA Unmoved == TypeInv /\ BInv /\ rows' = rows /\ nextId' = nextId => Fits /\ Still
BY MaxRowsAssumption DEF TypeInv, TypeOK, BInv, Fits, Still, Rows, Exposed

(* A request that goes on: it is the only one that touches the badge, or the  *)
(* badge stays where it is.                                                   *)
LEMMA OthersKeep ==
  ASSUME TypeInv, BInv, NEW h \in Handlers, NEW r \in Requests,
         req' = [req EXCEPT ![h] = r], clashed' = clashed \/ clashed' = clashed \ {h},
         Fits, req[h].pc \in Badge \/ Still,
         r.pc \in Badge => req[h].pc \in Badge
  PROVE  \A g \in Handlers \ clashed' : g # h => Alone(g)' /\ Current(g)'
<1>. SUFFICES ASSUME NEW g \in Handlers \ clashed', g # h PROVE Alone(g)' /\ Current(g)'
  OBVIOUS
<1>1. g \notin clashed /\ req'[g] = req[g]
  BY DEF TypeInv, TypeOK
<1>2. Current(g)'
  <2>1. CASE req[g].pc \notin Badge
    BY <1>1, <2>1 DEF Current, Badge
  <2>2. CASE req[g].pc \in Badge
    <3>1. Still
      BY <1>1, <2>2 DEF BInv, Alone
    <3>2. req[g].row \in Nat /\ nextId \in Nat
      BY MaxRowsAssumption DEF TypeInv, TypeOK, Requests
    <3>3. Current(g)
      BY <1>1 DEF BInv
    <3>. QED  BY <1>1, <3>1, <3>2, <3>3 DEF Current, Still, Fits
  <2>. QED  BY <2>1, <2>2
<1>3. Alone(g)'
  BY <1>1 DEF BInv, Alone, TypeInv, TypeOK
<1>. QED  BY <1>2, <1>3

(* It ends, or has done with the badge. *)
LEMMA LeaveKeeps ==
  ASSUME TypeInv, BInv, NEW h \in Handlers, NEW r \in Requests,
         req' = [req EXCEPT ![h] = r], clashed' = clashed \/ clashed' = clashed \ {h},
         Fits, req[h].pc \in Badge \/ Still,
         r.pc \notin Badge
  PROVE  BInv'
<1>1. \A g \in Handlers \ clashed' : g # h => Alone(g)' /\ Current(g)'
  BY OthersKeep
<1>2. req'[h] = r
  BY DEF TypeInv, TypeOK
<1>3. Alone(h)' /\ Current(h)'
  BY <1>2 DEF Alone, Current, Badge
<1>. QED  BY <1>1, <1>3 DEF BInv, Fits

LEMMA DoneKeeps ==
  ASSUME TypeInv, BInv, NEW h \in Handlers, Done(h), Fits, req[h].pc \in Badge \/ Still
  PROVE  BInv'
<1>1. NoRequest \in Requests /\ NoRequest.pc \notin Badge
  BY NoRequestTyped DEF NoRequest, Badge
<1>. QED  BY <1>1, LeaveKeeps DEF Done

(* It goes on with the badge. *)
LEMMA StayKeeps ==
  ASSUME TypeInv, BInv, NEW h \in Handlers, NEW r \in Requests, Continue(h, r),
         Fits, req[h].pc \in Badge, r.pc \in Badge,
         h \notin clashed => Current(h)'
  PROVE  BInv'
<1>1. \A g \in Handlers \ clashed' : g # h => Alone(g)' /\ Current(g)'
  BY OthersKeep DEF Continue
<1>2. req'[h] = r /\ clashed' = clashed
  BY DEF Continue, TypeInv, TypeOK
<1>3. h \notin clashed => Alone(h)'
  BY <1>2 DEF BInv, Alone, Continue, TypeInv, TypeOK
<1>. QED  BY <1>1, <1>2, <1>3 DEF BInv, Fits

(* What the steps do to the table *)
LEMMA InsertAdds ==
  ASSUME TypeInv, TypeInv', BInv, NEW row, Insert(row), row \in Row
  PROVE  /\ Fits
         /\ nextId \in Rows' /\ nextId \notin Rows /\ rows'[nextId] = row
         /\ Rows' = Rows \cup {nextId}
         /\ \A i \in Rows : rows'[i] = rows[i]
<1>1. nextId \in Ids /\ nextId' = nextId + 1 /\ nextId \in Nat
  BY MaxRowsAssumption DEF Insert, Ids, TypeInv, TypeOK
<1>2. \A i \in Rows : i \in Nat /\ i < nextId
  BY DEF Rows, Ids, BInv
<1>3. rows' = [rows EXCEPT ![nextId] = row] /\ DOMAIN rows = Ids
  BY DEF Insert, TypeInv, TypeOK
<1>4. Rows' = Rows \cup {nextId}
  BY <1>1, <1>3, NoRowAssumption DEF Rows
<1>. QED  BY <1>1, <1>2, <1>3, <1>4 DEF Fits, Rows

LEMMA FlagMoves ==
  ASSUME TypeInv, BInv, NEW h \in Handlers, NEW flag \in {"exposed", "validated"},
         nextId' = nextId,
         \/ rows' = rows
         \/ rows' = Flagged(h, flag) /\ Changed(h) \subseteq Rows
  PROVE  Fits /\ Rows' = Rows /\ (flag = "validated" => Still)
<1>1. CASE rows' = rows
  BY <1>1, Unmoved DEF Rows
<1>2. CASE rows' = Flagged(h, flag) /\ Changed(h) \subseteq Rows
  <2>1. Rows' = Rows
    <3>1. \A i \in Ids : rows'[i] # None <=> rows[i] # None
      <4>. SUFFICES ASSUME NEW i \in Ids PROVE rows'[i] # None <=> rows[i] # None
        OBVIOUS
      <4>1. CASE i \in Changed(h)
        <5>1. i \in Rows /\ (i = req[h].row) \in BOOLEAN
          BY <1>2, <4>1
        <5>2. [rows[i] EXCEPT ![flag] = (i = req[h].row)] \in Row
          BY <5>1, FlagTyped DEF TypeInv
        <5>. QED  BY <1>2, <4>1, <5>1, <5>2, NoRowAssumption DEF Flagged, Rows
      <4>2. CASE i \notin Changed(h)
        BY <1>2, <4>2 DEF Flagged
      <4>. QED  BY <4>1, <4>2
    <3>. QED  BY <3>1 DEF Rows
  <2>2. ASSUME flag = "validated" PROVE Still
    <3>1. \A i \in Rows : rows'[i].exposed = rows[i].exposed
      <4>. SUFFICES ASSUME NEW i \in Rows PROVE rows'[i].exposed = rows[i].exposed
        OBVIOUS
      <4>1. i \in Ids
        BY DEF Rows
      <4>2. CASE i \in Changed(h)
        BY <1>2, <2>2, <4>1, <4>2, FlagTyped DEF Flagged, TypeInv
      <4>3. CASE i \notin Changed(h)
        BY <1>2, <4>1, <4>3 DEF Flagged
      <4>. QED  BY <4>2, <4>3
    <3>. QED  BY <2>1, <3>1 DEF Still, Exposed
  <2>. QED  BY <1>2, <2>1, <2>2, MaxRowsAssumption DEF Fits, BInv, TypeInv, TypeOK
<1>. QED  BY <1>1, <1>2

LEMMA BInvInductive == TypeInv /\ BInv /\ [Next]_vars => BInv'
<1>. SUFFICES ASSUME TypeInv, BInv, [Next]_vars PROVE BInv'
  OBVIOUS
<1>0. TypeInv' /\ \A h \in Handlers : req[h] \in Requests
  BY TypeInvInductive DEF TypeInv, TypeOK
<1>. USE <1>0 DEF db
<1>1. ASSUME NEW h \in Handlers, SnapshotKnown(h) PROVE BInv'
  BY <1>1 DEF SnapshotKnown, BInv, Alone, Current, Rows, Exposed
<1>2. ASSUME NEW h \in Handlers, SnapshotNew(h) PROVE BInv'
  <2>. DEFINE r == [NoRequest EXCEPT
                      !.pc = "sn_insert", !.doc = report, !.row = LastById, !.at = Now,
                      !.live = LastById # 0 /\ rows[LastById].exposed]
  <2>1. LastById < nextId
    BY LastIn, MaxRowsAssumption DEF LatestIn, TypeInv, TypeOK, Generated, BInv
  <2>2. Begin(h, r) /\ req[h].pc = "idle" /\ UNCHANGED <<rows, nextId>>
    BY <1>2 DEF SnapshotNew, CanStart
  <2>3. r \in Requests /\ r.pc = "sn_insert" /\ r.row = LastById
    BY <2>2 DEF Begin, NoRequest, TypeInv, TypeOK
  <2>. HIDE DEF r
  <2>. QED  BY <2>1, <2>2, <2>3, BeginKeeps
<1>3. ASSUME NEW h \in Handlers, SnapshotInsert(h) PROVE BInv'
  <2>. DEFINE row == [src |-> "generated", doc |-> req[h].doc, conf |-> settings,
                      exposed |-> req[h].row = 0 \/ req[h].live, validated |-> FALSE,
                      at |-> req[h].at]
              r == [req[h] EXCEPT !.pc = "sn_clear", !.seen = NothingSeen]
  <2>1. /\ Insert(row) /\ req[h].pc = "sn_insert" /\ req[h].pc \in Badge
        /\ IF req[h].live THEN Continue(h, r) ELSE Done(h)
    BY <1>3 DEF SnapshotInsert, Move, Badge
  <2>2. row \in Row /\ row.exposed = (req[h].row = 0 \/ req[h].live)
    BY <2>1 DEF Row, Requests, Ready, TypeInv, TypeOK, Docs
  <2>. HIDE DEF row
  <2>3. Fits /\ nextId \in Rows' /\ rows'[nextId] = row /\ nextId' = nextId + 1 /\ nextId \in Nat
    <3>1. nextId' = nextId + 1
      BY <2>1 DEF Insert
    <3>2. nextId \in Nat
      BY MaxRowsAssumption DEF TypeInv, TypeOK
    <3>. QED  BY <2>1, <2>2, <3>1, <3>2, InsertAdds
  <2>4. CASE req[h].live
    <3>0. r \in Requests
      BY MoveTyped DEF Pcs
    <3>1. r.pc = "sn_clear" /\ r.row = req[h].row /\ r.row \in Nat
      BY MaxRowsAssumption DEF Requests
    <3>. HIDE DEF r
    <3>2. req'[h] = r
      BY <2>1, <2>4 DEF Continue, TypeInv, TypeOK
    <3>3. h \notin clashed => req[h].row < nextId
      BY <2>1 DEF BInv, Current
    <3>4. nextId \in Exposed'
      BY <2>2, <2>3, <2>4 DEF Exposed
    <3>5. h \notin clashed => Current(h)'
      BY <2>3, <3>1, <3>2, <3>3, <3>4 DEF Current
    <3>. QED  BY <2>1, <2>3, <2>4, <3>0, <3>1, <3>5, StayKeeps DEF Badge
  <2>5. CASE ~req[h].live
    BY <2>1, <2>3, <2>5, DoneKeeps
  <2>. QED  BY <2>4, <2>5
<1>4. ASSUME NEW h \in Handlers, SnapshotClear(h) PROVE BInv'
  <2>1. req[h].pc \in Badge /\ Done(h)
    BY <1>4 DEF SnapshotClear, Badge
  <2>2. Rows' \subseteq Rows /\ nextId' = nextId
    BY <1>4 DEF SnapshotClear, Rows, TypeInv, TypeOK
  <2>3. Fits
    BY <2>2, MaxRowsAssumption DEF Fits, BInv, TypeInv, TypeOK
  <2>. QED  BY <2>1, <2>3, DoneKeeps
<1>5. ASSUME NEW h \in Handlers, NEW v \in Ids, ExposeStart(h, v) PROVE BInv'
  <2>. DEFINE r == [NoRequest EXCEPT
                      !.pc = "ex_latest", !.row = v, !.doc = rows[v].doc, !.conf = rows[v].conf,
                      !.seen = [i \in {v} |-> rows[v].exposed]]
  <2>1. Begin(h, r) /\ req[h].pc = "idle" /\ UNCHANGED <<rows, nextId>> /\ v \in Rows
    BY <1>5 DEF ExposeStart, CanStart
  <2>2. /\ r \in Requests /\ r.pc = "ex_latest" /\ r.row = v
        /\ DOMAIN r.seen = {v} /\ r.seen[v] = rows[v].exposed
    BY <2>1 DEF Begin, NoRequest, TypeInv, TypeOK
  <2>. HIDE DEF r
  <2>. QED  BY <2>1, <2>2, BeginKeeps
<1>6. ASSUME NEW h \in Handlers, ExposeLatest(h) PROVE BInv'
  <2>. DEFINE r == [req[h] EXCEPT !.pc = "ex_all", !.latest = LastByDate,
                      !.seen = See(h, "exposed", DOMAIN req[h].seen \cup (Generated \cap {LastByDate}))]
  <2>1. /\ req[h].pc = "ex_latest" /\ Continue(h, r) /\ req'[h] = r
        /\ rows' = rows /\ nextId' = nextId
    BY <1>6 DEF ExposeLatest, Continue, hist, TypeInv, TypeOK
  <2>0. r \in Requests
    BY <2>1 DEF TypeInv, TypeOK
  <2>2. /\ r \in Requests /\ r.pc = "ex_all" /\ r.row = req[h].row
        /\ r.seen = See(h, "exposed", DOMAIN req[h].seen \cup (Generated \cap {LastByDate}))
    BY <2>0 DEF Requests
  <2>. HIDE DEF r
  <2>3. h \notin clashed => Current(h)'
    <3>. SUFFICES ASSUME h \notin clashed PROVE Current(h)'
      OBVIOUS
    <3>1. /\ r.row \in DOMAIN req[h].seen /\ DOMAIN req[h].seen \subseteq Rows
          /\ \A i \in DOMAIN req[h].seen : req[h].seen[i] = rows[i].exposed
      BY <2>1, <2>2 DEF BInv, Current
    <3>2. /\ r.row \in DOMAIN r.seen /\ DOMAIN r.seen \subseteq Rows
          /\ \A i \in DOMAIN r.seen : r.seen[i] = rows[i].exposed
      BY <2>2, <3>1 DEF See, Generated
    <3>3. Rows' = Rows
      BY <2>1 DEF Rows
    <3>. QED  BY <2>1, <2>2, <3>2, <3>3 DEF Current
  <2>. QED  BY <2>1, <2>2, <2>3, Unmoved, StayKeeps DEF Badge
<1>7. ASSUME NEW h \in Handlers, ExposeAll(h) PROVE BInv'
  <2>. DEFINE r == [req[h] EXCEPT !.pc = "ex_commit", !.seen = See(h, "exposed", Rows)]
  <2>1. /\ req[h].pc = "ex_all" /\ Continue(h, r) /\ req'[h] = r
        /\ rows' = rows /\ nextId' = nextId
    BY <1>7 DEF ExposeAll, Continue, hist, TypeInv, TypeOK
  <2>0. r \in Requests
    BY <2>1 DEF TypeInv, TypeOK
  <2>2. /\ r \in Requests /\ r.pc = "ex_commit" /\ r.row = req[h].row
        /\ r.seen = See(h, "exposed", Rows)
    BY <2>0 DEF Requests
  <2>. HIDE DEF r
  <2>3. h \notin clashed => Current(h)'
    <3>. SUFFICES ASSUME h \notin clashed PROVE Current(h)'
      OBVIOUS
    <3>1. /\ r.row \in DOMAIN req[h].seen /\ DOMAIN req[h].seen \subseteq Rows
          /\ \A i \in DOMAIN req[h].seen : req[h].seen[i] = rows[i].exposed
      BY <2>1, <2>2 DEF BInv, Current
    <3>2. /\ r.row \in DOMAIN r.seen /\ DOMAIN r.seen = Rows
          /\ \A i \in DOMAIN r.seen : r.seen[i] = rows[i].exposed
      BY <2>2, <3>1 DEF See
    <3>3. Rows' = Rows /\ Exposed' = Exposed /\ Exposed \subseteq Rows
      BY <2>1 DEF Rows, Exposed
    <3>. QED  BY <2>1, <2>2, <3>2, <3>3 DEF Current
  <2>. QED  BY <2>1, <2>2, <2>3, Unmoved, StayKeeps DEF Badge
<1>8. ASSUME NEW h \in Handlers, ExposeCommit(h) PROVE BInv'
  <2>. DEFINE r == [req[h] EXCEPT !.pc = "ex_file", !.seen = NothingSeen]
  <2>1. /\ req[h].pc = "ex_commit" /\ nextId' = nextId
        /\ Done(h) \/ Continue(h, r)
        /\ \/ rows' = rows
           \/ rows' = Flagged(h, "exposed") /\ Changed(h) \subseteq Rows
    BY <1>8 DEF ExposeCommit, CommitFlag, Move, Flagged, Changed
  <2>0. r \in Requests
    BY MoveTyped DEF Pcs
  <2>2. r \in Requests /\ r.pc = "ex_file"
    BY <2>0 DEF Requests
  <2>. HIDE DEF r
  <2>3. Fits
    BY <2>1, FlagMoves
  <2>4. CASE Done(h)
    BY <2>1, <2>3, <2>4, DoneKeeps DEF Badge
  <2>5. CASE Continue(h, r)
    <3>1. Current(h)'
      BY <2>2, <2>5 DEF Current, Continue, TypeInv, TypeOK
    <3>. QED  BY <2>1, <2>2, <2>3, <2>5, <3>1, StayKeeps DEF Badge
  <2>. QED  BY <2>1, <2>4, <2>5
<1>9. ASSUME NEW h \in Handlers, ExposeFile(h) PROVE BInv'
  <2>. DEFINE r == [NoRequest EXCEPT !.pc = "ex_restore", !.conf = req[h].conf]
  <2>1. /\ req[h].pc = "ex_file" /\ Continue(h, r) /\ req'[h] = r
        /\ rows' = rows /\ nextId' = nextId
    BY <1>9 DEF ExposeFile, Continue, TypeInv, TypeOK
  <2>2. r \in Requests /\ r.pc = "ex_restore"
    BY <2>1 DEF NoRequest, TypeInv, TypeOK
  <2>. HIDE DEF r
  <2>3. Current(h)'
    BY <2>1, <2>2 DEF Current
  <2>. QED  BY <2>1, <2>2, <2>3, Unmoved, StayKeeps DEF Badge
<1>10. ASSUME NEW h \in Handlers, ExposeRestore(h) PROVE BInv'
  <2>. DEFINE r == [req[h] EXCEPT !.pc = "write", !.seen = NothingSeen]
  <2>1. Continue(h, r) \/ Done(h)
    BY <1>10 DEF ExposeRestore, Move
  <2>2. req[h].pc \in Badge /\ rows' = rows /\ nextId' = nextId
    BY <1>10 DEF ExposeRestore, Badge
  <2>0. r \in Requests
    BY MoveTyped DEF Pcs
  <2>3. r \in Requests /\ r.pc \notin Badge
    BY <2>0 DEF Requests, Badge
  <2>. HIDE DEF r
  <2>. QED  BY <2>1, <2>2, <2>3, Unmoved, DoneKeeps, LeaveKeeps DEF Continue
<1>11. ASSUME NEW h \in Handlers, NEW c \in Settings, Toggle(h, c) PROVE BInv'
  <2>. DEFINE r == [NoRequest EXCEPT !.pc = "write", !.conf = c]
  <2>1. Begin(h, r) /\ req[h].pc = "idle" /\ UNCHANGED <<rows, nextId>>
    BY <1>11 DEF Toggle, CanStart
  <2>2. r \in Requests /\ r.pc = "write"
    BY <2>1 DEF Begin, NoRequest, TypeInv, TypeOK
  <2>. HIDE DEF r
  <2>. QED  BY <2>1, <2>2, BeginKeeps
<1>12. ASSUME NEW h \in Handlers, Regenerate(h) PROVE BInv'
  <2>. DEFINE r == [NoRequest EXCEPT !.pc = "write", !.conf = settings]
  <2>1. Begin(h, r) /\ req[h].pc = "idle" /\ UNCHANGED <<rows, nextId>>
    BY <1>12 DEF Regenerate, CanStart
  <2>2. r \in Requests /\ r.pc = "write"
    BY <2>1 DEF Begin, NoRequest, TypeInv, TypeOK
  <2>. HIDE DEF r
  <2>. QED  BY <2>1, <2>2, BeginKeeps
<1>13. ASSUME NEW h \in Handlers, Write(h) PROVE BInv'
  <2>. DEFINE r == [NoRequest EXCEPT !.pc = "reload"]
  <2>1. Continue(h, r) /\ rows' = rows /\ nextId' = nextId
    BY <1>13 DEF Write
  <2>2. r \in Requests /\ r.pc \notin Badge
    BY NoRequestTyped DEF NoRequest, Requests, Pcs, Badge
  <2>. HIDE DEF r
  <2>. QED  BY <2>1, <2>2, Unmoved, LeaveKeeps DEF Continue
<1>14. ASSUME NEW h \in Handlers, Reload(h) PROVE BInv'
  BY <1>14, Unmoved, DoneKeeps DEF Reload
<1>15. ASSUME NEW h \in Handlers, NEW d \in Uploads, UploadCheck(h, d) PROVE BInv'
  <2>. DEFINE r == [NoRequest EXCEPT !.pc = "upload", !.doc = d]
  <2>1. Begin(h, r) /\ req[h].pc = "idle" /\ UNCHANGED <<rows, nextId>>
    BY <1>15 DEF UploadCheck, CanStart
  <2>2. r \in Requests /\ r.pc = "upload"
    BY <2>1 DEF Begin, NoRequest, TypeInv, TypeOK
  <2>. HIDE DEF r
  <2>. QED  BY <2>1, <2>2, BeginKeeps
<1>16. ASSUME NEW h \in Handlers, UploadInsert(h) PROVE BInv'
  <2>. DEFINE row == [src |-> "uploaded", doc |-> req[h].doc, conf |-> None, exposed |-> FALSE,
                      validated |-> FALSE, at |-> 0]
  <2>1. Insert(row) /\ Done(h) /\ req[h].pc = "upload"
    BY <1>16 DEF UploadInsert
  <2>2. row \in Row /\ row.exposed = FALSE
    BY <2>1 DEF Row, Ready, TypeInv, TypeOK, Docs
  <2>. HIDE DEF row
  <2>3. Fits /\ Still
    BY <2>1, <2>2, InsertAdds DEF Still, Exposed
  <2>. QED  BY <2>1, <2>3, DoneKeeps
<1>17. ASSUME NEW h \in Handlers, NEW v \in Ids, ValidateStart(h, v) PROVE BInv'
  <2>. DEFINE r == [NoRequest EXCEPT
                      !.pc = "va_all", !.row = v, !.seen = [i \in {v} |-> rows[v].validated]]
  <2>1. Begin(h, r) /\ req[h].pc = "idle" /\ UNCHANGED <<rows, nextId>>
    BY <1>17 DEF ValidateStart, CanStart
  <2>2. r \in Requests /\ r.pc = "va_all"
    BY <2>1 DEF Begin, NoRequest, TypeInv, TypeOK
  <2>. HIDE DEF r
  <2>. QED  BY <2>1, <2>2, BeginKeeps
<1>18. ASSUME NEW h \in Handlers, ValidateAll(h) PROVE BInv'
  <2>. DEFINE r == [req[h] EXCEPT !.pc = "va_commit", !.seen = See(h, "validated", Rows)]
  <2>1. /\ req' = [req EXCEPT ![h] = r] /\ req'[h] = r /\ clashed' = clashed
        /\ rows' = rows /\ nextId' = nextId
    BY <1>18 DEF ValidateAll, hist, TypeInv, TypeOK
  <2>2. r \in Requests /\ r.pc \notin Badge
    BY <2>1 DEF Requests, Badge, TypeInv, TypeOK
  <2>. HIDE DEF r
  <2>. QED  BY <2>1, <2>2, Unmoved, LeaveKeeps
<1>19. ASSUME NEW h \in Handlers, ValidateCommit(h) PROVE BInv'
  <2>1. /\ Done(h) /\ nextId' = nextId
        /\ \/ rows' = rows
           \/ rows' = Flagged(h, "validated") /\ Changed(h) \subseteq Rows
    BY <1>19 DEF ValidateCommit, CommitFlag, Flagged, Changed
  <2>2. Fits /\ Still
    BY <2>1, FlagMoves
  <2>. QED  BY <2>1, <2>2, DoneKeeps
<1>20. ASSUME NEW h \in Handlers, NEW v \in Ids, DeleteCheck(h, v) PROVE BInv'
  <2>. DEFINE r == [NoRequest EXCEPT !.pc = "delete", !.row = v]
  <2>1. Begin(h, r) /\ req[h].pc = "idle" /\ UNCHANGED <<rows, nextId>> /\ v \notin Exposed
    BY <1>20 DEF DeleteCheck, CanStart, Exposed
  <2>2. r \in Requests /\ r.pc = "delete" /\ r.row = v
    BY <2>1 DEF Begin, NoRequest, TypeInv, TypeOK
  <2>. HIDE DEF r
  <2>. QED  BY <2>1, <2>2, BeginKeeps
<1>21. ASSUME NEW h \in Handlers, DeleteCommit(h) PROVE BInv'
  <2>1. req[h].pc \in Badge /\ Done(h)
    BY <1>21 DEF DeleteCommit, Badge
  <2>2. Rows' \subseteq Rows /\ nextId' = nextId
    BY <1>21 DEF DeleteCommit, Rows, TypeInv, TypeOK
  <2>3. Fits
    BY <2>2, MaxRowsAssumption DEF Fits, BInv, TypeInv, TypeOK
  <2>. QED  BY <2>1, <2>3, DoneKeeps
<1>22. CASE SatosaLoad \/ SatosaRestart \/ LoseReport
  BY <1>22 DEF SatosaLoad, SatosaRestart, SatosaLoads, LoseReport, BInv, Alone, Current, Rows, Exposed
<1>23. ASSUME NEW h \in Handlers, Kill(h) PROVE BInv'
  BY <1>23, Unmoved, DoneKeeps DEF Kill
<1>24. CASE UNCHANGED vars
  BY <1>24 DEF vars, hist, BInv, Alone, Current, Rows, Exposed
<1>. QED
  BY <1>1, <1>2, <1>3, <1>4, <1>5, <1>6, <1>7, <1>8, <1>9, <1>10, <1>11, <1>12, <1>13, <1>14,
     <1>15, <1>16, <1>17, <1>18, <1>19, <1>20, <1>21, <1>22, <1>23, <1>24
  DEF Next, Request, Proceed

------------------------------------------------------------------------------
(* What a step of an overlapped request may do and no other may: delete a      *)
(* version on the badge, or take the badge from all.                           *)
Kept == /\ \A i \in Exposed : rows'[i] # None
        /\ Exposed # {} => Exposed' # {}

LEMMA StillKept == TypeInv /\ Still => Kept
BY DEF Still, Kept, Exposed, Rows

LEMMA SameKept == rows' = rows => Kept
BY DEF Kept, Exposed, Rows

LEMMA InsertKept ==
  ASSUME TypeInv, TypeInv', BInv, NEW row \in Row, Insert(row)
  PROVE  Kept
<1>1. Rows \subseteq Rows' /\ \A i \in Rows : rows'[i] = rows[i]
  BY InsertAdds
<1>. QED  BY <1>1 DEF Kept, Exposed, Rows

(* The steps that write the table *)
LEMMA WhoWrites ==
  [Next]_vars
    => \/ rows' = rows
       \/ \E h \in Handlers : \/ SnapshotInsert(h) \/ UploadInsert(h) \/ ValidateCommit(h)
                              \/ SnapshotClear(h) \/ ExposeCommit(h) \/ DeleteCommit(h)
BY DEF Next, Request, Proceed, vars, db, SnapshotKnown, SnapshotNew, ExposeStart, ExposeLatest,
   ExposeAll, ExposeFile, ExposeRestore, Toggle, Regenerate, Write, Reload, UploadCheck,
   ValidateStart, ValidateAll, DeleteCheck, SatosaLoad, SatosaRestart, SatosaLoads,
   LoseReport, Kill

LEMMA BadgeStep == TypeInv /\ BInv /\ [Next]_vars => Kept \/ Clashing
<1>. SUFFICES ASSUME TypeInv, BInv, [Next]_vars PROVE Kept \/ Clashing
  OBVIOUS
<1>0. TypeInv' /\ \A h \in Handlers : req[h] \in Requests
  BY TypeInvInductive DEF TypeInv, TypeOK
<1>1. ASSUME NEW h \in Handlers, SnapshotInsert(h) PROVE Kept
  <2>. DEFINE row == [src |-> "generated", doc |-> req[h].doc, conf |-> settings,
                      exposed |-> req[h].row = 0 \/ req[h].live, validated |-> FALSE,
                      at |-> req[h].at]
  <2>1. row \in Row /\ Insert(row)
    BY <1>0, <1>1 DEF SnapshotInsert, Row, Requests, Ready, TypeInv, TypeOK, Docs
  <2>. QED  BY <1>0, <2>1, InsertKept
<1>2. ASSUME NEW h \in Handlers, UploadInsert(h) PROVE Kept
  <2>. DEFINE row == [src |-> "uploaded", doc |-> req[h].doc, conf |-> None, exposed |-> FALSE,
                      validated |-> FALSE, at |-> 0]
  <2>1. row \in Row /\ Insert(row)
    BY <1>2 DEF UploadInsert, Row, Ready, TypeInv, TypeOK, Docs
  <2>. QED  BY <1>0, <2>1, InsertKept
<1>3. ASSUME NEW h \in Handlers, ValidateCommit(h) PROVE Kept
  <2>1. /\ nextId' = nextId
        /\ \/ rows' = rows
           \/ rows' = Flagged(h, "validated") /\ Changed(h) \subseteq Rows
    BY <1>3 DEF ValidateCommit, CommitFlag, Flagged, Changed
  <2>. QED  BY <2>1, FlagMoves, StillKept
<1>4. ASSUME NEW h \in Handlers, SnapshotClear(h) PROVE Kept \/ Clashing
  <2>1. req'[h] # req[h]
    BY <1>4 DEF SnapshotClear, Done, NoRequest, TypeInv, TypeOK
  <2>2. CASE h \notin clashed
    <3>1. PICK j \in Exposed : j # req[h].row
      BY <1>4, <2>2 DEF SnapshotClear, BInv, Current
    <3>2. \A i \in Rows : rows'[i] # None
      BY <1>4, FlagTyped, NoRowAssumption DEF SnapshotClear, Rows, TypeInv, TypeOK
    <3>3. j \in Exposed'
      BY <1>4, <3>1, <3>2 DEF SnapshotClear, Exposed, Rows, TypeInv, TypeOK
    <3>. QED  BY <3>2, <3>3 DEF Kept, Exposed
  <2>. QED  BY <2>1, <2>2 DEF Clashing
<1>5. ASSUME NEW h \in Handlers, ExposeCommit(h) PROVE Kept \/ Clashing
  <2>1. req'[h] # req[h]
    <3>1. req' = [req EXCEPT ![h] = NoRequest] \/ Move(h, "ex_file")
      BY <1>5 DEF ExposeCommit, CommitFlag, Done
    <3>2. NoRequest.pc = "idle"
      BY DEF NoRequest
    <3>3. [req[h] EXCEPT !.pc = "ex_file", !.seen = NothingSeen].pc = "ex_file"
      BY <1>0 DEF Requests
    <3>. QED  BY <1>5, <3>1, <3>2, <3>3 DEF ExposeCommit, Move, Continue, TypeInv, TypeOK
  <2>2. /\ nextId' = nextId
        /\ \/ rows' = rows
           \/ rows' = Flagged(h, "exposed") /\ Changed(h) \subseteq Rows
    BY <1>5 DEF ExposeCommit, CommitFlag, Flagged, Changed
  <2>3. Rows' = Rows
    BY <2>2, FlagMoves
  <2>4. CASE h \notin clashed /\ rows' # rows
    <3>. DEFINE v == req[h].row
    <3>1. /\ v \in Rows /\ v \in DOMAIN req[h].seen
          /\ req[h].seen[v] = rows[v].exposed
      BY <1>5, <2>4 DEF ExposeCommit, BInv, Current
    <3>2. rows'[v].exposed
      <4>1. CASE v \in Changed(h)
        BY <2>2, <2>4, <3>1, <4>1, FlagTyped DEF Flagged, Rows, TypeInv
      <4>2. CASE v \notin Changed(h)
        BY <2>2, <2>4, <3>1, <4>2 DEF Flagged, Changed, Rows
      <4>. QED  BY <4>1, <4>2
    <3>. QED  BY <2>3, <3>1, <3>2 DEF Kept, Exposed, Rows
  <2>. QED  BY <2>1, <2>4, SameKept DEF Clashing
<1>6. ASSUME NEW h \in Handlers, DeleteCommit(h) PROVE Kept \/ Clashing
  <2>1. req'[h] # req[h]
    BY <1>6 DEF DeleteCommit, Done, NoRequest, TypeInv, TypeOK
  <2>2. CASE h \notin clashed
    <3>1. req[h].row \notin Exposed
      BY <1>6, <2>2 DEF DeleteCommit, BInv, Current
    <3>2. \A i \in Exposed : rows'[i] = rows[i]
      BY <1>6, <3>1 DEF DeleteCommit, Exposed, Rows, TypeInv, TypeOK
    <3>. QED  BY <3>2 DEF Kept, Exposed, Rows
  <2>. QED  BY <2>1, <2>2 DEF Clashing
<1>7. CASE rows' = rows
  BY <1>7, SameKept
<1>. QED  BY <1>1, <1>2, <1>3, <1>4, <1>5, <1>6, <1>7, WhoWrites

------------------------------------------------------------------------------
LEMMA InitInv == Init => TypeInv /\ BInv
<1>. SUFFICES ASSUME Init PROVE TypeInv /\ BInv
  OBVIOUS
<1>1. TypeInv
  <2>1. req \in [Handlers -> Requests] /\ \A h \in Handlers : Ready(req[h])
    BY NoRequestTyped DEF Init, Ready, NoRequest
  <2>2. rows \in [Ids -> Row \cup {None}] /\ nextId \in 1..MaxRows + 1
    BY MaxRowsAssumption DEF Init
  <2>. QED  BY <2>1, <2>2 DEF Init, TypeInv, TypeOK
<1>2. BInv
  BY DEF Init, BInv, Rows, Alone, Current, NoRequest, Badge
<1>. QED  BY <1>1, <1>2

LEMMA Invariant == Spec => [](TypeInv /\ BInv)
BY InitInv, TypeInvInductive, BInvInductive, PTL DEF Spec

(* Every row, request and toggle stays what the handlers and the generator     *)
(* take it for, whatever overlaps, fails or is lost.                           *)
THEOREM TypeCorrect == Spec => []TypeOK
<1>1. TypeInv => TypeOK
  BY DEF TypeInv
<1>. QED  BY <1>1, Invariant, PTL

(* metadata_delete never takes a version off the badge it was not asked to:     *)
(* only an exposure between its check and its commit can make it.              *)
THEOREM ExposedStays == Spec => ExposedNotDeleted
<1>1. TypeInv /\ BInv /\ [Next]_vars => [\A i \in Exposed : rows'[i] # None \/ Clashing]_vars
  BY BadgeStep DEF Kept
<1>. QED  BY <1>1, Invariant, PTL DEF Spec, ExposedNotDeleted

(* A history with a badge keeps one through snapshots, exposures, deletions,    *)
(* crashes between the commits of log_metadata_snapshot, and lost reports:     *)
(* only requests that overlap can take it away.                                *)
THEOREM BadgeStays == Spec => BadgeKept
<1>1. TypeInv /\ BInv /\ [Next]_vars => [Exposed # {} => Exposed' # {} \/ Clashing]_vars
  BY BadgeStep DEF Kept
<1>. QED  BY <1>1, Invariant, PTL DEF Spec, BadgeKept

------------------------------------------------------------------------------
(* Between a change of the toggles and the document built from them, nothing   *)
(* on its way holds other ones, unless they were changed again meanwhile or     *)
(* the handler that carries them dies.                                         *)
Waits(pc) == \E h \in Handlers : req[h].pc = pc

OneSetting ==
    /\ \A h \in Handlers : req[h].pc = "sn_insert" => req[h].doc = settings
    /\ \A h \in Handlers : req[h].pc = "write" => req[h].conf = settings
    /\ report # None => report = settings
    /\ touched \/ Waits("reload") => conf = settings
    /\ ~Waits("write") => conf = settings

TInv == ~hurried => OneSetting

LEMMA TInvInit == Init => TInv
BY DEF Init, TInv, OneSetting, Waits, NoRequest

(* A request that carries no toggles neither before nor after its step *)
LEMMA Elsewhere ==
  ASSUME TypeInv, TInv, NEW h \in Handlers, NEW r,
         req' = [req EXCEPT ![h] = r],
         req[h].pc # "write", r.pc \notin {"sn_insert", "write", "reload"},
         UNCHANGED <<settings, conf, touched, hurried>>,
         report' = report \/ report' = None
  PROVE  TInv'
<1>1. /\ req'[h] = r
      /\ \A g \in Handlers : g # h => req'[g] = req[g]
  BY DEF TypeInv, TypeOK
<1>2. (Waits("reload")' => Waits("reload")) /\ (Waits("write") => Waits("write")')
  BY <1>1 DEF Waits
<1>. QED  BY <1>1, <1>2 DEF TInv, OneSetting

LEMMA SettledOne ==
  ASSUME TypeInv, Settled, NEW h \in Handlers, NEW r, NEW c,
         req' = [req EXCEPT ![h] = r], r.pc = "write", r.conf = c, settings' = c,
         UNCHANGED <<conf, touched, report>>
  PROVE  TInv'
<1>1. /\ req'[h] = r
      /\ \A g \in Handlers : g # h => req'[g] = req[g]
  BY DEF TypeInv, TypeOK
<1>. QED  BY <1>1 DEF TInv, OneSetting, Waits, Settled

LEMMA TInvInductive == TypeInv /\ TInv /\ [Next]_vars => TInv'
<1>. SUFFICES ASSUME TypeInv, TInv, [Next]_vars PROVE TInv'
  OBVIOUS
<1>0. \A h \in Handlers : req[h] \in Requests
  BY DEF TypeInv, TypeOK
<1>. USE <1>0 DEF db, vol, hist, Begin, Continue, Move, Done, Meets
<1>1. ASSUME NEW h \in Handlers, SnapshotKnown(h) PROVE TInv'
  BY <1>1 DEF SnapshotKnown, TInv, OneSetting, Waits
<1>2. ASSUME NEW h \in Handlers, SnapshotNew(h) PROVE TInv'
  <2>. DEFINE r == [NoRequest EXCEPT
                      !.pc = "sn_insert", !.doc = report, !.row = LastById, !.at = Now,
                      !.live = LastById # 0 /\ rows[LastById].exposed]
  <2>1. r.pc = "sn_insert" /\ r.doc = report
    BY DEF NoRequest
  <2>2. req' = [req EXCEPT ![h] = r] /\ report # None /\ req[h].pc = "idle"
    BY <1>2 DEF SnapshotNew, CanStart
  <2>. HIDE DEF r
  <2>3. /\ req'[h] = r
        /\ \A g \in Handlers : g # h => req'[g] = req[g]
    BY <2>2 DEF TypeInv, TypeOK
  <2>4. (Waits("reload")' => Waits("reload")) /\ (Waits("write") => Waits("write")')
    BY <2>1, <2>2, <2>3 DEF Waits
  <2>. QED  BY <1>2, <2>1, <2>2, <2>3, <2>4 DEF SnapshotNew, TInv, OneSetting
<1>3. ASSUME NEW h \in Handlers, SnapshotInsert(h) PROVE TInv'
  <2>. DEFINE r == [req[h] EXCEPT !.pc = "sn_clear", !.seen = NothingSeen]
  <2>1. r.pc = "sn_clear" /\ NoRequest.pc = "idle"
    BY DEF Requests, NoRequest
  <2>. HIDE DEF r
  <2>. QED  BY <1>3, <2>1, Elsewhere DEF SnapshotInsert, r
<1>4. ASSUME NEW h \in Handlers,
             \/ SnapshotClear(h) \/ ExposeFile(h) \/ UploadInsert(h) \/ DeleteCommit(h)
             \/ ExposeCommit(h) \/ ValidateCommit(h)
      PROVE TInv'
  <2>. DEFINE a == [NoRequest EXCEPT !.pc = "ex_restore", !.conf = req[h].conf]
              b == [req[h] EXCEPT !.pc = "ex_file", !.seen = NothingSeen]
  <2>1. a.pc = "ex_restore" /\ b.pc = "ex_file" /\ NoRequest.pc = "idle"
    BY DEF Requests, NoRequest
  <2>2. /\ req[h].pc # "write"
        /\ \/ req' = [req EXCEPT ![h] = a]
           \/ req' = [req EXCEPT ![h] = b]
           \/ req' = [req EXCEPT ![h] = NoRequest]
    BY <1>4 DEF SnapshotClear, ExposeFile, UploadInsert, DeleteCommit, ExposeCommit,
                ValidateCommit, CommitFlag
  <2>3. UNCHANGED <<settings, conf, touched, hurried, report>>
    BY <1>4 DEF SnapshotClear, ExposeFile, UploadInsert, DeleteCommit, ExposeCommit, ValidateCommit
  <2>. HIDE DEF a, b
  <2>. QED  BY <2>1, <2>2, <2>3, Elsewhere
<1>5. ASSUME NEW h \in Handlers, ExposeLatest(h) \/ ExposeAll(h) \/ ValidateAll(h) PROVE TInv'
  <2>1. \E r : /\ req' = [req EXCEPT ![h] = r] /\ req[h].pc # "write"
               /\ r.pc \in {"ex_all", "ex_commit", "va_commit"}
    <3>1. CASE ExposeLatest(h)
      <4>. DEFINE r == [req[h] EXCEPT !.pc = "ex_all", !.latest = LastByDate,
                          !.seen = See(h, "exposed", DOMAIN req[h].seen \cup (Generated \cap {LastByDate}))]
      <4>1. req' = [req EXCEPT ![h] = r] /\ r.pc = "ex_all"
        BY <3>1 DEF ExposeLatest, Requests
      <4>. QED  BY <3>1, <4>1 DEF ExposeLatest
    <3>2. CASE ExposeAll(h)
      <4>. DEFINE r == [req[h] EXCEPT !.pc = "ex_commit", !.seen = See(h, "exposed", Rows)]
      <4>1. req' = [req EXCEPT ![h] = r] /\ r.pc = "ex_commit"
        BY <3>2 DEF ExposeAll, Requests
      <4>. QED  BY <3>2, <4>1 DEF ExposeAll
    <3>3. CASE ValidateAll(h)
      <4>. DEFINE r == [req[h] EXCEPT !.pc = "va_commit", !.seen = See(h, "validated", Rows)]
      <4>1. req' = [req EXCEPT ![h] = r] /\ r.pc = "va_commit"
        BY <3>3 DEF ValidateAll, Requests
      <4>. QED  BY <3>3, <4>1 DEF ValidateAll
    <3>. QED  BY <1>5, <3>1, <3>2, <3>3
  <2>2. UNCHANGED <<settings, conf, touched, hurried, report>>
    BY <1>5 DEF ExposeLatest, ExposeAll, ValidateAll
  <2>. QED  BY <2>1, <2>2, Elsewhere
<1>6. ASSUME NEW h \in Handlers, NEW v \in Ids,
             ExposeStart(h, v) \/ ValidateStart(h, v) \/ DeleteCheck(h, v)
      PROVE TInv'
  <2>1. \E r : req' = [req EXCEPT ![h] = r] /\ r.pc \in {"ex_latest", "va_all", "delete"}
    <3>1. CASE ExposeStart(h, v)
      <4>. DEFINE r == [NoRequest EXCEPT !.pc = "ex_latest", !.row = v, !.doc = rows[v].doc,
                          !.conf = rows[v].conf, !.seen = [i \in {v} |-> rows[v].exposed]]
      <4>1. r.pc = "ex_latest" /\ req' = [req EXCEPT ![h] = r]
        BY <3>1 DEF ExposeStart, NoRequest
      <4>. QED  BY <4>1
    <3>2. CASE ValidateStart(h, v)
      <4>. DEFINE r == [NoRequest EXCEPT
                          !.pc = "va_all", !.row = v, !.seen = [i \in {v} |-> rows[v].validated]]
      <4>1. r.pc = "va_all" /\ req' = [req EXCEPT ![h] = r]
        BY <3>2 DEF ValidateStart, NoRequest
      <4>. QED  BY <4>1
    <3>3. CASE DeleteCheck(h, v)
      <4>. DEFINE r == [NoRequest EXCEPT !.pc = "delete", !.row = v]
      <4>1. r.pc = "delete" /\ req' = [req EXCEPT ![h] = r]
        BY <3>3 DEF DeleteCheck, NoRequest
      <4>. QED  BY <4>1
    <3>. QED  BY <1>6, <3>1, <3>2, <3>3
  <2>2. UNCHANGED <<settings, conf, touched, hurried, report>> /\ req[h].pc = "idle"
    BY <1>6 DEF ExposeStart, ValidateStart, DeleteCheck, CanStart
  <2>. QED  BY <2>1, <2>2, Elsewhere
<1>7. ASSUME NEW h \in Handlers, NEW d \in Uploads, UploadCheck(h, d) PROVE TInv'
  <2>. DEFINE r == [NoRequest EXCEPT !.pc = "upload", !.doc = d]
  <2>1. r.pc = "upload" /\ req' = [req EXCEPT ![h] = r]
    BY <1>7 DEF UploadCheck, NoRequest
  <2>. HIDE DEF r
  <2>. QED  BY <1>7, <2>1, Elsewhere DEF UploadCheck, CanStart
<1>8. ASSUME NEW h \in Handlers, ExposeRestore(h) PROVE TInv'
  <2>. DEFINE r == [req[h] EXCEPT !.pc = "write", !.seen = NothingSeen]
  <2>1. r.pc = "write" /\ r.conf = req[h].conf /\ NoRequest.pc = "idle"
    BY DEF Requests, NoRequest
  <2>. HIDE DEF r
  <2>2. CASE req[h].conf \notin {None, settings}
    <3>1. /\ req' = [req EXCEPT ![h] = r] /\ settings' = req[h].conf
          /\ UNCHANGED <<conf, touched, report>> /\ hurried' = ~Settled
      BY <1>8, <2>2 DEF ExposeRestore, r
    <3>. QED  BY <2>1, <3>1, SettledOne DEF TInv
  <2>3. CASE req[h].conf \in {None, settings}
    BY <1>8, <2>1, <2>3, Elsewhere DEF ExposeRestore
  <2>. QED  BY <2>2, <2>3
<1>9. ASSUME NEW h \in Handlers, NEW c \in Settings, Toggle(h, c) PROVE TInv'
  <2>. DEFINE r == [NoRequest EXCEPT !.pc = "write", !.conf = c]
  <2>1. r.pc = "write" /\ r.conf = c /\ req' = [req EXCEPT ![h] = r]
    BY <1>9 DEF Toggle, NoRequest
  <2>. HIDE DEF r
  <2>. QED  BY <1>9, <2>1, SettledOne DEF Toggle, TInv
<1>10. ASSUME NEW h \in Handlers, Regenerate(h) PROVE TInv'
  <2>. DEFINE r == [NoRequest EXCEPT !.pc = "write", !.conf = settings]
  <2>1. r.pc = "write" /\ r.conf = settings /\ req' = [req EXCEPT ![h] = r]
    BY <1>10 DEF Regenerate, NoRequest
  <2>. HIDE DEF r
  <2>2. CASE Settled
    BY <1>10, <2>1, <2>2, SettledOne DEF Regenerate
  <2>3. CASE ~Settled
    <3>1. /\ req'[h] = r
          /\ \A g \in Handlers : g # h => req'[g] = req[g]
      BY <2>1 DEF TypeInv, TypeOK
    <3>2. (Waits("reload")' => Waits("reload")) /\ Waits("write")'
      BY <2>1, <3>1 DEF Waits
    <3>. QED  BY <1>10, <2>1, <2>3, <3>1, <3>2 DEF Regenerate, TInv, OneSetting
  <2>. QED  BY <2>2, <2>3
<1>11. ASSUME NEW h \in Handlers, Write(h) PROVE TInv'
  <2>. DEFINE r == [NoRequest EXCEPT !.pc = "reload"]
  <2>1. r.pc = "reload" /\ req' = [req EXCEPT ![h] = r]
    BY <1>11 DEF Write, NoRequest
  <2>. HIDE DEF r
  <2>2. /\ req'[h] = r
        /\ \A g \in Handlers : g # h => req'[g] = req[g]
    BY <2>1 DEF TypeInv, TypeOK
  <2>3. ~hurried => conf' = settings
    BY <1>11 DEF Write, TInv, OneSetting
  <2>. QED  BY <1>11, <2>1, <2>2, <2>3 DEF Write, TInv, OneSetting
<1>12. ASSUME NEW h \in Handlers, Reload(h) PROVE TInv'
  <2>1. NoRequest.pc = "idle"
    BY DEF NoRequest
  <2>2. /\ req'[h] = NoRequest
        /\ \A g \in Handlers : g # h => req'[g] = req[g]
    BY <1>12 DEF Reload, TypeInv, TypeOK
  <2>3. ~hurried => conf = settings
    BY <1>12 DEF Reload, TInv, OneSetting, Waits
  <2>. QED  BY <1>12, <2>1, <2>2, <2>3 DEF Reload, TInv, OneSetting
<1>13. CASE SatosaLoad
  BY <1>13 DEF SatosaLoad, SatosaLoads, TInv, OneSetting, Waits
<1>14. CASE SatosaRestart
  BY <1>14 DEF SatosaRestart, SatosaLoads, TInv, OneSetting, Waits
<1>15. CASE LoseReport
  BY <1>15 DEF LoseReport, TInv, OneSetting, Waits
<1>16. ASSUME NEW h \in Handlers, Kill(h) PROVE TInv'
  <2>1. CASE req[h].pc \in {"write", "reload"}
    BY <1>16, <2>1 DEF Kill, TInv
  <2>2. CASE req[h].pc \notin {"write", "reload"}
    <3>1. NoRequest.pc = "idle"
      BY DEF NoRequest
    <3>2. hurried' = hurried
      BY <1>16, <2>2 DEF Kill, TypeInv, TypeOK
    <3>. QED  BY <1>16, <2>2, <3>1, <3>2, Elsewhere DEF Kill
  <2>. QED  BY <2>1, <2>2
<1>17. CASE UNCHANGED vars
  BY <1>17 DEF vars, TInv, OneSetting, Waits
<1>. QED
  BY <1>1, <1>2, <1>3, <1>4, <1>5, <1>6, <1>7, <1>8, <1>9, <1>10, <1>11, <1>12, <1>13, <1>14,
     <1>15, <1>16, <1>17 DEF Next, Request, Proceed

LEMMA TogglesStep ==
  TypeInv /\ BInv /\ TInv /\ [Next]_vars
    => \A i \in Generated' \ Rows : rows'[i].conf = rows'[i].doc \/ hurried
<1>. SUFFICES ASSUME TypeInv, BInv, TInv, [Next]_vars, NEW i \in Generated' \ Rows
              PROVE  rows'[i].conf = rows'[i].doc \/ hurried
  OBVIOUS
<1>0. TypeInv' /\ i \in Rows' /\ i \notin Rows /\ rows'[i].src = "generated"
  BY TypeInvInductive DEF Generated
<1>1. ASSUME NEW h \in Handlers, SnapshotInsert(h) PROVE rows'[i].conf = rows'[i].doc \/ hurried
  <2>. DEFINE row == [src |-> "generated", doc |-> req[h].doc, conf |-> settings,
                      exposed |-> req[h].row = 0 \/ req[h].live, validated |-> FALSE,
                      at |-> req[h].at]
  <2>1. row \in Row /\ Insert(row)
    BY <1>1 DEF SnapshotInsert, Row, Requests, Ready, TypeInv, TypeOK, Docs
  <2>2. rows'[i] = row
    BY <1>0, <2>1, InsertAdds
  <2>3. ~hurried => req[h].doc = settings
    BY <1>1 DEF SnapshotInsert, TInv, OneSetting
  <2>. QED  BY <2>2, <2>3
<1>2. ASSUME NEW h \in Handlers, UploadInsert(h) PROVE FALSE
  <2>. DEFINE row == [src |-> "uploaded", doc |-> req[h].doc, conf |-> None, exposed |-> FALSE,
                      validated |-> FALSE, at |-> 0]
  <2>1. row \in Row /\ Insert(row)
    BY <1>2 DEF UploadInsert, Row, Ready, TypeInv, TypeOK, Docs
  <2>2. rows'[i] = row
    BY <1>0, <2>1, InsertAdds
  <2>. QED  BY <1>0, <2>2
<1>3. ASSUME NEW h \in Handlers, ValidateCommit(h) \/ ExposeCommit(h) PROVE FALSE
  <2>1. /\ nextId' = nextId
        /\ \E flag \in {"exposed", "validated"} :
             \/ rows' = rows
             \/ rows' = Flagged(h, flag) /\ Changed(h) \subseteq Rows
    BY <1>3 DEF ValidateCommit, ExposeCommit, CommitFlag, Flagged, Changed
  <2>2. Rows' = Rows
    BY <2>1, FlagMoves
  <2>. QED  BY <1>0, <2>2
<1>4. ASSUME NEW h \in Handlers, SnapshotClear(h) \/ DeleteCommit(h) PROVE FALSE
  <2>1. Rows' \subseteq Rows
    BY <1>4 DEF SnapshotClear, DeleteCommit, Rows, TypeInv, TypeOK
  <2>. QED  BY <1>0, <2>1
<1>5. CASE rows' = rows
  BY <1>0, <1>5 DEF Rows
<1>. QED  BY <1>1, <1>2, <1>3, <1>4, <1>5, WhoWrites

LEMMA TogglesInvariant == Spec => []TInv
BY TInvInit, TInvInductive, Invariant, PTL DEF Spec

(* The toggles "Esponi" restores are those the version was built from, though  *)
(* log_metadata_snapshot reads them when the report arrives: unless they were   *)
(* changed before SATOSA reported the last ones, or never reached it.          *)
THEOREM TogglesStay == Spec => TogglesHonest
<1>1. TypeInv /\ BInv /\ TInv /\ [Next]_vars
        => [\A i \in Generated' \ Rows : rows'[i].conf = rows'[i].doc \/ hurried]_vars
  BY TogglesStep
<1>. QED  BY <1>1, Invariant, TogglesInvariant, PTL DEF Spec, TogglesHonest

------------------------------------------------------------------------------
(* What a request that was not overlapped goes by *)
Informed(h) ==
    LET q == req[h] IN
    /\ q.pc = "sn_insert" => /\ q.row = LastById
                             /\ q.live <=> LastById \in Exposed
                             /\ \A i \in Generated : rows[i].at < q.at
    /\ q.pc = "sn_clear" => LastById \in Exposed \ {q.row}
    /\ q.pc \in {"ex_latest", "ex_all", "ex_commit", "ex_file"}
          => q.row \in Rows /\ q.doc = rows[q.row].doc
    /\ q.pc \in {"ex_all", "ex_commit", "ex_file"} => q.latest = LastByDate
    /\ q.pc = "ex_file" => Exposed = {q.row}

CInv == \A h \in Handlers \ clashed : Informed(h)

(* The badge before the first snapshot, and on version e *)
Blank     == Exposed = {} /\ Generated = {} /\ override = None
Pinned(e) == /\ Exposed = {e}
             /\ override = None <=> e = LastById
             /\ override # None => rows[e].doc = override

(* A history that nothing marred *)
Told ==
    /\ report = None =>
          IF Waits("sn_insert")
            THEN \A h \in Handlers : req[h].pc = "sn_insert" => req[h].doc = live
            ELSE LastDoc = live
    /\ LastByDate = LastById
    /\ ~Waits("sn_clear") /\ ~Waits("ex_file") => Blank \/ \E e \in Rows : Pinned(e)
    /\ \A h \in Handlers : req[h].pc = "sn_clear"
          => Exposed = {req[h].row, LastById} /\ override = None

Unmet == \A h \in clashed : req[h].pc \notin Badge

HInv ==
    /\ report # None => report = live
    /\ \A h \in clashed : req[h].pc # "idle"
    /\ ~marred => Unmet /\ Told

(* What a step does to the table: nothing that a snapshot or an exposure reads *)
Listed == /\ Generated' = Generated
          /\ \A i \in Rows : i \in Rows' =>
                /\ rows'[i].doc = rows[i].doc /\ rows'[i].at = rows[i].at
                /\ rows'[i].src = rows[i].src
Steady == Listed /\ Exposed' = Exposed /\ Rows \subseteq Rows'

LEMMA ListedLast ==
  ASSUME TypeOK, TypeOK', Listed
  PROVE  LastById' = LastById /\ LastDoc' = LastDoc /\ LastByDate' = LastByDate
<1>1. LatestIn /\ LatestIn'
  BY LastIn, LastInNext
<1>2. /\ \A i \in Generated : i \in Rows /\ i \in Nat /\ rows[i].at \in Nat
      /\ \A i \in Generated : i \in Rows'
  BY MaxRowsAssumption DEF Generated, Rows, Ids, TypeOK, Row, Listed
<1>3. \A i \in Generated : rows'[i].at = rows[i].at /\ rows'[i].doc = rows[i].doc
  BY <1>2 DEF Listed
<1>4. LastById' = LastById
  BY <1>1, <1>2 DEF LatestIn, Listed
<1>5. LastByDate' = LastByDate
  BY <1>1, <1>2, <1>3 DEF LatestIn, Listed
<1>6. LastDoc' = LastDoc
  BY <1>1, <1>3, <1>4 DEF LatestIn, LastDoc
<1>. QED  BY <1>4, <1>5, <1>6

LEMMA SameSteady == rows' = rows => Steady
BY DEF Steady, Listed, Generated, Exposed, Rows

LEMMA FlagListed ==
  ASSUME TypeInv, BInv, NEW h \in Handlers, NEW flag \in {"exposed", "validated"},
         nextId' = nextId,
         \/ rows' = rows
         \/ rows' = Flagged(h, flag) /\ Changed(h) \subseteq Rows
  PROVE  Listed /\ Rows' = Rows /\ (flag = "validated" => Steady)
<1>1. Rows' = Rows /\ (flag = "validated" => Still)
  BY FlagMoves
<1>2. \A i \in Rows : /\ rows'[i].doc = rows[i].doc /\ rows'[i].at = rows[i].at
                      /\ rows'[i].src = rows[i].src
  <2>. SUFFICES ASSUME NEW i \in Rows
                PROVE  /\ rows'[i].doc = rows[i].doc /\ rows'[i].at = rows[i].at
                       /\ rows'[i].src = rows[i].src
    OBVIOUS
  <2>1. i \in Ids /\ (i = req[h].row) \in BOOLEAN
    BY DEF Rows
  <2>2. CASE rows' = rows
    BY <2>2
  <2>3. CASE rows' = Flagged(h, flag) /\ i \in Changed(h)
    BY <2>1, <2>3, FlagTyped DEF Flagged, TypeInv
  <2>4. CASE rows' = Flagged(h, flag) /\ i \notin Changed(h)
    BY <2>1, <2>4 DEF Flagged
  <2>. QED  BY <2>2, <2>3, <2>4
<1>. QED  BY <1>1, <1>2 DEF Listed, Steady, Still, Generated

LEMMA InsertLists ==
  ASSUME TypeInv, TypeInv', BInv, NEW row \in Row, Insert(row)
  PROVE  /\ row.src # "generated" /\ ~row.exposed => Steady
         /\ row.src = "generated" => Generated' = Generated \cup {nextId}
         /\ Exposed' = Exposed \cup {i \in {nextId} : row.exposed}
<1>1. /\ nextId \in Rows' /\ nextId \notin Rows /\ rows'[nextId] = row
      /\ Rows' = Rows \cup {nextId}
      /\ \A i \in Rows : rows'[i] = rows[i]
  BY InsertAdds
<1>. QED  BY <1>1 DEF Steady, Listed, Generated, Exposed

(* A request that no other one overlapped exposes its version and no other. *)
LEMMA ExposesOne ==
  ASSUME TypeInv, BInv, NEW h \in Handlers \ clashed, ExposeCommit(h)
  PROVE  Move(h, "ex_file") /\ Exposed' = {req[h].row} /\ Listed /\ Rows' = Rows
<1>. DEFINE v == req[h].row
<1>1. /\ v \in DOMAIN req[h].seen /\ DOMAIN req[h].seen \subseteq Rows
      /\ \A i \in DOMAIN req[h].seen : req[h].seen[i] = rows[i].exposed
      /\ Exposed \subseteq DOMAIN req[h].seen
  BY DEF BInv, Current, ExposeCommit
<1>2. Changed(h) \subseteq Rows
  BY <1>1 DEF Changed
<1>3. Move(h, "ex_file") /\ rows' = Flagged(h, "exposed") /\ nextId' = nextId
  BY <1>2 DEF ExposeCommit, CommitFlag, Changed, Flagged
<1>4. Listed /\ Rows' = Rows
  BY <1>2, <1>3, FlagListed
<1>5. \A i \in Rows : rows'[i].exposed <=> i = v
  <2>. SUFFICES ASSUME NEW i \in Rows PROVE rows'[i].exposed <=> i = v
    OBVIOUS
  <2>1. i \in Ids /\ rows[i].exposed \in BOOLEAN
    BY DEF Rows, TypeInv, TypeOK, Row
  <2>2. CASE i \in Changed(h)
    <3>1. (i = v) \in BOOLEAN
      OBVIOUS
    <3>2. rows'[i].exposed = (i = v)
      BY <1>3, <2>1, <2>2, <3>1, FlagTyped DEF Flagged, TypeInv
    <3>. QED  BY <3>2
  <2>3. CASE i \notin Changed(h)
    <3>1. rows'[i] = rows[i]
      BY <1>3, <2>1, <2>3 DEF Flagged
    <3>2. CASE i \in DOMAIN req[h].seen
      BY <1>1, <2>1, <2>3, <3>1, <3>2 DEF Changed
    <3>3. CASE i \notin DOMAIN req[h].seen
      BY <1>1, <3>1, <3>3 DEF Exposed
    <3>. QED  BY <3>2, <3>3
  <2>. QED  BY <2>2, <2>3
<1>. QED  BY <1>1, <1>3, <1>4, <1>5 DEF Exposed

------------------------------------------------------------------------------
(* The others are informed as before: they do not touch the badge, or the step *)
(* leaves all that they go by.                                                *)
LEMMA OthersInformed ==
  ASSUME TypeInv, TypeInv', BInv, CInv, NEW h \in Handlers, NEW r,
         req' = [req EXCEPT ![h] = r], clashed \subseteq clashed' \cup {h},
         req[h].pc \in Badge \/ Steady
  PROVE  \A g \in Handlers \ clashed' : g # h => Informed(g)'
<1>. SUFFICES ASSUME NEW g \in Handlers \ clashed', g # h PROVE Informed(g)'
  OBVIOUS
<1>1. g \notin clashed /\ req'[g] = req[g]
  BY DEF TypeInv, TypeOK
<1>2. CASE req[g].pc \notin Badge
  BY <1>1, <1>2 DEF Informed, Badge
<1>3. CASE req[g].pc \in Badge
  <2>1. Steady
    BY <1>1, <1>3 DEF BInv, Alone
  <2>2. LastById' = LastById /\ LastByDate' = LastByDate
    BY <2>1, ListedLast DEF Steady, TypeInv
  <2>3. Informed(g)
    BY <1>1 DEF CInv
  <2>4. \A i \in Generated : i \in Rows /\ rows'[i].at = rows[i].at
    BY <2>1 DEF Steady, Listed, Generated
  <2>. QED  BY <1>1, <2>1, <2>2, <2>3, <2>4 DEF Informed, Steady, Listed
<1>. QED  BY <1>2, <1>3

(* A request whose next step relies on nothing *)
LEMMA Uninformed ==
  ASSUME TypeInv, TypeInv', BInv, CInv, NEW h \in Handlers, NEW r,
         req' = [req EXCEPT ![h] = r], clashed \subseteq clashed' \cup {h},
         req[h].pc \in Badge \/ Steady,
         r.pc \notin {"sn_insert", "sn_clear", "ex_latest", "ex_all", "ex_commit", "ex_file"}
  PROVE  CInv'
<1>1. Informed(h)'
  BY DEF Informed, TypeInv, TypeOK
<1>. QED  BY <1>1, OthersInformed DEF CInv

LEMMA NobodyMoves ==
  ASSUME TypeInv, TypeInv', CInv, rows' = rows, req' = req, clashed \subseteq clashed'
  PROVE  CInv'
<1>1. Steady
  BY SameSteady
<1>2. LastById' = LastById /\ LastByDate' = LastByDate
  BY <1>1, ListedLast DEF Steady, TypeInv
<1>3. ASSUME NEW g \in Handlers \ clashed' PROVE Informed(g)'
  <2>1. Informed(g) /\ req'[g] = req[g]
    BY DEF CInv
  <2>2. Generated' = Generated /\ Exposed' = Exposed /\ Rows' = Rows
    BY <1>1 DEF Steady, Listed, Rows
  <2>. QED  BY <1>2, <2>1, <2>2 DEF Informed
<1>. QED  BY <1>3 DEF CInv

LEMMA CInvInductive == TypeInv /\ BInv /\ CInv /\ [Next]_vars => CInv'
<1>. SUFFICES ASSUME TypeInv, BInv, CInv, [Next]_vars PROVE CInv'
  OBVIOUS
<1>0. TypeInv' /\ \A h \in Handlers : req[h] \in Requests
  BY TypeInvInductive DEF TypeInv, TypeOK
<1>. USE <1>0
<1>1. ASSUME NEW h \in Handlers, SnapshotKnown(h) PROVE CInv'
  BY <1>1, NobodyMoves DEF SnapshotKnown, db
<1>2. CASE SatosaLoad \/ SatosaRestart \/ LoseReport \/ UNCHANGED vars
  BY <1>2, NobodyMoves DEF SatosaLoad, SatosaRestart, SatosaLoads, LoseReport, db, hist, vars
<1>3. ASSUME NEW h \in Handlers, SnapshotNew(h) PROVE CInv'
  <2>. DEFINE r == [NoRequest EXCEPT
                      !.pc = "sn_insert", !.doc = report, !.row = LastById, !.at = Now,
                      !.live = LastById # 0 /\ rows[LastById].exposed]
  <2>1. /\ r.pc = "sn_insert" /\ r.row = LastById /\ r.at = Now
        /\ r.live = (LastById # 0 /\ rows[LastById].exposed)
    BY DEF NoRequest
  <2>2. req' = [req EXCEPT ![h] = r] /\ rows' = rows /\ clashed \subseteq clashed'
    BY <1>3 DEF SnapshotNew, Begin, Meets, db
  <2>. HIDE DEF r
  <2>3. req'[h] = r
    BY <2>2 DEF TypeInv, TypeOK
  <2>4. Steady /\ LastById' = LastById
    BY <2>2, SameSteady, ListedLast DEF Steady, TypeInv
  <2>5. r.live <=> LastById \in Exposed
    <3>1. LatestIn /\ 0 \notin Ids
      BY LastIn, MaxRowsAssumption DEF TypeInv, Ids
    <3>2. CASE LastById = 0
      BY <2>1, <3>1, <3>2 DEF Exposed, Rows
    <3>3. CASE LastById # 0
      <4>1. LastById \in Rows
        BY <3>1, <3>3 DEF LatestIn, Generated
      <4>. QED  BY <2>1, <3>3, <4>1 DEF Exposed
    <3>. QED  BY <3>2, <3>3
  <2>6. \A i \in Generated : rows[i].at < Now
    BY NowIsLater DEF Generated, TypeInv
  <2>7. Informed(h)'
    BY <2>1, <2>2, <2>3, <2>4, <2>5, <2>6 DEF Informed, Steady, Listed
  <2>. QED  BY <2>2, <2>4, <2>7, OthersInformed DEF CInv
<1>4. ASSUME NEW h \in Handlers, SnapshotInsert(h) PROVE CInv'
  <2>. DEFINE row == [src |-> "generated", doc |-> req[h].doc, conf |-> settings,
                      exposed |-> req[h].row = 0 \/ req[h].live, validated |-> FALSE,
                      at |-> req[h].at]
              r == [req[h] EXCEPT !.pc = "sn_clear", !.seen = NothingSeen]
  <2>1. /\ Insert(row) /\ req[h].pc = "sn_insert" /\ req[h].pc \in Badge
        /\ IF req[h].live THEN Continue(h, r) ELSE Done(h)
    BY <1>4 DEF SnapshotInsert, Move, Badge
  <2>2. row \in Row /\ row.src = "generated" /\ row.exposed = (req[h].row = 0 \/ req[h].live)
    BY <2>1 DEF Row, Requests, Ready, TypeInv, TypeOK, Docs
  <2>. HIDE DEF row
  <2>3. CASE ~req[h].live
    BY <2>1, <2>3, Uninformed DEF Done, NoRequest
  <2>4. CASE req[h].live
    <3>1. r.pc = "sn_clear" /\ r.row = req[h].row
      BY DEF Requests
    <3>. HIDE DEF r
    <3>2. req' = [req EXCEPT ![h] = r] /\ clashed' = clashed /\ req'[h] = r
      BY <2>1, <2>4 DEF Continue, TypeInv, TypeOK
    <3>3. LastById' = nextId /\ nextId \in Exposed'
      <4>1. /\ Generated' = Generated \cup {nextId} /\ nextId \in Exposed'
            /\ nextId \in Nat \ {0}
        <5>1. row.src = "generated" /\ row.exposed
          BY <2>2, <2>4
        <5>2. Generated' = Generated \cup {nextId} /\ nextId \in Exposed'
          BY <2>1, <2>2, <5>1, InsertLists
        <5>3. nextId \in Nat \ {0}
          BY MaxRowsAssumption DEF TypeInv, TypeOK
        <5>. QED  BY <5>2, <5>3
      <4>2. \A i \in Generated : i \in Nat /\ i < nextId
        BY DEF Generated, Rows, Ids, BInv
      <4>3. LatestIn'
        BY LastInNext DEF TypeInv
      <4>. QED  BY <4>1, <4>2, <4>3 DEF LatestIn
    <3>4. h \notin clashed => req[h].row < nextId
      BY <2>1 DEF BInv, Current
    <3>5. h \notin clashed => Informed(h)'
      <4>. SUFFICES ASSUME h \notin clashed PROVE Informed(h)'
        OBVIOUS
      <4>1. nextId \in Nat /\ req[h].row \in Nat
        BY MaxRowsAssumption DEF TypeInv, TypeOK, Requests
      <4>. QED  BY <3>1, <3>2, <3>3, <3>4, <4>1 DEF Informed
    <3>. QED  BY <2>1, <3>2, <3>5, OthersInformed DEF CInv
  <2>. QED  BY <2>3, <2>4
<1>5. ASSUME NEW h \in Handlers,
             SnapshotClear(h) \/ DeleteCommit(h) \/ ExposeFile(h) \/ ExposeRestore(h)
      PROVE CInv'
  <2>. DEFINE a == [NoRequest EXCEPT !.pc = "ex_restore", !.conf = req[h].conf]
              b == [req[h] EXCEPT !.pc = "write", !.seen = NothingSeen]
  <2>1. a.pc = "ex_restore" /\ b.pc = "write" /\ NoRequest.pc = "idle"
    BY DEF Requests, NoRequest
  <2>2. /\ req[h].pc \in Badge /\ clashed \subseteq clashed' \cup {h}
        /\ \/ req' = [req EXCEPT ![h] = a]
           \/ req' = [req EXCEPT ![h] = b]
           \/ req' = [req EXCEPT ![h] = NoRequest]
    BY <1>5 DEF SnapshotClear, DeleteCommit, ExposeFile, ExposeRestore, Move, Continue, Done, Badge
  <2>. HIDE DEF a, b
  <2>. QED  BY <2>1, <2>2, Uninformed
<1>6. ASSUME NEW h \in Handlers, NEW v \in Ids, ExposeStart(h, v) PROVE CInv'
  <2>. DEFINE r == [NoRequest EXCEPT
                      !.pc = "ex_latest", !.row = v, !.doc = rows[v].doc, !.conf = rows[v].conf,
                      !.seen = [i \in {v} |-> rows[v].exposed]]
  <2>1. r.pc = "ex_latest" /\ r.row = v /\ r.doc = rows[v].doc
    BY DEF NoRequest
  <2>2. req' = [req EXCEPT ![h] = r] /\ rows' = rows /\ clashed \subseteq clashed' /\ v \in Rows
    BY <1>6 DEF ExposeStart, Begin, Meets, db
  <2>. HIDE DEF r
  <2>3. req'[h] = r
    BY <2>2 DEF TypeInv, TypeOK
  <2>4. Informed(h)'
    BY <2>1, <2>2, <2>3 DEF Informed, Rows
  <2>. QED  BY <2>2, <2>4, SameSteady, OthersInformed DEF CInv
<1>7. ASSUME NEW h \in Handlers, ExposeLatest(h) \/ ExposeAll(h) PROVE CInv'
  <2>. DEFINE a == [req[h] EXCEPT !.pc = "ex_all", !.latest = LastByDate,
                      !.seen = See(h, "exposed", DOMAIN req[h].seen \cup (Generated \cap {LastByDate}))]
              b == [req[h] EXCEPT !.pc = "ex_commit", !.seen = See(h, "exposed", Rows)]
  <2>1. /\ a.pc = "ex_all" /\ a.row = req[h].row /\ a.doc = req[h].doc /\ a.latest = LastByDate
        /\ b.pc = "ex_commit" /\ b.row = req[h].row /\ b.doc = req[h].doc
        /\ b.latest = req[h].latest
    BY DEF Requests
  <2>2. /\ req[h].pc \in Badge /\ rows' = rows /\ clashed' = clashed
        /\ \/ req[h].pc = "ex_latest" /\ req' = [req EXCEPT ![h] = a]
           \/ req[h].pc = "ex_all" /\ req' = [req EXCEPT ![h] = b]
    BY <1>7 DEF ExposeLatest, ExposeAll, db, hist, Badge
  <2>. HIDE DEF a, b
  <2>3. \/ req[h].pc = "ex_latest" /\ req'[h] = a
        \/ req[h].pc = "ex_all" /\ req'[h] = b
    BY <2>2 DEF TypeInv, TypeOK
  <2>4. Rows' = Rows /\ LastByDate' = LastByDate
    BY <2>2, SameSteady, ListedLast DEF Steady, TypeInv, Rows
  <2>5. h \notin clashed => Informed(h)'
    <3>. SUFFICES ASSUME h \notin clashed PROVE Informed(h)'
      OBVIOUS
    <3>1. Informed(h)
      BY DEF CInv
    <3>. QED  BY <2>1, <2>2, <2>3, <2>4, <3>1 DEF Informed
  <2>6. \E r : req' = [req EXCEPT ![h] = r]
    BY <2>2
  <2>. QED  BY <2>2, <2>5, <2>6, OthersInformed DEF CInv
<1>8. ASSUME NEW h \in Handlers, ExposeCommit(h) PROVE CInv'
  <2>. DEFINE r == [req[h] EXCEPT !.pc = "ex_file", !.seen = NothingSeen]
  <2>1. req[h].pc = "ex_commit" /\ req[h].pc \in Badge /\ (Done(h) \/ Continue(h, r))
    BY <1>8 DEF ExposeCommit, CommitFlag, Move, Badge
  <2>2. r.pc = "ex_file" /\ r.row = req[h].row /\ r.doc = req[h].doc /\ r.latest = req[h].latest
    BY DEF Requests
  <2>. HIDE DEF r
  <2>3. CASE Done(h)
    BY <2>1, <2>3, Uninformed DEF Done, NoRequest
  <2>4. CASE Continue(h, r)
    <3>1. req' = [req EXCEPT ![h] = r] /\ clashed' = clashed /\ req'[h] = r
      BY <2>4 DEF Continue, TypeInv, TypeOK
    <3>2. ASSUME h \notin clashed PROVE Informed(h)'
      <4>1. Exposed' = {req[h].row} /\ Listed /\ Rows' = Rows
        BY <1>8, <3>2, ExposesOne
      <4>2. LastByDate' = LastByDate
        BY <4>1, ListedLast DEF TypeInv
      <4>3. Informed(h)
        BY <3>2 DEF CInv
      <4>. QED  BY <2>1, <2>2, <3>1, <4>1, <4>2, <4>3 DEF Informed, Listed
    <3>. QED  BY <2>1, <3>1, <3>2, OthersInformed DEF CInv
  <2>. QED  BY <2>1, <2>3, <2>4
<1>9. ASSUME NEW h \in Handlers, UploadInsert(h) PROVE CInv'
  <2>. DEFINE row == [src |-> "uploaded", doc |-> req[h].doc, conf |-> None, exposed |-> FALSE,
                      validated |-> FALSE, at |-> 0]
  <2>1. Insert(row) /\ Done(h) /\ req[h].pc = "upload"
    BY <1>9 DEF UploadInsert
  <2>2. row \in Row /\ row.exposed = FALSE /\ row.src # "generated"
    BY <2>1 DEF Row, Ready, TypeInv, TypeOK, Docs
  <2>. HIDE DEF row
  <2>3. Steady
    BY <2>1, <2>2, InsertLists
  <2>. QED  BY <2>1, <2>3, Uninformed DEF Done, NoRequest
<1>10. ASSUME NEW h \in Handlers, ValidateCommit(h) PROVE CInv'
  <2>1. /\ Done(h) /\ nextId' = nextId
        /\ \/ rows' = rows
           \/ rows' = Flagged(h, "validated") /\ Changed(h) \subseteq Rows
    BY <1>10 DEF ValidateCommit, CommitFlag, Flagged, Changed
  <2>2. Steady
    BY <2>1, FlagListed
  <2>. QED  BY <2>1, <2>2, Uninformed DEF Done, NoRequest
<1>11. ASSUME NEW h \in Handlers,
              \/ Write(h) \/ Reload(h) \/ ValidateAll(h) \/ Kill(h) \/ Regenerate(h)
              \/ \E v \in Ids : ValidateStart(h, v) \/ DeleteCheck(h, v)
              \/ \E c \in Settings : Toggle(h, c)
              \/ \E d \in Uploads : UploadCheck(h, d)
       PROVE CInv'
  <2>1. rows' = rows /\ clashed \subseteq clashed' \cup {h}
    BY <1>11 DEF Write, Reload, ValidateAll, Kill, Regenerate, ValidateStart, DeleteCheck, Toggle,
       UploadCheck, Begin, Meets, Continue, Done, db, hist
  <2>2. \E r : /\ req' = [req EXCEPT ![h] = r]
               /\ r.pc \in {"idle", "reload", "va_commit", "write", "va_all", "delete", "upload"}
    <3>1. ASSUME Write(h) PROVE \E r : req' = [req EXCEPT ![h] = r] /\ r.pc = "reload"
      <4>. DEFINE r == [NoRequest EXCEPT !.pc = "reload"]
      <4>1. req' = [req EXCEPT ![h] = r] /\ r.pc = "reload"
        BY <3>1 DEF Write, Continue, NoRequest
      <4>. QED  BY <4>1
    <3>2. ASSUME Reload(h) \/ Kill(h)
          PROVE  req' = [req EXCEPT ![h] = NoRequest] /\ NoRequest.pc = "idle"
      BY <3>2 DEF Reload, Kill, Done, NoRequest
    <3>3. CASE ValidateAll(h)
      <4>. DEFINE r == [req[h] EXCEPT !.pc = "va_commit", !.seen = See(h, "validated", Rows)]
      <4>1. req' = [req EXCEPT ![h] = r] /\ r.pc = "va_commit"
        BY <3>3 DEF ValidateAll, Requests
      <4>. QED  BY <4>1
    <3>4. CASE Regenerate(h)
      <4>. DEFINE r == [NoRequest EXCEPT !.pc = "write", !.conf = settings]
      <4>1. req' = [req EXCEPT ![h] = r] /\ r.pc = "write"
        BY <3>4 DEF Regenerate, Begin, NoRequest
      <4>. QED  BY <4>1
    <3>5. ASSUME NEW v \in Ids, ValidateStart(h, v)
          PROVE \E r : req' = [req EXCEPT ![h] = r] /\ r.pc = "va_all"
      <4>. DEFINE r == [NoRequest EXCEPT
                          !.pc = "va_all", !.row = v, !.seen = [i \in {v} |-> rows[v].validated]]
      <4>1. req' = [req EXCEPT ![h] = r] /\ r.pc = "va_all"
        BY <3>5 DEF ValidateStart, Begin, NoRequest
      <4>. QED  BY <4>1
    <3>6. ASSUME NEW v \in Ids, DeleteCheck(h, v)
          PROVE \E r : req' = [req EXCEPT ![h] = r] /\ r.pc = "delete"
      <4>. DEFINE r == [NoRequest EXCEPT !.pc = "delete", !.row = v]
      <4>1. req' = [req EXCEPT ![h] = r] /\ r.pc = "delete"
        BY <3>6 DEF DeleteCheck, Begin, NoRequest
      <4>. QED  BY <4>1
    <3>7. ASSUME NEW c \in Settings, Toggle(h, c)
          PROVE \E r : req' = [req EXCEPT ![h] = r] /\ r.pc = "write"
      <4>. DEFINE r == [NoRequest EXCEPT !.pc = "write", !.conf = c]
      <4>1. req' = [req EXCEPT ![h] = r] /\ r.pc = "write"
        BY <3>7 DEF Toggle, Begin, NoRequest
      <4>. QED  BY <4>1
    <3>8. ASSUME NEW d \in Uploads, UploadCheck(h, d)
          PROVE \E r : req' = [req EXCEPT ![h] = r] /\ r.pc = "upload"
      <4>. DEFINE r == [NoRequest EXCEPT !.pc = "upload", !.doc = d]
      <4>1. req' = [req EXCEPT ![h] = r] /\ r.pc = "upload"
        BY <3>8 DEF UploadCheck, Begin, NoRequest
      <4>. QED  BY <4>1
    <3>. QED  BY <1>11, <3>1, <3>2, <3>3, <3>4, <3>5, <3>6, <3>7, <3>8
  <2>. QED  BY <2>1, <2>2, SameSteady, Uninformed
<1>. QED
  BY <1>1, <1>2, <1>3, <1>4, <1>5, <1>6, <1>7, <1>8, <1>9, <1>10, <1>11
  DEF Next, Request, Proceed
------------------------------------------------------------------------------
Waiting == {"sn_insert", "sn_clear", "ex_file"}

(* How a request may go on: it begins, it goes on, it ends. *)
Serving(h, r) ==
    /\ req' = [req EXCEPT ![h] = r]
    /\ \/ Begin(h, r) /\ req[h].pc = "idle" /\ r.pc # "idle"
       \/ /\ clashed' = clashed /\ req[h].pc # "idle" /\ r.pc # "idle"
          /\ r.pc \in Badge => req[h].pc \in Badge
       \/ clashed' = clashed \ {h}

ClashedBusy == \A h \in clashed : req[h].pc # "idle"
Reported    == report # None => report = live

LEMMA OnlyOne ==
  ASSUME BInv, CInv, NEW h \in Handlers \ clashed, req[h].pc \in Badge
  PROVE  Informed(h) /\ Current(h) /\ \A g \in Handlers \ {h} : req[g].pc \notin Badge
BY DEF BInv, CInv, Alone

LEMMA ServingUnmet ==
  ASSUME TypeInv, ClashedBusy, NEW h \in Handlers, NEW r, Serving(h, r)
  PROVE  ClashedBusy' /\ (Unmet /\ ~marred' => Unmet')
<1>1. /\ req'[h] = r /\ clashed \subseteq Handlers
      /\ \A g \in Handlers \ {h} : req'[g] = req[g]
  BY DEF Serving, TypeInv, TypeOK
<1>2. CASE Begin(h, r) /\ req[h].pc = "idle" /\ r.pc # "idle"
  <2>. DEFINE others == {g \in Handlers : {req[g].pc, r.pc} \subseteq Badge}
  <2>1. /\ clashed' = clashed \cup others \cup {g \in {h} : others # {}}
        /\ marred' = (marred \/ others # {})
    BY <1>2 DEF Begin, Meets
  <2>2. h \notin clashed /\ \A g \in others : req[g].pc # "idle" /\ g # h
    BY <1>2 DEF ClashedBusy, Badge
  <2>3. ClashedBusy'
    <3>1. \A g \in clashed' : g = h \/ (g \in Handlers \ {h} /\ req[g].pc # "idle")
      BY <1>1, <2>1, <2>2 DEF ClashedBusy
    <3>. QED  BY <1>1, <1>2, <3>1 DEF ClashedBusy
  <2>4. ASSUME Unmet, ~marred' PROVE Unmet'
    <3>1. clashed' = clashed
      BY <2>1, <2>4
    <3>. QED  BY <1>1, <2>2, <2>4, <3>1 DEF Unmet
  <2>. QED  BY <2>3, <2>4
<1>3. CASE /\ clashed' = clashed /\ req[h].pc # "idle" /\ r.pc # "idle"
           /\ r.pc \in Badge => req[h].pc \in Badge
  BY <1>1, <1>3 DEF ClashedBusy, Unmet
<1>4. CASE clashed' = clashed \ {h}
  BY <1>1, <1>4 DEF ClashedBusy, Unmet
<1>. QED  BY <1>2, <1>3, <1>4 DEF Serving

(* A step apart from the badge leaves what the history tells. *)
LEMMA TellsOn ==
  ASSUME TypeInv, TypeInv', Steady, UNCHANGED <<override, live, report>>, Told,
         \A g \in Handlers : req[g].pc \in Waiting \/ req'[g].pc \in Waiting
                                => req'[g].pc = req[g].pc /\ req'[g].doc = req[g].doc
                                   /\ req'[g].row = req[g].row
  PROVE  Told'
<1>1. LastById' = LastById /\ LastDoc' = LastDoc /\ LastByDate' = LastByDate
  BY ListedLast DEF Steady, TypeInv
<1>2. /\ Waits("sn_insert")' <=> Waits("sn_insert")
      /\ Waits("sn_clear")' <=> Waits("sn_clear")
      /\ Waits("ex_file")' <=> Waits("ex_file")
  BY DEF Waits, Waiting
<1>3. Blank => Blank'
  BY DEF Blank, Steady, Listed
<1>4. ASSUME NEW e \in Rows, Pinned(e) PROVE e \in Rows' /\ Pinned(e)'
  BY <1>1, <1>4 DEF Pinned, Steady, Listed
<1>5. report' = None =>
         IF Waits("sn_insert")'
           THEN \A h \in Handlers : req'[h].pc = "sn_insert" => req'[h].doc = live'
           ELSE LastDoc' = live'
  <2>1. CASE Waits("sn_insert")
    BY <1>2, <2>1 DEF Told, Waiting
  <2>2. CASE ~Waits("sn_insert")
    BY <1>1, <1>2, <2>2 DEF Told
  <2>. QED  BY <2>1, <2>2
<1>6. \A h \in Handlers : req'[h].pc = "sn_clear"
         => Exposed' = {req'[h].row, LastById'} /\ override' = None
  BY <1>1 DEF Told, Waiting, Steady
<1>7. LastByDate' = LastById'
  BY <1>1 DEF Told
<1>8. ~Waits("sn_clear")' /\ ~Waits("ex_file")' => Blank' \/ \E e \in Rows' : Pinned(e)'
  BY <1>2, <1>3, <1>4 DEF Told
<1>. QED  BY <1>5, <1>6, <1>7, <1>8 DEF Told

LEMMA ServingTells ==
  ASSUME TypeInv, TypeInv', HInv, NEW h \in Handlers, NEW r, Serving(h, r),
         Steady, UNCHANGED <<override, live, report>>, ~marred' => ~marred,
         ~marred' => req[h].pc \notin Waiting, r.pc \notin Waiting
  PROVE  HInv'
<1>1. ClashedBusy' /\ (~marred' => Unmet')
  BY ServingUnmet DEF HInv, ClashedBusy
<1>2. ASSUME ~marred' PROVE Told'
  <2>1. \A g \in Handlers : req'[g] = IF g = h THEN r ELSE req[g]
    BY DEF Serving, TypeInv, TypeOK
  <2>. QED  BY <1>2, <2>1, TellsOn DEF HInv
<1>. QED  BY <1>1, <1>2 DEF HInv, ClashedBusy

(* The steps of a snapshot and of an exposure, without a mishap *)
LEMMA InsertTells ==
  ASSUME TypeInv, TypeInv', BInv, CInv, HInv, NEW h \in Handlers, SnapshotInsert(h)
  PROVE  HInv'
<1>. DEFINE row == [src |-> "generated", doc |-> req[h].doc, conf |-> settings,
                    exposed |-> req[h].row = 0 \/ req[h].live, validated |-> FALSE,
                    at |-> req[h].at]
            r == IF req[h].live THEN [req[h] EXCEPT !.pc = "sn_clear", !.seen = NothingSeen]
                 ELSE NoRequest
<1>1. /\ Insert(row) /\ req[h].pc = "sn_insert" /\ req[h].pc \in Badge
      /\ req' = [req EXCEPT ![h] = r]
      /\ clashed' = IF req[h].live THEN clashed ELSE clashed \ {h}
      /\ UNCHANGED <<override, live, report>>
      /\ marred' = (marred \/ (req[h].row = 0 /\ Exposed # {}))
  BY DEF SnapshotInsert, Move, Continue, Done, Badge, vol
<1>2. req[h] \in Requests
  BY DEF TypeInv, TypeOK
<1>3. /\ req[h].live => r.pc = "sn_clear" /\ r.row = req[h].row
      /\ ~req[h].live => r.pc = "idle"
  BY <1>2 DEF Requests, NoRequest
<1>4. /\ row \in Row /\ row.src = "generated" /\ row.doc = req[h].doc /\ row.at = req[h].at
      /\ row.exposed = (req[h].row = 0 \/ req[h].live)
  BY <1>1, <1>2 DEF Row, Requests, Ready, TypeInv, TypeOK, Docs
<1>. HIDE DEF row, r
<1>5. ClashedBusy' /\ (~marred' => Unmet')
  <2>1. Serving(h, r)
    BY <1>1, <1>3 DEF Serving
  <2>. QED  BY <1>1, <2>1, ServingUnmet DEF HInv, ClashedBusy
<1>6. ASSUME ~marred' PROVE Told'
  <2>1. Told /\ Unmet /\ h \notin clashed /\ ~(req[h].row = 0 /\ Exposed # {})
    BY <1>1, <1>6 DEF HInv, Unmet
  <2>2. /\ Informed(h)
        /\ \A g \in Handlers \ {h} : req[g].pc \notin Badge /\ req'[g] = req[g]
        /\ req'[h] = r
    BY <1>1, <2>1, OnlyOne DEF TypeInv, TypeOK
  <2>3. /\ ~Waits("sn_clear") /\ ~Waits("ex_file") /\ Waits("sn_insert")
        /\ ~Waits("sn_insert")' /\ ~Waits("ex_file")'
        /\ Waits("sn_clear")' <=> req[h].live
    BY <1>1, <1>3, <2>2 DEF Waits, Badge
  <2>4. /\ req[h].row = LastById /\ (req[h].live <=> LastById \in Exposed)
        /\ \A i \in Generated : rows[i].at < req[h].at
    BY <1>1, <2>2 DEF Informed
  <2>5. /\ Generated' = Generated \cup {nextId} /\ rows'[nextId] = row
        /\ nextId \in Rows' /\ nextId \notin Rows /\ Rows' = Rows \cup {nextId}
        /\ \A i \in Rows : rows'[i] = rows[i]
        /\ Exposed' = Exposed \cup {i \in {nextId} : row.exposed}
    BY <1>1, <1>4, InsertAdds, InsertLists
  <2>6. LastById' = nextId /\ LastByDate' = nextId
    <3>1. LatestIn'
      BY LastInNext DEF TypeInv
    <3>2. nextId \in Nat \ {0} /\ \A i \in Generated : i \in Nat /\ i < nextId
      BY MaxRowsAssumption DEF TypeInv, TypeOK, Generated, Rows, Ids, BInv
    <3>3. LastById' = nextId
      BY <2>5, <3>1, <3>2 DEF LatestIn
    <3>4. /\ \A i \in Generated : rows'[i].at < rows'[nextId].at /\ rows'[i].at \in Nat
          /\ rows'[nextId].at \in Nat
      BY <1>2, <1>4, <2>4, <2>5 DEF Generated, Rows, TypeInv, TypeOK, Row, Requests
    <3>5. LastByDate' = nextId
      BY <2>5, <3>1, <3>2, <3>4 DEF LatestIn
    <3>. QED  BY <3>3, <3>5
  <2>7. LastDoc' = req[h].doc
    <3>1. nextId # 0
      BY MaxRowsAssumption DEF TypeInv, TypeOK
    <3>. QED  BY <1>4, <2>5, <2>6, <3>1 DEF LastDoc
  <2>8. report' = None => LastDoc' = live'
    BY <1>1, <2>1, <2>3, <2>7 DEF Told
  <2>9. /\ ~req[h].live => \E e \in Rows' : Pinned(e)'
        /\ req[h].live => Exposed' = {req[h].row, LastById'} /\ override' = None
    <3>1. CASE Blank
      <4>1. LastById = 0 /\ ~req[h].live /\ row.exposed
        BY <1>4, <2>4, <3>1, LastIn DEF LatestIn, Blank, TypeInv
      <4>2. Exposed' = {nextId} /\ override' = None
        BY <1>1, <2>5, <3>1, <4>1 DEF Blank
      <4>. QED  BY <2>5, <2>6, <4>1, <4>2 DEF Pinned
    <3>2. ASSUME NEW e \in Rows, Pinned(e) PROVE <2>9
      <4>1. req[h].row # 0 /\ Exposed = {e}
        BY <2>1, <3>2 DEF Pinned
      <4>2. CASE e = LastById
        <5>1. req[h].live /\ row.exposed /\ override' = None
          BY <1>1, <1>4, <2>4, <3>2, <4>1, <4>2 DEF Pinned
        <5>. QED  BY <2>4, <2>5, <2>6, <4>1, <4>2, <5>1
      <4>3. CASE e # LastById
        <5>1. ~req[h].live /\ ~row.exposed /\ override # None /\ rows[e].doc = override
          BY <1>4, <2>4, <3>2, <4>1, <4>3 DEF Pinned
        <5>2. Exposed' = {e} /\ e # LastById' /\ rows'[e] = rows[e] /\ e \in Rows'
          BY <2>5, <2>6, <3>2, <4>1, <5>1
        <5>. QED  BY <1>1, <5>1, <5>2 DEF Pinned
      <4>. QED  BY <4>2, <4>3
    <3>. QED  BY <2>1, <2>3, <3>1, <3>2 DEF Told
  <2>10. \A g \in Handlers : req'[g].pc = "sn_clear"
            => Exposed' = {req'[g].row, LastById'} /\ override' = None
    BY <1>3, <2>2, <2>9 DEF Badge
  <2>. QED  BY <2>3, <2>6, <2>8, <2>9, <2>10 DEF Told
<1>7. Reported'
  BY <1>1 DEF HInv, Reported
<1>. QED  BY <1>5, <1>6, <1>7 DEF HInv, ClashedBusy, Reported

LEMMA ClearTells ==
  ASSUME TypeInv, TypeInv', BInv, CInv, HInv, NEW h \in Handlers, SnapshotClear(h)
  PROVE  HInv'
<1>1. /\ req[h].pc = "sn_clear" /\ req[h].pc \in Badge
      /\ req' = [req EXCEPT ![h] = NoRequest] /\ clashed' = clashed \ {h}
      /\ UNCHANGED <<override, live, report, marred>>
      /\ rows' = IF req[h].row \in Rows
                 THEN [rows EXCEPT ![req[h].row].exposed = FALSE] ELSE rows
  BY DEF SnapshotClear, Done, Badge, vol
<1>2. ClashedBusy' /\ (~marred' => Unmet')
  BY <1>1, ServingUnmet DEF HInv, ClashedBusy, Serving
<1>3. ASSUME ~marred' PROVE Told'
  <2>1. Told /\ Unmet /\ h \notin clashed
    BY <1>1, <1>3 DEF HInv, Unmet
  <2>2. /\ Informed(h)
        /\ \A g \in Handlers \ {h} : req[g].pc \notin Badge /\ req'[g] = req[g]
        /\ req'[h] = NoRequest /\ NoRequest.pc = "idle"
    BY <1>1, <2>1, OnlyOne DEF TypeInv, TypeOK, NoRequest
  <2>3. /\ ~Waits("sn_insert") /\ ~Waits("sn_insert")' /\ ~Waits("sn_clear")'
    BY <1>1, <2>2 DEF Waits, Badge
  <2>. DEFINE v == req[h].row
  <2>4. /\ Exposed = {v, LastById} /\ override = None /\ LastById # v /\ v \in Rows
        /\ LastById \in Rows /\ v \in Ids /\ rows[v] \in Row
    BY <1>1, <2>1, <2>2 DEF Told, Informed, Exposed, Rows, TypeInv, TypeOK
  <2>5. rows' = [rows EXCEPT ![v].exposed = FALSE]
    BY <1>1, <2>4
  <2>. HIDE DEF v
  <2>6. /\ rows'[v] = [rows[v] EXCEPT !.exposed = FALSE]
        /\ \A i \in Ids \ {v} : rows'[i] = rows[i]
    BY <2>4, <2>5 DEF TypeInv, TypeOK
  <2>7. rows'[v] \in Row /\ rows'[v].exposed = FALSE /\ rows'[v].src = rows[v].src
        /\ rows'[v].doc = rows[v].doc /\ rows'[v].at = rows[v].at
    BY <2>4, <2>6 DEF Row
  <2>8. Rows' = Rows
    BY <2>4, <2>6, <2>7, NoRowAssumption DEF Rows
  <2>9. Listed
    <3>1. \A i \in Rows : rows'[i].src = rows[i].src /\ rows'[i].doc = rows[i].doc
                          /\ rows'[i].at = rows[i].at
      BY <2>6, <2>7 DEF Rows
    <3>. QED  BY <2>8, <3>1 DEF Listed, Generated
  <2>10. Exposed' = {LastById}
    <3>1. \A i \in Rows : rows'[i].exposed <=> i = LastById
      BY <2>4, <2>6, <2>7 DEF Exposed, Rows
    <3>. QED  BY <2>4, <2>8, <3>1 DEF Exposed
  <2>11. LastById' = LastById /\ LastDoc' = LastDoc /\ LastByDate' = LastByDate
    BY <2>9, ListedLast DEF TypeInv
  <2>12. Pinned(LastById)' /\ LastById \in Rows'
    BY <1>1, <2>4, <2>8, <2>10, <2>11 DEF Pinned
  <2>13. \E e \in Rows' : Pinned(e)'
    BY <2>8, <2>11, <2>12 DEF Pinned
  <2>14. \A g \in Handlers : req'[g].pc # "sn_clear"
    BY <2>3 DEF Waits
  <2>. QED  BY <1>1, <2>1, <2>3, <2>11, <2>13, <2>14 DEF Told
<1>4. Reported'
  BY <1>1 DEF HInv, Reported
<1>. QED  BY <1>2, <1>3, <1>4 DEF HInv, ClashedBusy, Reported

LEMMA ExposeTells ==
  ASSUME TypeInv, TypeInv', BInv, CInv, HInv, NEW h \in Handlers, ExposeCommit(h)
  PROVE  HInv'
<1>. DEFINE r == [req[h] EXCEPT !.pc = "ex_file", !.seen = NothingSeen]
<1>1. /\ req[h].pc = "ex_commit" /\ req[h].pc \in Badge
      /\ (Done(h) \/ Continue(h, r))
      /\ UNCHANGED <<override, live, report, marred>>
  BY DEF ExposeCommit, CommitFlag, Move, Badge, vol
<1>2. req[h] \in Requests /\ r.pc = "ex_file"
  BY DEF TypeInv, TypeOK, Requests
<1>3. ClashedBusy' /\ (~marred' => Unmet')
  <2>. HIDE DEF r
  <2>1. Serving(h, r) \/ Serving(h, NoRequest)
    BY <1>1, <1>2 DEF Serving, Done, Continue, Badge
  <2>. QED  BY <1>1, <2>1, ServingUnmet DEF HInv, ClashedBusy
<1>4. ASSUME ~marred' PROVE Told'
  <2>1. Told /\ Unmet /\ h \notin clashed
    BY <1>1, <1>4 DEF HInv, Unmet
  <2>2. Move(h, "ex_file") /\ Listed /\ Rows' = Rows
    BY <2>1, ExposesOne
  <2>3. /\ \A g \in Handlers \ {h} : req[g].pc \notin Badge /\ req'[g] = req[g]
        /\ req'[h].pc = "ex_file"
    BY <1>1, <1>2, <2>1, <2>2, OnlyOne DEF Move, Continue, TypeInv, TypeOK
  <2>4. /\ ~Waits("sn_insert") /\ ~Waits("sn_insert")' /\ ~Waits("sn_clear")' /\ Waits("ex_file")'
    BY <1>1, <2>3 DEF Waits, Badge
  <2>5. LastById' = LastById /\ LastDoc' = LastDoc /\ LastByDate' = LastByDate
    BY <2>2, ListedLast DEF TypeInv
  <2>6. \A g \in Handlers : req'[g].pc # "sn_clear"
    BY <2>4 DEF Waits
  <2>. QED  BY <1>1, <2>1, <2>4, <2>5, <2>6 DEF Told
<1>5. Reported'
  BY <1>1 DEF HInv, Reported
<1>. QED  BY <1>3, <1>4, <1>5 DEF HInv, ClashedBusy, Reported

(* The file makes the exposed version the one that is served, and mends what  *)
(* went wrong before.                                                         *)
LEMMA FileTells ==
  ASSUME TypeInv, TypeInv', BInv, CInv, HInv, NEW h \in Handlers, ExposeFile(h)
  PROVE  HInv'
<1>. DEFINE r == [NoRequest EXCEPT !.pc = "ex_restore", !.conf = req[h].conf]
<1>1. /\ req[h].pc = "ex_file" /\ req[h].pc \in Badge
      /\ Continue(h, r) /\ rows' = rows
      /\ UNCHANGED <<live, report>>
      /\ override' = IF req[h].latest = req[h].row THEN None ELSE req[h].doc
      /\ marred' = (marred /\ ~Mends(h))
  BY DEF ExposeFile, Badge, db
<1>2. r.pc = "ex_restore"
  BY DEF NoRequest
<1>. HIDE DEF r
<1>3. /\ req'[h] = r /\ clashed' = clashed
      /\ \A g \in Handlers \ {h} : req'[g] = req[g]
  BY <1>1 DEF Continue, TypeInv, TypeOK
<1>4. ClashedBusy'
  BY <1>1, <1>2, <1>3 DEF HInv, ClashedBusy, TypeInv, TypeOK
<1>5. ASSUME ~marred' PROVE Unmet' /\ Told'
  <2>1. /\ h \notin clashed
        /\ LastByDate = LastById \/ req[h].latest = LastById
        /\ report = None => Waits("sn_insert") \/ LastDoc = live
    BY <1>1, <1>5 DEF HInv, Unmet, Mends, Told
  <2>2. /\ Informed(h)
        /\ \A g \in Handlers \ {h} : req[g].pc \notin Badge
    BY <1>1, <2>1, OnlyOne
  <2>3. \A g \in Handlers : req'[g].pc \in Badge => g = h
    BY <1>3, <2>2
  <2>4. Unmet'
    BY <1>3, <2>1, <2>3 DEF Unmet, TypeInv, TypeOK
  <2>5. /\ ~Waits("sn_insert") /\ ~Waits("sn_insert")'
        /\ \A g \in Handlers : req'[g].pc # "sn_clear"
    BY <1>1, <1>2, <1>3, <2>2 DEF Waits, Badge
  <2>6. /\ req[h].row \in Rows /\ req[h].doc = rows[req[h].row].doc
        /\ req[h].latest = LastByDate /\ Exposed = {req[h].row}
    BY <1>1, <2>2 DEF Informed
  <2>7. /\ Rows' = Rows /\ Exposed' = Exposed
        /\ LastById' = LastById /\ LastDoc' = LastDoc /\ LastByDate' = LastByDate
    BY <1>1, SameSteady, ListedLast DEF Steady, TypeInv, Rows
  <2>8. LastByDate = LastById
    BY <2>1, <2>6
  <2>9. req[h].doc # None
    BY <2>6, NoneAssumption DEF Rows, TypeInv, TypeOK, Row, Docs
  <2>10. \E e \in Rows' : Pinned(e)'
    <3>1. PICK e \in Rows : e = req[h].row
      BY <2>6
    <3>2. rows'[e].doc = req[h].doc
      BY <1>1, <2>6, <3>1
    <3>3. CASE e = LastById
      <4>1. override' = None
        BY <1>1, <2>6, <2>8, <3>1, <3>3
      <4>. QED  BY <2>6, <2>7, <3>1, <3>3, <4>1 DEF Pinned
    <3>4. CASE e # LastById
      <4>1. override' = req[h].doc
        BY <1>1, <2>6, <2>8, <3>1, <3>4
      <4>. QED  BY <2>6, <2>7, <2>9, <3>1, <3>2, <3>4, <4>1 DEF Pinned
    <3>. QED  BY <3>3, <3>4
  <2>. QED  BY <1>1, <2>1, <2>4, <2>5, <2>7, <2>8, <2>10 DEF Told
<1>6. Reported'
  BY <1>1 DEF HInv, Reported
<1>. QED  BY <1>4, <1>5, <1>6 DEF HInv, ClashedBusy, Reported

LEMMA DeleteTells ==
  ASSUME TypeInv, TypeInv', BInv, CInv, HInv, NEW h \in Handlers, DeleteCommit(h)
  PROVE  HInv'
<1>. DEFINE v == req[h].row
<1>1. /\ req[h].pc = "delete" /\ req[h].pc \in Badge
      /\ req' = [req EXCEPT ![h] = NoRequest] /\ clashed' = clashed \ {h}
      /\ UNCHANGED <<override, live, report>>
      /\ rows' = [rows EXCEPT ![v] = None] /\ marred' = (marred \/ v = LastById)
  BY DEF DeleteCommit, Done, Badge, vol
<1>2. ClashedBusy' /\ (~marred' => Unmet')
  BY <1>1, ServingUnmet DEF HInv, ClashedBusy, Serving
<1>3. ASSUME ~marred' PROVE Told'
  <2>1. Told /\ Unmet /\ h \notin clashed /\ v # LastById
    BY <1>1, <1>3 DEF HInv, Unmet
  <2>2. /\ v \notin Exposed
        /\ \A g \in Handlers \ {h} : req[g].pc \notin Badge /\ req'[g] = req[g]
        /\ req'[h] = NoRequest /\ NoRequest.pc = "idle"
    BY <1>1, <2>1, OnlyOne DEF TypeInv, TypeOK, NoRequest, Current
  <2>. HIDE DEF v
  <2>3. /\ ~Waits("sn_insert") /\ ~Waits("sn_clear") /\ ~Waits("ex_file")
        /\ ~Waits("sn_insert")'
        /\ \A g \in Handlers : req'[g].pc # "sn_clear"
    BY <1>1, <2>2 DEF Waits, Badge
  <2>4. /\ Rows' = Rows \ {v} /\ Generated' = Generated \ {v}
        /\ \A i \in Rows \ {v} : rows'[i] = rows[i]
        /\ Exposed' = Exposed
    BY <1>1, <2>2 DEF Rows, Generated, Exposed, TypeInv, TypeOK
  <2>5. LatestIn /\ LatestIn' /\ LastByDate = LastById
    BY <2>1, LastIn, LastInNext DEF TypeInv, Told
  <2>6. /\ \A i \in Generated : i \in Rows /\ i \in Nat /\ rows[i].at \in Nat
        /\ \A i \in Generated \ {v} : rows'[i] = rows[i]
    BY <2>4, MaxRowsAssumption DEF Generated, Rows, Ids, TypeInv, TypeOK, Row
  <2>7. LastById' = LastById /\ LastByDate' = LastByDate /\ LastDoc' = LastDoc
    <3>1. CASE LastById = 0
      BY <2>4, <2>5, <3>1 DEF LatestIn, LastDoc
    <3>2. CASE LastById # 0
      <4>1. LastById \in Generated \ {v}
        BY <2>1, <2>5, <3>2 DEF LatestIn
      <4>2. LastById' # 0 /\ LastByDate' # 0
        BY <2>4, <2>5, <4>1 DEF LatestIn
      <4>3. LastById' = LastById
        BY <2>4, <2>5, <2>6, <4>1, <4>2 DEF LatestIn
      <4>4. LastByDate' = LastByDate
        BY <2>4, <2>5, <2>6, <4>1, <4>2 DEF LatestIn
      <4>. QED  BY <2>6, <4>1, <4>2, <4>3, <4>4 DEF LastDoc
    <3>. QED  BY <3>1, <3>2
  <2>8. Blank => Blank'
    BY <1>1, <2>4 DEF Blank
  <2>9. ASSUME NEW e \in Rows, Pinned(e) PROVE \E i \in Rows' : Pinned(i)'
    <3>1. e \in Rows' /\ rows'[e] = rows[e]
      BY <2>2, <2>4, <2>9 DEF Pinned
    <3>. QED  BY <1>1, <2>4, <2>7, <2>9, <3>1 DEF Pinned
  <2>. QED  BY <1>1, <2>1, <2>3, <2>5, <2>7, <2>8, <2>9 DEF Told
<1>4. Reported'
  BY <1>1 DEF HInv, Reported
<1>. QED  BY <1>2, <1>3, <1>4 DEF HInv, ClashedBusy, Reported

LEMMA ReportSteps ==
  ASSUME TypeInv, Reported, [Next]_vars
  PROVE  Reported'
<1>1. \/ report' = report /\ live' = live
      \/ report' = None
      \/ report' = conf /\ live' = conf
  BY DEF Next, Request, Proceed, SnapshotKnown, SnapshotNew, SnapshotInsert, SnapshotClear,
     ExposeStart, ExposeLatest, ExposeAll, ExposeCommit, ExposeFile, ExposeRestore,
     Toggle, Regenerate, Write, Reload, UploadCheck, UploadInsert, ValidateStart, ValidateAll,
     ValidateCommit, DeleteCheck, DeleteCommit, SatosaLoad, SatosaRestart, SatosaLoads,
     LoseReport, Kill, vars
<1>. QED  BY <1>1 DEF Reported

LEMMA HInvInit == Init => HInv
<1>. SUFFICES ASSUME Init PROVE HInv
  OBVIOUS
<1>1. Rows = {} /\ Generated = {} /\ Exposed = {} /\ LastById = 0 /\ LastByDate = 0
  BY DEF Init, Rows, Generated, Exposed, LastById, LastByDate
<1>2. report # None
  BY NoneAssumption DEF Init
<1>3. \A h \in Handlers : req[h].pc = "idle"
  BY DEF Init, NoRequest
<1>4. Told
  BY <1>1, <1>2, <1>3 DEF Told, Blank, Init
<1>. QED  BY <1>3, <1>4 DEF HInv, Unmet, Init

(* What a request that begins leaves alone *)
LEMMA BeginTells ==
  ASSUME TypeInv, TypeInv', HInv, NEW h \in Handlers, NEW r, CanStart(h), Begin(h, r),
         rows' = rows, UNCHANGED <<override, live, report>>,
         r.pc # "idle", r.pc \notin Waiting
  PROVE  HInv'
<1>1. Serving(h, r) /\ req[h].pc \notin Waiting /\ (~marred' => ~marred)
  BY DEF Serving, Begin, Meets, CanStart, Waiting
<1>. QED  BY <1>1, SameSteady, ServingTells

LEMMA HInvInductive == TypeInv /\ BInv /\ CInv /\ HInv /\ [Next]_vars => HInv'
<1>. SUFFICES ASSUME TypeInv, BInv, CInv, HInv, [Next]_vars PROVE HInv'
  OBVIOUS
<1>0. TypeInv' /\ \A h \in Handlers : req[h] \in Requests
  BY TypeInvInductive DEF TypeInv, TypeOK
<1>r. Reported'
  BY ReportSteps DEF HInv, Reported
<1>. USE <1>0
<1>1. ASSUME NEW h \in Handlers, SnapshotKnown(h) PROVE HInv'
  <2>1. /\ rows' = rows /\ UNCHANGED <<override, live>> /\ req' = req
        /\ LastDoc = report /\ report # None
        /\ clashed' = clashed \cup {g \in Handlers : req[g].pc \in Badge}
        /\ marred' = (marred \/ {g \in Handlers : req[g].pc \in Badge} # {})
    BY <1>1 DEF SnapshotKnown, db, vol
  <2>2. ClashedBusy'
    BY <2>1 DEF HInv, ClashedBusy, Badge
  <2>3. ASSUME ~marred' PROVE Unmet' /\ Told'
    <3>1. Unmet /\ Told /\ \A g \in Handlers : req[g].pc \notin Badge
      BY <2>1, <2>3 DEF HInv
    <3>2. /\ ~Waits("sn_insert") /\ ~Waits("sn_insert")'
          /\ ~Waits("sn_clear") /\ ~Waits("ex_file")
          /\ \A g \in Handlers : req'[g].pc # "sn_clear"
      BY <2>1, <3>1 DEF Waits, Badge
    <3>3. /\ Rows' = Rows /\ Exposed' = Exposed /\ Generated' = Generated
          /\ LastById' = LastById /\ LastDoc' = LastDoc /\ LastByDate' = LastByDate
      BY <2>1, SameSteady, ListedLast DEF Steady, Listed, TypeInv, Rows
    <3>4. Unmet'
      BY <2>1, <3>1 DEF Unmet
    <3>5. Blank => Blank'
      BY <2>1, <3>3 DEF Blank
    <3>6. ASSUME NEW e \in Rows, Pinned(e) PROVE e \in Rows' /\ Pinned(e)'
      BY <2>1, <3>3, <3>6 DEF Pinned
    <3>7. LastDoc' = live'
      BY <2>1, <3>3 DEF HInv
    <3>. QED  BY <3>1, <3>2, <3>3, <3>4, <3>5, <3>6, <3>7 DEF Told
  <2>. QED  BY <1>r, <2>2, <2>3 DEF HInv, Reported, ClashedBusy
<1>2. ASSUME NEW h \in Handlers, SnapshotNew(h) PROVE HInv'
  <2>. DEFINE r == [NoRequest EXCEPT
                      !.pc = "sn_insert", !.doc = report, !.row = LastById, !.at = Now,
                      !.live = LastById # 0 /\ rows[LastById].exposed]
  <2>1. /\ Begin(h, r) /\ req[h].pc = "idle" /\ rows' = rows /\ UNCHANGED <<override, live>>
        /\ report # None
    BY <1>2 DEF SnapshotNew, CanStart, db, vol
  <2>2. r.pc = "sn_insert" /\ r.doc = report
    BY DEF NoRequest
  <2>. HIDE DEF r
  <2>3. ClashedBusy' /\ (Unmet /\ ~marred' => Unmet')
    BY <2>1, <2>2, ServingUnmet DEF HInv, ClashedBusy, Serving, Begin
  <2>4. ASSUME ~marred' PROVE Unmet' /\ Told'
    <3>1. /\ ~marred /\ \A g \in Handlers : req[g].pc \notin Badge
          /\ req'[h] = r /\ \A g \in Handlers \ {h} : req'[g] = req[g]
      BY <2>1, <2>2, <2>4 DEF Begin, Meets, Badge, TypeInv, TypeOK
    <3>2. Unmet /\ Told
      BY <3>1 DEF HInv
    <3>3. /\ ~Waits("sn_clear") /\ ~Waits("ex_file") /\ Waits("sn_insert")'
          /\ \A g \in Handlers : req'[g].pc # "sn_clear"
          /\ \A g \in Handlers : req'[g].pc = "sn_insert" => g = h
      BY <2>2, <3>1 DEF Waits, Badge
    <3>4. /\ Rows' = Rows /\ Exposed' = Exposed /\ Generated' = Generated
          /\ LastById' = LastById /\ LastByDate' = LastByDate
      BY <2>1, SameSteady, ListedLast DEF Steady, Listed, TypeInv, Rows
    <3>5. Blank => Blank'
      BY <2>1, <3>4 DEF Blank
    <3>6. ASSUME NEW e \in Rows, Pinned(e) PROVE e \in Rows' /\ Pinned(e)'
      BY <2>1, <3>4, <3>6 DEF Pinned
    <3>7. req'[h].doc = live'
      BY <2>1, <2>2, <3>1 DEF HInv
    <3>. QED  BY <2>3, <2>4, <3>2, <3>3, <3>4, <3>5, <3>6, <3>7 DEF Told
  <2>. QED  BY <1>r, <2>3, <2>4 DEF HInv, Reported, ClashedBusy
<1>3. ASSUME NEW h \in Handlers,
             \/ SnapshotInsert(h) \/ SnapshotClear(h) \/ ExposeCommit(h) \/ ExposeFile(h)
             \/ DeleteCommit(h)
      PROVE HInv'
  BY <1>3, InsertTells, ClearTells, ExposeTells, FileTells, DeleteTells
<1>4. ASSUME NEW h \in Handlers, NEW v \in Ids, ExposeStart(h, v) PROVE HInv'
  <2>. DEFINE r == [NoRequest EXCEPT
                      !.pc = "ex_latest", !.row = v, !.doc = rows[v].doc, !.conf = rows[v].conf,
                      !.seen = [i \in {v} |-> rows[v].exposed]]
  <2>1. CanStart(h) /\ Begin(h, r) /\ rows' = rows /\ UNCHANGED <<override, live, report>>
    BY <1>4 DEF ExposeStart, db, vol
  <2>2. r.pc = "ex_latest"
    BY DEF NoRequest
  <2>. HIDE DEF r
  <2>. QED  BY <2>1, <2>2, BeginTells DEF Waiting
<1>5. ASSUME NEW h \in Handlers, ExposeLatest(h) \/ ExposeAll(h) PROVE HInv'
  <2>. DEFINE a == [req[h] EXCEPT !.pc = "ex_all", !.latest = LastByDate,
                      !.seen = See(h, "exposed", DOMAIN req[h].seen \cup (Generated \cap {LastByDate}))]
              b == [req[h] EXCEPT !.pc = "ex_commit", !.seen = See(h, "exposed", Rows)]
  <2>1. a.pc = "ex_all" /\ b.pc = "ex_commit"
    BY DEF Requests
  <2>2. /\ req[h].pc \in {"ex_latest", "ex_all"} /\ rows' = rows /\ clashed' = clashed
        /\ UNCHANGED <<override, live, report, marred>>
        /\ req' = [req EXCEPT ![h] = a] \/ req' = [req EXCEPT ![h] = b]
    BY <1>5 DEF ExposeLatest, ExposeAll, db, vol, hist
  <2>. HIDE DEF a, b
  <2>3. Serving(h, a) \/ Serving(h, b)
    BY <2>1, <2>2 DEF Serving, Badge
  <2>. QED  BY <2>1, <2>2, <2>3, SameSteady, ServingTells DEF Waiting
<1>6. ASSUME NEW h \in Handlers, ExposeRestore(h) PROVE HInv'
  <2>. DEFINE r == [req[h] EXCEPT !.pc = "write", !.seen = NothingSeen]
  <2>1. r.pc = "write" /\ NoRequest.pc = "idle"
    BY DEF Requests, NoRequest
  <2>2. /\ req[h].pc = "ex_restore" /\ rows' = rows /\ UNCHANGED <<override, live, report, marred>>
        /\ Continue(h, r) \/ Done(h)
    BY <1>6 DEF ExposeRestore, Move, vol
  <2>. HIDE DEF r
  <2>3. Serving(h, r) \/ Serving(h, NoRequest)
    BY <2>1, <2>2 DEF Serving, Continue, Done, Badge
  <2>. QED  BY <2>1, <2>2, <2>3, SameSteady, ServingTells DEF Waiting
<1>7. ASSUME NEW h \in Handlers, UploadInsert(h) PROVE HInv'
  <2>. DEFINE row == [src |-> "uploaded", doc |-> req[h].doc, conf |-> None, exposed |-> FALSE,
                      validated |-> FALSE, at |-> 0]
  <2>1. /\ Insert(row) /\ Done(h) /\ req[h].pc = "upload"
        /\ UNCHANGED <<override, live, report, marred>>
    BY <1>7 DEF UploadInsert, vol
  <2>2. row \in Row /\ row.exposed = FALSE /\ row.src # "generated"
    BY <2>1 DEF Row, Ready, TypeInv, TypeOK, Docs
  <2>. HIDE DEF row
  <2>3. Steady
    BY <2>1, <2>2, InsertLists
  <2>4. Serving(h, NoRequest) /\ NoRequest.pc = "idle"
    BY <2>1 DEF Serving, Done, NoRequest
  <2>. QED  BY <2>1, <2>3, <2>4, ServingTells DEF Waiting
<1>8. ASSUME NEW h \in Handlers, ValidateCommit(h) PROVE HInv'
  <2>1. /\ Done(h) /\ nextId' = nextId /\ req[h].pc = "va_commit"
        /\ UNCHANGED <<override, live, report, marred>>
        /\ \/ rows' = rows
           \/ rows' = Flagged(h, "validated") /\ Changed(h) \subseteq Rows
    BY <1>8 DEF ValidateCommit, CommitFlag, Flagged, Changed, vol
  <2>2. Steady
    BY <2>1, FlagListed
  <2>3. Serving(h, NoRequest) /\ NoRequest.pc = "idle"
    BY <2>1 DEF Serving, Done, NoRequest
  <2>. QED  BY <2>1, <2>2, <2>3, ServingTells DEF Waiting
<1>9. ASSUME NEW h \in Handlers, Write(h) PROVE HInv'
  <2>. DEFINE r == [NoRequest EXCEPT !.pc = "reload"]
  <2>1. /\ req[h].pc = "write" /\ Continue(h, r) /\ rows' = rows
        /\ UNCHANGED <<override, live, report, marred>>
    BY <1>9 DEF Write, db
  <2>2. r.pc = "reload"
    BY DEF NoRequest
  <2>. HIDE DEF r
  <2>3. Serving(h, r)
    BY <2>1, <2>2 DEF Serving, Continue, Badge
  <2>. QED  BY <2>1, <2>2, <2>3, SameSteady, ServingTells DEF Waiting
<1>10. ASSUME NEW h \in Handlers, Reload(h) \/ Kill(h) PROVE HInv'
  <2>1. /\ Done(h) /\ rows' = rows /\ UNCHANGED <<override, live, report>>
        /\ ~marred' => ~marred /\ req[h].pc \notin Waiting
    <3>1. CASE Reload(h)
      BY <3>1 DEF Reload, Waiting, db
    <3>2. CASE Kill(h)
      <4>1. /\ Done(h) /\ rows' = rows /\ UNCHANGED <<override, live, report>>
            /\ marred' = (marred \/ req[h].pc \in Waiting)
        BY <3>2 DEF Kill, Waiting, db, vol
      <4>. QED  BY <4>1
    <3>. QED  BY <1>10, <3>1, <3>2
  <2>2. Serving(h, NoRequest) /\ NoRequest.pc = "idle"
    BY <2>1 DEF Serving, Done, NoRequest
  <2>. QED  BY <2>1, <2>2, SameSteady, ServingTells DEF Waiting
<1>11. ASSUME NEW h \in Handlers, ValidateAll(h) PROVE HInv'
  <2>. DEFINE r == [req[h] EXCEPT !.pc = "va_commit", !.seen = See(h, "validated", Rows)]
  <2>1. /\ req[h].pc = "va_all" /\ req' = [req EXCEPT ![h] = r] /\ clashed' = clashed
        /\ rows' = rows /\ UNCHANGED <<override, live, report, marred>>
    BY <1>11 DEF ValidateAll, db, vol, hist
  <2>2. r.pc = "va_commit"
    BY DEF Requests
  <2>. HIDE DEF r
  <2>3. Serving(h, r)
    BY <2>1, <2>2 DEF Serving, Badge
  <2>. QED  BY <2>1, <2>2, <2>3, SameSteady, ServingTells DEF Waiting
<1>12. ASSUME NEW h \in Handlers,
              \/ Regenerate(h)
              \/ \E v \in Ids : ValidateStart(h, v) \/ DeleteCheck(h, v)
              \/ \E c \in Settings : Toggle(h, c)
              \/ \E d \in Uploads : UploadCheck(h, d)
       PROVE HInv'
  <2>1. CanStart(h) /\ rows' = rows /\ UNCHANGED <<override, live, report>>
    BY <1>12 DEF Regenerate, ValidateStart, DeleteCheck, Toggle, UploadCheck, db, vol
  <2>2. \E r : Begin(h, r) /\ r.pc \in {"write", "va_all", "delete", "upload"}
    <3>1. ASSUME Regenerate(h) PROVE \E r : Begin(h, r) /\ r.pc = "write"
      <4>. DEFINE r == [NoRequest EXCEPT !.pc = "write", !.conf = settings]
      <4>1. Begin(h, r) /\ r.pc = "write"
        BY <3>1 DEF Regenerate, NoRequest
      <4>. QED  BY <4>1
    <3>2. ASSUME NEW v \in Ids, ValidateStart(h, v)
          PROVE \E r : Begin(h, r) /\ r.pc = "va_all"
      <4>. DEFINE r == [NoRequest EXCEPT
                          !.pc = "va_all", !.row = v, !.seen = [i \in {v} |-> rows[v].validated]]
      <4>1. Begin(h, r) /\ r.pc = "va_all"
        BY <3>2 DEF ValidateStart, NoRequest
      <4>. QED  BY <4>1
    <3>3. ASSUME NEW v \in Ids, DeleteCheck(h, v) PROVE \E r : Begin(h, r) /\ r.pc = "delete"
      <4>. DEFINE r == [NoRequest EXCEPT !.pc = "delete", !.row = v]
      <4>1. Begin(h, r) /\ r.pc = "delete"
        BY <3>3 DEF DeleteCheck, NoRequest
      <4>. QED  BY <4>1
    <3>4. ASSUME NEW c \in Settings, Toggle(h, c) PROVE \E r : Begin(h, r) /\ r.pc = "write"
      <4>. DEFINE r == [NoRequest EXCEPT !.pc = "write", !.conf = c]
      <4>1. Begin(h, r) /\ r.pc = "write"
        BY <3>4 DEF Toggle, NoRequest
      <4>. QED  BY <4>1
    <3>5. ASSUME NEW d \in Uploads, UploadCheck(h, d) PROVE \E r : Begin(h, r) /\ r.pc = "upload"
      <4>. DEFINE r == [NoRequest EXCEPT !.pc = "upload", !.doc = d]
      <4>1. Begin(h, r) /\ r.pc = "upload"
        BY <3>5 DEF UploadCheck, NoRequest
      <4>. QED  BY <4>1
    <3>. QED  BY <1>12, <3>1, <3>2, <3>3, <3>4, <3>5
  <2>. QED  BY <2>1, <2>2, BeginTells DEF Waiting
<1>13. CASE SatosaLoad \/ SatosaRestart
  <2>1. /\ rows' = rows /\ req' = req /\ clashed' = clashed /\ marred' = marred
        /\ override' = override /\ report' # None
    BY <1>13, NoneAssumption
    DEF SatosaLoad, SatosaRestart, SatosaLoads, db, TypeInv, TypeOK
  <2>2. ASSUME ~marred' PROVE Unmet' /\ Told'
    <3>1. Unmet /\ Told
      BY <2>1, <2>2 DEF HInv
    <3>2. /\ Rows' = Rows /\ Exposed' = Exposed /\ Generated' = Generated
          /\ LastById' = LastById /\ LastByDate' = LastByDate
      BY <2>1, SameSteady, ListedLast DEF Steady, Listed, TypeInv, Rows
    <3>3. Blank => Blank'
      BY <2>1, <3>2 DEF Blank
    <3>4. ASSUME NEW e \in Rows, Pinned(e) PROVE e \in Rows' /\ Pinned(e)'
      BY <2>1, <3>2, <3>4 DEF Pinned
    <3>. QED  BY <2>1, <3>1, <3>2, <3>3, <3>4 DEF Told, Unmet, Waits
  <2>3. ClashedBusy'
    BY <2>1 DEF HInv, ClashedBusy
  <2>. QED  BY <1>r, <2>2, <2>3 DEF HInv, Reported, ClashedBusy
<1>14. CASE LoseReport
  BY <1>r, <1>14 DEF LoseReport, HInv, Reported
<1>15. CASE UNCHANGED vars
  <2>1. Steady /\ UNCHANGED <<override, live, report, marred, clashed, req>>
    BY <1>15, SameSteady DEF vars, db, vol, hist
  <2>2. Told => Told'
    BY <2>1, TellsOn
  <2>. QED  BY <1>r, <2>1, <2>2 DEF HInv, Reported, Unmet
<1>. QED
  BY <1>1, <1>2, <1>3, <1>4, <1>5, <1>6, <1>7, <1>8, <1>9, <1>10, <1>11, <1>12, <1>13, <1>14,
     <1>15
  DEF Next, Request, Proceed

LEMMA HistoryInvariant == Spec => [](CInv /\ HInv)
<1>1. Init => CInv
  BY DEF Init, CInv, Informed, NoRequest
<1>. QED
  BY <1>1, CInvInductive, HInvInit, HInvInductive, Invariant, PTL DEF Spec

(* Once nothing is under way and nothing marred the history, exactly one        *)
(* version bears the badge and its document is the one SATOSA serves, from the   *)
(* override file or built from the configuration, whatever sequence of toggles,   *)
(* uploads, exposures, deletions, reloads and restarts led there.               *)
THEOREM BadgeTrue == Spec => []BadgeHonest
<1>1. TypeInv /\ HInv => BadgeHonest
  <2>. SUFFICES ASSUME TypeInv, HInv, Quiet, ~marred
                PROVE  \E i \in Rows : Exposed = {i} /\ rows[i].doc = Served
    BY DEF BadgeHonest
  <2>1. /\ ~Waits("sn_insert") /\ ~Waits("sn_clear") /\ ~Waits("ex_file")
        /\ report = None
    BY DEF Quiet, Busy, Waits
  <2>2. LastDoc = live /\ (Blank \/ \E e \in Rows : Pinned(e))
    BY <2>1 DEF HInv, Told
  <2>3. LastById # 0 /\ rows[LastById].doc = live
    BY <2>2, NoneAssumption DEF LastDoc, TypeInv, TypeOK
  <2>4. ~Blank
    BY <2>3, LastIn DEF Blank, LatestIn, TypeInv
  <2>5. PICK e \in Rows : Pinned(e)
    BY <2>2, <2>4
  <2>. QED  BY <2>3, <2>5 DEF Pinned, Served
<1>. QED  BY <1>1, Invariant, HistoryInvariant, PTL

==============================================================================
