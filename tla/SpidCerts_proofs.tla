--------------------------- MODULE SpidCerts_proofs ---------------------------
(***************************************************************************)
(* For any number of certificates and requests, until two requests         *)
(* overlap: one certificate is active at a time.  The invariant says that  *)
(* what a request has read is still so when it commits.  Until a death or  *)
(* a refused write, also: the volume follows the active certificate, and a *)
(* reload asked for brings it to SATOSA.  Whatever went before, a request  *)
(* that no other overlaps mends it, and takes the last active certificate  *)
(* away only by a backup without one.                                      *)
(***************************************************************************)
EXTENDS SpidCerts, TLAPS

Drawn == \A h \in Handlers : pc[h] = "insert" => cert[h] \in drawn

Imported == \A h \in Handlers : pc[h] = "import" => cert[h] \in drawn \cup {None}

AtMostOne == \A g, h \in Handlers : pc[g] # "idle" /\ pc[h] # "idle" => g = h

ReadsCurrent ==
    \A h \in Handlers :
        /\ pc[h] = "insert" => on[h] = active
        /\ pc[h] = "all" => /\ cert[h] \in rows
                            /\ on[h] = {cert[h]} \cap active
        /\ pc[h] = "flags" => /\ cert[h] \in rows
                              /\ seen[h] = rows
                              /\ on[h] = active
        /\ pc[h] = "delete" => cert[h] \notin active
        /\ pc[h] = "import" => seen[h] = rows

TypeInv == TypeOK /\ Drawn /\ Imported

Single == \A c, d \in active : c = d

SInv == TypeInv /\ AtMostOne /\ ReadsCurrent /\ Single

------------------------------------------------------------------------------
LEMMA TypeInvInductive == TypeInv /\ [Next]_vars => TypeInv'
<1>. SUFFICES ASSUME TypeInv, [Next]_vars PROVE TypeInv'
  OBVIOUS
<1>. USE DEF TypeInv, TypeOK, Drawn, Imported, Pcs, Pair, Both, Become, Goto, End, Start, hist, past, store, local
<1>1. ASSUME NEW h \in Handlers, GenerateRead(h) PROVE TypeInv'
  BY <1>1 DEF GenerateRead
<1>2. ASSUME NEW h \in Handlers, GenerateCommit(h) PROVE TypeInv'
  BY <1>2 DEF GenerateCommit
<1>3. ASSUME NEW h \in Handlers, NEW c \in Certs, ActivateRead(h, c) PROVE TypeInv'
  BY <1>3 DEF ActivateRead
<1>4. ASSUME NEW h \in Handlers, ActivateReadAll(h) PROVE TypeInv'
  BY <1>4 DEF ActivateReadAll
<1>5. ASSUME NEW h \in Handlers, ActivateCommit(h) PROVE TypeInv'
  <2>1. rows' = rows /\ active' \subseteq rows /\ drawn' = drawn
    BY <1>5 DEF ActivateCommit, Raised, Lowered, Changeable
  <2>2. /\ pc' = [pc EXCEPT ![h] = "cert"] /\ cert' = cert /\ importing' = importing
        /\ seen' \in [Handlers -> SUBSET Certs] /\ on' \in [Handlers -> SUBSET Certs]
    BY <1>5 DEF ActivateCommit
  <2>3. asked' = FALSE /\ UNCHANGED <<disk, loaded, touched, alone, overlapped, failed>>
    BY <1>5 DEF ActivateCommit
  <2>. QED BY <2>1, <2>2, <2>3
<1>6. ASSUME NEW h \in Handlers, CommitFails(h) \/ Dies(h) PROVE TypeInv'
  BY <1>6 DEF CommitFails, Dies
<1>7. ASSUME NEW h \in Handlers, WriteCert(h) PROVE TypeInv'
  BY <1>7 DEF WriteCert
<1>8. ASSUME NEW h \in Handlers, WriteKey(h) PROVE TypeInv'
  BY <1>8 DEF WriteKey
<1>9. ASSUME NEW h \in Handlers, NEW c \in Certs, DeleteRead(h, c) PROVE TypeInv'
  BY <1>9 DEF DeleteRead
<1>10. ASSUME NEW h \in Handlers, DeleteCommit(h) PROVE TypeInv'
  BY <1>10 DEF DeleteCommit
<1>11. ASSUME NEW h \in Handlers, Regenerate(h) PROVE TypeInv'
  BY <1>11 DEF Regenerate
<1>12. ASSUME NEW h \in Handlers, Reload(h) PROVE TypeInv'
  BY <1>12 DEF Reload
<1>13. CASE OtherReload
  BY <1>13 DEF OtherReload
<1>14. CASE SatosaLoad
  BY <1>14 DEF SatosaLoad
<1>15. CASE UNCHANGED vars
  BY <1>15 DEF vars
<1>16. ASSUME NEW h \in Handlers, ImportDelete(h) PROVE TypeInv'
  <2>1. PICK c \in {None} \cup Certs :
           Start(h, "import", c, rows, {}) /\ drawn' = drawn \cup ({c} \ {None})
    BY <1>16 DEF ImportDelete
  <2>2. rows \in SUBSET Certs /\ {} \in SUBSET Certs
    OBVIOUS
  <2>. QED BY <2>1, <2>2, <1>16 DEF ImportDelete
<1>17. ASSUME NEW h \in Handlers, ImportCommit(h) PROVE TypeInv'
  BY <1>17 DEF ImportCommit, Bundled
<1>18. ASSUME NEW h \in Handlers, ImportSelect(h) PROVE TypeInv'
  <2>1. PICK next \in {"cert", "reload"}, c \in Certs \cup {None} : Become(h, next, c, {}, {})
    BY <1>18 DEF ImportSelect
  <2>. QED BY <2>1, <1>18 DEF ImportSelect
<1>19. ASSUME NEW h \in Handlers, ImportUnwritten(h) PROVE TypeInv'
  BY <1>19 DEF ImportUnwritten
<1>. QED
  BY <1>1, <1>2, <1>3, <1>4, <1>5, <1>6, <1>7, <1>8, <1>9, <1>10, <1>11, <1>12, <1>13,
     <1>14, <1>15, <1>16, <1>17, <1>18, <1>19 DEF Next, Proceed

LEMMA TypeInvInit == Init => TypeInv
<1>. SUFFICES ASSUME Init PROVE TypeInv
  OBVIOUS
<1>1. Both(None) \in Pair
  BY DEF Both, Pair
<1>2. pc \in [Handlers -> Pcs] /\ cert \in [Handlers -> Certs \cup {None}] /\ Drawn /\ Imported
  BY DEF Init, Pcs, Drawn, Imported
<1>3. seen \in [Handlers -> SUBSET Certs] /\ on \in [Handlers -> SUBSET Certs]
  BY DEF Init
<1>. QED BY <1>1, <1>2, <1>3 DEF Init, TypeInv, TypeOK

(* Every variable keeps its type, the active certificates are stored ones.   *)
THEOREM TypeCorrect == Spec => []TypeOK
<1>1. TypeInv => TypeOK
  BY DEF TypeInv
<1>. QED BY <1>1, TypeInvInit, TypeInvInductive, PTL DEF Spec

------------------------------------------------------------------------------
(* Overlaps and failures are remembered. *)
LEMMA PastStays ==
  ASSUME TypeOK, [Next]_vars
  PROVE  (overlapped => overlapped') /\ (failed => failed')
<1>. USE DEF Start, hist, past, vars, TypeOK
<1>1. ASSUME NEW h \in Handlers,
             GenerateRead(h) \/ ImportDelete(h) \/ Regenerate(h) \/ ImportUnwritten(h) \/ Dies(h)
      PROVE  (overlapped => overlapped') /\ (failed => failed')
  BY <1>1 DEF GenerateRead, ImportDelete, Regenerate, ImportUnwritten, Dies
<1>2. ASSUME NEW h \in Handlers, NEW c \in Certs, ActivateRead(h, c) \/ DeleteRead(h, c)
      PROVE  (overlapped => overlapped') /\ (failed => failed')
  BY <1>2 DEF ActivateRead, DeleteRead
<1>3. ASSUME NEW h \in Handlers, Proceed(h)
      PROVE  (overlapped => overlapped') /\ (failed => failed')
  BY <1>3 DEF Proceed, GenerateCommit, ActivateReadAll, ActivateCommit, CommitFails,
              ImportCommit, ImportSelect, WriteCert, WriteKey, DeleteCommit, Reload
<1>4. ASSUME OtherReload \/ SatosaLoad \/ UNCHANGED vars
      PROVE  (overlapped => overlapped') /\ (failed => failed')
  BY <1>4 DEF OtherReload, SatosaLoad
<1>. QED BY <1>1, <1>2, <1>3, <1>4 DEF Next

LEMMA SInvInductive == SInv /\ [Next]_vars /\ ~overlapped' => SInv'
<1>. SUFFICES ASSUME SInv, [Next]_vars, ~overlapped' PROVE SInv'
  OBVIOUS
<1>0. TypeInv /\ TypeInv'
  BY TypeInvInductive DEF SInv
<1>. DEFINE J == AtMostOne /\ ReadsCurrent /\ Single
<1>. SUFFICES J'
  BY <1>0 DEF SInv
<1>j. J
  BY DEF SInv
<1>t. TypeOK
  BY <1>0 DEF TypeInv
<1>. USE DEF TypeOK, AtMostOne, ReadsCurrent, Single, Become, Goto, End, Start, Quiet,
             hist, past, store, local
<1>1. ASSUME NEW h \in Handlers, GenerateRead(h) PROVE J'
  <2>1. PICK c \in Certs : Start(h, "insert", c, rows, active)
    BY <1>1 DEF GenerateRead
  <2>2. rows' = rows /\ active' = active
    BY <1>1 DEF GenerateRead
  <2>3. \A g \in Handlers : pc[g] = "idle"
    BY <2>1
  <2>. QED BY <2>1, <2>2, <2>3, <1>j, <1>t
(* The rows that were active lose the flag, the new one gets it. *)
<1>2. ASSUME NEW h \in Handlers, GenerateCommit(h) PROVE J'
  <2>1. active' = {cert[h]}
    BY <1>2, <1>j DEF GenerateCommit
  <2>2. pc' = [pc EXCEPT ![h] = "cert"] /\ \A g \in Handlers : g # h => pc[g] = "idle"
    BY <1>2, <1>j DEF GenerateCommit
  <2>. QED BY <2>1, <2>2, <1>t
<1>3. ASSUME NEW h \in Handlers, NEW c \in Certs, ActivateRead(h, c) PROVE J'
  BY <1>3, <1>j, <1>t DEF ActivateRead
<1>4. ASSUME NEW h \in Handlers, ActivateReadAll(h) PROVE J'
  <2>1. rows \cap (on[h] \cup (active \ {cert[h]})) = active
    BY <1>4, <1>j, <1>t DEF ActivateReadAll
  <2>. QED BY <2>1, <1>4, <1>j, <1>t DEF ActivateReadAll
<1>5. ASSUME NEW h \in Handlers, ActivateCommit(h) PROVE J'
  <2>1. active' = {cert[h]}
    BY <1>5, <1>j, <1>t DEF ActivateCommit, Raised, Lowered
  <2>2. pc' = [pc EXCEPT ![h] = "cert"] /\ \A g \in Handlers : g # h => pc[g] = "idle"
    BY <1>5, <1>j DEF ActivateCommit
  <2>. QED BY <2>1, <2>2, <1>t
<1>6. ASSUME NEW h \in Handlers, CommitFails(h) \/ Dies(h) PROVE J'
  BY <1>6, <1>j, <1>t DEF CommitFails, Dies
<1>7. ASSUME NEW h \in Handlers, WriteCert(h) \/ WriteKey(h) PROVE J'
  BY <1>7, <1>j, <1>t DEF WriteCert, WriteKey
<1>8. ASSUME NEW h \in Handlers, NEW c \in Certs, DeleteRead(h, c) PROVE J'
  BY <1>8, <1>j, <1>t DEF DeleteRead
<1>9. ASSUME NEW h \in Handlers, DeleteCommit(h) PROVE J'
  <2>1. active' = active
    BY <1>9, <1>j DEF DeleteCommit
  <2>2. pc' = [pc EXCEPT ![h] = "idle"] /\ \A g \in Handlers : g # h => pc[g] = "idle"
    BY <1>9, <1>j DEF DeleteCommit
  <2>. QED BY <2>1, <2>2, <1>j, <1>t
<1>10. ASSUME NEW h \in Handlers, Regenerate(h) \/ Reload(h) PROVE J'
  <2>1. /\ rows' = rows /\ active' = active
        /\ \A g \in Handlers : g # h => pc[g] = "idle"
    BY <1>10, <1>j DEF Regenerate, Reload
  <2>2. PICK next \in {"idle", "reload"} : pc' = [pc EXCEPT ![h] = next]
    BY <1>10 DEF Regenerate, Reload
  <2>3. \A g \in Handlers : g # h => cert'[g] = cert[g] /\ on'[g] = on[g] /\ seen'[g] = seen[g]
    BY <1>10, <1>t DEF Regenerate, Reload
  <2>. QED BY <2>1, <2>2, <2>3, <1>j, <1>t
<1>11. CASE OtherReload \/ SatosaLoad
  BY <1>11, <1>j DEF OtherReload, SatosaLoad
<1>12. CASE UNCHANGED vars
  BY <1>12, <1>j DEF vars
<1>13. ASSUME NEW h \in Handlers, ImportDelete(h) PROVE J'
  <2>1. PICK c : Start(h, "import", c, rows, {})
    BY <1>13 DEF ImportDelete
  <2>2. rows' = rows /\ active' = active
    BY <1>13 DEF ImportDelete
  <2>3. \A g \in Handlers : pc[g] = "idle"
    BY <2>1
  <2>. QED BY <2>1, <2>2, <2>3, <1>j, <1>t
(* The rows it deleted are all there are. *)
<1>14. ASSUME NEW h \in Handlers, ImportCommit(h) PROVE J'
  <2>1. active' = Bundled(h)
    BY <1>14, <1>j, <1>t DEF ImportCommit
  <2>2. pc' = [pc EXCEPT ![h] = "select"] /\ \A g \in Handlers : g # h => pc[g] = "idle"
    BY <1>14, <1>j DEF ImportCommit
  <2>. QED BY <2>1, <2>2, <1>t DEF Bundled
<1>15. ASSUME NEW h \in Handlers, ImportSelect(h) \/ ImportUnwritten(h) PROVE J'
  <2>1. /\ rows' = rows /\ active' = active
        /\ \A g \in Handlers : g # h => pc[g] = "idle"
    BY <1>15, <1>j DEF ImportSelect, ImportUnwritten
  <2>2. PICK next \in {"cert", "reload"} : pc' = [pc EXCEPT ![h] = next]
    BY <1>15 DEF ImportSelect, ImportUnwritten
  <2>. QED BY <2>1, <2>2, <1>j, <1>t
<1>. QED
  BY <1>1, <1>2, <1>3, <1>4, <1>5, <1>6, <1>7, <1>8, <1>9, <1>10, <1>11, <1>12,
     <1>13, <1>14, <1>15 DEF Next, Proceed

LEMMA SInvInit == Init => SInv
  BY TypeInvInit DEF Init, SInv, AtMostOne, ReadsCurrent, Single

LEMMA UntilOverlap ==
  TypeOK /\ (~overlapped => SInv) /\ [Next]_vars
     => (~overlapped => SInv)'
BY PastStays, SInvInductive

(* Until requests overlap one certificate is active, also when requests die  *)
(* between two statements.                                                   *)
THEOREM SerialOneActive == Spec => []OneActive
<1>1. (~overlapped => SInv) => OneActive
  BY DEF SInv, Single, OneActive
<1>. QED BY <1>1, TypeCorrect, SInvInit, UntilOverlap, PTL DEF Spec

------------------------------------------------------------------------------
(* Nothing fails.  Between the commit and the last write the volume lags     *)
(* behind, and a reload asked for earlier no longer counts.                  *)
Written ==
    /\ (\A h \in Handlers : pc[h] \notin {"select", "cert", "key"})
          => \A c \in active : disk = Both(c)
    /\ \A h \in Handlers :
          /\ pc[h] = "select" => active = {cert[h]} \ {None} /\ ~asked
          /\ pc[h] \in {"cert", "key"} => active = {cert[h]} /\ ~asked
          /\ pc[h] = "key" => disk.cert = cert[h]

Signed == asked => \A c \in active : disk = Both(c) /\ (~touched => loaded = Both(c))

FInv == SInv /\ Written /\ Signed

LEMMA FInvInductive == FInv /\ [Next]_vars /\ ~overlapped' /\ ~failed' => FInv'
<1>. SUFFICES ASSUME FInv, [Next]_vars, ~overlapped', ~failed' PROVE FInv'
  OBVIOUS
<1>0. SInv /\ SInv'
  BY SInvInductive DEF FInv
<1>. DEFINE J == Written /\ Signed
<1>. SUFFICES J'
  BY <1>0 DEF FInv
<1>j. J /\ AtMostOne /\ ReadsCurrent
  BY <1>0 DEF FInv, SInv
<1>t. TypeOK
  BY <1>0 DEF SInv, TypeInv
<1>. USE DEF TypeOK, Pair, AtMostOne, ReadsCurrent, Written, Signed, Become, Goto, End, Start,
             Quiet, store, local, hist, past
<1>1. ASSUME NEW h \in Handlers, GenerateRead(h) PROVE J'
  BY <1>1, <1>j, <1>t DEF GenerateRead
<1>2. ASSUME NEW h \in Handlers, GenerateCommit(h) PROVE J'
  <2>1. active' = {cert[h]}
    BY <1>2, <1>j DEF GenerateCommit
  <2>2. pc' = [pc EXCEPT ![h] = "cert"] /\ \A g \in Handlers : g # h => pc[g] = "idle"
    BY <1>2, <1>j DEF GenerateCommit
  <2>3. ~asked' /\ cert'[h] = cert[h]
    BY <1>2, <1>t DEF GenerateCommit
  <2>. QED BY <2>1, <2>2, <2>3, <1>t
<1>3. ASSUME NEW h \in Handlers, NEW c \in Certs, ActivateRead(h, c) \/ DeleteRead(h, c)
      PROVE  J'
  BY <1>3, <1>j, <1>t DEF ActivateRead, DeleteRead
<1>4. ASSUME NEW h \in Handlers, ActivateReadAll(h) PROVE J'
  BY <1>4, <1>j, <1>t DEF ActivateReadAll
<1>5. ASSUME NEW h \in Handlers, ActivateCommit(h) PROVE J'
  <2>1. active' = {cert[h]}
    BY <1>5, <1>j, <1>t DEF ActivateCommit, Raised, Lowered
  <2>2. pc' = [pc EXCEPT ![h] = "cert"] /\ \A g \in Handlers : g # h => pc[g] = "idle"
    BY <1>5, <1>j DEF ActivateCommit
  <2>3. ~asked' /\ cert'[h] = cert[h]
    BY <1>5, <1>t DEF ActivateCommit
  <2>. QED BY <2>1, <2>2, <2>3, <1>t
<1>6. ASSUME NEW h \in Handlers, CommitFails(h) PROVE J'
  BY <1>6, <1>j, <1>t DEF CommitFails
<1>7. ASSUME NEW h \in Handlers, WriteCert(h) PROVE J'
  BY <1>7, <1>j, <1>t DEF WriteCert
<1>8. ASSUME NEW h \in Handlers, WriteKey(h) PROVE J'
  <2>1. disk' = Both(cert[h])
    BY <1>8, <1>j, <1>t DEF WriteKey, Both
  <2>2. active' = {cert[h]} /\ ~asked'
    BY <1>8, <1>j DEF WriteKey
  <2>3. \A g \in Handlers : pc'[g] \in {"idle", "reload"}
    BY <1>8, <1>j, <1>t DEF WriteKey
  <2>. QED BY <2>1, <2>2, <2>3
<1>9. ASSUME NEW h \in Handlers, DeleteCommit(h) PROVE J'
  <2>1. active' = active
    BY <1>9, <1>j DEF DeleteCommit
  <2>. QED BY <2>1, <1>9, <1>j, <1>t DEF DeleteCommit
<1>10. ASSUME NEW h \in Handlers, Regenerate(h) PROVE J'
  BY <1>10, <1>j, <1>t DEF Regenerate
<1>11. ASSUME NEW h \in Handlers, Reload(h) PROVE J'
  BY <1>11, <1>j, <1>t DEF Reload
<1>12. CASE OtherReload
  BY <1>12, <1>j DEF OtherReload
<1>13. CASE SatosaLoad
  BY <1>13, <1>j DEF SatosaLoad
<1>14. CASE UNCHANGED vars
  BY <1>14, <1>j DEF vars
<1>15. ASSUME NEW h \in Handlers, Dies(h) \/ ImportUnwritten(h) PROVE J'
  BY <1>15 DEF Dies, ImportUnwritten
<1>16. ASSUME NEW h \in Handlers, ImportDelete(h) PROVE J'
  BY <1>16, <1>j, <1>t DEF ImportDelete
<1>17. ASSUME NEW h \in Handlers, ImportCommit(h) PROVE J'
  <2>1. active' = {cert[h]} \ {None}
    BY <1>17, <1>j, <1>t DEF ImportCommit, Bundled
  <2>2. pc' = [pc EXCEPT ![h] = "select"] /\ \A g \in Handlers : g # h => pc[g] = "idle"
    BY <1>17, <1>j DEF ImportCommit
  <2>3. ~asked' /\ cert'[h] = cert[h]
    BY <1>17, <1>t DEF ImportCommit
  <2>. QED BY <2>1, <2>2, <2>3, <1>t
<1>18. ASSUME NEW h \in Handlers, ImportSelect(h) PROVE J'
  <2>0. /\ pc[h] = "select" /\ active' = active /\ ~asked' /\ active = {cert[h]} \ {None}
        /\ \A g \in Handlers : g # h => pc[g] = "idle"
    BY <1>18, <1>j DEF ImportSelect
  <2>1. CASE active = {}
    <3>1. pc' = [pc EXCEPT ![h] = "reload"]
      BY <1>18, <2>1 DEF ImportSelect
    <3>. QED BY <2>0, <2>1, <3>1, <1>t
  <2>2. CASE active # {}
    <3>1. PICK c \in active : pc' = [pc EXCEPT ![h] = "cert"] /\ cert' = [cert EXCEPT ![h] = c]
      BY <1>18, <2>2 DEF ImportSelect
    <3>. QED BY <2>0, <2>2, <3>1, <1>t
  <2>. QED BY <2>1, <2>2
<1>. QED
  BY <1>1, <1>2, <1>3, <1>4, <1>5, <1>6, <1>7, <1>8, <1>9, <1>10, <1>11, <1>12, <1>13,
     <1>14, <1>15, <1>16, <1>17, <1>18 DEF Next, Proceed

LEMMA FInvInit == Init => FInv
  BY SInvInit DEF Init, FInv, Written, Signed

LEMMA UntilFailure ==
  TypeOK /\ (~overlapped /\ ~failed => FInv) /\ [Next]_vars
     => (~overlapped /\ ~failed => FInv)'
BY PastStays, FInvInductive

(* Between requests the volume holds the active pair.                        *)
THEOREM SerialFilesFollow == Spec => []FilesFollow
<1>1. (~overlapped /\ ~failed => FInv) => FilesFollow
  BY DEF FInv, Written, FilesFollow, Quiet
<1>. QED BY <1>1, TypeCorrect, FInvInit, UntilFailure, PTL DEF Spec

(* After a reload that was asked for SATOSA has it too.                      *)
THEOREM SerialRegenerateSigns == Spec => []RegenerateSigns
<1>1. (~overlapped /\ ~failed => FInv) => RegenerateSigns
  BY DEF FInv, Signed, RegenerateSigns
<1>. QED BY <1>1, TypeCorrect, FInvInit, UntilFailure, PTL DEF Spec

------------------------------------------------------------------------------
(* A request that has had no other beside it, whatever went before. *)
Commits(h) ==
    /\ pc[h] = "insert" => on[h] = active
    /\ pc[h] = "all" => cert[h] \in rows /\ on[h] = {cert[h]} \cap active
    /\ pc[h] = "flags" => cert[h] \in rows /\ seen[h] = rows /\ on[h] = active
    /\ pc[h] \in {"cert", "key"} => active = {cert[h]}
    /\ pc[h] = "key" => disk.cert = cert[h]
    /\ pc[h] = "delete" => cert[h] \notin active
    /\ pc[h] = "import" => seen[h] = rows
    /\ pc[h] = "select" => active \subseteq {cert[h]}

OthersIdle(h) == \A g \in Handlers \ {h} : pc[g] = "idle"

MInv == TypeInv /\ \A h \in alone : OthersIdle(h) /\ Commits(h)

LEMMA MInvInit == Init => MInv
BY TypeInvInit DEF Init, MInv

(* The request that begins is alone, or nobody is. *)
LEMMA MInvBegins ==
  ASSUME MInv, NEW h \in Handlers, NEW next \in {"insert", "all", "delete", "import", "reload"}, NEW c,
         NEW s, NEW a, Start(h, next, c, s, a), UNCHANGED <<rows, active, disk>>,
         next = "insert" => a = active,
         next = "all" => c \in rows /\ a = {c} \cap active,
         next = "delete" => c \notin active, next = "import" => s = rows
  PROVE  \A g \in alone' : OthersIdle(g)' /\ Commits(g)'
<1>. SUFFICES ASSUME NEW g \in alone' PROVE OthersIdle(g)' /\ Commits(g)'
  OBVIOUS
<1>t. TypeOK
  BY DEF MInv, TypeInv
<1>1. g = h /\ \A b \in Handlers : pc[b] = "idle"
  BY DEF Start, Quiet
<1>2. /\ pc'[h] = next /\ cert'[h] = c /\ on'[h] = a /\ seen'[h] = s
      /\ \A b \in Handlers \ {h} : pc'[b] = pc[b]
  BY <1>t DEF Start, Become, TypeOK
<1>. QED  BY <1>1, <1>2 DEF OthersIdle, Commits

(* It goes on: what is to be shown of it is shown of no other. *)
LEMMA MInvGoes ==
  ASSUME MInv, NEW h \in Handlers, pc[h] # "idle", alone' = alone,
         pc' \in [Handlers -> Pcs], \A g \in Handlers \ {h} : pc'[g] = pc[g],
         h \in alone => Commits(h)'
  PROVE  \A g \in alone' : OthersIdle(g)' /\ Commits(g)'
<1>. SUFFICES ASSUME NEW g \in alone' PROVE OthersIdle(g)' /\ Commits(g)'
  OBVIOUS
<1>1. g \in alone /\ OthersIdle(g)
  BY DEF MInv
<1>2. g = h
  BY <1>1 DEF OthersIdle
<1>. QED  BY <1>1, <1>2 DEF OthersIdle

LEMMA MInvInductive == MInv /\ [Next]_vars => MInv'
<1>. SUFFICES ASSUME MInv, [Next]_vars PROVE MInv'
  OBVIOUS
<1>. DEFINE J == \A h \in alone : OthersIdle(h) /\ Commits(h)
<1>0. TypeInv'
  BY TypeInvInductive DEF MInv
<1>. SUFFICES J'
  BY <1>0 DEF MInv
<1>t. TypeOK /\ TypeOK'
  BY <1>0 DEF MInv, TypeInv
<1>j. \A h \in alone : Commits(h)
  BY DEF MInv
<1>1. ASSUME NEW h \in Handlers, GenerateRead(h) PROVE J'
  <2>1. PICK c \in Certs \ drawn : Start(h, "insert", c, rows, active)
    BY <1>1 DEF GenerateRead
  <2>. QED  BY <1>1, <2>1, MInvBegins DEF GenerateRead
<1>2. ASSUME NEW h \in Handlers, NEW c \in Certs, ActivateRead(h, c) PROVE J'
  BY <1>2, MInvBegins DEF ActivateRead, store
<1>3. ASSUME NEW h \in Handlers, NEW c \in Certs, DeleteRead(h, c) PROVE J'
  BY <1>3, MInvBegins DEF DeleteRead, store
<1>4. ASSUME NEW h \in Handlers, Regenerate(h) PROVE J'
  BY <1>4, MInvBegins DEF Regenerate, store
<1>7. ASSUME NEW h \in Handlers, ImportDelete(h) PROVE J'
  <2>1. PICK c : Start(h, "import", c, rows, {})
    BY <1>7 DEF ImportDelete
  <2>. QED  BY <1>7, <2>1, MInvBegins DEF ImportDelete
<1>5. ASSUME NEW h \in Handlers, Proceed(h) \/ ImportUnwritten(h) \/ Dies(h) PROVE J'
  <2>1. /\ pc[h] # "idle" /\ alone' = alone
        /\ \E next \in Pcs : pc' = [pc EXCEPT ![h] = next]
    BY <1>5, <1>t DEF Proceed, Dies, GenerateCommit, ActivateReadAll, ActivateCommit,
       CommitFails, ImportCommit, ImportSelect, ImportUnwritten, WriteCert, WriteKey, DeleteCommit, Reload, Goto, End, Become, hist, TypeOK, Pcs
  <2>2. /\ pc' \in [Handlers -> Pcs]
        /\ \A g \in Handlers \ {h} : pc'[g] = pc[g]
    BY <1>t, <2>1 DEF TypeOK
  <2>3. ASSUME h \in alone PROVE Commits(h)'
    <3>c. Commits(h)
      BY <1>j, <2>3
    <3>1. CASE GenerateCommit(h)
      <4>1. active' = {cert[h]} /\ pc'[h] = "cert" /\ cert'[h] = cert[h]
        BY <1>t, <3>1, <3>c DEF GenerateCommit, Goto, Become, Commits, TypeOK
      <4>. QED  BY <4>1 DEF Commits
    <3>2. CASE ActivateReadAll(h)
      <4>1. /\ pc'[h] = "flags" /\ cert'[h] = cert[h] /\ seen'[h] = rows
            /\ on'[h] = rows \cap (on[h] \cup (active \ {cert[h]}))
            /\ rows' = rows /\ active' = active
        BY <1>t, <3>2 DEF ActivateReadAll, Become, TypeOK, store
      <4>2. cert[h] \in rows /\ on'[h] = active
        BY <1>t, <3>2, <3>c, <4>1 DEF ActivateReadAll, Commits, TypeOK
      <4>. QED  BY <4>1, <4>2 DEF Commits
    <3>3. CASE ActivateCommit(h)
      <4>1. pc'[h] = "cert" /\ cert'[h] = cert[h]
        BY <1>t, <3>3 DEF ActivateCommit, Goto, Become, TypeOK
      <4>2. active' = {cert[h]}
        BY <3>3, <3>c DEF ActivateCommit, Raised, Lowered, Commits
      <4>. QED  BY <4>1, <4>2 DEF Commits
    <3>4. CASE WriteCert(h)
      <4>1. /\ pc'[h] = "key" /\ cert'[h] = cert[h] /\ disk'.cert = cert[h] /\ active' = active
            /\ pc[h] = "cert"
        BY <1>t, <3>4 DEF WriteCert, Goto, Become, TypeOK, Pair, store
      <4>. QED  BY <3>c, <4>1 DEF Commits
    <3>5. CASE End(h)
      <4>1. pc'[h] = "idle"
        BY <1>t, <3>5 DEF End, Become, TypeOK
      <4>. QED  BY <4>1 DEF Commits
    <3>6. CASE ImportCommit(h)
      <4>1. active' = Bundled(h) /\ pc'[h] = "select" /\ cert'[h] = cert[h]
        BY <1>t, <3>6, <3>c DEF ImportCommit, Goto, Become, Commits, TypeOK
      <4>. QED  BY <4>1 DEF Commits, Bundled
    <3>7. CASE ImportSelect(h)
      <4>1. active \subseteq {cert[h]} /\ active' = active
        BY <3>7, <3>c DEF ImportSelect, Commits, store
      <4>2. CASE active = {}
        <5>1. pc'[h] = "reload"
          BY <1>t, <3>7, <4>2 DEF ImportSelect, Become, TypeOK
        <5>. QED  BY <5>1 DEF Commits
      <4>3. CASE active # {}
        <5>1. pc'[h] = "cert" /\ cert'[h] = cert[h]
          BY <1>t, <3>7, <4>1, <4>3 DEF ImportSelect, Become, TypeOK
        <5>. QED  BY <4>1, <4>3, <5>1 DEF Commits
      <4>. QED  BY <4>2, <4>3
    <3>8. CASE WriteKey(h) \/ ImportUnwritten(h)
      <4>1. pc'[h] \in {"idle", "reload"}
        BY <1>t, <3>8 DEF WriteKey, ImportUnwritten, Goto, End, Become, TypeOK
      <4>. QED  BY <4>1 DEF Commits
    <3>. QED  BY <1>5, <3>1, <3>2, <3>3, <3>4, <3>5, <3>6, <3>7, <3>8 DEF Proceed, Dies,
              CommitFails, DeleteCommit, Reload
  <2>. QED  BY <2>1, <2>2, <2>3, MInvGoes
<1>6. CASE OtherReload \/ SatosaLoad \/ UNCHANGED vars
  <2>1. UNCHANGED <<rows, active, disk, pc, cert, seen, on, alone>>
    BY <1>6 DEF OtherReload, SatosaLoad, vars, store, local, hist
  <2>. QED  BY <2>1 DEF MInv, OthersIdle, Commits
<1>. QED  BY <1>1, <1>2, <1>3, <1>4, <1>5, <1>6, <1>7 DEF Next

(* Whatever overlaps and deaths went before, the last active certificate goes  *)
(* only by a request that another has overlapped, or by a backup without one.  *)
THEOREM LastActiveKept == Spec => ActiveKept
<1>1. MInv /\ [Next]_vars
        => [active # {} /\ active' = {}
               => \E h \in Handlers :
                     /\ pc'[h] # pc[h]
                     /\ h \in alone => pc[h] = "import" /\ cert[h] = None]_vars
  <2>. SUFFICES ASSUME MInv, Next, active # {}, active' = {}
                PROVE  \E h \in Handlers :
                          /\ pc'[h] # pc[h]
                          /\ h \in alone => pc[h] = "import" /\ cert[h] = None
    OBVIOUS
  <2>t. TypeOK
    BY DEF MInv, TypeInv
  <2>1. PICK h \in Handlers : ActivateCommit(h) \/ ImportCommit(h) \/ DeleteCommit(h)
    <3>1. ASSUME NEW h \in Handlers, GenerateRead(h) \/ ImportDelete(h) \/ Regenerate(h)
          PROVE  FALSE
      BY <3>1 DEF GenerateRead, ImportDelete, Regenerate, store
    <3>2. ASSUME NEW h \in Handlers, NEW c \in Certs, ActivateRead(h, c) \/ DeleteRead(h, c)
          PROVE  FALSE
      BY <3>2 DEF ActivateRead, DeleteRead, store
    <3>3. ASSUME NEW h \in Handlers, GenerateCommit(h) \/ ActivateReadAll(h) \/ CommitFails(h)
                 \/ ImportSelect(h) \/ WriteCert(h) \/ WriteKey(h) \/ Reload(h)
                 \/ ImportUnwritten(h) \/ Dies(h)
          PROVE  FALSE
      BY <3>3 DEF GenerateCommit, ActivateReadAll, CommitFails, ImportSelect, WriteCert,
         WriteKey, Reload, ImportUnwritten, Dies, store
    <3>4. ASSUME OtherReload \/ SatosaLoad PROVE FALSE
      BY <3>4 DEF OtherReload, SatosaLoad, store
    <3>. QED  BY <3>1, <3>2, <3>3, <3>4 DEF Next, Proceed
  <2>2. pc'[h] # pc[h]
    BY <2>t, <2>1 DEF ActivateCommit, ImportCommit, DeleteCommit, Goto, End, Become, TypeOK
  <2>3. ASSUME h \in alone PROVE pc[h] = "import" /\ cert[h] = None
    <3>c. Commits(h)
      BY <2>3 DEF MInv
    <3>1. ~ActivateCommit(h)
      BY <3>c DEF ActivateCommit, Raised, Lowered, Commits
    <3>2. ~DeleteCommit(h)
      BY <3>c DEF DeleteCommit, Commits
    <3>. QED  BY <2>1, <3>1, <3>2 DEF ImportCommit, Bundled
  <2>. QED  BY <2>2, <2>3
<1>. QED  BY <1>1, MInvInit, MInvInductive, PTL DEF Spec, ActiveKept

(* Whatever overlaps and deaths left behind, a certificate generated,          *)
(* activated or restored by a request that has had no other beside it ends as  *)
(* the only active one and with both its files on the volume.                  *)
THEOREM AloneMends == Spec => Mends
<1>1. MInv /\ MInv' /\ [Next]_vars
        => [\A h \in alone : pc[h] = "key" /\ disk'.key = cert[h]
               => active' = {cert[h]} /\ disk' = Both(cert[h])]_vars
  <2>. SUFFICES ASSUME MInv, MInv', Next, NEW h \in alone, pc[h] = "key", disk'.key = cert[h]
                PROVE  active' = {cert[h]} /\ disk' = Both(cert[h])
    OBVIOUS
  <2>t. TypeOK /\ TypeOK' /\ h \in Handlers
    BY DEF MInv, TypeInv, TypeOK
  <2>1. active = {cert[h]} /\ disk.cert = cert[h] /\ \A g \in Handlers \ {h} : pc[g] = "idle"
    BY DEF MInv, Commits, OthersIdle
  <2>2. active' = active /\ disk'.cert = disk.cert
    <3>1. ASSUME NEW g \in Handlers, GenerateRead(g) \/ ImportDelete(g) \/ Regenerate(g)
          PROVE  active' = active /\ disk' = disk
      BY <3>1 DEF GenerateRead, ImportDelete, Regenerate, store
    <3>2. ASSUME NEW g \in Handlers, NEW c \in Certs, ActivateRead(g, c) \/ DeleteRead(g, c)
          PROVE  active' = active /\ disk' = disk
      BY <3>2 DEF ActivateRead, DeleteRead, store
    <3>3. ASSUME NEW g \in Handlers, Proceed(g) \/ ImportUnwritten(g) \/ Dies(g)
          PROVE  active' = active /\ disk'.cert = disk.cert
      <4>1. pc[g] # "idle"
        BY <3>3 DEF Proceed, Dies, GenerateCommit, ActivateReadAll, ActivateCommit, CommitFails,
           ImportCommit, ImportSelect, ImportUnwritten, WriteCert, WriteKey, DeleteCommit, Reload
      <4>2. pc[g] = "key"
        BY <2>1, <4>1
      <4>3. WriteKey(g) \/ ImportUnwritten(g) \/ Dies(g)
        BY <3>3, <4>2 DEF Proceed, GenerateCommit, ActivateReadAll, ActivateCommit, CommitFails,
           ImportCommit, ImportSelect, WriteCert, DeleteCommit, Reload
      <4>. QED  BY <2>t, <4>3 DEF WriteKey, ImportUnwritten, Dies, store, TypeOK, Pair
    <3>4. ASSUME OtherReload \/ SatosaLoad PROVE active' = active /\ disk' = disk
      BY <3>4 DEF OtherReload, SatosaLoad, store
    <3>. QED  BY <3>1, <3>2, <3>3, <3>4 DEF Next
  <2>3. disk' = [cert |-> disk'.cert, key |-> disk'.key]
    BY <2>t DEF TypeOK, Pair
  <2>. QED  BY <2>1, <2>2, <2>3 DEF Both
<1>. QED  BY <1>1, MInvInit, MInvInductive, PTL DEF Spec, Mends
==============================================================================
